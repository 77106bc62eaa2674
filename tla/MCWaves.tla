------------------------------- MODULE MCWaves -------------------------------
(* Two waves: two spin-offs and a joined member, then a spin-off that needs  *)
(* the joined member.  Each start explores one mix of calls and faults.     *)
EXTENDS Waves, TLC

CONSTANTS a, c, m, b

TwoWaves == [s \in {a, c, m, b} |-> IF s = b THEN 2 ELSE 1]

Kinds == [s \in {a, c, m, b} |-> IF s = m THEN "subagent" ELSE "spinoff"]

Needs == [s \in {a, c, m, b} |-> IF s = b THEN {m} ELSE {}]

Start(found, creates, verifies, completes, cleanups, corrects, crashes, losses) ==
  [found |-> found,
   budget |-> [create |-> creates, verify |-> verifies, complete |-> completes,
               cleanup |-> cleanups, correct |-> corrects, crash |-> crashes,
               loss |-> losses]]

Few == {Start(None, 2, 2, 0, 1, 0, 0, 0),
        Start("old", 2, 1, 0, 1, 0, 0, 0),
        Start("planless", 1, 1, 0, 1, 0, 0, 0),
        Start("current", 1, 1, 0, 1, 1, 1, 0),
        Start(None, 1, 1, 0, 2, 0, 0, 0),
        Start("current", 1, 0, 0, 2, 0, 1, 0),
        Start(None, 1, 0, 2, 0, 0, 1, 1),
        Start(None, 1, 0, 1, 1, 0, 1, 1)}

Interchangeable == Permutations(Procs) \cup Permutations({a, c})
=============================================================================
