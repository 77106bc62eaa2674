----------------------------- MODULE MCPlanning -----------------------------
(* A plan and a replan.  Of the base plan x is completed; y is new.  *)
EXTENDS Planning, TLC

Plan(slices, needs, faithful) ==
  [kind |-> "plan", slices |-> slices, needs |-> needs, faithful |-> faithful]

Fresh == Plan(<<"u", "v", "w">>, [s \in {"u", "v", "w"} |-> IF s = "w" THEN {"u"} ELSE {}], TRUE)

Revised == Plan(<<"v", "x", "u">>,
                [s \in {"v", "x", "u"} |-> IF s = "v" THEN {"x", "u"} ELSE {}], TRUE)

Low == [kind |-> "low"]

Said == {Fresh, Revised, Low}

Asked == {None, {"x"}}

Start(calls, turns, glitches, faults, losses, crashes) ==
  [call |-> calls, turn |-> turns, glitch |-> glitches, fault |-> faults, loss |-> losses, crash |-> crashes]

Few == {Start(1, 1, 1, 1, 0, 0), Start(1, 1, 0, 0, 1, 1), Start(1, 2, 0, 0, 0, 0),
        Start(2, 1, 0, 0, 0, 0)}
=============================================================================
