------------------------------ MODULE WorkUnit ------------------------------
(***************************************************************************)
(* What the execution store promises of one work unit: its record takes    *)
(* one transition of execution-store.mjs after the other, each on the      *)
(* record the one before it left.                                          *)
(***************************************************************************)
EXTENDS WorkUnitRecord

CONSTANTS
  Initial,  \* records the file may hold before, None among them
  Specs,    \* work-unit specs callers pass
  Numbers   \* revisions and attempts callers name

VARIABLE record

CreateStep == \E new \in Specs : record' \in Create(record, new)

\* A revision keeps the launch state of the record it revises.
Revised(r, new) ==
  [new EXCEPT !.attempt = r.attempt, !.binding = r.binding, !.history = r.history]

ReviseStep ==
  \E new \in Specs, n \in Numbers :
    record # None /\ record' \in Revise(record, Revised(record, new), n)

LaunchStep ==
  \E n \in Numbers, a \in Actions : record' \in MarkLaunchPending(record, n, a)

BindStep ==
  \E n \in Numbers, a \in Actions, m \in Threads :
    record' \in Bind(record, n, a, m)

AdvanceStep ==
  \E n, k \in Numbers : record' \in AdvanceAttempt(record, n, k)

DetachStep ==
  \E n, k \in Numbers, m \in Threads :
    record' \in DetachImpossibleRequiredMember(record, n, k, m)

ReplaceStep ==
  \E n, k \in Numbers, a \in Actions :
    record' \in BeginReplacement(record, n, k, a)

\* No record yet, or one an older version wrote: it may require a member
\* that cannot be read.
Init == record \in Initial

Next ==
  \/ CreateStep \/ ReviseStep \/ LaunchStep \/ BindStep
  \/ AdvanceStep \/ DetachStep \/ ReplaceStep

Spec == Init /\ [][Next]_record

-----------------------------------------------------------------------------
(* The record is always one the validator accepts: no transition writes a  *)
(* record that the next read would reject as malformed.                    *)
RecordValid == record = None \/ ValidRecord(record)

(* A record is never lost, and what it has said of a launch stays said.    *)
NothingTakenBack == [][record # None => Forward(record, record')]_record
=============================================================================
