--------------------------- MODULE ExecutionStore ---------------------------
(***************************************************************************)
(* One instance of ExecutionStoreV1 (src/src/execution-store.mjs) and the  *)
(* file of one work unit.  #mutate chains the mutations of a work unit: a  *)
(* mutation reads the file, computes the next record, writes a temporary   *)
(* file and renames it, and only then does the next one begin.  Its caller *)
(* has gone on meanwhile, other mutations may queue up behind it, and the  *)
(* process may stop between the read and the rename.                       *)
(***************************************************************************)
EXTENDS WorkUnitRecord

CONSTANTS
  Callers,    \* concurrent callers of the instance
  Initial,    \* records the file may hold before, None among them
  Specs,      \* work-unit specs the callers pass
  Numbers,    \* revisions and attempts the callers name
  MaxCrashes  \* bound on process crashes

ASSUME InstanceAssumption ==
  /\ \A r \in Initial : r = None \/ ValidRecord(r)
  /\ None \notin Records
  /\ Numbers \subseteq Nat
  /\ MaxCrashes \in Nat

VARIABLES
  file,     \* the record on disk
  queue,    \* the callers whose mutation is not done, in order (#mutations)
  reading,  \* the callers whose mutation has read the file
  copy,     \* what each of them read
  crashes

Unit == INSTANCE WorkUnit WITH record <- file

vars == <<file, queue, reading, copy, crashes>>

Init ==
  /\ file \in Initial
  /\ queue = << >>
  /\ reading = {}
  /\ copy = [c \in Callers |-> None]
  /\ crashes = 0

Queued(c) == \E i \in 1 .. Len(queue) : queue[i] = c

\* A caller asks for a mutation; which one shows when it writes.
Call(c) ==
  /\ ~ Queued(c)
  /\ queue' = Append(queue, c)
  /\ UNCHANGED <<file, reading, copy, crashes>>

Bug_AnyTurn(c) == Queued(c)

\* previous.catch().then(callback): the mutation before it has settled.
Turn(c) == queue # << >> /\ Head(queue) = c

Read(c) ==
  /\ Turn(c)
  /\ c \notin reading
  /\ reading' = reading \cup {c}
  /\ copy' = [copy EXCEPT ![c] = file]
  /\ UNCHANGED <<file, queue, crashes>>

Settle(c) ==
  /\ c \in reading
  /\ queue' = Tail(queue)
  /\ reading' = reading \ {c}
  /\ copy' = [copy EXCEPT ![c] = None]
  /\ UNCHANGED crashes

\* What a transition leaves behind.  A replay returns the record it read and
\* renames nothing.
Write(c, records) ==
  /\ Settle(c)
  /\ \E r \in records : file' = IF r = copy[c] THEN file ELSE r

\* Refused, or the temporary file could not be written or renamed.
Throw(c) == Settle(c) /\ UNCHANGED file

CreateCall(c) ==
  \E new \in Specs : Write(c, Create(copy[c], new))

ReviseCall(c) ==
  \E new \in Specs, n \in Numbers :
    copy[c] # None /\ Write(c, Revise(copy[c], Unit!Revised(copy[c], new), n))

MarkLaunchPendingCall(c) ==
  \E n \in Numbers, a \in Actions :
    Write(c, MarkLaunchPending(copy[c], n, a))

BindCall(c) ==
  \E n \in Numbers, a \in Actions, m \in Threads :
    Write(c, Bind(copy[c], n, a, m))

AdvanceAttemptCall(c) ==
  \E n, k \in Numbers : Write(c, AdvanceAttempt(copy[c], n, k))

DetachCall(c) ==
  \E n, k \in Numbers, m \in Threads :
    Write(c, DetachImpossibleRequiredMember(copy[c], n, k, m))

BeginReplacementCall(c) ==
  \E n, k \in Numbers, a \in Actions :
    Write(c, BeginReplacement(copy[c], n, k, a))

\* The process stops; its queue and what it read are gone, the file is not.
Crash ==
  /\ crashes < MaxCrashes
  /\ crashes' = crashes + 1
  /\ queue' = << >>
  /\ reading' = {}
  /\ copy' = [c \in Callers |-> None]
  /\ UNCHANGED file

Next ==
  \/ \E c \in Callers :
       \/ Call(c) \/ Read(c) \/ Throw(c)
       \/ CreateCall(c) \/ ReviseCall(c) \/ MarkLaunchPendingCall(c)
       \/ BindCall(c) \/ AdvanceAttemptCall(c) \/ DetachCall(c)
       \/ BeginReplacementCall(c)
  \/ Crash

Spec == Init /\ [][Next]_vars

-----------------------------------------------------------------------------
(* Types: the file is a record or nothing, and so is every copy.           *)
TypeOK ==
  /\ file \in Records \cup {None}
  /\ queue \in Seq(Callers)
  /\ reading \subseteq Callers
  /\ copy \in [Callers -> Records \cup {None}]
  /\ crashes \in 0 .. MaxCrashes

(* Whatever is on disk passes the validator, so the next read of the unit  *)
(* does not fail as malformed: #write validates as well, and this says     *)
(* that it never has to refuse what a transition computed.                 *)
FileValid == Unit!RecordValid

(* A mutation in flight works on what is on disk now: nothing was written  *)
(* between its read and its rename.                                        *)
CopyIsCurrent == \A c \in reading : copy[c] = file

(* Queued, crashing and failing mutations look, from outside, like one     *)
(* transition after the other on the stored record.                        *)
AtomicMutations == Unit!Spec

(* Revision, attempt, generation and history never go back, and a bound    *)
(* generation keeps its member: no mutation undoes another one.            *)
NothingTakenBack == Unit!NothingTakenBack
=============================================================================
