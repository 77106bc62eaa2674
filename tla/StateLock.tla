------------------------------ MODULE StateLock ------------------------------
(***************************************************************************)
(* The cross-process state lock of src/src/task-state.mjs                  *)
(* (withOwnedStateLock) with the lease rule of process-liveness.mjs.       *)
(*                                                                         *)
(* The lock is one directory.  mkdir takes it, owner.json inside it names  *)
(* the holder, and a rename to a private path gives it back.  A caller     *)
(* that finds the directory reads owner.json, stats the directory, probes  *)
(* the owner's process, and may move an abandoned directory out of the     *)
(* way.  Each file-system call is a step of its own, so calls of several   *)
(* processes interleave between any two of them.                           *)
(***************************************************************************)
EXTENDS Naturals, FiniteSets

CONSTANTS
  Calls,        \* calls of withOwnedStateLock on this lock name
  Procs,        \* operating system processes (MCP servers and CLI runs)
  host,         \* the process each call runs in
  Mortal,       \* the processes that may end
  Strong,       \* the processes whose identity has a strong kind (start time)
  MaxReuses,    \* bound: times the system gives a process id to a new process
  MaxStalls,    \* bound: live creators held up 30 s before owner.json exists
  Nothing       \* no directory, no owner record

ASSUME ConstantsAssumption ==
  /\ host \in [Calls -> Procs]
  /\ Mortal \subseteq Procs
  /\ Strong \subseteq Procs
  /\ MaxReuses \in Nat
  /\ MaxStalls \in Nat

VARIABLES
  pc,        \* where each call stands
  dir,       \* the lock directory: Nothing, or who made it, its owner.json, its age
  seen,      \* the owner.json a waiting call has read (Nothing: missing)
  sawOld,    \* what a waiting call learned from stat: older than 30 s
  alive,     \* the running processes
  life,      \* how many processes have had this process id
  stalls     \* stalled creators so far

lockVars == <<pc, dir, seen, sawOld, alive, life, stalls>>

(***************************************************************************)
(* An owner record keeps the call (its random token) and the life of the   *)
(* process that wrote it (processIdentity).                                *)
(***************************************************************************)
OwnerRecords == [call : Calls, life : 0 .. MaxReuses]
Directories == [maker : Calls, owner : OwnerRecords \cup {Nothing}, old : BOOLEAN]

ASSUME NothingAssumption == Nothing \notin OwnerRecords \cup Directories

Waiting == {"readOwner", "stat", "probe", "reclaim", "retry"}
Creating == {"writeOwner", "undo"}
Releasing == {"readToken", "release"}
Holding == {"callback"} \cup Releasing
PCs == {"idle", "mkdir", "dead"} \cup Creating \cup Holding \cup Waiting

LockInit ==
  /\ pc = [c \in Calls |-> "idle"]
  /\ dir = Nothing
  /\ seen = [c \in Calls |-> Nothing]
  /\ sawOld = [c \in Calls |-> FALSE]
  /\ alive = Procs
  /\ life = [p \in Procs |-> 0]
  /\ stalls = 0

Me(c) == [call |-> c, life |-> life[host[c]]]

Goto(c, label) == pc' = [pc EXCEPT ![c] = label]

-----------------------------------------------------------------------------
(* Faults a change could bring in, for the runs that mutate the model: a    *)
(* lease rule that probes nothing, one that knows process ids only, no      *)
(* grace for a directory without owner.json, a wrong field read.            *)
Bug_OwnerNotProbed(o) == FALSE

Bug_IdOnly(o) == host[o.call] \in alive

Bug_ReadsMaker(c) ==
  /\ pc[c] = "readOwner"
  /\ seen' = [seen EXCEPT ![c] = IF dir = Nothing THEN Nothing ELSE dir.maker]
  /\ Goto(c, "stat")
  /\ UNCHANGED <<dir, sawOld, alive, life, stalls>>

(***************************************************************************)
(* processMayOwnLease(recorded, active, TRUE): not when the process is     *)
(* gone, nor when a strong identity shows that its id was given to a new   *)
(* process; a host that only knows the id has no such proof.               *)
(***************************************************************************)
MayOwn(o) ==
  LET p == host[o.call]
  IN  p \in alive /\ (life[p] = o.life \/ p \notin Strong)

Bug_NoGrace(c) == seen[c] = Nothing \/ ~ MayOwn(seen[c])

Abandoned(c) == IF seen[c] # Nothing THEN ~ MayOwn(seen[c]) ELSE sawOld[c]

-----------------------------------------------------------------------------
(* Acquisition *)

Acquire(c) ==
  /\ pc[c] = "idle"
  /\ Goto(c, "mkdir")
  /\ UNCHANGED <<dir, seen, sawOld, alive, life, stalls>>

Mkdir(c) ==
  /\ pc[c] = "mkdir"
  /\ IF dir = Nothing
     THEN /\ dir' = [maker |-> c, owner |-> Nothing, old |-> FALSE]
          /\ Goto(c, "writeOwner")
     ELSE /\ Goto(c, "readOwner")
          /\ UNCHANGED dir
  /\ UNCHANGED <<seen, sawOld, alive, life, stalls>>

\* writeFile goes to the path, whichever directory is there by now.
WriteOwner(c) ==
  /\ pc[c] = "writeOwner"
  /\ dir # Nothing
  /\ dir' = [dir EXCEPT !.owner = Me(c)]
  /\ Goto(c, "callback")
  /\ UNCHANGED <<seen, sawOld, alive, life, stalls>>

\* The write fails: always without a directory, else when the disk says so.
WriteOwnerFails(c) ==
  /\ pc[c] = "writeOwner"
  /\ Goto(c, "undo")
  /\ UNCHANGED <<dir, seen, sawOld, alive, life, stalls>>

\* rm(lockPath, recursive) and rethrow.
Undo(c) ==
  /\ pc[c] = "undo"
  /\ dir' = Nothing
  /\ Goto(c, "idle")
  /\ UNCHANGED <<seen, sawOld, alive, life, stalls>>

ReadOwner(c) ==
  /\ pc[c] = "readOwner"
  /\ seen' = [seen EXCEPT ![c] = IF dir = Nothing THEN Nothing ELSE dir.owner]
  /\ Goto(c, "stat")
  /\ UNCHANGED <<dir, sawOld, alive, life, stalls>>

Stat(c) ==
  /\ pc[c] = "stat"
  /\ sawOld' = [sawOld EXCEPT ![c] = dir # Nothing /\ dir.old]
  /\ Goto(c, "probe")
  /\ UNCHANGED <<dir, seen, alive, life, stalls>>

Probe(c) ==
  /\ pc[c] = "probe"
  /\ Goto(c, IF Abandoned(c) THEN "reclaim" ELSE "retry")
  /\ UNCHANGED <<dir, seen, sawOld, alive, life, stalls>>

\* moveStaleLock renames what stands at the path now; ENOENT goes to retry.
Reclaim(c) ==
  /\ pc[c] = "reclaim"
  /\ dir' = Nothing
  /\ Goto(c, IF dir # Nothing THEN "mkdir" ELSE "retry")
  /\ UNCHANGED <<seen, sawOld, alive, life, stalls>>

\* Past the deadline the call throws, else it sleeps and tries again.
Retry(c) ==
  /\ pc[c] = "retry"
  /\ \E label \in {"mkdir", "idle"} : Goto(c, label)
  /\ UNCHANGED <<dir, seen, sawOld, alive, life, stalls>>

-----------------------------------------------------------------------------
(* The callback and the release *)

CallbackEnds(c) ==
  /\ pc[c] = "callback"
  /\ Goto(c, "readToken")
  /\ UNCHANGED <<dir, seen, sawOld, alive, life, stalls>>

ReadToken(c) ==
  /\ pc[c] = "readToken"
  /\ Goto(c, IF dir # Nothing /\ dir.owner = Me(c) THEN "release" ELSE "idle")
  /\ UNCHANGED <<dir, seen, sawOld, alive, life, stalls>>

Release(c) ==
  /\ pc[c] = "release"
  /\ dir' = Nothing
  /\ Goto(c, "idle")
  /\ UNCHANGED <<seen, sawOld, alive, life, stalls>>

-----------------------------------------------------------------------------
(* The environment: processes that end, reused process ids, the clock *)

\* A CLI run exits after its command, a server is closed or crashes: with the
\* lock or without it.
Exit(p) ==
  /\ p \in alive \cap Mortal
  /\ alive' = alive \ {p}
  /\ pc' = [c \in Calls |-> IF host[c] = p THEN "dead" ELSE pc[c]]
  /\ UNCHANGED <<dir, seen, sawOld, life, stalls>>

\* The system gives the process id to a new process, which made no call.
ReuseId(p) ==
  /\ p \in Procs \ alive
  /\ life[p] < MaxReuses
  /\ alive' = alive \cup {p}
  /\ life' = [life EXCEPT ![p] = @ + 1]
  /\ UNCHANGED <<pc, dir, seen, sawOld, stalls>>

\* 30 s pass over a directory without owner.json.  Its maker has ended, or
\* it is held up between mkdir and writeFile (at most MaxStalls times).
Age ==
  /\ dir # Nothing
  /\ dir.owner = Nothing
  /\ ~ dir.old
  /\ LET stalled == IF pc[dir.maker] \in Creating THEN 1 ELSE 0
     IN  /\ stalls + stalled <= MaxStalls
         /\ stalls' = stalls + stalled
  /\ dir' = [dir EXCEPT !.old = TRUE]
  /\ UNCHANGED <<pc, seen, sawOld, alive, life>>

Step(c) ==
  \/ Mkdir(c) \/ WriteOwner(c) \/ WriteOwnerFails(c) \/ Undo(c)
  \/ ReadOwner(c) \/ Stat(c) \/ Probe(c) \/ Reclaim(c) \/ Retry(c)
  \/ CallbackEnds(c) \/ ReadToken(c) \/ Release(c)

LockNext ==
  \/ \E c \in Calls : Acquire(c) \/ Step(c)
  \/ \E p \in Procs : Exit(p) \/ ReuseId(p)
  \/ Age

(***************************************************************************)
(* A running process keeps executing the calls it has begun (the event     *)
(* loop), and time passes.  Nothing makes a process call, end, or write    *)
(* without success.                                                        *)
(***************************************************************************)
LockFairness ==
  /\ \A c \in Calls : WF_lockVars(Step(c))
  /\ WF_lockVars(Age)

LockSpec == LockInit /\ [][LockNext]_lockVars /\ LockFairness

-----------------------------------------------------------------------------
(* Types of the variables above: the directory and every call's registers. *)
LockTypeOK ==
  /\ pc \in [Calls -> PCs]
  /\ dir \in Directories \cup {Nothing}
  /\ seen \in [Calls -> OwnerRecords \cup {Nothing}]
  /\ sawOld \in [Calls -> BOOLEAN]
  /\ alive \subseteq Procs
  /\ life \in [Procs -> 0 .. MaxReuses]
  /\ stalls \in 0 .. MaxStalls

(* Two calls never run their callbacks (or their release) at the same      *)
(* time: what every "with...Lock" of task-state.mjs is used for.           *)
MutualExclusion ==
  \A c, d \in Calls : pc[c] \in Holding /\ pc[d] \in Holding => c = d

(* The directory of a call that is running its callback is there and names *)
(* it, until that call itself releases it: no waiter, no failed creation   *)
(* and no release of another call takes it away (moveStaleLock and both rm *)
(* calls address the path, not the directory they judged).                 *)
HolderKeepsItsDirectory ==
  \A c \in Calls : pc[c] \in Holding => dir # Nothing /\ dir.owner = Me(c)

LeftByTheDead ==
  /\ dir # Nothing
  /\ dir.owner # Nothing
  /\ LET p == host[dir.owner.call]
     IN  p \notin alive \/ life[p] # dir.owner.life

(* A process that ended with the lock does not keep it for ever, not       *)
(* even when its process id lives on in another process (given strong      *)
(* identities): once a call is trying, the dead owner's directory goes     *)
(* away (the abandoned branch is tried before the deadline).               *)
DeadOwnerIsReclaimed ==
  \A c \in Calls :
    (pc[c] = "mkdir" /\ LeftByTheDead) ~> (~ LeftByTheDead \/ pc[c] = "dead")

=============================================================================
