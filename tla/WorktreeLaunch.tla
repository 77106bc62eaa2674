--------------------------- MODULE WorktreeLaunch ---------------------------
(***************************************************************************)
(* `nelos worktree launch` (runWorktreeLaunch of src/bin/nelos) and        *)
(* `nelos worktree provision` with provisionWorktreeV1 of                  *)
(* src/src/worktree-provisioning.mjs, for one work unit, one branch and    *)
(* one worktree path.                                                      *)
(*                                                                         *)
(* Every run is a process with a store of its own.  A run ends early at    *)
(* any step, by an error or a crash; a git command it started may finish   *)
(* after it.  Only provisioning holds a lock, that of the repository.      *)
(***************************************************************************)
EXTENDS WorkUnitRecord, FiniteSets

CONSTANTS
  Runs,         \* CLI runs that overlap
  LaunchAction, \* the action id deriveWorktreeTargetV1 gives the unit
  MaxLaunches,  \* how many of the runs at one time are launches
  MaxEarlyEnds  \* bound on errors and crashes

Operations == {"create", "adopt"}
ReceiptStates == {"provisioning", "provisioned", "attention"}
Receipts == [operation : Operations, state : ReceiptStates]

ASSUME WorktreeAssumption ==
  /\ LaunchAction \in Actions
  /\ None \notin Runs \cup Records \cup Receipts
  /\ MaxLaunches \in Nat
  /\ MaxEarlyEnds \in Nat

VARIABLES
  file,      \* the work-unit record
  receipts,  \* the provisioning receipt of each action id
  worktree,  \* what is at the path: nothing, a half-made checkout, the base
             \* commit, or a member's work on top of it
  orphan,    \* a git worktree add whose run has ended
  repoLock,  \* the run in the repository lock
  pc,        \* where each run stands
  job,       \* what it was asked: a launch or not, the action, the operation
  copy,      \* the record it read last
  tasks,     \* tasks started in the worktree
  started,   \* the task each run has started
  earlyEnds

run == <<pc, job, copy, started>>
vars == <<file, receipts, worktree, orphan, repoLock, run, tasks, earlyEnds>>

Definition ==
  [revision |-> 1, attempt |-> 1, maxAttempts |-> 1, required |-> TRUE,
   readable |-> TRUE, binding |-> Unbound, history |-> << >>]

NoJob == [launch |-> FALSE, action |-> LaunchAction, operation |-> "create"]
Jobs == [launch : BOOLEAN, action : Actions, operation : Operations]
PCs == {"idle", "read", "create", "createWrite", "check", "mark", "markWrite",
        "wait", "examine", "git", "verify", "start", "bind", "bindWrite",
        "done"}

Init ==
  /\ file = None
  /\ receipts = [a \in Actions |-> None]
  /\ worktree \in {"absent", "base"}
  /\ orphan = FALSE
  /\ repoLock = None
  /\ pc = [r \in Runs |-> "idle"]
  /\ job = [r \in Runs |-> NoJob]
  /\ copy = [r \in Runs |-> None]
  /\ started = [r \in Runs |-> None]
  /\ tasks = {}
  /\ earlyEnds = 0

Goto(r, label) == pc' = [pc EXCEPT ![r] = label]

\* The process ends, whatever it returned or threw; its lock is free again.
Over(r) ==
  /\ Goto(r, "idle")
  /\ job' = [job EXCEPT ![r] = NoJob]
  /\ copy' = [copy EXCEPT ![r] = None]
  /\ started' = [started EXCEPT ![r] = None]
  /\ repoLock' = IF repoLock = r THEN None ELSE repoLock

-----------------------------------------------------------------------------
(* runWorktreeLaunch up to the provisioning *)

Launches == {r \in Runs : pc[r] # "idle" /\ job[r].launch}

StartLaunch(r) ==
  /\ pc[r] = "idle"
  /\ Cardinality(Launches) < MaxLaunches
  /\ Goto(r, "read")
  /\ job' = [job EXCEPT ![r] = [NoJob EXCEPT !.launch = TRUE]]
  /\ UNCHANGED <<file, receipts, worktree, orphan, repoLock, copy, started,
                 tasks, earlyEnds>>

ReadThen(r, from, to) ==
  /\ pc[r] = from
  /\ Goto(r, to)
  /\ copy' = [copy EXCEPT ![r] = file]
  /\ UNCHANGED <<file, receipts, worktree, orphan, repoLock, job, started,
                 tasks, earlyEnds>>

\* What a transition leaves behind; when it throws, the run ends.  A replay
\* returns the record it read and renames nothing.
WriteThen(r, from, records, to) ==
  /\ pc[r] = from
  /\ IF records = {} THEN Over(r) /\ UNCHANGED file
     ELSE /\ \E new \in records :
               /\ file' = IF new = copy[r] THEN file ELSE new
               /\ copy' = [copy EXCEPT ![r] = new]
          /\ Goto(r, to)
          /\ UNCHANGED <<job, started, repoLock>>
  /\ UNCHANGED <<receipts, worktree, orphan, tasks, earlyEnds>>

ReadUnit(r) == ReadThen(r, "read", IF file = None THEN "create" ELSE "check")

CreateRead(r) == ReadThen(r, "create", "createWrite")

CreateWrite(r) ==
  WriteThen(r, "createWrite", Create(copy[r], Definition), "check")

Bug_LaunchesPending(r) ==
  /\ pc[r] = "check"
  /\ IF copy[r].binding.state = "bound"
     THEN Over(r)
     ELSE Goto(r, "mark") /\ UNCHANGED <<job, copy, started, repoLock>>
  /\ UNCHANGED <<file, receipts, worktree, orphan, tasks, earlyEnds>>

\* A bound unit is reported, a pending one needs the queen, and an unbound one
\* is launched when deriveWebReadinessV1 finds it ready (which may change with
\* other units, so both answers are possible).
Check(r) ==
  /\ pc[r] = "check"
  /\ \/ Over(r)
     \/ /\ copy[r].binding.state = "unbound"
        /\ Goto(r, "mark")
        /\ UNCHANGED <<job, copy, started, repoLock>>
  /\ UNCHANGED <<file, receipts, worktree, orphan, tasks, earlyEnds>>

MarkRead(r) == ReadThen(r, "mark", "markWrite")

MarkWrite(r) ==
  WriteThen(r, "markWrite", MarkLaunchPending(copy[r], 1, LaunchAction), "wait")

-----------------------------------------------------------------------------
(* provisionWorktreeV1, on behalf of a launch or of `worktree provision` *)

StartProvision(r) ==
  /\ pc[r] = "idle"
  /\ \E a \in Actions, op \in Operations :
       job' = [job EXCEPT ![r] =
                 [launch |-> FALSE, action |-> a, operation |-> op]]
  /\ Goto(r, "wait")
  /\ UNCHANGED <<file, receipts, worktree, orphan, repoLock, copy, started,
                 tasks, earlyEnds>>

\* withRepositoryProvisioningLock
Lock(r) ==
  /\ pc[r] = "wait"
  /\ repoLock = None
  /\ repoLock' = r
  /\ Goto(r, "examine")
  /\ UNCHANGED <<file, receipts, worktree, orphan, job, copy, started, tasks,
                 earlyEnds>>

WriteReceipt(r, state) ==
  receipts' = [receipts EXCEPT ![job[r].action] =
                 [operation |-> job[r].operation, state |-> state]]

\* Provisioning returns: a launch goes on without the lock.
Provisioned(r) ==
  IF job[r].launch
  THEN /\ Goto(r, "start")
       /\ repoLock' = None
       /\ UNCHANGED <<job, copy, started>>
  ELSE Over(r)

\* inspectWorktree: what it accepts, at the base commit only or with later work.
Inspected(pristine) ==
  worktree = "base" \/ (~ pristine /\ worktree = "worked")

Bug_TrustsReceipt(r) ==
  /\ pc[r] = "examine"
  /\ receipts[job[r].action] # None
  /\ LET receipt == receipts[job[r].action]
     IN  IF receipt.operation # job[r].operation \/ receipt.state = "attention"
         THEN Over(r) /\ UNCHANGED receipts
         ELSE WriteReceipt(r, "provisioned") /\ Provisioned(r)
  /\ UNCHANGED <<file, worktree, orphan, tasks, earlyEnds>>

\* A receipt of this action exists: it is verified, never provisioned again.
Resume(r) ==
  /\ pc[r] = "examine"
  /\ receipts[job[r].action] # None
  /\ LET receipt == receipts[job[r].action]
     IN  IF receipt.operation # job[r].operation \/ receipt.state = "attention"
         THEN Over(r) /\ UNCHANGED receipts
         ELSE IF Inspected(receipt.state = "provisioning")
         THEN WriteReceipt(r, "provisioned") /\ Provisioned(r)
         ELSE WriteReceipt(r, "attention") /\ Over(r)
  /\ UNCHANGED <<file, worktree, orphan, tasks, earlyEnds>>

Bug_ClaimsOwned(r) ==
  worktree = IF job[r].operation = "create" THEN "absent" ELSE "base"

\* absentWorktreePath, assertNoOwnershipConflict and the check of an adoption.
MayClaim(r) ==
  /\ \A a \in Actions \ {job[r].action} : receipts[a] = None
  /\ worktree = IF job[r].operation = "create" THEN "absent" ELSE "base"

\* The receipt is written before the effect.
Claim(r) ==
  /\ pc[r] = "examine"
  /\ receipts[job[r].action] = None
  /\ IF MayClaim(r)
     THEN /\ WriteReceipt(r, "provisioning")
          /\ Goto(r, IF job[r].operation = "create" THEN "git" ELSE "verify")
          /\ UNCHANGED <<job, copy, started, repoLock>>
     ELSE Over(r) /\ UNCHANGED receipts
  /\ UNCHANGED <<file, worktree, orphan, tasks, earlyEnds>>

\* git worktree add -b: done, or failed with or without something left behind.
Added == IF worktree = "absent" THEN {"absent", "partial", "base"} ELSE {worktree}

Git(r) ==
  /\ pc[r] = "git"
  /\ worktree' \in Added
  /\ Goto(r, "verify")
  /\ UNCHANGED <<file, receipts, orphan, repoLock, job, copy, started, tasks,
                 earlyEnds>>

\* The same inspection follows a git command that succeeded and one that did
\* not; both write provisioned only for the pristine base.
Verify(r) ==
  /\ pc[r] = "verify"
  /\ IF Inspected(TRUE)
     THEN WriteReceipt(r, "provisioned") /\ Provisioned(r)
     ELSE WriteReceipt(r, "attention") /\ Over(r)
  /\ UNCHANGED <<file, worktree, orphan, tasks, earlyEnds>>

-----------------------------------------------------------------------------
(* The task *)

Bug_StartsUnverified(r) ==
  /\ pc[r] \in {"wait", "start"}
  /\ job[r].launch
  /\ \E t \in Threads \ tasks :
       /\ tasks' = tasks \cup {t}
       /\ started' = [started EXCEPT ![r] = t]
  /\ Goto(r, "bind")
  /\ UNCHANGED <<file, receipts, worktree, orphan, repoLock, job, copy, earlyEnds>>

\* runSpinoff creates the thread and starts its first turn.
StartTask(r) ==
  /\ pc[r] = "start"
  /\ \E t \in Threads \ tasks :
       /\ tasks' = tasks \cup {t}
       /\ started' = [started EXCEPT ![r] = t]
  /\ Goto(r, "bind")
  /\ UNCHANGED <<file, receipts, worktree, orphan, repoLock, job, copy, earlyEnds>>

BindRead(r) == ReadThen(r, "bind", "bindWrite")

BindWrite(r) ==
  WriteThen(r, "bindWrite", Bind(copy[r], 1, LaunchAction, started[r]), "done")

Return(r) ==
  /\ pc[r] = "done"
  /\ Over(r)
  /\ UNCHANGED <<file, receipts, worktree, orphan, tasks, earlyEnds>>

\* A started task works in the worktree.
Work ==
  /\ tasks # {}
  /\ worktree = "base"
  /\ worktree' = "worked"
  /\ UNCHANGED <<file, receipts, orphan, repoLock, run, tasks, earlyEnds>>

-----------------------------------------------------------------------------
(* Failures *)

\* An error or a crash; of git, the child process may live on.
EndEarly(r) ==
  /\ pc[r] # "idle"
  /\ earlyEnds < MaxEarlyEnds
  /\ earlyEnds' = earlyEnds + 1
  /\ Over(r)
  /\ orphan' = (orphan \/ pc[r] = "git")
  /\ UNCHANGED <<file, receipts, worktree, tasks>>

OrphanFinishes ==
  /\ orphan
  /\ orphan' = FALSE
  /\ worktree' \in Added
  /\ UNCHANGED <<file, receipts, repoLock, run, tasks, earlyEnds>>

Next ==
  \/ \E r \in Runs :
       \/ StartLaunch(r) \/ StartProvision(r)
       \/ ReadUnit(r) \/ CreateRead(r) \/ CreateWrite(r) \/ Check(r)
       \/ MarkRead(r) \/ MarkWrite(r)
       \/ Lock(r) \/ Resume(r) \/ Claim(r) \/ Git(r) \/ Verify(r)
       \/ StartTask(r) \/ BindRead(r) \/ BindWrite(r) \/ Return(r)
       \/ EndEarly(r)
  \/ Work \/ OrphanFinishes

Spec == Init /\ [][Next]_vars

-----------------------------------------------------------------------------
(* Types of the files, of the worktree and of every run.                   *)
TypeOK ==
  /\ file = None \/ ValidRecord(file)
  /\ receipts \in [Actions -> Receipts \cup {None}]
  /\ worktree \in {"absent", "partial", "base", "worked"}
  /\ orphan \in BOOLEAN
  /\ repoLock \in Runs \cup {None}
  /\ pc \in [Runs -> PCs]
  /\ job \in [Runs -> Jobs]
  /\ copy \in [Runs -> Records \cup {None}]
  /\ started \in [Runs -> Threads \cup {None}]
  /\ tasks \subseteq Threads
  /\ earlyEnds \in 0 .. MaxEarlyEnds

(* One writer for each worktree: an interrupted launch is not repeated,    *)
(* because nothing tells whether its task was created.                     *)
OneWriter == \A s, t \in tasks : s = t

(* One action id owns the worktree, whichever runs asked for it at the     *)
(* same time and wherever they ended.                                      *)
OneOwner ==
  \A a, b \in Actions : receipts[a] # None /\ receipts[b] # None => a = b

(* A receipt that says provisioned was verified against Git: there is a    *)
(* complete worktree on the branch, also after a recovery that met a git   *)
(* command still running.                                                  *)
ProvisionedIsReal ==
  \A a \in Actions :
    receipts[a] # None /\ receipts[a].state = "provisioned"
      => worktree \in {"base", "worked"}

(* A task was started only in a worktree whose receipt is provisioned for  *)
(* the launch of this unit, and of a unit that says it is being launched.  *)
WriterIsAccountedFor ==
  tasks # {} =>
    /\ receipts[LaunchAction] # None
    /\ receipts[LaunchAction].state = "provisioned"
    /\ file # None
    /\ file.binding.action = LaunchAction
    /\ file.binding.state = "bound" => file.binding.member \in tasks
=============================================================================
