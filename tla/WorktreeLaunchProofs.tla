------------------------ MODULE WorktreeLaunchProofs ------------------------
(***************************************************************************)
(* Worktree launch and provisioning for any number of runs, actions, tasks *)
(* and early ends: one owner of the worktree, receipts that can be         *)
(* trusted, and, with one launch at a time, one writer.                    *)
(***************************************************************************)
EXTENDS WorktreeLaunch, FiniteSetTheorems, TLAPS

State(r) == r.binding.state

\* A record of this unit: one attempt, one revision, no launch but its own.
UnitRecord(r) ==
  /\ r \in Records
  /\ r.revision = 1 /\ r.attempt = 1 /\ r.maxAttempts = 1
  /\ r.history = << >> /\ r.binding.generation = 1
  /\ ValidBinding(r.binding)
  /\ r.binding.action \in {None, LaunchAction}

Typed ==
  /\ file = None \/ UnitRecord(file)
  /\ receipts \in [Actions -> Receipts \cup {None}]
  /\ worktree \in {"absent", "partial", "base", "worked"}
  /\ orphan \in BOOLEAN
  /\ repoLock \in Runs \cup {None}
  /\ pc \in [Runs -> PCs]
  /\ job \in [Runs -> Jobs]
  /\ copy \in [Runs -> Records \cup {None}]
  /\ started \in [Runs -> Threads \cup {None}]
  /\ tasks \subseteq Threads
  /\ earlyEnds \in 0 .. MaxEarlyEnds

Launching == {"read", "create", "createWrite", "check", "mark", "markWrite",
              "start", "bind", "bindWrite", "done"}

\* What a run holds at each of its places.
RunInv ==
  \A r \in Runs :
    /\ copy[r] = None \/ UnitRecord(copy[r])
    /\ job[r].launch => job[r].action = LaunchAction
    /\ pc[r] \in Launching => job[r].launch
    /\ pc[r] \in {"bind", "bindWrite"} => started[r] # None
    /\ pc[r] \in {"examine", "git", "verify"} => repoLock = r
    /\ pc[r] \in {"git", "verify"} =>
         receipts[job[r].action] = [operation |-> job[r].operation,
                                    state |-> "provisioning"]

\* What holds however many launches there are at one time.
Base == Typed /\ RunInv /\ OneOwner /\ ProvisionedIsReal

Verified(a) == receipts[a] # None /\ receipts[a].state = "provisioned"

OneLaunch == \A r, s \in Launches : r = s

\* The one launch: it is the only writer of the record, and the task follows
\* the mark and the receipt.
LaunchAt(r) ==
  /\ pc[r] \in {"create", "createWrite"} => file = None
  /\ pc[r] = "createWrite" => copy[r] = None
  /\ pc[r] \in {"check", "mark", "markWrite", "bindWrite", "done"} =>
       copy[r] = file /\ file # None
  /\ pc[r] \in {"mark", "markWrite"} => State(file) = "unbound"
  /\ pc[r] \in {"wait", "examine", "git", "verify", "start"} =>
       tasks = {} /\ file # None /\ State(file) = "launch-pending"
  /\ pc[r] = "start" => Verified(LaunchAction)
  /\ pc[r] \in {"bind", "bindWrite"} =>
       tasks = {started[r]} /\ file # None /\ State(file) = "launch-pending"

LaunchInv == \A r \in Launches : LaunchAt(r)

TaskInv ==
  /\ OneWriter
  /\ tasks # {} =>
       /\ Verified(LaunchAction)
       /\ file # None /\ State(file) # "unbound"
       /\ State(file) = "bound" => file.binding.member \in tasks

IInv == Base /\ OneLaunch /\ LaunchInv /\ TaskInv

\* The other runs do not move.
OnlyMoves(r) ==
  \A s \in Runs \ {r} :
    /\ pc'[s] = pc[s] /\ job'[s] = job[s]
    /\ copy'[s] = copy[s] /\ started'[s] = started[s]

-----------------------------------------------------------------------------
(* What the transitions make of the record of this unit.                   *)

LEMMA UnitRecordIsValid ==
  ASSUME NEW r, UnitRecord(r) PROVE ValidRecord(r) /\ r # None
<1>1. Len(r.history) = 0 /\ r.history = << >> /\ r \in Records
  BY DEF UnitRecord, Records
<1>2. ValidHistory(r.history, r.binding)
  BY <1>1 DEF UnitRecord, ValidHistory, Contiguous, Chained, NothingReused
<1> QED
  BY <1>1, <1>2, WorktreeAssumption DEF UnitRecord, ValidRecord

LEMMA NewRecord ==
  /\ UnitRecord(Definition) /\ State(Definition) = "unbound"
  /\ Create(None, Definition) = {Definition}
  /\ \A r : Create(r, Definition) \subseteq {Definition}
<1>1. Unbound \in Bindings /\ ValidBinding(Unbound)
  BY DEF Unbound, Bindings, BindingStates, ValidBinding
<1>2. Definition \in Records
  BY <1>1 DEF Definition, Records
<1>3. UnitRecord(Definition) /\ State(Definition) = "unbound"
  BY <1>1, <1>2 DEF Definition, UnitRecord, State, Unbound
<1>4. ValidRecord(Definition)
  BY <1>3, UnitRecordIsValid
<1> QED
  BY <1>3, <1>4 DEF Create, Creatable, Definition

LEMMA MarkedRecord ==
  ASSUME NEW r, UnitRecord(r), NEW s \in MarkLaunchPending(r, 1, LaunchAction)
  PROVE  UnitRecord(s) /\ State(s) = "launch-pending"
<1> DEFINE p == Pending(LaunchAction, 1)
<1>1. CASE s = r /\ State(r) = "launch-pending"
  BY <1>1
<1>2. CASE s = [r EXCEPT !.binding = Pending(LaunchAction, @.generation)]
  <2>1. /\ p \in Bindings /\ ValidBinding(p) /\ p.state = "launch-pending"
        /\ p.generation = 1 /\ p.action = LaunchAction
    BY NullAssumption, WorktreeAssumption
       DEF Pending, Bindings, BindingStates, ValidBinding
  <2>2. r \in Records /\ r.binding.generation = 1
    BY DEF UnitRecord
  <2> HIDE DEF p
  <2>3. s = [r EXCEPT !.binding = p]
    BY <1>2, <2>2 DEF p
  <2>4. /\ s \in Records /\ s.binding = p /\ s.attempt = r.attempt
        /\ s.revision = r.revision /\ s.maxAttempts = r.maxAttempts
        /\ s.history = r.history
    BY <2>1, <2>2, <2>3 DEF Records
  <2> QED
    BY <2>1, <2>4 DEF UnitRecord, State
<1> QED
  BY <1>1, <1>2 DEF MarkLaunchPending, State

LEMMA BoundRecord ==
  ASSUME NEW r, UnitRecord(r), NEW m \in Threads,
         NEW s \in Bind(r, 1, LaunchAction, m)
  PROVE  UnitRecord(s) /\ State(s) = "bound" /\ s.binding.member = m
<1> USE NullAssumption, WorktreeAssumption
<1>1. CASE s = r /\ State(r) = "bound" /\ r.binding.member = m
  BY <1>1
<1>2. CASE s = [r EXCEPT !.binding = [@ EXCEPT !.state = "bound", !.member = m]]
           /\ r.binding.action = LaunchAction
  <2> DEFINE b == [r.binding EXCEPT !.state = "bound", !.member = m]
  <2>1. r \in Records /\ r.binding \in Bindings
    BY DEF UnitRecord, Records
  <2>2. /\ b \in Bindings /\ b.state = "bound" /\ b.member = m
        /\ b.action = LaunchAction /\ b.generation = r.binding.generation
    BY <1>2, <2>1 DEF Bindings, BindingStates
  <2>3. /\ s \in Records /\ s.binding = b /\ s.attempt = r.attempt
        /\ s.revision = r.revision /\ s.maxAttempts = r.maxAttempts
        /\ s.history = r.history
    BY <1>2, <2>1, <2>2 DEF Records
  <2> HIDE DEF b
  <2>4. ValidBinding(b) /\ b.generation = 1
    BY <2>2 DEF ValidBinding, UnitRecord
  <2> QED
    BY <2>2, <2>3, <2>4 DEF UnitRecord, State
<1> QED
  BY <1>1, <1>2 DEF Bind, State

\* Binding a marked unit does not throw, and is no replay.
LEMMA MarkedBinds ==
  ASSUME NEW r, UnitRecord(r), State(r) = "launch-pending", NEW m \in Threads
  PROVE  /\ Bind(r, 1, LaunchAction, m) # {}
         /\ r \notin Bind(r, 1, LaunchAction, m)
<1>1. r # None /\ r.revision = 1 /\ r.binding.action = LaunchAction
      /\ Len(r.history) = 0 /\ r.binding.state = "launch-pending"
  BY UnitRecordIsValid DEF UnitRecord, State, ValidBinding
<1> DEFINE s == [r EXCEPT !.binding = [@ EXCEPT !.state = "bound", !.member = m]]
<1>2. Bind(r, 1, LaunchAction, m) = {s}
  BY <1>1 DEF Bind
<1>3. s # r
  BY <1>1, <1>2, BoundRecord DEF State
<1> QED
  BY <1>2, <1>3

-----------------------------------------------------------------------------
(* What holds however many launches there are                              *)

LEMMA BaseInit == Init => Base
<1> SUFFICES ASSUME Init PROVE Base
  OBVIOUS
<1>1. 0 \in 0 .. MaxEarlyEnds /\ NoJob \in Jobs
  BY WorktreeAssumption DEF NoJob, Jobs, Operations
<1>2. Typed
  BY <1>1 DEF Init, Typed, PCs
<1> QED
  BY <1>2 DEF Init, Base, RunInv, OneOwner, ProvisionedIsReal, NoJob, Launching

(* A run that ends, whatever it leaves of a git command.                   *)
LEMMA BaseOver ==
  ASSUME Base, NEW r \in Runs, Over(r),
         UNCHANGED <<file, receipts, worktree, tasks>>,
         orphan' \in BOOLEAN, earlyEnds' \in 0 .. MaxEarlyEnds
  PROVE  Base'
<1> USE DEF Base
<1>1. NoJob \in Jobs
  BY WorktreeAssumption DEF NoJob, Jobs, Operations
<1>2. Typed'
  BY <1>1 DEF Over, Goto, Typed, PCs
<1>3. RunInv'
  BY WorktreeAssumption DEF Over, Goto, RunInv, Typed, NoJob, Launching
<1>4. OneOwner' /\ ProvisionedIsReal'
  BY DEF OneOwner, ProvisionedIsReal
<1> QED
  BY <1>2, <1>3, <1>4

(* A run that goes on without its receipt or the lock.                     *)
LEMMA BaseGoes ==
  ASSUME Base, NEW r \in Runs, NEW to \in Launching, Goto(r, to),
         job[r].launch, started[r] # None \/ to \notin {"bind", "bindWrite"},
         copy'[r] = None \/ UnitRecord(copy'[r]),
         copy' = [copy EXCEPT ![r] = copy'[r]],
         file' = None \/ UnitRecord(file'),
         UNCHANGED <<receipts, worktree, orphan, repoLock, job, started, tasks,
                     earlyEnds>>
  PROVE  Base'
<1> USE DEF Base
<1>1. copy'[r] \in Records \cup {None}
  BY DEF UnitRecord
<1>2. Typed'
  BY <1>1 DEF Goto, Typed, PCs, Launching
<1>3. RunInv'
  BY DEF Goto, RunInv, Typed, Launching
<1>4. OneOwner' /\ ProvisionedIsReal'
  BY DEF OneOwner, ProvisionedIsReal
<1> QED
  BY <1>2, <1>3, <1>4

LEMMA BaseReads ==
  ASSUME Base, NEW r \in Runs, NEW from \in Launching, NEW to \in Launching,
         ReadThen(r, from, to), started[r] # None \/ to \notin {"bind", "bindWrite"}
  PROVE  Base'
<1>1. job[r].launch /\ copy'[r] = file /\ copy' = [copy EXCEPT ![r] = copy'[r]]
  BY DEF Base, RunInv, ReadThen, Typed
<1> QED
  BY <1>1, BaseGoes DEF ReadThen, Base, Typed

LEMMA BaseWrites ==
  ASSUME Base, NEW r \in Runs, NEW from \in Launching, NEW to \in Launching,
         NEW records, \A s \in records : UnitRecord(s),
         WriteThen(r, from, records, to), to \notin {"bind", "bindWrite"}
  PROVE  Base'
<1>1. CASE Over(r) /\ UNCHANGED file
  BY <1>1, BaseOver DEF WriteThen, Base, Typed
<1>2. ASSUME NEW new \in records,
             file' = IF new = copy[r] THEN file ELSE new,
             copy' = [copy EXCEPT ![r] = new],
             Goto(r, to), UNCHANGED <<job, started, repoLock>>
      PROVE  Base'
  <2>1. /\ job[r].launch /\ copy'[r] = new /\ UnitRecord(new)
        /\ copy' = [copy EXCEPT ![r] = copy'[r]]
    BY <1>2 DEF Base, RunInv, WriteThen, Typed
  <2> QED
    BY <1>2, <2>1, BaseGoes DEF WriteThen, Base, Typed
<1> QED
  BY <1>1, <1>2 DEF WriteThen

(* Provisioning ends: it returns what it verified, or it gives up.         *)
LEMMA BaseSettles ==
  ASSUME Base, NEW r \in Runs, pc[r] \in {"examine", "verify"},
         receipts[job[r].action] # None,
         \/ /\ WriteReceipt(r, "provisioned") /\ Provisioned(r)
            /\ worktree \in {"base", "worked"}
         \/ WriteReceipt(r, "attention") /\ Over(r),
         UNCHANGED <<file, worktree, orphan, tasks, earlyEnds>>
  PROVE  Base'
<1> USE DEF Base
<1> DEFINE a == job[r].action
<1>1. /\ a \in Actions /\ job[r].operation \in Operations /\ repoLock = r
      /\ NoJob \in Jobs
  BY WorktreeAssumption DEF Typed, Jobs, RunInv, NoJob, Operations
<1>2. PICK state \in {"provisioned", "attention"} :
        /\ receipts' = [receipts EXCEPT ![a] =
                          [operation |-> job[r].operation, state |-> state]]
        /\ state = "provisioned" => worktree \in {"base", "worked"}
  BY DEF WriteReceipt
<1>3. /\ receipts'[a].state = state
      /\ \A b \in Actions : b # a => receipts'[b] = receipts[b]
      /\ receipts' \in [Actions -> Receipts \cup {None}]
  BY <1>1, <1>2 DEF Typed, Receipts, ReceiptStates
<1>4. \/ Over(r)
      \/ /\ job[r].launch /\ Goto(r, "start") /\ repoLock' = None
         /\ UNCHANGED <<job, copy, started>>
  BY DEF Provisioned
<1>5. Typed'
  BY <1>1, <1>3, <1>4 DEF Typed, Over, Goto, PCs
<1>6. RunInv'
  <2>1. ASSUME NEW s \in Runs, s # r
        PROVE  /\ pc'[s] = pc[s] /\ job'[s] = job[s] /\ copy'[s] = copy[s]
               /\ started'[s] = started[s]
               /\ pc[s] \notin {"examine", "git", "verify"}
    BY <1>1, <1>4, <2>1 DEF Over, Goto, Typed, RunInv
  <2>2. \/ /\ pc'[r] = "idle" /\ job'[r] = NoJob /\ copy'[r] = None
        \/ /\ pc'[r] = "start" /\ job'[r] = job[r] /\ copy'[r] = copy[r]
           /\ job[r].launch
    BY <1>4 DEF Over, Goto, Typed
  <2> QED
    BY <2>1, <2>2 DEF RunInv, NoJob, Launching
<1>7. OneOwner'
  BY <1>3 DEF OneOwner
<1>8. ProvisionedIsReal'
  BY <1>2, <1>3 DEF ProvisionedIsReal
<1> QED
  BY <1>5, <1>6, <1>7, <1>8

LEMMA BaseClaims ==
  ASSUME Base, NEW r \in Runs, Claim(r) PROVE Base'
<1> USE DEF Base
<1> DEFINE a == job[r].action
<1>1. /\ a \in Actions /\ job[r].operation \in Operations /\ repoLock = r
      /\ pc[r] = "examine"
  BY DEF Typed, Jobs, RunInv, Claim
<1>2. CASE Over(r) /\ UNCHANGED receipts
  BY <1>2, BaseOver DEF Claim, Typed
<1>3. ASSUME MayClaim(r), WriteReceipt(r, "provisioning"),
             NEW to \in {"git", "verify"}, Goto(r, to),
             UNCHANGED <<job, copy, started, repoLock>>
      PROVE  Base'
  <2>1. /\ receipts'[a] = [operation |-> job[r].operation,
                           state |-> "provisioning"]
        /\ \A b \in Actions \ {a} : receipts'[b] = None
        /\ receipts' \in [Actions -> Receipts \cup {None}]
    BY <1>1, <1>3 DEF Typed, Receipts, ReceiptStates, WriteReceipt, MayClaim
  <2>2. Typed'
    BY <1>3, <2>1 DEF Typed, Goto, PCs, Claim
  <2>3. RunInv'
    <3>1. \A s \in Runs : s # r => pc[s] \notin {"examine", "git", "verify"}
      BY <1>1 DEF RunInv
    <3>2. /\ pc' = [pc EXCEPT ![r] = to]
          /\ UNCHANGED <<job, copy, started, repoLock>>
      BY <1>3 DEF Goto
    <3> QED
      BY <1>1, <2>1, <3>1, <3>2 DEF RunInv, Typed, Launching
  <2>4. OneOwner' /\ ProvisionedIsReal'
    BY <2>1 DEF OneOwner, ProvisionedIsReal
  <2> QED
    BY <2>2, <2>3, <2>4
<1> QED
  BY <1>2, <1>3 DEF Claim

LEMMA BaseProvisions ==
  ASSUME Base, NEW r \in Runs,
         StartProvision(r) \/ Lock(r) \/ Resume(r) \/ Git(r) \/ Verify(r)
  PROVE  Base'
<1> USE DEF Base
<1>1. CASE StartProvision(r)
  <2>1. PICK a \in Actions, op \in Operations :
          job' = [job EXCEPT ![r] =
                    [launch |-> FALSE, action |-> a, operation |-> op]]
    BY <1>1 DEF StartProvision
  <2>2. Typed'
    BY <1>1, <2>1 DEF StartProvision, Goto, Typed, PCs, Jobs
  <2>3. RunInv'
    BY <1>1, <2>1 DEF StartProvision, Goto, Typed, RunInv, Launching
  <2> QED
    BY <1>1, <2>2, <2>3 DEF StartProvision, OneOwner, ProvisionedIsReal
<1>2. CASE Lock(r)
  <2>1. Typed'
    BY <1>2 DEF Lock, Goto, Typed, PCs
  <2>2. RunInv'
    BY <1>2, WorktreeAssumption DEF Lock, Goto, Typed, RunInv, Launching
  <2> QED
    BY <1>2, <2>1, <2>2 DEF Lock, OneOwner, ProvisionedIsReal
<1>3. CASE Resume(r)
  <2>1. CASE Over(r) /\ UNCHANGED receipts
    BY <1>3, <2>1, BaseOver DEF Resume, Typed
  <2>2. CASE /\ Inspected(receipts[job[r].action].state = "provisioning")
             /\ WriteReceipt(r, "provisioned") /\ Provisioned(r)
    BY <1>3, <2>2, BaseSettles DEF Resume, Inspected
  <2>3. CASE WriteReceipt(r, "attention") /\ Over(r)
    BY <1>3, <2>3, BaseSettles DEF Resume
  <2> QED
    BY <1>3, <2>1, <2>2, <2>3 DEF Resume
<1>4. CASE Git(r)
  <2>1. worktree' \in {"absent", "partial", "base", "worked"}
        /\ (worktree \in {"base", "worked"} => worktree' = worktree)
    BY <1>4 DEF Git, Added, Typed
  <2>2. Typed'
    BY <1>4, <2>1 DEF Git, Goto, Typed, PCs
  <2>3. RunInv'
    BY <1>4 DEF Git, Goto, Typed, RunInv, Launching
  <2> QED
    BY <1>4, <2>1, <2>2, <2>3 DEF Git, OneOwner, ProvisionedIsReal
<1>5. CASE Verify(r)
  <2>1. receipts[job[r].action] # None
    <3>1. /\ job[r].operation \in Operations
          /\ receipts[job[r].action] = [operation |-> job[r].operation,
                                        state |-> "provisioning"]
      BY <1>5 DEF Verify, RunInv, Typed, Jobs
    <3>2. [operation |-> job[r].operation, state |-> "provisioning"] \in Receipts
      BY <3>1 DEF Receipts, ReceiptStates
    <3> QED
      BY <3>1, <3>2, WorktreeAssumption
  <2>2. CASE Inspected(TRUE) /\ WriteReceipt(r, "provisioned") /\ Provisioned(r)
    BY <1>5, <2>1, <2>2, BaseSettles DEF Verify, Inspected
  <2>3. CASE WriteReceipt(r, "attention") /\ Over(r)
    BY <1>5, <2>1, <2>3, BaseSettles DEF Verify
  <2> QED
    BY <1>5, <2>2, <2>3 DEF Verify
<1> QED
  BY <1>1, <1>2, <1>3, <1>4, <1>5

LEMMA BaseLaunches ==
  ASSUME Base, NEW r \in Runs,
         StartLaunch(r) \/ Check(r) \/ StartTask(r) \/ Return(r) \/ EndEarly(r)
  PROVE  Base'
<1> USE DEF Base
<1>1. CASE StartLaunch(r)
  <2>1. [NoJob EXCEPT !.launch = TRUE] \in Jobs
    BY WorktreeAssumption DEF NoJob, Jobs, Operations
  <2>2. /\ job' = [job EXCEPT ![r] = [NoJob EXCEPT !.launch = TRUE]]
        /\ pc' = [pc EXCEPT ![r] = "read"]
        /\ UNCHANGED <<file, receipts, worktree, orphan, repoLock, copy, started,
                       tasks, earlyEnds>>
    BY <1>1 DEF StartLaunch, Goto
  <2>3. Typed'
    BY <2>1, <2>2 DEF Typed, PCs
  <2>4. RunInv'
    BY <2>2 DEF Typed, RunInv, Launching, NoJob
  <2> QED
    BY <2>2, <2>3, <2>4 DEF OneOwner, ProvisionedIsReal
<1>2. CASE Check(r)
  <2>1. CASE Over(r)
    BY <1>2, <2>1, BaseOver DEF Check, Typed
  <2>2. CASE Goto(r, "mark") /\ UNCHANGED <<job, copy, started, repoLock>>
    <3>1. job[r].launch /\ copy' = [copy EXCEPT ![r] = copy'[r]]
      BY <1>2, <2>2 DEF Check, RunInv, Typed, Launching
    <3>2. copy'[r] = None \/ UnitRecord(copy'[r])
      BY <2>2 DEF RunInv
    <3> QED
      BY <1>2, <2>2, <3>1, <3>2, BaseGoes DEF Check, Typed, Launching
  <2> QED
    BY <1>2, <2>1, <2>2 DEF Check
<1>3. CASE StartTask(r)
  <2>1. PICK t \in Threads \ tasks :
          /\ tasks' = tasks \cup {t} /\ started' = [started EXCEPT ![r] = t]
          /\ pc' = [pc EXCEPT ![r] = "bind"] /\ pc[r] = "start"
          /\ UNCHANGED <<file, receipts, worktree, orphan, repoLock, job, copy,
                         earlyEnds>>
    BY <1>3 DEF StartTask, Goto
  <2>2. Typed'
    BY <2>1 DEF Typed, PCs
  <2>3. RunInv'
    BY <2>1, NullAssumption DEF Typed, RunInv, Launching
  <2> QED
    BY <2>1, <2>2, <2>3 DEF OneOwner, ProvisionedIsReal
<1>4. CASE Return(r)
  BY <1>4, BaseOver DEF Return, Typed
<1>5. CASE EndEarly(r)
  <2>1. earlyEnds' \in 0 .. MaxEarlyEnds /\ orphan' \in BOOLEAN
    BY <1>5, WorktreeAssumption DEF EndEarly, Typed
  <2> QED
    BY <1>5, <2>1, BaseOver DEF EndEarly
<1> QED
  BY <1>1, <1>2, <1>3, <1>4, <1>5

LEMMA BaseRecords ==
  ASSUME Base, NEW r \in Runs,
         \/ ReadUnit(r) \/ CreateRead(r) \/ CreateWrite(r)
         \/ MarkRead(r) \/ MarkWrite(r) \/ BindRead(r) \/ BindWrite(r)
  PROVE  Base'
<1> USE DEF Base
<1>1. CASE ReadUnit(r) \/ CreateRead(r) \/ MarkRead(r)
  BY <1>1, BaseReads DEF ReadUnit, CreateRead, MarkRead, Launching
<1>2. CASE BindRead(r)
  <2>1. started[r] # None
    BY <1>2 DEF BindRead, ReadThen, RunInv
  <2> QED
    BY <1>2, <2>1, BaseReads DEF BindRead, Launching
<1>3. CASE CreateWrite(r)
  <2>1. \A s \in Create(copy[r], Definition) : UnitRecord(s)
    BY NewRecord
  <2> QED
    BY <1>3, <2>1, BaseWrites DEF CreateWrite, Launching
<1>4. CASE MarkWrite(r)
  <2>1. \A s \in MarkLaunchPending(copy[r], 1, LaunchAction) : UnitRecord(s)
    BY MarkedRecord DEF RunInv, MarkLaunchPending
  <2>2. CASE Over(r) /\ UNCHANGED file
    BY <1>4, <2>2, BaseOver DEF MarkWrite, WriteThen, Typed
  <2>3. ASSUME NEW new \in MarkLaunchPending(copy[r], 1, LaunchAction),
               file' = IF new = copy[r] THEN file ELSE new,
               copy' = [copy EXCEPT ![r] = new],
               Goto(r, "wait"), UNCHANGED <<job, started, repoLock>>
        PROVE  Base'
    <3>1. /\ copy' = [copy EXCEPT ![r] = new] /\ UnitRecord(new)
          /\ new \in Records /\ pc' = [pc EXCEPT ![r] = "wait"]
          /\ UNCHANGED <<receipts, worktree, orphan, tasks, earlyEnds, job,
                         started, repoLock>>
          /\ file' = None \/ UnitRecord(file')
      BY <1>4, <2>1, <2>3 DEF MarkWrite, WriteThen, UnitRecord, Goto, Typed
    <3>2. Typed'
      BY <3>1 DEF Typed, PCs
    <3>3. RunInv'
      BY <3>1 DEF RunInv, Typed, Launching
    <3> QED
      BY <3>1, <3>2, <3>3 DEF OneOwner, ProvisionedIsReal
  <2> QED
    BY <1>4, <2>2, <2>3 DEF MarkWrite, WriteThen
<1>5. CASE BindWrite(r)
  <2>1. started[r] \in Threads
    BY <1>5 DEF BindWrite, WriteThen, RunInv, Typed
  <2>2. \A s \in Bind(copy[r], 1, LaunchAction, started[r]) : UnitRecord(s)
    <3>1. copy[r] = None => Bind(copy[r], 1, LaunchAction, started[r]) = {}
      BY DEF Bind
    <3> QED
      BY <2>1, <3>1, BoundRecord DEF RunInv
  <2> QED
    BY <1>5, <2>2, BaseWrites DEF BindWrite, Launching
<1> QED
  BY <1>1, <1>2, <1>3, <1>4, <1>5

LEMMA BaseStep == ASSUME Base, [Next]_vars PROVE Base'
<1> USE DEF Base
<1>1. CASE Work
  BY <1>1 DEF Work, run, Typed, RunInv, OneOwner, ProvisionedIsReal
<1>2. CASE OrphanFinishes
  <2>1. /\ worktree' \in {"absent", "partial", "base", "worked"}
        /\ worktree \in {"base", "worked"} => worktree' = worktree
        /\ orphan' \in BOOLEAN
        /\ UNCHANGED <<file, receipts, repoLock, pc, job, copy, started, tasks,
                       earlyEnds>>
    BY <1>2 DEF OrphanFinishes, Added, Typed, run
  <2> QED
    BY <2>1 DEF Typed, RunInv, OneOwner, ProvisionedIsReal
<1>3. CASE UNCHANGED vars
  BY <1>3 DEF vars, run, Typed, RunInv, OneOwner, ProvisionedIsReal
<1> QED
  BY <1>1, <1>2, <1>3, BaseProvisions, BaseClaims, BaseLaunches, BaseRecords
     DEF Next

(* The record is one the validator accepts, and every run holds what its   *)
(* place says, whatever overlaps and wherever runs end.                    *)
THEOREM TypeCorrect == Spec => []TypeOK
<1>1. Base => TypeOK
  BY UnitRecordIsValid DEF Base, Typed, TypeOK
<1> QED
  BY <1>1, BaseInit, BaseStep, PTL DEF Spec

(* One action id owns the worktree, for any number of runs.                *)
THEOREM WorktreeHasOneOwner == Spec => []OneOwner
<1>1. Base => OneOwner
  BY DEF Base
<1> QED
  BY <1>1, BaseInit, BaseStep, PTL DEF Spec

(* A provisioned receipt has a complete worktree behind it, also when a    *)
(* git command finishes after the run that started it.                     *)
THEOREM ProvisionedStaysReal == Spec => []ProvisionedIsReal
<1>1. Base => ProvisionedIsReal
  BY DEF Base
<1> QED
  BY <1>1, BaseInit, BaseStep, PTL DEF Spec

-----------------------------------------------------------------------------
(* One launch at a time                                                    *)

LEMMA IInvInit == Init => IInv
<1> SUFFICES ASSUME Init PROVE IInv
  OBVIOUS
<1>1. Launches = {}
  BY DEF Init, Launches
<1> QED
  BY <1>1, BaseInit DEF IInv, OneLaunch, LaunchInv, TaskInv, OneWriter, Init

(* A step of one run that touches neither the record nor the tasks.        *)
LEMMA QuietKeeps ==
  ASSUME IInv, Base', NEW r \in Runs, OnlyMoves(r), UNCHANGED <<file, tasks>>,
         Verified(LaunchAction) => Verified(LaunchAction)',
         r \in Launches' => r \in Launches /\ LaunchAt(r)'
  PROVE  IInv'
<1>1. \A s \in Launches' : s \in Launches /\ LaunchAt(s)'
  <2> SUFFICES ASSUME NEW s \in Launches', s # r
               PROVE  s \in Launches /\ LaunchAt(s)'
    OBVIOUS
  <2>1. /\ s \in Runs /\ pc'[s] = pc[s] /\ job'[s] = job[s]
        /\ copy'[s] = copy[s] /\ started'[s] = started[s]
    BY DEF OnlyMoves, Launches
  <2>2. s \in Launches
    BY <2>1 DEF Launches
  <2>3. LaunchAt(s)
    BY <2>2 DEF IInv, LaunchInv
  <2> QED
    BY <2>1, <2>2, <2>3 DEF LaunchAt
<1>2. TaskInv'
  BY DEF IInv, TaskInv, OneWriter
<1> QED
  BY <1>1, <1>2 DEF IInv, OneLaunch, LaunchInv

(* A step of the launch itself.                                            *)
LEMMA WriterKeeps ==
  ASSUME IInv, Base', NEW r \in Launches, OnlyMoves(r), LaunchAt(r)', TaskInv'
  PROVE  IInv'
<1>1. \A s \in Launches' : s = r
  BY DEF OnlyMoves, Launches, IInv, OneLaunch
<1> QED
  BY <1>1 DEF IInv, OneLaunch, LaunchInv

LEMMA OverKeeps ==
  ASSUME IInv, Base', NEW r \in Runs, Over(r), UNCHANGED <<file, tasks>>,
         Verified(LaunchAction) => Verified(LaunchAction)'
  PROVE  IInv'
<1>1. OnlyMoves(r) /\ r \notin Launches'
  BY DEF Over, Goto, OnlyMoves, Launches, IInv, Base, Typed
<1> QED
  BY <1>1, QuietKeeps

(* What a provisioned receipt says stays said.                             *)
LEMMA VerifiedStays ==
  ASSUME Base, NEW r \in Runs, Resume(r) \/ Claim(r) \/ Verify(r),
         Verified(LaunchAction)
  PROVE  Verified(LaunchAction)'
<1> USE DEF Base
<1> DEFINE a == job[r].action
<1>1. a \in Actions /\ LaunchAction \in Actions
  BY WorktreeAssumption DEF Typed, Jobs
<1>2. CASE UNCHANGED receipts
  BY <1>2 DEF Verified
<1>3. CASE /\ ~ UNCHANGED receipts
           /\ a # LaunchAction \/ WriteReceipt(r, "provisioned")
  <2>1. PICK state \in ReceiptStates :
          /\ receipts' = [receipts EXCEPT ![a] =
                            [operation |-> job[r].operation, state |-> state]]
          /\ a # LaunchAction \/ state = "provisioned"
    <3>1. CASE WriteReceipt(r, "provisioned")
      BY <3>1 DEF WriteReceipt, ReceiptStates
    <3>2. CASE a # LaunchAction
      BY <1>3, <3>2 DEF Resume, Claim, Verify, WriteReceipt, ReceiptStates
    <3> QED
      BY <1>3, <3>1, <3>2
  <2>2. [operation |-> job[r].operation, state |-> state] \in Receipts
    BY DEF Receipts, Typed, Jobs
  <2> QED
    BY <1>1, <2>1, <2>2, WorktreeAssumption DEF Verified, Typed
<1>4. CASE a = LaunchAction /\ ~ UNCHANGED receipts
           /\ ~ WriteReceipt(r, "provisioned")
  <2>1. receipts[a] # None /\ receipts[a].state = "provisioned"
        /\ worktree \in {"base", "worked"}
    BY <1>1, <1>4 DEF Verified, ProvisionedIsReal
  <2>2. ~ Resume(r)
    BY <1>4, <2>1 DEF Resume, Inspected
  <2>3. ~ Claim(r)
    BY <2>1 DEF Claim
  <2>4. ~ Verify(r)
    <3>1. pc[r] = "verify" =>
            receipts[a] = [operation |-> job[r].operation,
                           state |-> "provisioning"]
      BY DEF RunInv
    <3>2. pc[r] = "verify" => receipts[a].state = "provisioning"
      BY <3>1
    <3>3. receipts[a].state # "provisioning"
      BY <2>1
    <3> QED
      BY <3>2, <3>3 DEF Verify
  <2> QED
    BY <2>2, <2>3, <2>4
<1> QED
  BY <1>2, <1>3, <1>4

LEMMA StartLaunchKeeps ==
  ASSUME IsFiniteSet(Runs), MaxLaunches <= 1, IInv, Base', NEW r \in Runs,
         StartLaunch(r)
  PROVE  IInv'
<1>1. Launches \subseteq Runs /\ IsFiniteSet(Launches)
  BY FS_Subset DEF Launches
<1>2. Cardinality(Launches) \in Nat /\ Cardinality(Launches) < 1
  BY <1>1, FS_CardinalityType, WorktreeAssumption DEF StartLaunch
<1>3. Launches = {}
  BY <1>1, <1>2, FS_EmptySet
<1>4. /\ pc' = [pc EXCEPT ![r] = "read"]
      /\ \A s \in Runs \ {r} : job'[s] = job[s] /\ pc'[s] = pc[s]
      /\ UNCHANGED <<file, receipts, worktree, orphan, repoLock, copy, started,
                     tasks, earlyEnds>>
  BY DEF StartLaunch, Goto, IInv, Base, Typed
<1>5. \A s \in Launches' : s = r /\ pc'[s] = "read"
  BY <1>3, <1>4 DEF Launches, IInv, Base, Typed
<1>6. TaskInv'
  BY <1>4 DEF IInv, TaskInv, OneWriter, Verified
<1> QED
  BY <1>5, <1>6 DEF IInv, OneLaunch, LaunchInv, LaunchAt

LEMMA ReadsKeep ==
  ASSUME IInv, Base', NEW r \in Runs,
         \/ ReadUnit(r) \/ CreateRead(r) \/ MarkRead(r) \/ BindRead(r) \/ Check(r)
  PROVE  IInv'
<1> USE DEF IInv
<1>1. CASE Over(r) /\ UNCHANGED <<file, receipts, tasks>>
  BY <1>1, OverKeeps DEF Verified
<1>2. ASSUME NEW from, NEW to, ReadThen(r, from, to),
             \/ from = "read" /\ to = "create" /\ file = None
             \/ from = "read" /\ to = "check" /\ file # None
             \/ from = "create" /\ to = "createWrite"
             \/ from = "mark" /\ to = "markWrite"
             \/ from = "bind" /\ to = "bindWrite"
      PROVE  IInv'
  <2>1. r \in Launches
    BY <1>2 DEF ReadThen, Base, RunInv, Launching, Launches
  <2>2. LaunchAt(r) /\ pc[r] = from
    BY <1>2, <2>1 DEF LaunchInv, ReadThen
  <2>3. /\ pc'[r] = to /\ copy'[r] = file /\ OnlyMoves(r)
        /\ UNCHANGED <<file, receipts, job, started, tasks>>
    BY <1>2 DEF ReadThen, Goto, OnlyMoves, Base, Typed
  <2>4. LaunchAt(r)'
    BY <1>2, <2>2, <2>3 DEF LaunchAt
  <2> QED
    BY <2>1, <2>3, <2>4, QuietKeeps DEF Verified
<1>3. CASE /\ pc[r] = "check" /\ copy[r].binding.state = "unbound"
           /\ Goto(r, "mark")
           /\ UNCHANGED <<file, receipts, job, copy, started, tasks>>
  <2>1. r \in Launches
    BY <1>3 DEF Base, RunInv, Launching, Launches
  <2>2. LaunchAt(r)
    BY <2>1 DEF LaunchInv
  <2>3. pc'[r] = "mark" /\ OnlyMoves(r)
    BY <1>3 DEF Goto, OnlyMoves, Base, Typed
  <2>4. LaunchAt(r)'
    BY <1>3, <2>2, <2>3 DEF LaunchAt, State
  <2> QED
    BY <1>3, <2>1, <2>3, <2>4, QuietKeeps DEF Verified
<1> QED
  BY <1>1, <1>2, <1>3 DEF ReadUnit, CreateRead, MarkRead, BindRead, Check

LEMMA ProvisionsKeep ==
  ASSUME IInv, Base', NEW r \in Runs,
         \/ StartProvision(r) \/ Lock(r) \/ Resume(r) \/ Claim(r)
         \/ Git(r) \/ Verify(r)
  PROVE  IInv'
<1> USE DEF IInv
<1>1. CASE StartProvision(r)
  <2>1. /\ OnlyMoves(r) /\ UNCHANGED <<file, receipts, tasks>>
        /\ ~ job'[r].launch
    BY <1>1 DEF StartProvision, Goto, OnlyMoves, Base, Typed
  <2> QED
    BY <2>1, QuietKeeps DEF Launches, Verified
<1>2. UNCHANGED <<file, tasks>>
  BY DEF StartProvision, Lock, Resume, Claim, Git, Verify
<1>3. CASE /\ ~ StartProvision(r) /\ ~ Over(r)
           /\ Verified(LaunchAction) => Verified(LaunchAction)'
  <2>1. /\ pc[r] \in {"wait", "examine", "git", "verify"}
        /\ UNCHANGED <<job, copy, started>>
    BY <1>3 DEF Lock, Resume, Claim, Git, Verify, Provisioned
  <2>2. PICK to \in {"examine", "git", "verify", "start"} :
          /\ pc' = [pc EXCEPT ![r] = to]
          /\ to = "start" => WriteReceipt(r, "provisioned") /\ job[r].launch
    <3>1. CASE Lock(r) \/ Claim(r) \/ Git(r)
      BY <1>3, <3>1 DEF Lock, Claim, Git, Goto
    <3>2. CASE Resume(r) \/ Verify(r)
      <4>1. WriteReceipt(r, "provisioned") /\ Provisioned(r)
        BY <1>3, <3>2 DEF Resume, Verify
      <4> QED
        BY <1>3, <4>1 DEF Provisioned, Goto
    <3> QED
      BY <1>3, <3>1, <3>2
  <2>3. OnlyMoves(r) /\ pc'[r] = to
    BY <2>1, <2>2 DEF OnlyMoves, Base, Typed
  <2>4. ASSUME r \in Launches' PROVE r \in Launches /\ LaunchAt(r)'
    <3>1. r \in Launches
      BY <2>1, <2>4 DEF Launches
    <3>2. LaunchAt(r)
      BY <3>1 DEF LaunchInv
    <3>3. to = "start" => Verified(LaunchAction)'
      <4>1. job[r].launch => job[r].action = LaunchAction
        BY DEF Base, RunInv
      <4>2. ASSUME to = "start"
            PROVE  receipts'[LaunchAction] =
                     [operation |-> job[r].operation, state |-> "provisioned"]
        BY <2>2, <4>1, <4>2, WorktreeAssumption DEF WriteReceipt, Base, Typed
      <4>3. [operation |-> job[r].operation, state |-> "provisioned"] \in Receipts
        BY DEF Receipts, ReceiptStates, Base, Typed, Jobs
      <4> QED
        BY <4>2, <4>3, WorktreeAssumption DEF Verified
    <3> QED
      BY <1>2, <2>1, <2>3, <3>1, <3>2, <3>3 DEF LaunchAt
  <2> QED
    BY <1>2, <1>3, <2>3, <2>4, QuietKeeps
<1>4. Verified(LaunchAction) => Verified(LaunchAction)'
  BY VerifiedStays DEF StartProvision, Lock, Git, Verified
<1> QED
  BY <1>1, <1>2, <1>3, <1>4, OverKeeps

LEMMA WritesKeep ==
  ASSUME IInv, Base', NEW r \in Runs,
         CreateWrite(r) \/ MarkWrite(r) \/ StartTask(r) \/ BindWrite(r)
  PROVE  IInv'
<1> USE DEF IInv
<1>1. /\ pc[r] \in {"createWrite", "markWrite", "start", "bindWrite"}
      /\ r \in Launches
  BY DEF CreateWrite, MarkWrite, StartTask, BindWrite, WriteThen, Base, RunInv,
     Launching, Launches
<1>2. LaunchAt(r) /\ UNCHANGED receipts
  BY <1>1 DEF LaunchInv, CreateWrite, MarkWrite, StartTask, BindWrite, WriteThen
<1>3. CASE CreateWrite(r)
  <2>1. copy[r] = None /\ file = None /\ tasks = {}
    BY <1>2, <1>3 DEF CreateWrite, WriteThen, LaunchAt, TaskInv
  <2>2. Definition # None
    BY NewRecord, UnitRecordIsValid
  <2>3. /\ file' = Definition /\ copy'[r] = Definition /\ pc'[r] = "check"
        /\ OnlyMoves(r) /\ tasks' = {}
    BY <1>3, <2>1, <2>2, NewRecord
       DEF CreateWrite, WriteThen, Goto, OnlyMoves, Base, Typed
  <2>4. LaunchAt(r)' /\ TaskInv'
    BY <2>2, <2>3 DEF LaunchAt, TaskInv, OneWriter
  <2> QED
    BY <1>1, <2>3, <2>4, WriterKeeps
<1>4. CASE MarkWrite(r)
  <2>1. copy[r] = file /\ file # None /\ State(file) = "unbound" /\ tasks = {}
        /\ UnitRecord(file)
    BY <1>2, <1>4 DEF MarkWrite, WriteThen, LaunchAt, TaskInv, Base, Typed
  <2>2. CASE Over(r) /\ UNCHANGED file
    BY <1>2, <1>4, <2>2, OverKeeps DEF MarkWrite, WriteThen, Verified
  <2>3. ASSUME NEW new \in MarkLaunchPending(file, 1, LaunchAction),
               file' = IF new = file THEN file ELSE new,
               Goto(r, "wait"), copy' = [copy EXCEPT ![r] = new],
               UNCHANGED <<job, started, tasks>>
        PROVE  IInv'
    <3>1. UnitRecord(new) /\ State(new) = "launch-pending" /\ new # None
      BY <2>1, <2>3, MarkedRecord, UnitRecordIsValid
    <3>2. file' = new /\ pc'[r] = "wait" /\ OnlyMoves(r) /\ tasks' = {}
      BY <2>1, <2>3 DEF Goto, OnlyMoves, Base, Typed
    <3>3. LaunchAt(r)' /\ TaskInv'
      BY <3>1, <3>2 DEF LaunchAt, TaskInv, OneWriter
    <3> QED
      BY <1>1, <3>2, <3>3, WriterKeeps
  <2> QED
    BY <1>4, <2>1, <2>2, <2>3 DEF MarkWrite, WriteThen
<1>5. CASE StartTask(r)
  <2>1. /\ tasks = {} /\ file # None /\ State(file) = "launch-pending"
        /\ Verified(LaunchAction)
    BY <1>2, <1>5 DEF StartTask, LaunchAt
  <2>2. PICK t \in Threads :
          /\ tasks' = {t} /\ started'[r] = t /\ pc'[r] = "bind"
          /\ OnlyMoves(r) /\ file' = file
    BY <1>5, <2>1 DEF StartTask, Goto, OnlyMoves, Base, Typed
  <2>3. LaunchAt(r)'
    BY <2>1, <2>2 DEF LaunchAt
  <2>4. TaskInv'
    BY <1>2, <2>1, <2>2 DEF TaskInv, OneWriter, Verified
  <2> QED
    BY <1>1, <2>2, <2>3, <2>4, WriterKeeps
<1>6. CASE BindWrite(r)
  <2>1. /\ copy[r] = file /\ file # None /\ tasks = {started[r]}
        /\ UnitRecord(file) /\ State(file) = "launch-pending"
        /\ started[r] \in Threads
    BY <1>2, <1>6 DEF BindWrite, WriteThen, LaunchAt, Base, Typed, RunInv
  <2>2. PICK s \in Bind(file, 1, LaunchAction, started[r]) :
          /\ file' = s /\ copy' = [copy EXCEPT ![r] = s] /\ Goto(r, "done")
          /\ UNCHANGED <<job, started, tasks>>
    <3>1. /\ Bind(file, 1, LaunchAction, started[r]) # {}
          /\ file \notin Bind(file, 1, LaunchAction, started[r])
      BY <2>1, MarkedBinds
    <3> QED
      BY <1>6, <2>1, <3>1 DEF BindWrite, WriteThen
  <2>3. /\ UnitRecord(s) /\ State(s) = "bound" /\ s # None
        /\ s.binding.member = started[r]
    BY <2>1, <2>2, BoundRecord, UnitRecordIsValid
  <2>4. copy'[r] = s /\ pc'[r] = "done" /\ OnlyMoves(r)
    BY <2>2 DEF Goto, OnlyMoves, Base, Typed
  <2>5. LaunchAt(r)'
    BY <2>2, <2>3, <2>4 DEF LaunchAt
  <2>6. TaskInv'
    BY <1>2, <2>1, <2>2, <2>3 DEF TaskInv, OneWriter, Verified
  <2> QED
    BY <1>1, <2>4, <2>5, <2>6, WriterKeeps
<1> QED
  BY <1>3, <1>4, <1>5, <1>6

LEMMA IInvStep ==
  ASSUME IsFiniteSet(Runs), MaxLaunches <= 1, IInv, [Next]_vars PROVE IInv'
<1>1. Base'
  BY BaseStep DEF IInv
<1>2. ASSUME NEW r \in Runs, Return(r) \/ EndEarly(r)
      PROVE  IInv'
  BY <1>1, <1>2, OverKeeps DEF Return, EndEarly, Verified
<1>3. CASE Work \/ OrphanFinishes \/ UNCHANGED vars
  <2>1. UNCHANGED <<file, receipts, pc, job, copy, started, tasks>>
    BY <1>3 DEF Work, OrphanFinishes, vars, run
  <2> QED
    BY <1>1, <2>1 DEF IInv, OneLaunch, LaunchInv, Launches, LaunchAt, TaskInv,
       OneWriter, Verified
<1> QED
  BY <1>1, <1>2, <1>3, StartLaunchKeeps, ReadsKeep, ProvisionsKeep, WritesKeep
     DEF Next

(* With one launch of the unit at a time, however many provisions overlap  *)
(* it and however often it is interrupted and asked for again, one task is *)
(* started in the worktree.                                                *)
THEOREM WorktreeHasOneWriter ==
  ASSUME IsFiniteSet(Runs), MaxLaunches <= 1
  PROVE  Spec => []OneWriter
<1>1. IInv => OneWriter
  BY DEF IInv, TaskInv
<1> QED
  BY <1>1, IInvInit, IInvStep, PTL DEF Spec

(* And that task works in a provisioned worktree, for a unit that says so. *)
THEOREM WriterStaysAccountedFor ==
  ASSUME IsFiniteSet(Runs), MaxLaunches <= 1
  PROVE  Spec => []WriterIsAccountedFor
<1>1. IInv => WriterIsAccountedFor
  <2> SUFFICES ASSUME IInv, tasks # {} PROVE WriterIsAccountedFor
    BY DEF WriterIsAccountedFor
  <2>1. /\ Verified(LaunchAction) /\ file # None /\ UnitRecord(file)
        /\ State(file) # "unbound"
        /\ State(file) = "bound" => file.binding.member \in tasks
    BY DEF IInv, TaskInv, Base, Typed
  <2>2. file.binding.action # None
    BY <2>1 DEF UnitRecord, ValidBinding, Records, Bindings, BindingStates, State
  <2> QED
    BY <2>1, <2>2 DEF WriterIsAccountedFor, Verified, UnitRecord, State
<1> QED
  BY <1>1, IInvInit, IInvStep, PTL DEF Spec
=============================================================================
