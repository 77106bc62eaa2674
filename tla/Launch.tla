------------------------------- MODULE Launch -------------------------------
(***************************************************************************)
(* The launch of one work unit: McpOrchestrationAdapterV1.orchestrate      *)
(* (src/src/mcp-orchestration.mjs) run by several MCP calls, the queen     *)
(* that performs the native effects it returns, and the join adapter that  *)
(* advances attempts of the same record under another lock.                *)
(*                                                                         *)
(* Every call has a store of its own, so a mutation is a read of the file  *)
(* and a later write of what was computed from that read.  Calls stop at   *)
(* any point (their lock is then reclaimed), answers get lost, the queen   *)
(* restarts without what it held, and it repeats requests and receipts.    *)
(***************************************************************************)
EXTENDS WorkUnitRecord, FiniteSets

CONSTANTS
  Calls,      \* calls of nelos_orchestrate_create that overlap
  MaxAttempt, \* policy.maxAttempts of the unit
  MaxLosses   \* bound on crashes and restarts

\* launchActionFor: the action id is a function of unit, revision and attempt.
ASSUME LaunchAssumption ==
  /\ MaxAttempt \in Nat \ {0}
  /\ Actions = 1 .. MaxAttempt
  /\ None \notin Calls \cup Records
  /\ MaxLosses \in Nat

LaunchActionFor(attempt) == attempt

Definition ==
  [revision |-> 1, attempt |-> 1, maxAttempts |-> MaxAttempt,
   required |-> TRUE, readable |-> TRUE, binding |-> Unbound,
   history |-> << >>]

VARIABLES
  file,      \* the record on disk
  lock,      \* the call in the execution lock of the unit
  pc,        \* where each call stands
  request,   \* what it was called with: the attempt, and a created task or None
  copy,      \* the record it read last
  newlyPending, \* whether it made the unit launch-pending itself
  joiner,    \* the join adapter's mutation: what it read, or None
  effects,   \* native effects the queen has been given and not performed
  receipts,  \* created tasks the queen holds a receipt of
  tasks,     \* native tasks created for this unit
  losses

handler == <<lock, pc, request, copy, newlyPending>>
world == <<effects, receipts, tasks>>
vars == <<file, handler, joiner, world, losses>>

Requests == [attempt : 1 .. MaxAttempt, member : Threads \cup {None}]
Effects == [type : {"create", "reconcile"}, attempt : 1 .. MaxAttempt]
Receipts == [attempt : 1 .. MaxAttempt, member : Threads]
PCs == {"idle", "wait", "read", "create", "createWrite", "check", "mark",
        "markWrite", "bind", "bindWrite", "answer"}

NoRequest == [attempt |-> 1, member |-> None]

Init ==
  /\ file = None
  /\ lock = None
  /\ pc = [c \in Calls |-> "idle"]
  /\ request = [c \in Calls |-> NoRequest]
  /\ copy = [c \in Calls |-> None]
  /\ newlyPending = [c \in Calls |-> FALSE]
  /\ joiner = None
  /\ effects = {}
  /\ receipts = {}
  /\ tasks = {}
  /\ losses = 0

-----------------------------------------------------------------------------
(* orchestrate() *)

Called(c, attempt, member) ==
  /\ pc[c] = "idle"
  /\ pc' = [pc EXCEPT ![c] = "wait"]
  /\ request' = [request EXCEPT ![c] = [attempt |-> attempt, member |-> member]]
  /\ UNCHANGED <<file, lock, copy, newlyPending, joiner, world, losses>>

\* A call ends, and with it its lock and its local variables.
Over(c) ==
  /\ pc' = [pc EXCEPT ![c] = "idle"]
  /\ lock' = IF lock = c THEN None ELSE lock
  /\ request' = [request EXCEPT ![c] = NoRequest]
  /\ copy' = [copy EXCEPT ![c] = None]
  /\ newlyPending' = [newlyPending EXCEPT ![c] = FALSE]

\* The queen asks for the next effect, as often as it likes and with the
\* definition of any attempt.
Ask(c) == \E k \in 1 .. MaxAttempt : Called(c, k, None)

\* The queen hands in a create receipt with the definition of its attempt;
\* assertReceiptMatchesAction takes no other.
Report(c) == \E r \in receipts : Called(c, r.attempt, r.member)

Bug_NoLock(c) ==
  /\ pc[c] = "wait"
  /\ lock' = c
  /\ pc' = [pc EXCEPT ![c] = "read"]
  /\ UNCHANGED <<file, request, copy, newlyPending, joiner, world, losses>>

\* withExecutionOrchestrationLock
Lock(c) ==
  /\ pc[c] = "wait"
  /\ lock = None
  /\ lock' = c
  /\ pc' = [pc EXCEPT ![c] = "read"]
  /\ UNCHANGED <<file, request, copy, newlyPending, joiner, world, losses>>

\* A read of the file between two awaits.
ReadThen(c, from, to) ==
  /\ pc[c] = from
  /\ pc' = [pc EXCEPT ![c] = to]
  /\ copy' = [copy EXCEPT ![c] = file]
  /\ UNCHANGED <<file, lock, request, newlyPending, joiner, world, losses>>

\* What a transition leaves behind, computed from the last read.  A replay
\* returns the record it read and renames nothing.
WriteThen(c, from, records, to) ==
  /\ pc[c] = from
  /\ \E r \in records :
       /\ file' = IF r = copy[c] THEN file ELSE r
       /\ copy' = [copy EXCEPT ![c] = r]
  /\ pc' = [pc EXCEPT ![c] = to]
  /\ UNCHANGED <<lock, request, joiner, world, losses>>

\* An error: the caller learns nothing new.
Throw(c) == Over(c) /\ UNCHANGED <<file, joiner, world, losses>>

ReadRecord(c) ==
  ReadThen(c, "read", IF file = None THEN "create" ELSE "check")

CreateRead(c) == ReadThen(c, "create", "createWrite")

\* already_exists makes the adapter read again.
CreateWrite(c) ==
  LET new == [Definition EXCEPT !.attempt = request[c].attempt]
  IN  IF Create(copy[c], new) = {}
      THEN ReadThen(c, "createWrite", "check")
      ELSE /\ WriteThen(c, "createWrite", Create(copy[c], new), "check")
           /\ UNCHANGED newlyPending

\* sameDefinition compares attempt (and the fields that never change here).
SameDefinition(c) == copy[c] # None /\ copy[c].attempt = request[c].attempt

MatchesPending(c) ==
  copy[c].binding.action = LaunchActionFor(request[c].attempt)

SameMember(c) ==
  copy[c].binding.state = "bound" =>
    request[c].member \in {None, copy[c].binding.member}

Check(c) ==
  /\ pc[c] = "check"
  /\ IF ~ SameDefinition(c) THEN Throw(c)
     ELSE IF copy[c].binding.state = "unbound"
     THEN /\ pc' = [pc EXCEPT ![c] = "mark"]
          /\ UNCHANGED <<file, lock, request, copy, newlyPending, joiner, world, losses>>
     ELSE IF ~ MatchesPending(c) \/ ~ SameMember(c) THEN Throw(c)
     ELSE /\ pc' = [pc EXCEPT ![c] =
                      IF request[c].member = None THEN "answer" ELSE "bind"]
          /\ UNCHANGED <<file, lock, request, copy, newlyPending, joiner, world, losses>>

MarkRead(c) == ReadThen(c, "mark", "markWrite")

MarkWrite(c) ==
  LET marked == MarkLaunchPending(copy[c], 1, LaunchActionFor(request[c].attempt))
  IN  /\ pc[c] = "markWrite"
      /\ IF marked = {} THEN Throw(c)
         ELSE /\ WriteThen(c, "markWrite", marked,
                           IF request[c].member = None THEN "answer" ELSE "bind")
              /\ newlyPending' = [newlyPending EXCEPT ![c] = TRUE]

BindRead(c) == ReadThen(c, "bind", "bindWrite")

BindWrite(c) ==
  LET bound == Bind(copy[c], 1, LaunchActionFor(request[c].attempt),
                    request[c].member)
  IN  /\ pc[c] = "bindWrite"
      /\ IF bound = {} THEN Throw(c)
         ELSE /\ WriteThen(c, "bindWrite", bound, "answer")
              /\ UNCHANGED newlyPending

Bug_AlwaysCreates(c) ==
  IF copy[c].binding.state = "bound" THEN {}
  ELSE {[type |-> "create", attempt |-> copy[c].attempt]}

Bug_NeverReconciles(c) ==
  {[type |-> "create", attempt |-> copy[c].attempt] :
     x \in {y \in {1} : newlyPending[c] /\ copy[c].binding.state # "bound"}}

\* The effect of the answer; a title effect needs nothing from the queen here.
EffectOf(c) ==
  IF copy[c].binding.state = "bound" THEN {}
  ELSE {[type |-> IF newlyPending[c] THEN "create" ELSE "reconcile",
         attempt |-> copy[c].attempt]}

Answer(c) ==
  /\ pc[c] = "answer"
  /\ Over(c)
  /\ effects' = effects \cup EffectOf(c)
  /\ UNCHANGED <<file, joiner, receipts, tasks, losses>>

-----------------------------------------------------------------------------
(* The join adapter: ExecutionStoreV1.advanceAttempt after a follow-up *)

JoinerRead ==
  /\ joiner = None
  /\ file # None
  /\ joiner' = file
  /\ UNCHANGED <<file, handler, world, losses>>

JoinerWrite ==
  /\ joiner # None
  /\ LET advanced == AdvanceAttempt(joiner, 1, joiner.attempt)
     IN  IF advanced = {} THEN UNCHANGED file ELSE file' \in advanced
  /\ joiner' = None
  /\ UNCHANGED <<handler, world, losses>>

-----------------------------------------------------------------------------
(* The queen and the native host *)

\* The task is created; its receipt may be lost with the response.
PerformCreate ==
  \E e \in effects, t \in Threads \ tasks :
    /\ e.type = "create"
    /\ effects' = effects \ {e}
    /\ tasks' = tasks \cup {t}
    /\ receipts' \in
         {receipts, receipts \cup {[attempt |-> e.attempt, member |-> t]}}
    /\ UNCHANGED <<file, handler, joiner, losses>>

\* native-reconcile-create: onFound returns the receipt of the task, onAbsent
\* and onAmbiguous ask for attention and create nothing.
PerformReconcile ==
  \E e \in effects :
    /\ e.type = "reconcile"
    /\ effects' = effects \ {e}
    /\ receipts' = receipts \cup
         {[attempt |-> e.attempt, member |-> t] :
            t \in {u \in tasks : Cardinality(tasks) = 1}}
    /\ UNCHANGED <<file, handler, joiner, tasks, losses>>

-----------------------------------------------------------------------------
(* Failures *)

\* The process of a call ends; the lock is reclaimed, the answer never comes.
CallLost(c) ==
  /\ pc[c] # "idle"
  /\ losses < MaxLosses
  /\ losses' = losses + 1
  /\ Over(c)
  /\ UNCHANGED <<file, joiner, world>>

\* A later queen turn knows only what Nelos and the host remember.
QueenLost ==
  /\ losses < MaxLosses
  /\ losses' = losses + 1
  /\ effects' = {}
  /\ receipts' = {}
  /\ UNCHANGED <<file, handler, joiner, tasks>>

Step(c) ==
  \/ Lock(c) \/ ReadRecord(c) \/ CreateRead(c) \/ CreateWrite(c) \/ Check(c)
  \/ MarkRead(c) \/ MarkWrite(c) \/ BindRead(c) \/ BindWrite(c) \/ Answer(c)

Next ==
  \/ \E c \in Calls : Ask(c) \/ Report(c) \/ Step(c) \/ CallLost(c)
  \/ JoinerRead \/ JoinerWrite
  \/ PerformCreate \/ PerformReconcile \/ QueenLost

\* The request of a queen that knows the unit's attempt.
AskNext(c) == Called(c, IF file = None THEN 1 ELSE file.attempt, None)

(***************************************************************************)
(* A call that runs goes on.  A queen works on its wave until it is bound: *)
(* it asks, it performs what it is given, and it hands in what it holds    *)
(* (task-orchestration.md, "Resume After an Interrupted Queen").  Calls    *)
(* compete for the lock, and the queen's requests for a call, hence the    *)
(* strong fairness of those three.                                         *)
(***************************************************************************)
Fairness ==
  /\ \A c \in Calls :
       /\ WF_vars(Step(c))
       /\ SF_vars(Lock(c))
       /\ SF_vars(AskNext(c))
       /\ SF_vars(Report(c))
  /\ WF_vars(PerformCreate) /\ WF_vars(PerformReconcile)

Spec == Init /\ [][Next]_vars /\ Fairness

-----------------------------------------------------------------------------
(* Types of every call and of what the queen holds; the file is a record   *)
(* the validator accepts, so that the next read does not fail.             *)
TypeOK ==
  /\ file = None \/ ValidRecord(file)
  /\ lock \in Calls \cup {None}
  /\ pc \in [Calls -> PCs]
  /\ request \in [Calls -> Requests]
  /\ copy \in [Calls -> Records \cup {None}]
  /\ newlyPending \in [Calls -> BOOLEAN]
  /\ joiner \in Records \cup {None}
  /\ effects \subseteq Effects
  /\ receipts \subseteq Receipts
  /\ tasks \subseteq Threads
  /\ losses \in 0 .. MaxLosses

(* However often the queen asks, whatever is lost and however the calls    *)
(* interleave, one native task is created for the unit: an uncertain       *)
(* create is reconciled and never repeated.                                *)
AtMostOneTask == \A s, t \in tasks : s = t

Unit == INSTANCE WorkUnit WITH
  record <- file, Initial <- {None}, Numbers <- 1 .. MaxAttempt,
  Specs <- {[Definition EXCEPT !.attempt = k] : k \in 1 .. MaxAttempt}

(* The calls and the join adapter write the same file under different      *)
(* locks and from reads that may be old, and still every write is one      *)
(* transition of the record as it stands: no update is lost.               *)
NoLostUpdate == Unit!Spec

(* A task that was created is bound in the end, whatever answer, receipt   *)
(* or process was lost on the way.                                         *)
CreatedTaskIsBound ==
  (tasks # {}) ~> (file # None /\ file.binding.state = "bound")
=============================================================================
