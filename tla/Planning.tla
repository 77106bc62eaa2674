------------------------------- MODULE Planning -------------------------------
(***************************************************************************)
(* The planning lifecycle: the one planner that a queen launches for an    *)
(* objective, or for a replan, and the plan that comes of it               *)
(* (src/src/planning-lifecycle.mjs, planning-bootstrap.mjs,                *)
(* exception-replanning.mjs, slice-planner.mjs and the tools that call     *)
(* them).                                                                  *)
(*                                                                         *)
(* A call holds the lock of the lifecycle from its first read to its       *)
(* answer.  What it asks of the host in between, the latest turn and then  *)
(* what the parent's collaboration calls last said of the agent, is read   *)
(* at two moments, and the host goes on.  Answers may be late or lost.     *)
(***************************************************************************)
EXTENDS Naturals, Sequences, FiniteSets

CONSTANTS
  None,
  Calls,        \* calls that may be under way at a time: 1 .. n
  Intents,      \* what a call may ask for: None for the plan of an objective, or
                \* the set of slices that a replan says are completed
  Responses,    \* what a planner may answer
  BaseSlices,   \* the slices of the plan that a replan revises
  MaxParallel,
  MaxInterrupted, \* MAX_INTERRUPTED_TURN_RECONCILIATIONS
  Starts        \* what is explored: how often each thing may happen

Planners == {1, 2}

Phases == {"launch-pending", "launched", "verified", "completed", "attention"}

Receipts ==
  [type : {"created"}, planner : Planners]
    \cup [type : {"result"}, planner : Planners, turn : Nat, response : Responses]

Records ==
  [intent : Intents, phase : Phases, planner : Planners \cup {None},
   result : Receipts \cup {None}, interrupted : 0 .. MaxInterrupted]

Turns ==
  [status : {"running", "completed", "failed", "aborted"}, glitch : BOOLEAN,
   said : Responses \cup {None}]

Tasks ==
  [turns : Seq(Turns), routed : BOOLEAN,
   seen : {"running", "completed", "failed", "aborted", "unavailable", "notFound"}]

ASSUME PlanningAssumption ==
  /\ None \notin Planners \cup Receipts \cup Records \cup Tasks
  /\ MaxParallel \in Nat \ {0} /\ MaxInterrupted \in Nat
  /\ Calls \subseteq Nat
  /\ \A i \in Intents : i # None => i \subseteq BaseSlices
  /\ \A x \in Starts : x \in [{"call", "turn", "glitch", "fault", "loss", "crash"} -> Nat]

VARIABLES
  record,   \* the record of the lifecycle, or None
  job,      \* the call under way in each place, or None
  planner,  \* the native planner tasks, None before they are created
  effects,  \* what the queen was told to do and has not done yet
  known,    \* receipts that the queen holds
  outcomes, \* final answers that reached the queen
  left

vars == <<record, job, planner, effects, known, outcomes, left>>

host == <<planner>>
queen == <<effects, known, outcomes>>

Init ==
  /\ record = None
  /\ job = [c \in Calls |-> None]
  /\ planner = [n \in Planners |-> None]
  /\ effects = {} /\ known = {} /\ outcomes = {}
  /\ left \in Starts

Spend(what) == left[what] > 0 /\ left' = [left EXCEPT ![what] = @ - 1]

Created(n) == [type |-> "created", planner |-> n]

Result(n, turn, response) ==
  [type |-> "result", planner |-> n, turn |-> turn, response |-> response]

-----------------------------------------------------------------------------
(* planWorkSlices and the plan that is left after a replan *)

Elements(s) == {s[i] : i \in DOMAIN s}

\* A plan has a list of slices.
ASSUME ResponsesAssumption ==
  \A r \in Responses : r.kind = "plan" => r.slices \in Seq(Elements(r.slices))

\* The slices of S, in the order of the list.
Only(slices, S) ==
  LET upTo[n \in 0 .. Len(slices)] ==
        IF n = 0 THEN <<>>
        ELSE IF slices[n] \in S THEN Append(upTo[n - 1], slices[n]) ELSE upTo[n - 1]
  IN  upTo[Len(slices)]

\* Of the slices that remain and whose needs are met, as many as may run at a time.
Wave(slices, needs, done) ==
  LET ready == Only(slices, {s \in Elements(slices) \ done : needs[s] \subseteq done})
  IN  {ready[i] : i \in (1 .. MaxParallel) \cap DOMAIN ready}

\* The loop adds a wave until no slice is ready: at most one for each slice.
Longer(slices, needs, waves) ==
  LET next == Wave(slices, needs, UNION Elements(waves))
  IN  IF next = {} THEN waves ELSE Append(waves, next)

Schedule(slices, needs) ==
  LET waves[n \in 0 .. Len(slices)] ==
        IF n = 0 THEN <<>> ELSE Longer(slices, needs, waves[n - 1])
  IN  waves[Len(slices)]

ValidPlan(slices, needs) ==
  /\ slices # <<>>
  /\ \A s \in Elements(slices) : needs[s] \subseteq Elements(slices)
  /\ UNION Elements(Schedule(slices, needs)) = Elements(slices)

Bug_SchedulesAll(completed, response) == response.slices

\* A revised plan is listed by its waves before the completed slices go.
Pending(completed, response) ==
  LET waves == Schedule(response.slices, response.needs)
      upTo[n \in 0 .. Len(waves)] ==
        IF n = 0 THEN <<>>
        ELSE upTo[n - 1] \o Only(response.slices, waves[n] \ completed)
  IN  upTo[Len(waves)]

PendingNeeds(completed, response) ==
  [s \in Elements(response.slices) |-> response.needs[s] \ completed]

Completed(intent) == IF intent = None THEN {} ELSE intent

\* finalizePlanningBootstrapV1 does not throw: a low confidence is asked first,
\* and a slice has an id of its own unless it is a completed one of the base plan.
Usable[intent \in Intents] == [response \in Responses |->
  \/ response.kind = "low"
  \/ /\ response.kind = "plan"
     /\ Elements(response.slices) \cap BaseSlices \subseteq Completed(intent)
     /\ ValidPlan(response.slices, response.needs)]

\* assertCompletedSlicesPreserved
Preserves(intent, response) ==
  /\ intent \subseteq Elements(response.slices) /\ response.faithful

Answer(kind, about) == [kind |-> kind, about |-> about]

\* What the tool answers for a response that is part of the record.
PlanAnswer[intent \in Intents] == [response \in Responses |->
  IF response.kind = "low" THEN Answer("attention", None)
  ELSE IF intent = None
  THEN Answer("plan", Schedule(response.slices, response.needs))
  ELSE IF ~ Preserves(intent, response) THEN Answer("refused", None)
  ELSE Answer("plan", Schedule(Pending(intent, response),
                               PendingNeeds(intent, response)))]

-----------------------------------------------------------------------------
(* The native planner *)

Running(n) ==
  planner[n].turns # <<>> /\ planner[n].turns[Len(planner[n].turns)].status = "running"

\* What app-server says of a turn: of some it says "interrupted" although the
\* agent runs or has completed (docs/dogfood-smoke-2026-07-25.md, D1).
Reported(turn) ==
  IF turn.status = "aborted" \/ (turn.glitch /\ turn.status # "failed")
  THEN "interrupted" ELSE turn.status

LatestTurn(n) ==
  LET turns == planner[n].turns
  IN  IF turns = <<>> THEN [turn |-> 0, status |-> None]
      ELSE [turn |-> Len(turns), status |-> Reported(turns[Len(turns)])]

\* What a collaboration call of the parent would say of the agent now.
AgentStatus(n) ==
  LET turns == planner[n].turns
  IN  IF turns = <<>> THEN "running" ELSE turns[Len(turns)].status

CompletedTurns(n) ==
  {t \in DOMAIN planner[n].turns : planner[n].turns[t].status = "completed"}

Newest(S) == CHOOSE t \in S : \A u \in S : u <= t

\* A turn: the first one, a follow-up of the queen, or one of the user, which
\* the parent's collaboration calls say nothing of.
StartTurn(n) ==
  /\ planner[n] # None /\ ~ Running(n)
  /\ \E glitch \in BOOLEAN, seen \in {"running", planner[n].seen} :
       /\ left' = [left EXCEPT !["turn"] = @ - 1,
                               !["glitch"] = IF glitch THEN @ - 1 ELSE @]
       /\ left["turn"] > 0 /\ (glitch => left["glitch"] > 0)
       /\ planner' = [planner EXCEPT
            ![n].seen = seen,
            ![n].turns = Append(@, [status |-> "running", glitch |-> glitch,
                                    said |-> None])]
  /\ UNCHANGED <<record, job, queen>>

EndTurn(n) ==
  /\ planner[n] # None /\ Running(n)
  /\ \E status \in {"completed", "failed", "aborted"}, response \in Responses :
       planner' = [planner EXCEPT ![n].turns[Len(planner[n].turns)] =
         [@ EXCEPT !.status = status,
                   !.said = IF status = "completed" THEN response ELSE None]]
  /\ UNCHANGED <<record, job, queen, left>>

\* The collaboration calls on the agent are no longer among the latest turns of
\* the parent, or the host has forgotten the agent.
Forget(n) ==
  /\ planner[n] # None /\ Spend("fault")
  /\ \E seen \in {"unavailable", "notFound"} : planner' = [planner EXCEPT ![n].seen = seen]
  /\ UNCHANGED <<record, job, queen>>

-----------------------------------------------------------------------------
(* The queen *)

\* The queen hands in what it was asked for; it rarely changes its mind.
Submit(c, intent, receipt) ==
  /\ c <= left["call"] /\ job[c] = None /\ \A d \in Calls : d < c => job[d] # None
  /\ IF record = None \/ intent = record.intent THEN UNCHANGED left ELSE Spend("fault")
  /\ job' = [job EXCEPT ![c] = [at |-> "lock", intent |-> intent, receipt |-> receipt]]
  /\ UNCHANGED <<record, host, queen>>

\* The task may exist although its creation was not answered.
PerformLaunch ==
  /\ Answer("launch", None) \in effects
  /\ \E n \in Planners, routed \in BOOLEAN, seen \in {"running", "unavailable"}, lost \in BOOLEAN :
       /\ planner[n] = None /\ \A m \in 1 .. n - 1 : planner[m] # None
       /\ LET faults == (IF routed THEN 0 ELSE 1) + (IF seen = "running" THEN 0 ELSE 1)
          IN  /\ faults <= left["fault"] /\ (lost => left["loss"] > 0)
              /\ left' = [left EXCEPT !["fault"] = @ - faults,
                                      !["loss"] = IF lost THEN @ - 1 ELSE @]
       /\ planner' = [planner EXCEPT ![n] = [turns |-> <<>>, seen |-> seen, routed |-> routed]]
       /\ known' = IF lost THEN known ELSE known \cup {Created(n)}
  /\ effects' = effects \ {Answer("launch", None)}
  /\ UNCHANGED <<record, job, outcomes>>

\* onFound, onAbsent and onAmbiguous of the effect.
PerformReconcile ==
  /\ Answer("reconcile", None) \in effects
  /\ effects' = effects \ {Answer("reconcile", None)}
  /\ LET found == {n \in Planners : planner[n] # None}
     IN  IF Cardinality(found) = 1
         THEN known' = known \cup {Created(n) : n \in found} /\ UNCHANGED outcomes
         ELSE outcomes' = outcomes \cup {Answer("attention", None)} /\ UNCHANGED known
  /\ UNCHANGED <<record, job, host, left>>

PerformWait ==
  /\ Answer("wait", None) \in effects
  /\ effects' = effects \ {Answer("wait", None)}
  /\ LET n == record.planner
     IN  /\ planner[n].turns # <<>> /\ ~ Running(n)
         /\ planner' = [planner EXCEPT
              ![n].seen = IF @ \in {"unavailable", "notFound"} THEN @ ELSE AgentStatus(n)]
  /\ UNCHANGED <<record, job, known, outcomes, left>>

\* The queen gets what the agent said last, whichever turn it asks for.
PerformRead(turn) ==
  /\ Answer("read", turn) \in effects
  /\ LET n == record.planner
     IN  /\ CompletedTurns(n) # {}
         /\ known' = known \cup
              {Result(n, turn, planner[n].turns[Newest(CompletedTurns(n))].said)}
  /\ UNCHANGED <<record, job, host, effects, outcomes, left>>

-----------------------------------------------------------------------------
(* PlanningLifecycleCoordinatorV1.advance *)

HasLock(c) ==
  \A d \in Calls \ {c} : job[d] # None => job[d].at \in {"lock", "answered"}

Reply(c, kind, about) ==
  job' = [job EXCEPT ![c] = [at |-> "answered", answer |-> Answer(kind, about)]]

\* An error, or an attention that may be retried: the queen learns nothing.
Throw(c) == job' = [job EXCEPT ![c] = None]

Goto(c, at) == job' = [job EXCEPT ![c].at = at]

Examine(c) == job' = [job EXCEPT ![c] = [at |-> "turn", receipt |-> @.receipt]]

Enter(c) == job[c] # None /\ job[c].at = "lock" /\ HasLock(c)

At(c, at) == job[c] # None /\ job[c].at = at

Final == record.phase \in {"completed", "attention"}

Prepare(c) ==
  /\ Enter(c) /\ record = None
  /\ IF job[c].receipt = None
     THEN /\ record' = [intent |-> job[c].intent, phase |-> "launch-pending",
                        planner |-> None, result |-> None, interrupted |-> 0]
          /\ Reply(c, "launch", None)
     ELSE Throw(c) /\ UNCHANGED record
  /\ UNCHANGED <<host, queen, left>>

\* The request is the one that the record was prepared for.
Resumes(c) == Enter(c) /\ record # None /\ job[c].intent = record.intent

RefuseIntent(c) ==
  /\ Enter(c) /\ record # None /\ job[c].intent # record.intent
  /\ Throw(c) /\ UNCHANGED <<record, host, queen, left>>

\* Without a receipt an uncertain launch is reconciled.
ResumeLaunch(c) ==
  /\ Resumes(c) /\ job[c].receipt = None
  /\ IF record.phase = "launch-pending" THEN Reply(c, "reconcile", None) ELSE Throw(c)
  /\ UNCHANGED <<record, host, queen, left>>

ResumeCreated(c) ==
  /\ Resumes(c) /\ job[c].receipt # None /\ job[c].receipt.type = "created"
  /\ LET n == job[c].receipt.planner
     IN  \/ /\ record.planner = None
            /\ record' = [record EXCEPT !.phase = "launched", !.planner = n]
            /\ Examine(c) /\ UNCHANGED left
         \/ /\ record.planner = None /\ Spend("fault")
            /\ Throw(c) /\ UNCHANGED record
         \/ /\ record.planner # None
            /\ IF record.planner = n /\ ~ Final THEN Examine(c) ELSE Throw(c)
            /\ UNCHANGED <<record, left>>
  /\ UNCHANGED <<host, queen>>

Bug_ByActionId(receipt) == record.result # None

\* existingReceipt, and the digest of the response.
Replays(receipt) == record.result = receipt

ResumeResult(c) ==
  /\ Resumes(c) /\ job[c].receipt # None /\ job[c].receipt.type = "result"
  /\ LET r == job[c].receipt
         answer == PlanAnswer[record.intent][r.response]
     IN  IF record.phase \notin {"verified", "completed", "attention"} \/ r.planner # record.planner
         THEN Throw(c)
         ELSE IF record.result = None THEN Examine(c)
         ELSE IF Replays(r) THEN Reply(c, answer.kind, answer.about)
         ELSE Throw(c)
  /\ UNCHANGED <<record, host, queen, left>>

\* #inspectVerified: the route and the latest turn...
ReadTurn(c) ==
  /\ At(c, "turn")
  /\ LET n == job[c].receipt.planner
     IN  \/ /\ ~ planner[n].routed
            /\ Reply(c, "attention", None) /\ UNCHANGED left
         \/ /\ planner[n].routed
            /\ job' = [job EXCEPT ![c] =
                 [at |-> "agent", receipt |-> @.receipt, latest |-> LatestTurn(n)]]
            /\ UNCHANGED left
         \/ Throw(c) /\ Spend("fault")
  /\ UNCHANGED <<record, host, queen>>

\* ...then the collaboration status.
ReadAgent(c) ==
  /\ At(c, "agent")
  /\ job' = [job EXCEPT ![c] =
       [at |-> IF @.receipt.type = "result" THEN "judge" ELSE "verify",
        receipt |-> @.receipt, latest |-> @.latest,
        seen |-> planner[@.receipt.planner].seen]]
  /\ UNCHANGED <<record, host, queen, left>>

Verify(c) ==
  /\ At(c, "verify")
  /\ record' = [record EXCEPT !.phase = "verified"]
  /\ Goto(c, "status")
  /\ UNCHANGED <<host, queen, left>>

Bug_NeverCounts == record

CountInterrupted == [record EXCEPT !.interrupted = @ + 1]

Uncertain(c) == job[c].latest.status = "interrupted" /\ job[c].seen = "unavailable"

MayReconcile(c) == Uncertain(c) /\ record.interrupted < MaxInterrupted

Failed(c) ==
  \/ job[c].seen \in {"failed", "aborted", "notFound"}
  \/ job[c].latest.status = "failed"

Unfinished(c) ==
  job[c].latest.status \in {None, "running"} \/ job[c].seen = "running"

Succeeded(c) == "completed" \in {job[c].latest.status, job[c].seen}

\* statusAction
StatusAction(c) ==
  CASE Failed(c) -> Answer("attention", None)
    [] ~ Failed(c) /\ Unfinished(c) -> Answer("wait", None)
    [] ~ Failed(c) /\ ~ Unfinished(c) /\ ~ Succeeded(c) -> Answer("attention", None)
    [] OTHER -> Answer("read", job[c].latest.turn)

ReplyStatus(c) == Reply(c, StatusAction(c).kind, StatusAction(c).about)

Status(c) ==
  /\ At(c, "status")
  /\ \/ /\ MayReconcile(c)
        /\ record' = CountInterrupted /\ Reply(c, "wait", None)
     \/ /\ ~ MayReconcile(c)
        /\ ReplyStatus(c) /\ UNCHANGED record
  /\ UNCHANGED <<host, queen, left>>

Bug_AnyTurn(c) == TRUE

CurrentTurn(c) == job[c].latest.turn = job[c].receipt.turn

\* A result is judged by the turn that it is booked to.
Judge(c) ==
  /\ At(c, "judge")
  /\ \/ /\ Unfinished(c)
        /\ ReplyStatus(c) /\ UNCHANGED record
     \/ /\ ~ Unfinished(c) /\ ~ CurrentTurn(c)
        /\ Throw(c) /\ UNCHANGED record
     \/ /\ ~ Unfinished(c) /\ CurrentTurn(c) /\ MayReconcile(c)
        /\ record' = CountInterrupted /\ Reply(c, "wait", None)
     \/ /\ ~ Unfinished(c) /\ CurrentTurn(c) /\ ~ MayReconcile(c)
        /\ Failed(c) \/ ~ Succeeded(c)
        /\ Reply(c, "attention", None) /\ UNCHANGED record
     \/ /\ ~ Unfinished(c) /\ CurrentTurn(c) /\ ~ Failed(c) /\ Succeeded(c)
        /\ Goto(c, "finalize") /\ UNCHANGED record
  /\ UNCHANGED <<host, queen, left>>

\* The route of the turn is read again, then the response.
Finalize(c) ==
  /\ At(c, "finalize")
  /\ LET r == job[c].receipt
         answer == PlanAnswer[record.intent][r.response]
     IN  \/ /\ ~ Usable[record.intent][r.response]
            /\ Reply(c, "refused", None) /\ UNCHANGED <<record, left>>
         \/ /\ Usable[record.intent][r.response]
            /\ record' = [record EXCEPT
                 !.phase = IF r.response.kind = "low" THEN "attention" ELSE "completed",
                 !.result = r]
            /\ Reply(c, answer.kind, answer.about) /\ UNCHANGED left
         \/ Throw(c) /\ Spend("fault") /\ UNCHANGED record
  /\ UNCHANGED <<host, queen>>

Deliver(c) ==
  /\ At(c, "answered")
  /\ LET answer == job[c].answer
     IN  IF answer.kind \in {"attention", "refused", "plan"}
         THEN outcomes' = outcomes \cup {answer} /\ UNCHANGED effects
         ELSE effects' = effects \cup {answer} /\ UNCHANGED outcomes
  /\ Throw(c)
  /\ UNCHANGED <<record, host, known, left>>

Lose(c) ==
  /\ At(c, "answered") /\ Spend("loss")
  /\ Throw(c) /\ UNCHANGED <<record, host, queen>>

Crash(c) ==
  /\ job[c] # None /\ job[c].at \notin {"lock", "answered"} /\ Spend("crash")
  /\ Throw(c) /\ UNCHANGED <<record, host, queen>>

-----------------------------------------------------------------------------
Step(c) ==
  \/ Prepare(c) \/ RefuseIntent(c) \/ ResumeLaunch(c) \/ ResumeCreated(c)
  \/ ResumeResult(c) \/ ReadTurn(c) \/ ReadAgent(c) \/ Verify(c) \/ Status(c)
  \/ Judge(c) \/ Finalize(c) \/ Deliver(c)

Perform ==
  \/ PerformLaunch \/ PerformReconcile \/ PerformWait
  \/ \E e \in effects : e.kind = "read" /\ PerformRead(e.about)

Planner == \E n \in Planners : StartTurn(n) \/ EndTurn(n) \/ Forget(n)

Next ==
  \/ \E c \in Calls :
       \/ Step(c) \/ Lose(c) \/ Crash(c)
       \/ \E intent \in Intents, receipt \in known \cup {None} : Submit(c, intent, receipt)
  \/ Perform \/ Planner

\* The queen follows the answers: it repeats the call with what it holds, of the
\* results the one of the newest turn, and does what it is told.
NewestResult(r) ==
  r.type = "result" /\ \A s \in known : s.type = "result" => s.turn <= r.turn

SubmitsAgain(receipt) ==
  \E c \in Calls, intent \in Intents :
    (record # None => intent = record.intent) /\ Submit(c, intent, receipt)

Asks == SubmitsAgain(None)

Reports == \E r \in known : r.type = "created" /\ SubmitsAgain(r)

HandsIn == \E r \in known : NewestResult(r) /\ SubmitsAgain(r)

FirstTurn == \E n \in Planners : planner[n] # None /\ planner[n].turns = <<>> /\ StartTurn(n)

ReadsNewest ==
  \E e \in effects : /\ e.kind = "read" /\ PerformRead(e.about)
                     /\ \A f \in effects : f.kind = "read" => f.about <= e.about

Fairness ==
  /\ \A c \in Calls : WF_vars(Step(c))
  /\ SF_vars(Asks) /\ SF_vars(Reports) /\ SF_vars(HandsIn)
  /\ WF_vars(PerformLaunch) /\ WF_vars(PerformReconcile)
  /\ WF_vars(PerformWait) /\ WF_vars(ReadsNewest)
  /\ WF_vars(FirstTurn) /\ \A n \in Planners : WF_vars(EndTurn(n))

Spec == Init /\ [][Next]_vars /\ Fairness

-----------------------------------------------------------------------------
(* Type invariant: the records that normalizeRecord accepts.                *)
TypeOK ==
  record # None => record \in Records /\ (record.result # None) = Final

(* One lifecycle launches one planner and hands out one plan, whatever is    *)
(* repeated, lost or cut off, and whatever the planner says later.           *)
OnePlan ==
  /\ Cardinality({n \in Planners : planner[n] # None}) <= 1
  /\ Cardinality({o \in outcomes : o.kind = "plan"}) <= 1

(* A final response is what the planner said last when the turn that the     *)
(* response is booked to ended: not of an earlier turn, not of a later one.  *)
(* (The runs, and the hypothesis TurnsAreReported of the theorem, exclude    *)
(* a turn the host misreports that is followed by a second turn: there an    *)
(* earlier response can be booked to the later turn.)                        *)
PlanIsCurrent ==
  record # None /\ record.result # None =>
    LET r == record.result
        upTo == {t \in CompletedTurns(r.planner) : t <= r.turn}
    IN  upTo # {} /\ planner[r.planner].turns[Newest(upTo)].said = r.response

(* What is handed out can be launched: a slice follows the slices it needs,  *)
(* a wave is no larger than allowed, and no completed slice is scheduled     *)
(* again, nor is one left out on which nothing was decided.                  *)
ScheduleIsSafe ==
  \A o \in outcomes : o.kind = "plan" =>
    LET r == record.result.response
        before(n) == UNION {o.about[k] : k \in 1 .. n - 1}
        done == Completed(record.intent)
    IN  /\ UNION Elements(o.about) = Elements(r.slices) \ done
        /\ \A n \in DOMAIN o.about :
             /\ o.about[n] \cap (before(n) \cup done) = {}
             /\ Cardinality(o.about[n]) \in 1 .. MaxParallel
             /\ \A s \in o.about[n] : r.needs[s] \subseteq before(n) \cup done

(* A queen that goes on gets a plan, an attention or the refusal of what the *)
(* planner said: a launch, an answer or a turn that was lost, or an agent of *)
(* which nothing is known, does not keep it waiting forever.                 *)
PlanningSettles == <>(outcomes # {})
=============================================================================
