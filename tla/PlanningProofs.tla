---------------------------- MODULE PlanningProofs ----------------------------
(***************************************************************************)
(* One lifecycle has one planner and one plan, the plan is what the        *)
(* planner said in the turn that it is booked to, and its waves can be     *)
(* launched one after the other, for any calls, answers, turns and         *)
(* failures.                                                               *)
(***************************************************************************)
EXTENDS Planning, FiniteSetTheorems, WellFoundedInduction, TLAPS

-----------------------------------------------------------------------------
(* The invariant of one planner and one plan *)

Working(c) == job[c] # None /\ job[c].at \notin {"lock", "answered"}

LockInv == \A c, d \in Calls : Working(c) /\ Working(d) => c = d

Launching(c) == At(c, "answered") /\ job[c].answer.kind = "launch"

Unlaunched == \A n \in Planners : planner[n] = None

\* The right to launch a planner is given once, and is used up.
LaunchInv ==
  /\ record = None =>
       /\ Unlaunched /\ Answer("launch", None) \notin effects
       /\ \A c \in Calls : ~ Launching(c)
  /\ Answer("launch", None) \in effects => Unlaunched /\ \A c \in Calls : ~ Launching(c)
  /\ \A c \in Calls : Launching(c) => Unlaunched
  /\ \A c, d \in Calls : Launching(c) /\ Launching(d) => c = d
  /\ \A m, n \in Planners : planner[m] # None /\ planner[n] # None => m = n

\* A plan is an answer about the one result of the record.
Given(a) ==
  /\ a.kind = "plan" =>
       /\ record # None /\ record.result # None
       /\ a = PlanAnswer[record.intent][record.result.response]
  /\ a.kind \in {"read", "wait"} => record # None /\ record.planner # None
  /\ a.kind = "read" => a.about \in Nat

\* The receipt is of a planner that is there.
Launched(r) == planner[r.planner] # None

\* A call that works has the lock; the record has no result yet.
WorkInv(c) ==
  /\ record # None /\ record.result = None
  /\ job[c].receipt \in Receipts /\ Launched(job[c].receipt)
  /\ record.planner = job[c].receipt.planner
  /\ IF job[c].receipt.type = "result"
     THEN record.phase = "verified" /\ job[c].at \in {"turn", "agent", "judge", "finalize"}
     ELSE job[c].at \in {"turn", "agent", "verify", "status"}
  /\ job[c].at # "turn" =>
       {"at", "receipt", "latest"} \subseteq DOMAIN job[c] /\ job[c].latest.turn \in Nat

JobInv(c) ==
  /\ job[c].at = "lock" =>
       /\ job[c].intent \in Intents /\ job[c].receipt \in Receipts \cup {None}
       /\ job[c].receipt # None => Launched(job[c].receipt)
  /\ job[c].at = "answered" => Given(job[c].answer)
  /\ Working(c) => WorkInv(c)

HostInv ==
  /\ planner \in [Planners -> Tasks \cup {None}]
  /\ \A n \in Planners : planner[n] # None =>
       /\ \A t \in DOMAIN planner[n].turns :
            /\ planner[n].turns[t].status = "completed" =>
                 planner[n].turns[t].said \in Responses
            /\ t < Len(planner[n].turns) => planner[n].turns[t].status # "running"

RecordInv ==
  record # None =>
    /\ record.planner # None => planner[record.planner] # None
    /\ record.result # None =>
         /\ record.planner # None
         /\ record.result.type = "result" /\ record.result.planner = record.planner

LeftInv == left \in [{"call", "turn", "glitch", "fault", "loss", "crash"} -> Nat]

IInv ==
  /\ TypeOK /\ RecordInv /\ LockInv /\ LaunchInv /\ HostInv /\ LeftInv
  /\ job = [c \in Calls |-> job[c]]
  /\ \A c \in Calls : job[c] # None => JobInv(c)
  /\ \A a \in effects \cup outcomes : Given(a)
  /\ \A r \in known : r \in Receipts /\ Launched(r)

-----------------------------------------------------------------------------
(* Facts about the values *)

LEMMA NoneFacts ==
  None \notin Planners /\ None \notin Receipts /\ None \notin Records /\ None \notin Tasks
BY PlanningAssumption

LEMMA ReceiptFacts ==
  ASSUME NEW r \in Receipts
  PROVE  /\ r.planner \in Planners /\ r # None /\ r.type \in {"created", "result"}
         /\ r.type = "result" => r.turn \in Nat /\ r.response \in Responses
BY NoneFacts DEF Receipts

LEMMA MadeReceipts ==
  /\ \A n \in Planners : Created(n) \in Receipts /\ Created(n).planner = n /\ Created(n).type = "created"
  /\ \A n \in Planners, t \in Nat, x \in Responses :
       /\ Result(n, t, x) \in Receipts /\ Result(n, t, x).planner = n
       /\ Result(n, t, x).type = "result" /\ Result(n, t, x).turn = t
       /\ Result(n, t, x).response = x
BY DEF Created, Result, Receipts

LEMMA RecordFacts ==
  ASSUME TypeOK, record # None
  PROVE  /\ record.intent \in Intents /\ record.phase \in Phases
         /\ record.planner \in Planners \cup {None} /\ record.result \in Receipts \cup {None}
         /\ record.interrupted \in 0 .. MaxInterrupted
         /\ record.result # None <=> record.phase \in {"completed", "attention"}
BY DEF TypeOK, Records, Final

LEMMA AnswerFacts == \A k, x : Answer(k, x).kind = k /\ Answer(k, x).about = x
BY DEF Answer

LEMMA PlanAnswerFacts ==
  ASSUME NEW i \in Intents, NEW r \in Responses, NEW a, a = PlanAnswer[i][r]
  PROVE  a.kind \in {"attention", "plan", "refused"} /\ a = Answer(a.kind, a.about)
<1>1. \/ a = Answer("attention", None) \/ a = Answer("refused", None)
      \/ \E w : a = Answer("plan", w)
  BY DEF PlanAnswer
<1> QED
  BY <1>1, AnswerFacts

-----------------------------------------------------------------------------
(* What every step keeps *)

RecordGrows ==
  record # None =>
    /\ record' # None /\ record'.intent = record.intent
    /\ record.planner # None => record'.planner = record.planner
    /\ record.result # None => record'.result = record.result

LEMMA GivenStays == ASSUME RecordGrows, NEW a, Given(a) PROVE Given(a)'
BY DEF RecordGrows, Given

\* A step of the call c that nobody else notices.
LEMMA StepKeeps ==
  ASSUME IInv, NEW c \in Calls, NEW x, job' = [job EXCEPT ![c] = x],
         x # None => JobInv(c)' /\ ~ Launching(c)',
         \/ \A d \in Calls \ {c} : ~ Working(d)
         \/ record' = record /\ (x # None => ~ Working(c)'),
         RecordGrows, TypeOK', RecordInv', LeftInv',
         UNCHANGED <<planner, effects, known, outcomes>>
  PROVE  IInv'
<1>1. job'[c] = x /\ \A d \in Calls \ {c} : job'[d] = job[d]
  BY DEF IInv
<1>2. job' = [d \in Calls |-> job'[d]]
  BY DEF IInv
<1>3. \A d \in Calls \ {c} : Working(d)' = Working(d) /\ Launching(d)' = Launching(d)
  BY <1>1 DEF Working, Launching, At
<1>4. LockInv'
  <2>1. Working(c)' => \A d \in Calls \ {c} : ~ Working(d)
    BY <1>1 DEF Working
  <2> QED
    BY <1>3, <2>1 DEF IInv, LockInv
<1>5. ~ Launching(c)'
  BY <1>1 DEF Launching, At
<1>6. LaunchInv'
  BY <1>3, <1>5 DEF IInv, LaunchInv, Unlaunched, RecordGrows
<1>7. HostInv'
  BY DEF IInv, HostInv
<1>8. ASSUME NEW d \in Calls, job'[d] # None PROVE JobInv(d)'
  <2>1. CASE d = c
    BY <1>1, <1>8, <2>1
  <2>2. CASE d # c
    <3>1. job[d] # None /\ job'[d] = job[d] /\ JobInv(d)
      BY <1>1, <1>8, <2>2 DEF IInv
    <3>2. Working(d)' => WorkInv(d)'
      BY <1>3, <2>2, <3>1 DEF JobInv, WorkInv, Working, Launched
    <3> QED
      BY <3>1, <3>2, GivenStays DEF JobInv, Launched
  <2> QED
    BY <2>1, <2>2
<1>9. \A a \in effects' \cup outcomes' : Given(a)'
  BY GivenStays DEF IInv
<1>10. \A r \in known' : r \in Receipts /\ Launched(r)'
  BY DEF IInv, Launched
<1> QED
  BY <1>2, <1>4, <1>6, <1>7, <1>8, <1>9, <1>10 DEF IInv

LEMMA SpendKeeps ==
  ASSUME LeftInv, NEW w, Spend(w) \/ UNCHANGED left,
         w \in {"call", "turn", "glitch", "fault", "loss", "crash"}
  PROVE  LeftInv'
BY DEF LeftInv, Spend

\* A call that reads the record first, or works, is alone.
LEMMA Alone ==
  ASSUME IInv, NEW c \in Calls, Enter(c) \/ Working(c)
  PROVE  /\ \A d \in Calls \ {c} : ~ Working(d)
         /\ job[c] # None /\ JobInv(c) /\ (Working(c) => WorkInv(c))
<1>1. CASE Enter(c)
  BY <1>1 DEF Enter, HasLock, Working, IInv, JobInv
<1>2. CASE Working(c)
  BY <1>2 DEF IInv, LockInv, Working, JobInv
<1> QED
  BY <1>1, <1>2

\* The record stays as it is; the call ends, or has an answer.
LEMMA EndsWith ==
  ASSUME IInv, NEW c \in Calls, NEW x, job' = [job EXCEPT ![c] = x],
         \/ x = None
         \/ /\ x.at = "answered" /\ Given(x.answer)' /\ x.answer.kind # "launch"
            /\ \A d \in Calls \ {c} : ~ Working(d)
         \/ /\ x.at = "answered" /\ Given(x.answer)' /\ x.answer.kind # "launch"
            /\ UNCHANGED record,
         \/ UNCHANGED record
         \/ /\ \A d \in Calls \ {c} : ~ Working(d)
            /\ RecordGrows /\ TypeOK' /\ RecordInv',
         LeftInv', UNCHANGED <<planner, effects, known, outcomes>>
  PROVE  IInv'
<1>1. job'[c] = x
  BY DEF IInv
<1>2. x # None => JobInv(c)' /\ ~ Launching(c)' /\ ~ Working(c)'
  BY <1>1 DEF JobInv, Launching, Working, At
<1>3. RecordGrows /\ TypeOK' /\ RecordInv'
  BY DEF IInv, RecordGrows, TypeOK, RecordInv, Final
<1> QED
  BY <1>2, <1>3, StepKeeps

\* Answers that are no plan.
LEMMA Replies ==
  ASSUME IInv, NEW c \in Calls, NEW k, NEW a, Reply(c, k, a), k \notin {"plan", "read", "wait", "launch"},
         UNCHANGED record,
         LeftInv', UNCHANGED <<planner, effects, known, outcomes>>
  PROVE  IInv'
<1> DEFINE x == [at |-> "answered", answer |-> Answer(k, a)]
<1>1. x.at = "answered" /\ x.answer = Answer(k, a)
  OBVIOUS
<1>2. job' = [job EXCEPT ![c] = x]
  BY DEF Reply
<1> HIDE DEF x
<1>3. Given(x.answer)' /\ x.answer.kind # "launch"
  BY <1>1, AnswerFacts DEF Given
<1> QED
  BY <1>1, <1>2, <1>3, EndsWith

LEMMA Throws ==
  ASSUME IInv, NEW c \in Calls, Throw(c), UNCHANGED record,
         LeftInv', UNCHANGED <<planner, effects, known, outcomes>>
  PROVE  IInv'
BY EndsWith DEF Throw

-----------------------------------------------------------------------------
(* The steps of a call *)

LEMMA PrepareKeeps ==
  ASSUME IInv, NEW c \in Calls, Prepare(c)
  PROVE  IInv'
<1> DEFINE r == [intent |-> job[c].intent, phase |-> "launch-pending",
                 planner |-> None, result |-> None, interrupted |-> 0]
<1>1. CASE job[c].receipt # None
  <2>1. Throw(c) /\ UNCHANGED <<record, planner, effects, known, outcomes, left>>
    BY <1>1 DEF Prepare, host, queen
  <2> QED
    BY <2>1, Throws DEF IInv, LeftInv
<1>2. CASE job[c].receipt = None
  <2>1. /\ record = None /\ record' = r
        /\ job' = [job EXCEPT ![c] = [at |-> "answered", answer |-> Answer("launch", None)]]
        /\ UNCHANGED <<planner, effects, known, outcomes, left>>
    BY <1>2 DEF Prepare, Reply, host, queen
  <2>2. /\ job'[c] = [at |-> "answered", answer |-> Answer("launch", None)]
        /\ \A d \in Calls \ {c} : job'[d] = job[d]
        /\ job' = [d \in Calls |-> job'[d]]
    BY <2>1 DEF IInv
  <2>3. \A d \in Calls \ {c} : ~ Working(d)
    BY Alone DEF Prepare
  <2>4. \A d \in Calls : ~ Launching(d)
    BY <2>1 DEF IInv, LaunchInv
  <2>5. job[c].intent \in Intents
    BY DEF Prepare, IInv, JobInv, Enter
  <2>6. r \in Records
    BY <2>5, PlanningAssumption DEF Records, Phases
  <2>7. record' # None /\ record'.result = None /\ record'.phase = "launch-pending"
    BY <2>1, <2>6, NoneFacts
  <2>8. TypeOK' /\ RecordInv' /\ HostInv' /\ LeftInv'
    BY <2>1, <2>6, <2>7 DEF IInv, TypeOK, RecordInv, HostInv, LeftInv, Final
  <2>9. LockInv'
    BY <2>2, <2>3 DEF LockInv, Working
  <2>10. LaunchInv'
    BY <2>1, <2>2, <2>4, <2>7 DEF IInv, LaunchInv, Launching, At, Unlaunched
  <2>11. RecordGrows
    BY <2>1 DEF RecordGrows
  <2>12. Given(Answer("launch", None))'
    BY AnswerFacts DEF Given
  <2>13. \A d \in Calls : job'[d] # None => JobInv(d)'
    BY <2>1, <2>2, <2>3, <2>11, <2>12, GivenStays DEF IInv, JobInv, Working, Launched
  <2>14. \A a \in effects' \cup outcomes' : Given(a)'
    BY <2>1, <2>11, GivenStays DEF IInv
  <2> QED
    BY <2>1, <2>2, <2>8, <2>9, <2>10, <2>13, <2>14 DEF IInv, Launched
<1> QED
  BY <1>1, <1>2

LEMMA RefusesKeep ==
  ASSUME IInv, NEW c \in Calls, RefuseIntent(c) \/ ResumeLaunch(c)
  PROVE  IInv'
<1>1. record # None /\ UNCHANGED <<record, planner, effects, known, outcomes, left>>
  BY DEF RefuseIntent, ResumeLaunch, Resumes, host, queen
<1>2. LeftInv'
  BY <1>1 DEF IInv, LeftInv
<1>3. Throw(c) \/ Reply(c, "reconcile", None)
  BY DEF RefuseIntent, ResumeLaunch
<1> QED
  BY <1>1, <1>2, <1>3, Throws, Replies

\* The record is examined: there is no result yet.
LEMMA Examines ==
  ASSUME IInv, NEW c \in Calls, Enter(c), Examine(c), job[c].receipt # None,
         record # None, record' # None, RecordGrows, TypeOK', RecordInv',
         record'.result = None, record'.planner = job[c].receipt.planner,
         job[c].receipt.type = "result" => record'.phase = "verified",
         UNCHANGED <<planner, effects, known, outcomes, left>>
  PROVE  IInv'
<1> DEFINE x == [at |-> "turn", receipt |-> job[c].receipt]
<1>1. job' = [job EXCEPT ![c] = x] /\ job'[c] = x
  BY DEF Examine, IInv
<1>2. x.at = "turn" /\ x.receipt = job[c].receipt
  OBVIOUS
<1> HIDE DEF x
<1>3. /\ job[c].receipt \in Receipts /\ Launched(job[c].receipt)
      /\ \A d \in Calls \ {c} : ~ Working(d)
  BY Alone DEF JobInv, Enter
<1>4. JobInv(c)' /\ ~ Launching(c)'
  BY <1>1, <1>2, <1>3 DEF JobInv, WorkInv, Launching, At, Launched
<1>5. LeftInv'
  BY DEF IInv, LeftInv
<1> QED
  BY <1>1, <1>3, <1>4, <1>5, StepKeeps

LEMMA ResumeCreatedKeeps ==
  ASSUME IInv, NEW c \in Calls, ResumeCreated(c)
  PROVE  IInv'
<1> DEFINE n == job[c].receipt.planner
<1>1. /\ Enter(c) /\ record # None /\ job[c].receipt # None
      /\ job[c].receipt.type = "created"
      /\ UNCHANGED <<planner, effects, known, outcomes>>
  BY DEF ResumeCreated, Resumes, host, queen
<1>2. /\ job[c].receipt \in Receipts /\ n \in Planners /\ planner[n] # None
      /\ \A d \in Calls \ {c} : ~ Working(d)
  BY <1>1, Alone, ReceiptFacts DEF JobInv, Enter, Launched
<1>3. TypeOK /\ RecordInv /\ LeftInv
  BY DEF IInv
<1>4. CASE /\ record.planner = None
           /\ record' = [record EXCEPT !.phase = "launched", !.planner = n]
           /\ Examine(c) /\ UNCHANGED left
  <2>1. record.result = None /\ record \in Records
    BY <1>1, <1>3, <1>4 DEF RecordInv, TypeOK
  <2>2. record' \in Records
    BY <1>2, <1>4, <2>1 DEF Records, Phases
  <2>3. /\ record'.phase = "launched" /\ record'.planner = n /\ record'.result = None
        /\ record'.intent = record.intent
    BY <1>4, <2>1 DEF Records
  <2>4. record' # None
    BY <2>2, NoneFacts
  <2>5. TypeOK' /\ RecordInv' /\ RecordGrows
    BY <1>1, <1>2, <1>4, <2>1, <2>2, <2>3, <2>4 DEF TypeOK, RecordInv, RecordGrows, Final
  <2> QED
    BY <1>1, <1>4, <2>3, <2>4, <2>5, Examines
<1>5. CASE record.planner = None /\ Spend("fault") /\ Throw(c) /\ UNCHANGED record
  BY <1>1, <1>3, <1>5, SpendKeeps, Throws
<1>6. CASE record.planner = n /\ ~ Final /\ Examine(c) /\ UNCHANGED <<record, left>>
  <2>1. record.result = None
    BY <1>1, <1>3, <1>6 DEF TypeOK
  <2>2. TypeOK' /\ RecordInv' /\ RecordGrows
    BY <1>1, <1>3, <1>6 DEF TypeOK, RecordInv, RecordGrows, Final
  <2> QED
    BY <1>1, <1>6, <2>1, <2>2, Examines
<1>7. CASE Throw(c) /\ UNCHANGED <<record, left>>
  <2>1. LeftInv'
    BY <1>3, <1>7 DEF LeftInv
  <2> QED
    BY <1>1, <1>7, <2>1, Throws
<1> QED
  BY <1>4, <1>5, <1>6, <1>7 DEF ResumeCreated

\* The answer about a result that the record has, or gets.
LEMMA RepliesAbout ==
  ASSUME IInv, NEW c \in Calls, record # None, NEW r, record'.result = r, r # None,
         r.response \in Responses,
         Reply(c, PlanAnswer[record.intent][r.response].kind,
                  PlanAnswer[record.intent][r.response].about),
         \/ UNCHANGED record
         \/ /\ \A d \in Calls \ {c} : ~ Working(d)
            /\ record' # None /\ RecordGrows /\ TypeOK' /\ RecordInv',
         LeftInv', UNCHANGED <<planner, effects, known, outcomes>>
  PROVE  IInv'
<1>1. PICK a : a = PlanAnswer[record.intent][r.response]
  OBVIOUS
<1>2. a.kind \in {"attention", "plan", "refused"} /\ a = Answer(a.kind, a.about)
  <2>1. record.intent \in Intents
    BY RecordFacts DEF IInv
  <2> QED
    BY <1>1, <2>1, PlanAnswerFacts
<1>3. PICK x : x = [at |-> "answered", answer |-> a]
  OBVIOUS
<1>4. x.at = "answered" /\ x.answer = a /\ job' = [job EXCEPT ![c] = x]
  BY <1>1, <1>2, <1>3 DEF Reply
<1>5. record' # None /\ record'.intent = record.intent
  BY DEF RecordGrows
<1>6. Given(a)'
  BY <1>1, <1>2, <1>5 DEF Given
<1> QED
  BY <1>2, <1>4, <1>6, EndsWith

LEMMA ResumeResultKeeps ==
  ASSUME IInv, NEW c \in Calls, ResumeResult(c)
  PROVE  IInv'
<1> DEFINE r == job[c].receipt
           x == PlanAnswer[record.intent][r.response]
<1>1. /\ Enter(c) /\ record # None /\ r # None /\ r.type = "result"
      /\ UNCHANGED <<record, planner, effects, known, outcomes, left>>
  BY DEF ResumeResult, Resumes, host, queen
<1>2. LeftInv' /\ RecordGrows /\ TypeOK' /\ RecordInv'
  BY <1>1 DEF IInv, LeftInv, RecordGrows, TypeOK, RecordInv, Final
<1>3. CASE Throw(c)
  BY <1>1, <1>2, <1>3, Throws
<1>4. CASE /\ record.phase \in {"verified", "completed", "attention"}
           /\ r.planner = record.planner /\ record.result = None /\ Examine(c)
  <2>1. record.phase = "verified"
    BY <1>1, <1>4, RecordFacts DEF IInv
  <2> QED
    BY <1>1, <1>2, <1>4, <2>1, Examines
<1>5. CASE record.result # None /\ Replays(r) /\ Reply(c, x.kind, x.about)
  <2>1. r.response \in Responses
    BY <1>1, ReceiptFacts DEF IInv, JobInv, Enter
  <2>2. record.result.response = r.response
    BY <1>5 DEF Replays
  <2> QED
    BY <1>1, <1>2, <1>5, <2>1, <2>2, RepliesAbout
<1> QED
  BY <1>3, <1>4, <1>5 DEF ResumeResult

LEMMA WorkerFacts ==
  ASSUME IInv, NEW c \in Calls, NEW w, At(c, w), w \notin {"lock", "answered"}
  PROVE  /\ Working(c) /\ WorkInv(c) /\ (\A d \in Calls \ {c} : ~ Working(d))
         /\ job[c].at = w /\ job[c].receipt \in Receipts /\ record # None /\ record.result = None
         /\ record.planner = job[c].receipt.planner /\ record.planner \in Planners
         /\ record \in Records /\ TypeOK /\ RecordInv /\ LeftInv
<1>1. Working(c) /\ job[c].at = w
  BY DEF At, Working
<1>2. /\ WorkInv(c) /\ \A d \in Calls \ {c} : ~ Working(d)
  BY <1>1, Alone
<1> QED
  BY <1>1, <1>2, ReceiptFacts DEF WorkInv, IInv, TypeOK

\* The call works on.
LEMMA WorksOn ==
  ASSUME IInv, NEW c \in Calls, Working(c), NEW x, job' = [job EXCEPT ![c] = x],
         x # None => /\ x.at \in {"agent", "judge", "verify", "status", "finalize"}
                     /\ x.receipt = job[c].receipt
                     /\ {"at", "receipt", "latest"} \subseteq DOMAIN x /\ x.latest.turn \in Nat,
         x # None => IF job[c].receipt.type = "result" THEN x.at \in {"agent", "judge", "finalize"}
                     ELSE x.at \in {"agent", "verify", "status"},
         record' \in Records, RecordGrows, record'.result = None, TypeOK',
         job[c].receipt.type = "result" => record' = record,
         LeftInv', UNCHANGED <<planner, effects, known, outcomes>>
  PROVE  IInv'
<1>1. /\ WorkInv(c) /\ \A d \in Calls \ {c} : ~ Working(d)
  BY Alone
<1>2. job'[c] = x /\ record' # None
  BY NoneFacts DEF IInv
<1>3. record'.planner = record.planner /\ RecordInv'
  BY <1>1, ReceiptFacts, NoneFacts DEF WorkInv, RecordInv, RecordGrows, Launched
<1>4. x # None => JobInv(c)' /\ ~ Launching(c)'
  BY <1>1, <1>2, <1>3 DEF JobInv, WorkInv, Working, Launching, At, Launched
<1> QED
  BY <1>1, <1>2, <1>3, <1>4, StepKeeps

LEMMA LatestFacts ==
  ASSUME HostInv, NEW n \in Planners, planner[n] # None
  PROVE  /\ planner[n] \in Tasks /\ planner[n].turns \in Seq(Turns)
         /\ Len(planner[n].turns) \in Nat
         /\ LatestTurn(n).turn = Len(planner[n].turns)
<1>1. planner[n] \in Tasks
  BY DEF HostInv
<1>2. planner[n].turns \in Seq(Turns)
  BY <1>1 DEF Tasks
<1>3. planner[n].turns = <<>> => Len(planner[n].turns) = 0
  OBVIOUS
<1> QED
  BY <1>1, <1>2, <1>3 DEF LatestTurn

LEMMA ReadTurnKeeps ==
  ASSUME IInv, NEW c \in Calls, ReadTurn(c)
  PROVE  IInv'
<1> DEFINE n == job[c].receipt.planner
           x == [at |-> "agent", receipt |-> job[c].receipt, latest |-> LatestTurn(n)]
<1>1. At(c, "turn") /\ UNCHANGED <<record, planner, effects, known, outcomes>>
  BY DEF ReadTurn, host, queen
<1>2. /\ Working(c) /\ WorkInv(c) /\ record # None /\ record.result = None
      /\ record \in Records /\ TypeOK /\ LeftInv
  BY <1>1, WorkerFacts
<1>3. CASE Reply(c, "attention", None) /\ UNCHANGED left
  <2>1. LeftInv'
    BY <1>2, <1>3 DEF LeftInv
  <2> QED
    BY <1>1, <1>2, <1>3, <2>1, Replies
<1>4. CASE Throw(c) /\ Spend("fault")
  BY <1>1, <1>2, <1>4, SpendKeeps, Throws
<1>5. CASE job' = [job EXCEPT ![c] = x] /\ UNCHANGED left
  <2>1. n \in Planners /\ planner[n] # None
    BY <1>2, ReceiptFacts DEF WorkInv, Launched
  <2>2. LatestTurn(n).turn \in Nat
    BY <2>1, LatestFacts DEF IInv
  <2>3. TypeOK' /\ LeftInv' /\ RecordGrows
    BY <1>1, <1>2, <1>5 DEF TypeOK, LeftInv, RecordGrows, Final
  <2>4. PICK y : y = x
    OBVIOUS
  <2>5. /\ y.at = "agent" /\ y.receipt = job[c].receipt /\ y.latest.turn \in Nat
        /\ DOMAIN y = {"at", "receipt", "latest"} /\ job' = [job EXCEPT ![c] = y]
    BY <1>5, <2>2, <2>4
  <2> QED
    BY <1>1, <1>2, <2>3, <2>5, WorksOn
<1> QED
  BY <1>3, <1>4, <1>5 DEF ReadTurn

LEMMA ReadAgentKeeps ==
  ASSUME IInv, NEW c \in Calls, ReadAgent(c)
  PROVE  IInv'
<1>1. At(c, "agent") /\ UNCHANGED <<record, planner, effects, known, outcomes, left>>
  BY DEF ReadAgent, host, queen
<1>2. /\ Working(c) /\ WorkInv(c) /\ record # None /\ record.result = None /\ job[c].at = "agent"
      /\ record \in Records /\ TypeOK /\ LeftInv
  BY <1>1, WorkerFacts
<1>3. PICK x : x = [at |-> IF job[c].receipt.type = "result" THEN "judge" ELSE "verify",
                    receipt |-> job[c].receipt, latest |-> job[c].latest,
                    seen |-> planner[job[c].receipt.planner].seen]
  OBVIOUS
<1>4. /\ x.at = (IF job[c].receipt.type = "result" THEN "judge" ELSE "verify")
      /\ x.receipt = job[c].receipt /\ x.latest = job[c].latest
      /\ DOMAIN x = {"at", "receipt", "latest", "seen"}
  BY <1>3
<1>5. job' = [job EXCEPT ![c] = x]
  BY <1>3 DEF ReadAgent
<1>6. job[c].latest.turn \in Nat
  BY <1>2 DEF WorkInv
<1>7. TypeOK' /\ LeftInv' /\ RecordGrows
  BY <1>1, <1>2 DEF TypeOK, LeftInv, RecordGrows, Final
<1> QED
  BY <1>1, <1>2, <1>4, <1>5, <1>6, <1>7, WorksOn

\* Goto keeps what the call holds.
LEMMA GoesTo ==
  ASSUME IInv, NEW c \in Calls, Working(c), NEW w, Goto(c, w), job[c].at # "turn",
         IF job[c].receipt.type = "result" THEN w \in {"agent", "judge", "finalize"}
         ELSE w \in {"agent", "verify", "status"},
         record' \in Records, RecordGrows, record'.result = None, TypeOK',
         job[c].receipt.type = "result" => record' = record,
         LeftInv', UNCHANGED <<planner, effects, known, outcomes>>
  PROVE  IInv'
<1>1. WorkInv(c)
  BY Alone
<1>2. PICK x : x = [job[c] EXCEPT !.at = w]
  OBVIOUS
<1>3. job' = [job EXCEPT ![c] = x]
  BY <1>2 DEF Goto
<1>4. {"at", "receipt", "latest"} \subseteq DOMAIN job[c] /\ job[c].latest.turn \in Nat
  BY <1>1 DEF WorkInv
<1>5. /\ x.at = w /\ x.receipt = job[c].receipt /\ x.latest = job[c].latest
      /\ {"at", "receipt", "latest"} \subseteq DOMAIN x
  BY <1>2, <1>4
<1> QED
  BY <1>3, <1>4, <1>5, WorksOn

LEMMA VerifyKeeps ==
  ASSUME IInv, NEW c \in Calls, Verify(c)
  PROVE  IInv'
<1>1. /\ At(c, "verify") /\ Goto(c, "status") /\ record' = [record EXCEPT !.phase = "verified"]
      /\ UNCHANGED <<planner, effects, known, outcomes, left>>
  BY DEF Verify, host, queen
<1>2. /\ Working(c) /\ WorkInv(c) /\ record # None /\ record.result = None /\ job[c].at = "verify"
      /\ record \in Records /\ TypeOK /\ LeftInv
  BY <1>1, WorkerFacts
<1>3. /\ record' \in Records /\ record'.phase = "verified" /\ record'.result = record.result
      /\ record'.intent = record.intent /\ record'.planner = record.planner
  BY <1>1, <1>2 DEF Records, Phases
<1>4. TypeOK' /\ LeftInv' /\ RecordGrows
  BY <1>1, <1>2, <1>3, NoneFacts DEF TypeOK, LeftInv, RecordGrows, Final
<1>5. job[c].receipt.type # "result"
  BY <1>2 DEF WorkInv
<1> QED
  BY <1>1, <1>2, <1>3, <1>4, <1>5, GoesTo

LEMMA CountFacts ==
  ASSUME TypeOK, RecordInv, record # None, record' = CountInterrupted,
         record.interrupted < MaxInterrupted, planner' = planner
  PROVE  /\ record' \in Records /\ record'.result = record.result
         /\ record'.phase = record.phase /\ record'.planner = record.planner
         /\ record' # None /\ RecordGrows /\ TypeOK' /\ RecordInv'
<1>1. record \in Records /\ MaxInterrupted \in Nat
  BY PlanningAssumption DEF TypeOK
<1>2. record.interrupted + 1 \in 0 .. MaxInterrupted
  BY <1>1 DEF Records
<1>3. /\ record' \in Records /\ record'.result = record.result
      /\ record'.phase = record.phase /\ record'.planner = record.planner
      /\ record'.intent = record.intent
  BY <1>1, <1>2 DEF Records, CountInterrupted
<1>4. record' # None
  BY <1>3, NoneFacts
<1> QED
  BY <1>3, <1>4 DEF TypeOK, RecordInv, RecordGrows, Final

\* A call that works answers something that is no plan.
LEMMA AnswersStatus ==
  ASSUME IInv, NEW c \in Calls, Working(c), NEW k, NEW a, Reply(c, k, a),
         k \notin {"plan", "launch"}, k = "read" => a \in Nat,
         UNCHANGED record \/ (record' = CountInterrupted /\ record.interrupted < MaxInterrupted),
         UNCHANGED <<planner, effects, known, outcomes, left>>
  PROVE  IInv'
<1>1. /\ WorkInv(c) /\ \A d \in Calls \ {c} : ~ Working(d)
  BY Alone
<1>2. record # None /\ record.planner # None /\ TypeOK /\ RecordInv /\ LeftInv'
  BY <1>1, ReceiptFacts, NoneFacts DEF WorkInv, IInv, LeftInv
<1>3. \/ UNCHANGED record
      \/ record' # None /\ RecordGrows /\ TypeOK' /\ RecordInv'
  BY <1>2, CountFacts
<1>4. record' # None /\ record'.planner # None
  BY <1>2, <1>3 DEF RecordGrows
<1>5. PICK x : x = [at |-> "answered", answer |-> Answer(k, a)]
  OBVIOUS
<1>6. x.at = "answered" /\ x.answer = Answer(k, a) /\ job' = [job EXCEPT ![c] = x]
  BY <1>5 DEF Reply
<1>7. Given(x.answer)' /\ x.answer.kind # "launch"
  BY <1>4, <1>6, AnswerFacts DEF Given
<1> QED
  BY <1>1, <1>2, <1>3, <1>6, <1>7, EndsWith

LEMMA StatusActionFacts ==
  ASSUME IInv, NEW c \in Calls, Working(c), job[c].at # "turn"
  PROVE  /\ StatusAction(c).kind \in {"attention", "wait", "read"}
         /\ StatusAction(c).kind = "read" =>
              ~ Failed(c) /\ ~ Unfinished(c) /\ StatusAction(c).about = job[c].latest.turn
         /\ job[c].latest.turn \in Nat
<1>1. WorkInv(c)
  BY Alone
<1>2. job[c].latest.turn \in Nat
  BY <1>1 DEF WorkInv
<1> HIDE DEF Answer
<1>3. CASE Failed(c)
  BY <1>2, <1>3, AnswerFacts DEF StatusAction
<1>4. CASE ~ Failed(c) /\ Unfinished(c)
  BY <1>2, <1>4, AnswerFacts DEF StatusAction
<1>5. CASE ~ Failed(c) /\ ~ Unfinished(c) /\ ~ Succeeded(c)
  BY <1>2, <1>5, AnswerFacts DEF StatusAction
<1>6. CASE ~ Failed(c) /\ ~ Unfinished(c) /\ Succeeded(c)
  BY <1>2, <1>6, AnswerFacts DEF StatusAction
<1> QED
  BY <1>3, <1>4, <1>5, <1>6

LEMMA ReplyStatusKeeps ==
  ASSUME IInv, NEW c \in Calls, Working(c), job[c].at # "turn", ReplyStatus(c),
         UNCHANGED <<record, planner, effects, known, outcomes, left>>
  PROVE  IInv'
<1>1. PICK k, a : k = StatusAction(c).kind /\ a = StatusAction(c).about
  OBVIOUS
<1>2. Reply(c, k, a)
  BY <1>1 DEF ReplyStatus
<1>3. k \notin {"plan", "launch"} /\ (k = "read" => a \in Nat)
  BY <1>1, StatusActionFacts
<1> QED
  BY <1>2, <1>3, AnswersStatus

LEMMA StatusKeeps ==
  ASSUME IInv, NEW c \in Calls, Status(c)
  PROVE  IInv'
<1>1. At(c, "status") /\ UNCHANGED <<planner, effects, known, outcomes, left>>
  BY DEF Status, host, queen
<1>2. Working(c) /\ job[c].at = "status"
  BY <1>1, WorkerFacts
<1>3. CASE MayReconcile(c) /\ record' = CountInterrupted /\ Reply(c, "wait", None)
  BY <1>1, <1>2, <1>3, AnswersStatus DEF MayReconcile
<1>4. CASE ReplyStatus(c) /\ UNCHANGED record
  BY <1>1, <1>2, <1>4, ReplyStatusKeeps
<1> QED
  BY <1>3, <1>4 DEF Status

LEMMA JudgeKeeps ==
  ASSUME IInv, NEW c \in Calls, Judge(c)
  PROVE  IInv'
<1>1. At(c, "judge") /\ UNCHANGED <<planner, effects, known, outcomes, left>>
  BY DEF Judge, host, queen
<1>2. /\ Working(c) /\ WorkInv(c) /\ job[c].at = "judge" /\ record # None /\ record \in Records
      /\ TypeOK /\ LeftInv /\ record.result = None
  BY <1>1, WorkerFacts
<1>3. LeftInv'
  BY <1>1, <1>2 DEF LeftInv
<1>4. CASE ReplyStatus(c) /\ UNCHANGED record
  BY <1>1, <1>2, <1>4, ReplyStatusKeeps
<1>5. CASE Throw(c) /\ UNCHANGED record
  BY <1>1, <1>2, <1>3, <1>5, Throws
<1>6. CASE MayReconcile(c) /\ record' = CountInterrupted /\ Reply(c, "wait", None)
  BY <1>1, <1>2, <1>6, AnswersStatus DEF MayReconcile
<1>7. CASE Reply(c, "attention", None) /\ UNCHANGED record
  BY <1>1, <1>2, <1>7, AnswersStatus
<1>8. CASE Goto(c, "finalize") /\ UNCHANGED record
  <2>1. TypeOK' /\ RecordGrows
    BY <1>2, <1>8 DEF TypeOK, RecordGrows, Final
  <2>2. job[c].receipt.type = "result"
    BY <1>2 DEF WorkInv
  <2> QED
    BY <1>1, <1>2, <1>3, <1>8, <2>1, <2>2, GoesTo
<1> QED
  BY <1>4, <1>5, <1>6, <1>7, <1>8 DEF Judge

LEMMA FinalizeKeeps ==
  ASSUME IInv, NEW c \in Calls, Finalize(c)
  PROVE  IInv'
<1> DEFINE r == job[c].receipt
           x == PlanAnswer[record.intent][r.response]
<1>1. At(c, "finalize") /\ UNCHANGED <<planner, effects, known, outcomes>>
  BY DEF Finalize, host, queen
<1>2. /\ Working(c) /\ WorkInv(c) /\ job[c].at = "finalize" /\ record # None /\ record \in Records
      /\ TypeOK /\ LeftInv /\ RecordInv /\ record.result = None /\ r \in Receipts
      /\ \A d \in Calls \ {c} : ~ Working(d)
  BY <1>1, WorkerFacts
<1>3. CASE Reply(c, "refused", None) /\ UNCHANGED <<record, left>>
  BY <1>1, <1>2, <1>3, AnswersStatus
<1>4. CASE Throw(c) /\ Spend("fault") /\ UNCHANGED record
  BY <1>1, <1>2, <1>4, SpendKeeps, Throws
<1>5. CASE /\ record' = [record EXCEPT
                !.phase = IF r.response.kind = "low" THEN "attention" ELSE "completed",
                !.result = r]
           /\ Reply(c, x.kind, x.about) /\ UNCHANGED left
  <2>1. r # None /\ r.type = "result" /\ record.planner = r.planner /\ r.response \in Responses
    BY <1>2, ReceiptFacts DEF WorkInv
  <2>2. /\ record' \in Records /\ record'.result = r /\ record'.intent = record.intent
        /\ record'.planner = record.planner /\ record'.phase \in {"attention", "completed"}
    BY <1>2, <1>5 DEF Records, Phases
  <2>3. record' # None /\ record.planner # None
    BY <1>2, <2>1, <2>2, NoneFacts, ReceiptFacts
  <2>4. RecordGrows /\ TypeOK' /\ RecordInv' /\ LeftInv'
    BY <1>1, <1>2, <1>5, <2>1, <2>2, <2>3 DEF RecordGrows, TypeOK, RecordInv, LeftInv, Final
  <2> QED
    BY <1>1, <1>2, <1>5, <2>1, <2>2, <2>3, <2>4, RepliesAbout
<1> QED
  BY <1>3, <1>4, <1>5 DEF Finalize

LEMMA EndsKeep ==
  ASSUME IInv, NEW c \in Calls, Lose(c) \/ Crash(c)
  PROVE  IInv'
<1>1. UNCHANGED <<record, planner, effects, known, outcomes>> /\ Throw(c)
  BY DEF Lose, Crash, host, queen
<1>2. LeftInv'
  BY SpendKeeps DEF IInv, Lose, Crash
<1> QED
  BY <1>1, <1>2, Throws

-----------------------------------------------------------------------------
(* The answers, the queen and the host *)

\* No planner is taken back.
PlannersStay == \A n \in Planners : planner[n] # None => planner'[n] # None

\* A step that leaves the record alone.
LEMMA AroundTheRecord ==
  ASSUME IInv, UNCHANGED record, PlannersStay, HostInv', LeftInv', LaunchInv', LockInv',
         job' = [c \in Calls |-> job'[c]],
         \A c \in Calls : job'[c] # None => job'[c] = job[c] \/ JobInv(c)',
         \A a \in effects' \cup outcomes' : a \in effects \cup outcomes \/ Given(a),
         \A r \in known' : r \in known \/ (r \in Receipts /\ Launched(r)')
  PROVE  IInv'
<1>1. \A r \in Receipts : Launched(r) => Launched(r)'
  BY ReceiptFacts DEF Launched, PlannersStay
<1>2. TypeOK' /\ RecordInv'
  <2>1. record # None => record.planner \in Planners \cup {None}
    BY RecordFacts DEF IInv
  <2> QED
    BY <2>1, NoneFacts DEF IInv, TypeOK, RecordInv, Final, PlannersStay
<1>3. \A a : Given(a)' = Given(a)
  BY DEF Given
<1>4. ASSUME NEW c \in Calls, job'[c] # None, job'[c] = job[c] PROVE JobInv(c)'
  <2>1. JobInv(c) /\ Working(c)' = Working(c)
    BY <1>4 DEF IInv, Working
  <2>2. Working(c) => WorkInv(c)'
    BY <1>1, <1>4, <2>1 DEF JobInv, WorkInv, Launched
  <2>3. job[c].at = "lock" /\ job[c].receipt # None => Launched(job[c].receipt)'
    BY <1>1, <1>4, <2>1 DEF JobInv, Launched
  <2> QED
    BY <1>3, <1>4, <2>1, <2>2, <2>3 DEF JobInv
<1>5. \A r \in known' : r \in Receipts /\ Launched(r)'
  BY <1>1 DEF IInv
<1>6. \A a \in effects' \cup outcomes' : Given(a)'
  BY <1>3 DEF IInv
<1>7. \A c \in Calls : job'[c] # None => JobInv(c)'
  BY <1>4
<1> QED
  BY <1>2, <1>5, <1>6, <1>7 DEF IInv

LEMMA DeliverKeeps ==
  ASSUME IInv, NEW c \in Calls, Deliver(c)
  PROVE  IInv'
<1> DEFINE x == job[c].answer
<1>1. /\ At(c, "answered") /\ Throw(c) /\ UNCHANGED <<record, planner, known, left>>
      /\ effects' \subseteq effects \cup {x} /\ outcomes' \subseteq outcomes \cup {x}
  BY DEF Deliver, host
<1>2. job'[c] = None /\ (\A d \in Calls \ {c} : job'[d] = job[d])
      /\ job' = [d \in Calls |-> job'[d]]
  BY <1>1 DEF Throw, IInv
<1>3. Given(x)
  BY <1>1 DEF At, IInv, JobInv
<1>4. HostInv' /\ LeftInv' /\ PlannersStay
  BY <1>1 DEF IInv, HostInv, LeftInv, PlannersStay
<1>5. LockInv'
  BY <1>2 DEF IInv, LockInv, Working
<1>6. \A d \in Calls : Launching(d)' => d # c /\ Launching(d)
  BY <1>2 DEF Launching, At
<1>7. Answer("launch", None) \in effects' =>
        Answer("launch", None) \in effects \/ Launching(c)
  BY <1>1, AnswerFacts DEF Launching
<1>8. LaunchInv'
  BY <1>1, <1>6, <1>7 DEF IInv, LaunchInv, Unlaunched
<1> QED
  BY <1>1, <1>2, <1>3, <1>4, <1>5, <1>8, AroundTheRecord

LEMMA SubmitKeeps ==
  ASSUME IInv, NEW c \in Calls, NEW i \in Intents, NEW r \in known \cup {None}, Submit(c, i, r)
  PROVE  IInv'
<1>1. PICK x : x = [at |-> "lock", intent |-> i, receipt |-> r]
  OBVIOUS
<1>2. x.at = "lock" /\ x.intent = i /\ x.receipt = r
  BY <1>1
<1>3. /\ job' = [job EXCEPT ![c] = x] /\ UNCHANGED <<record, planner, effects, known, outcomes>>
      /\ LeftInv'
  BY <1>1, SpendKeeps DEF Submit, host, queen, IInv
<1>4. /\ job'[c] = x /\ (\A d \in Calls \ {c} : job'[d] = job[d])
      /\ job' = [d \in Calls |-> job'[d]]
  BY <1>3 DEF IInv
<1>5. r # None => r \in Receipts /\ Launched(r)
  BY DEF IInv
<1>6. JobInv(c)'
  BY <1>2, <1>3, <1>4, <1>5 DEF JobInv, Working, Launched
<1>7. HostInv' /\ PlannersStay
  BY <1>3 DEF IInv, HostInv, PlannersStay
<1>8. \A d \in Calls : (Working(d)' => d # c /\ Working(d)) /\ (Launching(d)' => d # c /\ Launching(d))
  BY <1>2, <1>4 DEF Working, Launching, At
<1>9. LockInv' /\ LaunchInv'
  BY <1>3, <1>8 DEF IInv, LockInv, LaunchInv, Unlaunched
<1> QED
  BY <1>3, <1>4, <1>6, <1>7, <1>9, AroundTheRecord

\* Nothing that a call holds is changed; no task is launched.
LEMMA QueenMoves ==
  ASSUME IInv, UNCHANGED <<record, job>>, PlannersStay, HostInv', LeftInv',
         \A n \in Planners : planner[n] = None => planner'[n] = None,
         effects' \subseteq effects,
         \A a \in outcomes' : a \in outcomes \/ Given(a),
         \A r \in known' : r \in known \/ (r \in Receipts /\ Launched(r)')
  PROVE  IInv'
<1>1. \A d \in Calls : Working(d)' = Working(d) /\ Launching(d)' = Launching(d)
  BY DEF Working, Launching, At
<1>2. LockInv' /\ LaunchInv'
  BY <1>1 DEF IInv, LockInv, LaunchInv, Unlaunched, PlannersStay
<1>3. job' = [d \in Calls |-> job'[d]]
  BY DEF IInv
<1> QED
  BY <1>2, <1>3, AroundTheRecord

LEMMA PerformLaunchKeeps ==
  ASSUME IInv, PerformLaunch
  PROVE  IInv'
<1>1. PICK n \in Planners, routed \in BOOLEAN, seen \in {"running", "unavailable"}, lost \in BOOLEAN :
        /\ LET faults == (IF routed THEN 0 ELSE 1) + (IF seen = "running" THEN 0 ELSE 1)
           IN  /\ faults <= left["fault"] /\ (lost => left["loss"] > 0)
               /\ left' = [left EXCEPT !["fault"] = @ - faults,
                                       !["loss"] = IF lost THEN @ - 1 ELSE @]
        /\ planner' = [planner EXCEPT ![n] = [turns |-> <<>>, seen |-> seen, routed |-> routed]]
        /\ known' \subseteq known \cup {Created(n)}
  BY DEF PerformLaunch
<1>2. /\ Answer("launch", None) \in effects /\ effects' = effects \ {Answer("launch", None)}
      /\ UNCHANGED <<record, job, outcomes>>
  BY DEF PerformLaunch
<1>3. LeftInv'
  <2>1. left["fault"] \in Nat /\ left["loss"] \in Nat
    BY DEF IInv, LeftInv
  <2>2. PICK f, l : /\ f = left["fault"] - ((IF routed THEN 0 ELSE 1) + (IF seen = "running" THEN 0 ELSE 1))
                    /\ l = (IF lost THEN left["loss"] - 1 ELSE left["loss"])
    OBVIOUS
  <2>3. f \in Nat /\ l \in Nat
    BY <1>1, <2>1, <2>2
  <2>4. left' = [left EXCEPT !["fault"] = f, !["loss"] = l]
    BY <1>1, <2>2
  <2> QED
    BY <2>3, <2>4 DEF IInv, LeftInv
<1>4. Unlaunched /\ \A c \in Calls : ~ Launching(c)
  BY <1>2 DEF IInv, LaunchInv
<1>5. <<>> \in Seq(Turns)
  OBVIOUS
<1>6. PICK t : t = [turns |-> <<>>, seen |-> seen, routed |-> routed]
  OBVIOUS
<1>7. t \in Tasks /\ t # None /\ t.turns = <<>>
  <2>1. t.turns = <<>> /\ t.seen = seen /\ t.routed = routed
    BY <1>6
  <2>2. t \in Tasks
    BY <1>5, <1>6 DEF Tasks
  <2> QED
    BY <2>1, <2>2, NoneFacts
<1>8. /\ planner'[n] = t /\ (\A m \in Planners \ {n} : planner'[m] = planner[m])
      /\ planner' \in [Planners -> Tasks \cup {None}]
  BY <1>1, <1>6, <1>7 DEF IInv, HostInv
<1>9. HostInv'
  <2>1. \A i \in DOMAIN <<>> : FALSE
    OBVIOUS
  <2> QED
    BY <1>7, <1>8, <2>1 DEF IInv, HostInv
<1>10. PlannersStay
  BY <1>4 DEF PlannersStay, Unlaunched
<1>11. \A d \in Calls : Working(d)' = Working(d) /\ Launching(d)' = Launching(d)
  BY <1>2 DEF Working, Launching, At
<1>12. LockInv'
  BY <1>11 DEF IInv, LockInv
<1>13. LaunchInv'
  BY <1>2, <1>4, <1>8, <1>11 DEF IInv, LaunchInv, Unlaunched
<1>14. Created(n) \in Receipts /\ Launched(Created(n))'
  BY <1>7, <1>8, MadeReceipts DEF Launched
<1>15. job' = [d \in Calls |-> job'[d]]
  BY <1>2 DEF IInv
<1> QED
  BY <1>1, <1>2, <1>3, <1>9, <1>10, <1>12, <1>13, <1>14, <1>15, AroundTheRecord

LEMMA PerformReconcileKeeps ==
  ASSUME IInv, PerformReconcile
  PROVE  IInv'
<1>1. /\ UNCHANGED <<record, job, planner, left>> /\ effects' \subseteq effects
      /\ outcomes' \subseteq outcomes \cup {Answer("attention", None)}
  BY DEF PerformReconcile, host
<1>2. \A r \in known' : r \in known \/ \E n \in Planners : planner[n] # None /\ r = Created(n)
  BY DEF PerformReconcile
<1>3. HostInv' /\ LeftInv' /\ PlannersStay
  BY <1>1 DEF IInv, HostInv, LeftInv, PlannersStay
<1>4. Given(Answer("attention", None))
  BY AnswerFacts DEF Given
<1>5. \A r \in known' : r \in known \/ (r \in Receipts /\ Launched(r)')
  BY <1>1, <1>2, MadeReceipts DEF Launched
<1> QED
  BY <1>1, <1>3, <1>4, <1>5, QueenMoves

-----------------------------------------------------------------------------
(* The turns of the planner *)

LEMMA Greatest ==
  ASSUME NEW S, NEW k \in Nat, S \subseteq 0 .. k, S # {}
  PROVE  \E x \in S : \A y \in S : y <= x
<1> DEFINE T == {k - x : x \in S}
<1>1. T \subseteq Nat /\ T # {}
  <2>1. \A x \in S : k - x \in Nat
    OBVIOUS
  <2> QED
    BY <2>1
<1>2. PICK t \in T : \A u \in T : ~ (<<u, t>> \in OpToRel(<, Nat))
  BY <1>1, NatLessThanWellFounded, WFMin
<1>3. PICK x \in S : t = k - x
  OBVIOUS
<1>4. ASSUME NEW y \in S PROVE y <= x
  <2>1. k - y \in T /\ k - y \in Nat /\ t \in Nat
    BY <1>1
  <2>2. ~ (<<k - y, t>> \in OpToRel(<, Nat))
    BY <1>2, <2>1
  <2>3. ~ (k - y < t)
    BY <2>1, <2>2 DEF OpToRel
  <2> QED
    BY <1>3, <2>1, <2>3
<1> QED
  BY <1>4

LEMMA NewestFacts ==
  ASSUME HostInv, NEW n \in Planners, planner[n] # None, NEW S \in SUBSET DOMAIN planner[n].turns,
         S # {}
  PROVE  Newest(S) \in S /\ \A u \in S : u <= Newest(S)
<1>1. DOMAIN planner[n].turns = 1 .. Len(planner[n].turns) /\ Len(planner[n].turns) \in Nat
  BY LatestFacts
<1>2. S \subseteq 0 .. Len(planner[n].turns)
  BY <1>1
<1>3. \E t \in S : \A u \in S : u <= t
  BY <1>1, <1>2, Greatest
<1> QED
  BY <1>3 DEF Newest

\* A task changes: it is still there.
LEMMA TaskChanges ==
  ASSUME HostInv, NEW n \in Planners, planner[n] # None, NEW x \in Tasks,
         planner' = [planner EXCEPT ![n] = x],
         \A t \in DOMAIN x.turns :
           /\ x.turns[t].status = "completed" => x.turns[t].said \in Responses
           /\ t < Len(x.turns) => x.turns[t].status # "running"
  PROVE  /\ HostInv' /\ PlannersStay
         /\ \A m \in Planners : planner[m] = None => planner'[m] = None
<1>1. /\ planner'[n] = x /\ (\A m \in Planners \ {n} : planner'[m] = planner[m])
      /\ planner' \in [Planners -> Tasks \cup {None}] /\ x # None
  BY NoneFacts DEF HostInv
<1>2. PlannersStay
  BY <1>1 DEF PlannersStay
<1>3. \A m \in Planners : planner[m] = None => planner'[m] = None
  BY <1>1
<1>4. ASSUME NEW m \in Planners, planner'[m] # None, NEW t \in DOMAIN planner'[m].turns
      PROVE  /\ planner'[m].turns[t].status = "completed" =>
                  planner'[m].turns[t].said \in Responses
             /\ t < Len(planner'[m].turns) => planner'[m].turns[t].status # "running"
  BY <1>1, <1>4 DEF HostInv
<1> QED
  BY <1>1, <1>2, <1>3, <1>4 DEF HostInv

LEMMA SeenChanges ==
  ASSUME HostInv, NEW n \in Planners, planner[n] # None,
         NEW s \in {"running", "completed", "failed", "aborted", "unavailable", "notFound"},
         planner' = [planner EXCEPT ![n].seen = s]
  PROVE  /\ HostInv' /\ PlannersStay
         /\ \A m \in Planners : planner[m] = None => planner'[m] = None
<1>1. PICK x : x = [planner[n] EXCEPT !.seen = s]
  OBVIOUS
<1>2. x \in Tasks /\ x.turns = planner[n].turns
  <2>1. planner[n] \in Tasks
    BY DEF HostInv
  <2> QED
    BY <1>1, <2>1 DEF Tasks
<1>3. planner' = [planner EXCEPT ![n] = x]
  BY <1>1
<1>4. \A t \in DOMAIN planner[n].turns :
           /\ planner[n].turns[t].status = "completed" => planner[n].turns[t].said \in Responses
           /\ t < Len(planner[n].turns) => planner[n].turns[t].status # "running"
  BY DEF HostInv
<1>5. \A t \in DOMAIN x.turns :
           /\ x.turns[t].status = "completed" => x.turns[t].said \in Responses
           /\ t < Len(x.turns) => x.turns[t].status # "running"
  BY <1>2, <1>4
<1>6. x \in Tasks
  BY <1>2
<1> HIDE <1>1, <1>2, <1>4
<1> QED
  BY <1>3, <1>5, <1>6, TaskChanges

LEMMA ForgetKeeps ==
  ASSUME IInv, NEW n \in Planners, Forget(n)
  PROVE  IInv'
<1>1. /\ planner[n] # None /\ UNCHANGED <<record, job, effects, known, outcomes>>
      /\ HostInv /\ LeftInv'
  BY SpendKeeps DEF Forget, queen, IInv
<1>2. /\ HostInv' /\ PlannersStay
      /\ \A m \in Planners : planner[m] = None => planner'[m] = None
  BY <1>1, SeenChanges DEF Forget
<1> QED
  BY <1>1, <1>2, QueenMoves

LEMMA StatusFacts ==
  ASSUME HostInv, NEW n \in Planners, planner[n] # None, planner[n].turns # <<>>
  PROVE  /\ Len(planner[n].turns) \in DOMAIN planner[n].turns
         /\ \A t \in DOMAIN planner[n].turns :
              planner[n].turns[t] \in Turns /\ t \in 1 .. Len(planner[n].turns)
BY LatestFacts

LEMMA PerformWaitKeeps ==
  ASSUME IInv, PerformWait
  PROVE  IInv'
<1> DEFINE n == record.planner
<1>1. /\ effects' \subseteq effects /\ UNCHANGED <<record, job, known, outcomes, left>>
      /\ planner[n].turns # <<>>
      /\ planner' = [planner EXCEPT
           ![n].seen = IF @ \in {"unavailable", "notFound"} THEN @ ELSE AgentStatus(n)]
      /\ HostInv
  BY DEF PerformWait, IInv
<1>2. LeftInv'
  BY <1>1 DEF IInv, LeftInv
<1>3. CASE n \in Planners /\ planner[n] # None
  <2>1. AgentStatus(n) \in {"running", "completed", "failed", "aborted"}
    BY <1>1, <1>3, StatusFacts DEF AgentStatus, Turns
  <2>2. planner[n] \in Tasks
    BY <1>1, <1>3, LatestFacts
  <2>3. PICK s : s = IF planner[n].seen \in {"unavailable", "notFound"} THEN planner[n].seen
                     ELSE AgentStatus(n)
    OBVIOUS
  <2>4. s \in {"running", "completed", "failed", "aborted", "unavailable", "notFound"}
    BY <2>1, <2>3
  <2>5. planner' = [planner EXCEPT ![n].seen = s]
    BY <1>1, <2>3
  <2>6. /\ HostInv' /\ PlannersStay
        /\ \A m \in Planners : planner[m] = None => planner'[m] = None
    BY <1>1, <1>3, <2>4, <2>5, SeenChanges
  <2> QED
    BY <1>1, <1>2, <2>6, QueenMoves
<1>4. n \in Planners /\ planner[n] # None
  <2>1. Answer("wait", None) \in effects /\ Answer("wait", None).kind = "wait"
    BY AnswerFacts DEF PerformWait
  <2>2. record # None /\ n # None
    BY <2>1 DEF IInv, Given
  <2> QED
    BY <2>2, RecordFacts DEF IInv, RecordInv
<1> QED
  BY <1>3, <1>4

LEMMA PerformReadKeeps ==
  ASSUME IInv, NEW e \in effects, e.kind = "read", PerformRead(e.about)
  PROVE  IInv'
<1> DEFINE n == record.planner
<1>1. /\ UNCHANGED <<record, job, planner, effects, outcomes, left>>
      /\ CompletedTurns(n) # {}
      /\ known' = known \cup {Result(n, e.about, planner[n].turns[Newest(CompletedTurns(n))].said)}
  BY DEF PerformRead, host
<1>2. e.about \in Nat /\ record # None /\ n # None
  BY DEF IInv, Given
<1>3. n \in Planners /\ planner[n] # None /\ HostInv /\ LeftInv
  BY <1>2, RecordFacts DEF IInv, RecordInv
<1>4. Newest(CompletedTurns(n)) \in CompletedTurns(n)
  BY <1>1, <1>3, NewestFacts DEF CompletedTurns
<1>5. planner[n].turns[Newest(CompletedTurns(n))].said \in Responses
  BY <1>3, <1>4 DEF CompletedTurns, HostInv
<1>6. \A r \in known' : r \in known \/ (r \in Receipts /\ Launched(r)')
  BY <1>1, <1>2, <1>3, <1>5, MadeReceipts DEF Launched
<1>7. HostInv' /\ LeftInv' /\ PlannersStay
  BY <1>1, <1>3 DEF HostInv, LeftInv, PlannersStay
<1> QED
  BY <1>1, <1>6, <1>7, QueenMoves

LEMMA StartTurnKeeps ==
  ASSUME IInv, NEW n \in Planners, StartTurn(n)
  PROVE  IInv'
<1>1. /\ planner[n] # None /\ ~ Running(n) /\ UNCHANGED <<record, job, effects, known, outcomes>>
      /\ HostInv /\ LeftInv
  BY DEF StartTurn, queen, IInv
<1>2. PICK glitch \in BOOLEAN, seen \in {"running", planner[n].seen} :
        /\ left' = [left EXCEPT !["turn"] = @ - 1, !["glitch"] = IF glitch THEN @ - 1 ELSE @]
        /\ left["turn"] > 0 /\ (glitch => left["glitch"] > 0)
        /\ planner' = [planner EXCEPT
             ![n].seen = seen,
             ![n].turns = Append(@, [status |-> "running", glitch |-> glitch, said |-> None])]
  BY DEF StartTurn
<1>3. LeftInv'
  BY <1>1, <1>2 DEF LeftInv
<1>4. PICK u : u = [status |-> "running", glitch |-> glitch, said |-> None]
  OBVIOUS
<1>5. u \in Turns /\ u.status = "running"
  BY <1>4 DEF Turns
<1>6. PICK q : q = planner[n].turns
  OBVIOUS
<1>7. /\ planner[n] \in Tasks /\ q \in Seq(Turns)
      /\ \A t \in DOMAIN q :
           /\ q[t].status = "completed" => q[t].said \in Responses
           /\ t < Len(q) => q[t].status # "running"
  BY <1>1, <1>6, LatestFacts DEF HostInv
<1>8. q # <<>> => q[Len(q)].status # "running"
  BY <1>1, <1>6 DEF Running
<1>9. PICK v : v = Append(q, u)
  OBVIOUS
<1>10. /\ v \in Seq(Turns) /\ Len(v) = Len(q) + 1 /\ v[Len(v)] = u /\ Len(q) \in Nat
       /\ DOMAIN v = 1 .. Len(v) /\ \A t \in 1 .. Len(q) : v[t] = q[t] /\ t \in DOMAIN q
  BY <1>5, <1>7, <1>9
<1>11. \A t \in DOMAIN v : /\ v[t].status = "completed" => v[t].said \in Responses
                           /\ t < Len(v) => v[t].status # "running"
  <2>1. \A t \in DOMAIN v : t = Len(v) \/ t \in 1 .. Len(q)
    BY <1>10
  <2>2. \A t \in 1 .. Len(q) : t < Len(q) \/ t = Len(q)
    BY <1>10
  <2>3. q = <<>> => Len(q) = 0
    OBVIOUS
  <2>4. \A t \in 1 .. Len(q) : q[t].status # "running"
    BY <1>7, <1>8, <1>10, <2>2, <2>3
  <2> QED
    BY <1>5, <1>7, <1>10, <2>1, <2>4
<1>12. PICK x : x = [planner[n] EXCEPT !.seen = seen, !.turns = v]
  OBVIOUS
<1>13. x \in Tasks /\ x.turns = v
  BY <1>2, <1>7, <1>10, <1>12 DEF Tasks
<1>14. planner' = [planner EXCEPT ![n] = x]
  BY <1>1, <1>2, <1>4, <1>6, <1>9, <1>12 DEF HostInv, Tasks
<1>15. /\ HostInv' /\ PlannersStay
       /\ \A m \in Planners : planner[m] = None => planner'[m] = None
  BY <1>1, <1>11, <1>13, <1>14, TaskChanges
<1> QED
  BY <1>1, <1>3, <1>15, QueenMoves

LEMMA EndTurnKeeps ==
  ASSUME IInv, NEW n \in Planners, EndTurn(n)
  PROVE  IInv'
<1>1. /\ planner[n] # None /\ Running(n) /\ UNCHANGED <<record, job, effects, known, outcomes, left>>
      /\ HostInv /\ LeftInv'
  BY DEF EndTurn, queen, IInv, LeftInv
<1>2. PICK status \in {"completed", "failed", "aborted"}, response \in Responses :
       planner' = [planner EXCEPT ![n].turns[Len(planner[n].turns)] =
         [@ EXCEPT !.status = status,
                   !.said = IF status = "completed" THEN response ELSE None]]
  BY DEF EndTurn
<1>3. PICK q : q = planner[n].turns
  OBVIOUS
<1>4. /\ planner[n] \in Tasks /\ q \in Seq(Turns) /\ q # <<>> /\ q[Len(q)] \in Turns
      /\ Len(q) \in Nat /\ DOMAIN q = 1 .. Len(q) /\ Len(q) \in DOMAIN q
      /\ \A t \in DOMAIN q :
           /\ q[t].status = "completed" => q[t].said \in Responses
           /\ t < Len(q) => q[t].status # "running"
  BY <1>1, <1>3, LatestFacts, StatusFacts DEF HostInv, Running
<1>5. PICK u : u = [q[Len(q)] EXCEPT !.status = status,
                                    !.said = IF status = "completed" THEN response ELSE None]
  OBVIOUS
<1>6. u \in Turns /\ (u.status = "completed" => u.said \in Responses)
  BY <1>4, <1>5 DEF Turns
<1>7. PICK v : v = [q EXCEPT ![Len(q)] = u]
  OBVIOUS
<1>8. /\ v \in Seq(Turns) /\ Len(v) = Len(q) /\ DOMAIN v = DOMAIN q /\ v[Len(q)] = u
      /\ \A t \in DOMAIN q : t # Len(q) => v[t] = q[t]
  BY <1>4, <1>6, <1>7
<1>9. \A t \in DOMAIN v : /\ v[t].status = "completed" => v[t].said \in Responses
                          /\ t < Len(v) => v[t].status # "running"
  BY <1>4, <1>6, <1>8
<1>10. PICK x : x = [planner[n] EXCEPT !.turns = v]
  OBVIOUS
<1>11. x \in Tasks /\ x.turns = v
  BY <1>4, <1>8, <1>10 DEF Tasks
<1>12. planner' = [planner EXCEPT ![n] = x]
  BY <1>2, <1>3, <1>5, <1>7, <1>10
<1>13. /\ HostInv' /\ PlannersStay
       /\ \A m \in Planners : planner[m] = None => planner'[m] = None
  BY <1>1, <1>9, <1>11, <1>12, TaskChanges
<1> QED
  BY <1>1, <1>13, QueenMoves

-----------------------------------------------------------------------------

LEMMA IInvInit == Init => IInv
<1> SUFFICES ASSUME Init PROVE IInv
  OBVIOUS
<1>1. LeftInv
  BY PlanningAssumption DEF Init, LeftInv
<1>2. \A c \in Calls : ~ Working(c) /\ ~ Launching(c)
  BY DEF Init, Working, Launching, At
<1>3. LockInv /\ LaunchInv
  BY <1>2 DEF Init, LockInv, LaunchInv, Unlaunched
<1>4. HostInv
  BY DEF Init, HostInv
<1> QED
  BY <1>1, <1>3, <1>4 DEF Init, IInv, TypeOK, RecordInv

LEMMA IInvStep == IInv /\ [Next]_vars => IInv'
<1> SUFFICES ASSUME IInv, [Next]_vars PROVE IInv'
  OBVIOUS
<1>1. ASSUME NEW c \in Calls, Step(c) PROVE IInv'
  BY <1>1, PrepareKeeps, RefusesKeep, ResumeCreatedKeeps, ResumeResultKeeps, ReadTurnKeeps,
     ReadAgentKeeps, VerifyKeeps, StatusKeeps, JudgeKeeps, FinalizeKeeps, DeliverKeeps DEF Step
<1>2. ASSUME NEW c \in Calls, Lose(c) \/ Crash(c) PROVE IInv'
  BY <1>2, EndsKeep
<1>3. ASSUME NEW c \in Calls, NEW i \in Intents, NEW r \in known \cup {None}, Submit(c, i, r)
      PROVE  IInv'
  BY <1>3, SubmitKeeps
<1>4. CASE Perform
  BY <1>4, PerformLaunchKeeps, PerformReconcileKeeps, PerformWaitKeeps, PerformReadKeeps
     DEF Perform
<1>5. CASE Planner
  BY <1>5, StartTurnKeeps, EndTurnKeeps, ForgetKeeps DEF Planner
<1>6. CASE UNCHANGED vars
  <2>1. UNCHANGED <<record, job, planner, effects, known, outcomes, left>>
    BY <1>6 DEF vars
  <2>2. HostInv' /\ LeftInv' /\ PlannersStay
    BY <2>1 DEF IInv, HostInv, LeftInv, PlannersStay
  <2> QED
    BY <2>1, <2>2, QueenMoves
<1> QED
  BY <1>1, <1>2, <1>3, <1>4, <1>5, <1>6 DEF Next

-----------------------------------------------------------------------------

(* The record of the lifecycle is one that normalizeRecord accepts: it has a  *)
(* result exactly when its phase is final, and it counts no more              *)
(* interrupted turns than MAX_INTERRUPTED_TURN_RECONCILIATIONS.               *)
THEOREM TypeCorrect == Spec => []TypeOK
<1>1. IInv => TypeOK
  BY DEF IInv
<1> QED
  BY <1>1, IInvInit, IInvStep, PTL DEF Spec

LEMMA AtMostOne ==
  ASSUME NEW S, \A x, y \in S : x = y
  PROVE  Cardinality(S) <= 1
<1>1. CASE S = {}
  BY <1>1, FS_EmptySet
<1>2. CASE S # {}
  <2>1. PICK x : x \in S
    BY <1>2
  <2>2. S = {x}
    BY <2>1
  <2> QED
    BY <2>2, FS_Singleton
<1> QED
  BY <1>1, <1>2

LEMMA OnePlanHolds == IInv => OnePlan
<1> SUFFICES ASSUME IInv PROVE OnePlan
  OBVIOUS
<1>1. \A x, y \in {n \in Planners : planner[n] # None} : x = y
  BY DEF IInv, LaunchInv
<1>2. \A x, y \in {o \in outcomes : o.kind = "plan"} : x = y
  BY DEF IInv, Given
<1> QED
  BY <1>1, <1>2, AtMostOne DEF OnePlan

(* A lifecycle launches one planner, and what it hands out as its plan is one  *)
(* plan: the launch is asked for once, by the call that writes the record     *)
(* under its lock, and every later answer is about the one result that the    *)
(* record got (advance, #resumeCreated and #finalize).                        *)
THEOREM OnePlanner == Spec => []OnePlan
BY OnePlanHolds, IInvInit, IInvStep, PTL DEF Spec

-----------------------------------------------------------------------------
(* The plan and the turn that it is booked to *)

\* What is explored: of a planner with several turns app-server says "interrupted"
\* of a turn only when it was.
TurnsAreReported == \A x \in Starts : x["glitch"] = 0 \/ x["turn"] <= 1

Ended(n, t) == t \in DOMAIN planner[n].turns /\ planner[n].turns[t].status # "running"

UpTo(n, t) == {u \in CompletedTurns(n) : u <= t}

Says(n, t, x) == UpTo(n, t) # {} /\ planner[n].turns[Newest(UpTo(n, t))].said = x

\* No turn follows the first one.
Once(n) == Len(planner[n].turns) + left["turn"] <= 1

Over(n, t) == t \in DOMAIN planner[n].turns /\ (Ended(n, t) \/ Once(n))

\* A result is of a turn that has ended, and if that is still the latest turn, of
\* what was said in it or before.
Booked(r) ==
  r.type = "result" =>
    /\ Ended(r.planner, r.turn)
    /\ r.turn = Len(planner[r.planner].turns) => Says(r.planner, r.turn, r.response)

Readable(a) == a.kind = "read" => Over(record.planner, a.about)

Calm ==
  \/ /\ left["glitch"] = 0
     /\ \A n \in Planners : planner[n] # None =>
          \A t \in DOMAIN planner[n].turns : ~ planner[n].turns[t].glitch
  \/ left["turn"] <= 1 /\ \A n \in Planners : planner[n] # None => Once(n)

LookedAt(n, r, latest) ==
  /\ latest.status \notin {None, "running"} => Over(n, latest.turn)
  /\ r.type = "result" /\ latest.turn = r.turn => Says(n, r.turn, r.response)

Holds(x) ==
  /\ x.at = "answered" => Readable(x.answer)
  /\ x.at = "lock" /\ x.receipt # None => Booked(x.receipt)
  /\ x.at \notin {"lock", "answered"} =>
       /\ Booked(x.receipt)
       /\ x.at # "turn" => LookedAt(x.receipt.planner, x.receipt, x.latest)
       /\ x.at = "finalize" => x.latest.turn = x.receipt.turn

Settled ==
  record # None /\ record.result # None =>
    /\ Ended(record.planner, record.result.turn)
    /\ Says(record.planner, record.result.turn, record.result.response)

TurnInv ==
  /\ Calm /\ Settled
  /\ \A c \in Calls : job[c] # None => Holds(job[c])
  /\ \A a \in effects : Readable(a)
  /\ \A r \in known : Booked(r)

-----------------------------------------------------------------------------
(* What is said in a turn that has ended stays *)

TaskGrows(n) ==
  /\ planner'[n] # None
  /\ Len(planner[n].turns) <= Len(planner'[n].turns)
  /\ \A t \in DOMAIN planner[n].turns :
       t \in DOMAIN planner'[n].turns /\ (Ended(n, t) => planner'[n].turns[t] = planner[n].turns[t])
  /\ Once(n) => Once(n)'

HostGrows == \A n \in Planners : planner[n] # None => TaskGrows(n)

LEMMA EndedStays ==
  ASSUME NEW n \in Planners, planner[n] # None, TaskGrows(n), NEW t
  PROVE  /\ Ended(n, t) => Ended(n, t)'
         /\ Over(n, t) => Over(n, t)'
BY DEF TaskGrows, Ended, Over

\* The turns before one that has ended have ended too.
LEMMA EndedBefore ==
  ASSUME HostInv, NEW n \in Planners, planner[n] # None, NEW t, Ended(n, t)
  PROVE  /\ t \in Nat /\ t <= Len(planner[n].turns)
         /\ \A u \in DOMAIN planner[n].turns : u <= t => Ended(n, u)
<1>1. /\ DOMAIN planner[n].turns = 1 .. Len(planner[n].turns)
      /\ Len(planner[n].turns) \in Nat
  BY LatestFacts
<1>2. t \in 1 .. Len(planner[n].turns) /\ planner[n].turns[t].status # "running"
  BY <1>1 DEF Ended
<1>3. ASSUME NEW u \in DOMAIN planner[n].turns, u <= t PROVE Ended(n, u)
  <2>1. u = t \/ u < Len(planner[n].turns)
    BY <1>1, <1>2, <1>3
  <2> QED
    BY <1>2, <2>1 DEF Ended, HostInv
<1> QED
  BY <1>2, <1>3

LEMMA SaysStays ==
  ASSUME HostInv, HostInv', NEW n \in Planners, planner[n] # None, TaskGrows(n),
         NEW t, Ended(n, t), NEW x, Says(n, t, x)
  PROVE  Says(n, t, x)'
<1>1. PICK S : S = UpTo(n, t)
  OBVIOUS
<1>2. \A u \in DOMAIN planner[n].turns : u <= t => Ended(n, u)
  BY EndedBefore
<1>3. /\ t \in Nat /\ t <= Len(planner[n].turns) /\ Len(planner[n].turns) \in Nat
      /\ DOMAIN planner[n].turns = 1 .. Len(planner[n].turns)
  BY EndedBefore, LatestFacts
<1>4. DOMAIN planner'[n].turns = 1 .. Len(planner'[n].turns) /\ Len(planner'[n].turns) \in Nat
  <2>1. planner'[n] \in Tasks
    BY DEF HostInv, TaskGrows
  <2> QED
    BY <2>1 DEF Tasks
<1>5. \A u \in DOMAIN planner'[n].turns : u <= t =>
        u \in DOMAIN planner[n].turns /\ planner'[n].turns[u] = planner[n].turns[u]
  BY <1>2, <1>3, <1>4 DEF TaskGrows
<1>6. \A u \in DOMAIN planner[n].turns : u \in DOMAIN planner'[n].turns
  BY DEF TaskGrows
<1>7. UpTo(n, t)' = S
  BY <1>1, <1>5, <1>6 DEF UpTo, CompletedTurns
<1>8. S \in SUBSET DOMAIN planner[n].turns /\ S # {}
  BY <1>1 DEF UpTo, CompletedTurns, Says
<1>9. PICK m : m = Newest(S)
  OBVIOUS
<1>10. m \in S
  BY <1>8, <1>9, NewestFacts
<1>11. planner'[n].turns[m] = planner[n].turns[m]
  BY <1>1, <1>5, <1>7, <1>8, <1>10 DEF UpTo, CompletedTurns, TaskGrows
<1>12. Newest(UpTo(n, t))' = m
  BY <1>7, <1>9 DEF Newest
<1> QED
  BY <1>1, <1>7, <1>8, <1>9, <1>11, <1>12 DEF Says

LEMMA BookedStays ==
  ASSUME HostInv, HostInv', HostGrows, NEW r \in Receipts, Launched(r), Booked(r)
  PROVE  Booked(r)'
<1>1. PICK n : n = r.planner
  OBVIOUS
<1>2. n \in Planners /\ planner[n] # None /\ TaskGrows(n)
  BY <1>1, ReceiptFacts DEF Launched, HostGrows
<1>3. CASE r.type = "result"
  <2>1. Ended(n, r.turn) /\ Ended(n, r.turn)'
    BY <1>1, <1>2, <1>3, EndedStays DEF Booked
  <2>2. CASE r.turn = Len(planner[n].turns)
    <3>1. Says(n, r.turn, r.response)
      BY <1>1, <1>3, <2>2 DEF Booked
    <3>2. PICK t, x : t = r.turn /\ x = r.response
      OBVIOUS
    <3>3. Says(n, t, x)'
      BY <1>2, <2>1, <3>1, <3>2, SaysStays
    <3> QED
      BY <1>1, <2>1, <3>2, <3>3 DEF Booked
  <2>3. CASE r.turn # Len(planner[n].turns)
    <3>1. r.turn \in Nat /\ r.turn <= Len(planner[n].turns) /\ Len(planner[n].turns) \in Nat
      BY <1>2, <2>1, EndedBefore, LatestFacts
    <3>2. Len(planner'[n].turns) \in Nat
      <4>1. planner'[n] \in Tasks
        BY <1>2 DEF HostInv, TaskGrows
      <4> QED
        BY <4>1 DEF Tasks
    <3>3. r.turn # Len(planner'[n].turns)
      BY <1>2, <2>3, <3>1, <3>2 DEF TaskGrows
    <3> QED
      BY <1>1, <2>1, <3>3 DEF Booked
  <2> QED
    BY <2>2, <2>3
<1> QED
  BY <1>3 DEF Booked

LEMMA ReadableStays ==
  ASSUME TypeOK, RecordInv, HostGrows, RecordGrows, NEW a, Given(a), Readable(a)
  PROVE  Readable(a)'
<1>1. CASE a.kind = "read"
  <2>1. PICK n : n = record.planner
    OBVIOUS
  <2>2. record # None /\ n # None
    BY <1>1, <2>1 DEF Given
  <2>3. n \in Planners /\ planner[n] # None /\ TaskGrows(n) /\ record'.planner = n
    BY <2>1, <2>2, RecordFacts DEF RecordInv, RecordGrows, HostGrows
  <2>4. Over(n, a.about)'
    BY <1>1, <2>1, <2>3, EndedStays DEF Readable
  <2> QED
    BY <2>3, <2>4 DEF Readable
<1> QED
  BY <1>1 DEF Readable

\* What a call has read of a turn that its receipt is booked to stays true.
LEMMA LookedAtStays ==
  ASSUME HostInv, HostInv', HostGrows, NEW r \in Receipts, Launched(r), Booked(r), NEW latest,
         LookedAt(r.planner, r, latest)
  PROVE  LookedAt(r.planner, r, latest)'
<1>1. PICK n : n = r.planner
  OBVIOUS
<1>2. n \in Planners /\ planner[n] # None /\ TaskGrows(n)
  BY <1>1, ReceiptFacts DEF Launched, HostGrows
<1>3. latest.status \notin {None, "running"} => Over(n, latest.turn)'
  BY <1>1, <1>2, EndedStays DEF LookedAt
<1>4. ASSUME r.type = "result", latest.turn = r.turn PROVE Says(n, r.turn, r.response)'
  <2>1. PICK t, x : t = r.turn /\ x = r.response
    OBVIOUS
  <2>2. Ended(n, t) /\ Says(n, t, x)
    BY <1>1, <1>4, <2>1 DEF Booked, LookedAt
  <2>3. Says(n, t, x)'
    BY <1>2, <2>2, SaysStays
  <2> QED
    BY <2>1, <2>3
<1> QED
  BY <1>1, <1>3, <1>4 DEF LookedAt

LEMMA HoldsStays ==
  ASSUME IInv, HostInv', HostGrows, RecordGrows, NEW c \in Calls, NEW x, x = job[c], x # None,
         Holds(x)
  PROVE  Holds(x)'
<1>1. JobInv(c) /\ HostInv /\ TypeOK /\ RecordInv
  BY DEF IInv
<1>2. x.at = "answered" => Readable(x.answer)'
  BY <1>1, ReadableStays DEF JobInv, Holds
<1>3. x.at = "lock" /\ x.receipt # None => Booked(x.receipt)'
  BY <1>1, BookedStays DEF JobInv, Holds
<1>4. CASE x.at \notin {"lock", "answered"}
  <2>1. PICK r, l : r = x.receipt /\ (x.at # "turn" => l = x.latest)
    OBVIOUS
  <2>2. r \in Receipts /\ Launched(r)
    BY <1>1, <1>4, <2>1 DEF JobInv, Working, WorkInv
  <2>3. Booked(r)'
    BY <1>1, <1>4, <2>1, <2>2, BookedStays DEF Holds
  <2>4. x.at # "turn" => LookedAt(r.planner, r, l)'
    BY <1>1, <1>4, <2>1, <2>2, LookedAtStays DEF Holds
  <2>5. x.at # "turn" => LookedAt(x.receipt.planner, x.receipt, x.latest)'
    BY <2>1, <2>4
  <2> QED
    BY <1>4, <2>1, <2>3, <2>5 DEF Holds
<1> QED
  BY <1>2, <1>3, <1>4 DEF Holds

LEMMA SettledStays ==
  ASSUME IInv, HostInv', HostGrows, RecordGrows, record # None, record.result # None, Settled
  PROVE  Settled'
<1>1. PICK n, t, x : n = record.planner /\ t = record.result.turn /\ x = record.result.response
  OBVIOUS
<1>2. n \in Planners /\ planner[n] # None /\ TaskGrows(n) /\ HostInv
  BY <1>1, RecordFacts DEF IInv, RecordInv, HostGrows
<1>3. Ended(n, t) /\ Says(n, t, x)
  BY <1>1 DEF Settled
<1>4. Ended(n, t)' /\ Says(n, t, x)'
  BY <1>2, <1>3, EndedStays, SaysStays
<1>5. record'.planner = n /\ record'.result = record.result
  BY <1>1, <1>2, NoneFacts DEF RecordGrows, IInv, RecordInv
<1> QED
  BY <1>1, <1>4, <1>5 DEF Settled

\* A step: what is new in it has to be shown.
LEMMA TurnStep ==
  ASSUME IInv, TurnInv, IInv', RecordGrows, HostGrows, Calm',
         \A c \in Calls : job'[c] # None => job'[c] = job[c] \/ Holds(job[c])',
         \A a \in effects' : a \in effects \/ Readable(a)',
         \A r \in known' : r \in known \/ Booked(r)',
         (record # None /\ record.result # None) \/ Settled'
  PROVE  TurnInv'
<1>1. HostInv /\ HostInv' /\ TypeOK /\ RecordInv
  BY DEF IInv
<1>2. Settled'
  BY <1>1, SettledStays DEF TurnInv
<1>3. ASSUME NEW c \in Calls, job'[c] # None PROVE Holds(job[c])'
  <2>1. PICK x : x = job'[c]
    OBVIOUS
  <2>2. CASE x = job[c]
    <3>1. Holds(x)
      BY <1>3, <2>1, <2>2 DEF TurnInv
    <3>2. Holds(x)'
      BY <1>1, <1>3, <2>1, <2>2, <3>1, HoldsStays
    <3> QED
      BY <2>1, <3>2
  <2> QED
    BY <1>3, <2>1, <2>2
<1>4. \A a \in effects' : Readable(a)'
  BY <1>1, ReadableStays DEF TurnInv, IInv
<1>5. ASSUME NEW r \in known' PROVE Booked(r)'
  <2>1. CASE r \in known
    BY <1>1, <2>1, BookedStays DEF TurnInv, IInv
  <2> QED
    BY <1>5, <2>1
<1> QED
  BY <1>2, <1>3, <1>4, <1>5 DEF TurnInv

-----------------------------------------------------------------------------
(* The steps that leave the planner alone *)

SameTurns ==
  /\ UNCHANGED planner
  /\ left'["turn"] = left["turn"] /\ left'["glitch"] = left["glitch"]

LEMMA SameTurnsFacts ==
  ASSUME SameTurns, IInv, TurnInv
  PROVE  /\ HostGrows /\ Calm'
         /\ \A r : Booked(r) => Booked(r)'
         /\ \A n, t, x : /\ Ended(n, t) => Ended(n, t)'
                         /\ Over(n, t) => Over(n, t)'
                         /\ Says(n, t, x) => Says(n, t, x)'
<1>1. \A n \in Planners : planner[n] # None => Len(planner[n].turns) \in Nat
  BY LatestFacts DEF IInv
<1>2. HostGrows
  BY <1>1 DEF SameTurns, HostGrows, TaskGrows, Once
<1>3. \A n : Once(n)' = Once(n)
  BY DEF SameTurns, Once
<1>4. Calm'
  BY <1>3 DEF SameTurns, Calm, TurnInv
<1>5. \A n, t : Ended(n, t)' = Ended(n, t)
  BY DEF SameTurns, Ended
<1>6. \A n, t : UpTo(n, t)' = UpTo(n, t)
  BY DEF SameTurns, UpTo, CompletedTurns
<1>7. \A n, t, x : Says(n, t, x)' = Says(n, t, x)
  BY <1>6 DEF SameTurns, Says, Newest
<1>8. \A n, t : Over(n, t)' = Over(n, t)
  BY <1>3, <1>5 DEF SameTurns, Over
<1>9. \A r : Booked(r)' = Booked(r)
  BY <1>5, <1>7 DEF SameTurns, Booked
<1> QED
  BY <1>2, <1>4, <1>5, <1>7, <1>8, <1>9

LEMMA SpendsOther ==
  ASSUME LeftInv, UNCHANGED planner,
         NEW w \in {"call", "fault", "loss", "crash"}, Spend(w) \/ UNCHANGED left
  PROVE  SameTurns
BY DEF LeftInv, Spend, SameTurns

\* A step of the call c.
LEMMA CallStep ==
  ASSUME IInv, TurnInv, IInv', SameTurns, RecordGrows, UNCHANGED <<effects, known>>,
         NEW c \in Calls, NEW x, job' = [job EXCEPT ![c] = x], x # None => Holds(x)',
         UNCHANGED record \/ record'.result = None \/ Settled'
  PROVE  TurnInv'
<1>1. HostGrows /\ Calm'
  BY SameTurnsFacts
<1>2. job'[c] = x /\ \A d \in Calls \ {c} : job'[d] = job[d]
  BY DEF IInv
<1>3. \A d \in Calls : job'[d] # None => job'[d] = job[d] \/ Holds(job[d])'
  <2>1. x # None => Holds(job[c])'
    BY <1>2
  <2> QED
    BY <1>2, <2>1
<1>4. (record # None /\ record.result # None) \/ Settled'
  BY DEF Settled
<1> QED
  BY <1>1, <1>3, <1>4, TurnStep

LEMMA Ends ==
  ASSUME IInv, TurnInv, IInv', SameTurns, UNCHANGED <<record, effects, known>>,
         NEW c \in Calls, Throw(c)
  PROVE  TurnInv'
BY CallStep DEF Throw, RecordGrows

LEMMA Answers ==
  ASSUME IInv, TurnInv, IInv', SameTurns, RecordGrows, UNCHANGED <<effects, known>>,
         NEW c \in Calls, NEW k, NEW a, Reply(c, k, a),
         k = "read" => Readable(Answer(k, a))',
         UNCHANGED record \/ record'.result = None \/ Settled'
  PROVE  TurnInv'
<1>1. PICK x, y : y = Answer(k, a) /\ x = [at |-> "answered", answer |-> y]
  OBVIOUS
<1>2. x.at = "answered" /\ x.answer = y /\ job' = [job EXCEPT ![c] = x]
  BY <1>1 DEF Reply
<1>3. Readable(y)'
  BY <1>1, AnswerFacts DEF Readable
<1>4. Holds(x)'
  BY <1>2, <1>3 DEF Holds
<1> QED
  BY <1>2, <1>4, CallStep

\* The call goes on with what it knows.
LEMMA GoesOn ==
  ASSUME IInv, TurnInv, IInv', SameTurns, RecordGrows, UNCHANGED <<effects, known>>,
         NEW c \in Calls, NEW x, job' = [job EXCEPT ![c] = x],
         x.at \notin {"lock", "answered", "turn"}, Booked(x.receipt),
         LookedAt(x.receipt.planner, x.receipt, x.latest),
         x.at = "finalize" => x.latest.turn = x.receipt.turn,
         UNCHANGED record \/ record'.result = None
  PROVE  TurnInv'
<1>1. Booked(x.receipt)'
  BY SameTurnsFacts
<1>2. LookedAt(x.receipt.planner, x.receipt, x.latest)'
  BY SameTurnsFacts DEF LookedAt
<1>3. Holds(x)'
  BY <1>1, <1>2 DEF Holds
<1> QED
  BY <1>3, CallStep

LEMMA ExaminesBooked ==
  ASSUME IInv, TurnInv, IInv', SameTurns, RecordGrows, UNCHANGED <<effects, known>>,
         NEW c \in Calls, Enter(c), job[c].receipt # None, Examine(c),
         UNCHANGED record \/ record'.result = None
  PROVE  TurnInv'
<1>1. PICK x : x = [at |-> "turn", receipt |-> job[c].receipt]
  OBVIOUS
<1>2. x.at = "turn" /\ x.receipt = job[c].receipt /\ job' = [job EXCEPT ![c] = x]
  BY <1>1 DEF Examine
<1>3. Booked(x.receipt)
  BY <1>2 DEF Enter, TurnInv, Holds
<1>4. Booked(x.receipt)'
  BY <1>3, SameTurnsFacts
<1>5. Holds(x)'
  BY <1>2, <1>4 DEF Holds
<1> QED
  BY <1>2, <1>5, CallStep

-----------------------------------------------------------------------------

LEMMA PrepareTurns ==
  ASSUME IInv, TurnInv, IInv', NEW c \in Calls, Prepare(c)
  PROVE  TurnInv'
<1>1. /\ record = None /\ UNCHANGED <<planner, effects, known, left>> /\ RecordGrows
  BY DEF Prepare, host, queen, RecordGrows
<1>2. SameTurns
  BY <1>1 DEF SameTurns
<1>3. CASE Throw(c) /\ UNCHANGED record
  BY <1>1, <1>2, <1>3, Ends
<1>4. CASE Reply(c, "launch", None) /\ record'.result = None
  BY <1>1, <1>2, <1>4, Answers
<1> QED
  BY <1>3, <1>4 DEF Prepare

LEMMA RefusesTurns ==
  ASSUME IInv, TurnInv, IInv', NEW c \in Calls, RefuseIntent(c) \/ ResumeLaunch(c)
  PROVE  TurnInv'
<1>1. /\ UNCHANGED <<record, planner, effects, known, left>> /\ RecordGrows
      /\ Throw(c) \/ Reply(c, "reconcile", None)
  BY DEF RefuseIntent, ResumeLaunch, host, queen, RecordGrows
<1>2. SameTurns
  BY <1>1 DEF SameTurns
<1> QED
  BY <1>1, <1>2, Ends, Answers

LEMMA ResumeCreatedTurns ==
  ASSUME IInv, TurnInv, IInv', NEW c \in Calls, ResumeCreated(c)
  PROVE  TurnInv'
<1>1. /\ Enter(c) /\ record # None /\ job[c].receipt # None
      /\ UNCHANGED <<planner, effects, known>>
      /\ Spend("fault") \/ UNCHANGED left
  BY DEF ResumeCreated, Resumes, host, queen
<1>2. SameTurns
  BY <1>1, SpendsOther DEF IInv
<1>3. CASE Throw(c) /\ UNCHANGED record
  BY <1>1, <1>2, <1>3, Ends
<1>4. CASE /\ record.planner = None /\ Examine(c)
           /\ record' = [record EXCEPT !.phase = "launched", !.planner = job[c].receipt.planner]
  <2>1. record \in Records /\ record.result = None
    BY <1>1, <1>4 DEF IInv, RecordInv, TypeOK
  <2>2. record'.result = None /\ record'.intent = record.intent
    BY <1>4, <2>1 DEF Records
  <2>3. record' # None
    <3>1. job[c].receipt \in Receipts
      BY <1>1 DEF Enter, IInv, JobInv
    <3>2. job[c].receipt.planner \in Planners
      BY <3>1, ReceiptFacts
    <3>3. record' \in Records
      BY <1>4, <2>1, <3>2 DEF Records, Phases
    <3> QED
      BY <3>3, NoneFacts
  <2>4. RecordGrows
    BY <1>4, <2>1, <2>2, <2>3 DEF RecordGrows
  <2> QED
    BY <1>1, <1>2, <1>4, <2>2, <2>4, ExaminesBooked
<1>5. CASE Examine(c) /\ UNCHANGED record
  BY <1>1, <1>2, <1>5, ExaminesBooked DEF RecordGrows
<1> QED
  BY <1>3, <1>4, <1>5 DEF ResumeCreated

LEMMA ResumeResultTurns ==
  ASSUME IInv, TurnInv, IInv', NEW c \in Calls, ResumeResult(c)
  PROVE  TurnInv'
<1>1. /\ Enter(c) /\ job[c].receipt # None
      /\ UNCHANGED <<record, planner, effects, known, left>> /\ RecordGrows
  BY DEF ResumeResult, Resumes, host, queen, RecordGrows
<1>2. SameTurns
  BY <1>1 DEF SameTurns
<1>3. PICK a : a = PlanAnswer[record.intent][job[c].receipt.response]
  OBVIOUS
<1>4. a.kind # "read"
  <2>1. record # None /\ job[c].receipt.type = "result" /\ job[c].receipt \in Receipts
    BY <1>1 DEF ResumeResult, Resumes, IInv, JobInv, Enter
  <2>2. record.intent \in Intents /\ job[c].receipt.response \in Responses
    BY <2>1, RecordFacts, ReceiptFacts DEF IInv
  <2> QED
    BY <1>3, <2>2, PlanAnswerFacts
<1>5. Throw(c) \/ Examine(c) \/ Reply(c, a.kind, a.about)
  BY <1>3 DEF ResumeResult
<1> QED
  BY <1>1, <1>2, <1>4, <1>5, Ends, Answers, ExaminesBooked

\* The latest turn, as the call reads it.
LEMMA LatestIsLookedAt ==
  ASSUME IInv, TurnInv, NEW n \in Planners, planner[n] # None, NEW r, r.planner = n, Booked(r)
  PROVE  LookedAt(n, r, LatestTurn(n))
<1>1. PICK q, k : q = planner[n].turns /\ k = Len(q)
  OBVIOUS
<1>2. LatestTurn(n).turn = k /\ k \in Nat /\ q \in Seq(Turns) /\ DOMAIN q = 1 .. k
  BY <1>1, LatestFacts DEF IInv
<1>3. ASSUME LatestTurn(n).status \notin {None, "running"} PROVE Over(n, k)
  <2>1. q # <<>>
    BY <1>1, <1>3 DEF LatestTurn
  <2>2. k \in DOMAIN q /\ LatestTurn(n).status = Reported(q[k])
    BY <1>1, <1>2, <2>1 DEF LatestTurn
  <2>3. q[k].status # "running" \/ q[k].glitch
    BY <1>3, <2>2 DEF Reported
  <2>4. q[k].glitch => Once(n)
    BY <1>1, <2>2 DEF TurnInv, Calm
  <2> QED
    BY <1>1, <2>2, <2>3, <2>4 DEF Over, Ended
<1>4. r.type = "result" /\ k = r.turn => Says(n, r.turn, r.response)
  BY <1>1 DEF Booked
<1> QED
  BY <1>2, <1>3, <1>4 DEF LookedAt

LEMMA ReadTurnTurns ==
  ASSUME IInv, TurnInv, IInv', NEW c \in Calls, ReadTurn(c)
  PROVE  TurnInv'
<1>1. /\ At(c, "turn") /\ UNCHANGED <<record, planner, effects, known>> /\ RecordGrows
      /\ Spend("fault") \/ UNCHANGED left
  BY DEF ReadTurn, host, queen, RecordGrows
<1>2. SameTurns
  BY <1>1, SpendsOther DEF IInv
<1>3. CASE Throw(c)
  BY <1>1, <1>2, <1>3, Ends
<1>4. CASE Reply(c, "attention", None)
  BY <1>1, <1>2, <1>4, Answers
<1>5. PICK n, r : r = job[c].receipt /\ n = r.planner
  OBVIOUS
<1>6. CASE job' = [job EXCEPT ![c] =
                     [at |-> "agent", receipt |-> job[c].receipt, latest |-> LatestTurn(n)]]
  <2>1. PICK x, l : l = LatestTurn(n) /\ x = [at |-> "agent", receipt |-> r, latest |-> l]
    OBVIOUS
  <2>2. x.at = "agent" /\ x.receipt = r /\ x.latest = l /\ job' = [job EXCEPT ![c] = x]
    BY <1>5, <1>6, <2>1
  <2>3. Booked(r)
    BY <1>1, <1>5 DEF TurnInv, Holds, At
  <2>4. n \in Planners /\ planner[n] # None
    BY <1>1, <1>5, WorkerFacts, ReceiptFacts DEF WorkInv, Launched
  <2>5. LookedAt(n, r, l)
    BY <1>5, <2>1, <2>3, <2>4, LatestIsLookedAt
  <2> QED
    BY <1>1, <1>2, <1>5, <2>2, <2>3, <2>5, GoesOn
<1> QED
  BY <1>3, <1>4, <1>5, <1>6 DEF ReadTurn

\* What a call knows that has looked at the latest turn.
LEMMA WorkerKnows ==
  ASSUME IInv, TurnInv, NEW c \in Calls, NEW w, At(c, w), w \notin {"lock", "answered", "turn"}
  PROVE  /\ job[c].at = w /\ Working(c) /\ Booked(job[c].receipt)
         /\ LookedAt(job[c].receipt.planner, job[c].receipt, job[c].latest)
         /\ w = "finalize" => job[c].latest.turn = job[c].receipt.turn
BY DEF At, Working, TurnInv, Holds

LEMMA ReadAgentTurns ==
  ASSUME IInv, TurnInv, IInv', NEW c \in Calls, ReadAgent(c)
  PROVE  TurnInv'
<1>1. At(c, "agent") /\ UNCHANGED <<record, planner, effects, known, left>> /\ RecordGrows
  BY DEF ReadAgent, host, queen, RecordGrows
<1>2. SameTurns
  BY <1>1 DEF SameTurns
<1>3. PICK x : x = [at |-> IF job[c].receipt.type = "result" THEN "judge" ELSE "verify",
                    receipt |-> job[c].receipt, latest |-> job[c].latest,
                    seen |-> planner[job[c].receipt.planner].seen]
  OBVIOUS
<1>4. x.at \in {"judge", "verify"} /\ x.receipt = job[c].receipt /\ x.latest = job[c].latest
  BY <1>3
<1>5. job' = [job EXCEPT ![c] = x]
  BY <1>3 DEF ReadAgent
<1> QED
  BY <1>1, <1>2, <1>4, <1>5, WorkerKnows, GoesOn

LEMMA GotoTurns ==
  ASSUME IInv, TurnInv, IInv', SameTurns, RecordGrows, UNCHANGED <<effects, known>>,
         NEW c \in Calls, NEW v, At(c, v), v \notin {"lock", "answered", "turn"},
         NEW w \in {"status", "finalize"}, Goto(c, w),
         w = "finalize" => CurrentTurn(c),
         UNCHANGED record \/ record'.result = None
  PROVE  TurnInv'
<1>1. PICK x : x = [job[c] EXCEPT !.at = w]
  OBVIOUS
<1>2. {"at", "receipt", "latest"} \subseteq DOMAIN job[c]
  BY WorkerFacts, WorkerKnows DEF WorkInv
<1>3. /\ x.at = w /\ x.receipt = job[c].receipt /\ x.latest = job[c].latest
      /\ job' = [job EXCEPT ![c] = x]
  BY <1>1, <1>2 DEF Goto
<1>4. /\ Booked(x.receipt) /\ LookedAt(x.receipt.planner, x.receipt, x.latest)
      /\ x.at = "finalize" => x.latest.turn = x.receipt.turn
  BY <1>3, WorkerKnows DEF CurrentTurn
<1> QED
  BY <1>3, <1>4, GoesOn

LEMMA VerifyTurns ==
  ASSUME IInv, TurnInv, IInv', NEW c \in Calls, Verify(c)
  PROVE  TurnInv'
<1>1. /\ At(c, "verify") /\ Goto(c, "status") /\ record' = [record EXCEPT !.phase = "verified"]
      /\ UNCHANGED <<planner, effects, known, left>>
  BY DEF Verify, host, queen
<1>2. record # None /\ record \in Records /\ record.result = None
  BY <1>1, WorkerFacts
<1>3. /\ record' \in Records /\ record'.result = None
      /\ record'.intent = record.intent /\ record'.planner = record.planner
  BY <1>1, <1>2 DEF Records, Phases
<1>4. RecordGrows /\ SameTurns
  BY <1>1, <1>2, <1>3, NoneFacts DEF RecordGrows, SameTurns
<1> QED
  BY <1>1, <1>3, <1>4, GotoTurns

\* An answer of a call that has looked: what is to be read can be read.
LEMMA LookedAtTurns ==
  ASSUME IInv, TurnInv, IInv', NEW c \in Calls, NEW w, At(c, w), w \in {"status", "judge"},
         UNCHANGED <<planner, effects, known, left>>,
         \/ ReplyStatus(c) /\ UNCHANGED record
         \/ Reply(c, "attention", None) /\ UNCHANGED record
         \/ MayReconcile(c) /\ record' = CountInterrupted /\ Reply(c, "wait", None)
  PROVE  TurnInv'
<1>1. /\ Working(c) /\ job[c].at = w /\ record # None /\ TypeOK /\ RecordInv /\ record.result = None
      /\ record.planner = job[c].receipt.planner
  BY WorkerFacts
<1>2. SameTurns
  BY DEF SameTurns
<1>3. CASE ReplyStatus(c) /\ UNCHANGED record
  <2>1. PICK k, a : k = StatusAction(c).kind /\ a = StatusAction(c).about
    OBVIOUS
  <2>2. Reply(c, k, a)
    BY <1>3, <2>1 DEF ReplyStatus
  <2>3. ASSUME k = "read" PROVE Over(record.planner, a)
    <3>1. ~ Unfinished(c) /\ a = job[c].latest.turn
      BY <1>1, <2>1, <2>3, StatusActionFacts
    <3>2. job[c].latest.status \notin {None, "running"}
      BY <3>1 DEF Unfinished
    <3> QED
      BY <1>1, <3>1, <3>2, WorkerKnows DEF LookedAt
  <2>4. k = "read" => Over(record.planner, a)'
    <3>1. PICK n : n = record.planner
      OBVIOUS
    <3>2. k = "read" => Over(n, a)'
      BY <1>2, <2>3, <3>1, SameTurnsFacts
    <3> QED
      BY <1>3, <3>1, <3>2
  <2>5. k = "read" => Readable(Answer(k, a))'
    BY <2>4, AnswerFacts DEF Readable
  <2>6. RecordGrows
    BY <1>3 DEF RecordGrows
  <2> QED
    BY <1>2, <1>3, <2>2, <2>5, <2>6, Answers
<1>4. CASE Reply(c, "attention", None) /\ UNCHANGED record
  BY <1>2, <1>4, Answers DEF RecordGrows
<1>5. CASE MayReconcile(c) /\ record' = CountInterrupted /\ Reply(c, "wait", None)
  <2>1. RecordGrows /\ record'.result = None
    BY <1>1, <1>5, CountFacts DEF MayReconcile
  <2> QED
    BY <1>2, <1>5, <2>1, Answers
<1> QED
  BY <1>3, <1>4, <1>5

LEMMA StatusTurns ==
  ASSUME IInv, TurnInv, IInv', NEW c \in Calls, Status(c)
  PROVE  TurnInv'
BY LookedAtTurns DEF Status, host, queen

LEMMA JudgeTurns ==
  ASSUME IInv, TurnInv, IInv', NEW c \in Calls, Judge(c)
  PROVE  TurnInv'
<1>1. At(c, "judge") /\ UNCHANGED <<planner, effects, known, left>>
  BY DEF Judge, host, queen
<1>2. SameTurns
  BY <1>1 DEF SameTurns
<1>3. CASE Throw(c) /\ UNCHANGED record
  BY <1>1, <1>2, <1>3, Ends
<1>4. CASE Goto(c, "finalize") /\ CurrentTurn(c) /\ UNCHANGED record
  BY <1>1, <1>2, <1>4, GotoTurns DEF RecordGrows
<1>5. \/ ReplyStatus(c) /\ UNCHANGED record
      \/ Reply(c, "attention", None) /\ UNCHANGED record
      \/ MayReconcile(c) /\ record' = CountInterrupted /\ Reply(c, "wait", None)
      \/ Throw(c) /\ UNCHANGED record
      \/ Goto(c, "finalize") /\ CurrentTurn(c) /\ UNCHANGED record
  BY DEF Judge
<1> QED
  BY <1>1, <1>3, <1>4, <1>5, LookedAtTurns

LEMMA FinalizeTurns ==
  ASSUME IInv, TurnInv, IInv', NEW c \in Calls, Finalize(c)
  PROVE  TurnInv'
<1>1. /\ At(c, "finalize") /\ UNCHANGED <<planner, effects, known>>
      /\ Spend("fault") \/ UNCHANGED left
  BY DEF Finalize, host, queen
<1>2. SameTurns
  BY <1>1, SpendsOther DEF IInv
<1>3. PICK r, a : r = job[c].receipt /\ a = PlanAnswer[record.intent][r.response]
  OBVIOUS
<1>4. /\ Booked(r) /\ LookedAt(r.planner, r, job[c].latest) /\ job[c].latest.turn = r.turn
      /\ r \in Receipts /\ record # None /\ record \in Records /\ record.result = None
      /\ record.planner = r.planner /\ r.type = "result"
  BY <1>1, <1>3, WorkerKnows, WorkerFacts DEF WorkInv
<1>5. a.kind # "read"
  <2>1. record.intent \in Intents /\ r.response \in Responses
    BY <1>4, RecordFacts, ReceiptFacts DEF IInv
  <2> QED
    BY <1>3, <2>1, PlanAnswerFacts
<1>6. CASE Throw(c) /\ UNCHANGED record
  BY <1>1, <1>2, <1>6, Ends
<1>7. CASE Reply(c, "refused", None) /\ UNCHANGED record
  BY <1>1, <1>2, <1>7, Answers DEF RecordGrows
<1>8. CASE /\ record' = [record EXCEPT
                !.phase = IF r.response.kind = "low" THEN "attention" ELSE "completed",
                !.result = r]
           /\ Reply(c, a.kind, a.about)
  <2>1. /\ record' \in Records /\ record'.result = r /\ record'.planner = r.planner
        /\ record'.intent = record.intent
    BY <1>4, <1>8 DEF Records, Phases
  <2>2. RecordGrows
    BY <1>4, <2>1, NoneFacts DEF RecordGrows
  <2>3. PICK n, t, x : n = r.planner /\ t = r.turn /\ x = r.response
    OBVIOUS
  <2>4. Ended(n, t) /\ Says(n, t, x)
    BY <1>4, <2>3 DEF Booked, LookedAt
  <2>5. Ended(n, t)' /\ Says(n, t, x)'
    BY <1>2, <2>4, SameTurnsFacts
  <2>6. Settled'
    BY <2>1, <2>3, <2>5 DEF Settled
  <2> QED
    BY <1>1, <1>2, <1>5, <1>8, <2>2, <2>6, Answers
<1> QED
  BY <1>3, <1>6, <1>7, <1>8 DEF Finalize

LEMMA DeliverTurns ==
  ASSUME IInv, TurnInv, IInv', NEW c \in Calls, Deliver(c)
  PROVE  TurnInv'
<1>1. /\ At(c, "answered") /\ Throw(c) /\ UNCHANGED <<record, planner, known, left>>
      /\ effects' \subseteq effects \cup {job[c].answer}
  BY DEF Deliver, host
<1>2. SameTurns /\ RecordGrows
  BY <1>1 DEF SameTurns, RecordGrows
<1>3. Readable(job[c].answer)
  BY <1>1 DEF At, TurnInv, Holds
<1>4. PICK a : a = job[c].answer
  OBVIOUS
<1>5. Readable(a)'
  <2>1. PICK n : n = record.planner
    OBVIOUS
  <2>2. a.kind = "read" => Over(n, a.about)'
    BY <1>2, <1>3, <1>4, <2>1, SameTurnsFacts DEF Readable
  <2> QED
    BY <1>1, <2>1, <2>2 DEF Readable
<1>6. \A d \in Calls : job'[d] # None => job'[d] = job[d]
  BY <1>1 DEF Throw, IInv
<1>7. \A e \in effects' : e \in effects \/ Readable(e)'
  BY <1>1, <1>4, <1>5
<1>8. HostGrows /\ Calm' /\ ((record # None /\ record.result # None) \/ Settled')
  BY <1>1, <1>2, SameTurnsFacts DEF Settled
<1> QED
  BY <1>1, <1>2, <1>6, <1>7, <1>8, TurnStep

LEMMA EndsTurns ==
  ASSUME IInv, TurnInv, IInv', NEW c \in Calls, Lose(c) \/ Crash(c)
  PROVE  TurnInv'
<1>1. UNCHANGED <<record, planner, effects, known>> /\ Throw(c)
  BY DEF Lose, Crash, host, queen
<1>2. SameTurns
  BY <1>1, SpendsOther DEF IInv, Lose, Crash
<1> QED
  BY <1>1, <1>2, Ends

LEMMA SubmitTurns ==
  ASSUME IInv, TurnInv, IInv', NEW c \in Calls, NEW i \in Intents, NEW r \in known \cup {None},
         Submit(c, i, r)
  PROVE  TurnInv'
<1>1. PICK x : x = [at |-> "lock", intent |-> i, receipt |-> r]
  OBVIOUS
<1>2. x.at = "lock" /\ x.receipt = r
  BY <1>1
<1>3. /\ job' = [job EXCEPT ![c] = x] /\ UNCHANGED <<record, planner, effects, known>> /\ RecordGrows
      /\ Spend("fault") \/ UNCHANGED left
  BY <1>1 DEF Submit, host, queen, RecordGrows
<1>4. SameTurns
  BY <1>3, SpendsOther DEF IInv
<1>5. r # None => Booked(r)
  BY DEF TurnInv
<1>6. Holds(x)'
  BY <1>2, <1>4, <1>5, SameTurnsFacts DEF Holds
<1> QED
  BY <1>3, <1>4, <1>6, CallStep

-----------------------------------------------------------------------------
(* The steps of the queen and of the planner *)

\* No call takes part, and the record stays.
LEMMA OutsideStep ==
  ASSUME IInv, TurnInv, IInv', UNCHANGED <<record, job>>, effects' \subseteq effects,
         HostGrows, Calm', \A r \in known' : r \in known \/ Booked(r)'
  PROVE  TurnInv'
<1>1. RecordGrows
  BY DEF RecordGrows
<1>2. (record # None /\ record.result # None) \/ Settled'
  BY DEF Settled
<1> QED
  BY <1>1, <1>2, TurnStep

LEMMA CreatedIsBooked == \A n : Booked(Created(n))'
BY DEF Booked, Created

LEMMA PerformLaunchTurns ==
  ASSUME IInv, TurnInv, IInv', PerformLaunch
  PROVE  TurnInv'
<1>1. PICK n \in Planners, routed \in BOOLEAN, seen \in {"running", "unavailable"}, lost \in BOOLEAN :
        /\ planner[n] = None
        /\ left'["turn"] = left["turn"] /\ left'["glitch"] = left["glitch"]
        /\ planner' = [planner EXCEPT ![n] = [turns |-> <<>>, seen |-> seen, routed |-> routed]]
        /\ known' \subseteq known \cup {Created(n)}
  BY DEF PerformLaunch, IInv, LeftInv
<1>2. /\ UNCHANGED <<record, job>> /\ effects' \subseteq effects
  BY DEF PerformLaunch
<1>3. PICK t : t = [turns |-> <<>>, seen |-> seen, routed |-> routed]
  OBVIOUS
<1>4. t.turns = <<>> /\ Len(t.turns) = 0 /\ DOMAIN t.turns = {}
  BY <1>3
<1>5. planner'[n] = t /\ \A m \in Planners \ {n} : planner'[m] = planner[m]
  BY <1>1, <1>3 DEF IInv, HostInv
<1>6. \A m \in Planners : planner[m] # None => Len(planner[m].turns) \in Nat
  BY LatestFacts DEF IInv
<1>7. HostGrows
  BY <1>1, <1>5, <1>6 DEF HostGrows, TaskGrows, Once, Ended
<1>8. Calm'
  <2>1. CASE left["glitch"] = 0 /\ \A m \in Planners : planner[m] # None =>
               \A u \in DOMAIN planner[m].turns : ~ planner[m].turns[u].glitch
    BY <1>1, <1>4, <1>5, <2>1 DEF Calm
  <2>2. CASE left["turn"] <= 1 /\ \A m \in Planners : planner[m] # None => Once(m)
    <3>1. left["turn"] \in Nat
      BY DEF IInv, LeftInv
    <3>2. Once(n)'
      BY <1>1, <1>4, <1>5, <2>2, <3>1 DEF Once
    <3>3. \A m \in Planners \ {n} : planner'[m] # None => Once(m)'
      BY <1>1, <1>5, <2>2 DEF Once
    <3> QED
      BY <1>1, <2>2, <3>2, <3>3 DEF Calm
  <2> QED
    BY <2>1, <2>2 DEF TurnInv, Calm
<1> QED
  BY <1>1, <1>2, <1>7, <1>8, CreatedIsBooked, OutsideStep

LEMMA PerformReconcileTurns ==
  ASSUME IInv, TurnInv, IInv', PerformReconcile
  PROVE  TurnInv'
<1>1. UNCHANGED <<record, job, planner, left>> /\ effects' \subseteq effects
  BY DEF PerformReconcile, host
<1>2. \A r \in known' : r \in known \/ \E n \in Planners : r = Created(n)
  BY DEF PerformReconcile
<1>3. SameTurns
  BY <1>1 DEF SameTurns
<1>4. HostGrows /\ Calm'
  BY <1>3, SameTurnsFacts
<1> QED
  BY <1>1, <1>2, <1>4, CreatedIsBooked, OutsideStep

KeepsTurns(n, q, v) ==
  \A t \in DOMAIN q : t \in DOMAIN v /\ (Ended(n, t) => v[t] = q[t])

WithoutGlitch(q) == \A t \in DOMAIN q : ~ q[t].glitch

\* One task changes: what was said in it stays, and no turn is gained.
LEMMA OneTask ==
  ASSUME IInv, TurnInv, NEW n \in Planners, planner[n] # None, NEW x \in Tasks,
         planner' = [planner EXCEPT ![n] = x],
         NEW q, q = planner[n].turns, NEW v, v = x.turns,
         left'["turn"] \in Nat, left'["turn"] <= left["turn"],
         Len(q) <= Len(v), Len(v) + left'["turn"] <= Len(q) + left["turn"],
         KeepsTurns(n, q, v),
         left["glitch"] = 0 /\ WithoutGlitch(q) => left'["glitch"] = 0 /\ WithoutGlitch(v)
  PROVE  HostGrows /\ Calm'
<1>1. planner'[n] = x /\ x # None /\ \A m \in Planners \ {n} : planner'[m] = planner[m]
  BY NoneFacts DEF IInv, HostInv
<1>2. \A m \in Planners : planner[m] # None => Len(planner[m].turns) \in Nat
  BY LatestFacts DEF IInv
<1>3. Len(x.turns) \in Nat /\ left["turn"] \in Nat
  BY DEF Tasks, IInv, LeftInv
<1>4. Once(n) => Once(n)'
  BY <1>1, <1>2, <1>3 DEF Once
<1>5. \A m \in Planners \ {n} : planner[m] # None /\ Once(m) => Once(m)'
  BY <1>1, <1>2, <1>3 DEF Once
<1>6. TaskGrows(n)
  BY <1>1, <1>4 DEF TaskGrows, KeepsTurns
<1>7. \A m \in Planners \ {n} : planner[m] # None => TaskGrows(m)
  BY <1>1, <1>2, <1>5 DEF TaskGrows
<1>8. HostGrows
  BY <1>6, <1>7 DEF HostGrows
<1>9. Calm'
  <2>1. CASE left["glitch"] = 0 /\ \A m \in Planners : planner[m] # None =>
               \A u \in DOMAIN planner[m].turns : ~ planner[m].turns[u].glitch
    BY <1>1, <2>1 DEF Calm, WithoutGlitch
  <2>2. CASE left["turn"] <= 1 /\ \A m \in Planners : planner[m] # None => Once(m)
    <3>1. left'["turn"] <= 1
      BY <1>3, <2>2
    <3>2. \A m \in Planners : planner'[m] # None => Once(m)'
      BY <1>1, <1>4, <1>5, <2>2
    <3> QED
      BY <3>1, <3>2 DEF Calm
  <2> QED
    BY <2>1, <2>2 DEF TurnInv, Calm
<1> QED
  BY <1>8, <1>9

\* Only what is seen of the agent changes.
LEMMA SeenTurns ==
  ASSUME IInv, TurnInv, IInv', NEW n \in Planners, planner[n] # None,
         NEW s \in {"running", "completed", "failed", "aborted", "unavailable", "notFound"},
         planner' = [planner EXCEPT ![n].seen = s],
         UNCHANGED <<record, job, known>>, effects' \subseteq effects,
         left'["turn"] = left["turn"], left'["glitch"] = left["glitch"]
  PROVE  TurnInv'
<1>1. PICK x : x = [planner[n] EXCEPT !.seen = s]
  OBVIOUS
<1>2. planner[n] \in Tasks
  BY LatestFacts DEF IInv
<1>3. x \in Tasks /\ x.turns = planner[n].turns
  BY <1>1, <1>2 DEF Tasks
<1>4. planner' = [planner EXCEPT ![n] = x]
  BY <1>1
<1>5. Len(planner[n].turns) \in Nat /\ left["turn"] \in Nat
  BY LatestFacts DEF IInv, LeftInv
<1>6. PICK q : q = planner[n].turns
  OBVIOUS
<1>7. q = x.turns /\ Len(q) \in Nat
  BY <1>3, <1>5, <1>6
<1>8. HostGrows /\ Calm'
  <2>1. left'["turn"] \in Nat /\ left'["turn"] <= left["turn"] /\ Len(q) <= Len(q)
    BY <1>5, <1>7
  <2>2. Len(q) + left'["turn"] <= Len(q) + left["turn"]
    BY <1>5, <1>7
  <2>3. x \in Tasks
    BY <1>3
  <2>4. KeepsTurns(n, q, q)
    BY DEF KeepsTurns
  <2> QED
    BY <1>4, <1>6, <1>7, <2>1, <2>2, <2>3, <2>4, OneTask
<1> QED
  BY <1>8, OutsideStep

LEMMA ForgetTurns ==
  ASSUME IInv, TurnInv, IInv', NEW n \in Planners, Forget(n)
  PROVE  TurnInv'
<1>1. /\ planner[n] # None /\ UNCHANGED <<record, job, effects, known>>
      /\ left'["turn"] = left["turn"] /\ left'["glitch"] = left["glitch"]
  BY DEF Forget, Spend, queen, IInv, LeftInv
<1> QED
  BY <1>1, SeenTurns DEF Forget

LEMMA PerformWaitTurns ==
  ASSUME IInv, TurnInv, IInv', PerformWait
  PROVE  TurnInv'
<1>1. /\ effects' \subseteq effects /\ UNCHANGED <<record, job, known, left>>
      /\ HostInv
  BY DEF PerformWait, IInv
<1>2. record # None /\ record.planner # None
  <2>1. Answer("wait", None) \in effects /\ Answer("wait", None).kind = "wait"
    BY AnswerFacts DEF PerformWait
  <2> QED
    BY <2>1 DEF IInv, Given
<1>3. PICK n : n = record.planner
  OBVIOUS
<1>4. n \in Planners /\ planner[n] # None
  BY <1>2, <1>3, RecordFacts DEF IInv, RecordInv
<1>5. PICK s : s = IF planner[n].seen \in {"unavailable", "notFound"} THEN planner[n].seen
                   ELSE AgentStatus(n)
  OBVIOUS
<1>6. planner[n].turns # <<>> /\ planner' = [planner EXCEPT ![n].seen = s]
  BY <1>3, <1>5 DEF PerformWait
<1>7. AgentStatus(n) \in {"running", "completed", "failed", "aborted"}
  BY <1>1, <1>4, <1>6, StatusFacts DEF AgentStatus, Turns
<1>8. s \in {"running", "completed", "failed", "aborted", "unavailable", "notFound"}
  BY <1>5, <1>7
<1> QED
  BY <1>1, <1>4, <1>6, <1>8, SeenTurns

\* The response is the last one, so it is what was said up to the turn if no other
\* turn follows.
LEMMA PerformReadTurns ==
  ASSUME IInv, TurnInv, IInv', NEW e \in effects, e.kind = "read", PerformRead(e.about)
  PROVE  TurnInv'
<1>1. PICK n, t, S, x : /\ n = record.planner /\ t = e.about /\ S = CompletedTurns(n)
                        /\ x = planner[n].turns[Newest(S)].said
  OBVIOUS
<1>2. /\ UNCHANGED <<record, job, planner, effects, left>> /\ S # {}
      /\ known' = known \cup {Result(n, t, x)}
  BY <1>1 DEF PerformRead, host
<1>3. n \in Planners /\ planner[n] # None /\ HostInv
  BY <1>1, RecordFacts DEF IInv, Given, RecordInv
<1>4. Over(n, t)
  BY <1>1 DEF TurnInv, Readable
<1>5. PICK q, k : q = planner[n].turns /\ k = Len(q)
  OBVIOUS
<1>6. /\ DOMAIN q = 1 .. k /\ k \in Nat /\ t \in 1 .. k
      /\ S \subseteq 1 .. k
  BY <1>1, <1>3, <1>4, <1>5, LatestFacts DEF Over, CompletedTurns
<1>7. Ended(n, t)
  <2>1. CASE Once(n)
    <3>1. left["turn"] \in Nat
      BY DEF IInv, LeftInv
    <3>2. k <= 1
      BY <1>5, <1>6, <2>1, <3>1 DEF Once
    <3>3. t \in S
      <4>1. PICK z : z \in S
        BY <1>2
      <4>2. z = t
        BY <1>6, <3>2, <4>1
      <4> QED
        BY <4>1, <4>2
    <3> QED
      BY <1>1, <1>5, <1>6, <3>3 DEF CompletedTurns, Ended
  <2> QED
    BY <1>4, <2>1 DEF Over
<1>8. ASSUME t = k PROVE Says(n, t, x)
  <2>1. UpTo(n, t) = S
    BY <1>1, <1>6, <1>8 DEF UpTo
  <2> QED
    BY <1>1, <1>2, <2>1 DEF Says
<1>9. PICK r : r = Result(n, t, x)
  OBVIOUS
<1>10. Booked(r)
  BY <1>5, <1>7, <1>8, <1>9 DEF Booked, Result
<1>11. SameTurns
  BY <1>2 DEF SameTurns
<1>12. HostGrows /\ Calm' /\ Booked(r)'
  BY <1>10, <1>11, SameTurnsFacts
<1> QED
  BY <1>2, <1>9, <1>12, OutsideStep

LEMMA StartTurnTurns ==
  ASSUME IInv, TurnInv, IInv', NEW n \in Planners, StartTurn(n)
  PROVE  TurnInv'
<1>1. planner[n] # None /\ UNCHANGED <<record, job, effects, known>> /\ LeftInv
  BY DEF StartTurn, queen, IInv
<1>2. PICK glitch \in BOOLEAN, seen \in {"running", planner[n].seen} :
        /\ left' = [left EXCEPT !["turn"] = @ - 1, !["glitch"] = IF glitch THEN @ - 1 ELSE @]
        /\ left["turn"] > 0 /\ (glitch => left["glitch"] > 0)
        /\ planner' = [planner EXCEPT
             ![n].seen = seen,
             ![n].turns = Append(@, [status |-> "running", glitch |-> glitch, said |-> None])]
  BY DEF StartTurn
<1>3. /\ left["turn"] \in Nat /\ left'["turn"] = left["turn"] - 1
      /\ left'["turn"] \in Nat /\ (~ glitch => left'["glitch"] = left["glitch"])
  BY <1>1, <1>2 DEF LeftInv
<1>4. PICK u : u = [status |-> "running", glitch |-> glitch, said |-> None]
  OBVIOUS
<1>5. u \in Turns /\ u.glitch = glitch
  BY <1>4 DEF Turns
<1>6. PICK q, v : q = planner[n].turns /\ v = Append(q, u)
  OBVIOUS
<1>7. planner[n] \in Tasks /\ q \in Seq(Turns)
  BY <1>1, <1>6, LatestFacts DEF IInv
<1>8. /\ v \in Seq(Turns) /\ Len(v) = Len(q) + 1 /\ v[Len(v)] = u /\ Len(q) \in Nat
      /\ DOMAIN v = 1 .. Len(v) /\ DOMAIN q = 1 .. Len(q) /\ \A t \in 1 .. Len(q) : v[t] = q[t]
  BY <1>5, <1>6, <1>7
<1>9. PICK x : x = [planner[n] EXCEPT !.seen = seen, !.turns = v]
  OBVIOUS
<1>10. x \in Tasks /\ x.turns = v
  BY <1>2, <1>7, <1>8, <1>9 DEF Tasks
<1>11. planner' = [planner EXCEPT ![n] = x]
  BY <1>1, <1>2, <1>4, <1>6, <1>9 DEF IInv, HostInv, Tasks
<1>12. \A t \in DOMAIN q : t \in DOMAIN v /\ v[t] = q[t]
  BY <1>8
<1>13. ASSUME left["glitch"] = 0, \A t \in DOMAIN q : ~ q[t].glitch
       PROVE  left'["glitch"] = 0 /\ \A t \in DOMAIN v : ~ v[t].glitch
  <2>1. ~ glitch
    BY <1>2, <1>13
  <2>2. \A t \in DOMAIN v : t = Len(v) \/ t \in DOMAIN q
    BY <1>8
  <2> QED
    BY <1>3, <1>5, <1>8, <1>12, <1>13, <2>1, <2>2
<1>14. Len(q) <= Len(v) /\ Len(v) + left'["turn"] <= Len(q) + left["turn"]
  BY <1>3, <1>8
<1>15. HostGrows /\ Calm'
  <2>1. left'["turn"] \in Nat /\ left'["turn"] <= left["turn"] /\ planner[n] # None
    BY <1>1, <1>3
  <2>2. q = planner[n].turns /\ v = x.turns /\ x \in Tasks
    BY <1>6, <1>10
  <2>3. KeepsTurns(n, q, v)
    BY <1>12 DEF KeepsTurns
  <2>4. left["glitch"] = 0 /\ WithoutGlitch(q) => left'["glitch"] = 0 /\ WithoutGlitch(v)
    BY <1>13 DEF WithoutGlitch
  <2> QED
    BY <1>11, <1>14, <2>1, <2>2, <2>3, <2>4, OneTask
<1> QED
  BY <1>1, <1>15, OutsideStep

LEMMA EndTurnTurns ==
  ASSUME IInv, TurnInv, IInv', NEW n \in Planners, EndTurn(n)
  PROVE  TurnInv'
<1>1. /\ planner[n] # None /\ Running(n) /\ UNCHANGED <<record, job, effects, known, left>>
      /\ HostInv /\ LeftInv
  BY DEF EndTurn, queen, IInv
<1>2. PICK status \in {"completed", "failed", "aborted"}, response \in Responses :
       planner' = [planner EXCEPT ![n].turns[Len(planner[n].turns)] =
         [@ EXCEPT !.status = status,
                   !.said = IF status = "completed" THEN response ELSE None]]
  BY DEF EndTurn
<1>3. PICK q : q = planner[n].turns
  OBVIOUS
<1>4. /\ planner[n] \in Tasks /\ q \in Seq(Turns) /\ q # <<>> /\ q[Len(q)] \in Turns
      /\ q[Len(q)].status = "running"
      /\ Len(q) \in Nat /\ DOMAIN q = 1 .. Len(q) /\ Len(q) \in DOMAIN q
  BY <1>1, <1>3, LatestFacts, StatusFacts DEF Running
<1>5. PICK u : u = [q[Len(q)] EXCEPT !.status = status,
                                    !.said = IF status = "completed" THEN response ELSE None]
  OBVIOUS
<1>6. u \in Turns /\ u.glitch = q[Len(q)].glitch
  BY <1>4, <1>5 DEF Turns
<1>7. PICK v : v = [q EXCEPT ![Len(q)] = u]
  OBVIOUS
<1>8. /\ v \in Seq(Turns) /\ Len(v) = Len(q) /\ DOMAIN v = DOMAIN q /\ v[Len(q)] = u
      /\ \A t \in DOMAIN q : t # Len(q) => v[t] = q[t]
  BY <1>4, <1>6, <1>7
<1>9. PICK x : x = [planner[n] EXCEPT !.turns = v]
  OBVIOUS
<1>10. x \in Tasks /\ x.turns = v
  BY <1>4, <1>8, <1>9 DEF Tasks
<1>11. planner' = [planner EXCEPT ![n] = x]
  BY <1>2, <1>3, <1>5, <1>7, <1>9
<1>12. \A t \in DOMAIN q : t \in DOMAIN v /\ (Ended(n, t) => v[t] = q[t])
  BY <1>3, <1>4, <1>8 DEF Ended
<1>13. (\A t \in DOMAIN q : ~ q[t].glitch) => \A t \in DOMAIN v : ~ v[t].glitch
  BY <1>4, <1>6, <1>8
<1>14. left["turn"] \in Nat /\ left' = left
  BY <1>1 DEF LeftInv
<1>15. HostGrows /\ Calm'
  <2>1. /\ left'["turn"] \in Nat /\ left'["turn"] <= left["turn"]
        /\ Len(q) <= Len(v) /\ Len(v) + left'["turn"] <= Len(q) + left["turn"]
        /\ left["glitch"] = 0 => left'["glitch"] = 0
    BY <1>4, <1>8, <1>14
  <2>2. left["glitch"] = 0 /\ WithoutGlitch(q) => left'["glitch"] = 0 /\ WithoutGlitch(v)
    BY <1>13, <2>1 DEF WithoutGlitch
  <2>3. planner[n] # None /\ q = planner[n].turns /\ v = x.turns /\ x \in Tasks
    BY <1>1, <1>3, <1>10
  <2>4. KeepsTurns(n, q, v)
    BY <1>12 DEF KeepsTurns
  <2> QED
    BY <1>11, <2>1, <2>2, <2>3, <2>4, OneTask
<1> QED
  BY <1>1, <1>15, OutsideStep

-----------------------------------------------------------------------------

LEMMA TurnInvInit ==
  ASSUME TurnsAreReported
  PROVE  Init => TurnInv
<1> SUFFICES ASSUME Init PROVE TurnInv
  OBVIOUS
<1>1. left["glitch"] = 0 \/ left["turn"] <= 1
  BY DEF Init, TurnsAreReported
<1>2. Calm
  BY <1>1 DEF Init, Calm
<1> QED
  BY <1>2 DEF Init, TurnInv, Settled

LEMMA TurnInvStep == IInv /\ IInv' /\ TurnInv /\ [Next]_vars => TurnInv'
<1> SUFFICES ASSUME IInv, IInv', TurnInv, [Next]_vars PROVE TurnInv'
  OBVIOUS
<1>1. ASSUME NEW c \in Calls, Step(c) PROVE TurnInv'
  BY <1>1, PrepareTurns, RefusesTurns, ResumeCreatedTurns, ResumeResultTurns, ReadTurnTurns,
     ReadAgentTurns, VerifyTurns, StatusTurns, JudgeTurns, FinalizeTurns, DeliverTurns DEF Step
<1>2. ASSUME NEW c \in Calls, Lose(c) \/ Crash(c) PROVE TurnInv'
  BY <1>2, EndsTurns
<1>3. ASSUME NEW c \in Calls, NEW i \in Intents, NEW r \in known \cup {None}, Submit(c, i, r)
      PROVE  TurnInv'
  BY <1>3, SubmitTurns
<1>4. CASE Perform
  BY <1>4, PerformLaunchTurns, PerformReconcileTurns, PerformWaitTurns, PerformReadTurns
     DEF Perform
<1>5. CASE Planner
  BY <1>5, StartTurnTurns, EndTurnTurns, ForgetTurns DEF Planner
<1>6. CASE UNCHANGED vars
  <2>1. UNCHANGED <<record, job, planner, effects, known, left>>
    BY <1>6 DEF vars
  <2>2. SameTurns
    BY <2>1 DEF SameTurns
  <2>3. HostGrows /\ Calm'
    BY <2>2, SameTurnsFacts
  <2> QED
    BY <2>1, <2>3, OutsideStep
<1> QED
  BY <1>1, <1>2, <1>3, <1>4, <1>5, <1>6 DEF Next

LEMMA PlanIsCurrentHolds == IInv /\ TurnInv => PlanIsCurrent
<1> SUFFICES ASSUME IInv, TurnInv, record # None, record.result # None
             PROVE  /\ UpTo(record.planner, record.result.turn) # {}
                    /\ planner[record.planner].turns[
                         Newest(UpTo(record.planner, record.result.turn))].said
                         = record.result.response
                    /\ record.result.planner = record.planner
  BY DEF PlanIsCurrent, UpTo
<1> QED
  BY DEF IInv, RecordInv, TurnInv, Settled, Says

(* The final response of the lifecycle is what its planner said last when the *)
(* turn ended that the response is booked to: the queen may hand in what it   *)
(* read too early or for another turn, and turns may start and end while a    *)
(* call judges them, but inspectResult accepts a result only for the latest   *)
(* turn, and the response was read when that turn had ended.  It is assumed   *)
(* that app-server says "interrupted" of a turn that runs or has completed    *)
(* only when no other turn follows.                                           *)
THEOREM PlanHolds ==
  ASSUME TurnsAreReported
  PROVE  Spec => []PlanIsCurrent
BY PlanIsCurrentHolds, TurnInvInit, TurnInvStep, IInvInit, IInvStep, PTL DEF Spec
-----------------------------------------------------------------------------
(* Recursion over the natural numbers *)

LEMMA Induction ==
  ASSUME NEW N \in Nat, NEW S, 0 \in S, \A n \in 0 .. N : n \in S /\ n < N => n + 1 \in S
  PROVE  \A n \in 0 .. N : n \in S
<1> DEFINE T == {n \in 0 .. N : n \notin S}
<1>1. SUFFICES ASSUME T # {} PROVE FALSE
  OBVIOUS
<1>2. PICK t \in T : \A u \in T : ~ (<<u, t>> \in OpToRel(<, Nat))
  <2>1. T \subseteq Nat
    OBVIOUS
  <2> QED
    BY <1>1, <2>1, NatLessThanWellFounded, WFMin
<1>3. t \in 1 .. N /\ t - 1 \in 0 .. N
  OBVIOUS
<1>4. t - 1 \notin T
  <2>1. SUFFICES ASSUME t - 1 \in T PROVE FALSE
    OBVIOUS
  <2>2. ~ (<<t - 1, t>> \in OpToRel(<, Nat))
    BY <1>2, <2>1
  <2>3. ~ (t - 1 < t)
    BY <1>3, <2>2 DEF OpToRel
  <2> QED
    BY <1>3, <2>3
<1> QED
  BY <1>3, <1>4

Steps(N, X) == [1 .. N -> [X -> X]]

Follows(f, a, step, N) == f[0] = a /\ \A n \in 1 .. N : f[n] = step[n][f[n - 1]]

\* A function that is defined by recursion is there.
LEMMA Recursion ==
  ASSUME NEW X, NEW a, NEW N \in Nat, NEW step, a \in X, step \in Steps(N, X)
  PROVE  \E f : f \in [0 .. N -> X] /\ Follows(f, a, step, N)
<1> USE DEF Steps
<1> DEFINE Is(f, k) == f[0] = a /\ \A n \in 1 .. k : f[n] = step[n][f[n - 1]]
           S == {k \in 0 .. N : \E f \in [0 .. k -> X] : Is(f, k)}
<1>1. 0 \in S
  <2> DEFINE g == [n \in 0 .. 0 |-> a]
  <2>1. g \in [0 .. 0 -> X] /\ Is(g, 0)
    OBVIOUS
  <2>2. \E h \in [0 .. 0 -> X] : Is(h, 0)
    <3> HIDE DEF g, Is
    <3> QED
      BY <2>1
  <2> QED
    BY <2>2
<1>2. ASSUME NEW k \in 0 .. N, k \in S, k < N PROVE k + 1 \in S
  <2>1. PICK f \in [0 .. k -> X] : Is(f, k)
    BY <1>2
  <2> DEFINE g == [n \in 0 .. k + 1 |-> IF n = k + 1 THEN step[k + 1][f[k]] ELSE f[n]]
  <2>2. f[k] \in X /\ k + 1 \in 1 .. N
    BY <1>2, <2>1
  <2>3. step[k + 1][f[k]] \in X
    BY <2>2
  <2>4. g \in [0 .. k + 1 -> X]
    BY <2>1, <2>3
  <2>5. ASSUME NEW n \in 1 .. k + 1 PROVE g[n] = step[n][g[n - 1]]
    <3>1. g[n - 1] = f[n - 1]
      OBVIOUS
    <3>2. CASE n = k + 1
      BY <3>1, <3>2
    <3>3. CASE n \in 1 .. k
      BY <2>1, <3>1, <3>3
    <3> QED
      BY <3>2, <3>3
  <2>6. g[0] = a
    BY <2>1
  <2>7. Is(g, k + 1)
    BY <2>5, <2>6
  <2>8. \E h \in [0 .. k + 1 -> X] : Is(h, k + 1)
    <3> HIDE DEF g, Is
    <3> QED
      BY <2>4, <2>7
  <2>9. k + 1 \in 0 .. N
    BY <1>2
  <2> QED
    BY <2>8, <2>9
<1>3. N \in S
  <2> HIDE DEF S
  <2>1. \A k \in 0 .. N : k \in S /\ k < N => k + 1 \in S
    BY <1>2
  <2>2. \A k \in 0 .. N : k \in S
    BY <1>1, <2>1, Induction
  <2> QED
    BY <2>2
<1> QED
  BY <1>3 DEF Follows

-----------------------------------------------------------------------------
(* Lists of slices *)

LEMMA ElementFacts ==
  ASSUME NEW X, NEW s \in Seq(X)
  PROVE  /\ DOMAIN s = 1 .. Len(s) /\ Len(s) \in Nat /\ Elements(s) \subseteq X
         /\ \A i \in 1 .. Len(s) : s[i] \in X
BY DEF Elements

LEMMA AppendFacts ==
  ASSUME NEW X, NEW s \in Seq(X), NEW x \in X
  PROVE  /\ Append(s, x) \in Seq(X) /\ Len(Append(s, x)) = Len(s) + 1
         /\ \A i \in 1 .. Len(s) : Append(s, x)[i] = s[i]
         /\ Append(s, x)[Len(s) + 1] = x
         /\ Elements(Append(s, x)) = Elements(s) \cup {x}
<1>1. /\ Append(s, x) \in Seq(X) /\ Len(Append(s, x)) = Len(s) + 1
      /\ \A i \in 1 .. Len(s) : Append(s, x)[i] = s[i]
      /\ Append(s, x)[Len(s) + 1] = x
  OBVIOUS
<1>2. DOMAIN Append(s, x) = 1 .. Len(s) + 1 /\ DOMAIN s = 1 .. Len(s) /\ Len(s) \in Nat
  BY <1>1
<1>3. PICK t : t = Append(s, x)
  OBVIOUS
<1>4. Elements(t) = Elements(s) \cup {x}
  <2>1. ASSUME NEW y \in Elements(t) PROVE y \in Elements(s) \cup {x}
    BY <1>1, <1>2, <1>3 DEF Elements
  <2>2. ASSUME NEW y \in Elements(s) PROVE y \in Elements(t)
    BY <1>1, <1>2, <1>3 DEF Elements
  <2>3. x \in Elements(t)
    BY <1>1, <1>2, <1>3 DEF Elements
  <2> QED
    BY <2>1, <2>2, <2>3
<1> QED
  BY <1>1, <1>3, <1>4

LEMMA ConcatFacts ==
  ASSUME NEW X, NEW s \in Seq(X), NEW t \in Seq(X)
  PROVE  s \o t \in Seq(X) /\ Elements(s \o t) = Elements(s) \cup Elements(t)
<1>1. s \o t \in Seq(X) /\ Len(s \o t) = Len(s) + Len(t)
  OBVIOUS
<1>2. /\ \A i \in 1 .. Len(s) : (s \o t)[i] = s[i]
      /\ \A i \in 1 .. Len(t) : (s \o t)[Len(s) + i] = t[i]
  OBVIOUS
<1>3. PICK u : u = s \o t
  OBVIOUS
<1>4. /\ DOMAIN u = 1 .. Len(s) + Len(t) /\ DOMAIN s = 1 .. Len(s) /\ DOMAIN t = 1 .. Len(t)
      /\ Len(s) \in Nat /\ Len(t) \in Nat
      /\ \A i \in 1 .. Len(s) : u[i] = s[i]
      /\ \A i \in 1 .. Len(t) : u[Len(s) + i] = t[i]
  BY <1>1, <1>2, <1>3
<1>5. Elements(u) = Elements(s) \cup Elements(t)
  <2>1. ASSUME NEW y \in Elements(u) PROVE y \in Elements(s) \cup Elements(t)
    <3>1. PICK i \in DOMAIN u : y = u[i]
      BY DEF Elements
    <3>2. CASE i \in 1 .. Len(s)
      BY <1>4, <3>1, <3>2 DEF Elements
    <3>3. CASE i \notin 1 .. Len(s)
      <4>1. i - Len(s) \in 1 .. Len(t) /\ Len(s) + (i - Len(s)) = i
        BY <1>4, <3>3
      <4> QED
        BY <1>4, <3>1, <4>1 DEF Elements
    <3> QED
      BY <3>2, <3>3
  <2>2. ASSUME NEW y \in Elements(s) PROVE y \in Elements(u)
    BY <1>4 DEF Elements
  <2>3. ASSUME NEW y \in Elements(t) PROVE y \in Elements(u)
    <3>1. PICK i \in DOMAIN t : y = t[i]
      BY DEF Elements
    <3>2. Len(s) + i \in DOMAIN u /\ y = u[Len(s) + i]
      BY <1>4, <3>1
    <3> QED
      BY <3>2 DEF Elements
  <2> QED
    BY <2>1, <2>2, <2>3
<1> QED
  BY <1>1, <1>3, <1>5

\* What a list of slices is built from.
Picked(slices, S, w, n) == IF slices[n] \in S THEN Append(w, slices[n]) ELSE w

LEMMA PickedFacts ==
  ASSUME NEW X, NEW slices \in Seq(X), NEW S, NEW n \in 1 .. Len(slices), NEW w \in Seq(X)
  PROVE  /\ Picked(slices, S, w, n) \in Seq(X)
         /\ Elements(Picked(slices, S, w, n)) = Elements(w) \cup ({slices[n]} \cap S)
<1>1. slices[n] \in X
  OBVIOUS
<1>2. CASE slices[n] \in S
  BY <1>1, <1>2, AppendFacts DEF Picked
<1>3. CASE slices[n] \notin S
  BY <1>3 DEF Picked
<1> QED
  BY <1>2, <1>3

LEMMA NoElements == <<>> \in Seq({}) /\ Elements(<<>>) = {} /\ \A X : <<>> \in Seq(X)
BY DEF Elements

\* Only takes the slices of S, and no others.
LEMMA OnlyFacts ==
  ASSUME NEW X, NEW slices \in Seq(X), NEW S
  PROVE  /\ Only(slices, S) \in Seq(X)
         /\ Elements(Only(slices, S)) = Elements(slices) \cap S
<1>1. PICK a, N, Y : a = <<>> /\ N = Len(slices) /\ Y = Seq(X)
  OBVIOUS
<1> DEFINE step == [n \in 1 .. N |-> [w \in Y |-> Picked(slices, S, w, n)]]
           Is(f) == f = [n \in 0 .. N |-> IF n = 0 THEN a ELSE Picked(slices, S, f[n - 1], n)]
           g == CHOOSE f : Is(f)
<1>2. /\ N \in Nat /\ a \in Y /\ Elements(a) = {}
      /\ \A n \in 1 .. N, w \in Y :
           /\ Picked(slices, S, w, n) \in Y
           /\ Elements(Picked(slices, S, w, n)) = Elements(w) \cup ({slices[n]} \cap S)
  BY <1>1, PickedFacts, NoElements
<1>3. DOMAIN slices = 1 .. N
  BY <1>1
<1>4. Only(slices, S) = g[N]
  BY <1>1 DEF Only, Picked
<1>5. \E f : Is(f)
  <2>1. step \in [1 .. N -> [Y -> Y]]
    BY <1>2
  <2>2. PICK f \in [0 .. N -> Y] : f[0] = a /\ \A n \in 1 .. N : f[n] = step[n][f[n - 1]]
    <3>1. PICK h : h = step
      OBVIOUS
    <3>2. h \in Steps(N, Y)
      BY <2>1, <3>1 DEF Steps
    <3>3. \E f : f \in [0 .. N -> Y] /\ Follows(f, a, h, N)
      BY <1>2, <3>2, Recursion
    <3> QED
      BY <3>1, <3>3 DEF Follows
  <2>3. \A n \in 1 .. N : f[n] = Picked(slices, S, f[n - 1], n)
    BY <1>2, <2>2
  <2> QED
    BY <1>2, <2>2, <2>3
<1>6. g[0] = a /\ \A n \in 1 .. N : g[n] = Picked(slices, S, g[n - 1], n)
  <2>1. Is(g)
    <3> HIDE DEF Is
    <3> QED
      BY <1>5
  <2> HIDE DEF g
  <2> QED
    BY <1>2, <2>1
<1> HIDE DEF step, Is, g
<1> DEFINE T == {n \in 0 .. N : g[n] \in Y /\ Elements(g[n]) = {slices[i] : i \in 1 .. n} \cap S}
<1>7. 0 \in T
  <2>1. {slices[i] : i \in 1 .. 0} = {}
    OBVIOUS
  <2> QED
    BY <1>2, <1>6, <2>1
<1>8. ASSUME NEW n \in 0 .. N, n \in T, n < N PROVE n + 1 \in T
  <2>1. n + 1 \in 1 .. N /\ (n + 1) - 1 = n
    BY <1>2, <1>8
  <2>2. g[n + 1] = Picked(slices, S, g[n], n + 1)
    BY <1>6, <2>1
  <2>3. {slices[i] : i \in 1 .. n + 1} = {slices[i] : i \in 1 .. n} \cup {slices[n + 1]}
    BY <1>2, <2>1
  <2>4. g[n] \in Y /\ Elements(g[n]) = {slices[i] : i \in 1 .. n} \cap S
    BY <1>8
  <2>5. g[n + 1] \in Y /\ Elements(g[n + 1]) = Elements(g[n]) \cup ({slices[n + 1]} \cap S)
    BY <1>2, <2>1, <2>2, <2>4
  <2>6. Elements(g[n + 1]) = {slices[i] : i \in 1 .. n + 1} \cap S
    BY <2>3, <2>4, <2>5
  <2>7. n + 1 \in 0 .. N
    BY <2>1
  <2> QED
    BY <2>5, <2>6, <2>7
<1>9. N \in T
  <2> HIDE DEF T
  <2>1. \A n \in 0 .. N : n \in T /\ n < N => n + 1 \in T
    BY <1>8
  <2>2. \A n \in 0 .. N : n \in T
    BY <1>2, <1>7, <2>1, Induction
  <2> QED
    BY <1>2, <2>2
<1>10. Elements(slices) = {slices[i] : i \in 1 .. N}
  BY <1>3 DEF Elements
<1> QED
  BY <1>1, <1>4, <1>9, <1>10

-----------------------------------------------------------------------------
(* One wave *)

LEMMA ImageFacts ==
  ASSUME NEW s, NEW D, IsFiniteSet(D)
  PROVE  /\ IsFiniteSet({s[i] : i \in D})
         /\ Cardinality({s[i] : i \in D}) <= Cardinality(D)
<1> DEFINE T == {s[i] : i \in D}
           f == [i \in D |-> s[i]]
<1>1. f \in Surjection(D, T)
  BY DEF Surjection
<1> HIDE DEF T, f
<1>2. IsFiniteSet(T) /\ Cardinality(T) <= Cardinality(D)
  BY <1>1, FS_Surjection
<1> QED
  BY <1>2 DEF T

\* There are no more slices than places.
LEMMA ElementsCount ==
  ASSUME NEW X, NEW s \in Seq(X)
  PROVE  IsFiniteSet(Elements(s)) /\ Cardinality(Elements(s)) <= Len(s)
<1>1. DOMAIN s = 1 .. Len(s) /\ Len(s) \in Nat
  OBVIOUS
<1>2. IsFiniteSet(1 .. Len(s)) /\ Cardinality(1 .. Len(s)) = Len(s)
  BY <1>1, FS_Interval
<1>3. Elements(s) = {s[i] : i \in 1 .. Len(s)}
  BY <1>1 DEF Elements
<1> QED
  BY <1>2, <1>3, ImageFacts

\* A wave is of slices that are ready, is not too large, and is empty only if
\* nothing is ready.
LEMMA WaveFacts ==
  ASSUME NEW X, NEW slices \in Seq(X), NEW needs, NEW done, NEW w, w = Wave(slices, needs, done)
  PROVE  /\ w \subseteq Elements(slices) \ done
         /\ \A s \in w : needs[s] \subseteq done
         /\ IsFiniteSet(w) /\ Cardinality(w) <= MaxParallel
         /\ w = {} => \A s \in Elements(slices) \ done : ~ (needs[s] \subseteq done)
<1>1. PICK S, q : /\ S = {s \in Elements(slices) \ done : needs[s] \subseteq done}
                  /\ q = Only(slices, S)
  OBVIOUS
<1>2. q \in Seq(X) /\ Elements(q) = S
  <2>1. S \subseteq Elements(slices)
    BY <1>1
  <2>2. q = Only(slices, S)
    BY <1>1
  <2>3. Only(slices, S) \in Seq(X) /\ Elements(Only(slices, S)) = Elements(slices) \cap S
    BY OnlyFacts
  <2> QED
    BY <2>1, <2>2, <2>3
<1>3. w = {q[i] : i \in (1 .. MaxParallel) \cap DOMAIN q}
  BY <1>1 DEF Wave
<1>4. w \subseteq Elements(q)
  BY <1>3 DEF Elements
<1>5. MaxParallel \in Nat /\ MaxParallel # 0
  BY PlanningAssumption
<1>6. IsFiniteSet(w) /\ Cardinality(w) <= MaxParallel
  <2>1. IsFiniteSet(1 .. MaxParallel) /\ Cardinality(1 .. MaxParallel) = MaxParallel
    BY <1>5, FS_Interval
  <2>2. PICK D : D = (1 .. MaxParallel) \cap DOMAIN q
    OBVIOUS
  <2>3. IsFiniteSet(D) /\ Cardinality(D) <= MaxParallel
    BY <2>1, <2>2, FS_Subset
  <2>4. /\ IsFiniteSet({q[i] : i \in D})
        /\ Cardinality({q[i] : i \in D}) <= Cardinality(D)
    BY <2>3, ImageFacts
  <2>5. Cardinality(D) \in Nat /\ Cardinality({q[i] : i \in D}) \in Nat
    BY <2>3, <2>4, FS_CardinalityType
  <2> QED
    BY <1>3, <1>5, <2>2, <2>3, <2>4, <2>5
<1>7. ASSUME w = {}, NEW s \in S PROVE FALSE
  <2>1. DOMAIN q = 1 .. Len(q) /\ Len(q) \in Nat
    BY <1>2
  <2>2. PICK i \in DOMAIN q : s = q[i]
    BY <1>2 DEF Elements
  <2>3. 1 \in (1 .. MaxParallel) \cap DOMAIN q
    BY <1>5, <2>1, <2>2
  <2> QED
    BY <1>3, <1>7, <2>3
<1> QED
  BY <1>1, <1>2, <1>4, <1>6, <1>7

-----------------------------------------------------------------------------
(* The schedule *)

Before(w, n) == UNION {w[k] : k \in 1 .. n - 1}

\* The waves can be launched one after the other.
Sound(w, needs) ==
  \A n \in DOMAIN w :
    /\ w[n] \cap Before(w, n) = {}
    /\ IsFiniteSet(w[n]) /\ Cardinality(w[n]) \in 1 .. MaxParallel
    /\ \A s \in w[n] : needs[s] \subseteq Before(w, n)

\* No slice is ready that has no wave.
Exhausts(w, slices, needs) ==
  \A s \in Elements(slices) \ UNION Elements(w) : ~ (needs[s] \subseteq UNION Elements(w))

\* v is w with one wave more.
Adds(v, w, x) == v = Append(w, x)

LEMMA AllBefore ==
  ASSUME NEW X, NEW w \in Seq(X), NEW x \in X, NEW v, Adds(v, w, x)
  PROVE  /\ \A n \in 1 .. Len(w) : Before(v, n) = Before(w, n)
         /\ Before(v, Len(w) + 1) = UNION Elements(w)
<1>1. /\ \A i \in 1 .. Len(w) : v[i] = w[i]
      /\ Elements(v) = Elements(w) \cup {x}
      /\ Len(w) \in Nat /\ DOMAIN w = 1 .. Len(w)
  BY AppendFacts, ElementFacts DEF Adds
<1>2. ASSUME NEW n \in 1 .. Len(w) PROVE Before(v, n) = Before(w, n)
  <2>1. \A k \in 1 .. n - 1 : v[k] = w[k]
    BY <1>1
  <2>2. {v[k] : k \in 1 .. n - 1} = {w[k] : k \in 1 .. n - 1}
    BY <2>1
  <2> QED
    BY <2>2 DEF Before
<1>3. Before(v, Len(w) + 1) = UNION Elements(w)
  <2>1. (Len(w) + 1) - 1 = Len(w)
    BY <1>1
  <2>2. \A k \in 1 .. Len(w) : v[k] = w[k]
    BY <1>1
  <2>3. {v[k] : k \in 1 .. Len(w)} = Elements(w)
    BY <1>1, <2>2 DEF Elements
  <2> QED
    BY <2>1, <2>3 DEF Before
<1> QED
  BY <1>2, <1>3

\* One wave more is sound, and has slices that were not scheduled before.
LEMMA LongerFacts ==
  ASSUME NEW X, NEW slices \in Seq(X), NEW needs,
         NEW w \in Seq(SUBSET Elements(slices)), Sound(w, needs),
         NEW v, v = Longer(slices, needs, w)
  PROVE  /\ v \in Seq(SUBSET Elements(slices)) /\ Sound(v, needs)
         /\ \/ v = w /\ Exhausts(w, slices, needs)
            \/ Cardinality(UNION Elements(w)) < Cardinality(UNION Elements(v))
<1>1. PICK done, x : done = UNION Elements(w) /\ x = Wave(slices, needs, done)
  OBVIOUS
<1>2. /\ x \subseteq Elements(slices) \ done
      /\ \A s \in x : needs[s] \subseteq done
      /\ IsFiniteSet(x) /\ Cardinality(x) <= MaxParallel
      /\ x = {} => \A s \in Elements(slices) \ done : ~ (needs[s] \subseteq done)
  BY <1>1, WaveFacts
<1>3. v = IF x = {} THEN w ELSE Append(w, x)
  BY <1>1 DEF Longer
<1>4. CASE x = {}
  BY <1>1, <1>2, <1>3, <1>4 DEF Exhausts
<1>5. CASE x # {}
  <2>1. x \in SUBSET Elements(slices)
    BY <1>2
  <2>2. v = Append(w, x)
    BY <1>3, <1>5
  <2>3. /\ v \in Seq(SUBSET Elements(slices)) /\ Len(v) = Len(w) + 1
        /\ \A i \in 1 .. Len(w) : v[i] = w[i]
        /\ v[Len(w) + 1] = x
    BY <2>1, <2>2, AppendFacts
  <2>4. /\ \A n \in 1 .. Len(w) : Before(v, n) = Before(w, n)
        /\ Before(v, Len(w) + 1) = done
        /\ UNION Elements(v) = done \cup x
    <3>1. PICK Y : Y = SUBSET Elements(slices)
      OBVIOUS
    <3>2. w \in Seq(Y) /\ x \in Y /\ Adds(v, w, x)
      BY <2>1, <2>2, <3>1 DEF Adds
    <3>3. /\ \A n \in 1 .. Len(w) : Before(v, n) = Before(w, n)
          /\ Before(v, Len(w) + 1) = UNION Elements(w)
      BY <3>2, AllBefore
    <3>4. Elements(v) = Elements(w) \cup {x}
      BY <3>2, AppendFacts DEF Adds
    <3> QED
      BY <1>1, <3>3, <3>4
  <2>5. DOMAIN v = 1 .. Len(w) + 1 /\ DOMAIN w = 1 .. Len(w) /\ Len(w) \in Nat
    BY <2>3, ElementFacts
  <2>6. Cardinality(x) \in 1 .. MaxParallel
    <3>1. Cardinality(x) \in Nat /\ Cardinality(x) # 0
      BY <1>2, <1>5, FS_CardinalityType, FS_EmptySet
    <3> QED
      BY <1>2, <3>1, PlanningAssumption
  <2>7. Sound(v, needs)
    <3> SUFFICES ASSUME NEW n \in DOMAIN v
                 PROVE  /\ v[n] \cap Before(v, n) = {}
                        /\ IsFiniteSet(v[n]) /\ Cardinality(v[n]) \in 1 .. MaxParallel
                        /\ \A s \in v[n] : needs[s] \subseteq Before(v, n)
      BY DEF Sound
    <3>1. CASE n \in 1 .. Len(w)
      BY <2>3, <2>4, <2>5, <3>1 DEF Sound
    <3>2. CASE n = Len(w) + 1
      BY <1>2, <2>3, <2>4, <2>6, <3>2
    <3> QED
      BY <2>5, <3>1, <3>2
  <2>8. Cardinality(done) < Cardinality(done \cup x)
    <3>1. PICK s : s \in x /\ s \notin done
      BY <1>2, <1>5
    <3>2. done \subseteq Elements(slices) /\ IsFiniteSet(Elements(slices))
      <4>1. Elements(w) \subseteq SUBSET Elements(slices)
        BY ElementFacts
      <4> QED
        BY <1>1, <4>1, ElementsCount
    <3>3. IsFiniteSet(done)
      BY <3>2, FS_Subset
    <3>4. IsFiniteSet(done \cup x)
      BY <1>2, <3>3, FS_Union
    <3>5. /\ Cardinality(done) <= Cardinality(done \cup x)
          /\ Cardinality(done) = Cardinality(done \cup x) => done \cup x = done
      <4>1. done \in SUBSET (done \cup x)
        OBVIOUS
      <4> QED
        BY <3>4, <4>1, FS_Subset
    <3>6. Cardinality(done) \in Nat /\ Cardinality(done \cup x) \in Nat
      BY <3>3, <3>4, FS_CardinalityType
    <3> QED
      BY <3>1, <3>5, <3>6
  <2> QED
    BY <1>1, <2>3, <2>4, <2>7, <2>8
<1> QED
  BY <1>4, <1>5


LEMMA ScheduleFacts ==
  ASSUME NEW X, NEW slices \in Seq(X), NEW needs, NEW w, w = Schedule(slices, needs)
  PROVE  /\ w \in Seq(SUBSET Elements(slices)) /\ Sound(w, needs)
         /\ Exhausts(w, slices, needs)
<1>1. PICK a, N, E : a = <<>> /\ N = Len(slices) /\ E = Elements(slices)
  OBVIOUS
<1> DEFINE Y == {u \in Seq(SUBSET E) : Sound(u, needs)}
           step == [n \in 1 .. N |-> [u \in Y |-> Longer(slices, needs, u)]]
           Is(f) == f = [n \in 0 .. N |-> IF n = 0 THEN a ELSE Longer(slices, needs, f[n - 1])]
           g == CHOOSE f : Is(f)
           Count(u) == Cardinality(UNION Elements(u))
<1>2. N \in Nat /\ IsFiniteSet(E) /\ Cardinality(E) <= N
  BY <1>1, ElementsCount
<1>3. a \in Y
  <2>1. a \in Seq(SUBSET E) /\ DOMAIN a = {}
    BY <1>1
  <2> QED
    BY <2>1 DEF Sound
<1>4. ASSUME NEW u \in Y, NEW v, v = Longer(slices, needs, u)
      PROVE  /\ v \in Y
             /\ (v = u /\ Exhausts(u, slices, needs)) \/ Count(u) < Count(v)
  BY <1>1, <1>4, LongerFacts
<1>5. ASSUME NEW u \in Y
      PROVE  /\ UNION Elements(u) \subseteq E /\ Count(u) \in Nat
             /\ Count(u) >= N => Exhausts(u, slices, needs)
  <2>1. PICK U : U = UNION Elements(u)
    OBVIOUS
  <2>2. U \subseteq E
    <3>1. Elements(u) \subseteq SUBSET E
      BY ElementFacts
    <3> QED
      BY <2>1, <3>1
  <2>3. IsFiniteSet(U) /\ Cardinality(U) <= Cardinality(E) /\ (Cardinality(E) = Cardinality(U) => E = U)
    BY <1>2, <2>2, FS_Subset
  <2>4. Cardinality(U) \in Nat /\ Cardinality(E) \in Nat
    BY <1>2, <2>3, FS_CardinalityType
  <2>5. Cardinality(U) >= N => E \ U = {}
    BY <1>2, <2>3, <2>4
  <2> QED
    BY <1>1, <2>1, <2>2, <2>4, <2>5 DEF Exhausts
<1>6. w = g[N]
  BY <1>1 DEF Schedule
<1> HIDE DEF Y, Count
<1>7. \E f : Is(f)
  <2>1. step \in [1 .. N -> [Y -> Y]]
    BY <1>4
  <2>2. PICK f \in [0 .. N -> Y] : f[0] = a /\ \A n \in 1 .. N : f[n] = step[n][f[n - 1]]
    <3>1. PICK h : h = step
      OBVIOUS
    <3>2. h \in Steps(N, Y)
      BY <2>1, <3>1 DEF Steps
    <3>3. \E f : f \in [0 .. N -> Y] /\ Follows(f, a, h, N)
      BY <1>2, <1>3, <3>2, Recursion
    <3> QED
      BY <3>1, <3>3 DEF Follows
  <2>3. \A n \in 1 .. N : f[n] = Longer(slices, needs, f[n - 1])
    BY <1>2, <2>2
  <2> QED
    BY <1>2, <2>2, <2>3
<1>8. g[0] = a /\ \A n \in 1 .. N : g[n] = Longer(slices, needs, g[n - 1])
  <2>1. Is(g)
    <3> HIDE DEF Is
    <3> QED
      BY <1>7
  <2> HIDE DEF g
  <2> QED
    BY <1>2, <2>1
<1> HIDE DEF step, Is, g
<1> DEFINE T == {n \in 0 .. N : g[n] \in Y /\ (Exhausts(g[n], slices, needs) \/ Count(g[n]) >= n)}
<1>9. 0 \in T
  BY <1>2, <1>3, <1>5, <1>8
<1>10. ASSUME NEW n \in 0 .. N, n \in T, n < N PROVE n + 1 \in T
  <2>1. n + 1 \in 1 .. N /\ n + 1 \in 0 .. N /\ (n + 1) - 1 = n /\ n \in Nat
    BY <1>2, <1>10
  <2>2. PICK u, v : u = g[n] /\ v = g[n + 1]
    OBVIOUS
  <2>3. u \in Y /\ v = Longer(slices, needs, u)
    BY <1>8, <1>10, <2>1, <2>2
  <2>4. v \in Y /\ ((v = u /\ Exhausts(u, slices, needs)) \/ Count(u) < Count(v))
    BY <1>4, <2>3
  <2>5. Count(u) \in Nat /\ Count(v) \in Nat
    BY <1>5, <2>3, <2>4
  <2>6. Exhausts(u, slices, needs) => v = u
    <3>1. ASSUME Exhausts(u, slices, needs) PROVE Wave(slices, needs, UNION Elements(u)) = {}
      <4>1. PICK x : x = Wave(slices, needs, UNION Elements(u))
        OBVIOUS
      <4>2. x \subseteq Elements(slices) \ UNION Elements(u) /\ \A s \in x : needs[s] \subseteq UNION Elements(u)
        BY <4>1, WaveFacts
      <4> QED
        BY <3>1, <4>1, <4>2 DEF Exhausts
    <3> QED
      BY <2>3, <3>1 DEF Longer
  <2>7. Exhausts(v, slices, needs) \/ Count(v) >= n + 1
    <3>1. Exhausts(u, slices, needs) \/ Count(u) >= n
      BY <1>10, <2>2
    <3> QED
      BY <2>1, <2>4, <2>5, <2>6, <3>1
  <2> QED
    BY <2>1, <2>2, <2>4, <2>7
<1>11. N \in T
  <2> HIDE DEF T
  <2>1. \A n \in 0 .. N : n \in T /\ n < N => n + 1 \in T
    BY <1>10
  <2>2. \A n \in 0 .. N : n \in T
    BY <1>2, <1>9, <2>1, Induction
  <2> QED
    BY <1>2, <2>2
<1>12. w \in Y /\ Exhausts(w, slices, needs)
  BY <1>5, <1>6, <1>11
<1> QED
  BY <1>1, <1>12 DEF Y

LEMMA Smallest ==
  ASSUME NEW S, S \subseteq Nat, S # {}
  PROVE  \E x \in S : \A y \in S : x <= y
<1>1. PICK x \in S : \A u \in S : ~ (<<u, x>> \in OpToRel(<, Nat))
  BY NatLessThanWellFounded, WFMin
<1>2. ASSUME NEW y \in S PROVE x <= y
  <2>1. ~ (<<y, x>> \in OpToRel(<, Nat))
    BY <1>1
  <2>2. ~ (y < x)
    BY <1>2, <2>1 DEF OpToRel
  <2> QED
    BY <2>2
<1> QED
  BY <1>2

-----------------------------------------------------------------------------
(* The slices that a replan leaves *)

\* The list of what is left, with the wave n more.
Listed(slices, w, completed, u, n) == u \o Only(slices, w[n] \ completed)

LEMMA ListedFacts ==
  ASSUME NEW X, NEW slices \in Seq(X), NEW w, NEW completed, NEW u \in Seq(X), NEW n
  PROVE  /\ Listed(slices, w, completed, u, n) \in Seq(X)
         /\ Elements(Listed(slices, w, completed, u, n)) =
              Elements(u) \cup (Elements(slices) \cap (w[n] \ completed))
<1>1. PICK q : q = Only(slices, w[n] \ completed)
  OBVIOUS
<1>2. q \in Seq(X) /\ Elements(q) = Elements(slices) \cap (w[n] \ completed)
  BY <1>1, OnlyFacts
<1>3. PICK v : v = u \o q
  OBVIOUS
<1>4. v \in Seq(X) /\ Elements(v) = Elements(u) \cup Elements(q)
  BY <1>2, <1>3, ConcatFacts
<1>5. Listed(slices, w, completed, u, n) = v
  BY <1>1, <1>3 DEF Listed
<1> QED
  BY <1>2, <1>4, <1>5

\* Every slice has a wave.
Covers(w, slices) == UNION Elements(w) = Elements(slices)

\* Nothing is lost by listing the waves one after the other.
LEMMA PendingFacts ==
  ASSUME NEW X, NEW r, r.slices \in Seq(X), NEW completed,
         NEW w, w = Schedule(r.slices, r.needs), Covers(w, r.slices)
  PROVE  /\ Pending(completed, r) \in Seq(X)
         /\ Elements(Pending(completed, r)) = Elements(r.slices) \ completed
<1>1. PICK a, N, Y, slices : a = <<>> /\ N = Len(w) /\ Y = Seq(X) /\ slices = r.slices
  OBVIOUS
<1>2. N \in Nat /\ DOMAIN w = 1 .. N /\ a \in Y /\ Elements(a) = {}
  <2>1. w \in Seq(SUBSET Elements(slices))
    BY <1>1, ScheduleFacts
  <2> QED
    BY <1>1, <2>1, NoElements
<1> DEFINE step == [n \in 1 .. N |-> [u \in Y |-> Listed(slices, w, completed, u, n)]]
           Is(f) == f = [n \in 0 .. N |->
                           IF n = 0 THEN a ELSE Listed(slices, w, completed, f[n - 1], n)]
           g == CHOOSE f : Is(f)
<1>3. ASSUME NEW u \in Y, NEW n, NEW v, v = Listed(slices, w, completed, u, n)
      PROVE  v \in Y /\ Elements(v) = Elements(u) \cup (Elements(slices) \cap (w[n] \ completed))
  BY <1>1, <1>3, ListedFacts
<1>4. Pending(completed, r) = g[N]
  BY <1>1 DEF Pending, Listed
<1>5. \E f : Is(f)
  <2>1. step \in [1 .. N -> [Y -> Y]]
    BY <1>3
  <2>2. PICK f \in [0 .. N -> Y] : f[0] = a /\ \A n \in 1 .. N : f[n] = step[n][f[n - 1]]
    <3>1. PICK h : h = step
      OBVIOUS
    <3>2. h \in Steps(N, Y)
      BY <2>1, <3>1 DEF Steps
    <3>3. \E f : f \in [0 .. N -> Y] /\ Follows(f, a, h, N)
      BY <1>2, <3>2, Recursion
    <3> QED
      BY <3>1, <3>3 DEF Follows
  <2>3. ASSUME NEW n \in 1 .. N PROVE f[n] = Listed(slices, w, completed, f[n - 1], n)
    <3>1. f[n - 1] \in Y
      BY <1>2, <2>2
    <3>2. f[n] = step[n][f[n - 1]]
      BY <2>2
    <3> HIDE <1>3
    <3> QED
      BY <3>1, <3>2
  <2> QED
    BY <1>2, <2>2, <2>3
<1>6. g[0] = a /\ \A n \in 1 .. N : g[n] = Listed(slices, w, completed, g[n - 1], n)
  <2>1. Is(g)
    <3> HIDE DEF Is
    <3> QED
      BY <1>5
  <2> HIDE DEF g
  <2> QED
    BY <1>2, <2>1
<1> HIDE DEF step, Is, g
<1> DEFINE T == {n \in 0 .. N :
             g[n] \in Y /\ Elements(g[n]) = (Elements(slices) \cap Before(w, n + 1)) \ completed}
<1>7. 0 \in T
  <2>1. Before(w, 0 + 1) = {}
    BY DEF Before
  <2> QED
    BY <1>2, <1>6, <2>1
<1>8. ASSUME NEW n \in 0 .. N, n \in T, n < N PROVE n + 1 \in T
  <2>1. n + 1 \in 1 .. N /\ n + 1 \in 0 .. N /\ (n + 1) - 1 = n /\ n \in Nat
    BY <1>2, <1>8
  <2>2. PICK u, v : u = g[n] /\ v = g[n + 1]
    OBVIOUS
  <2>3. u \in Y /\ v = Listed(slices, w, completed, u, n + 1)
    BY <1>6, <1>8, <2>1, <2>2
  <2>4. v \in Y /\ Elements(v) = Elements(u) \cup (Elements(slices) \cap (w[n + 1] \ completed))
    BY <1>3, <2>3
  <2>5. Elements(u) = (Elements(slices) \cap Before(w, n + 1)) \ completed
    BY <1>8, <2>2
  <2>6. Before(w, (n + 1) + 1) = Before(w, n + 1) \cup w[n + 1]
    <3>1. {w[k] : k \in 1 .. ((n + 1) + 1) - 1} = {w[k] : k \in 1 .. (n + 1) - 1} \cup {w[n + 1]}
      BY <2>1
    <3> QED
      BY <3>1 DEF Before
  <2>7. Elements(v) = (Elements(slices) \cap Before(w, (n + 1) + 1)) \ completed
    BY <2>4, <2>5, <2>6
  <2> QED
    BY <2>1, <2>2, <2>4, <2>7
<1>9. N \in T
  <2> HIDE DEF T
  <2>1. \A n \in 0 .. N : n \in T /\ n < N => n + 1 \in T
    BY <1>8
  <2>2. \A n \in 0 .. N : n \in T
    BY <1>2, <1>7, <2>1, Induction
  <2> QED
    BY <1>2, <2>2
<1>10. Before(w, N + 1) = UNION Elements(w)
  <2>1. (N + 1) - 1 = N
    BY <1>2
  <2>2. {w[k] : k \in 1 .. N} = Elements(w)
    BY <1>2 DEF Elements
  <2> QED
    BY <2>1, <2>2 DEF Before
<1> QED
  BY <1>1, <1>4, <1>9, <1>10 DEF Covers

\* The slices that are left get a wave each: one that had none, of the first
\* wave of the revised plan with such a slice, would be ready.
LEMMA ReplanFacts ==
  ASSUME NEW X, NEW r, r.slices \in Seq(X), NEW completed,
         NEW w, w = Schedule(r.slices, r.needs), Covers(w, r.slices),
         NEW v, v = Schedule(Pending(completed, r), PendingNeeds(completed, r))
  PROVE  /\ UNION Elements(v) = Elements(r.slices) \ completed
         /\ v \in Seq(SUBSET (Elements(r.slices) \ completed))
         /\ Sound(v, PendingNeeds(completed, r))
<1>1. PICK E, p, m : /\ E = Elements(r.slices) /\ p = Pending(completed, r)
                     /\ m = PendingNeeds(completed, r)
  OBVIOUS
<1>2. p \in Seq(X) /\ Elements(p) = E \ completed
  <2>1. /\ Pending(completed, r) \in Seq(X)
        /\ Elements(Pending(completed, r)) = Elements(r.slices) \ completed
    BY PendingFacts
  <2> QED
    BY <1>1, <2>1
<1>3. v \in Seq(SUBSET Elements(p)) /\ Sound(v, m) /\ Exhausts(v, p, m)
  BY <1>1, <1>2, ScheduleFacts
<1>4. w \in Seq(SUBSET E) /\ Sound(w, r.needs)
  BY <1>1, ScheduleFacts
<1>5. DOMAIN w = 1 .. Len(w) /\ Len(w) \in Nat /\ UNION Elements(w) = E
  BY <1>1, <1>4 DEF Covers
<1>6. PICK U : U = UNION Elements(v)
  OBVIOUS
<1>7. U \subseteq E \ completed
  <2>1. Elements(v) \subseteq SUBSET Elements(p)
    BY <1>3, ElementFacts
  <2> QED
    BY <1>2, <1>6, <2>1
<1>8. ASSUME NEW t \in E \ completed, t \notin U PROVE FALSE
  <2> DEFINE K == {k \in 1 .. Len(w) : \E s \in w[k] : s \in E \ completed /\ s \notin U}
  <2>1. K # {}
    <3>1. t \in UNION Elements(w)
      BY <1>5, <1>8
    <3>2. PICK k \in DOMAIN w : t \in w[k]
      BY <3>1 DEF Elements
    <3> QED
      BY <1>5, <1>8, <3>2
  <2>2. K \subseteq Nat
    BY <1>5
  <2>3. PICK k \in K : \A j \in K : k <= j
    <3> HIDE DEF K
    <3> QED
      BY <2>1, <2>2, Smallest
  <2>4. PICK s \in w[k] : s \in E \ completed /\ s \notin U
    OBVIOUS
  <2>5. r.needs[s] \subseteq Before(w, k) /\ k \in 1 .. Len(w) /\ k \in DOMAIN w
    BY <1>4, <1>5, <2>4 DEF Sound
  <2>6. ASSUME NEW x \in r.needs[s], x \notin completed PROVE x \in U
    <3>1. PICK j \in 1 .. k - 1 : x \in w[j]
      BY <2>5, <2>6 DEF Before
    <3>2. j \in 1 .. Len(w) /\ ~ (k <= j)
      BY <1>5, <2>5, <3>1
    <3>3. x \in E
      BY <1>4, <1>5, <3>1, <3>2
    <3>4. j \notin K
      BY <2>3, <3>2
    <3> QED
      BY <2>6, <3>1, <3>2, <3>3, <3>4
  <2>7. m[s] = r.needs[s] \ completed
    BY <1>1, <2>4 DEF PendingNeeds
  <2>8. m[s] \subseteq U
    BY <2>6, <2>7
  <2>9. s \in Elements(p) \ U
    BY <1>2, <2>4
  <2> QED
    BY <1>3, <1>6, <2>8, <2>9 DEF Exhausts
<1> QED
  BY <1>1, <1>2, <1>3, <1>6, <1>7, <1>8

-----------------------------------------------------------------------------
(* The plan that is handed out *)

\* What is promised of the waves of a plan, for a response and what is done.
SafeWaves(waves, r, done) ==
  /\ UNION Elements(waves) = Elements(r.slices) \ done
  /\ \A n \in DOMAIN waves :
       /\ waves[n] \cap (Before(waves, n) \cup done) = {}
       /\ Cardinality(waves[n]) \in 1 .. MaxParallel
       /\ \A s \in waves[n] : r.needs[s] \subseteq Before(waves, n) \cup done

LEMMA ObjectiveIsSafe ==
  ASSUME NEW X, NEW r, r.slices \in Seq(X), NEW w, w = Schedule(r.slices, r.needs),
         Covers(w, r.slices)
  PROVE  SafeWaves(w, r, {})
<1>1. Sound(w, r.needs)
  <2>1. PICK q, m : q = r.slices /\ m = r.needs
    OBVIOUS
  <2> QED
    BY <2>1, ScheduleFacts
<1>2. PICK E : E = Elements(r.slices)
  OBVIOUS
<1>3. PICK U : U = UNION Elements(w)
  OBVIOUS
<1>4. U = E \ {}
  BY <1>2, <1>3 DEF Covers
<1> QED
  BY <1>1, <1>2, <1>3, <1>4 DEF SafeWaves, Sound

LEMMA ReplanIsSafe ==
  ASSUME NEW X, NEW r, r.slices \in Seq(X), NEW done,
         NEW w, w = Schedule(r.slices, r.needs), Covers(w, r.slices),
         NEW v, v = Schedule(Pending(done, r), PendingNeeds(done, r))
  PROVE  SafeWaves(v, r, done)
<1>1. PICK E, m : E = Elements(r.slices) /\ m = PendingNeeds(done, r)
  OBVIOUS
<1>2. UNION Elements(v) = E \ done /\ v \in Seq(SUBSET (E \ done)) /\ Sound(v, m)
  BY <1>1, ReplanFacts
<1>3. DOMAIN v = 1 .. Len(v) /\ Len(v) \in Nat /\ \A n \in DOMAIN v : v[n] \subseteq E \ done
  BY <1>2
<1>4. \A s \in E : m[s] = r.needs[s] \ done
  BY <1>1 DEF PendingNeeds
<1>5. ASSUME NEW n \in DOMAIN v
      PROVE  /\ v[n] \cap (Before(v, n) \cup done) = {}
             /\ Cardinality(v[n]) \in 1 .. MaxParallel
             /\ \A s \in v[n] : r.needs[s] \subseteq Before(v, n) \cup done
  <2>1. /\ v[n] \cap Before(v, n) = {} /\ Cardinality(v[n]) \in 1 .. MaxParallel
        /\ \A s \in v[n] : m[s] \subseteq Before(v, n)
    BY <1>2 DEF Sound
  <2>2. v[n] \subseteq E \ done
    BY <1>3
  <2> QED
    BY <1>4, <2>1, <2>2
<1> QED
  BY <1>1, <1>2, <1>5 DEF SafeWaves

LEMMA AnswerIsSafe ==
  ASSUME NEW i \in Intents, NEW r \in Responses, Usable[i][r],
         NEW a, a = PlanAnswer[i][r], a.kind = "plan"
  PROVE  SafeWaves(a.about, r, Completed(i))
<1>1. \/ r.kind = "low"
      \/ r.kind = "plan" /\ ValidPlan(r.slices, r.needs)
  BY DEF Usable
<1>2. a = IF r.kind = "low" THEN Answer("attention", None)
          ELSE IF i = None
          THEN Answer("plan", Schedule(r.slices, r.needs))
          ELSE IF ~ Preserves(i, r) THEN Answer("refused", None)
          ELSE Answer("plan", Schedule(Pending(i, r), PendingNeeds(i, r)))
  BY DEF PlanAnswer
<1>3. r.kind # "low"
  BY <1>2, AnswerFacts
<1>4. PICK X, w : X = Elements(r.slices) /\ w = Schedule(r.slices, r.needs)
  OBVIOUS
<1>5. r.slices \in Seq(X)
  BY <1>1, <1>3, <1>4, ResponsesAssumption
<1>6. Covers(w, r.slices)
  BY <1>1, <1>3, <1>4 DEF ValidPlan, Covers
<1>7. CASE i = None
  <2>1. a.about = w /\ Completed(i) = {}
    BY <1>2, <1>3, <1>4, <1>7, AnswerFacts DEF Completed
  <2>2. SafeWaves(w, r, {})
    BY <1>4, <1>5, <1>6, ObjectiveIsSafe
  <2> QED
    BY <2>1, <2>2
<1>8. CASE i # None
  <2>1. PICK v : v = Schedule(Pending(i, r), PendingNeeds(i, r))
    OBVIOUS
  <2>2. a.about = v /\ Completed(i) = i
    BY <1>2, <1>3, <1>8, <2>1, AnswerFacts DEF Completed
  <2>3. SafeWaves(v, r, i)
    BY <1>4, <1>5, <1>6, <2>1, ReplanIsSafe
  <2> QED
    BY <2>2, <2>3
<1> QED
  BY <1>7, <1>8

\* The result of the record is one that is not refused.
UsableInv ==
  record # None /\ record.result # None => Usable[record.intent][record.result.response]

LEMMA UsableInvStep == IInv /\ UsableInv /\ [Next]_vars => UsableInv'
<1> SUFFICES ASSUME IInv, UsableInv, [Next]_vars PROVE UsableInv'
  OBVIOUS
<1> USE DEF UsableInv
<1>1. ASSUME UNCHANGED record PROVE UsableInv'
  BY <1>1
<1>2. ASSUME record' # None => record'.result = None PROVE UsableInv'
  BY <1>2
<1>3. ASSUME NEW c \in Calls, Working(c) PROVE record \in Records /\ record.result = None
  <2>1. WorkInv(c)
    BY <1>3, Alone
  <2> QED
    BY <2>1 DEF IInv, TypeOK, WorkInv
<1>4. ASSUME record \in Records, record.result = None, record' = CountInterrupted PROVE UsableInv'
  <2>1. record'.result = None
    BY <1>4 DEF CountInterrupted, Records
  <2> QED
    BY <1>2, <2>1
<1>5. ASSUME NEW c \in Calls, Prepare(c) PROVE UsableInv'
  <2>1. \/ UNCHANGED record
        \/ record' = [intent |-> job[c].intent, phase |-> "launch-pending",
                      planner |-> None, result |-> None, interrupted |-> 0]
    BY <1>5 DEF Prepare
  <2> QED
    BY <1>1, <1>2, <2>1
<1>6. ASSUME NEW c \in Calls, ResumeCreated(c) PROVE UsableInv'
  <2>1. record # None /\ record \in Records /\ RecordInv
    BY <1>6 DEF ResumeCreated, Resumes, IInv, TypeOK
  <2>2. CASE /\ record.planner = None
             /\ record' = [record EXCEPT !.phase = "launched",
                                         !.planner = job[c].receipt.planner]
    <3>1. record'.result = None
      BY <2>1, <2>2 DEF RecordInv, Records
    <3> QED
      BY <1>2, <3>1
  <2> QED
    BY <1>1, <1>6, <2>2 DEF ResumeCreated
<1>7. ASSUME NEW c \in Calls, Verify(c) PROVE UsableInv'
  <2>1. Working(c) /\ record' = [record EXCEPT !.phase = "verified"]
    BY <1>7 DEF Verify, At, Working
  <2>2. record'.result = None
    BY <1>3, <2>1 DEF Records
  <2> QED
    BY <1>2, <2>2
<1>8. ASSUME NEW c \in Calls, Status(c) \/ Judge(c) PROVE UsableInv'
  <2>1. Working(c) /\ (UNCHANGED record \/ record' = CountInterrupted)
    BY <1>8 DEF Status, Judge, At, Working
  <2> QED
    BY <1>1, <1>3, <1>4, <2>1
<1>9. ASSUME NEW c \in Calls, Finalize(c) PROVE UsableInv'
  <2>1. Working(c)
    BY <1>9 DEF Finalize, At, Working
  <2>2. record \in Records
    BY <1>3, <2>1
  <2>3. PICK r : r = job[c].receipt
    OBVIOUS
  <2>4. \/ UNCHANGED record
        \/ /\ Usable[record.intent][r.response]
           /\ record' = [record EXCEPT
                !.phase = IF r.response.kind = "low" THEN "attention" ELSE "completed",
                !.result = r]
    BY <1>9, <2>3 DEF Finalize
  <2>5. CASE /\ Usable[record.intent][r.response]
             /\ record' = [record EXCEPT
                  !.phase = IF r.response.kind = "low" THEN "attention" ELSE "completed",
                  !.result = r]
    <3>1. record'.intent = record.intent /\ record'.result = r
      BY <2>2, <2>5 DEF Records
    <3> QED
      BY <2>5, <3>1
  <2> QED
    BY <1>1, <2>4, <2>5
<1>10. ASSUME NEW c \in Calls, Step(c) PROVE UsableInv'
  <2>1. ASSUME RefuseIntent(c) \/ ResumeLaunch(c) \/ ResumeResult(c) \/ ReadTurn(c)
                 \/ ReadAgent(c) \/ Deliver(c)
        PROVE  UNCHANGED record
    BY <2>1 DEF RefuseIntent, ResumeLaunch, ResumeResult, ReadTurn, ReadAgent, Deliver
  <2> HIDE DEF UsableInv
  <2> QED
    BY <1>1, <1>5, <1>6, <1>7, <1>8, <1>9, <1>10, <2>1 DEF Step
<1>11. ASSUME NEW c \in Calls, Lose(c) \/ Crash(c) PROVE UNCHANGED record
  BY <1>11 DEF Lose, Crash
<1>12. ASSUME NEW c \in Calls, NEW i \in Intents, NEW r \in known \cup {None}, Submit(c, i, r)
       PROVE  UNCHANGED record
  BY <1>12 DEF Submit
<1>13. ASSUME Perform PROVE UNCHANGED record
  BY <1>13 DEF Perform, PerformLaunch, PerformReconcile, PerformWait, PerformRead
<1>14. ASSUME Planner PROVE UNCHANGED record
  BY <1>14 DEF Planner, StartTurn, EndTurn, Forget
<1>15. ASSUME UNCHANGED vars PROVE UNCHANGED record
  BY <1>15 DEF vars
<1> HIDE DEF UsableInv
<1> QED
  BY <1>1, <1>10, <1>11, <1>12, <1>13, <1>14, <1>15 DEF Next

LEMMA ScheduleIsSafeHolds == IInv /\ UsableInv => ScheduleIsSafe
<1> SUFFICES ASSUME IInv, UsableInv, NEW o \in outcomes, o.kind = "plan"
             PROVE  SafeWaves(o.about, record.result.response, Completed(record.intent))
  BY DEF ScheduleIsSafe, SafeWaves, Before
<1>1. /\ record # None /\ record.result # None
      /\ o = PlanAnswer[record.intent][record.result.response]
  BY DEF IInv, Given
<1>2. record.intent \in Intents /\ record.result \in Receipts /\ record.result.type = "result"
  BY <1>1, RecordFacts DEF IInv, RecordInv
<1>3. record.result.response \in Responses
  BY <1>2, ReceiptFacts
<1>4. Usable[record.intent][record.result.response]
  BY <1>1 DEF UsableInv
<1> QED
  BY <1>1, <1>2, <1>3, <1>4, AnswerIsSafe

(* What is handed out can be launched: no slice stands before one that it     *)
(* needs, no wave is larger than planWorkSlices was allowed, and the plan of   *)
(* a replan has every slice on which nothing was decided and none that is      *)
(* completed.  finalizePlanningBootstrapV1 refuses a plan that does not        *)
(* schedule every slice; what is left of it then schedules too, since of the   *)
(* slices that would be left over, one of the earliest wave needs none of the  *)
(* others.                                                                     *)
THEOREM ScheduleHolds == Spec => []ScheduleIsSafe
<1>1. Init => UsableInv
  BY DEF Init, UsableInv
<1> QED
  BY <1>1, UsableInvStep, ScheduleIsSafeHolds, IInvInit, IInvStep, PTL DEF Spec
=============================================================================
