-------------------------------- MODULE Bridge --------------------------------
(***************************************************************************)
(* The bridge to the native app server (src/src/mcp-app-server-bridge.mjs):*)
(* one child process, one connection that is made when it is needed, and   *)
(* the calls that share it.                                                *)
(*                                                                         *)
(* The bridge runs on one event loop.  An answer, a timer or the end of    *)
(* the child is an event; what a call does next after it, up to its next   *)
(* request, is a job, and no event comes before the jobs are done (Quiet). *)
(* A request is made in two jobs: one gets the connection, one writes to   *)
(* the child; the jobs of other calls may come between them.               *)
(* A failed request takes the connection with it: every call that waits    *)
(* for an answer or for the connection fails with the same error.          *)
(*                                                                         *)
(* A batch is several reads at a time.  The host, and the callers of a     *)
(* wake, are outside of the repository.                                    *)
(***************************************************************************)
EXTENDS Naturals, Sequences, FiniteSets

CONSTANTS
  None,
  Calls,
  Mixes,        \* what is explored: the operation that each call is, how often a thing
                \* may go wrong and the queen's thread move by itself, and whether a
                \* child that was told to end may still do what it was sent
  Page,         \* the turns that one thread/turns/list answers (20 in the code)
  MaxAttempts   \* how often the caller of a wake tries it

Kinds == {"none", "read", "wait", "probe", "wake", "archive"}

ASSUME BridgeAssumption ==
  /\ Page \in Nat \ {0} /\ MaxAttempts \in Nat \ {0}
  /\ \A m \in Mixes :
       /\ m.kinds \in [Calls -> Kinds]
       /\ m.left \in [fault : Nat, move : Nat, lingers : BOOLEAN]

VARIABLES
  kind,     \* the operation that each call is
  bridge,   \* connection, state of #compatibility, #closed, #incompatibilityError
  call,     \* the calls, by what they wait for
  wire,     \* the request of each call that the child holds or has answered
  thread,   \* the queen's thread in the host: status, turns, archived, revision
  orphans,  \* mutations that a child holds which was told to end
  left      \* how often a thing may still go wrong and the thread move; whether
            \* children linger

vars == <<kind, bridge, call, wire, thread, orphans, left>>

\* A call: where it is, the request it is at, whether that was retried, what it
\* knows, and how it ended.  cut is history: the last attempt that was sent and then
\* rejected as certainly unapplied by an error that is not its answer.
NewCall ==
  [at |-> "idle", step |-> None, tried |-> FALSE, seen |-> 0, late |-> FALSE, turn |-> 0,
   attempt |-> 0, reconcile |-> FALSE, end |-> None, cut |-> 0]

Init ==
  /\ \E m \in Mixes : kind = m.kinds /\ left = m.left
  /\ thread = [status |-> "idle", turns |-> <<{}>>, archived |-> {}, revision |-> 0]
  /\ bridge = [link |-> "none", state |-> "idle", owner |-> None, closed |-> FALSE,
               refused |-> FALSE]
  /\ call = [c \in Calls |-> NewCall]
  /\ wire = [c \in Calls |-> None]
  /\ orphans = {}

Quiet == \A c \in Calls : call[c].at \notin {"job", "write"}

Goes(k, step) == [k EXCEPT !.at = "job", !.step = step, !.tried = FALSE]

Ends(k, how) == [k EXCEPT !.at = "ended", !.step = None, !.end = how]

Spend(what) == left[what] > 0 /\ left' = [left EXCEPT ![what] = @ - 1]

Fault == Spend("fault")

-----------------------------------------------------------------------------
(* Errors and what a call makes of them *)

Error(code, retriable) == [code |-> code, retriable |-> retriable]

Lost == Error("transport-failure", TRUE)
Rejected == Error("request-rejected", FALSE)
Closed == Error("bridge-closed", FALSE)
NoInput == Error("input-unavailable", TRUE)
Invalid == Error("invalid-response", FALSE)
TooOld == Error("incompatible-version", FALSE)
TimedOut(retriable) == Error("timeout", retriable)

ASSUME NullAssumption == None # Rejected

Delivers == {"turn/steer", "turn/start", "thread/archive"}

Mutations == Delivers \cup {"thread/resume"}

HasDeadline(c) == kind[c] = "wait"

Bug_LostIsUnapplied ==
  {"request-rejected", "bridge-closed", "input-unavailable", "transport-failure"}

CertainlyUnapplied == {"request-rejected", "bridge-closed", "input-unavailable"}

\* mutationFailure; the errors of the reads before the mutation and of the
\* resume are passed on as they are, without a word on the mutation.
MutationEnds(k, error) ==
  Ends(k, IF error.code \in CertainlyUnapplied THEN "unapplied" ELSE "uncertain")

\* #readRequest tries a read again once; a mutation is not repeated.
Retries(k, error) == error.retriable /\ ~ k.tried /\ k.step \notin Mutations \cup {"initialize"}

Fails(k, error) ==
  IF Retries(k, error) THEN [k EXCEPT !.at = "job", !.tried = TRUE]
  ELSE IF k.step \in Delivers THEN MutationEnds(k, error)
  ELSE Ends(k, "failed")

-----------------------------------------------------------------------------
(* The connection *)

Bug_ForgetsJoiners(c) == call[c].at = "answer"

Waiting(c) == call[c].at \in {"connection", "answer"}

\* What a child that is told to end may still do.
Orphaned ==
  IF left.lingers
  THEN {[call |-> c, step |-> wire[c].step, turn |-> call[c].turn, attempt |-> call[c].attempt] :
          c \in {d \in Calls : wire[d] # None /\ ~ wire[d].served
                                /\ wire[d].step \in Delivers}}
  ELSE {}

\* A request is rejected with the connection; one that was sent may be done all the same.
Loses(k, error) ==
  [Fails(k, error) EXCEPT !.cut =
     IF k.at = "answer" /\ k.step \in Delivers /\ error \in {Closed, NoInput, Rejected}
     THEN k.attempt ELSE @]

\* The child is dropped and told to end; fails has the error of each call that fails.
Cuts(fails) ==
  /\ call' = [c \in Calls |-> IF c \in DOMAIN fails THEN Loses(call[c], fails[c]) ELSE call[c]]
  /\ wire' = [c \in Calls |-> None]
  /\ orphans' = orphans \cup Orphaned

Drops(state, fails) ==
  /\ bridge' = [bridge EXCEPT !.link = "none", !.owner = None, !.state = state,
                              !.refused = @ \/ state = "incompatible"]
  /\ Cuts(fails)

\* #fail: every request is rejected.
Drop(error) ==
  Drops(IF error = TooOld THEN "incompatible" ELSE "unavailable",
        [c \in {d \in Calls : Waiting(d)} |-> error])

\* A call needs the connection: it is there, is being made, or is made now.  When not
\* even initialize can be written, #ready keeps its rejection: the bridge is stuck.
Requests(c) ==
  /\ call[c].at = "job"
  /\ LET k == call[c]
         refuses(error) == call' = [call EXCEPT ![c] = Fails(k, error)]
     IN  \/ /\ bridge.closed
            /\ refuses(Closed) /\ UNCHANGED <<bridge, left>>
         \/ /\ bridge.link = "ready" /\ k.step # "initialize"
            /\ call' = [call EXCEPT ![c].at = "write"]
            /\ UNCHANGED <<bridge, left>>
         \/ /\ bridge.link = "connecting"
            /\ call' = [call EXCEPT ![c].at = "connection"]
            /\ UNCHANGED <<bridge, left>>
         \/ /\ bridge.link = "stuck"
            /\ refuses(NoInput) /\ UNCHANGED <<bridge, left>>
         \/ /\ bridge.link = "none" /\ bridge.refused /\ ~ bridge.closed
            /\ refuses(TooOld) /\ UNCHANGED <<bridge, left>>
         \/ /\ bridge.link = "none" /\ ~ bridge.refused /\ ~ bridge.closed
            /\ bridge' = [bridge EXCEPT !.link = "connecting", !.state = "connecting", !.owner = c]
            /\ call' = [call EXCEPT ![c].at = "connection"]
            /\ UNCHANGED left
         \/ /\ bridge.link = "none" /\ ~ bridge.refused /\ ~ bridge.closed /\ Fault
            /\ bridge' = [bridge EXCEPT !.link = "stuck", !.state = "unavailable"]
            /\ refuses(NoInput)
  /\ UNCHANGED <<kind, wire, thread, orphans>>

\* The request is written, to the child there is now.  With no child, or one that takes
\* no input, #fail rejects this request and every other one.
Write(c) ==
  /\ call[c].at = "write"
  /\ \/ /\ bridge.link \in {"connecting", "ready"}
        /\ call' = [call EXCEPT ![c].at = "answer"]
        /\ wire' = [wire EXCEPT ![c] = [step |-> call[c].step, served |-> FALSE, said |-> None]]
        /\ UNCHANGED <<bridge, orphans, left>>
     \/ /\ IF bridge.link \in {"connecting", "ready"} THEN Fault ELSE UNCHANGED left
        /\ Drops("unavailable", [d \in {e \in Calls : Waiting(e)} \cup {c} |-> NoInput])
  /\ UNCHANGED <<kind, thread>>

\* The deadline of a wait has passed when it is to use the connection.  (One that has
\* to make it first is a call whose ConnectTimesOut comes at once.)
RequestsLate(c) ==
  /\ HasDeadline(c) /\ call[c].late
  /\ \/ call[c].at = "write"
     \/ call[c].at = "job" /\ bridge.link # "none"
  /\ call' = [call EXCEPT ![c] = Fails(@, TimedOut(FALSE))]
  /\ UNCHANGED <<kind, bridge, wire, thread, orphans, left>>

\* initialize is answered by a version that will do.
Connected ==
  /\ Quiet /\ bridge.link = "connecting"
  /\ bridge' = [bridge EXCEPT !.link = "ready", !.state = "ready", !.owner = None]
  /\ call' = [c \in Calls |->
       IF call[c].at # "connection" THEN call[c]
       ELSE IF call[c].step = "initialize" THEN Ends(call[c], "done")
       ELSE [call[c] EXCEPT !.at = "write"]]
  /\ UNCHANGED <<kind, wire, thread, orphans, left>>

\* initialize is answered by a version before the minimum, or refused; or the child is
\* initialized and takes no more input.
Refused ==
  /\ Quiet /\ bridge.link = "connecting" /\ Fault
  /\ \E error \in {TooOld, Rejected, NoInput} : Drop(error)
  /\ UNCHANGED <<kind, thread>>

\* The answer to initialize comes together with what is no message: the child is dropped
\* before the answer is looked at, and the one that connects does not know it.
ConnectsInVain ==
  /\ Quiet /\ bridge.link = "connecting" /\ Fault
  /\ \E error \in {NoInput, TooOld, Rejected} :
       /\ bridge' = [bridge EXCEPT !.link = "none", !.owner = None,
                                   !.state = IF error = NoInput THEN "ready" ELSE "unavailable"]
       /\ Cuts([c \in {d \in Calls : Waiting(d)} |->
                 IF call[c].at = "answer" THEN Lost ELSE error])
  /\ UNCHANGED <<kind, thread>>

\* initialize is not answered in time: the timer is that of the call that connects.
ConnectTimesOut ==
  /\ Quiet /\ bridge.link = "connecting"
  /\ Drop(TimedOut(~ HasDeadline(bridge.owner)))
  /\ UNCHANGED <<kind, thread, left>>

\* The child ends, or writes what is no message or too long a one.
Breaks ==
  /\ Quiet /\ bridge.link # "none" /\ Fault
  /\ Drop(Lost)
  /\ UNCHANGED <<kind, thread>>

\* beforeDeadline: a call that waits for the connection of another one gives up.
JoinTimesOut(c) ==
  /\ Quiet /\ call[c].at = "connection" /\ HasDeadline(c) /\ bridge.owner # c
  /\ call' = [call EXCEPT ![c] = Fails(@, TimedOut(FALSE))]
  /\ UNCHANGED <<kind, bridge, wire, thread, orphans, left>>

\* The timer of a request.  A read with a deadline goes alone; its answer finds no
\* one.  Any other request drops the connection.
AnswerTimesOut(c) ==
  /\ Quiet /\ call[c].at = "answer"
  /\ IF HasDeadline(c) /\ call[c].step \notin Mutations
     THEN /\ call' = [call EXCEPT ![c] = Fails(@, TimedOut(FALSE))]
          /\ wire' = [wire EXCEPT ![c] = None]
          /\ UNCHANGED <<bridge, orphans>>
     ELSE Drop(TimedOut(call[c].step \notin Mutations))
  /\ UNCHANGED <<kind, thread, left>>

\* close: the requests are rejected as certainly unapplied, the child is told to end.
Close ==
  /\ Quiet /\ ~ bridge.closed /\ Fault
  /\ bridge' = [bridge EXCEPT !.link = "none", !.owner = None, !.closed = TRUE, !.state = "idle"]
  /\ Cuts([c \in {d \in Calls : Waiting(d)} |-> Closed])
  /\ UNCHANGED <<kind, thread>>

-----------------------------------------------------------------------------
(* The calls *)

\* A call starts; a health probe connects only if nothing has been tried or all is lost.
FirstStep(c) ==
  CASE kind[c] \in {"read", "wait"} -> "thread/read"
    [] kind[c] = "probe" -> "initialize"
    [] kind[c] = "wake" -> "search"
    [] kind[c] = "archive" -> "thread/archive"

Begin(c) ==
  /\ Quiet /\ call[c].at = "idle" /\ kind[c] # "none"
  /\ call' = [call EXCEPT ![c] =
       IF kind[c] = "probe" /\ bridge.state \notin {"idle", "unavailable"}
       THEN Ends(@, "done")
       ELSE [Goes(@, FirstStep(c)) EXCEPT !.attempt = 1]]
  /\ UNCHANGED <<kind, bridge, wire, thread, orphans, left>>

\* The caller of a wake tries it again; once it was uncertain it asks for the search
\* to be complete.
Again(k) ==
  [Goes(k, "search") EXCEPT !.attempt = k.attempt + 1, !.end = None, !.turn = 0,
                            !.reconcile = k.reconcile \/ k.end = "uncertain"]

Repeat(c) ==
  /\ Quiet /\ kind[c] = "wake" /\ call[c].at = "ended" /\ call[c].end # "done"
  /\ call[c].attempt < MaxAttempts
  /\ call' = [call EXCEPT ![c] = Again(@)]
  /\ UNCHANGED <<kind, bridge, wire, thread, orphans, left>>

\* waitForThreads: what changed or asks for attention ends the wait, and so does its time.
WaitGoesOn(k, said) ==
  IF said.revision # k.seen \/ said.status = "systemError" \/ k.late THEN Ends(k, "done")
  ELSE [k EXCEPT !.at = "sleep"]

\* deliverParentWake after the search of the queen's turns for the message
Bug_ResendsUnlessFound(k, said) ==
  IF said.found THEN Ends(k, "done") ELSE Goes(k, "thread/read")

Searched(k, said) ==
  IF said.found THEN Ends(k, "done")
  ELSE IF k.reconcile /\ ~ said.complete THEN Ends(k, "uncertain")
  ELSE Goes(k, "thread/read")

\* ... after the queen's status: a busy queen is steered, one that is not loaded is
\* resumed once, an idle one gets a new turn, and otherwise the wake is put off.
StatusRead(k, said, again) ==
  CASE said.status = "active" /\ ~ again -> Goes(k, "active turn")
    [] said.status = "notLoaded" /\ ~ again -> Goes(k, "thread/resume")
    [] said.status = "idle" -> Goes(k, "turn/start")
    [] OTHER -> Ends(k, "deferred")

WakeGoesOn(k, said) ==
  CASE k.step = "search" -> Searched(k, said)
    [] k.step = "thread/read" -> StatusRead(k, said, FALSE)
    [] k.step = "active turn" ->
         IF said.turn = 0 THEN Ends(k, "deferred")
         ELSE Goes([k EXCEPT !.turn = said.turn], "turn/steer")
    [] k.step = "thread/resume" -> Goes(k, "thread/read again")
    [] k.step = "thread/read again" -> StatusRead(k, said, TRUE)
    [] k.step \in {"turn/steer", "turn/start"} -> Ends(k, "done")

GoesOn(c, said) ==
  CASE kind[c] = "wake" -> WakeGoesOn(call[c], said)
    [] kind[c] = "wait" -> WaitGoesOn(call[c], said)
    [] OTHER -> Ends(call[c], "done")

\* The answer of the child is read.
Answered(c) ==
  /\ Quiet /\ wire[c] # None /\ wire[c].served
  /\ call' = [call EXCEPT ![c] =
       IF wire[c].said = Rejected THEN Fails(@, Rejected) ELSE GoesOn(c, wire[c].said)]
  /\ wire' = [wire EXCEPT ![c] = None]
  /\ UNCHANGED <<kind, bridge, thread, orphans, left>>

\* The answer is not one that the call can use; resume and archive take any.
Garbled(c) ==
  /\ Quiet /\ wire[c] # None /\ wire[c].served /\ wire[c].said # Rejected /\ Fault
  /\ wire[c].step \notin {"thread/resume", "thread/archive"}
  /\ call' = [call EXCEPT ![c] = Fails(@, Invalid)]
  /\ wire' = [wire EXCEPT ![c] = None]
  /\ UNCHANGED <<kind, bridge, thread, orphans>>

WakeUp(c) ==
  /\ Quiet /\ call[c].at = "sleep"
  /\ call' = [call EXCEPT ![c] = Goes(@, "thread/read")]
  /\ UNCHANGED <<kind, bridge, wire, thread, orphans, left>>

\* The time of a wait is over.
Elapse(c) ==
  /\ HasDeadline(c) /\ call[c].at \notin {"idle", "ended"} /\ ~ call[c].late
  /\ call' = [call EXCEPT ![c].late = TRUE]
  /\ UNCHANGED <<kind, bridge, wire, thread, orphans, left>>

-----------------------------------------------------------------------------
(* The app server *)

Last == Len(thread.turns)

\* The newest turns first; a message is found by its client id.
Listed == {i \in DOMAIN thread.turns : i + Page > Last}

ActiveTurn == IF thread.status = "active" THEN Last ELSE 0

Said ==
  [status |-> thread.status, revision |-> thread.revision, turn |-> ActiveTurn]

Sought(c) ==
  [found |-> \E i \in Listed : \E x \in thread.turns[i] : x.call = c,
   complete |-> Last <= Page]

\* The message of an attempt; its client id is that of the call.
Message(m) == [call |-> m.call, attempt |-> m.attempt]

\* A turn of a queen's thread, with the messages it got.
NewTurn(by) ==
  [thread EXCEPT !.status = "active", !.turns = Append(@, by), !.revision = @ + 1]

Applied(m) ==
  CASE m.step = "turn/steer" -> [thread EXCEPT !.turns[m.turn] = @ \cup {Message(m)}]
    [] m.step = "turn/start" -> NewTurn({Message(m)})
    [] m.step = "thread/resume" -> [thread EXCEPT !.status = "idle", !.revision = @ + 1]
    [] m.step = "thread/archive" -> [thread EXCEPT !.archived = @ \cup {m.call}]

\* A steer names the turn it is for; a new turn and a resume need a queen at rest.
Applicable(m) ==
  CASE m.step = "turn/steer" -> ActiveTurn # 0 /\ ActiveTurn = m.turn
    [] m.step = "turn/start" -> thread.status = "idle"
    [] m.step = "thread/resume" -> thread.status = "notLoaded"
    [] m.step = "thread/archive" -> m.call \notin thread.archived

Says(c, said) == wire' = [wire EXCEPT ![c].served = TRUE, ![c].said = said]

Serve(c) ==
  /\ Quiet /\ wire[c] # None /\ ~ wire[c].served
  /\ LET m == [call |-> c, step |-> wire[c].step, turn |-> call[c].turn, attempt |-> call[c].attempt]
     IN  IF m.step \notin Mutations
         THEN Says(c, IF m.step = "search" THEN Sought(c) ELSE Said) /\ UNCHANGED thread
         ELSE IF Applicable(m)
         THEN Says(c, None) /\ thread' = Applied(m)
         ELSE Says(c, Rejected) /\ UNCHANGED thread
  /\ UNCHANGED <<kind, bridge, call, orphans, left>>

Reject(c) ==
  /\ Quiet /\ wire[c] # None /\ ~ wire[c].served /\ Fault
  /\ Says(c, Rejected)
  /\ UNCHANGED <<kind, bridge, call, thread, orphans>>

\* A child that was told to end does what it still holds.
Linger ==
  \E m \in orphans :
    /\ Quiet /\ orphans' = orphans \ {m}
    /\ thread' = IF Applicable(m) THEN Applied(m) ELSE thread
    /\ UNCHANGED <<kind, bridge, call, wire, left>>

\* The queen's thread goes on by itself.
StartTurn == thread.status = "idle" /\ thread' = NewTurn({})

EndTurn ==
  /\ thread.status = "active"
  /\ \E s \in {"idle", "systemError"} : thread' = [thread EXCEPT !.status = s, !.revision = @ + 1]

Unload ==
  /\ thread.status \in {"idle", "systemError"}
  /\ thread' = [thread EXCEPT !.status = "notLoaded", !.revision = @ + 1]

Thread ==
  /\ Quiet /\ Spend("move")
  /\ StartTurn \/ EndTurn \/ Unload
  /\ UNCHANGED <<kind, bridge, call, wire, orphans>>

-----------------------------------------------------------------------------
Job(c) == Requests(c) \/ RequestsLate(c) \/ Write(c)

Timer(c) == JoinTimesOut(c) \/ AnswerTimesOut(c) \/ WakeUp(c) \/ Elapse(c)

Next ==
  \/ \E c \in Calls :
       \/ Job(c) \/ Timer(c) \/ Begin(c) \/ Repeat(c) \/ Answered(c) \/ Garbled(c) \/ Serve(c) \/ Reject(c)
  \/ Connected \/ Refused \/ ConnectsInVain \/ ConnectTimesOut \/ Breaks \/ Close
  \/ Linger \/ Thread

\* The event loop runs its jobs and its timers; nothing is asked of the child.
Fairness ==
  /\ WF_vars(ConnectTimesOut)
  /\ \A c \in Calls :
       /\ WF_vars(Job(c)) /\ WF_vars(AnswerTimesOut(c))
       /\ WF_vars(WakeUp(c)) /\ WF_vars(Elapse(c))

Spec == Init /\ [][Next]_vars /\ Fairness

-----------------------------------------------------------------------------
TypeOK ==
  /\ bridge.link \in {"none", "connecting", "ready", "stuck"}
  /\ bridge.state \in {"idle", "connecting", "ready", "unavailable", "incompatible"}
  /\ (bridge.link = "connecting") = (bridge.owner # None)
  /\ \A c \in Calls :
       /\ call[c].at \in {"idle", "job", "write", "connection", "answer", "sleep", "ended"}
       /\ (wire[c] # None) = (call[c].at = "answer")

Got == UNION {thread.turns[i] : i \in DOMAIN thread.turns}

(* The message of a wake is in the queen's thread once at most, however the  *)
(* attempts end, if the caller asks for the reconciliation after an attempt  *)
(* that was uncertain, a child that was told to end does nothing more, and   *)
(* no attempt was sent and then rejected with the connection by an error     *)
(* that calls it unapplied (the exception of CertainIsUnapplied).            *)
WakeOnce ==
  ~ left.lingers =>
    \A i, j \in DOMAIN thread.turns :
      \A x \in thread.turns[i], y \in thread.turns[j] :
        x.call = y.call /\ call[x.call].cut = 0 => i = j /\ x = y

(* What deliverParentWake and archiveThread report without the word          *)
(* uncertain was not done and is not done later.  One exception, which is    *)
(* the code's: a request that was sent is rejected by #fail or close with    *)
(* an error of CERTAINLY_UNAPPLIED_MUTATION_CODES that belongs to the close, *)
(* to the write of another call or to initialize (cut).                      *)
CertainIsUnapplied ==
  \A c \in {d \in Calls : call[d].at = "ended" /\ call[d].cut # call[d].attempt} :
    call[c].end \in {"unapplied", "failed", "deferred"} =>
      IF kind[c] = "wake" THEN [call |-> c, attempt |-> call[c].attempt] \notin Got
      ELSE c \notin thread.archived

(* Every call comes to an end, whatever the child and the other calls do: no *)
(* request is left without a timer when a connection is dropped, and nobody  *)
(* waits for a connection that is not made any more.                         *)
CallsEnd == \A c \in Calls : [](call[c].at # "idle" => <>(call[c].at = "ended"))
=============================================================================
