----------------------------- MODULE Observation -----------------------------
(***************************************************************************)
(* The parent join: McpJoinAdapterV1.advance (src/src/mcp-observation.mjs) *)
(* with the pure reducer of orchestration-observation.mjs and its          *)
(* checkpoint, McpQueenDecisionAdapterV1.decide (mcp-queen-decision.mjs)   *)
(* with the acceptance store, and around them the queen that performs the  *)
(* effects and the native host that runs the members' turns.               *)
(*                                                                         *)
(* advance runs under the observation lock of its web, decide does not.    *)
(* Either can stop between two of its file operations; the queen can start *)
(* again without what it held, and hands in a receipt as often as it       *)
(* likes.  The wave, the spec revision and the binding generation of the   *)
(* members do not change here; cursors and host ids are left out, because  *)
(* the wait generation and the attempts tell the same waits apart.         *)
(***************************************************************************)
EXTENDS WorkUnitRecord, FiniteSets

CONSTANTS
  Units,        \* the work units of the wave; a unit's member has its name
  Required,     \* the units recorded as required
  Readable,     \* the units whose member can be read (read-result)
  Correctable,  \* the units whose member takes a follow-up
  Titled,       \* the units whose title is followed; it touches nothing else
  MaxAttempt,   \* policy.maxAttempts
  MaxTitleRetries, \* MAX_TITLE_RETRIES of the code
  MaxConsumed,  \* MAX_CONSUMED_OBSERVATION_RECEIPTS of the code
  Deciders,     \* calls of nelos_queen_decide that overlap
  Envelopes,    \* what a turn may end with
  Malformed,    \* an end without a valid result envelope
  MaxHeld,      \* bound: receipts the queen holds and has not handed in
  MaxUserTurns, \* bound: turns nobody in Nelos asked for
  MaxTimeouts,  \* bound: waits that return without news
  MaxLosses,    \* bound: failures of calls and queens together
  MaxRestarts   \* bound: queens that start again

Results == [attempt : 1 .. MaxAttempt, succeeded : BOOLEAN]

ASSUME ObservationAssumption ==
  /\ Units = Threads /\ Units # {} /\ IsFiniteSet(Units)
  /\ Required \subseteq Units /\ Readable \subseteq Units
  /\ Correctable \subseteq Units /\ Titled \subseteq Units
  /\ MaxAttempt \in Nat \ {0}
  /\ MaxTitleRetries \in Nat /\ MaxConsumed \in Nat \ {0}
  /\ Envelopes \subseteq Results \cup {Malformed}
  /\ None \notin Results \cup {Malformed}
  /\ MaxHeld \in Nat /\ MaxUserTurns \in Nat /\ MaxTimeouts \in Nat /\ MaxLosses \in Nat
  /\ MaxRestarts \in Nat

VARIABLES
  file,       \* the record of each unit
  checkpoint, \* the checkpoint of the web, or NoCheckpoint
  decisions,  \* the recorded queen decisions
  advance,    \* the advance call in the lock, or None
  decide,     \* each decide call: its decision and its place, or None
  answer,     \* the queen's last answer: boundary, effects, wait targets
  receipts,   \* the receipts the queen holds
  said,       \* what each ended turn of a member ended with
  lifecycle,  \* the member's native task: waiting for its launch, or a turn's
  asked,      \* corrections delivered to each member
  userTurns, timeouts, losses, restarts

host == <<said, lifecycle, asked, userTurns>>
queen == <<answer, receipts, timeouts, restarts>>
vars == <<file, checkpoint, decisions, advance, decide, queen, host, losses>>

Bound(u) == [state |-> "bound", member |-> u, action |-> CHOOSE a \in Actions : TRUE,
             generation |-> 1]

Recorded(u) ==
  [revision |-> 1, attempt |-> 1, maxAttempts |-> MaxAttempt,
   required |-> u \in Required, readable |-> u \in Readable,
   binding |-> Unbound, history |-> << >>]

\* There is no file, which is unlike every checkpoint.
NoCheckpoint == << >>

NoAnswer == [boundary |-> "none", effects |-> {}, targets |-> << >>]

Init ==
  /\ file = [u \in Units |-> Recorded(u)]
  /\ checkpoint = NoCheckpoint
  /\ decisions = {}
  /\ advance = None
  /\ decide = [d \in Deciders |-> None]
  /\ answer = NoAnswer
  /\ receipts = {}
  /\ said = [u \in Units |-> << >>]
  /\ lifecycle = [u \in Units |-> "unlaunched"]
  /\ asked = [u \in Units |-> 0]
  /\ userTurns = 0 /\ timeouts = 0 /\ losses = 0 /\ restarts = 0

-----------------------------------------------------------------------------
(* The checkpoint.  Turn 0 is the null turn id.                             *)

InitialMember(u, r) ==
  [attempt |-> r.attempt, required |-> r.required,
   title |-> IF u \in Titled THEN "pending" ELSE "verified", retry |-> 0,
   state |-> "unknown", latest |-> 0, alarm |-> FALSE,
   result |-> "absent", source |-> 0, envelope |-> None,
   coordination |-> IF r.required THEN "unjoined" ELSE "detached"]

Blank == [generation |-> 0, members |-> << >>, consumed |-> << >>]

SameBinding(member, r) == member.attempt = r.attempt

\* One member for each bound unit; evidence of another attempt is dropped.
Synthesize(cp, units) ==
  LET bound == {u \in Units : units[u].binding.state = "bound"}
  IN  [cp EXCEPT !.members =
         [u \in bound |->
            IF u \in DOMAIN cp.members /\ SameBinding(cp.members[u], units[u])
            THEN cp.members[u] ELSE InitialMember(u, units[u])]]

Stored == IF checkpoint = NoCheckpoint THEN Blank ELSE checkpoint

Bug_AnyVerdict(u, m, kind) ==
  /\ m.result = "current"
  /\ \E d \in decisions :
       d.unit = u /\ d.attempt = m.attempt /\ d.turn = m.source

Decided(u, m, kind) ==
  /\ m.result = "current"
  /\ [unit |-> u, attempt |-> m.attempt, turn |-> m.source, verdict |-> kind]
       \in decisions

CorrectionAvailable(u) ==
  u \in Correctable /\ file[u].attempt < file[u].maxAttempts

ApplyDecisions(u, m) ==
  IF Decided(u, m, "accepted") THEN [m EXCEPT !.coordination = "accepted"]
  ELSE IF ~ Decided(u, m, "rejected") THEN m
  ELSE IF CorrectionAvailable(u)
  THEN [m EXCEPT !.coordination = "correction-pending"]
  ELSE [m EXCEPT !.coordination = "collected", !.alarm = TRUE]

ApplyMalformedResultPolicy(u, m) ==
  IF m.result # "malformed" THEN m
  ELSE IF CorrectionAvailable(u) /\ m.source = m.latest
  THEN [m EXCEPT !.coordination = "correction-pending", !.alarm = FALSE]
  ELSE [m EXCEPT !.alarm = TRUE]

ApplyResultPolicies(cp) ==
  [cp EXCEPT !.members =
     [u \in DOMAIN @ |->
        ApplyMalformedResultPolicy(u, ApplyDecisions(u, @[u]))]]

-----------------------------------------------------------------------------
(* reduceObservationJoinV1: an effect is named by its action id.            *)

Active(cp) ==
  {u \in DOMAIN cp.members :
     cp.members[u].required /\ cp.members[u].coordination # "detached"}

Bug_WaitMembers(cp) ==
  {u \in Active(cp) :
     /\ cp.members[u].state \notin {"terminal", "attention", "waiting"}
     /\ cp.members[u].coordination \notin {"accepted", "correction-pending"}}

WaitMembers(cp) ==
  {u \in Active(cp) :
     /\ cp.members[u].state \notin {"terminal", "attention"}
     /\ cp.members[u].coordination \notin {"accepted", "correction-pending"}}

WaitTargets(cp) == [u \in WaitMembers(cp) |-> cp.members[u].attempt]

ReadMembers(cp) ==
  {u \in Active(cp) \cap Readable :
     /\ cp.members[u].state = "terminal" /\ cp.members[u].latest # 0
     /\ cp.members[u].coordination # "correction-pending"
     /\ cp.members[u].result # "current"}

CorrectionMembers(cp) ==
  {u \in Active(cp) \cap Correctable :
     /\ cp.members[u].coordination = "correction-pending"
     /\ cp.members[u].result \in {"current", "malformed"}
     /\ cp.members[u].source # 0 /\ cp.members[u].source = cp.members[u].latest}

ImpossibleMembers(cp) ==
  {u \in Active(cp) \ Readable : cp.members[u].state = "terminal"}

Effects(cp) ==
  LET member == cp.members
      For(kind, u, turn) == [type |-> kind, unit |-> u,
                             attempt |-> member[u].attempt, turn |-> turn]
  IN  {For("title", u, member[u].retry) :
         u \in {v \in DOMAIN member : member[v].title = "pending"}}
      \cup {[type |-> "wait", generation |-> cp.generation] :
              x \in {y \in {1} : WaitMembers(cp) # {}}}
      \cup {For("read", u, member[u].latest) : u \in ReadMembers(cp)}
      \cup {For("correct", u, member[u].source) : u \in CorrectionMembers(cp)}
      \cup {For("repair", u, 0) : u \in ImpossibleMembers(cp)}

HasAttention(cp) ==
  \E u \in Active(cp) :
    LET m == cp.members[u]
    IN  \/ m.title = "attention" \/ m.state = "attention" \/ m.alarm
        \/ m.result = "stale"
        \/ m.coordination = "correction-pending" /\ u \notin CorrectionMembers(cp)
        \/ m.result = "malformed" /\ m.coordination # "correction-pending"
        \/ m.result = "current" /\ ~ m.envelope.succeeded

Boundary(cp) ==
  IF ImpossibleMembers(cp) # {} THEN "action"
  ELSE IF HasAttention(cp) THEN "attention"
  ELSE IF CorrectionMembers(cp) # {} THEN "action"
  ELSE IF \A u \in Active(cp) : cp.members[u].coordination = "accepted"
  THEN "continue"
  ELSE IF \A u \in Active(cp) : cp.members[u].result = "current"
  THEN "decide"
  ELSE "waiting"

-----------------------------------------------------------------------------
(* applyObservationReceiptV1: the checkpoints a receipt leads to, none when *)
(* it is refused.  A receipt is an action id and what the host said.        *)

TitleObserved(m, title) ==
  IF title.matches THEN [m EXCEPT !.title = "verified"]
  ELSE IF m.retry < MaxTitleRetries THEN [m EXCEPT !.retry = @ + 1]
  ELSE [m EXCEPT !.title = "attention"]

Waited(m, target) ==
  LET moved == m.source # 0 /\ m.source # target.turn
  IN  [m EXCEPT
         !.latest = target.turn,
         !.alarm = target.lifecycle = "failed",
         !.state = CASE target.lifecycle = "failed" -> "attention"
                     [] target.lifecycle = "completed" -> "terminal"
                     [] OTHER -> "running",
         !.result = IF moved THEN "stale" ELSE @,
         !.coordination = IF moved \/ @ = "unjoined" THEN "waiting" ELSE @]

ResultRead(m, answered) ==
  IF answered.envelope = Malformed
  THEN [m EXCEPT !.result = "malformed", !.source = answered.source,
                 !.envelope = None, !.coordination = "waiting"]
  ELSE LET current == /\ answered.source = m.latest
                      /\ answered.envelope.attempt = m.attempt
       IN  [m EXCEPT !.result = IF current THEN "current" ELSE "stale",
                     !.source = answered.source,
                     !.envelope = answered.envelope,
                     !.coordination = IF current THEN "collected" ELSE "waiting"]

FollowedUp(m) ==
  [m EXCEPT !.attempt = @ + 1, !.state = "waiting", !.alarm = FALSE,
            !.result = "absent", !.source = 0, !.envelope = None,
            !.coordination = "waiting"]

Repaired(m) ==
  [m EXCEPT !.required = FALSE, !.coordination = "detached", !.alarm = FALSE]

Observed(cp, r) ==
  IF r.action.type = "wait"
  THEN [u \in DOMAIN cp.members |->
          IF u \in DOMAIN r.said.targets
          THEN Waited(cp.members[u], r.said.targets[u]) ELSE cp.members[u]]
  ELSE [cp.members EXCEPT ![r.action.unit] =
          CASE r.action.type = "title" -> TitleObserved(@, r.said)
            [] r.action.type = "read" -> ResultRead(@, r.said)
            [] r.action.type = "correct" -> FollowedUp(@)
            [] r.action.type = "repair" -> Repaired(@)]

Newest(s) == SubSeq(s, IF Len(s) > MaxConsumed THEN 2 ELSE 1, Len(s))

ConsumedIn(cp, action) ==
  {cp.consumed[i] : i \in {j \in 1 .. Len(cp.consumed) :
                             cp.consumed[j].action = action}}

\* The receipt answers an effect of this very checkpoint.
Expected(cp, r) ==
  /\ r.action \in Effects(cp)
  /\ r.action.type = "wait" =>
       [u \in DOMAIN r.said.targets |-> r.said.targets[u].attempt] = WaitTargets(cp)

ApplyReceipt(cp, r) ==
  IF ConsumedIn(cp, r.action) # {}
  THEN {x \in {cp} : r \in ConsumedIn(cp, r.action)}
  ELSE IF ~ Expected(cp, r) THEN {}
  ELSE {[generation |-> cp.generation + IF r.action.type = "wait" THEN 1 ELSE 0,
         members |-> Observed(cp, r),
         consumed |-> Newest(Append(cp.consumed, r))]}

-----------------------------------------------------------------------------
(* advance(): the reads, the execution store, the checkpoint.  A refused    *)
(* receipt changes no file.                                                 *)

StoresFirst(r) == r # None /\ r.action.type \in {"correct", "repair"}

\* The checkpoint as computed from the first reads.
Proposed(r) ==
  IF StoresFirst(r)
  THEN {cp \in {Stored} : checkpoint # NoCheckpoint}
  ELSE {Synthesize(Stored, file)}

Computed(r) ==
  UNION {IF r = None THEN {ApplyResultPolicies(cp)}
         ELSE IF StoresFirst(r) THEN ApplyReceipt(ApplyResultPolicies(cp), r)
         ELSE {[cp2 EXCEPT !.members =
                  [u \in DOMAIN @ |-> ApplyMalformedResultPolicy(u, @[u])]] :
                 cp2 \in ApplyReceipt(ApplyResultPolicies(cp), r)}
         : cp \in Proposed(r)}

Bug_CheckpointFirst(r) == "write"

FirstWrite(r) == IF StoresFirst(r) THEN "store" ELSE "write"

Admitted(r) ==
  /\ Computed(r) # {}
  /\ StoresFirst(r) /\ r.action.type = "correct" =>
       file[r.action.unit].attempt \in {r.action.attempt, r.action.attempt + 1}

\* Only launches and decisions happen between the reads, and neither changes
\* what the other read returns, so they are one step.
BeginAdvance(r) ==
  /\ advance = None
  /\ Admitted(r)
  /\ \E cp \in Computed(r) :
       advance' = [action |-> IF StoresFirst(r) THEN r.action ELSE None,
                   next |-> cp, at |-> FirstWrite(r),
                   unbound |-> \E u \in Units :
                     file[u].required /\ file[u].binding.state # "bound"]
  /\ UNCHANGED <<file, checkpoint, decisions, decide, queen, host, losses>>

\* What the queen holds and Nelos has not consumed.
Held == {r \in receipts : ConsumedIn(Stored, r.action) = {}}

\* The error tells the queen that it works from an old answer: it drops the
\* receipt and asks again before it performs anything.
Refuse ==
  /\ advance = None
  /\ \E r \in Held : ~ Admitted(r) /\ receipts' = receipts \ {r}
  /\ answer' = NoAnswer
  /\ UNCHANGED <<file, checkpoint, decisions, advance, decide, timeouts, restarts,
                 host, losses>>

Bug_AdvancesAgain(action) ==
  AdvanceAttempt(file[action.unit], 1, file[action.unit].attempt)

\* The attempt advances once: a receipt whose attempt has passed changes nothing.
StoredRecord(action) ==
  LET r == file[action.unit]
  IN  IF action.type = "repair"
      THEN DetachImpossibleRequiredMember(r, 1, action.attempt, action.unit)
      ELSE IF r.attempt = action.attempt THEN AdvanceAttempt(r, 1, action.attempt)
      ELSE {r}

\* The unit is written, the records are read again.
Store ==
  /\ advance # None
  /\ advance.at = "store"
  /\ IF StoredRecord(advance.action) = {}
     THEN advance' = None /\ UNCHANGED file
     ELSE \E r \in StoredRecord(advance.action) :
            /\ file' = [file EXCEPT ![advance.action.unit] = r]
            /\ advance' = [advance EXCEPT !.at = "write",
                                          !.next = Synthesize(@, file')]
  /\ UNCHANGED <<checkpoint, decisions, decide, queen, host, losses>>

Bug_Answer(cp, unbound) ==
  [boundary |-> Boundary(cp), effects |-> Effects(cp), targets |-> WaitTargets(cp)]

Answer(cp, unbound) ==
  [boundary |-> IF unbound /\ Boundary(cp) \in {"decide", "continue"}
                THEN "waiting" ELSE Boundary(cp),
   effects |-> Effects(cp), targets |-> WaitTargets(cp)]

WriteCheckpoint ==
  /\ advance # None
  /\ advance.at = "write"
  /\ checkpoint' = advance.next
  /\ answer' = Answer(advance.next, advance.unbound)
  /\ advance' = None
  /\ UNCHANGED <<file, decisions, decide, receipts, timeouts, restarts, host, losses>>

-----------------------------------------------------------------------------
(* decide() *)

\* requirePersistedCurrentResult
CurrentResult(r) ==
  /\ checkpoint # NoCheckpoint
  /\ r \in ConsumedIn(checkpoint, r.action)
  /\ r.action.unit \in DOMAIN checkpoint.members
  /\ LET m == checkpoint.members[r.action.unit]
     IN  /\ m.attempt = r.action.attempt
         /\ m.state = "terminal" /\ m.latest = r.said.source
         /\ m.result = "current" /\ m.source = r.said.source

DecisionOf(r, verdict) ==
  [unit |-> r.action.unit, attempt |-> r.action.attempt, turn |-> r.said.source,
   verdict |-> verdict]

SameDecisionId(x, y) ==
  x.unit = y.unit /\ x.attempt = y.attempt /\ x.turn = y.turn

Fresh(new) == \A x \in decisions : ~ SameDecisionId(x, new)

\* matchesCurrentWorkUnit and the checkpoint.  A refusal changes nothing and is
\* no step, nor is the replay of a decision that is recorded.
BeginDecide(d) ==
  /\ decide[d] = None
  /\ \E r \in receipts, verdict \in {"accepted", "rejected"} :
       /\ r.action.type = "read"
       /\ file[r.action.unit].attempt = r.action.attempt
       /\ r.said.source = r.action.turn
       /\ CurrentResult(r)
       /\ Fresh(DecisionOf(r, verdict))
       \* createQueenAcceptanceV1: only a success is accepted.
       /\ verdict = "accepted" => r.said.envelope.succeeded
       /\ decide' = [decide EXCEPT ![d] =
                       [new |-> DecisionOf(r, verdict), at |-> "latest"]]
  /\ UNCHANGED <<file, checkpoint, decisions, advance, queen, host, losses>>

Latest(u) == Len(said[u]) + IF lifecycle[u] = "running" THEN 1 ELSE 0

\* The host is asked for the latest turn, which must be the decided one.
CheckLatest(d) ==
  /\ decide[d] # None
  /\ decide[d].at = "latest"
  /\ LET new == decide[d].new
     IN  decide' = [decide EXCEPT ![d] =
           IF Latest(new.unit) = new.turn /\ lifecycle[new.unit] = "completed"
           THEN [@ EXCEPT !.at = "record"] ELSE None]
  /\ UNCHANGED <<file, checkpoint, decisions, advance, queen, host, losses>>

Bug_LastDecisionWins(new) ==
  {x \in decisions : ~ SameDecisionId(x, new)} \cup {new}

\* A decision id keeps its first decision: the second is a replay or refused.
Decisions(new) ==
  IF Fresh(new) THEN decisions \cup {new} ELSE decisions

Record(d) ==
  /\ decide[d] # None
  /\ decide[d].at = "record"
  /\ decisions' = Decisions(decide[d].new)
  /\ decide' = [decide EXCEPT ![d] = None]
  /\ UNCHANGED <<file, checkpoint, advance, queen, host, losses>>

-----------------------------------------------------------------------------
(* The queen performs effects; the host runs turns.                         *)

Snapshot(u) == [attempt |-> answer.targets[u], lifecycle |-> lifecycle[u],
                turn |-> Latest(u)]

News(u) ==
  LET m == checkpoint.members[u]
  IN  m.latest # Latest(u) \/ (m.state = "running") # (lifecycle[u] = "running")

Receive(action, what) ==
  /\ \A r \in receipts : r.action # action
  /\ Cardinality(Held) < MaxHeld
  /\ receipts' = receipts \cup {[action |-> action, said |-> what]}
  /\ UNCHANGED <<file, checkpoint, decisions, advance, decide, answer, restarts, losses>>

ReadTitle ==
  \E e \in answer.effects, matches \in BOOLEAN :
    /\ e.type = "title"
    /\ Receive(e, [matches |-> matches])
    /\ UNCHANGED <<host, timeouts>>

\* The wait returns with news of a target, or without any in the end.
Wait ==
  \E e \in answer.effects :
    /\ e.type = "wait"
    /\ Receive(e, [targets |-> [u \in DOMAIN answer.targets |-> Snapshot(u)]])
    /\ IF \E u \in DOMAIN answer.targets \cap DOMAIN checkpoint.members : News(u)
       THEN UNCHANGED timeouts
       ELSE timeouts < MaxTimeouts /\ timeouts' = timeouts + 1
    /\ UNCHANGED host

\* The host reads the turn it was asked for, or the last one by now.
ReadResult ==
  \E e \in answer.effects :
    /\ e.type = "read"
    /\ \E turn \in {e.turn, Len(said[e.unit])} :
         Receive(e, [source |-> turn, envelope |-> said[e.unit][turn]])
    /\ UNCHANGED <<host, timeouts>>

DeliverFollowUp ==
  \E e \in answer.effects :
    /\ e.type = "correct"
    /\ lifecycle[e.unit] # "running"
    /\ Receive(e, None)
    /\ lifecycle' = [lifecycle EXCEPT ![e.unit] = "running"]
    /\ asked' = [asked EXCEPT ![e.unit] = @ + 1]
    /\ UNCHANGED <<said, userTurns, timeouts>>

AcceptRepair ==
  \E e \in answer.effects :
    /\ e.type = "repair"
    /\ Receive(e, None)
    /\ UNCHANGED <<host, timeouts>>

Elsewhere == <<checkpoint, decisions, advance, decide, queen, losses>>

\* The launch binds the unit; its task is in its first turn.
Launched(u) ==
  /\ lifecycle[u] = "unlaunched"
  /\ lifecycle' = [lifecycle EXCEPT ![u] = "running"]
  /\ file' = [file EXCEPT ![u].binding = Bound(u)]
  /\ UNCHANGED <<said, asked, userTurns, Elsewhere>>

EndTurn(u) ==
  /\ lifecycle[u] = "running"
  /\ \/ /\ lifecycle' = [lifecycle EXCEPT ![u] = "completed"]
        /\ \E e \in Envelopes : said' = [said EXCEPT ![u] = Append(@, e)]
     \/ /\ lifecycle' = [lifecycle EXCEPT ![u] = "failed"]
        /\ said' = [said EXCEPT ![u] = Append(@, Malformed)]
  /\ UNCHANGED <<file, asked, userTurns, Elsewhere>>

\* Somebody writes to the task.
UserTurn(u) ==
  /\ lifecycle[u] \in {"completed", "failed"}
  /\ userTurns < MaxUserTurns
  /\ userTurns' = userTurns + 1
  /\ lifecycle' = [lifecycle EXCEPT ![u] = "running"]
  /\ UNCHANGED <<file, said, asked, Elsewhere>>

-----------------------------------------------------------------------------
(* Failures *)

Lose == losses < MaxLosses /\ losses' = losses + 1

AdvanceLost ==
  /\ advance # None
  /\ Lose
  /\ advance' = None
  /\ UNCHANGED <<file, checkpoint, decisions, decide, queen, host>>

DecideLost(d) ==
  /\ decide[d] # None
  /\ Lose
  /\ decide' = [decide EXCEPT ![d] = None]
  /\ UNCHANGED <<file, checkpoint, decisions, advance, queen, host>>

\* A later queen turn knows what Nelos tells it.
QueenLost ==
  /\ restarts < MaxRestarts
  /\ restarts' = restarts + 1
  /\ Lose
  /\ answer' = NoAnswer
  /\ receipts' = {}
  /\ UNCHANGED <<file, checkpoint, decisions, advance, decide, timeouts, host>>

-----------------------------------------------------------------------------
Perform == ReadTitle \/ Wait \/ ReadResult \/ DeliverFollowUp \/ AcceptRepair

Next ==
  \/ \E r \in receipts \cup {None} : BeginAdvance(r)
  \/ Refuse \/ Store \/ WriteCheckpoint
  \/ \E d \in Deciders :
       BeginDecide(d) \/ CheckLatest(d) \/ Record(d) \/ DecideLost(d)
  \/ Perform
  \/ \E u \in Units : Launched(u) \/ EndTurn(u) \/ UserTurn(u)
  \/ AdvanceLost \/ QueenLost

\* A receipt that Nelos has not seen.
Submit == \E r \in Held : BeginAdvance(r)

(***************************************************************************)
(* The queen stays in its join loop (task-orchestration.md, "Queen Join    *)
(* Loop"): it asks, performs what it is given, hands in what it learned    *)
(* and decides.  Its requests compete for the lock with its replays, hence *)
(* the strong fairness.  Turns end; nothing makes anybody write to a task. *)
(***************************************************************************)
Fairness ==
  /\ WF_vars(Store) /\ WF_vars(WriteCheckpoint)
  /\ SF_vars(BeginAdvance(None)) /\ SF_vars(Submit) /\ SF_vars(Refuse)
  /\ WF_vars(Perform)
  /\ \A d \in Deciders :
       SF_vars(BeginDecide(d)) /\ WF_vars(CheckLatest(d) \/ Record(d))
  /\ \A u \in Units : WF_vars(Launched(u)) /\ WF_vars(EndTurn(u))

Spec == Init /\ [][Next]_vars /\ Fairness

-----------------------------------------------------------------------------
(* Types of the files, of the calls in progress and of the host.           *)
Members ==
  [attempt : 1 .. MaxAttempt, required : BOOLEAN,
   title : {"pending", "verified", "attention"}, retry : 0 .. MaxTitleRetries,
   state : {"unknown", "waiting", "running", "terminal", "attention"},
   latest : Nat, alarm : BOOLEAN,
   result : {"absent", "current", "stale", "malformed"},
   source : Nat, envelope : Results \cup {None},
   coordination : {"unjoined", "waiting", "collected", "correction-pending",
                   "accepted", "detached"}]

Checkpoint(cp) ==
  /\ DOMAIN cp = {"generation", "members", "consumed"}
  /\ DOMAIN cp.members \subseteq Units
  /\ \A u \in DOMAIN cp.members : cp.members[u] \in Members
  /\ \A i, j \in 1 .. Len(cp.consumed) :
       cp.consumed[i].action = cp.consumed[j].action => i = j

TypeOK ==
  /\ \A u \in Units : ValidRecord(file[u])
  /\ checkpoint = NoCheckpoint \/ Checkpoint(checkpoint)
  /\ advance = None \/ Checkpoint(advance.next)
  /\ decisions \subseteq [unit : Units, attempt : 1 .. MaxAttempt, turn : Nat \ {0},
                          verdict : {"accepted", "rejected"}]
  /\ \A u \in Units :
       /\ said[u] \in Seq(Envelopes \cup {Malformed})
       /\ lifecycle[u] \in {"unlaunched", "running", "completed", "failed"}

(* A member the checkpoint calls accepted has a current, succeeded result,  *)
(* and the queen accepted exactly that: this attempt and this turn.         *)
AcceptedIsDecided ==
  checkpoint # NoCheckpoint =>
    \A u \in DOMAIN checkpoint.members :
      LET m == checkpoint.members[u]
      IN  m.coordination = "accepted" =>
            /\ m.state = "terminal" /\ m.result = "current"
            /\ m.envelope.succeeded /\ m.envelope.attempt = m.attempt
            /\ said[u][m.source] = m.envelope
            /\ [unit |-> u, attempt |-> m.attempt, turn |-> m.source,
                verdict |-> "accepted"] \in decisions

(* An acceptance is the last word: no concurrent decision, replay or crash  *)
(* sends the accepted attempt back for a correction.                        *)
AcceptedStands ==
  \A d \in decisions :
    d.verdict = "accepted" => file[d.unit].attempt = d.attempt

(* The checkpoint follows the execution record and never runs ahead of it:  *)
(* the unit is written first, so a crash between the two writes leaves a    *)
(* checkpoint that the next advance recognizes as old.                      *)
CheckpointNotAhead ==
  checkpoint # NoCheckpoint =>
    \A u \in DOMAIN checkpoint.members :
      /\ checkpoint.members[u].attempt <= file[u].attempt
      /\ file[u].required => checkpoint.members[u].required

(* An attempt is spent only on a correction that was delivered, and once:   *)
(* neither a replayed receipt nor one whose first advance was lost spends   *)
(* a second one.                                                            *)
AttemptsWereDelivered ==
  \A u \in Units : file[u].attempt <= 1 + asked[u]

(* What tells the queen to go on (or to judge) has all of the wave behind   *)
(* it: every required unit is bound, and for continue it is accepted at the *)
(* attempt the execution record is at now.                                  *)
ContinueIsEarned ==
  \A u \in Units :
    file[u].required =>
      /\ answer.boundary \in {"decide", "continue"} =>
           file[u].binding.state = "bound"
      /\ answer.boundary = "continue" =>
           \E d \in decisions :
             d.unit = u /\ d.attempt = file[u].attempt /\ d.verdict = "accepted"

(* The join comes to an end: unless somebody writes to a finished task or   *)
(* the queen forgets what it read, and whatever process or answer is lost,  *)
(* it settles on continue, or on attention when the evidence needs a human. *)
JoinSettles ==
  [](userTurns = 0 /\ restarts = 0) =>
    <>[](checkpoint # NoCheckpoint /\ Boundary(checkpoint) \in {"continue", "attention"})

(* "Member result is stale: reject for acceptance and wait/read the current *)
(* turn" (docs/task-orchestration.md:322): some effect still observes it.   *)
StaleIsObservedAgain ==
  checkpoint # NoCheckpoint =>
    \A u \in Active(checkpoint) :
      checkpoint.members[u].result = "stale" =>
        \/ u \in WaitMembers(checkpoint)
        \/ \E e \in Effects(checkpoint) :
             e.type = "read" /\ e.unit = u /\ ConsumedIn(checkpoint, e) = {}
=============================================================================
