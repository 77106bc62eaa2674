---------------------------- MODULE SpinoffRecord ----------------------------
(***************************************************************************)
(* The durable record of one finished spin-off (src/src/spinoff-           *)
(* lifecycle.mjs): the wake of its queen and the cleanup of its task.      *)
(***************************************************************************)
CONSTANTS
  Policies,  \* SPINOFF_CLEANUP_POLICIES
  Contents,  \* outcome and summary of a completion
  Scopes,    \* what an archive action id is scoped to: the web or a wave
  None

ASSUME PoliciesAssumption ==
  /\ Policies \subseteq {"auto", "ask", "keep"} /\ None \notin Policies
  /\ None \notin Scopes

Lives ==
  [content : Contents,
   wake : {"pending", "delivering", "delivered", "attention"},
   cleanup : {"pending", "kept", "archiving", "archived", "attention"},
   policy : Policies \cup {None}, action : Scopes \cup {None}]

ASSUME LivesAssumption == None \notin Lives

\* validateRecord: an archive action exactly while or after archiving.
ValidLife(r) ==
  /\ r \in Lives
  /\ r.cleanup \in {"archiving", "archived"} <=> r.action # None

InitialRecord(content) ==
  [content |-> content, wake |-> "pending", cleanup |-> "pending",
   policy |-> None, action |-> None]

Settled(r) == r # None /\ r.cleanup \in {"archived", "kept"}

-----------------------------------------------------------------------------
(* complete(), under the queen's lock: [record, send] of each way out, none *)
(* when it throws.                                                         *)

Bug_ResendsInFlight(r, content, receipt) ==
  LET now == IF r = None THEN InitialRecord(content) ELSE r
  IN  IF now.content # content THEN {}
      ELSE IF now.wake \in {"delivered", "attention"}
           THEN {[record |-> now, send |-> FALSE]}
      ELSE IF receipt
           THEN {[record |-> [now EXCEPT !.wake = "delivered"], send |-> FALSE]}
      ELSE {[record |-> [now EXCEPT !.wake = "delivering"], send |-> TRUE]}

Complete(r, content, receipt) ==
  LET now == IF r = None THEN InitialRecord(content) ELSE r
  IN  IF now.content # content THEN {}
      ELSE IF now.wake \in {"delivered", "attention"}
           THEN {[record |-> now, send |-> FALSE]}
      ELSE IF receipt /\ now.wake = "delivering"
           THEN {[record |-> [now EXCEPT !.wake = "delivered"], send |-> FALSE]}
      ELSE IF receipt  \* the initial record is written before the throw
           THEN {[record |-> now, send |-> FALSE]}
      ELSE {[record |-> [now EXCEPT !.wake = "delivering"],
             send |-> now.wake = "pending"]}

-----------------------------------------------------------------------------
(* cleanup(), first lock section: one policy for all candidates.           *)

PoliciesOf(records) == {r.policy : r \in records \ {None}} \ {None}

\* The policies it can settle on: none when the active ones conflict.
SnapshotPolicy(records, requested) ==
  LET active == PoliciesOf({r \in records : ~ Settled(r)})
      terminal == PoliciesOf({r \in records : Settled(r)})
  IN  IF active # {} THEN {p \in active : active = {p}}
      ELSE IF \E p \in terminal : terminal = {p} THEN terminal
      ELSE {requested}

WithPolicy(r, content, policy) ==
  IF Settled(r) THEN r
  ELSE IF r = None THEN [InitialRecord(content) EXCEPT !.policy = policy]
  ELSE IF r.policy = None THEN [r EXCEPT !.policy = policy]
  ELSE r

-----------------------------------------------------------------------------
(* cleanup(), the lock section of one candidate: what it leaves behind, the *)
(* state it reports and whether it returns the archive effect.             *)

Outcome(record, state, archive) ==
  [record |-> record, state |-> state, archive |-> archive]

Archived(r) == [r EXCEPT !.cleanup = "archived"]

\* receipt is the action id of an archive receipt, or None.
Settle(r, content, policy, scope, receipt) ==
  LET now == IF r = None THEN InitialRecord(content) ELSE r
      failed == Outcome(now, "attention", FALSE)
  IN  CASE now.cleanup = "archived" ->
             IF receipt \in {None, now.action} THEN Outcome(now, "archived", FALSE)
             ELSE failed
        [] now.cleanup = "kept" -> Outcome(now, "kept", FALSE)
        [] now.cleanup = "attention" -> failed
        [] now.cleanup \in {"pending", "archiving"} /\ now.policy \notin {None, policy} ->
             failed
        [] now.cleanup = "archiving" /\ now.policy \in {None, policy} ->
             IF receipt = None THEN Outcome(now, "archiving", FALSE)
             ELSE IF receipt = now.action
             THEN Outcome(Archived(now), "archived", FALSE)
             ELSE failed
        [] now.cleanup = "pending" /\ now.policy \in {None, policy} ->
             IF receipt # None THEN failed
             ELSE IF policy = "keep"
             THEN Outcome([now EXCEPT !.cleanup = "kept", !.policy = policy],
                          "kept", FALSE)
             ELSE Outcome([now EXCEPT !.cleanup = "archiving", !.policy = policy,
                                      !.action = scope], "archiving", TRUE)
=============================================================================
