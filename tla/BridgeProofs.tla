----------------------------- MODULE BridgeProofs -----------------------------
(***************************************************************************)
(* The bridge for any number of calls of any kind, attempts, faults and    *)
(* turns: what is reported as certainly unapplied is not applied, and the  *)
(* message of a wake is delivered once.                                    *)
(***************************************************************************)
EXTENDS Bridge, TLAPS

Messages == [call : Calls, attempt : Nat]

Fields == {"at", "step", "tried", "seen", "late", "turn", "attempt",
           "reconcile", "end", "cut"}

StepsOf(k) ==
  IF k = "wake"
  THEN {"search", "thread/read", "active turn", "thread/resume",
        "thread/read again", "turn/steer", "turn/start"}
  ELSE IF k = "archive" THEN {"thread/archive"}
  ELSE {"thread/read", "initialize"}

Shaped ==
  /\ kind \in [Calls -> Kinds]
  /\ DOMAIN call = Calls /\ DOMAIN wire = Calls
  /\ DOMAIN bridge = {"link", "state", "owner", "closed", "refused"}
  /\ DOMAIN left = {"fault", "move", "lingers"}
  /\ DOMAIN thread = {"status", "turns", "archived", "revision"}

\* A call at a request, and the request that the child has of it.
CallInv(c) ==
  /\ DOMAIN call[c] = Fields
  /\ call[c].attempt \in Nat /\ call[c].cut \in Nat
  /\ call[c].at = "idle" => call[c].attempt = 0
  /\ call[c].at \notin {"idle", "ended"} => call[c].attempt >= 1
  /\ kind[c] # "wake" => call[c].attempt <= 1
  /\ call[c].at = "sleep" => kind[c] = "wait"
  /\ call[c].at \in {"job", "write", "connection", "answer"} => call[c].step \in StepsOf(kind[c])
  /\ wire[c] # None => call[c].at = "answer"
  /\ call[c].at = "answer" =>
       DOMAIN wire[c] = {"step", "served", "said"} /\ wire[c].step = call[c].step

\* What was delivered, or still may be, is of an attempt that was begun.
ThreadInv ==
  /\ thread.turns \in Seq(SUBSET Messages)
  /\ \A x \in Got : x.attempt >= 1 /\ x.attempt <= call[x.call].attempt
  /\ thread.archived \subseteq Calls
  /\ \A c \in thread.archived : call[c].attempt >= 1
  /\ \A m \in orphans :
       /\ m.call \in Calls /\ m.step \in Delivers \cap StepsOf(kind[m.call])
       /\ m.attempt \in Nat
       /\ m.attempt >= 1 /\ m.attempt <= call[m.call].attempt
  /\ left.lingers \/ orphans = {}

Done(c) ==
  IF kind[c] = "wake" THEN [call |-> c, attempt |-> call[c].attempt] \in Got
  ELSE c \in thread.archived

\* This attempt is done or may be done yet by a child that was dropped.
Sent(c) ==
  Done(c) \/ \E m \in orphans : m.call = c /\ m.attempt = call[c].attempt

InFlight(c) ==
  /\ call[c].at = "answer" /\ wire[c].served /\ wire[c].said # Rejected
  /\ call[c].step \in Delivers

\* The attempt ended in doubt or as done, or it was cut.
Settled(c) ==
  /\ call[c].at = "ended"
  /\ \/ call[c].end \in {"uncertain", "done"}
     \/ call[c].cut = call[c].attempt /\ call[c].cut # 0

CertainInv == \A c \in Calls : Sent(c) => InFlight(c) \/ Settled(c)

\* Some attempt of the wake was delivered.
Delivered(c) == \E x \in Got : x.call = c

\* It will be found.
Searching(c) ==
  /\ call[c].reconcile /\ call[c].at \in {"job", "write", "connection", "answer"}
  /\ call[c].step = "search"
  /\ call[c].at = "answer" /\ wire[c].served /\ wire[c].said # Rejected =>
       (wire[c].said.complete => wire[c].said.found)

Excused(c) ==
  \/ InFlight(c) \/ Settled(c) \/ Searching(c) \/ call[c].cut # 0
  \/ call[c].at = "ended" /\ call[c].reconcile

OnceInv ==
  /\ WakeOnce
  /\ left.lingers \/ \A c \in Calls : Delivered(c) => Excused(c)

IInv ==
  /\ Shaped /\ \A c \in Calls : CallInv(c)
  /\ ThreadInv /\ CertainInv /\ OnceInv

-----------------------------------------------------------------------------
(* What the code makes of a call                                           *)

\* What no step of a call but a repetition changes, and what only a cut does.
Kept(f, k) ==
  /\ DOMAIN f = Fields /\ f.attempt = k.attempt /\ f.reconcile = k.reconcile
  /\ f.cut = k.cut \/ (f.cut = k.attempt /\ k.at = "answer")

Errors == {Lost, Rejected, Closed, NoInput, Invalid, TooOld, TimedOut(TRUE), TimedOut(FALSE)}

Failed(f, k, error) ==
  /\ Kept(f, k)
  /\ \/ /\ f.at = "job" /\ f.step = k.step
        /\ k.step \notin Mutations \cup {"initialize"}
     \/ /\ f.at = "ended" /\ f.end = "failed" /\ k.step \notin Delivers
     \/ /\ f.at = "ended" /\ k.step \in Delivers
        /\ f.end = IF error.code \in CertainlyUnapplied THEN "unapplied"
                   ELSE "uncertain"

LEMMA FailsIs ==
  ASSUME NEW k, DOMAIN k = Fields, NEW error
  PROVE  Failed(Fails(k, error), k, error)
BY DEF Failed, Kept, Fails, Fields, Ends, MutationEnds, Retries, Delivers, Mutations

\* A mutation that was sent and is called unapplied by the error of another is cut.
LEMMA LosesIs ==
  ASSUME NEW k, DOMAIN k = Fields, NEW error \in Errors
  PROVE  /\ Failed(Loses(k, error), k, error)
         /\ k.at = "answer" /\ k.step \in Delivers /\ error.code \in CertainlyUnapplied =>
              Loses(k, error).cut = k.attempt
<1> DEFINE f == Fails(k, error)
<1>1. Failed(f, k, error) /\ f.cut = k.cut
  BY FailsIs DEF Fails, Fields, Ends, MutationEnds
<1>2. error.code \in CertainlyUnapplied => error \in {Closed, NoInput, Rejected}
  BY DEF Errors, CertainlyUnapplied, Error, Lost, Rejected, Closed, NoInput, Invalid, TooOld, TimedOut
<1> DEFINE lost == k.at = "answer" /\ k.step \in Delivers /\ error \in {Closed, NoInput, Rejected}
<1>3. Loses(k, error) = [f EXCEPT !.cut = IF lost THEN k.attempt ELSE f.cut]
  BY DEF Loses
<1>4. lost => k.at = "answer"
  OBVIOUS
<1>5. k.at = "answer" /\ k.step \in Delivers /\ error.code \in CertainlyUnapplied => lost
  BY <1>2
<1> HIDE DEF f, lost
<1>6. /\ DOMAIN Loses(k, error) = DOMAIN f
      /\ DOMAIN f = Fields =>
           /\ Loses(k, error).cut = (IF lost THEN k.attempt ELSE f.cut)
           /\ \A x \in Fields \ {"cut"} : Loses(k, error)[x] = f[x]
  BY <1>3 DEF Fields
<1> QED
  BY <1>1, <1>4, <1>5, <1>6 DEF Failed, Kept, Fields

LEMMA GoesIs ==
  ASSUME NEW k, DOMAIN k = Fields, NEW step
  PROVE  /\ Kept(Goes(k, step), k)
         /\ Goes(k, step).at = "job" /\ Goes(k, step).step = step
BY DEF Goes, Kept, Fields

LEMMA EndsIs ==
  ASSUME NEW k, DOMAIN k = Fields, NEW how
  PROVE  /\ Kept(Ends(k, how), k)
         /\ Ends(k, how).at = "ended" /\ Ends(k, how).end = how
BY DEF Ends, Kept, Fields

\* After an answer: a mutation that was done ends the call; a search that found
\* the message does, and one that is not complete ends a reconciliation.
Answers(g, c, said) ==
  /\ Kept(g, call[c])
  /\ \/ g.at = "job" /\ g.step \in StepsOf(kind[c])
     \/ g.at = "ended"
     \/ g.at = "sleep" /\ kind[c] = "wait"
  /\ call[c].step \in Delivers => g.at = "ended" /\ g.end = "done"
  /\ call[c].step = "search" /\ call[c].reconcile /\ g.at # "ended" =>
       said.complete /\ ~ said.found

LEMMA GoesOnIs ==
  ASSUME NEW c \in Calls, DOMAIN call[c] = Fields, call[c].step \in StepsOf(kind[c]),
         NEW said
  PROVE  Answers(GoesOn(c, said), c, said)
<1>1. ASSUME NEW how, call[c].step \in Delivers => how = "done"
      PROVE  Answers(Ends(call[c], how), c, said)
  BY <1>1, EndsIs DEF Answers
<1>2. ASSUME NEW step \in StepsOf(kind[c]), call[c].step \notin Delivers,
             call[c].step # "search"
      PROVE  Answers(Goes(call[c], step), c, said)
  BY <1>2, GoesIs DEF Answers
<1>3. CASE kind[c] = "wake"
  <2>1. GoesOn(c, said) = WakeGoesOn(call[c], said)
    BY <1>3 DEF GoesOn
  <2>2. CASE call[c].step = "search"
    <3>1. WakeGoesOn(call[c], said) = Searched(call[c], said)
      BY <2>2 DEF WakeGoesOn
    <3>2. ASSUME ~ said.found, call[c].reconcile => said.complete
          PROVE  Answers(Goes(call[c], "thread/read"), c, said)
      <4>1. "thread/read" \in StepsOf(kind[c]) /\ call[c].step \notin Delivers
        BY <1>3, <2>2 DEF StepsOf, Delivers
      <4> QED
        BY <3>2, <4>1, GoesIs DEF Answers
    <3> QED
      BY <1>1, <2>1, <2>2, <3>1, <3>2 DEF Searched, Delivers
  <2>3. ASSUME NEW again \in BOOLEAN,
               call[c].step \in {"thread/read", "thread/read again"}
        PROVE  Answers(StatusRead(call[c], said, again), c, said)
    <3>1. \A step \in {"active turn", "thread/resume", "turn/start"} :
            Answers(Goes(call[c], step), c, said)
      BY <1>2, <1>3, <2>3 DEF StepsOf, Delivers
    <3>2. Answers(Ends(call[c], "deferred"), c, said)
      BY <1>1, <2>3 DEF Delivers
    <3> QED
      BY <3>1, <3>2 DEF StatusRead
  <2>4. CASE call[c].step \in {"thread/read", "thread/read again"}
    BY <2>1, <2>3, <2>4 DEF WakeGoesOn
  <2>5. CASE call[c].step = "active turn"
    <3> DEFINE m == [call[c] EXCEPT !.turn = said.turn]
    <3>1. Kept(m, call[c]) /\ m.at = call[c].at
      BY DEF Kept, Fields
    <3>2. Answers(Goes(m, "turn/steer"), c, said)
      <4> HIDE DEF m
      <4>1. "turn/steer" \in StepsOf(kind[c]) /\ call[c].step \notin Delivers
        BY <1>3, <2>5 DEF StepsOf, Delivers
      <4>2. Kept(Goes(m, "turn/steer"), m) /\ Goes(m, "turn/steer").at = "job"
            /\ Goes(m, "turn/steer").step = "turn/steer"
        BY <3>1, GoesIs DEF Kept
      <4> QED
        BY <2>5, <3>1, <4>1, <4>2 DEF Answers, Kept
    <3>3. WakeGoesOn(call[c], said) =
            IF said.turn = 0 THEN Ends(call[c], "deferred") ELSE Goes(m, "turn/steer")
      BY <2>5 DEF WakeGoesOn
    <3>4. Answers(Ends(call[c], "deferred"), c, said)
      BY <1>1, <2>5 DEF Delivers
    <3> QED
      BY <2>1, <3>2, <3>3, <3>4
  <2>6. CASE call[c].step = "thread/resume"
    <3>1. WakeGoesOn(call[c], said) = Goes(call[c], "thread/read again")
      BY <2>6 DEF WakeGoesOn
    <3> QED
      BY <1>2, <1>3, <2>1, <2>6, <3>1 DEF StepsOf, Delivers
  <2>7. CASE call[c].step \in {"turn/steer", "turn/start"}
    <3>1. WakeGoesOn(call[c], said) = Ends(call[c], "done")
      BY <2>7 DEF WakeGoesOn
    <3> QED
      BY <1>1, <2>1, <3>1
  <2> QED
    BY <1>3, <2>2, <2>4, <2>5, <2>6, <2>7 DEF StepsOf
<1>4. CASE kind[c] = "wait"
  <2>1. GoesOn(c, said) = WaitGoesOn(call[c], said)
    BY <1>4 DEF GoesOn
  <2>2. Answers([call[c] EXCEPT !.at = "sleep"], c, said)
    BY <1>4 DEF Answers, Kept, StepsOf, Delivers, Fields
  <2> QED
    BY <1>1, <2>1, <2>2 DEF WaitGoesOn
<1>5. CASE kind[c] \notin {"wake", "wait"}
  BY <1>1, <1>5 DEF GoesOn
<1> QED
  BY <1>3, <1>4, <1>5

-----------------------------------------------------------------------------
(* Steps that deliver nothing                                              *)

LEMMA IInvInit == Init => IInv
<1> SUFFICES ASSUME Init PROVE IInv
  OBVIOUS
<1>1. Shaped
  BY BridgeAssumption DEF Init, Shaped
<1>2. \A c \in Calls : CallInv(c)
  BY DEF Init, CallInv, NewCall, Fields
<1>3. Got = {} /\ thread.turns \in Seq(SUBSET Messages) /\ orphans = {}
      /\ thread.archived = {}
  BY DEF Init, Got
<1>4. ThreadInv
  BY <1>3 DEF ThreadInv
<1>5. \A c \in Calls : ~ Sent(c) /\ ~ Delivered(c)
  BY <1>3 DEF Sent, Delivered, Done
<1>6. WakeOnce
  BY DEF Init, WakeOnce
<1> QED
  BY <1>1, <1>2, <1>4, <1>5, <1>6 DEF IInv, CertainInv, OnceInv

\* What a call keeps in every step but the one that begins an attempt.
Stays(c) ==
  /\ CallInv(c)' /\ call'[c].attempt = call[c].attempt
  /\ InFlight(c) \/ Settled(c) => InFlight(c)' \/ Settled(c)'
  /\ Delivered(c) /\ Excused(c) => Excused(c)'
  /\ call'[c].cut = 0 => call[c].cut = 0

LEMMA SameStays ==
  ASSUME IInv, NEW c \in Calls, kind' = kind,
         call'[c] = call[c], wire'[c] = wire[c]
  PROVE  Stays(c)
BY DEF IInv, Stays, CallInv, InFlight, Settled, Excused, Searching

LEMMA StepKeeps ==
  ASSUME IInv, kind' = kind, Shaped', left'.lingers = left.lingers,
         \A c \in Calls : Stays(c), ThreadInv', WakeOnce',
         \A c \in Calls :
           Sent(c)' => Sent(c) \/ InFlight(c)' \/ Settled(c)',
         \A c \in Calls :
           Delivered(c)' => Delivered(c) \/ left.lingers \/ Excused(c)'
  PROVE  IInv'
<1>1. \A c \in Calls : CallInv(c)'
  BY DEF Stays
<1>2. CertainInv'
  BY DEF IInv, CertainInv, Stays
<1>3. OnceInv'
  BY DEF IInv, OnceInv, Stays
<1> QED
  BY <1>1, <1>2, <1>3 DEF IInv

\* A message is that of a call; what held of the messages holds when cuts only grow.
LEMMA OnceStays ==
  ASSUME IInv, thread'.turns = thread.turns, left'.lingers = left.lingers,
         \A c \in Calls : call'[c].cut = 0 => call[c].cut = 0
  PROVE  WakeOnce'
<1>1. \A i \in DOMAIN thread.turns : \A x \in thread.turns[i] : x.call \in Calls
  BY DEF IInv, ThreadInv, Messages
<1> QED
  BY <1>1 DEF WakeOnce, IInv, OnceInv

SameTurns ==
  thread'.turns = thread.turns /\ thread'.archived = thread.archived

LEMMA QuietKeeps ==
  ASSUME IInv, kind' = kind, Shaped', left'.lingers = left.lingers,
         SameTurns, orphans' = orphans,
         \A c \in Calls : Stays(c)
  PROVE  IInv'
<1> USE DEF SameTurns
<1>1. \A c \in Calls : call'[c].attempt = call[c].attempt
  BY DEF Stays
<1>2. Got' = Got
  BY DEF Got
<1>3. ThreadInv'
  <2>1. \A x \in Got : x.call \in Calls
    BY DEF IInv, ThreadInv, Got, Messages
  <2> QED
    BY <1>1, <1>2, <2>1 DEF IInv, ThreadInv
<1>4. \A c \in Calls : (Sent(c)' => Sent(c)) /\ (Delivered(c)' => Delivered(c))
  BY <1>1, <1>2 DEF Sent, Done, Delivered
<1>5. WakeOnce'
  BY OnceStays DEF Stays
<1> QED
  BY <1>3, <1>4, <1>5, StepKeeps

\* A call whose request fails.  What may have been done is reported uncertain, or cut.
LEMMA FailStays ==
  ASSUME IInv, NEW c \in Calls, kind' = kind, NEW error,
         Failed(call'[c], call[c], error), wire'[c] = None,
         call[c].at \in {"job", "write", "connection", "answer"},
         InFlight(c) =>
           error.code \notin CertainlyUnapplied \/ call'[c].cut = call[c].attempt
  PROVE  Stays(c)
<1>1. CallInv(c)
  BY DEF IInv
<1>2. CallInv(c)'
  BY <1>1 DEF CallInv, Failed, Kept
<1>3. InFlight(c) => Settled(c)'
  <2>1. InFlight(c) => call[c].attempt \in Nat /\ call[c].attempt >= 1
    BY <1>1 DEF CallInv, InFlight
  <2> QED
    BY <2>1 DEF Failed, Kept, InFlight, Settled, Delivers, Mutations
<1>4. Searching(c) => Excused(c)'
  BY DEF Searching, Excused, Failed, Kept, Delivers
<1>5. call'[c].cut = 0 => call[c].cut = 0
  BY <1>1 DEF CallInv, Failed, Kept
<1>6. ~ Settled(c)
  BY DEF Settled
<1>7. Excused(c) => Excused(c)'
  BY <1>3, <1>4, <1>5, <1>6 DEF Excused
<1>8. call'[c].attempt = call[c].attempt
  BY DEF Failed, Kept
<1> QED
  BY <1>2, <1>3, <1>5, <1>6, <1>7, <1>8 DEF Stays

\* The end of the connection: the calls that wait for it fail, each with its error.
CutsOff(fails) ==
  /\ Cuts(fails) /\ DOMAIN fails \subseteq Calls
  /\ \A c \in Calls : Waiting(c) => c \in DOMAIN fails
  /\ \A c \in DOMAIN fails :
       fails[c] \in Errors /\ (Waiting(c) \/ call[c].at = "write")

LEMMA CutsIs ==
  ASSUME IInv, NEW fails, CutsOff(fails), NEW c \in Calls
  PROVE  /\ wire'[c] = None
         /\ c \in DOMAIN fails =>
              /\ Failed(call'[c], call[c], fails[c])
              /\ call[c].at = "answer" /\ call[c].step \in Delivers
                   /\ fails[c].code \in CertainlyUnapplied => call'[c].cut = call[c].attempt
         /\ c \notin DOMAIN fails => call'[c] = call[c]
<1>1. wire'[c] = None
      /\ call'[c] = IF c \in DOMAIN fails THEN Loses(call[c], fails[c]) ELSE call[c]
  BY DEF CutsOff, Cuts
<1>2. DOMAIN call[c] = Fields
  BY DEF IInv, CallInv
<1> QED
  BY <1>1, <1>2, LosesIs DEF CutsOff

LEMMA CutsKeep ==
  ASSUME IInv, kind' = kind, thread' = thread, left'.lingers = left.lingers,
         DOMAIN bridge' = DOMAIN bridge, DOMAIN left' = DOMAIN left,
         NEW fails, CutsOff(fails)
  PROVE  IInv'
<1>1. ASSUME NEW c \in Calls PROVE Stays(c)
  <2>1. CASE c \in DOMAIN fails
    <3>1. call[c].at \in {"write", "connection", "answer"}
      BY <2>1 DEF CutsOff, Waiting
    <3>2. InFlight(c) =>
            fails[c].code \notin CertainlyUnapplied \/ call'[c].cut = call[c].attempt
      BY <2>1, CutsIs DEF InFlight
    <3> QED
      BY <2>1, <3>1, <3>2, CutsIs, FailStays
  <2>2. CASE c \notin DOMAIN fails
    <3>1. call'[c] = call[c] /\ wire'[c] = None
      BY <2>2, CutsIs
    <3>2. wire[c] = None
      BY <2>2 DEF CutsOff, Waiting, IInv, CallInv
    <3> QED
      BY <3>1, <3>2, SameStays
  <2> QED
    BY <2>1, <2>2
<1>2. \A c \in Calls : call'[c].attempt = call[c].attempt
  BY <1>1 DEF Stays
<1>3. ASSUME NEW m \in Orphaned
      PROVE  /\ left.lingers /\ m.call \in Calls /\ m.step = call[m.call].step
             /\ m.step \in Delivers \cap StepsOf(kind[m.call])
             /\ m.attempt = call[m.call].attempt /\ m.attempt \in Nat /\ m.attempt >= 1
             /\ call[m.call].at = "answer"
  <2>1. left.lingers
    BY DEF Orphaned
  <2>2. PICK c \in Calls :
          /\ m = [call |-> c, step |-> wire[c].step, turn |-> call[c].turn,
                  attempt |-> call[c].attempt]
          /\ wire[c] # None /\ wire[c].step \in Delivers
    BY <2>1 DEF Orphaned
  <2>3. CallInv(c)
    BY DEF IInv
  <2>4. m.call = c /\ m.step = wire[c].step /\ m.attempt = call[c].attempt
    BY <2>2
  <2> QED
    BY <2>1, <2>2, <2>3, <2>4 DEF CallInv, Mutations, Delivers
<1>4. Got' = Got
  BY DEF Got
<1>5. orphans' = orphans \cup Orphaned
  BY DEF CutsOff, Cuts
<1>6. ThreadInv'
  <2>1. \A x \in Got : x.call \in Calls
    BY DEF IInv, ThreadInv, Got, Messages
  <2> QED
    BY <1>2, <1>3, <1>4, <1>5, <2>1 DEF IInv, ThreadInv
<1>7. ASSUME NEW m \in Orphaned
      PROVE  Settled(m.call)'
  <2>1. m.call \in DOMAIN fails
    BY <1>3 DEF CutsOff, Waiting
  <2>2. Failed(call'[m.call], call[m.call], fails[m.call])
        /\ (fails[m.call].code \in CertainlyUnapplied =>
              call'[m.call].cut = call[m.call].attempt)
    BY <1>3, <2>1, CutsIs
  <2> QED
    BY <1>3, <2>2 DEF Failed, Kept, Settled, Delivers, Mutations
<1>8. \A c \in Calls :
        Sent(c)' => Sent(c) \/ InFlight(c)' \/ Settled(c)'
  BY <1>2, <1>4, <1>5, <1>7 DEF Sent, Done
<1>9. \A c \in Calls : Delivered(c)' => Delivered(c)
  BY <1>4 DEF Delivered
<1>10. WakeOnce'
  BY <1>1, OnceStays DEF Stays
<1>11. Shaped'
  BY DEF IInv, Shaped, CutsOff, Cuts
<1> QED
  BY <1>1, <1>6, <1>8, <1>9, <1>10, <1>11, StepKeeps

LEMMA DropKeeps ==
  ASSUME IInv, kind' = kind, thread' = thread, DOMAIN left' = DOMAIN left,
         left'.lingers = left.lingers, NEW error \in Errors, Drop(error)
  PROVE  IInv'
<1> DEFINE fails == [c \in {d \in Calls : Waiting(d)} |-> error]
<1>1. CutsOff(fails)
  BY DEF Drop, Drops, CutsOff
<1>2. DOMAIN bridge' = DOMAIN bridge
  BY DEF Drop, Drops, IInv, Shaped
<1> QED
  BY <1>1, <1>2, CutsKeep

-----------------------------------------------------------------------------
(* The actions                                                             *)

LEMMA SameTurnsIs ==
  ASSUME thread' = thread PROVE SameTurns
BY DEF SameTurns

\* A step of one call that leaves the child alone.
LEMMA OneKeeps ==
  ASSUME IInv, NEW c \in Calls, NEW f, UNCHANGED <<kind, wire, thread, orphans>>,
         call' = [call EXCEPT ![c] = f], Shaped', left'.lingers = left.lingers, Stays(c)
  PROVE  IInv'
<1>1. \A d \in Calls : Stays(d)
  <2> SUFFICES ASSUME NEW d \in Calls, d # c PROVE Stays(d)
    OBVIOUS
  <2>1. call'[d] = call[d]
    BY DEF IInv, Shaped
  <2> QED
    BY <2>1, SameStays
<1> QED
  BY <1>1, SameTurnsIs, QuietKeeps

LEMMA OneFails ==
  ASSUME IInv, NEW c \in Calls, NEW error, UNCHANGED <<kind, wire, thread, orphans>>,
         call' = [call EXCEPT ![c] = Fails(@, error)], DOMAIN bridge' = DOMAIN bridge,
         DOMAIN left' = DOMAIN left, left'.lingers = left.lingers,
         call[c].at \in {"job", "write", "connection"}
  PROVE  IInv'
<1>1. Shaped'
  BY DEF IInv, Shaped
<1>2. wire[c] = None /\ ~ InFlight(c)
  BY DEF IInv, CallInv, InFlight
<1>3. Failed(call'[c], call[c], error)
  <2>1. call'[c] = Fails(call[c], error)
    BY DEF IInv, Shaped
  <2> QED
    BY <2>1, FailsIs DEF IInv, CallInv
<1>4. Stays(c)
  BY <1>2, <1>3, FailStays
<1> QED
  BY <1>1, <1>4, OneKeeps

LEMMA RequestsKeeps ==
  ASSUME IInv, NEW c \in Calls, Requests(c) PROVE IInv'
<1> USE DEF IInv
<1>1. /\ call[c].at = "job" /\ CallInv(c) /\ wire[c] = None /\ Shaped
      /\ UNCHANGED <<kind, wire, thread, orphans>>
  BY DEF Requests, CallInv
<1>2. /\ DOMAIN bridge' = DOMAIN bridge
      /\ DOMAIN left' = DOMAIN left /\ left'.lingers = left.lingers
  BY <1>1 DEF Requests, Fault, Spend, Shaped
<1>3. CASE \E error \in Errors : call' = [call EXCEPT ![c] = Fails(call[c], error)]
  BY <1>1, <1>2, <1>3, OneFails
<1>4. ASSUME NEW at \in {"write", "connection"}, call' = [call EXCEPT ![c].at = at]
      PROVE  IInv'
  <2>1. call' = [call EXCEPT ![c] = [call[c] EXCEPT !.at = at]]
    BY <1>4
  <2>2. Stays(c)
    BY <1>1, <1>4 DEF Stays, CallInv, Fields, Shaped, InFlight, Settled, Excused, Searching
  <2>3. Shaped'
    BY <1>1, <1>2, <2>1 DEF Shaped
  <2> QED
    BY <1>1, <1>2, <2>1, <2>2, <2>3, OneKeeps
<1>5. \/ \E error \in Errors : call' = [call EXCEPT ![c] = Fails(call[c], error)]
      \/ \E at \in {"write", "connection"} : call' = [call EXCEPT ![c].at = at]
  BY DEF Requests, Errors
<1> QED
  BY <1>3, <1>4, <1>5

LEMMA WriteKeeps ==
  ASSUME IInv, NEW c \in Calls, Write(c) PROVE IInv'
<1> USE DEF IInv
<1>1. call[c].at = "write" /\ CallInv(c) /\ wire[c] = None /\ Shaped
      /\ UNCHANGED <<kind, thread>>
  BY DEF Write, CallInv
<1>2. CASE /\ call' = [call EXCEPT ![c].at = "answer"]
           /\ wire' = [wire EXCEPT ![c] =
                         [step |-> call[c].step, served |-> FALSE, said |-> None]]
           /\ UNCHANGED <<bridge, orphans, left>>
  <2>1. Shaped'
    BY <1>1, <1>2 DEF Shaped
  <2>2. Stays(c)
    BY <1>1, <1>2 DEF Stays, CallInv, Fields, Shaped, InFlight, Settled, Excused, Searching
  <2>3. ASSUME NEW d \in Calls, d # c PROVE Stays(d)
    BY <1>1, <1>2, <2>3, SameStays DEF Shaped
  <2> QED
    BY <1>1, <1>2, <2>1, <2>2, <2>3, SameTurnsIs, QuietKeeps
<1> DEFINE fails == [d \in {e \in Calls : Waiting(e)} \cup {c} |-> NoInput]
<1>3. CASE /\ IF bridge.link \in {"connecting", "ready"} THEN Fault ELSE UNCHANGED left
           /\ Drops("unavailable", fails)
  <2>1. DOMAIN left' = DOMAIN left /\ left'.lingers = left.lingers
    BY <1>1, <1>3 DEF Fault, Spend, Shaped
  <2>2. DOMAIN bridge' = DOMAIN bridge
    BY <1>1, <1>3 DEF Drops, Shaped
  <2>3. CutsOff(fails)
    BY <1>1, <1>3 DEF Drops, CutsOff, Errors
  <2> HIDE DEF fails
  <2> QED
    BY <1>1, <2>1, <2>2, <2>3, CutsKeep
<1> QED
  BY <1>2, <1>3 DEF Write

LEMMA LateKeeps ==
  ASSUME IInv, NEW c \in Calls, RequestsLate(c) \/ JoinTimesOut(c) PROVE IInv'
<1>1. /\ call[c].at \in {"job", "write", "connection"}
      /\ call' = [call EXCEPT ![c] = Fails(@, TimedOut(FALSE))]
      /\ UNCHANGED <<kind, bridge, wire, thread, orphans, left>>
  BY DEF RequestsLate, JoinTimesOut
<1> QED
  BY <1>1, OneFails

LEMMA ConnectedKeeps ==
  ASSUME IInv, Connected PROVE IInv'
<1>1. Shaped'
  BY DEF IInv, Shaped, Connected
<1>2. ASSUME NEW c \in Calls PROVE Stays(c)
  <2>1. CallInv(c) /\ wire' = wire /\ kind' = kind
    BY DEF IInv, Connected
  <2>2. CASE call[c].at # "connection"
    <3>1. call'[c] = call[c]
      BY <2>2 DEF Connected
    <3> QED
      BY <2>1, <3>1, SameStays
  <2>3. CASE call[c].at = "connection" /\ call[c].step = "initialize"
    <3>1. call'[c] = Ends(call[c], "done")
      BY <2>3 DEF Connected
    <3>2. Kept(call'[c], call[c]) /\ call'[c].at = "ended" /\ call'[c].end = "done"
      BY <2>1, <3>1, EndsIs DEF CallInv
    <3> QED
      BY <2>1, <2>3, <3>2 DEF Stays, CallInv, Kept, InFlight, Settled, Excused, Searching
  <2>4. CASE call[c].at = "connection" /\ call[c].step # "initialize"
    <3>1. call'[c] = [call[c] EXCEPT !.at = "write"]
      BY <2>4 DEF Connected
    <3> QED
      BY <2>1, <2>4, <3>1
      DEF Stays, CallInv, Fields, InFlight, Settled, Excused, Searching
  <2> QED
    BY <2>2, <2>3, <2>4
<1> QED
  BY <1>1, <1>2, SameTurnsIs, QuietKeeps DEF Connected

LEMMA DropsKeep ==
  ASSUME IInv, Refused \/ ConnectsInVain \/ ConnectTimesOut \/ Breaks \/ Close PROVE IInv'
<1> USE DEF IInv
<1>1. Fault => DOMAIN left' = DOMAIN left /\ left'.lingers = left.lingers
  BY DEF Fault, Spend, Shaped
<1>2. ASSUME NEW error \in Errors, Drop(error), UNCHANGED <<kind, thread>>,
             Fault \/ UNCHANGED left
      PROVE  IInv'
  BY <1>1, <1>2, DropKeeps
<1>3. CASE Refused
  BY <1>2, <1>3 DEF Refused, Errors
<1>4. CASE ConnectTimesOut
  <2>1. TimedOut(~ HasDeadline(bridge.owner)) \in Errors
    BY DEF Errors, HasDeadline
  <2> QED
    BY <1>2, <1>4, <2>1 DEF ConnectTimesOut
<1>5. CASE Breaks
  BY <1>2, <1>5 DEF Breaks, Errors
<1>6. CASE ConnectsInVain
  <2>1. PICK error \in {NoInput, TooOld, Rejected} :
          /\ bridge' = [bridge EXCEPT !.link = "none", !.owner = None,
                          !.state = IF error = NoInput THEN "ready" ELSE "unavailable"]
          /\ Cuts([c \in {d \in Calls : Waiting(d)} |->
                    IF call[c].at = "answer" THEN Lost ELSE error])
    BY <1>6 DEF ConnectsInVain
  <2> DEFINE fails == [c \in {d \in Calls : Waiting(d)} |->
                         IF call[c].at = "answer" THEN Lost ELSE error]
  <2>2. CutsOff(fails)
    BY <2>1 DEF CutsOff, Errors
  <2>3. DOMAIN bridge' = DOMAIN bridge /\ UNCHANGED <<kind, thread>> /\ Fault
    BY <1>6, <2>1 DEF ConnectsInVain, Shaped
  <2> HIDE DEF fails
  <2> QED
    BY <1>1, <2>2, <2>3, CutsKeep
<1>7. CASE Close
  <2> DEFINE fails == [c \in {d \in Calls : Waiting(d)} |-> Closed]
  <2>1. CutsOff(fails)
    BY <1>7 DEF Close, CutsOff, Errors
  <2>2. DOMAIN bridge' = DOMAIN bridge /\ UNCHANGED <<kind, thread>> /\ Fault
    BY <1>7 DEF Close, Shaped
  <2> HIDE DEF fails
  <2> QED
    BY <1>1, <2>1, <2>2, CutsKeep
<1> QED
  BY <1>3, <1>4, <1>5, <1>6, <1>7

\* The answer is taken off the wire, and the call makes f of it.
LEMMA AnswerKeeps ==
  ASSUME IInv, NEW c \in Calls, NEW f, UNCHANGED <<kind, bridge, thread, orphans>>,
         call' = [call EXCEPT ![c] = f], wire' = [wire EXCEPT ![c] = None],
         DOMAIN left' = DOMAIN left, left'.lingers = left.lingers,
         call'[c] = f /\ wire'[c] = None => Stays(c)
  PROVE  IInv'
<1>1. Shaped' /\ call'[c] = f /\ wire'[c] = None
  BY DEF IInv, Shaped
<1>2. ASSUME NEW d \in Calls, d # c PROVE Stays(d)
  BY <1>2, SameStays DEF IInv, Shaped
<1> QED
  BY <1>1, <1>2, SameTurnsIs, QuietKeeps

LEMMA AnswerTimesOutKeeps ==
  ASSUME IInv, NEW c \in Calls, AnswerTimesOut(c) PROVE IInv'
<1>1. call[c].at = "answer" /\ UNCHANGED <<kind, thread, left>>
  BY DEF AnswerTimesOut
<1>2. CASE HasDeadline(c) /\ call[c].step \notin Mutations
  <2>1. ~ InFlight(c)
    BY <1>2 DEF InFlight, Delivers, Mutations
  <2>2. call' = [call EXCEPT ![c] = Fails(call[c], TimedOut(FALSE))]
        /\ wire' = [wire EXCEPT ![c] = None] /\ UNCHANGED <<bridge, orphans>>
    BY <1>2 DEF AnswerTimesOut
  <2>3. DOMAIN call[c] = Fields
    BY DEF IInv, CallInv
  <2>4. ASSUME call'[c] = Fails(call[c], TimedOut(FALSE)), wire'[c] = None PROVE Stays(c)
    BY <1>1, <2>1, <2>3, <2>4, FailsIs, FailStays
  <2> QED
    BY <1>1, <2>2, <2>4, AnswerKeeps
<1>3. CASE Drop(TimedOut(call[c].step \notin Mutations))
  <2>1. TimedOut(call[c].step \notin Mutations) \in Errors
    BY DEF Errors
  <2> QED
    BY <1>1, <1>3, <2>1, DropKeeps
<1> QED
  BY <1>2, <1>3 DEF AnswerTimesOut

LEMMA AnsweredKeeps ==
  ASSUME IInv, NEW c \in Calls, Answered(c) PROVE IInv'
<1>1. /\ CallInv(c) /\ wire[c] # None /\ wire[c].served /\ call[c].at = "answer"
      /\ UNCHANGED <<kind, bridge, thread, orphans, left>>
      /\ wire' = [wire EXCEPT ![c] = None]
  BY DEF IInv, CallInv, Answered
<1>2. CASE wire[c].said = Rejected
  <2>1. ~ InFlight(c)
    BY <1>2 DEF InFlight
  <2>2. call' = [call EXCEPT ![c] = Fails(call[c], Rejected)]
    BY <1>2 DEF Answered
  <2>3. DOMAIN call[c] = Fields
    BY <1>1 DEF CallInv
  <2> QED
    BY <1>1, <2>1, <2>2, <2>3, FailsIs, FailStays, AnswerKeeps
<1>3. CASE wire[c].said # Rejected
  <2>1. call' = [call EXCEPT ![c] = GoesOn(c, wire[c].said)]
    BY <1>3 DEF Answered
  <2>2. Answers(GoesOn(c, wire[c].said), c, wire[c].said)
    BY <1>1, GoesOnIs DEF CallInv
  <2>3. ASSUME call'[c] = GoesOn(c, wire[c].said), wire'[c] = None PROVE Stays(c)
    <3>1. CallInv(c)'
      BY <1>1, <2>2, <2>3 DEF CallInv, Answers, Kept
    <3>2. InFlight(c) => Settled(c)'
      BY <2>2, <2>3 DEF Answers, InFlight, Settled
    <3>3. Searching(c) => Excused(c)'
      BY <1>1, <1>3, <2>2, <2>3 DEF Answers, Kept, Searching, Excused
    <3>4. call'[c].cut = 0 => call[c].cut = 0
      BY <1>1, <2>2, <2>3 DEF Answers, Kept, CallInv
    <3> QED
      BY <1>1, <2>2, <2>3, <3>1, <3>2, <3>3, <3>4 DEF Stays, Answers, Kept, Excused, Settled
  <2> QED
    BY <1>1, <2>1, <2>3, AnswerKeeps
<1> QED
  BY <1>2, <1>3

LEMMA GarbledKeeps ==
  ASSUME IInv, NEW c \in Calls, Garbled(c) PROVE IInv'
<1>1. /\ CallInv(c) /\ wire[c] # None /\ call[c].at = "answer"
      /\ UNCHANGED <<kind, bridge, thread, orphans>>
      /\ wire' = [wire EXCEPT ![c] = None]
      /\ call' = [call EXCEPT ![c] = Fails(call[c], Invalid)]
  BY DEF IInv, CallInv, Garbled
<1>2. DOMAIN left' = DOMAIN left /\ left'.lingers = left.lingers
  BY DEF Garbled, Fault, Spend, IInv, Shaped
<1>3. Invalid.code \notin CertainlyUnapplied
  BY DEF Invalid, Error, CertainlyUnapplied
<1>4. DOMAIN call[c] = Fields
  BY <1>1 DEF CallInv
<1> QED
  BY <1>1, <1>2, <1>3, <1>4, FailsIs, FailStays, AnswerKeeps

LEMMA WaitKeeps ==
  ASSUME IInv, NEW c \in Calls, WakeUp(c) \/ Elapse(c) PROVE IInv'
<1>1. CallInv(c) /\ UNCHANGED <<kind, bridge, wire, thread, orphans, left>>
  BY DEF IInv, WakeUp, Elapse
<1>2. Shaped'
  BY <1>1 DEF IInv, Shaped, WakeUp, Elapse
<1>3. CASE WakeUp(c)
  <2>1. call' = [call EXCEPT ![c] = Goes(call[c], "thread/read")] /\ call[c].at = "sleep"
    BY <1>3 DEF WakeUp
  <2>2. call'[c] = Goes(call[c], "thread/read")
    BY <2>1 DEF IInv, Shaped
  <2>3. Kept(call'[c], call[c]) /\ call'[c].at = "job" /\ call'[c].step = "thread/read"
    BY <1>1, <2>2, GoesIs DEF CallInv
  <2>4. kind[c] = "wait" /\ wire[c] = None /\ kind'[c] = kind[c] /\ wire'[c] = wire[c]
    BY <1>1, <2>1 DEF CallInv
  <2>5. CallInv(c)'
    BY <1>1, <2>1, <2>3, <2>4 DEF CallInv, Kept, StepsOf
  <2>6. ~ InFlight(c) /\ ~ Settled(c) /\ (Excused(c) => call[c].cut # 0)
    BY <2>1, <2>4 DEF InFlight, Settled, Excused, Searching
  <2>7. call'[c].cut = call[c].cut
    BY <2>1, <2>3 DEF Kept
  <2>8. Stays(c)
    BY <2>3, <2>5, <2>6, <2>7 DEF Stays, Kept, Excused
  <2> QED
    BY <1>1, <1>2, <2>1, <2>8, OneKeeps
<1>4. CASE Elapse(c)
  <2>1. call' = [call EXCEPT ![c] = [call[c] EXCEPT !.late = TRUE]]
    BY <1>4 DEF Elapse
  <2>2. call'[c] = [call[c] EXCEPT !.late = TRUE]
    BY <2>1 DEF IInv, Shaped
  <2>3. Stays(c)
    BY <1>1, <2>2 DEF Stays, CallInv, Fields, InFlight, Settled, Excused, Searching
  <2> QED
    BY <1>1, <1>2, <2>1, <2>3, OneKeeps
<1> QED
  BY <1>3, <1>4

LEMMA GotIs ==
  ASSUME IInv, NEW x \in Got
  PROVE  /\ x.call \in Calls /\ x.attempt \in Nat
         /\ x.attempt >= 1 /\ x.attempt <= call[x.call].attempt
BY DEF IInv, ThreadInv, Got, Messages

\* A new attempt: nothing was done or is held of it yet.
LEMMA AgainKeeps ==
  ASSUME IInv, NEW c \in Calls, NEW f, UNCHANGED <<kind, bridge, wire, thread, orphans, left>>,
         call' = [call EXCEPT ![c] = f], f.attempt = call[c].attempt + 1, f.cut = call[c].cut,
         call'[c] = f => CallInv(c)',
         call'[c] = f /\ Delivered(c) => ~ Excused(c) \/ Excused(c)',
         kind[c] # "wake" => call[c].attempt = 0
  PROVE  IInv'
<1> USE DEF IInv
<1>1. Shaped' /\ call'[c] = f /\ call[c].attempt \in Nat
  BY DEF Shaped, CallInv
<1>2. ASSUME NEW d \in Calls, d # c
      PROVE  Stays(d) /\ call'[d] = call[d] /\ (Excused(d) => Excused(d)')
             /\ (Sent(d)' => Sent(d))
  <2>1. call'[d] = call[d] /\ wire'[d] = wire[d]
    BY <1>2 DEF Shaped
  <2> QED
    BY <1>2, <2>1, SameStays
    DEF Stays, Excused, InFlight, Settled, Searching, Sent, Done, Got
<1>3. Got' = Got
  BY DEF Got
<1>4. ThreadInv'
  <2>1. \A x \in Got : x.call \in Calls /\ x.attempt \in Nat
    BY DEF ThreadInv, Got, Messages
  <2>2. ASSUME NEW d \in Calls
        PROVE  call[d].attempt \in Nat
               /\ call'[d].attempt \in {call[d].attempt, call[d].attempt + 1}
    BY <1>1, <1>2 DEF CallInv
  <2> QED
    BY <1>3, <2>1, <2>2 DEF ThreadInv
<1>5. ~ Sent(c)'
  <2>1. ASSUME NEW x \in Got, x.call = c PROVE x.attempt # call'[c].attempt
    BY <1>1, <2>1 DEF ThreadInv
  <2>2. kind[c] = "wake" => ~ Done(c)'
    BY <1>3, <2>1 DEF Done
  <2>3. kind[c] # "wake" => ~ Done(c)'
    BY DEF Done, ThreadInv
  <2>4. ASSUME NEW m \in orphans, m.call = c PROVE m.attempt # call'[c].attempt
    BY <1>1, <2>4 DEF ThreadInv
  <2> QED
    BY <2>2, <2>3, <2>4 DEF Sent
<1>6. CertainInv'
  BY <1>2, <1>5 DEF CertainInv, Stays
<1>7. WakeOnce'
  BY <1>1, <1>2, OnceStays
<1>8. \A d \in Calls : Delivered(d)' /\ Excused(d) => Delivered(d) /\ Excused(d)'
  BY <1>1, <1>2, <1>3 DEF Delivered
<1>9. OnceInv'
  BY <1>3, <1>7, <1>8 DEF OnceInv, Delivered
<1>10. \A d \in Calls : CallInv(d)'
  BY <1>1, <1>2 DEF Stays
<1> QED
  BY <1>1, <1>4, <1>6, <1>9, <1>10

LEMMA BeginKeeps ==
  ASSUME IInv, NEW c \in Calls, Begin(c) PROVE IInv'
<1>1. /\ CallInv(c) /\ call[c].at = "idle" /\ call[c].attempt = 0 /\ wire[c] = None
      /\ kind[c] \in Kinds \ {"none"}
      /\ UNCHANGED <<kind, bridge, wire, thread, orphans, left>>
  BY DEF IInv, CallInv, Begin, Shaped
<1>2. CASE kind[c] = "probe" /\ bridge.state \notin {"idle", "unavailable"}
  <2>1. call' = [call EXCEPT ![c] = Ends(call[c], "done")]
    BY <1>2 DEF Begin
  <2>2. call'[c] = Ends(call[c], "done") /\ Shaped'
    BY <1>1, <2>1 DEF IInv, Shaped
  <2>3. Kept(call'[c], call[c]) /\ call'[c].at = "ended" /\ call'[c].end = "done"
    BY <1>1, <2>2, EndsIs DEF CallInv
  <2>4. CallInv(c)'
    BY <1>1, <2>3 DEF CallInv, Kept
  <2>5. Settled(c)'
    BY <2>3 DEF Settled
  <2>6. call'[c].cut = call[c].cut
    BY <1>1, <2>3 DEF Kept
  <2> QED
    BY <1>1, <2>1, <2>2, <2>3, <2>4, <2>5, <2>6, OneKeeps DEF Stays, Kept, Excused
<1>3. CASE ~ (kind[c] = "probe" /\ bridge.state \notin {"idle", "unavailable"})
  <2> DEFINE g == Goes(call[c], FirstStep(c))
  <2>1. Kept(g, call[c]) /\ g.at = "job" /\ g.step = FirstStep(c)
    BY <1>1, GoesIs DEF CallInv
  <2>2. call' = [call EXCEPT ![c] = [g EXCEPT !.attempt = 1]]
    BY <1>3 DEF Begin
  <2> HIDE DEF g
  <2> DEFINE f == [g EXCEPT !.attempt = 1]
  <2>3. DOMAIN f = Fields /\ f.attempt = 1 /\ f.at = "job" /\ f.step = FirstStep(c)
        /\ f.cut = call[c].cut
    BY <1>1, <2>1 DEF Kept, Fields
  <2> HIDE DEF f
  <2>4. FirstStep(c) \in StepsOf(kind[c])
    BY <1>1 DEF FirstStep, StepsOf, Kinds
  <2>5. call'[c] = f => CallInv(c)'
    BY <1>1, <2>3, <2>4 DEF CallInv
  <2>6. ~ Delivered(c)
    BY <1>1, GotIs DEF Delivered
  <2>7. call' = [call EXCEPT ![c] = f]
    BY <2>2 DEF f
  <2>8. f.attempt = call[c].attempt + 1
    BY <1>1, <2>3
  <2> QED
    BY <1>1, <2>3, <2>5, <2>6, <2>7, <2>8, AgainKeeps
<1> QED
  BY <1>2, <1>3

LEMMA AgainIs ==
  ASSUME NEW k, DOMAIN k = Fields
  PROVE  /\ DOMAIN Again(k) = Fields /\ Again(k).attempt = k.attempt + 1
         /\ Again(k).at = "job" /\ Again(k).step = "search"
         /\ Again(k).cut = k.cut \/ k.at = "answer"
         /\ Again(k).reconcile <=> k.reconcile \/ k.end = "uncertain"
<1> DEFINE r == k.reconcile \/ k.end = "uncertain"
           g == Goes(k, "search")
<1>1. /\ g.at = "job" /\ g.step = "search" /\ DOMAIN g = Fields
      /\ g.cut = k.cut \/ k.at = "answer"
  BY GoesIs DEF Kept
<1>2. Again(k) = [g EXCEPT !.attempt = k.attempt + 1, !.end = None, !.turn = 0,
                           !.reconcile = r]
  BY DEF Again
<1> HIDE DEF g
<1>3. Again(k).reconcile = r
  <2> HIDE DEF r
  <2> QED
    BY <1>1, <1>2 DEF Fields
<1> QED
  BY <1>1, <1>2, <1>3 DEF Fields

LEMMA RepeatKeeps ==
  ASSUME IInv, NEW c \in Calls, Repeat(c) PROVE IInv'
<1>1. /\ CallInv(c) /\ call[c].at = "ended" /\ call[c].attempt \in Nat /\ wire[c] = None
      /\ kind[c] = "wake" /\ call[c].end # "done"
      /\ UNCHANGED <<kind, bridge, wire, thread, orphans, left>>
      /\ call' = [call EXCEPT ![c] = Again(call[c])]
  BY DEF IInv, CallInv, Repeat
<1>2. /\ DOMAIN Again(call[c]) = Fields /\ Again(call[c]).attempt = call[c].attempt + 1
      /\ Again(call[c]).at = "job" /\ Again(call[c]).step = "search"
      /\ Again(call[c]).cut = call[c].cut
      /\ Again(call[c]).reconcile <=> call[c].reconcile \/ call[c].end = "uncertain"
  BY <1>1, AgainIs DEF CallInv
<1>3. ASSUME call'[c] = Again(call[c]) PROVE CallInv(c)'
  <2>1. wire'[c] = None /\ kind'[c] = "wake"
    BY <1>1
  <2>2. call'[c].at = "job" /\ call'[c].attempt \in Nat /\ call'[c].attempt >= 1
        /\ call'[c].cut \in Nat
    BY <1>1, <1>2, <1>3 DEF CallInv
  <2>3. call'[c].step \in StepsOf(kind'[c]) /\ DOMAIN call'[c] = Fields
    BY <1>2, <1>3, <2>1 DEF StepsOf
  <2> QED
    BY <2>1, <2>2, <2>3 DEF CallInv
<1>4. Excused(c) => call[c].reconcile \/ call[c].end = "uncertain" \/ call[c].cut # 0
  BY <1>1 DEF Excused, InFlight, Settled, Searching
<1>5. ASSUME call'[c] = Again(call[c]) PROVE Excused(c) => Excused(c)'
  <2>1. wire'[c] = None
    BY <1>1
  <2> QED
    BY <1>2, <1>4, <1>5, <2>1 DEF Excused, Searching
<1> QED
  BY <1>1, <1>2, <1>3, <1>5, AgainKeeps

-----------------------------------------------------------------------------
(* What the child does                                                     *)

Turns == DOMAIN thread.turns

LEMMA TurnsAre ==
  ASSUME IInv
  PROVE  /\ thread.turns \in Seq(SUBSET Messages) /\ Last \in Nat /\ Turns = 1..Last
         /\ \A i \in Turns : thread.turns[i] \in SUBSET Messages
         /\ Got = UNION {thread.turns[i] : i \in Turns}
BY DEF IInv, ThreadInv, Turns, Last, Got

\* A message that was delivered is found if the search is complete.
LEMMA SoughtIs ==
  ASSUME IInv, NEW c \in Calls, Delivered(c), Sought(c).complete
  PROVE  Sought(c).found
<1>1. PICK i \in Turns : \E x \in thread.turns[i] : x.call = c
  BY TurnsAre DEF Delivered
<1>2. Last <= Page
  BY DEF Sought
<1>3. i \in Listed
  BY <1>2, TurnsAre, BridgeAssumption DEF Listed, Turns
<1> QED
  BY <1>1, <1>3 DEF Sought

\* The turns t are those of the thread, and one of them got the message x more.
Lands(t, x) ==
  /\ t \in Seq(SUBSET Messages)
  /\ \E p \in DOMAIN t :
       \A j \in DOMAIN t :
         \A y \in t[j] :
           (y = x /\ j = p) \/ (j \in Turns /\ y \in thread.turns[j])

LEMMA AppliedLands ==
  ASSUME IInv, NEW m, m.call \in Calls, m.attempt \in Nat,
         m.step \in {"turn/steer", "turn/start"}, Applicable(m)
  PROVE  /\ Lands(Applied(m).turns, Message(m))
         /\ Applied(m).archived = thread.archived
         /\ DOMAIN Applied(m) = DOMAIN thread
<1>1. Message(m) \in Messages
  BY DEF Message, Messages
<1>2. DOMAIN thread = {"status", "turns", "archived", "revision"}
  BY DEF IInv, Shaped
<1>3. CASE m.step = "turn/steer"
  <2>1. m.turn \in Turns
    BY <1>3, TurnsAre DEF Applicable, ActiveTurn
  <2> DEFINE old == thread.turns
             t == [old EXCEPT ![m.turn] = @ \cup {Message(m)}]
  <2>2. Applied(m) = [thread EXCEPT !.turns = t]
    BY <1>3 DEF Applied
  <2>3. Applied(m).turns = t /\ Applied(m).archived = thread.archived
        /\ DOMAIN Applied(m) = DOMAIN thread
    <3> HIDE DEF t
    <3> QED
      BY <1>2, <2>2
  <2>4. t \in Seq(SUBSET Messages)
    <3>1. old \in Seq(SUBSET Messages) /\ m.turn \in DOMAIN old
      BY <2>1, TurnsAre DEF Turns
    <3>2. old[m.turn] \cup {Message(m)} \in SUBSET Messages
      BY <1>1, <2>1, TurnsAre
    <3> HIDE DEF old
    <3> QED
      BY <3>1, <3>2
  <2>5. DOMAIN t = Turns /\ t[m.turn] = thread.turns[m.turn] \cup {Message(m)}
        /\ \A j \in Turns : j # m.turn => t[j] = thread.turns[j]
    BY <2>1 DEF Turns
  <2> HIDE DEF t
  <2>6. ASSUME NEW j \in DOMAIN t, NEW y \in t[j]
        PROVE  (y = Message(m) /\ j = m.turn) \/ (j \in Turns /\ y \in thread.turns[j])
    BY <2>5
  <2>7. Lands(t, Message(m))
    BY <2>1, <2>4, <2>5, <2>6 DEF Lands
  <2> QED
    BY <2>3, <2>7
<1>4. CASE m.step = "turn/start"
  <2> DEFINE t == Append(thread.turns, {Message(m)})
  <2>1. Applied(m) = [thread EXCEPT !.status = "active", !.turns = t, !.revision = @ + 1]
    BY <1>4 DEF Applied, NewTurn
  <2>2. Applied(m).turns = t /\ Applied(m).archived = thread.archived
        /\ DOMAIN Applied(m) = DOMAIN thread
    <3> HIDE DEF t
    <3> QED
      BY <1>2, <2>1
  <2>3. t \in Seq(SUBSET Messages)
    BY <1>1, TurnsAre
  <2>4. DOMAIN t = 1..(Last + 1) /\ t[Last + 1] = {Message(m)}
        /\ \A j \in Turns : t[j] = thread.turns[j]
    BY TurnsAre DEF Last
  <2> HIDE DEF t
  <2>5. Last + 1 \in DOMAIN t /\ \A j \in DOMAIN t : j = Last + 1 \/ j \in Turns
    BY <2>4, TurnsAre
  <2>6. ASSUME NEW j \in DOMAIN t, NEW y \in t[j]
        PROVE  (y = Message(m) /\ j = Last + 1) \/ (j \in Turns /\ y \in thread.turns[j])
    BY <2>4, <2>5
  <2>7. Lands(t, Message(m))
    BY <2>3, <2>5, <2>6 DEF Lands
  <2> QED
    BY <2>2, <2>7
<1> QED
  BY <1>3, <1>4

LEMMA LandsGot ==
  ASSUME IInv, NEW x, Lands(thread'.turns, x)
  PROVE  /\ \A y \in Got' : y = x \/ y \in Got
         /\ (left'.lingers \/ call'[x.call].cut # 0 \/ \A y \in Got : y.call # x.call)
              /\ left' = left /\ call' = call => WakeOnce'
<1>1. PICK p \in DOMAIN thread'.turns :
        \A j \in DOMAIN thread'.turns :
          \A y \in thread'.turns[j] :
            (y = x /\ j = p) \/ (j \in Turns /\ y \in thread.turns[j])
  BY DEF Lands
<1>2. \A y \in Got' : y = x \/ y \in Got
  BY <1>1, TurnsAre DEF Got
<1>3. \A j \in Turns : \A y \in thread.turns[j] : y \in Got
  BY TurnsAre
<1>4. ASSUME call[x.call].cut # 0 \/ \A y \in Got : y.call # x.call,
             ~ left.lingers, left' = left, call' = call
      PROVE  WakeOnce'
  <2> SUFFICES ASSUME NEW i \in DOMAIN thread'.turns, NEW j \in DOMAIN thread'.turns,
                      NEW y \in thread'.turns[i], NEW z \in thread'.turns[j],
                      y.call = z.call, call[y.call].cut = 0
               PROVE  i = j /\ y = z
    BY <1>4 DEF WakeOnce
  <2>1. (y = x /\ i = p) \/ (i \in Turns /\ y \in thread.turns[i])
    BY <1>1
  <2>2. (z = x /\ j = p) \/ (j \in Turns /\ z \in thread.turns[j])
    BY <1>1
  <2>3. ASSUME i \in Turns, y \in thread.turns[i], j \in Turns, z \in thread.turns[j]
        PROVE  i = j /\ y = z
    BY <1>4, <2>3 DEF IInv, OnceInv, WakeOnce, Turns
  <2> QED
    BY <1>3, <1>4, <2>1, <2>2, <2>3
<1> QED
  BY <1>2, <1>4 DEF WakeOnce

\* The child's answer to a request.
LEMMA SaysIs ==
  ASSUME IInv, NEW c \in Calls, wire[c] # None, NEW said, Says(c, said)
  PROVE  /\ DOMAIN wire' = Calls
         /\ DOMAIN wire'[c] = {"step", "served", "said"}
         /\ wire'[c].served /\ wire'[c].said = said /\ wire'[c].step = wire[c].step
         /\ \A d \in Calls : d # c => wire'[d] = wire[d]
BY DEF IInv, Shaped, CallInv, Says

\* What a call that is answered keeps.
LEMMA SaysStays ==
  ASSUME IInv, NEW c \in Calls, wire[c] # None, ~ wire[c].served,
         NEW said, Says(c, said), UNCHANGED <<kind, bridge, call>>,
         said # Rejected /\ call[c].step = "search" /\ Delivered(c) =>
           (said.complete => said.found)
  PROVE  \A d \in Calls : Stays(d)
<1>1. ASSUME NEW d \in Calls, d # c PROVE Stays(d)
  BY <1>1, SaysIs, SameStays
<1>2. CallInv(c)'
  BY SaysIs DEF IInv, CallInv
<1>3. ~ InFlight(c) /\ ~ Settled(c)
  BY DEF IInv, CallInv, InFlight, Settled
<1>4. Delivered(c) /\ Searching(c) => Searching(c)'
  BY SaysIs DEF Searching
<1>5. Delivered(c) /\ Excused(c) => Excused(c)'
  BY <1>3, <1>4 DEF Excused, IInv, CallInv
<1> QED
  BY <1>1, <1>2, <1>3, <1>5 DEF Stays

LEMMA AnswersOnly ==
  ASSUME IInv, NEW c \in Calls, wire[c] # None, ~ wire[c].served,
         NEW said, Says(c, said), UNCHANGED <<kind, bridge, call, thread, orphans>>,
         DOMAIN left' = DOMAIN left, left'.lingers = left.lingers,
         said # Rejected /\ call[c].step = "search" /\ Delivered(c) =>
           (said.complete => said.found)
  PROVE  IInv'
<1>1. Shaped'
  BY SaysIs DEF IInv, Shaped
<1> QED
  BY <1>1, SaysStays, SameTurnsIs, QuietKeeps

\* A mutation that is applied is in flight.  If it is a message, no message of the
\* wake was delivered before: such a wake would search, have ended, or been cut.
LEMMA DeliversOnce ==
  ASSUME IInv, NEW c \in Calls, wire[c] # None, ~ wire[c].served,
         call[c].step \in Mutations, ~ left.lingers
  PROVE  ~ Delivered(c) \/ call[c].cut # 0
BY DEF IInv, Shaped, CallInv, OnceInv, Excused, InFlight, Settled, Searching, Mutations, Delivers

LEMMA AppliesKeeps ==
  ASSUME IInv, NEW c \in Calls, wire[c] # None, ~ wire[c].served,
         UNCHANGED <<kind, bridge, call, orphans, left>>, Says(c, None),
         NEW m, m.call = c, m.step = wire[c].step, m.attempt = call[c].attempt,
         m.step \in Mutations, Applicable(m), thread' = Applied(m)
  PROVE  IInv'
<1> USE DEF IInv
<1>1. /\ CallInv(c) /\ call[c].at = "answer" /\ m.step = call[c].step
      /\ m.step \in StepsOf(kind[c]) /\ m.attempt \in Nat /\ m.attempt >= 1
      /\ DOMAIN thread = {"status", "turns", "archived", "revision"}
  BY DEF CallInv, Shaped
<1>2. \A d \in Calls : Stays(d)
  BY <1>1, SaysStays DEF Mutations, Delivers
<1>3. m.step \in Delivers => InFlight(c)'
  BY <1>1, SaysIs, NullAssumption DEF InFlight
<1>4. CASE m.step = "thread/resume"
  <2>1. thread' = [thread EXCEPT !.status = "idle", !.revision = @ + 1]
    BY <1>4 DEF Applied
  <2>2. SameTurns /\ DOMAIN thread' = DOMAIN thread
    BY <1>1, <2>1 DEF SameTurns
  <2>3. Shaped'
    BY <2>2, SaysIs DEF Shaped
  <2> QED
    BY <1>2, <2>2, <2>3, QuietKeeps
<1>5. CASE m.step = "thread/archive"
  <2>1. thread' = [thread EXCEPT !.archived = @ \cup {c}]
    BY <1>5 DEF Applied
  <2>2. thread'.turns = thread.turns /\ thread'.archived = thread.archived \cup {c}
        /\ DOMAIN thread' = DOMAIN thread
    BY <1>1, <2>1
  <2>3. Shaped'
    BY <2>2, SaysIs DEF Shaped
  <2>4. Got' = Got
    BY <2>2 DEF Got
  <2>5. ThreadInv'
    BY <1>1, <2>2, <2>4 DEF ThreadInv
  <2>6. WakeOnce'
    BY <2>2, OnceStays
  <2>7. \A d \in Calls : Delivered(d)' => Delivered(d)
    BY <2>4 DEF Delivered
  <2>8. \A d \in Calls : Sent(d)' => Sent(d) \/ InFlight(d)'
    BY <1>3, <1>5, <2>2, <2>4 DEF Sent, Done, Delivers
  <2> QED
    BY <1>2, <2>3, <2>5, <2>6, <2>7, <2>8, StepKeeps
<1>6. CASE m.step \in {"turn/steer", "turn/start"}
  <2>1. /\ Lands(thread'.turns, Message(m)) /\ thread'.archived = thread.archived
        /\ DOMAIN thread' = DOMAIN thread
    BY <1>1, <1>6, AppliedLands
  <2>2. Shaped'
    BY <2>1, SaysIs DEF Shaped
  <2>3. Message(m) = [call |-> c, attempt |-> call[c].attempt] /\ Message(m).call = c
        /\ Message(m).attempt = call[c].attempt
    BY DEF Message
  <2>4. \A y \in Got' : y = Message(m) \/ y \in Got
    BY <2>1, LandsGot
  <2>5. ThreadInv'
    <3>1. thread'.turns \in Seq(SUBSET Messages)
      BY <2>1 DEF Lands
    <3>2. \A x \in Got' : x.attempt >= 1 /\ x.attempt <= call'[x.call].attempt
      BY <1>1, <2>3, <2>4, GotIs
    <3> QED
      BY <2>1, <3>1, <3>2 DEF ThreadInv
  <2>6. left.lingers \/ call'[Message(m).call].cut # 0
        \/ \A y \in Got : y.call # Message(m).call
    BY <1>1, <2>3, DeliversOnce DEF Delivered
  <2>7. WakeOnce'
    BY <2>1, <2>6, LandsGot
  <2>8. \A d \in Calls : Delivered(d)' => Delivered(d) \/ Excused(d)'
    BY <1>3, <1>6, <2>3, <2>4 DEF Delivered, Excused, Delivers
  <2>9. \A d \in Calls : Sent(d)' => Sent(d) \/ InFlight(d)'
    <3>1. ASSUME NEW d \in Calls, Done(d)' PROVE Done(d) \/ d = c
      BY <2>1, <2>3, <2>4, <3>1 DEF Done
    <3> QED
      BY <1>3, <1>6, <3>1 DEF Sent, Delivers
  <2> QED
    BY <1>2, <2>2, <2>5, <2>7, <2>8, <2>9, StepKeeps
<1> QED
  BY <1>4, <1>5, <1>6 DEF Mutations, Delivers

LEMMA ServeKeeps ==
  ASSUME IInv, NEW c \in Calls, Serve(c) \/ Reject(c) PROVE IInv'
<1>1. wire[c] # None /\ ~ wire[c].served /\ UNCHANGED <<kind, bridge, call, orphans>>
      /\ wire[c].step = call[c].step
  BY DEF Serve, Reject, IInv, CallInv
<1>2. CASE Reject(c)
  <2>1. DOMAIN left' = DOMAIN left /\ left'.lingers = left.lingers
    BY <1>2 DEF Reject, Fault, Spend, IInv, Shaped
  <2> QED
    BY <1>1, <1>2, <2>1, AnswersOnly DEF Reject
<1>3. CASE Serve(c)
  <2> DEFINE m == [call |-> c, step |-> wire[c].step, turn |-> call[c].turn,
                   attempt |-> call[c].attempt]
  <2>1. m.call = c /\ m.step = wire[c].step /\ m.attempt = call[c].attempt
    OBVIOUS
  <2>2. \/ /\ m.step \notin Mutations
           /\ Says(c, IF m.step = "search" THEN Sought(c) ELSE Said) /\ UNCHANGED thread
        \/ m.step \in Mutations /\ Applicable(m) /\ Says(c, None) /\ thread' = Applied(m)
        \/ Says(c, Rejected) /\ UNCHANGED thread
    BY <1>3 DEF Serve
  <2>3. left' = left
    BY <1>3 DEF Serve
  <2> HIDE DEF m
  <2>4. CASE m.step = "search" /\ Says(c, Sought(c)) /\ UNCHANGED thread
    BY <1>1, <2>3, <2>4, SoughtIs, AnswersOnly
  <2>5. CASE m.step # "search" /\ Says(c, Said) /\ UNCHANGED thread
    BY <1>1, <2>1, <2>3, <2>5, AnswersOnly
  <2>6. CASE m.step \in Mutations /\ Applicable(m) /\ Says(c, None) /\ thread' = Applied(m)
    BY <1>1, <2>1, <2>3, <2>6, AppliesKeeps
  <2>7. CASE Says(c, Rejected) /\ UNCHANGED thread
    BY <1>1, <2>3, <2>7, AnswersOnly
  <2> QED
    BY <2>2, <2>4, <2>5, <2>6, <2>7
<1> QED
  BY <1>2, <1>3

\* What a dropped child does was sent before, for an attempt that is in doubt.
LEMMA LingerKeeps ==
  ASSUME IInv, Linger PROVE IInv'
<1> USE DEF IInv
<1>1. PICK m \in orphans :
        /\ orphans' = orphans \ {m}
        /\ thread' = IF Applicable(m) THEN Applied(m) ELSE thread
        /\ UNCHANGED <<kind, bridge, call, wire, left>>
  BY DEF Linger
<1>2. /\ m.call \in Calls /\ m.step \in Delivers \cap StepsOf(kind[m.call])
      /\ m.attempt \in Nat /\ m.attempt >= 1 /\ m.attempt <= call[m.call].attempt
      /\ left.lingers /\ DOMAIN thread = {"status", "turns", "archived", "revision"}
  BY DEF ThreadInv, Shaped
<1>3. \A c \in Calls : Stays(c)
  BY <1>1, SameStays
<1>4. m.attempt = call[m.call].attempt => Sent(m.call)
  BY DEF Sent
<1>5. ASSUME Got' = Got, thread'.turns \in Seq(SUBSET Messages),
             thread'.archived = thread.archived, DOMAIN thread' = DOMAIN thread
      PROVE  IInv'
  <2>1. Shaped'
    BY <1>1, <1>5 DEF Shaped
  <2>2. ThreadInv'
    BY <1>1, <1>2, <1>5 DEF ThreadInv
  <2>3. \A c \in Calls : Sent(c)' => Sent(c)
    BY <1>1, <1>5 DEF Sent, Done
  <2>4. \A c \in Calls : Delivered(c)' => Delivered(c)
    BY <1>5 DEF Delivered
  <2>5. WakeOnce'
    BY <1>1, <1>2 DEF WakeOnce
  <2> QED
    BY <1>1, <1>3, <2>1, <2>2, <2>3, <2>4, <2>5, StepKeeps
<1>6. CASE ~ Applicable(m)
  BY <1>1, <1>5, <1>6 DEF Got, ThreadInv
<1>7. CASE Applicable(m) /\ m.step = "thread/archive"
  <2>1. thread' = [thread EXCEPT !.archived = @ \cup {m.call}]
    BY <1>1, <1>7 DEF Applied
  <2>2. thread'.turns = thread.turns /\ thread'.archived = thread.archived \cup {m.call}
        /\ DOMAIN thread' = DOMAIN thread
    BY <1>2, <2>1
  <2>3. Shaped'
    BY <1>1, <2>2 DEF Shaped
  <2>4. Got' = Got
    BY <2>2 DEF Got
  <2>5. ThreadInv'
    <3>1. \A c \in thread'.archived : c \in Calls /\ call'[c].attempt >= 1
      <4>1. call[m.call].attempt \in Nat /\ call[m.call].attempt >= 1
        BY <1>2 DEF CallInv
      <4> QED
        BY <1>1, <1>2, <2>2, <4>1 DEF ThreadInv
    <3> QED
      BY <1>1, <1>2, <2>2, <2>4, <3>1 DEF ThreadInv
  <2>6. kind[m.call] = "archive"
    BY <1>2, <1>7 DEF StepsOf
  <2>7. m.attempt = call[m.call].attempt
    BY <1>2, <2>6 DEF CallInv
  <2>8. \A c \in Calls : Sent(c)' => Sent(c)
    BY <1>1, <1>4, <2>2, <2>4, <2>7 DEF Sent, Done
  <2>9. \A c \in Calls : Delivered(c)' => Delivered(c)
    BY <2>4 DEF Delivered
  <2>10. WakeOnce'
    BY <1>1, <1>2 DEF WakeOnce
  <2> QED
    BY <1>1, <1>3, <2>3, <2>5, <2>8, <2>9, <2>10, StepKeeps
<1>8. CASE Applicable(m) /\ m.step \in {"turn/steer", "turn/start"}
  <2>1. /\ Lands(thread'.turns, Message(m)) /\ thread'.archived = thread.archived
        /\ DOMAIN thread' = DOMAIN thread
    BY <1>1, <1>2, <1>8, AppliedLands
  <2>2. Shaped'
    BY <1>1, <2>1 DEF Shaped
  <2>3. Message(m) = [call |-> m.call, attempt |-> m.attempt]
        /\ Message(m).call = m.call /\ Message(m).attempt = m.attempt
    BY DEF Message
  <2>4. \A y \in Got' : y = Message(m) \/ y \in Got
    BY <2>1, LandsGot
  <2>5. ThreadInv'
    <3>1. thread'.turns \in Seq(SUBSET Messages)
      BY <2>1 DEF Lands
    <3>2. \A x \in Got' : x.attempt >= 1 /\ x.attempt <= call'[x.call].attempt
      BY <1>1, <1>2, <2>3, <2>4, GotIs
    <3> QED
      BY <1>1, <1>2, <2>1, <3>1, <3>2 DEF ThreadInv
  <2>6. \A c \in Calls : Sent(c)' => Sent(c)
    <3>1. ASSUME NEW c \in Calls, Done(c)' PROVE Sent(c)
      <4>1. CASE kind[c] = "wake"
        <5>1. [call |-> c, attempt |-> call[c].attempt] \in Got'
          BY <1>1, <3>1, <4>1 DEF Done
        <5>2. CASE [call |-> c, attempt |-> call[c].attempt] = Message(m)
          BY <1>4, <2>3, <5>2
        <5>3. CASE [call |-> c, attempt |-> call[c].attempt] \in Got
          BY <4>1, <5>3 DEF Sent, Done
        <5> QED
          BY <2>4, <5>1, <5>2, <5>3
      <4>2. CASE kind[c] # "wake"
        BY <1>1, <2>1, <3>1, <4>2 DEF Sent, Done
      <4> QED
        BY <4>1, <4>2
    <3> QED
      BY <1>1, <3>1 DEF Sent
  <2>7. WakeOnce'
    BY <1>1, <1>2 DEF WakeOnce
  <2> QED
    BY <1>1, <1>2, <1>3, <2>2, <2>5, <2>6, <2>7, StepKeeps
<1> QED
  BY <1>2, <1>6, <1>7, <1>8 DEF Delivers

LEMMA ThreadKeeps ==
  ASSUME IInv, Thread PROVE IInv'
<1> USE DEF IInv
<1>1. /\ UNCHANGED <<kind, bridge, call, wire, orphans>>
      /\ DOMAIN left' = DOMAIN left /\ left'.lingers = left.lingers
      /\ DOMAIN thread = {"status", "turns", "archived", "revision"}
  BY DEF Thread, Spend, Shaped
<1>2. \A c \in Calls : Stays(c)
  BY <1>1, SameStays
<1>3. CASE EndTurn \/ Unload
  <2>1. SameTurns /\ DOMAIN thread' = DOMAIN thread
    BY <1>1, <1>3 DEF EndTurn, Unload, SameTurns
  <2>2. Shaped'
    BY <1>1, <2>1 DEF Shaped
  <2> QED
    BY <1>1, <1>2, <2>1, <2>2, QuietKeeps
<1>4. CASE StartTurn
  <2> DEFINE t == Append(thread.turns, {})
  <2>1. thread' = [thread EXCEPT !.status = "active", !.turns = t, !.revision = @ + 1]
    BY <1>4 DEF StartTurn, NewTurn
  <2>2. thread'.turns = t /\ thread'.archived = thread.archived
        /\ DOMAIN thread' = DOMAIN thread
    <3> HIDE DEF t
    <3> QED
      BY <1>1, <2>1
  <2>3. t \in Seq(SUBSET Messages)
    BY TurnsAre
  <2>4. DOMAIN t = 1..(Last + 1) /\ t[Last + 1] = {}
        /\ \A j \in Turns : t[j] = thread.turns[j]
    BY TurnsAre DEF Last
  <2> HIDE DEF t
  <2>5. \A j \in DOMAIN t : j = Last + 1 \/ j \in Turns
    BY <2>4, TurnsAre
  <2>6. \A j \in DOMAIN t : \A y \in t[j] : j \in Turns /\ y \in thread.turns[j]
    BY <2>4, <2>5
  <2>7. \A y \in Got' : y \in Got
    BY <2>2, <2>6, TurnsAre DEF Got
  <2>8. \A y \in Got : y \in Got'
    <3>1. Turns \subseteq DOMAIN t
      BY <2>4, TurnsAre
    <3> QED
      BY <2>2, <2>4, <3>1, TurnsAre DEF Got
  <2>9. Shaped' /\ ThreadInv'
    BY <1>1, <2>2, <2>3, <2>7 DEF Shaped, ThreadInv
  <2>10. WakeOnce'
    BY <1>1, <2>2, <2>6 DEF WakeOnce, OnceInv, Turns
  <2>11. \A c \in Calls : (Sent(c)' => Sent(c)) /\ (Delivered(c)' => Delivered(c))
    BY <1>1, <2>2, <2>7 DEF Sent, Done, Delivered
  <2> QED
    BY <1>1, <1>2, <2>9, <2>10, <2>11, StepKeeps
<1> QED
  BY <1>3, <1>4 DEF Thread

-----------------------------------------------------------------------------
LEMMA IInvStep == IInv /\ [Next]_vars => IInv'
<1> SUFFICES ASSUME IInv, [Next]_vars PROVE IInv'
  OBVIOUS
<1>1. CASE UNCHANGED vars
  <2>1. UNCHANGED <<kind, bridge, call, wire, thread, orphans, left>>
    BY <1>1 DEF vars
  <2>2. Shaped'
    BY <2>1 DEF IInv, Shaped
  <2>3. \A c \in Calls : Stays(c)
    BY <2>1, SameStays
  <2> QED
    BY <2>1, <2>2, <2>3, SameTurnsIs, QuietKeeps
<1>2. ASSUME NEW c \in Calls, Job(c) PROVE IInv'
  BY <1>2, RequestsKeeps, LateKeeps, WriteKeeps DEF Job
<1>3. ASSUME NEW c \in Calls, Timer(c) PROVE IInv'
  BY <1>3, LateKeeps, AnswerTimesOutKeeps, WaitKeeps DEF Timer
<1>4. ASSUME NEW c \in Calls, Begin(c) \/ Repeat(c) PROVE IInv'
  BY <1>4, BeginKeeps, RepeatKeeps
<1>5. ASSUME NEW c \in Calls, Answered(c) \/ Garbled(c) \/ Serve(c) \/ Reject(c) PROVE IInv'
  BY <1>5, AnsweredKeeps, GarbledKeeps, ServeKeeps
<1>6. CASE Connected
  BY <1>6, ConnectedKeeps
<1>7. CASE Refused \/ ConnectsInVain \/ ConnectTimesOut \/ Breaks \/ Close
  BY <1>7, DropsKeep
<1>8. CASE Linger
  BY <1>8, LingerKeeps
<1>9. CASE Thread
  BY <1>9, ThreadKeeps
<1> QED
  BY <1>1, <1>2, <1>3, <1>4, <1>5, <1>6, <1>7, <1>8, <1>9 DEF Next

LEMMA IInvUnapplied == IInv => CertainIsUnapplied
<1> SUFFICES ASSUME IInv, NEW c \in Calls, call[c].at = "ended",
                    call[c].cut # call[c].attempt, call[c].end \in {"unapplied", "failed", "deferred"}
             PROVE  ~ Done(c)
  BY DEF CertainIsUnapplied, Done
<1>1. ~ InFlight(c) /\ ~ Settled(c)
  BY DEF InFlight, Settled
<1> QED
  BY <1>1 DEF IInv, CertainInv, Sent

(* What a wake or an archive reports as failed, put off or certainly not     *)
(* applied is not applied (mutationFailure), for any calls and faults: a     *)
(* mutation that was sent is held by the child, was answered, or its call    *)
(* ended as done or uncertain.  Excepted are the requests that were sent and *)
(* then rejected, with the connection, by an error that is not theirs and    *)
(* says so all the same (cut).                                               *)
THEOREM UnappliedIsCertain == Spec => []CertainIsUnapplied
<1>1. IInv => CertainIsUnapplied
  BY IInvUnapplied
<1> QED
  BY <1>1, IInvInit, IInvStep, PTL DEF Spec

(* The message of a wake gets into the queen's thread once at most, for any  *)
(* number of attempts and any page size (deliverParentWake), as long as      *)
(* children that were dropped do nothing more and no attempt was cut: one    *)
(* that may have delivered is followed by one that searches all there is, or *)
(* sends nothing.                                                            *)
THEOREM WakesOnce == Spec => []WakeOnce
<1>1. IInv => WakeOnce
  BY DEF IInv, OnceInv
<1> QED
  BY <1>1, IInvInit, IInvStep, PTL DEF Spec
=============================================================================
