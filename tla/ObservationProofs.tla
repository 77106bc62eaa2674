--------------------------- MODULE ObservationProofs ---------------------------
(***************************************************************************)
(* The parent join for any number of units, attempts, receipts, decisions, *)
(* turns and failures: what is accepted is what was decided on and stays   *)
(* accepted, the checkpoint never runs ahead of the execution record, and  *)
(* continue is earned.                                                     *)
(***************************************************************************)
EXTENDS Observation, TLAPS

Talks == Seq(Envelopes \cup {Malformed})

RecordFields ==
  {"revision", "attempt", "maxAttempts", "required", "readable", "binding", "history"}

MemberFields ==
  {"attempt", "required", "title", "retry", "state", "latest", "alarm", "result",
   "source", "envelope", "coordination"}

CheckpointFields == {"generation", "members", "consumed"}

Verdict(u, attempt, turn, verdict) ==
  [unit |-> u, attempt |-> attempt, turn |-> turn, verdict |-> verdict]

\* A record of the execution store, as far as the join looks at it.
RecordShape(r) ==
  /\ DOMAIN r = RecordFields
  /\ r.attempt \in Nat

\* A member, with the turns of its task and the decisions of the queen.
MemberInv(u, m, talk, ds) ==
  /\ DOMAIN m = MemberFields
  /\ m.attempt \in Nat /\ m.latest \in Nat
  /\ m.required => m.coordination # "detached"
  /\ m.state = "terminal" => m.latest <= Len(talk)
  /\ m.result = "current" =>
       /\ m.state = "terminal" /\ m.source = m.latest /\ m.source \in 1 .. Len(talk)
       /\ m.envelope = talk[m.source] /\ m.envelope.attempt = m.attempt
  /\ m.coordination = "accepted" =>
       m.result = "current" /\ Verdict(u, m.attempt, m.source, "accepted") \in ds
  /\ m.coordination = "correction-pending" /\ m.result = "current" =>
       Verdict(u, m.attempt, m.source, "rejected") \in ds

MembersInv(cp, fs, talks, ds) ==
  /\ DOMAIN cp = CheckpointFields
  /\ \A u \in DOMAIN cp.members :
       /\ u \in Units /\ fs[u].binding.state = "bound"
       /\ MemberInv(u, cp.members[u], talks[u], ds)

Used(cp) == {cp.consumed[i] : i \in 1 .. Len(cp.consumed)}

\* A correction that was taken has advanced the attempt.
Spent(r, fs) ==
  r.action.type = "correct" =>
    /\ r.action.unit \in Units /\ r.action.attempt \in Nat
    /\ r.action.attempt < fs[r.action.unit].attempt

ConsumedInv(cp, fs) ==
  cp.consumed \in Seq(Used(cp)) /\ \A r \in Used(cp) : Spent(r, fs)

NotAhead(cp, fs) ==
  \A u \in DOMAIN cp.members :
    /\ cp.members[u].attempt <= fs[u].attempt
    /\ fs[u].required => cp.members[u].required

\* The current result of an attempt, which stays until the queen rejects it.
Frozen(cp, u, attempt, turn) ==
  /\ u \in DOMAIN cp.members
  /\ cp.members[u].attempt = attempt /\ cp.members[u].result = "current"
  /\ cp.members[u].source = turn

Follows(old, new, fs, ds) ==
  \A u \in DOMAIN old.members :
    LET m == old.members[u]
    IN  m.result = "current" /\ m.attempt = fs[u].attempt =>
          \/ Frozen(new, u, m.attempt, m.source)
          \/ Verdict(u, m.attempt, m.source, "rejected") \in ds

HostInv ==
  /\ DOMAIN file = Units /\ \A u \in Units : RecordShape(file[u])
  /\ DOMAIN said = Units /\ \A u \in Units : said[u] \in Talks
  /\ DOMAIN lifecycle = Units
  /\ DOMAIN asked = Units /\ \A u \in Units : asked[u] \in Nat
  /\ DOMAIN decide = Deciders

CheckpointInv ==
  /\ MembersInv(Stored, file, said, decisions)
  /\ NotAhead(Stored, file) /\ ConsumedInv(Stored, file)

\* Between the two writes the checkpoint to come may be ahead by the attempt, or
\* the detachment, that is about to be stored.
StoreInv(action, next, fs, spent) ==
  /\ action.unit \in Units /\ action.type \in {"correct", "repair"}
  /\ action.type = "correct" =>
       /\ action.attempt \in Nat /\ action.attempt <= spent[action.unit]
       /\ fs[action.unit].attempt \in {action.attempt, action.attempt + 1}
       /\ fs[action.unit].attempt = action.attempt =>
            /\ action.unit \in DOMAIN next.members
            /\ next.members[action.unit].attempt = action.attempt + 1
  /\ \A u \in DOMAIN next.members :
       fs[u].required => next.members[u].required
                         \/ (action.type = "repair" /\ u = action.unit)
  /\ next.consumed \in Seq(Used(next))
  /\ \A r \in Used(next) : Spent(r, fs) \/ r.action = action

WriteInv(next, fs, unbound) ==
  /\ NotAhead(next, fs) /\ ConsumedInv(next, fs)
  /\ ~ unbound => \A u \in Units : fs[u].required => u \in DOMAIN next.members

AdvanceInv ==
  advance # None =>
    /\ DOMAIN advance = {"action", "next", "at", "unbound"}
    /\ MembersInv(advance.next, file, said, decisions)
    /\ Follows(Stored, advance.next, file, decisions)
    /\ ~ advance.unbound =>
         \A u \in Units : file[u].required => file[u].binding.state = "bound"
    /\ advance.at = "write" => WriteInv(advance.next, file, advance.unbound)
    /\ advance.at = "store" => StoreInv(advance.action, advance.next, file, asked)

\* What is decided is a turn that ended, and what is accepted is a success that
\* is still the current result of the attempt the record is at, unless the
\* queen rejected it meanwhile.
DecisionInv(p, cp, fs, talks, ds) ==
  /\ p \in [unit : Units, attempt : Nat, turn : Nat, verdict : {"accepted", "rejected"}]
  /\ p.turn \in 1 .. Len(talks[p.unit])
  /\ p.verdict = "accepted" =>
       /\ talks[p.unit][p.turn].succeeded
       /\ \/ Verdict(p.unit, p.attempt, p.turn, "rejected") \in ds
          \/ /\ fs[p.unit].attempt = p.attempt
             /\ Frozen(cp, p.unit, p.attempt, p.turn)

DecisionsInv ==
  /\ \A p \in decisions : DecisionInv(p, Stored, file, said, decisions)
  /\ \A d \in Deciders :
       decide[d] # None =>
         /\ DOMAIN decide[d] = {"new", "at"}
         /\ DecisionInv(decide[d].new, Stored, file, said, decisions)
  /\ \A p, q \in decisions : SameDecisionId(p, q) => p = q

EffectInv(e, fs, talks) ==
  /\ e.type # "wait" => e.unit \in Units
  /\ e.type = "read" => e.turn \in 1 .. Len(talks[e.unit])
  /\ e.type = "correct" => e.attempt \in Nat /\ e.attempt <= fs[e.unit].attempt

ReceiptInv(r, talks, spent) ==
  /\ r.action.type # "wait" => r.action.unit \in Units
  /\ r.action.type = "wait" =>
       \A u \in DOMAIN r.said.targets :
         LET target == r.said.targets[u]
         IN  /\ u \in Units /\ target.turn \in Nat
             /\ target.lifecycle = "completed" => target.turn <= Len(talks[u])
  /\ r.action.type = "read" =>
       /\ r.said.source \in 1 .. Len(talks[r.action.unit])
       /\ r.said.envelope = talks[r.action.unit][r.said.source]
  /\ r.action.type = "correct" =>
       r.action.attempt \in Nat /\ r.action.attempt <= spent[r.action.unit]

QueenInv ==
  /\ DOMAIN answer.targets \subseteq Units
  /\ \A e \in answer.effects : EffectInv(e, file, said)
  /\ \A r \in receipts : ReceiptInv(r, said, asked)
  /\ ContinueIsEarned

IInv ==
  /\ HostInv /\ CheckpointInv /\ AdvanceInv /\ DecisionsInv /\ QueenInv
  /\ AttemptsWereDelivered

-----------------------------------------------------------------------------
(* One member                                                              *)

\* Turns are only added to a task.
Longer(s, t) ==
  /\ Len(s) \in Nat /\ Len(t) \in Nat /\ Len(s) <= Len(t)
  /\ \A i \in 1 .. Len(s) : t[i] = s[i]

LEMMA MemberKeeps ==
  ASSUME NEW u, NEW m, NEW s, NEW t, NEW ds, NEW es, Longer(s, t), ds \subseteq es,
         MemberInv(u, m, s, ds)
  PROVE  MemberInv(u, m, t, es)
BY DEF MemberInv, Longer

\* A policy touches the coordination and the alarm.
Alike(m, n) ==
  /\ n.attempt = m.attempt /\ n.required = m.required /\ n.state = m.state
  /\ n.latest = m.latest /\ n.result = m.result /\ n.source = m.source
  /\ n.envelope = m.envelope

LEMMA CoordinationIs ==
  ASSUME NEW u, NEW m, NEW talk, MemberInv(u, m, talk, decisions), NEW n,
         DOMAIN n = MemberFields, Alike(m, n),
         \/ n.coordination = m.coordination
         \/ /\ n.coordination \in {"collected", "waiting"}
         \/ n.coordination = "accepted" /\ Decided(u, m, "accepted")
         \/ n.coordination = "correction-pending"
            /\ (m.result = "current" => Decided(u, m, "rejected"))
  PROVE  MemberInv(u, n, talk, decisions)
BY DEF MemberInv, Alike, Decided, Verdict

LEMMA DecisionsApplied ==
  ASSUME NEW u, NEW m, NEW talk, MemberInv(u, m, talk, decisions)
  PROVE  LET n == ApplyDecisions(u, m)
         IN  MemberInv(u, n, talk, decisions) /\ Alike(m, n)
<1> DEFINE n == ApplyDecisions(u, m)
<1>1. DOMAIN m = MemberFields
  BY DEF MemberInv
<1>2. DOMAIN n = MemberFields /\ Alike(m, n)
  BY <1>1 DEF ApplyDecisions, Alike, MemberFields
<1>3. \/ n.coordination = m.coordination
      \/ n.coordination = "collected"
      \/ n.coordination = "accepted" /\ Decided(u, m, "accepted")
      \/ n.coordination = "correction-pending" /\ Decided(u, m, "rejected")
  BY <1>1 DEF ApplyDecisions, MemberFields
<1> HIDE DEF n
<1>4. MemberInv(u, n, talk, decisions)
  BY <1>2, <1>3, CoordinationIs
<1> QED
  BY <1>2, <1>4 DEF n

LEMMA MalformedApplied ==
  ASSUME NEW u, NEW m, NEW talk, MemberInv(u, m, talk, decisions)
  PROVE  LET n == ApplyMalformedResultPolicy(u, m)
         IN  MemberInv(u, n, talk, decisions) /\ Alike(m, n)
<1> DEFINE n == ApplyMalformedResultPolicy(u, m)
<1>1. DOMAIN m = MemberFields
  BY DEF MemberInv
<1>2. DOMAIN n = MemberFields /\ Alike(m, n)
  BY <1>1 DEF ApplyMalformedResultPolicy, Alike, MemberFields
<1>3. \/ n.coordination = m.coordination
      \/ n.coordination = "correction-pending" /\ m.result = "malformed"
  BY <1>1 DEF ApplyMalformedResultPolicy, MemberFields
<1> HIDE DEF n
<1>4. MemberInv(u, n, talk, decisions)
  BY <1>2, <1>3, CoordinationIs
<1> QED
  BY <1>2, <1>4 DEF n

LEMMA TitleApplied ==
  ASSUME NEW u, NEW m, NEW talk, MemberInv(u, m, talk, decisions), NEW title
  PROVE  LET n == TitleObserved(m, title)
         IN  MemberInv(u, n, talk, decisions) /\ Alike(m, n)
<1> DEFINE n == TitleObserved(m, title)
<1>1. DOMAIN m = MemberFields
  BY DEF MemberInv
<1>2. DOMAIN n = MemberFields /\ Alike(m, n) /\ n.coordination = m.coordination
  BY <1>1 DEF TitleObserved, Alike, MemberFields
<1> HIDE DEF n
<1>3. MemberInv(u, n, talk, decisions)
  BY <1>2, CoordinationIs
<1> QED
  BY <1>2, <1>3 DEF n

LEMMA WaitApplied ==
  ASSUME NEW u, NEW m, NEW talk, MemberInv(u, m, talk, decisions), NEW target,
         m.state # "terminal", target.turn \in Nat,
         target.lifecycle = "completed" => target.turn <= Len(talk)
  PROVE  LET n == Waited(m, target)
         IN  /\ MemberInv(u, n, talk, decisions)
             /\ n.attempt = m.attempt /\ n.required = m.required
<1> DEFINE moved == m.source # 0 /\ m.source # target.turn
           n == Waited(m, target)
<1>1. DOMAIN m = MemberFields /\ m.result # "current" /\ m.coordination # "accepted"
  BY DEF MemberInv
<1>2. n = [m EXCEPT
         !.latest = target.turn,
         !.alarm = target.lifecycle = "failed",
         !.state = CASE target.lifecycle = "failed" -> "attention"
                     [] target.lifecycle = "completed" -> "terminal"
                     [] OTHER -> "running",
         !.result = IF moved THEN "stale" ELSE @,
         !.coordination = IF moved \/ @ = "unjoined" THEN "waiting" ELSE @]
  BY DEF Waited
<1> HIDE DEF n, moved
<1>3. /\ DOMAIN n = MemberFields /\ n.attempt = m.attempt /\ n.required = m.required
      /\ n.latest = target.turn /\ n.result # "current"
      /\ n.coordination \in {m.coordination, "waiting"}
      /\ n.state = "terminal" => target.lifecycle = "completed"
  BY <1>1, <1>2 DEF MemberFields
<1>4. MemberInv(u, n, talk, decisions)
  BY <1>1, <1>3 DEF MemberInv
<1> QED
  BY <1>3, <1>4 DEF n

LEMMA ReadApplied ==
  ASSUME NEW u, NEW m, NEW talk, MemberInv(u, m, talk, decisions), NEW answered,
         m.state = "terminal", Len(talk) \in Nat,
         answered.source \in 1 .. Len(talk), answered.envelope = talk[answered.source]
  PROVE  LET n == ResultRead(m, answered)
         IN  /\ MemberInv(u, n, talk, decisions)
             /\ n.attempt = m.attempt /\ n.required = m.required
<1> DEFINE current == answered.source = m.latest /\ answered.envelope.attempt = m.attempt
           n == ResultRead(m, answered)
<1>1. DOMAIN m = MemberFields
  BY DEF MemberInv
<1>2. CASE answered.envelope = Malformed
  <2>1. n = [m EXCEPT !.result = "malformed", !.source = answered.source,
                      !.envelope = None, !.coordination = "waiting"]
    BY <1>2 DEF ResultRead
  <2> HIDE DEF n
  <2>2. /\ DOMAIN n = MemberFields /\ n.attempt = m.attempt /\ n.required = m.required
        /\ n.latest = m.latest /\ n.state = m.state /\ n.result = "malformed"
        /\ n.coordination = "waiting"
    BY <1>1, <2>1 DEF MemberFields
  <2>3. MemberInv(u, n, talk, decisions)
    BY <2>2 DEF MemberInv
  <2> QED
    BY <2>2, <2>3 DEF n
<1>3. CASE answered.envelope # Malformed
  <2>1. n = [m EXCEPT !.result = IF current THEN "current" ELSE "stale",
                      !.source = answered.source, !.envelope = answered.envelope,
                      !.coordination = IF current THEN "collected" ELSE "waiting"]
    BY <1>3 DEF ResultRead
  <2> HIDE DEF n
  <2>2. /\ DOMAIN n = MemberFields /\ n.attempt = m.attempt /\ n.required = m.required
        /\ n.latest = m.latest /\ n.state = m.state /\ n.source = answered.source
        /\ n.envelope = answered.envelope /\ (n.result = "current" => current)
        /\ n.coordination \in {"collected", "waiting"}
    BY <1>1, <2>1 DEF MemberFields
  <2>3. MemberInv(u, n, talk, decisions)
    BY <2>2 DEF MemberInv
  <2> QED
    BY <2>2, <2>3 DEF n
<1> QED
  BY <1>2, <1>3

LEMMA FollowUpApplied ==
  ASSUME NEW u, NEW m, NEW talk, MemberInv(u, m, talk, decisions)
  PROVE  LET n == FollowedUp(m)
         IN  /\ MemberInv(u, n, talk, decisions)
             /\ n.attempt = m.attempt + 1 /\ n.required = m.required
<1> DEFINE n == FollowedUp(m)
<1>1. DOMAIN m = MemberFields
  BY DEF MemberInv
<1>2. /\ DOMAIN n = MemberFields /\ n.attempt = m.attempt + 1 /\ n.required = m.required
      /\ n.latest = m.latest /\ n.state = "waiting" /\ n.result = "absent"
      /\ n.coordination = "waiting"
  BY <1>1 DEF FollowedUp, MemberFields
<1> HIDE DEF n
<1>3. MemberInv(u, n, talk, decisions)
  BY <1>2 DEF MemberInv
<1> QED
  BY <1>2, <1>3 DEF n

LEMMA RepairApplied ==
  ASSUME NEW u, NEW m, NEW talk, MemberInv(u, m, talk, decisions)
  PROVE  LET n == Repaired(m)
         IN  /\ MemberInv(u, n, talk, decisions)
             /\ n.attempt = m.attempt /\ n.result = m.result /\ n.source = m.source
<1> DEFINE n == Repaired(m)
<1>1. DOMAIN m = MemberFields
  BY DEF MemberInv
<1>2. /\ DOMAIN n = MemberFields /\ n.attempt = m.attempt /\ n.required = FALSE
      /\ n.latest = m.latest /\ n.state = m.state /\ n.result = m.result
      /\ n.source = m.source /\ n.envelope = m.envelope /\ n.coordination = "detached"
  BY <1>1 DEF Repaired, MemberFields
<1> HIDE DEF n
<1>3. MemberInv(u, n, talk, decisions)
  BY <1>2 DEF MemberInv
<1> QED
  BY <1>2, <1>3 DEF n

LEMMA InitialIs ==
  ASSUME NEW u, NEW r, RecordShape(r), NEW talk, NEW ds, Len(talk) \in Nat
  PROVE  LET n == InitialMember(u, r)
         IN  MemberInv(u, n, talk, ds) /\ n.attempt = r.attempt
             /\ n.required = r.required
<1> DEFINE n == InitialMember(u, r)
<1>1. /\ DOMAIN n = MemberFields /\ n.attempt = r.attempt /\ n.required = r.required
      /\ n.latest = 0 /\ n.state = "unknown" /\ n.result = "absent"
      /\ n.coordination = IF r.required THEN "unjoined" ELSE "detached"
  BY DEF InitialMember, MemberFields
<1> HIDE DEF n
<1>2. MemberInv(u, n, talk, ds)
  BY <1>1 DEF MemberInv, RecordShape
<1> QED
  BY <1>1, <1>2 DEF n

-----------------------------------------------------------------------------
(* The checkpoint                                                          *)

\* Every bound unit has a member at the attempt of its record: the old one, or
\* a new one when there was none of that attempt.
Synthesized(cp, fs, n) ==
  /\ n.consumed = cp.consumed
  /\ DOMAIN n.members = {u \in Units : fs[u].binding.state = "bound"}
  /\ \A u \in DOMAIN n.members :
       /\ n.members[u].attempt = fs[u].attempt
       /\ \/ u \in DOMAIN cp.members /\ n.members[u] = cp.members[u]
          \/ n.members[u].required = fs[u].required
  /\ \A u \in DOMAIN n.members \cap DOMAIN cp.members :
       cp.members[u].attempt = fs[u].attempt => n.members[u] = cp.members[u]

LEMMA SynthesizeIs ==
  ASSUME NEW cp, NEW fs, NEW talks, NEW ds,
         \A u \in Units : RecordShape(fs[u]) /\ Len(talks[u]) \in Nat,
         DOMAIN cp = CheckpointFields,
         \A u \in DOMAIN cp.members : MemberInv(u, cp.members[u], talks[u], ds)
  PROVE  /\ MembersInv(Synthesize(cp, fs), fs, talks, ds)
         /\ Synthesized(cp, fs, Synthesize(cp, fs))
<1> DEFINE bound == {u \in Units : fs[u].binding.state = "bound"}
           keeps(u) == u \in DOMAIN cp.members /\ SameBinding(cp.members[u], fs[u])
           ms == [u \in bound |->
                    IF keeps(u) THEN cp.members[u] ELSE InitialMember(u, fs[u])]
           n == Synthesize(cp, fs)
<1>1. n = [cp EXCEPT !.members = ms]
  BY DEF Synthesize
<1>2. DOMAIN n = CheckpointFields /\ n.members = ms /\ n.consumed = cp.consumed
  <2> HIDE DEF n, ms
  <2> QED
    BY <1>1 DEF CheckpointFields
<1>3. ASSUME NEW u \in bound
      PROVE  /\ MemberInv(u, ms[u], talks[u], ds) /\ ms[u].attempt = fs[u].attempt
             /\ \/ u \in DOMAIN cp.members /\ ms[u] = cp.members[u]
                \/ ms[u].required = fs[u].required
             /\ keeps(u) => ms[u] = cp.members[u]
  <2>1. CASE keeps(u)
    BY <2>1 DEF SameBinding
  <2>2. CASE ~ keeps(u)
    <3>1. ms[u] = InitialMember(u, fs[u])
      BY <2>2
    <3> HIDE DEF ms, keeps
    <3> QED
      BY <2>2, <3>1, InitialIs
  <2> QED
    BY <2>1, <2>2
<1>4. DOMAIN ms = bound
  OBVIOUS
<1> HIDE DEF n, ms
<1>5. MembersInv(n, fs, talks, ds)
  BY <1>2, <1>3, <1>4 DEF MembersInv
<1>6. Synthesized(cp, fs, n)
  BY <1>2, <1>3, <1>4 DEF Synthesized, SameBinding
<1> QED
  BY <1>5, <1>6 DEF n

\* The policies leave all but coordination and alarms.
Similar(cp, n) ==
  /\ n.consumed = cp.consumed /\ DOMAIN n.members = DOMAIN cp.members
  /\ \A u \in DOMAIN cp.members : Alike(cp.members[u], n.members[u])

Sound(cp) == MembersInv(cp, file, said, decisions)

LEMMA PoliciesAre ==
  ASSUME NEW cp, Sound(cp)
  PROVE  Sound(ApplyResultPolicies(cp)) /\ Similar(cp, ApplyResultPolicies(cp))
<1> DEFINE ms == [u \in DOMAIN cp.members |->
                    ApplyMalformedResultPolicy(u, ApplyDecisions(u, cp.members[u]))]
           n == ApplyResultPolicies(cp)
<1>1. n = [cp EXCEPT !.members = ms]
  BY DEF ApplyResultPolicies
<1>2. DOMAIN n = CheckpointFields /\ n.members = ms /\ n.consumed = cp.consumed
  <2> HIDE DEF n, ms
  <2> QED
    BY <1>1 DEF CheckpointFields, Sound, MembersInv
<1>3. ASSUME NEW u \in DOMAIN cp.members
      PROVE  MemberInv(u, ms[u], said[u], decisions) /\ Alike(cp.members[u], ms[u])
  <2>1. MemberInv(u, cp.members[u], said[u], decisions)
    BY DEF Sound, MembersInv
  <2> DEFINE m == ApplyDecisions(u, cp.members[u])
  <2>2. MemberInv(u, m, said[u], decisions) /\ Alike(cp.members[u], m)
    BY <2>1, DecisionsApplied
  <2>3. ms[u] = ApplyMalformedResultPolicy(u, m)
    OBVIOUS
  <2> HIDE DEF m, ms
  <2> QED
    BY <2>2, <2>3, MalformedApplied DEF Alike
<1>4. DOMAIN ms = DOMAIN cp.members
  OBVIOUS
<1> HIDE DEF n, ms
<1>5. Sound(n) /\ Similar(cp, n)
  BY <1>2, <1>3, <1>4 DEF Sound, MembersInv, Similar
<1> QED
  BY <1>5 DEF n

Malformed2(cp) ==
  [cp EXCEPT !.members = [u \in DOMAIN @ |-> ApplyMalformedResultPolicy(u, @[u])]]

LEMMA PolicyIs ==
  ASSUME NEW cp, Sound(cp)
  PROVE  Sound(Malformed2(cp)) /\ Similar(cp, Malformed2(cp))
<1> DEFINE ms == [u \in DOMAIN cp.members |-> ApplyMalformedResultPolicy(u, cp.members[u])]
           n == Malformed2(cp)
<1>1. n = [cp EXCEPT !.members = ms]
  BY DEF Malformed2
<1>2. DOMAIN n = CheckpointFields /\ n.members = ms /\ n.consumed = cp.consumed
  <2> HIDE DEF n, ms
  <2> QED
    BY <1>1 DEF CheckpointFields, Sound, MembersInv
<1>3. ASSUME NEW u \in DOMAIN cp.members
      PROVE  MemberInv(u, ms[u], said[u], decisions) /\ Alike(cp.members[u], ms[u])
  <2>1. MemberInv(u, cp.members[u], said[u], decisions)
    BY DEF Sound, MembersInv
  <2> QED
    BY <2>1, MalformedApplied
<1>4. DOMAIN ms = DOMAIN cp.members
  OBVIOUS
<1> HIDE DEF n, ms
<1>5. Sound(n) /\ Similar(cp, n)
  BY <1>2, <1>3, <1>4 DEF Sound, MembersInv, Similar
<1> QED
  BY <1>5 DEF n

\* What an effect is for.
EffectIs(cp, e) ==
  \/ e.type = "wait"
  \/ e.type = "title" /\ e.unit \in DOMAIN cp.members
  \/ e.type = "read" /\ e.unit \in ReadMembers(cp) /\ e.turn = cp.members[e.unit].latest
  \/ /\ e.type = "correct" /\ e.unit \in CorrectionMembers(cp)
     /\ e.attempt = cp.members[e.unit].attempt
  \/ e.type = "repair" /\ e.unit \in ImpossibleMembers(cp)

LEMMA EffectsAre ==
  ASSUME NEW cp, NEW e \in Effects(cp)
  PROVE  EffectIs(cp, e)
<1> DEFINE For(kind, u, turn) ==
      [type |-> kind, unit |-> u, attempt |-> cp.members[u].attempt, turn |-> turn]
<1>1. \/ \E u \in DOMAIN cp.members : e = For("title", u, cp.members[u].retry)
      \/ e = [type |-> "wait", generation |-> cp.generation]
      \/ \E u \in ReadMembers(cp) : e = For("read", u, cp.members[u].latest)
      \/ \E u \in CorrectionMembers(cp) : e = For("correct", u, cp.members[u].source)
      \/ \E u \in ImpossibleMembers(cp) : e = For("repair", u, 0)
  BY DEF Effects
<1> QED
  BY <1>1 DEF EffectIs

\* What a receipt makes of a checkpoint.
Moved(cp, r, n) ==
  /\ r.action \in Effects(cp)
  /\ n.consumed = Newest(Append(cp.consumed, r))
  /\ DOMAIN n.members = DOMAIN cp.members
  /\ \A u \in DOMAIN cp.members :
       /\ IF r.action.type = "correct" /\ u = r.action.unit
          THEN n.members[u].attempt = cp.members[u].attempt + 1
          ELSE n.members[u].attempt = cp.members[u].attempt
       /\ n.members[u].required = cp.members[u].required
          \/ (r.action.type = "repair" /\ u = r.action.unit)
       /\ cp.members[u].result = "current" =>
            \/ /\ n.members[u].result = "current"
               /\ n.members[u].source = cp.members[u].source
               /\ n.members[u].attempt = cp.members[u].attempt
            \/ Verdict(u, cp.members[u].attempt, cp.members[u].source, "rejected")
                 \in decisions

\* ... and of one member.
MemberMoved(cp, r, u, n) ==
  /\ MemberInv(u, n, said[u], decisions)
  /\ IF r.action.type = "correct" /\ u = r.action.unit
     THEN n.attempt = cp.members[u].attempt + 1
     ELSE n.attempt = cp.members[u].attempt
  /\ n.required = cp.members[u].required
     \/ (r.action.type = "repair" /\ u = r.action.unit)
  /\ cp.members[u].result = "current" =>
       \/ /\ n.result = "current" /\ n.source = cp.members[u].source
          /\ n.attempt = cp.members[u].attempt
       \/ Verdict(u, cp.members[u].attempt, cp.members[u].source, "rejected") \in decisions

LEMMA ObservedIs ==
  ASSUME NEW cp, Sound(cp), HostInv, NEW r, ReceiptInv(r, said, asked), Expected(cp, r)
  PROVE  /\ DOMAIN Observed(cp, r) = DOMAIN cp.members
         /\ \A u \in DOMAIN cp.members : MemberMoved(cp, r, u, Observed(cp, r)[u])
<1>1. r.action \in Effects(cp) /\ EffectIs(cp, r.action)
  BY EffectsAre DEF Expected
<1>2. ASSUME NEW u \in DOMAIN cp.members
      PROVE  /\ u \in Units /\ MemberInv(u, cp.members[u], said[u], decisions)
             /\ Len(said[u]) \in Nat
  BY DEF Sound, MembersInv, HostInv, Talks
<1>3. CASE r.action.type = "wait"
  <2> DEFINE t == r.said.targets
  <2>1. Observed(cp, r) = [u \in DOMAIN cp.members |->
          IF u \in DOMAIN t THEN Waited(cp.members[u], t[u]) ELSE cp.members[u]]
    BY <1>3 DEF Observed
  <2>2. ASSUME NEW u \in DOMAIN cp.members, u \in DOMAIN t
        PROVE  MemberMoved(cp, r, u, Waited(cp.members[u], t[u]))
    <3>1. DOMAIN t = WaitMembers(cp)
      <4>1. [v \in DOMAIN t |-> t[v].attempt] = WaitTargets(cp)
        BY <1>3 DEF Expected
      <4> QED
        BY <4>1 DEF WaitTargets
    <3>2. cp.members[u].state # "terminal"
      BY <2>2, <3>1 DEF WaitMembers
    <3>3. t[u].turn \in Nat /\ (t[u].lifecycle = "completed" => t[u].turn <= Len(said[u]))
      BY <1>3, <2>2 DEF ReceiptInv
    <3>4. cp.members[u].result # "current"
      BY <1>2, <3>2 DEF MemberInv
    <3> HIDE DEF t
    <3> QED
      BY <1>2, <1>3, <3>2, <3>3, <3>4, WaitApplied DEF MemberMoved
  <2>3. \A u \in DOMAIN cp.members : MemberMoved(cp, r, u, cp.members[u])
    BY <1>2, <1>3 DEF MemberMoved
  <2> HIDE DEF t
  <2> QED
    BY <2>1, <2>2, <2>3
<1>4. CASE r.action.type # "wait"
  <2> DEFINE v == r.action.unit
             m == cp.members[v]
  <2>1. v \in DOMAIN cp.members
    BY <1>1, <1>4 DEF EffectIs, ReadMembers, CorrectionMembers, ImpossibleMembers, Active
  <2>2. MemberInv(v, m, said[v], decisions) /\ v \in Units /\ Len(said[v]) \in Nat
    BY <1>2, <2>1
  <2>3. ASSUME NEW n, Observed(cp, r) = [cp.members EXCEPT ![v] = n], MemberMoved(cp, r, v, n)
        PROVE  /\ DOMAIN Observed(cp, r) = DOMAIN cp.members
               /\ \A u \in DOMAIN cp.members : MemberMoved(cp, r, u, Observed(cp, r)[u])
    <3>1. \A u \in DOMAIN cp.members : u # v => MemberMoved(cp, r, u, cp.members[u])
      BY <1>2, <1>4 DEF MemberMoved
    <3> HIDE DEF v, m
    <3> QED
      BY <2>1, <2>3, <3>1
  <2>4. CASE r.action.type = "title"
    <3> DEFINE n == TitleObserved(m, r.said)
    <3>1. Observed(cp, r) = [cp.members EXCEPT ![v] = n]
      BY <2>4 DEF Observed
    <3>2. MemberInv(v, n, said[v], decisions) /\ Alike(m, n)
      BY <2>2, TitleApplied
    <3> HIDE DEF n
    <3>3. MemberMoved(cp, r, v, n)
      BY <2>4, <3>2 DEF MemberMoved, Alike
    <3> QED
      BY <2>3, <3>1, <3>3
  <2>5. CASE r.action.type = "read"
    <3> DEFINE n == ResultRead(m, r.said)
    <3>1. Observed(cp, r) = [cp.members EXCEPT ![v] = n]
      BY <2>5 DEF Observed
    <3>2. m.state = "terminal" /\ m.result # "current"
      BY <1>1, <2>5 DEF EffectIs, ReadMembers
    <3>3. r.said.source \in 1 .. Len(said[v]) /\ r.said.envelope = said[v][r.said.source]
      BY <2>5 DEF ReceiptInv
    <3>4. /\ MemberInv(v, n, said[v], decisions)
          /\ n.attempt = m.attempt /\ n.required = m.required
      BY <2>2, <3>2, <3>3, ReadApplied
    <3> HIDE DEF n
    <3>5. MemberMoved(cp, r, v, n)
      BY <2>5, <3>2, <3>4 DEF MemberMoved
    <3> QED
      BY <2>3, <3>1, <3>5
  <2>6. CASE r.action.type = "correct"
    <3> DEFINE n == FollowedUp(m)
    <3>1. Observed(cp, r) = [cp.members EXCEPT ![v] = n]
      BY <2>6 DEF Observed
    <3>2. m.coordination = "correction-pending"
      BY <1>1, <2>6 DEF EffectIs, CorrectionMembers
    <3>3. m.result = "current" => Verdict(v, m.attempt, m.source, "rejected") \in decisions
      BY <2>2, <3>2 DEF MemberInv
    <3>4. /\ MemberInv(v, n, said[v], decisions)
          /\ n.attempt = m.attempt + 1 /\ n.required = m.required
      BY <2>2, FollowUpApplied
    <3> HIDE DEF n
    <3>5. MemberMoved(cp, r, v, n)
      BY <2>6, <3>3, <3>4 DEF MemberMoved
    <3> QED
      BY <2>3, <3>1, <3>5
  <2>7. CASE r.action.type = "repair"
    <3> DEFINE n == Repaired(m)
    <3>1. Observed(cp, r) = [cp.members EXCEPT ![v] = n]
      BY <2>7 DEF Observed
    <3>2. /\ MemberInv(v, n, said[v], decisions)
          /\ n.attempt = m.attempt /\ n.result = m.result /\ n.source = m.source
      BY <2>2, RepairApplied
    <3> HIDE DEF n
    <3>3. MemberMoved(cp, r, v, n)
      BY <2>7, <3>2 DEF MemberMoved
    <3> QED
      BY <2>3, <3>1, <3>3
  <2>8. r.action.type \in {"title", "read", "correct", "repair"}
    BY <1>1, <1>4 DEF EffectIs
  <2> QED
    BY <2>4, <2>5, <2>6, <2>7, <2>8
<1> QED
  BY <1>3, <1>4

LEMMA ReceiptApplied ==
  ASSUME NEW cp, Sound(cp), HostInv, NEW r, ReceiptInv(r, said, asked),
         NEW n \in ApplyReceipt(cp, r)
  PROVE  \/ n = cp /\ r \in ConsumedIn(cp, r.action)
         \/ Sound(n) /\ Moved(cp, r, n)
<1>1. CASE ConsumedIn(cp, r.action) # {}
  BY <1>1 DEF ApplyReceipt
<1>2. CASE ConsumedIn(cp, r.action) = {}
  <2>1. /\ Expected(cp, r)
        /\ n = [generation |-> cp.generation + IF r.action.type = "wait" THEN 1 ELSE 0,
                members |-> Observed(cp, r),
                consumed |-> Newest(Append(cp.consumed, r))]
    BY <1>2 DEF ApplyReceipt
  <2>2. DOMAIN n = CheckpointFields /\ n.members = Observed(cp, r)
        /\ n.consumed = Newest(Append(cp.consumed, r))
    BY <2>1 DEF CheckpointFields
  <2>3. /\ DOMAIN Observed(cp, r) = DOMAIN cp.members
        /\ \A u \in DOMAIN cp.members : MemberMoved(cp, r, u, Observed(cp, r)[u])
    BY <2>1, ObservedIs
  <2>4. Sound(n)
    BY <2>2, <2>3 DEF Sound, MembersInv, MemberMoved
  <2>5. r.action \in Effects(cp)
    BY <2>1 DEF Expected
  <2> QED
    BY <2>2, <2>3, <2>4, <2>5 DEF Moved, MemberMoved
<1> QED
  BY <1>1, <1>2

-----------------------------------------------------------------------------
(* advance: the checkpoint it computes                                     *)

LEMMA OwnRange ==
  ASSUME NEW S, NEW t \in Seq(S)
  PROVE  t \in Seq({t[i] : i \in 1 .. Len(t)})
OBVIOUS

LEMMA NewestIs ==
  ASSUME NEW cp, cp.consumed \in Seq(Used(cp)), NEW r, NEW n,
         n.consumed = Newest(Append(cp.consumed, r))
  PROVE  n.consumed \in Seq(Used(n)) /\ \A x \in Used(n) : x \in Used(cp) \/ x = r
<1> DEFINE S == Used(cp) \cup {r}
           s == Append(cp.consumed, r)
           k == IF Len(s) > MaxConsumed THEN 2 ELSE 1
<1>1. s \in Seq(S) /\ Len(s) \in Nat /\ Len(s) >= 1
  BY DEF Used
<1>2. n.consumed = SubSeq(s, k, Len(s))
  BY DEF Newest
<1> HIDE DEF s, S
<1>3. k \in 1 .. Len(s) + 1
  BY <1>1, ObservationAssumption
<1>4. n.consumed \in Seq(S)
  BY <1>1, <1>2, <1>3
<1>5. n.consumed \in Seq(Used(n))
  BY <1>4, OwnRange DEF Used
<1>6. \A x \in Used(n) : x \in S
  BY <1>4 DEF Used
<1> QED
  BY <1>5, <1>6 DEF S

Takes(r, kind) == r # None /\ r.action.type = kind

\* What comes of the checkpoint cp and a receipt or none.
Reached(cp, r, n) ==
  /\ DOMAIN n.members = DOMAIN cp.members
  /\ \A u \in DOMAIN cp.members :
       /\ n.members[u].attempt = cp.members[u].attempt
          \/ (Takes(r, "correct") /\ u = r.action.unit)
       /\ n.members[u].required = cp.members[u].required
          \/ (Takes(r, "repair") /\ u = r.action.unit)
       /\ cp.members[u].result = "current" =>
            \/ Frozen(n, u, cp.members[u].attempt, cp.members[u].source)
            \/ Verdict(u, cp.members[u].attempt, cp.members[u].source, "rejected")
                 \in decisions
  /\ n.consumed \in Seq(Used(n))
  /\ \A x \in Used(n) : x \in Used(cp) \/ (r # None /\ x = r)
  /\ Takes(r, "correct") =>
       \/ r \in Used(cp)
       \/ /\ r.action.unit \in DOMAIN n.members
          /\ n.members[r.action.unit].attempt = r.action.attempt + 1

Outcomes(cp, r) ==
  IF r = None THEN {ApplyResultPolicies(cp)}
  ELSE IF StoresFirst(r) THEN ApplyReceipt(ApplyResultPolicies(cp), r)
  ELSE {Malformed2(cp2) : cp2 \in ApplyReceipt(ApplyResultPolicies(cp), r)}

LEMMA ComputedIs ==
  ASSUME NEW r, NEW n \in Computed(r)
  PROVE  \E cp \in Proposed(r) : n \in Outcomes(cp, r)
BY DEF Computed, Outcomes, Malformed2

LEMMA OutcomesAre ==
  ASSUME HostInv, NEW cp, Sound(cp), cp.consumed \in Seq(Used(cp)),
         NEW r, r # None => ReceiptInv(r, said, asked), NEW n \in Outcomes(cp, r)
  PROVE  Sound(n) /\ Reached(cp, r, n)
<1> DEFINE q == ApplyResultPolicies(cp)
<1>1. Sound(q) /\ Similar(cp, q)
  BY PoliciesAre
<1> HIDE DEF q
<1>2. Used(q) = Used(cp) /\ q.consumed \in Seq(Used(q))
  BY <1>1 DEF Similar, Used
<1>3. CASE r = None
  <2>1. n = q
    BY <1>3 DEF Outcomes, q
  <2> QED
    BY <1>1, <1>2, <1>3, <2>1 DEF Reached, Similar, Alike, Takes, Frozen
<1>4. ASSUME r # None, NEW m \in ApplyReceipt(q, r) PROVE Sound(m) /\ Reached(cp, r, m)
  <2>1. CASE m = q /\ r \in ConsumedIn(q, r.action)
    <3>1. r \in Used(cp)
      BY <1>2, <2>1 DEF ConsumedIn, Used
    <3> QED
      BY <1>1, <1>2, <1>4, <2>1, <3>1 DEF Reached, Similar, Alike, Takes, Frozen
  <2>2. CASE Sound(m) /\ Moved(q, r, m)
    <3>1. m.consumed \in Seq(Used(m)) /\ \A x \in Used(m) : x \in Used(cp) \/ x = r
      BY <1>2, <2>2, NewestIs DEF Moved
    <3>2. Takes(r, "correct") =>
            /\ r.action.unit \in DOMAIN m.members
            /\ m.members[r.action.unit].attempt = r.action.attempt + 1
      <4>1. EffectIs(q, r.action)
        BY <2>2, EffectsAre DEF Moved
      <4> QED
        BY <2>2, <4>1 DEF Moved, Takes, EffectIs, CorrectionMembers, Active
    <3>3. ASSUME NEW u \in DOMAIN cp.members
          PROVE  /\ m.members[u].attempt = cp.members[u].attempt
                    \/ (Takes(r, "correct") /\ u = r.action.unit)
                 /\ m.members[u].required = cp.members[u].required
                    \/ (Takes(r, "repair") /\ u = r.action.unit)
                 /\ cp.members[u].result = "current" =>
                      \/ Frozen(m, u, cp.members[u].attempt, cp.members[u].source)
                      \/ Verdict(u, cp.members[u].attempt, cp.members[u].source, "rejected")
                           \in decisions
      <4>1. Alike(cp.members[u], q.members[u]) /\ u \in DOMAIN q.members
            /\ DOMAIN m.members = DOMAIN cp.members
        BY <1>1, <2>2 DEF Similar, Moved
      <4> QED
        BY <1>4, <2>2, <4>1 DEF Moved, Alike, Frozen, Takes
    <3>4. DOMAIN m.members = DOMAIN cp.members
      BY <1>1, <2>2 DEF Similar, Moved
    <3> QED
      BY <1>4, <2>2, <3>1, <3>2, <3>3, <3>4 DEF Reached
  <2> QED
    BY <1>1, <1>4, <2>1, <2>2, ReceiptApplied
<1>5. CASE r # None /\ StoresFirst(r)
  BY <1>4, <1>5 DEF Outcomes, q
<1>6. CASE r # None /\ ~ StoresFirst(r)
  <2>1. PICK m \in ApplyReceipt(q, r) : n = Malformed2(m)
    BY <1>6 DEF Outcomes, q
  <2>2. Sound(m) /\ Reached(cp, r, m)
    BY <1>4, <1>6
  <2>3. Sound(n) /\ Similar(m, n)
    BY <2>1, <2>2, PolicyIs
  <2>4. Used(n) = Used(m)
    BY <2>3 DEF Similar, Used
  <2> QED
    BY <2>2, <2>3, <2>4 DEF Reached, Similar, Alike, Frozen
<1> QED
  BY <1>3, <1>5, <1>6

LEMMA BeginAdvanceKeeps ==
  ASSUME IInv, NEW r \in receipts \cup {None}, BeginAdvance(r)
  PROVE  IInv'
<1> USE DEF IInv
<1>1. PICK n \in Computed(r) :
        advance' = [action |-> IF StoresFirst(r) THEN r.action ELSE None,
                    next |-> n, at |-> FirstWrite(r),
                    unbound |-> \E u \in Units :
                      file[u].required /\ file[u].binding.state # "bound"]
  BY DEF BeginAdvance
<1>2. /\ UNCHANGED <<file, checkpoint, decisions, decide, queen, host, losses>>
      /\ Admitted(r) /\ (r # None => ReceiptInv(r, said, asked))
  BY DEF BeginAdvance, QueenInv
<1>3. PICK cp \in Proposed(r) : n \in Outcomes(cp, r)
  BY ComputedIs
<1>4. /\ Sound(Stored) /\ NotAhead(Stored, file) /\ ConsumedInv(Stored, file)
      /\ \A u \in Units : RecordShape(file[u]) /\ Len(said[u]) \in Nat
      /\ DOMAIN file = Units
  BY DEF CheckpointInv, Sound, HostInv, Talks
<1>5. IF StoresFirst(r) THEN cp = Stored ELSE cp = Synthesize(Stored, file)
  BY <1>3 DEF Proposed
<1>6. /\ Sound(Synthesize(Stored, file))
      /\ Synthesized(Stored, file, Synthesize(Stored, file))
  BY <1>4, SynthesizeIs DEF Sound, MembersInv
<1>7. Sound(cp) /\ cp.consumed = Stored.consumed /\ Used(cp) = Used(Stored)
  BY <1>4, <1>5, <1>6 DEF Synthesized, Used
<1>8. Sound(n) /\ Reached(cp, r, n)
  BY <1>2, <1>3, <1>4, <1>7, OutcomesAre DEF ConsumedInv
<1>9. Follows(Stored, n, file, decisions)
  <2> SUFFICES ASSUME NEW u \in DOMAIN Stored.members,
                      Stored.members[u].result = "current",
                      Stored.members[u].attempt = file[u].attempt
               PROVE  \/ Frozen(n, u, Stored.members[u].attempt, Stored.members[u].source)
                      \/ Verdict(u, Stored.members[u].attempt, Stored.members[u].source,
                                 "rejected") \in decisions
    BY DEF Follows
  <2>1. u \in Units /\ file[u].binding.state = "bound"
    BY <1>4 DEF Sound, MembersInv
  <2>2. u \in DOMAIN cp.members /\ cp.members[u] = Stored.members[u]
    BY <1>5, <1>6, <2>1 DEF Synthesized
  <2> QED
    BY <1>8, <2>2 DEF Reached
<1>10. ASSUME ~ StoresFirst(r),
              \A u \in Units : file[u].required => file[u].binding.state = "bound"
       PROVE  \A u \in Units : file[u].required => u \in DOMAIN n.members
  BY <1>5, <1>6, <1>8, <1>10 DEF Reached, Synthesized
<1>11. ASSUME ~ StoresFirst(r) PROVE NotAhead(n, file) /\ ConsumedInv(n, file)
  <2>1. ~ Takes(r, "correct") /\ ~ Takes(r, "repair")
    BY <1>11 DEF StoresFirst, Takes
  <2>2. NotAhead(n, file)
    <3> SUFFICES ASSUME NEW u \in DOMAIN n.members
                 PROVE  n.members[u].attempt <= file[u].attempt
                        /\ (file[u].required => n.members[u].required)
      BY DEF NotAhead
    <3>1. /\ u \in DOMAIN cp.members /\ n.members[u].attempt = cp.members[u].attempt
          /\ n.members[u].required = cp.members[u].required
      BY <1>8, <2>1 DEF Reached
    <3>2. u \in Units /\ file[u].attempt \in Nat
      BY <1>4, <1>7, <3>1 DEF Sound, MembersInv, RecordShape
    <3>3. cp.members[u].attempt = file[u].attempt
          /\ (file[u].required => cp.members[u].required)
      BY <1>4, <1>5, <1>6, <1>11, <3>1 DEF Synthesized, NotAhead
    <3> QED
      BY <3>1, <3>2, <3>3
  <2>3. ConsumedInv(n, file)
    BY <1>4, <1>7, <1>8, <2>1 DEF ConsumedInv, Reached, Spent, Takes
  <2> QED
    BY <2>2, <2>3
<1>12. ASSUME StoresFirst(r) PROVE StoreInv(r.action, n, file, asked)
  <2>1. r # None /\ r.action.type \in {"correct", "repair"} /\ r.action.unit \in Units
    BY <1>2, <1>12 DEF StoresFirst, ReceiptInv
  <2>2. cp = Stored
    BY <1>5, <1>12
  <2>3. ASSUME r.action.type = "correct"
        PROVE  /\ r.action.attempt \in Nat /\ r.action.attempt <= asked[r.action.unit]
               /\ file[r.action.unit].attempt \in {r.action.attempt, r.action.attempt + 1}
               /\ file[r.action.unit].attempt = r.action.attempt =>
                    /\ r.action.unit \in DOMAIN n.members
                    /\ n.members[r.action.unit].attempt = r.action.attempt + 1
    <3>1. r.action.attempt \in Nat /\ r.action.attempt <= asked[r.action.unit]
      BY <1>2, <2>1, <2>3 DEF ReceiptInv
    <3>2. file[r.action.unit].attempt \in {r.action.attempt, r.action.attempt + 1}
      BY <1>2, <1>12, <2>3 DEF Admitted
    <3>3. r \in Used(Stored) => r.action.attempt < file[r.action.unit].attempt
      BY <1>4, <2>3 DEF ConsumedInv, Spent
    <3>4. \/ r \in Used(Stored)
          \/ /\ r.action.unit \in DOMAIN n.members
             /\ n.members[r.action.unit].attempt = r.action.attempt + 1
      BY <1>8, <2>1, <2>2, <2>3 DEF Reached, Takes
    <3> QED
      BY <3>1, <3>2, <3>3, <3>4
  <2>4. \A u \in DOMAIN n.members :
          file[u].required => n.members[u].required
                              \/ (r.action.type = "repair" /\ u = r.action.unit)
    BY <1>4, <1>8, <2>2 DEF Reached, NotAhead, Takes
  <2>5. n.consumed \in Seq(Used(n)) /\ \A x \in Used(n) : Spent(x, file) \/ x.action = r.action
    BY <1>4, <1>8, <2>2 DEF Reached, ConsumedInv
  <2> QED
    BY <2>1, <2>3, <2>4, <2>5 DEF StoreInv
<1>13. AdvanceInv'
  <2>1. /\ advance'.next = n /\ advance'.at = FirstWrite(r)
        /\ DOMAIN advance' = {"action", "next", "at", "unbound"}
        /\ advance'.unbound <=> \E u \in Units :
              file[u].required /\ file[u].binding.state # "bound"
        /\ StoresFirst(r) => advance'.action = r.action
    BY <1>1
  <2>2. file' = file /\ said' = said /\ decisions' = decisions /\ Stored' = Stored
        /\ asked' = asked
    BY <1>2 DEF Stored, host
  <2>3. MembersInv(advance'.next, file', said', decisions')
    BY <1>8, <2>1, <2>2 DEF Sound
  <2>4. Follows(Stored', advance'.next, file', decisions')
    BY <1>9, <2>1, <2>2
  <2>5. advance'.at = "write" => WriteInv(advance'.next, file', advance'.unbound)
    BY <1>10, <1>11, <2>1, <2>2 DEF FirstWrite, WriteInv
  <2>6. advance'.at = "store" => StoreInv(advance'.action, advance'.next, file', asked')
    BY <1>12, <2>1, <2>2 DEF FirstWrite
  <2> QED
    BY <2>1, <2>2, <2>3, <2>4, <2>5, <2>6 DEF AdvanceInv
<1> QED
  BY <1>2, <1>13
  DEF HostInv, CheckpointInv, Stored, DecisionsInv, QueenInv, AttemptsWereDelivered,
      ContinueIsEarned, queen, host

-----------------------------------------------------------------------------
(* Steps that leave the checkpoint alone and only add to the rest          *)

Gained(fs, gs, talks, later, spent, more) ==
  \A u \in Units :
    /\ gs[u].attempt = fs[u].attempt /\ gs[u].required = fs[u].required
    /\ fs[u].binding.state = "bound" => gs[u].binding.state = "bound"
    /\ Longer(talks[u], later[u])
    /\ spent[u] \in Nat /\ more[u] \in Nat /\ spent[u] <= more[u]

LEMMA MembersGain ==
  ASSUME NEW fs, NEW gs, NEW talks, NEW later, NEW spent, NEW more,
         Gained(fs, gs, talks, later, spent, more), NEW ds, NEW es, ds \subseteq es,
         NEW cp, MembersInv(cp, fs, talks, ds)
  PROVE  MembersInv(cp, gs, later, es)
<1>1. ASSUME NEW u \in DOMAIN cp.members
      PROVE  /\ u \in Units /\ gs[u].binding.state = "bound"
             /\ MemberInv(u, cp.members[u], later[u], es)
  <2>1. /\ u \in Units /\ fs[u].binding.state = "bound"
        /\ MemberInv(u, cp.members[u], talks[u], ds)
    BY DEF MembersInv
  <2>2. Longer(talks[u], later[u]) /\ gs[u].binding.state = "bound"
    BY <2>1 DEF Gained
  <2> QED
    BY <2>1, <2>2, MemberKeeps
<1> QED
  BY <1>1 DEF MembersInv

LEMMA CheckpointGains ==
  ASSUME NEW fs, NEW gs, NEW talks, NEW later, NEW spent, NEW more,
         Gained(fs, gs, talks, later, spent, more), NEW cp, DOMAIN cp.members \subseteq Units
  PROVE  /\ NotAhead(cp, fs) => NotAhead(cp, gs)
         /\ ConsumedInv(cp, fs) => ConsumedInv(cp, gs)
<1>1. NotAhead(cp, fs) => NotAhead(cp, gs)
  BY DEF NotAhead, Gained
<1>2. \A r : Spent(r, fs) => Spent(r, gs)
  BY DEF Spent, Gained
<1> QED
  BY <1>1, <1>2 DEF ConsumedInv

LEMMA AdvanceGains ==
  ASSUME NEW fs, NEW gs, NEW talks, NEW later, NEW spent, NEW more,
         Gained(fs, gs, talks, later, spent, more), NEW cp, DOMAIN cp.members \subseteq Units
  PROVE  /\ \A unbound : WriteInv(cp, fs, unbound) => WriteInv(cp, gs, unbound)
         /\ \A action : StoreInv(action, cp, fs, spent) => StoreInv(action, cp, gs, more)
         /\ \A old, ds, es : ds \subseteq es /\ DOMAIN old.members \subseteq Units
                             /\ Follows(old, cp, fs, ds) => Follows(old, cp, gs, es)
<1>1. \A unbound : WriteInv(cp, fs, unbound) => WriteInv(cp, gs, unbound)
  <2>1. /\ NotAhead(cp, fs) => NotAhead(cp, gs)
        /\ ConsumedInv(cp, fs) => ConsumedInv(cp, gs)
    BY CheckpointGains
  <2>2. \A u \in Units : gs[u].required = fs[u].required
    BY DEF Gained
  <2> QED
    BY <2>1, <2>2 DEF WriteInv
<1>2. ASSUME NEW action, StoreInv(action, cp, fs, spent)
      PROVE  StoreInv(action, cp, gs, more)
  <2>1. \A r : Spent(r, fs) => Spent(r, gs)
    BY DEF Spent, Gained
  <2>2. action.unit \in Units
    BY <1>2 DEF StoreInv
  <2>3. /\ gs[action.unit].attempt = fs[action.unit].attempt
        /\ spent[action.unit] \in Nat /\ more[action.unit] \in Nat
        /\ spent[action.unit] <= more[action.unit]
    BY <2>2 DEF Gained
  <2>4. ASSUME action.type = "correct"
        PROVE  /\ action.attempt \in Nat /\ action.attempt <= more[action.unit]
               /\ gs[action.unit].attempt \in {action.attempt, action.attempt + 1}
               /\ gs[action.unit].attempt = action.attempt =>
                    /\ action.unit \in DOMAIN cp.members
                    /\ cp.members[action.unit].attempt = action.attempt + 1
    <3>1. /\ action.attempt \in Nat /\ action.attempt <= spent[action.unit]
          /\ fs[action.unit].attempt \in {action.attempt, action.attempt + 1}
          /\ fs[action.unit].attempt = action.attempt =>
               /\ action.unit \in DOMAIN cp.members
               /\ cp.members[action.unit].attempt = action.attempt + 1
      BY <1>2, <2>4 DEF StoreInv
    <3>2. action.attempt <= more[action.unit]
      BY <2>3, <3>1
    <3> QED
      BY <2>3, <3>1, <3>2
  <2>5. \A u \in DOMAIN cp.members :
          gs[u].required => cp.members[u].required
                            \/ (action.type = "repair" /\ u = action.unit)
    BY <1>2 DEF StoreInv, Gained
  <2> QED
    BY <1>2, <2>1, <2>4, <2>5 DEF StoreInv
<1>3. \A old, ds, es : ds \subseteq es /\ DOMAIN old.members \subseteq Units
                       /\ Follows(old, cp, fs, ds) => Follows(old, cp, gs, es)
  BY DEF Follows, Gained
<1> QED
  BY <1>1, <1>2, <1>3

LEMMA DecisionGains ==
  ASSUME NEW fs, NEW gs, NEW talks, NEW later, NEW spent, NEW more,
         Gained(fs, gs, talks, later, spent, more), NEW ds, NEW es, ds \subseteq es,
         NEW cp, NEW p, DecisionInv(p, cp, fs, talks, ds)
  PROVE  DecisionInv(p, cp, gs, later, es)
<1>1. p.unit \in Units
  BY DEF DecisionInv
<1>2. Longer(talks[p.unit], later[p.unit]) /\ gs[p.unit].attempt = fs[p.unit].attempt
  BY <1>1 DEF Gained
<1> QED
  BY <1>2 DEF DecisionInv, Longer

LEMMA EffectGains ==
  ASSUME NEW fs, NEW gs, NEW talks, NEW later, NEW spent, NEW more,
         Gained(fs, gs, talks, later, spent, more), NEW e, EffectInv(e, fs, talks)
  PROVE  EffectInv(e, gs, later)
<1>1. CASE e.type = "wait"
  BY <1>1 DEF EffectInv
<1>2. CASE e.type # "wait"
  <2>1. Longer(talks[e.unit], later[e.unit]) /\ gs[e.unit].attempt = fs[e.unit].attempt
    BY <1>2 DEF EffectInv, Gained
  <2> QED
    BY <2>1 DEF EffectInv, Longer
<1> QED
  BY <1>1, <1>2

LEMMA ReceiptGains ==
  ASSUME NEW fs, NEW gs, NEW talks, NEW later, NEW spent, NEW more,
         Gained(fs, gs, talks, later, spent, more), NEW r, ReceiptInv(r, talks, spent)
  PROVE  ReceiptInv(r, later, more)
<1>1. CASE r.action.type = "wait"
  <2>1. ASSUME NEW u \in DOMAIN r.said.targets
        PROVE  /\ u \in Units /\ r.said.targets[u].turn \in Nat
               /\ r.said.targets[u].lifecycle = "completed" =>
                    r.said.targets[u].turn <= Len(later[u])
    <3>1. /\ u \in Units /\ r.said.targets[u].turn \in Nat
          /\ r.said.targets[u].lifecycle = "completed" =>
               r.said.targets[u].turn <= Len(talks[u])
      BY <1>1 DEF ReceiptInv
    <3>2. Len(talks[u]) \in Nat /\ Len(later[u]) \in Nat /\ Len(talks[u]) <= Len(later[u])
      BY <3>1 DEF Gained, Longer
    <3> QED
      BY <3>1, <3>2
  <2> QED
    BY <1>1, <2>1 DEF ReceiptInv
<1>2. CASE r.action.type # "wait"
  <2>1. r.action.unit \in Units
    BY <1>2 DEF ReceiptInv
  <2>2. /\ Longer(talks[r.action.unit], later[r.action.unit])
        /\ spent[r.action.unit] \in Nat /\ more[r.action.unit] \in Nat
        /\ spent[r.action.unit] <= more[r.action.unit]
    BY <2>1 DEF Gained
  <2>3. ASSUME r.action.type = "read"
        PROVE  /\ r.said.source \in 1 .. Len(later[r.action.unit])
               /\ r.said.envelope = later[r.action.unit][r.said.source]
    BY <2>2, <2>3 DEF ReceiptInv, Longer
  <2>4. ASSUME r.action.type = "correct"
        PROVE  r.action.attempt \in Nat /\ r.action.attempt <= more[r.action.unit]
    BY <2>2, <2>4 DEF ReceiptInv
  <2> QED
    BY <1>2, <2>1, <2>3, <2>4 DEF ReceiptInv
<1> QED
  BY <1>1, <1>2

\* Such a step of the state.
Grows ==
  /\ HostInv' /\ checkpoint' = checkpoint
  /\ Gained(file, file', said, said', asked, asked')
  /\ decisions \subseteq decisions'

LEMMA GrowsKeeps ==
  ASSUME IInv, Grows
  PROVE  /\ CheckpointInv' /\ AttemptsWereDelivered'
         /\ advance' \in {None, advance} => AdvanceInv'
         /\ \A p : DecisionInv(p, Stored, file, said, decisions)
                     => DecisionInv(p, Stored', file', said', decisions')
         /\ \A e : EffectInv(e, file, said) => EffectInv(e, file', said')
         /\ \A r : ReceiptInv(r, said, asked) => ReceiptInv(r, said', asked')
         /\ answer' \in {answer, NoAnswer} => ContinueIsEarned'
<1> USE DEF IInv
<1>1. /\ Gained(file, file', said, said', asked, asked') /\ decisions \subseteq decisions'
      /\ Stored' = Stored
  BY DEF Grows, Stored
<1>2. MembersInv(Stored, file, said, decisions) /\ DOMAIN Stored.members \subseteq Units
  BY DEF CheckpointInv, MembersInv
<1>3. CheckpointInv'
  <2>1. MembersInv(Stored, file', said', decisions')
    BY <1>1, <1>2, MembersGain
  <2>2. NotAhead(Stored, file') /\ ConsumedInv(Stored, file')
    BY <1>1, <1>2, CheckpointGains DEF CheckpointInv
  <2> QED
    BY <1>1, <2>1, <2>2 DEF CheckpointInv
<1>4. AttemptsWereDelivered'
  <2> SUFFICES ASSUME NEW u \in Units
               PROVE  file'[u].attempt <= 1 + asked'[u]
    BY DEF AttemptsWereDelivered
  <2>1. /\ file'[u].attempt = file[u].attempt /\ asked[u] \in Nat /\ asked'[u] \in Nat
        /\ asked[u] <= asked'[u] /\ file[u].attempt \in Nat
    BY <1>1 DEF Gained, HostInv, RecordShape
  <2> QED
    BY <2>1 DEF AttemptsWereDelivered
<1>5. ASSUME advance' \in {None, advance} PROVE AdvanceInv'
  <2> SUFFICES ASSUME advance' = advance, advance # None PROVE AdvanceInv'
    BY <1>5 DEF AdvanceInv
  <2> DEFINE n == advance.next
  <2>1. /\ DOMAIN advance = {"action", "next", "at", "unbound"}
        /\ MembersInv(n, file, said, decisions) /\ Follows(Stored, n, file, decisions)
        /\ ~ advance.unbound =>
             \A u \in Units : file[u].required => file[u].binding.state = "bound"
        /\ advance.at = "write" => WriteInv(n, file, advance.unbound)
        /\ advance.at = "store" => StoreInv(advance.action, n, file, asked)
    BY DEF AdvanceInv
  <2>2. DOMAIN n.members \subseteq Units
    BY <2>1 DEF MembersInv
  <2> HIDE DEF n
  <2>3. MembersInv(n, file', said', decisions')
    BY <1>1, <2>1, MembersGain
  <2>4. Follows(Stored, n, file', decisions')
    BY <1>1, <1>2, <2>1, <2>2, AdvanceGains
  <2>5. advance.at = "write" => WriteInv(n, file', advance.unbound)
    BY <1>1, <2>1, <2>2, AdvanceGains
  <2>6. advance.at = "store" => StoreInv(advance.action, n, file', asked')
    BY <1>1, <2>1, <2>2, AdvanceGains
  <2>7. ~ advance.unbound =>
          \A u \in Units : file'[u].required => file'[u].binding.state = "bound"
    BY <1>1, <2>1 DEF Gained
  <2> QED
    BY <1>1, <2>1, <2>3, <2>4, <2>5, <2>6, <2>7 DEF AdvanceInv, n
<1>6. ASSUME NEW p, DecisionInv(p, Stored, file, said, decisions)
      PROVE  DecisionInv(p, Stored', file', said', decisions')
  BY <1>1, <1>6, DecisionGains
<1>7. ASSUME NEW e, EffectInv(e, file, said) PROVE EffectInv(e, file', said')
  BY <1>1, <1>7, EffectGains
<1>8. ASSUME NEW r, ReceiptInv(r, said, asked) PROVE ReceiptInv(r, said', asked')
  BY <1>1, <1>8, ReceiptGains
<1>9. ASSUME answer' \in {answer, NoAnswer} PROVE ContinueIsEarned'
  <2>1. CASE answer' = NoAnswer
    BY <2>1 DEF NoAnswer, ContinueIsEarned
  <2>2. CASE answer' = answer
    BY <1>1, <2>2 DEF ContinueIsEarned, QueenInv, Gained
  <2> QED
    BY <1>9, <2>1, <2>2
<1> QED
  BY <1>3, <1>4, <1>5, <1>6, <1>7, <1>8, <1>9

\* The host as it stands has gained nothing.
LEMMA NothingGained ==
  ASSUME HostInv
  PROVE  Gained(file, file, said, said, asked, asked)
BY DEF HostInv, Gained, Longer, Talks

\* A step that adds decisions at most, and leaves the host and the files alone.
LEMMA HostStands ==
  ASSUME IInv, UNCHANGED <<file, checkpoint, host>>, DOMAIN decide' = DOMAIN decide,
         decisions \subseteq decisions'
  PROVE  Grows
BY NothingGained DEF IInv, Grows, HostInv, host

\* What the queen and the calls of decide hold stays as it is.
LEMMA RestStands ==
  ASSUME IInv, Grows
  PROVE  /\ UNCHANGED <<decisions, decide>> => DecisionsInv'
         /\ UNCHANGED <<answer, receipts>> => QueenInv'
<1>1. UNCHANGED <<decisions, decide>> => DecisionsInv'
  BY GrowsKeeps DEF IInv, DecisionsInv
<1>2. UNCHANGED <<answer, receipts>> => QueenInv'
  BY GrowsKeeps DEF IInv, QueenInv
<1> QED
  BY <1>1, <1>2

-----------------------------------------------------------------------------
(* The host                                                                *)

LEMMA HostKeeps ==
  ASSUME IInv, NEW u \in Units, Launched(u) \/ EndTurn(u) \/ UserTurn(u)
  PROVE  IInv'
<1>1. /\ checkpoint' = checkpoint /\ asked' = asked
      /\ UNCHANGED <<decisions, decide>> /\ UNCHANGED <<answer, receipts>>
      /\ advance' = advance
      /\ DOMAIN lifecycle' = DOMAIN lifecycle
  BY DEF Launched, EndTurn, UserTurn, Elsewhere, queen
<1>2. HostInv /\ Gained(file, file, said, said, asked, asked)
  BY NothingGained DEF IInv
<1>3. CASE Launched(u)
  <2>1. /\ file' = [file EXCEPT ![u].binding = Bound(u)] /\ said' = said
        /\ DOMAIN file = Units
    BY <1>2, <1>3 DEF Launched, HostInv
  <2> DEFINE r == [file[u] EXCEPT !.binding = Bound(u)]
  <2>2. /\ RecordShape(r) /\ r.attempt = file[u].attempt /\ r.required = file[u].required
        /\ r.binding.state = "bound"
    BY <1>2 DEF HostInv, RecordShape, RecordFields, Bound
  <2>3. DOMAIN file' = Units /\ file'[u] = r /\ \A v \in Units \ {u} : file'[v] = file[v]
    BY <2>1
  <2> HIDE DEF r
  <2>4. HostInv'
    BY <1>1, <1>2, <2>1, <2>2, <2>3 DEF HostInv
  <2>5. Gained(file, file', said, said', asked, asked')
    BY <1>1, <1>2, <2>1, <2>2, <2>3 DEF Gained
  <2> QED
    BY <1>1, <2>4, <2>5, GrowsKeeps, RestStands DEF Grows, IInv
<1>4. CASE EndTurn(u)
  <2>1. PICK e \in Envelopes \cup {Malformed} : said' = [said EXCEPT ![u] = Append(@, e)]
    BY <1>4 DEF EndTurn
  <2>2. file' = file
    BY <1>4 DEF EndTurn
  <2>3. /\ said[u] \in Talks /\ DOMAIN said = Units
        /\ Append(said[u], e) \in Talks /\ Longer(said[u], Append(said[u], e))
    BY <1>2 DEF HostInv, Talks, Longer
  <2>4. /\ DOMAIN said' = Units /\ said'[u] = Append(said[u], e)
        /\ \A v \in Units \ {u} : said'[v] = said[v]
    BY <2>1, <2>3
  <2>5. HostInv'
    BY <1>1, <1>2, <2>2, <2>3, <2>4 DEF HostInv
  <2>6. Gained(file, file', said, said', asked, asked')
    BY <1>1, <1>2, <2>2, <2>3, <2>4 DEF Gained
  <2> QED
    BY <1>1, <2>5, <2>6, GrowsKeeps, RestStands DEF Grows, IInv
<1>5. CASE UserTurn(u)
  <2>1. file' = file /\ said' = said
    BY <1>5 DEF UserTurn
  <2>2. HostInv' /\ Gained(file, file', said, said', asked, asked')
    BY <1>1, <1>2, <2>1 DEF HostInv
  <2> QED
    BY <1>1, <2>2, GrowsKeeps, RestStands DEF Grows, IInv
<1> QED
  BY <1>3, <1>4, <1>5

-----------------------------------------------------------------------------
(* The queen                                                               *)

\* A receipt of something the host said or did.
LEMMA ReceiveKeeps ==
  ASSUME IInv, Grows, NEW action, NEW what, Receive(action, what),
         ReceiptInv([action |-> action, said |-> what], said', asked')
  PROVE  IInv'
<1>1. /\ receipts' = receipts \cup {[action |-> action, said |-> what]}
      /\ answer' = answer /\ advance' = advance /\ UNCHANGED <<decisions, decide>>
  BY DEF Receive
<1>2. QueenInv'
  BY <1>1, GrowsKeeps DEF QueenInv, IInv
<1> QED
  BY <1>1, <1>2, GrowsKeeps, RestStands DEF IInv, Grows

LEMMA PerformKeeps ==
  ASSUME IInv, Perform
  PROVE  IInv'
<1>1. /\ \A e \in answer.effects : EffectInv(e, file, said)
      /\ DOMAIN answer.targets \subseteq Units
      /\ \A u \in Units : Len(said[u]) \in Nat
      /\ HostInv /\ Gained(file, file, said, said, asked, asked)
  BY NothingGained DEF IInv, QueenInv, HostInv, Talks
<1>2. ASSUME NEW action, NEW what, Receive(action, what), UNCHANGED host
      PROVE  Grows
  BY <1>2, HostStands DEF Receive
<1>3. CASE ReadTitle
  <2>1. PICK e \in answer.effects, matches \in BOOLEAN :
          e.type = "title" /\ Receive(e, [matches |-> matches]) /\ UNCHANGED host
    BY <1>3 DEF ReadTitle
  <2>2. ReceiptInv([action |-> e, said |-> [matches |-> matches]], said', asked')
    BY <1>1, <2>1 DEF EffectInv, ReceiptInv
  <2> QED
    BY <1>2, <2>1, <2>2, ReceiveKeeps
<1>4. CASE AcceptRepair
  <2>1. PICK e \in answer.effects :
          e.type = "repair" /\ Receive(e, None) /\ UNCHANGED host
    BY <1>4 DEF AcceptRepair
  <2>2. ReceiptInv([action |-> e, said |-> None], said', asked')
    BY <1>1, <2>1 DEF EffectInv, ReceiptInv
  <2> QED
    BY <1>2, <2>1, <2>2, ReceiveKeeps
<1>5. CASE ReadResult
  <2>1. PICK e \in answer.effects :
          /\ e.type = "read" /\ UNCHANGED host
          /\ \E turn \in {e.turn, Len(said[e.unit])} :
               Receive(e, [source |-> turn, envelope |-> said[e.unit][turn]])
    BY <1>5 DEF ReadResult
  <2>2. PICK turn \in {e.turn, Len(said[e.unit])} :
          Receive(e, [source |-> turn, envelope |-> said[e.unit][turn]])
    BY <2>1
  <2>3. e.unit \in Units /\ turn \in 1 .. Len(said[e.unit]) /\ said' = said
    BY <1>1, <2>1, <2>2 DEF EffectInv, host
  <2>4. ReceiptInv([action |-> e, said |-> [source |-> turn, envelope |-> said[e.unit][turn]]],
                   said', asked')
    BY <2>1, <2>3 DEF ReceiptInv
  <2> QED
    BY <1>2, <2>1, <2>2, <2>4, ReceiveKeeps
<1>6. CASE Wait
  <2> DEFINE targets == [u \in DOMAIN answer.targets |-> Snapshot(u)]
  <2>1. PICK e \in answer.effects :
          e.type = "wait" /\ Receive(e, [targets |-> targets]) /\ UNCHANGED host
    BY <1>6 DEF Wait
  <2>2. ASSUME NEW u \in DOMAIN targets
        PROVE  /\ u \in Units /\ targets[u].turn \in Nat
               /\ targets[u].lifecycle = "completed" => targets[u].turn <= Len(said'[u])
    <3>1. u \in Units /\ Len(said[u]) \in Nat /\ said' = said
      BY <1>1, <2>1 DEF host
    <3>2. targets[u].turn = Latest(u) /\ targets[u].lifecycle = lifecycle[u]
      BY DEF Snapshot
    <3>3. Latest(u) \in Nat /\ (lifecycle[u] = "completed" => Latest(u) = Len(said[u]))
      <4>1. CASE lifecycle[u] = "running"
        BY <3>1, <4>1 DEF Latest
      <4>2. CASE lifecycle[u] # "running"
        <5>1. Latest(u) = Len(said[u]) + 0
          BY <4>2 DEF Latest
        <5> QED
          BY <3>1, <5>1
      <4> QED
        BY <4>1, <4>2
    <3> HIDE DEF targets
    <3> QED
      BY <3>1, <3>2, <3>3
  <2> HIDE DEF targets
  <2>3. ReceiptInv([action |-> e, said |-> [targets |-> targets]], said', asked')
    BY <2>1, <2>2 DEF ReceiptInv
  <2> QED
    BY <1>2, <2>1, <2>3, ReceiveKeeps
<1>7. CASE DeliverFollowUp
  <2>1. PICK e \in answer.effects :
          /\ e.type = "correct" /\ Receive(e, None)
          /\ DOMAIN lifecycle' = DOMAIN lifecycle
          /\ asked' = [asked EXCEPT ![e.unit] = @ + 1] /\ said' = said
    BY <1>7 DEF DeliverFollowUp
  <2>2. /\ e.unit \in Units /\ e.attempt \in Nat /\ e.attempt <= file[e.unit].attempt
        /\ file[e.unit].attempt \in Nat /\ asked[e.unit] \in Nat
        /\ file[e.unit].attempt <= 1 + asked[e.unit]
    BY <1>1, <2>1 DEF EffectInv, HostInv, RecordShape, IInv, AttemptsWereDelivered
  <2>3. /\ asked'[e.unit] = asked[e.unit] + 1 /\ DOMAIN asked' = Units
        /\ \A u \in Units \ {e.unit} : asked'[u] = asked[u]
    BY <1>1, <2>1, <2>2 DEF HostInv
  <2>4. file' = file /\ decide' = decide /\ checkpoint' = checkpoint
        /\ decisions' = decisions
    BY <2>1 DEF Receive
  <2>5. HostInv'
    BY <1>1, <2>1, <2>2, <2>3, <2>4 DEF HostInv
  <2>6. Gained(file, file', said, said', asked, asked')
    BY <1>1, <2>1, <2>2, <2>3, <2>4 DEF Gained
  <2>7. ReceiptInv([action |-> e, said |-> None], said', asked')
    BY <2>1, <2>2, <2>3 DEF ReceiptInv
  <2> QED
    BY <2>1, <2>4, <2>5, <2>6, <2>7, ReceiveKeeps DEF Grows
<1> QED
  BY <1>3, <1>4, <1>5, <1>6, <1>7 DEF Perform

LEMMA ForgetKeeps ==
  ASSUME IInv, Refuse \/ QueenLost
  PROVE  IInv'
<1>1. /\ receipts' \subseteq receipts /\ answer' = NoAnswer
      /\ UNCHANGED <<file, checkpoint, host>> /\ UNCHANGED <<decisions, decide>>
      /\ advance' = advance
  BY DEF Refuse, QueenLost
<1>2. Grows
  BY <1>1, HostStands
<1>3. QueenInv'
  BY <1>1, <1>2, GrowsKeeps DEF QueenInv, IInv, NoAnswer
<1> QED
  BY <1>1, <1>2, <1>3, GrowsKeeps, RestStands DEF IInv, Grows

LEMMA LostKeeps ==
  ASSUME IInv, AdvanceLost
  PROVE  IInv'
<1>1. /\ UNCHANGED <<file, checkpoint, host>> /\ UNCHANGED <<decisions, decide>>
      /\ UNCHANGED <<answer, receipts>> /\ advance' = None
  BY DEF AdvanceLost, queen
<1>2. Grows
  BY <1>1, HostStands
<1> QED
  BY <1>1, <1>2, GrowsKeeps, RestStands DEF IInv, Grows

-----------------------------------------------------------------------------
(* decide                                                                  *)

\* A decision in progress, as it may be recorded.
LEMMA DecideKeeps ==
  ASSUME IInv, NEW d \in Deciders, NEW x,
         decide' = [decide EXCEPT ![d] = x],
         UNCHANGED <<file, checkpoint, host>>, advance' = advance,
         UNCHANGED <<answer, receipts>>, decisions' = decisions,
         x # None => /\ DOMAIN x = {"new", "at"}
                     /\ DecisionInv(x.new, Stored, file, said, decisions)
  PROVE  IInv'
<1>1. DOMAIN decide = Deciders
  BY DEF IInv, HostInv
<1>2. Grows
  BY HostStands
<1>3. ASSUME NEW c \in Deciders, decide'[c] # None
      PROVE  /\ DOMAIN decide'[c] = {"new", "at"}
             /\ DecisionInv(decide'[c].new, Stored, file, said, decisions)
  <2>1. decide'[c] = IF c = d THEN x ELSE decide[c]
    BY <1>1
  <2> QED
    BY <1>3, <2>1 DEF IInv, DecisionsInv
<1>4. DecisionsInv'
  BY <1>2, <1>3, GrowsKeeps DEF IInv, DecisionsInv
<1> QED
  BY <1>2, <1>4, GrowsKeeps, RestStands DEF IInv, Grows

LEMMA BeginDecideKeeps ==
  ASSUME IInv, NEW d \in Deciders, BeginDecide(d)
  PROVE  IInv'
<1>1. PICK r \in receipts, verdict \in {"accepted", "rejected"} :
        /\ r.action.type = "read" /\ file[r.action.unit].attempt = r.action.attempt
        /\ CurrentResult(r) /\ (verdict = "accepted" => r.said.envelope.succeeded)
        /\ decide' = [decide EXCEPT ![d] = [new |-> DecisionOf(r, verdict), at |-> "latest"]]
  BY DEF BeginDecide
<1> DEFINE u == r.action.unit
           m == Stored.members[u]
           new == DecisionOf(r, verdict)
<1>2. /\ u \in Units /\ r.said.source \in 1 .. Len(said[u])
      /\ r.said.envelope = said[u][r.said.source]
  BY <1>1 DEF IInv, QueenInv, ReceiptInv
<1>3. /\ u \in DOMAIN Stored.members /\ m.attempt = r.action.attempt
      /\ m.result = "current" /\ m.source = r.said.source
  BY <1>1 DEF CurrentResult, Stored
<1>4. file[u].attempt \in Nat /\ Len(said[u]) \in Nat
  BY <1>2 DEF IInv, HostInv, RecordShape, Talks
<1>5. /\ new.unit = u /\ new.attempt = r.action.attempt /\ new.turn = r.said.source
      /\ new.verdict = verdict
      /\ new \in [unit : Units, attempt : Nat, turn : Nat, verdict : {"accepted", "rejected"}]
  BY <1>1, <1>2, <1>4 DEF DecisionOf
<1>6. Frozen(Stored, u, r.action.attempt, r.said.source)
  BY <1>3 DEF Frozen
<1> HIDE DEF new, u, m
<1>7. DecisionInv(new, Stored, file, said, decisions)
  BY <1>1, <1>2, <1>5, <1>6 DEF DecisionInv, u
<1> QED
  BY <1>1, <1>7, DecideKeeps DEF BeginDecide, queen, new

LEMMA DecideStepKeeps ==
  ASSUME IInv, NEW d \in Deciders, CheckLatest(d) \/ DecideLost(d)
  PROVE  IInv'
<1>1. /\ DOMAIN decide[d] = {"new", "at"}
      /\ DecisionInv(decide[d].new, Stored, file, said, decisions)
  BY DEF CheckLatest, DecideLost, IInv, DecisionsInv
<1>2. PICK x \in {None, [decide[d] EXCEPT !.at = "record"]} :
        decide' = [decide EXCEPT ![d] = x]
  BY DEF CheckLatest, DecideLost
<1>3. x # None => DOMAIN x = {"new", "at"} /\ x.new = decide[d].new
  BY <1>1, <1>2
<1> QED
  BY <1>1, <1>2, <1>3, DecideKeeps DEF CheckLatest, DecideLost, queen

LEMMA RecordKeeps ==
  ASSUME IInv, NEW d \in Deciders, Record(d)
  PROVE  IInv'
<1> DEFINE new == decide[d].new
<1>1. DecisionInv(new, Stored, file, said, decisions)
  BY DEF Record, IInv, DecisionsInv
<1>2. /\ decisions' = Decisions(new) /\ decide' = [decide EXCEPT ![d] = None]
      /\ UNCHANGED <<file, checkpoint, host>> /\ UNCHANGED <<answer, receipts>>
      /\ advance' = advance
  BY DEF Record, queen
<1> HIDE DEF new
<1>3. decisions \subseteq decisions' /\ decisions' \subseteq decisions \cup {new}
  BY <1>2 DEF Decisions
<1>4. Grows
  BY <1>2, <1>3, HostStands
<1>5. \A p \in decisions' : DecisionInv(p, Stored', file', said', decisions')
  BY <1>1, <1>3, <1>4, GrowsKeeps DEF IInv, DecisionsInv
<1>6. ASSUME NEW c \in Deciders, decide'[c] # None
      PROVE  /\ DOMAIN decide'[c] = {"new", "at"}
             /\ DecisionInv(decide'[c].new, Stored', file', said', decisions')
  <2>1. decide'[c] = decide[c]
    BY <1>2, <1>6 DEF IInv, HostInv
  <2> QED
    BY <1>4, <1>6, <2>1, GrowsKeeps DEF IInv, DecisionsInv
<1>7. \A p, q \in decisions' : SameDecisionId(p, q) => p = q
  BY <1>2 DEF Decisions, Fresh, SameDecisionId, IInv, DecisionsInv
<1>8. DecisionsInv'
  BY <1>5, <1>6, <1>7 DEF DecisionsInv
<1> QED
  BY <1>2, <1>4, <1>8, GrowsKeeps, RestStands DEF IInv, Grows

-----------------------------------------------------------------------------
(* The two writes of advance                                               *)

Settled(ds, cp, fs, talks) ==
  /\ \A p, q \in ds : SameDecisionId(p, q) => p = q
  /\ \A p \in ds : DecisionInv(p, cp, fs, talks, ds)

LEMMA AcceptedIsLast ==
  ASSUME NEW ds, NEW cp, NEW fs, NEW talks, Settled(ds, cp, fs, talks),
         NEW p \in ds, p.verdict = "accepted"
  PROVE  fs[p.unit].attempt = p.attempt /\ talks[p.unit][p.turn].succeeded
<1>1. DecisionInv(p, cp, fs, talks, ds)
  BY DEF Settled
<1>2. Verdict(p.unit, p.attempt, p.turn, "rejected") \notin ds
  <2> DEFINE q == Verdict(p.unit, p.attempt, p.turn, "rejected")
  <2>1. SameDecisionId(p, q) /\ p # q
    BY DEF SameDecisionId, Verdict
  <2> HIDE DEF q
  <2> QED
    BY <2>1 DEF Settled, q
<1> QED
  BY <1>1, <1>2 DEF DecisionInv

\* What storing an action does to the record of its unit.
StoredIs(action, old, new) ==
  /\ RecordShape(new) /\ new.binding = old.binding
  /\ new.required => old.required
  /\ action.type = "repair" => new.attempt = old.attempt /\ ~ new.required
  /\ action.type = "correct" =>
       /\ new.attempt = action.attempt + 1
       /\ old.attempt \in {action.attempt, action.attempt + 1}

LEMMA StoredRecordIs ==
  ASSUME NEW action, action.type \in {"correct", "repair"},
         NEW old, old = file[action.unit], RecordShape(old),
         action.type = "correct" =>
           /\ action.attempt \in Nat
           /\ old.attempt \in {action.attempt, action.attempt + 1},
         NEW r \in StoredRecord(action)
  PROVE  StoredIs(action, old, r)
<1>1. CASE action.type = "repair"
  <2>1. r = [old EXCEPT !.required = FALSE]
    BY <1>1 DEF StoredRecord, DetachImpossibleRequiredMember
  <2> QED
    BY <1>1, <2>1 DEF RecordShape, RecordFields, StoredIs
<1>2. CASE action.type = "correct"
  <2>1. CASE old.attempt = action.attempt
    <3>1. r = [old EXCEPT !.attempt = @ + 1]
      BY <1>2, <2>1 DEF StoredRecord, AdvanceAttempt
    <3> QED
      BY <1>2, <2>1, <3>1 DEF RecordShape, RecordFields, StoredIs
  <2>2. CASE old.attempt # action.attempt
    <3>1. r = old /\ old.attempt = action.attempt + 1
      BY <1>2, <2>2 DEF StoredRecord
    <3> QED
      BY <1>2, <3>1 DEF StoredIs
  <2> QED
    BY <2>1, <2>2
<1> QED
  BY <1>1, <1>2

LEMMA StoreKeeps ==
  ASSUME IInv, Store
  PROVE  IInv'
<1> DEFINE a == advance.action
           u == a.unit
           n == advance.next
<1>1. /\ advance # None /\ advance.at = "store"
      /\ UNCHANGED <<checkpoint, host>> /\ UNCHANGED <<decisions, decide>>
      /\ UNCHANGED <<answer, receipts>>
  BY DEF Store, queen
<1>2. CASE advance' = None /\ file' = file
  <2>1. Grows
    BY <1>1, <1>2, HostStands
  <2> QED
    BY <1>1, <1>2, <2>1, GrowsKeeps, RestStands DEF IInv, Grows
<1>3. CASE ~ (advance' = None /\ file' = file)
  <2>1. PICK r \in StoredRecord(a) :
          /\ file' = [file EXCEPT ![u] = r]
          /\ advance' = [advance EXCEPT !.at = "write", !.next = Synthesize(@, file')]
    BY <1>3 DEF Store
  <2>2. /\ DOMAIN advance = {"action", "next", "at", "unbound"}
        /\ MembersInv(n, file, said, decisions) /\ Follows(Stored, n, file, decisions)
        /\ ~ advance.unbound =>
             \A v \in Units : file[v].required => file[v].binding.state = "bound"
        /\ StoreInv(a, n, file, asked)
    BY <1>1 DEF IInv, AdvanceInv
  <2>3. u \in Units /\ a.type \in {"correct", "repair"} /\ RecordShape(file[u])
        /\ DOMAIN file = Units
    BY <2>2 DEF StoreInv, IInv, HostInv
  <2>4. StoredIs(a, file[u], r)
    BY <2>2, <2>3, StoredRecordIs DEF StoreInv
  <2>5. file'[u] = r /\ DOMAIN file' = Units /\ \A v \in Units \ {u} : file'[v] = file[v]
    BY <2>1, <2>3
  <2> DEFINE n2 == Synthesize(n, file')
  <2>6. /\ DOMAIN advance' = {"action", "next", "at", "unbound"}
        /\ advance'.next = n2 /\ advance'.at = "write"
        /\ advance'.unbound = advance.unbound
    BY <2>1, <2>2
  <2> HIDE DEF a, n, n2
  <2>7. HostInv'
    BY <1>1, <2>4, <2>5 DEF IInv, HostInv, StoredIs, host
  <2>8. ASSUME NEW v \in Units
        PROVE  /\ file[v].attempt \in Nat /\ file'[v].attempt \in Nat
               /\ file[v].attempt <= file'[v].attempt
               /\ file'[v].binding = file[v].binding
               /\ file'[v].required => file[v].required
               /\ Len(said[v]) \in Nat
    <3>1. file[v].attempt \in Nat /\ Len(said[v]) \in Nat
      BY DEF IInv, HostInv, RecordShape, Talks
    <3>2. CASE v # u
      BY <2>5, <3>1, <3>2
    <3>3. CASE v = u
      <4>1. r.attempt \in Nat /\ file[u].attempt <= r.attempt
        BY <2>2, <2>3, <2>4, <3>1, <3>3 DEF StoredIs, RecordShape, StoreInv
      <4> QED
        BY <2>4, <2>5, <3>1, <3>3, <4>1 DEF StoredIs
    <3> QED
      BY <3>2, <3>3
  <2>9. \A x : Spent(x, file) => Spent(x, file')
    BY <2>8 DEF Spent
  <2>10. CheckpointInv'
    <3>1. Stored' = Stored /\ said' = said /\ decisions' = decisions
      BY <1>1 DEF Stored, host
    <3>2. /\ MembersInv(Stored, file, said, decisions) /\ NotAhead(Stored, file)
          /\ ConsumedInv(Stored, file)
      BY DEF IInv, CheckpointInv
    <3>3. MembersInv(Stored, file', said, decisions)
      BY <2>8, <3>2 DEF MembersInv
    <3>4. NotAhead(Stored, file')
      <4>1. ASSUME NEW v \in DOMAIN Stored.members
            PROVE  v \in Units /\ Stored.members[v].attempt \in Nat
        BY <3>2 DEF MembersInv, MemberInv
      <4> QED
        BY <2>8, <3>2, <4>1 DEF NotAhead
    <3>5. ConsumedInv(Stored, file')
      BY <2>9, <3>2 DEF ConsumedInv
    <3> QED
      BY <3>1, <3>3, <3>4, <3>5 DEF CheckpointInv
  <2>11. /\ MembersInv(n2, file', said, decisions)
         /\ Synthesized(n, file', n2)
    <3>1. \A v \in Units : RecordShape(file'[v]) /\ Len(said[v]) \in Nat
      BY <2>7, <2>8 DEF HostInv
    <3> QED
      BY <2>2, <3>1, SynthesizeIs DEF MembersInv, n2
  <2>12. WriteInv(n2, file', advance.unbound)
    <3>1. ASSUME NEW v \in DOMAIN n2.members
          PROVE  /\ n2.members[v].attempt <= file'[v].attempt
                 /\ file'[v].required => n2.members[v].required
      <4>1. v \in Units /\ n2.members[v].attempt = file'[v].attempt
        BY <2>11, <3>1 DEF MembersInv, Synthesized
      <4>2. ASSUME file'[v].required, v \in DOMAIN n.members, n2.members[v] = n.members[v]
            PROVE  n2.members[v].required
        <5>1. ~ (a.type = "repair" /\ v = u)
          BY <2>4, <2>5, <4>2 DEF StoredIs
        <5> QED
          BY <2>2, <2>8, <4>1, <4>2, <5>1 DEF StoreInv, a
      <4> QED
        BY <2>8, <2>11, <4>1, <4>2 DEF Synthesized
    <3>2. ConsumedInv(n2, file')
      <4>1. n2.consumed = n.consumed /\ Used(n2) = Used(n)
        BY <2>11 DEF Synthesized, Used
      <4>2. ASSUME NEW x, x.action = a PROVE Spent(x, file')
        <5>1. a.type = "correct" =>
                a.unit \in Units /\ a.attempt \in Nat /\ file'[a.unit].attempt = a.attempt + 1
          BY <2>2, <2>3, <2>4, <2>5 DEF StoredIs, StoreInv
        <5> QED
          BY <4>2, <5>1 DEF Spent
      <4> QED
        BY <2>2, <2>9, <4>1, <4>2 DEF ConsumedInv, StoreInv
    <3>3. ASSUME ~ advance.unbound, NEW v \in Units, file'[v].required
          PROVE  v \in DOMAIN n2.members
      BY <2>2, <2>8, <2>11, <3>3 DEF Synthesized
    <3> QED
      BY <3>1, <3>2, <3>3 DEF WriteInv, NotAhead
  <2>13. Follows(Stored, n2, file', decisions)
    <3> SUFFICES ASSUME NEW v \in DOMAIN Stored.members,
                        Stored.members[v].result = "current",
                        Stored.members[v].attempt = file'[v].attempt
                 PROVE  \/ Frozen(n2, v, Stored.members[v].attempt, Stored.members[v].source)
                        \/ Verdict(v, Stored.members[v].attempt, Stored.members[v].source,
                                   "rejected") \in decisions
      BY DEF Follows
    <3>1. /\ v \in Units /\ file[v].binding.state = "bound"
          /\ Stored.members[v].attempt <= file[v].attempt
          /\ Stored.members[v].attempt \in Nat
      BY DEF IInv, CheckpointInv, MembersInv, NotAhead, MemberInv
    <3>2. Stored.members[v].attempt = file[v].attempt
      BY <2>8, <3>1
    <3>3. v \in DOMAIN n2.members
      BY <2>8, <2>11, <3>1 DEF Synthesized
    <3> QED
      BY <2>2, <2>11, <3>2, <3>3 DEF Follows, Frozen, Synthesized
  <2>14. AdvanceInv'
    <3>1. ~ advance.unbound =>
            \A v \in Units : file'[v].required => file'[v].binding.state = "bound"
      BY <2>2, <2>8
    <3>2. Stored' = Stored /\ said' = said /\ decisions' = decisions
      BY <1>1 DEF Stored, host
    <3> QED
      BY <2>6, <2>11, <2>12, <2>13, <3>1, <3>2 DEF AdvanceInv
  <2>15. ASSUME NEW p, DecisionInv(p, Stored, file, said, decisions)
         PROVE  DecisionInv(p, Stored, file', said, decisions)
    <3>1. ASSUME p.unit = u, file'[u].attempt # file[u].attempt,
                 file[u].attempt = p.attempt, Frozen(Stored, u, p.attempt, p.turn)
          PROVE  Verdict(p.unit, p.attempt, p.turn, "rejected") \in decisions
      <4>1. a.type = "correct" /\ a.attempt \in Nat /\ file[u].attempt = a.attempt
        BY <2>2, <2>3, <2>4, <2>5, <3>1 DEF StoredIs, StoreInv
      <4>2. n.members[u].attempt = p.attempt + 1 /\ p.attempt \in Nat
        BY <2>2, <3>1, <4>1 DEF StoreInv, a
      <4>3. ~ Frozen(n, u, p.attempt, p.turn)
        BY <4>2 DEF Frozen
      <4> QED
        BY <2>2, <3>1, <4>3 DEF Follows, Frozen
    <3>2. p.unit \in Units
      BY <2>15 DEF DecisionInv
    <3> QED
      BY <2>5, <2>15, <3>1, <3>2 DEF DecisionInv
  <2>16. DecisionsInv'
    <3>1. Stored' = Stored /\ said' = said /\ decisions' = decisions /\ decide' = decide
      BY <1>1 DEF Stored, host
    <3> QED
      BY <2>15, <3>1 DEF IInv, DecisionsInv
  <2>17. ContinueIsEarned'
    <3> SUFFICES ASSUME NEW v \in Units, file'[v].required
                 PROVE  /\ answer.boundary \in {"decide", "continue"} =>
                             file'[v].binding.state = "bound"
                        /\ answer.boundary = "continue" =>
                             \E d \in decisions :
                               d.unit = v /\ d.attempt = file'[v].attempt
                               /\ d.verdict = "accepted"
      BY <1>1 DEF ContinueIsEarned
    <3>1. /\ answer.boundary \in {"decide", "continue"} => file[v].binding.state = "bound"
          /\ answer.boundary = "continue" =>
               \E d \in decisions : d.unit = v /\ d.verdict = "accepted"
      BY <2>8 DEF IInv, QueenInv, ContinueIsEarned
    <3>2. \A d \in decisions : d.verdict = "accepted" => file'[d.unit].attempt = d.attempt
      <4>1. Settled(decisions, Stored, file', said)
        BY <2>15 DEF IInv, DecisionsInv, Settled
      <4> QED
        BY <4>1, AcceptedIsLast
    <3> QED
      BY <2>8, <3>1, <3>2
  <2>18. QueenInv'
    <3>1. said' = said /\ asked' = asked /\ answer' = answer /\ receipts' = receipts
      BY <1>1 DEF host
    <3>2. ASSUME NEW e, EffectInv(e, file, said) PROVE EffectInv(e, file', said)
      BY <2>8, <3>2 DEF EffectInv
    <3> QED
      BY <2>17, <3>1, <3>2 DEF IInv, QueenInv
  <2>19. AttemptsWereDelivered'
    <3>1. ASSUME NEW v \in Units PROVE file'[v].attempt <= 1 + asked[v]
      <4>1. file[v].attempt <= 1 + asked[v] /\ asked[v] \in Nat
        BY DEF IInv, AttemptsWereDelivered, HostInv
      <4>2. CASE v # u
        BY <2>5, <4>1, <4>2
      <4>3. CASE v = u
        BY <2>2, <2>3, <2>4, <2>5, <4>1, <4>3 DEF StoredIs, StoreInv
      <4> QED
        BY <4>2, <4>3
    <3> QED
      BY <1>1, <3>1 DEF AttemptsWereDelivered, host
  <2> QED
    BY <2>7, <2>10, <2>14, <2>16, <2>18, <2>19 DEF IInv
<1> QED
  BY <1>2, <1>3

LEMMA WriteCheckpointKeeps ==
  ASSUME IInv, WriteCheckpoint
  PROVE  IInv'
<1> DEFINE n == advance.next
<1>1. /\ advance # None /\ advance.at = "write" /\ checkpoint' = n
      /\ answer' = Answer(n, advance.unbound) /\ advance' = None
      /\ UNCHANGED <<file, said, asked>> /\ UNCHANGED <<decisions, decide>>
      /\ receipts' = receipts /\ UNCHANGED host
  BY DEF WriteCheckpoint, host
<1>2. /\ MembersInv(n, file, said, decisions) /\ Follows(Stored, n, file, decisions)
      /\ ~ advance.unbound =>
           \A u \in Units : file[u].required => file[u].binding.state = "bound"
      /\ WriteInv(n, file, advance.unbound)
  BY <1>1 DEF IInv, AdvanceInv
<1> HIDE DEF n
<1>3. Stored' = n
  <2>1. DOMAIN n # DOMAIN NoCheckpoint
    BY <1>2 DEF MembersInv, CheckpointFields, NoCheckpoint
  <2> QED
    BY <1>1, <2>1 DEF Stored
<1>4. HostInv' /\ AttemptsWereDelivered' /\ AdvanceInv'
  BY <1>1 DEF IInv, HostInv, AttemptsWereDelivered, AdvanceInv, host
<1>5. CheckpointInv'
  BY <1>1, <1>2, <1>3 DEF CheckpointInv, WriteInv
<1>6. ASSUME NEW p, DecisionInv(p, Stored, file, said, decisions)
      PROVE  DecisionInv(p, n, file, said, decisions)
  BY <1>2, <1>6 DEF DecisionInv, Follows, Frozen
<1>7. DecisionsInv'
  BY <1>1, <1>3, <1>6 DEF IInv, DecisionsInv
<1>8. /\ answer'.targets = WaitTargets(n) /\ answer'.effects = Effects(n)
      /\ answer'.boundary \in {"decide", "continue"} =>
           ~ advance.unbound /\ answer'.boundary = Boundary(n)
  BY <1>1 DEF Answer
<1>9. DOMAIN answer'.targets \subseteq Units
  BY <1>2, <1>8 DEF WaitTargets, WaitMembers, Active, MembersInv
<1>10. ASSUME NEW e \in answer'.effects PROVE EffectInv(e, file, said)
  <2>1. EffectIs(n, e)
    BY <1>8, EffectsAre
  <2>2. ASSUME NEW u \in DOMAIN n.members
        PROVE  /\ u \in Units /\ MemberInv(u, n.members[u], said[u], decisions)
               /\ n.members[u].attempt <= file[u].attempt
    BY <1>2 DEF MembersInv, WriteInv, NotAhead
  <2>3. e.type # "wait" => e.unit \in DOMAIN n.members
    BY <2>1 DEF EffectIs, ReadMembers, CorrectionMembers, ImpossibleMembers, Active
  <2>4. CASE e.type = "read"
    <3>1. /\ n.members[e.unit].state = "terminal" /\ e.turn = n.members[e.unit].latest
          /\ n.members[e.unit].latest # 0
      BY <2>1, <2>4 DEF EffectIs, ReadMembers
    <3>2. /\ n.members[e.unit].latest \in Nat
          /\ n.members[e.unit].latest <= Len(said[e.unit])
      BY <2>2, <2>3, <2>4, <3>1 DEF MemberInv
    <3>3. Len(said[e.unit]) \in Nat
      BY <2>2, <2>3, <2>4 DEF IInv, HostInv, Talks
    <3>4. e.turn \in 1 .. Len(said[e.unit])
      BY <3>1, <3>2, <3>3
    <3> QED
      BY <2>2, <2>3, <2>4, <3>4 DEF EffectInv
  <2>5. CASE e.type = "correct"
    <3>1. e.attempt = n.members[e.unit].attempt
      BY <2>1, <2>5 DEF EffectIs
    <3> QED
      BY <2>2, <2>3, <2>5, <3>1 DEF EffectInv, MemberInv
  <2> QED
    BY <2>2, <2>3, <2>4, <2>5 DEF EffectInv
<1>11. ContinueIsEarned'
  <2> SUFFICES ASSUME NEW u \in Units, file[u].required,
                      answer'.boundary \in {"decide", "continue"}
               PROVE  /\ file[u].binding.state = "bound"
                      /\ answer'.boundary = "continue" =>
                           \E d \in decisions :
                             d.unit = u /\ d.attempt = file[u].attempt
                             /\ d.verdict = "accepted"
    BY <1>1 DEF ContinueIsEarned
  <2>1. file[u].binding.state = "bound" /\ u \in DOMAIN n.members
    BY <1>2, <1>8 DEF WriteInv
  <2>2. ASSUME answer'.boundary = "continue"
        PROVE  \E d \in decisions :
                 d.unit = u /\ d.attempt = file[u].attempt /\ d.verdict = "accepted"
    <3> DEFINE m == n.members[u]
               d == Verdict(u, m.attempt, m.source, "accepted")
    <3>1. MemberInv(u, m, said[u], decisions) /\ m.required
      BY <1>2, <2>1 DEF MembersInv, WriteInv, NotAhead
    <3>2. u \in Active(n)
      BY <2>1, <3>1 DEF Active, MemberInv
    <3>3. m.coordination = "accepted"
      BY <1>8, <2>2, <3>2 DEF Boundary
    <3>4. d \in decisions
      BY <3>1, <3>3 DEF MemberInv
    <3>5. d.unit = u /\ d.attempt = m.attempt /\ d.verdict = "accepted"
      BY DEF Verdict
    <3> HIDE DEF d, m
    <3>6. file[u].attempt = d.attempt
      <4>1. Settled(decisions, Stored, file, said)
        BY DEF IInv, DecisionsInv, Settled
      <4> QED
        BY <3>4, <3>5, <4>1, AcceptedIsLast
    <3> QED
      BY <3>4, <3>5, <3>6
  <2> QED
    BY <2>1, <2>2
<1>12. QueenInv'
  BY <1>1, <1>9, <1>10, <1>11 DEF IInv, QueenInv
<1> QED
  BY <1>4, <1>5, <1>7, <1>12 DEF IInv

-----------------------------------------------------------------------------
(* The theorems                                                            *)

LEMMA IInvInit ==
  ASSUME Init
  PROVE  IInv
<1>1. Stored = Blank /\ advance = None
  BY DEF Init, Stored
<1>2. ASSUME NEW u \in Units
      PROVE  RecordShape(file[u]) /\ file[u].attempt = 1 /\ said[u] = << >> /\ asked[u] = 0
  BY DEF Init, RecordShape, RecordFields, Recorded
<1>3. HostInv /\ AttemptsWereDelivered
  BY <1>2 DEF Init, HostInv, Talks, AttemptsWereDelivered
<1>4. DOMAIN Blank = CheckpointFields /\ DOMAIN Blank.members = {} /\ Used(Blank) = {}
      /\ Blank.consumed = << >>
  BY DEF Blank, CheckpointFields, Used
<1>5. CheckpointInv
  BY <1>1, <1>4 DEF CheckpointInv, MembersInv, NotAhead, ConsumedInv
<1>6. AdvanceInv
  BY <1>1 DEF AdvanceInv
<1>7. DecisionsInv
  BY DEF Init, DecisionsInv
<1>8. QueenInv
  BY DEF Init, QueenInv, NoAnswer, ContinueIsEarned
<1> QED
  BY <1>3, <1>5, <1>6, <1>7, <1>8 DEF IInv

LEMMA IInvStep ==
  ASSUME IInv, [Next]_vars
  PROVE  IInv'
<1>1. CASE UNCHANGED vars
  <2>1. Grows
    BY <1>1, HostStands DEF vars
  <2> QED
    BY <1>1, <2>1, GrowsKeeps, RestStands DEF IInv, Grows, vars, queen
<1>2. CASE Next
  <2>1. CASE \E r \in receipts \cup {None} : BeginAdvance(r)
    BY <2>1, BeginAdvanceKeeps
  <2>2. CASE Refuse \/ QueenLost
    BY <2>2, ForgetKeeps
  <2>3. CASE Store
    BY <2>3, StoreKeeps
  <2>4. CASE WriteCheckpoint
    BY <2>4, WriteCheckpointKeeps
  <2>5. CASE \E d \in Deciders : BeginDecide(d)
    BY <2>5, BeginDecideKeeps
  <2>6. CASE \E d \in Deciders : CheckLatest(d) \/ DecideLost(d)
    BY <2>6, DecideStepKeeps
  <2>7. CASE \E d \in Deciders : Record(d)
    BY <2>7, RecordKeeps
  <2>8. CASE Perform
    BY <2>8, PerformKeeps
  <2>9. CASE \E u \in Units : Launched(u) \/ EndTurn(u) \/ UserTurn(u)
    BY <2>9, HostKeeps
  <2>10. CASE AdvanceLost
    BY <2>10, LostKeeps
  <2> QED
    BY <1>2, <2>1, <2>2, <2>3, <2>4, <2>5, <2>6, <2>7, <2>8, <2>9, <2>10 DEF Next
<1> QED
  BY <1>1, <1>2

LEMMA Invariant == Spec => []IInv
BY IInvInit, IInvStep, PTL DEF Spec

(* What the checkpoint calls accepted is what the queen accepted: the       *)
(* succeeded, current result of this attempt and this turn.                 *)
THEOREM AcceptanceIsOfTheResult == Spec => []AcceptedIsDecided
<1>1. IInv => AcceptedIsDecided
  <2> SUFFICES ASSUME IInv, checkpoint # NoCheckpoint, NEW u \in DOMAIN checkpoint.members,
                      checkpoint.members[u].coordination = "accepted"
               PROVE  LET m == checkpoint.members[u]
                      IN  /\ m.state = "terminal" /\ m.result = "current"
                          /\ m.envelope.succeeded /\ m.envelope.attempt = m.attempt
                          /\ said[u][m.source] = m.envelope
                          /\ Verdict(u, m.attempt, m.source, "accepted") \in decisions
    BY DEF AcceptedIsDecided, Verdict
  <2> DEFINE m == checkpoint.members[u]
             d == Verdict(u, m.attempt, m.source, "accepted")
  <2>1. MemberInv(u, m, said[u], decisions)
    BY DEF IInv, CheckpointInv, MembersInv, Stored
  <2>2. /\ m.state = "terminal" /\ m.result = "current" /\ m.envelope.attempt = m.attempt
        /\ said[u][m.source] = m.envelope /\ d \in decisions
    BY <2>1 DEF MemberInv
  <2>3. d.unit = u /\ d.turn = m.source /\ d.verdict = "accepted"
    BY DEF Verdict
  <2> HIDE DEF m, d
  <2>4. said[u][m.source].succeeded
    <3>1. Settled(decisions, Stored, file, said)
      BY DEF IInv, DecisionsInv, Settled
    <3> QED
      BY <2>2, <2>3, <3>1, AcceptedIsLast
  <2> QED
    BY <2>2, <2>4 DEF m, d
<1> QED
  BY <1>1, Invariant, PTL

(* An acceptance is the last word: whatever decides, replays or stops, the  *)
(* accepted attempt is not sent back for a correction.                      *)
THEOREM AcceptanceIsFinal == Spec => []AcceptedStands
<1>1. IInv => AcceptedStands
  <2> SUFFICES ASSUME IInv, NEW d \in decisions, d.verdict = "accepted"
               PROVE  file[d.unit].attempt = d.attempt
    BY DEF AcceptedStands
  <2>1. Settled(decisions, Stored, file, said)
    BY DEF IInv, DecisionsInv, Settled
  <2> QED
    BY <2>1, AcceptedIsLast
<1> QED
  BY <1>1, Invariant, PTL

(* The checkpoint is never ahead of the execution record, however the two   *)
(* writes of an advance are interrupted.                                    *)
THEOREM RecordIsWrittenFirst == Spec => []CheckpointNotAhead
<1>1. IInv => CheckpointNotAhead
  BY DEF IInv, CheckpointInv, NotAhead, Stored, CheckpointNotAhead
<1> QED
  BY <1>1, Invariant, PTL

(* An attempt is spent only on a correction that was delivered, and once.   *)
THEOREM AttemptsAreNotLost == Spec => []AttemptsWereDelivered
<1>1. IInv => AttemptsWereDelivered
  BY DEF IInv
<1> QED
  BY <1>1, Invariant, PTL

(* Continue has the whole wave behind it: every required unit is bound and  *)
(* accepted at the attempt its record is at.                                *)
THEOREM ContinueIsSafe == Spec => []ContinueIsEarned
<1>1. IInv => ContinueIsEarned
  BY DEF IInv, QueenInv
<1> QED
  BY <1>1, Invariant, PTL
=============================================================================
