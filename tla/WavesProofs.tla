----------------------------- MODULE WavesProofs -----------------------------
(***************************************************************************)
(* The waves for any plan, any number of Nelos processes and any mix of    *)
(* calls, faults and older files: archives are earned and asked for once,  *)
(* a cleaned wave is accepted, and a later wave is handed out in its turn. *)
(***************************************************************************)
EXTENDS Waves, FiniteSetTheorems, TLAPS

\* What the jobs and the effects in flight rely on.
View ==
  [persisted |-> Persisted, accepted |-> {s \in Slices : Accepted(s)},
   current |-> [s \in Slices |-> Current(s)], life |-> life,
   confirmed |-> confirmed, archived |-> archived]

Finished(w, v) == Spinoffs(w) \subseteq v.accepted

Verified(w, v) == Spinoffs(w) \subseteq v.persisted

\* A plan run: its marks are in order and earned.
RunInv(r, v) ==
  /\ r \in Runs
  /\ Cardinality(r.verified) \in Nat /\ r.verified = 1 .. Cardinality(r.verified)
  /\ CleanedInOrder(r)
  /\ \A w \in r.verified : Verified(w, v)
  /\ \A w \in r.cleaned : Finished(w, v)

\* A record whose cleanup has begun.
Asked(r) == r # None /\ r.cleanup # "pending"

LifeInv(r) ==
  /\ ValidLife(r)
  /\ r.cleanup \in {"archiving", "archived"} => r.policy \in Policies \ {"keep"}

Granted(s, v) == s \in Slices /\ Kind[s] = "spinoff" /\ Archivable /\ s \in v.accepted

\* The record of the task says that it is archived by this action, under a policy
\* that allows it.
Earned(s, action, v) ==
  LET r == v.life[v.current[s]]
  IN  /\ Granted(s, v) /\ r # None
      /\ r.cleanup \in {"archiving", "archived"} /\ r.action = action
      /\ r.policy \in {"auto", "ask"}
      /\ r.policy = "ask" => s \in v.confirmed

EffectInv(e, v) ==
  e.type = "archive" =>
    /\ e.at[1] \in Slices /\ e.at = v.current[e.at[1]]
    /\ e.action # None /\ Earned(e.at[1], e.action, v)

CleanupInv(j, v) ==
  /\ j.scope \in Scopes /\ j.policy \in Policies
  /\ \A s \in j.receipts : s \in Slices /\ v.archived[s] # None
  /\ j.scope # Web /\ ~ j.pending => Finished(j.scope, v)

SettleFields ==
  {"op", "scope", "digest", "policy", "todo", "receipts", "pending", "states", "archives"}

\* A spin-off that is about to be settled; under ask the user named it, or its
\* record is past the question.
ToSettle(s, j, v) ==
  /\ Granted(s, v)
  /\ j.policy = "ask" =>
       s \in v.confirmed \/ s \in j.receipts \/ Asked(v.life[v.current[s]])

JobInv(j, v) ==
  /\ j.op = "create" => j.seen = None \/ RunInv(j.seen, v)
  /\ j.op \in {"verify", "verified"} => j.wave \in Waves /\ Verified(j.wave, v)
  /\ j.op = "cleaned" => Finished(j.wave, v)
  /\ j.op = "marking" =>
       RunInv(j.next, v) /\ (j.what = "cleaned" => j.wave \in j.next.cleaned)
  /\ j.op = "complete" => j.at \in Attempts /\ j.content \in Contents
  /\ j.op = "cleanup" =>
       /\ CleanupInv(j, v)
       /\ \A s \in j.eligible : Granted(s, v)
       /\ j.confirm # None => j.confirm \subseteq v.confirmed
  /\ j.op = "settle" =>
       /\ DOMAIN j = SettleFields /\ CleanupInv(j, v)
       /\ \A s \in j.todo : ToSettle(s, j, v)
       /\ \A e \in j.archives : EffectInv(e, v)

Offered(w, v) ==
  /\ \A s \in Slices : WaveOf[s] < w /\ Kind[s] = "spinoff" => s \in v.accepted
  /\ Prerequisites(w) \subseteq v.persisted

FilesInv ==
  /\ unit \in [Slices -> [state : {"absent", "pending", "bound"}, attempt : 1 .. MaxAttempt]]
  /\ verdict \in [Attempts -> {None, "accepted", "rejected"}]
  /\ DOMAIN life = Attempts /\ \A a \in Attempts : life[a] = None \/ LifeInv(life[a])
  /\ run # None => RunInv(run, View)

OnceInv ==
  /\ issued \in [Attempts -> {0, 1}] /\ sent \in [Attempts -> {0, 1}]
  /\ \A a \in Attempts :
       /\ issued[a] = 1 => Asked(life[a])
       /\ sent[a] = 1 => life[a] # None /\ life[a].wake # "pending"

JobsInv ==
  /\ DOMAIN job = Procs
  /\ \A p \in Procs : job[p] # None => JobInv(job[p], View)

HostInv ==
  /\ \A s \in launched : s \in Slices /\ (Kind[s] = "spinoff" => s \in View.persisted)
  /\ \A e \in effects : EffectInv(e, View)
  /\ DOMAIN archived = Slices
  /\ \A s \in Slices : archived[s] # None => Earned(s, archived[s], View)
  /\ \A w \in offered \ {1} : Offered(w, View)

IInv == FilesInv /\ OnceInv /\ JobsInv /\ HostInv

\* A work unit, and a wave that is being verified, is of a wave that was handed out.
OrderInv ==
  /\ \A s \in Persisted : WaveOf[s] \in offered
  /\ \A p \in Procs : In(p, "verify") => job[p].wave \in offered

-----------------------------------------------------------------------------
(* What no step takes back                                                 *)

Goes(r, q) ==
  Asked(r) =>
    /\ Asked(q)
    /\ r.cleanup \in {"archiving", "archived"} =>
         /\ q.cleanup \in {"archiving", "archived"}
         /\ q.action = r.action /\ q.policy = r.policy

Onward(v, w) ==
  /\ v.persisted \subseteq w.persisted /\ v.accepted \subseteq w.accepted
  /\ \A s \in v.accepted : w.current[s] = v.current[s]
  /\ \A s \in Slices : v.current[s] \in Attempts
  /\ \A a \in Attempts : Goes(v.life[a], w.life[a])
  /\ v.confirmed \subseteq w.confirmed
  /\ \A s \in Slices : v.archived[s] # None => w.archived[s] # None

LEMMA RunKeeps ==
  ASSUME NEW v, NEW w, Onward(v, w), NEW r, RunInv(r, v)
  PROVE  RunInv(r, w)
BY DEF Onward, RunInv, Verified, Finished

LEMMA EarnedKeeps ==
  ASSUME NEW v, NEW w, Onward(v, w), NEW s, NEW action, Earned(s, action, v)
  PROVE  Earned(s, action, w)
<1> DEFINE a == v.current[s]
<1>1. s \in Slices /\ s \in v.accepted /\ a \in Attempts /\ w.current[s] = a
  BY DEF Earned, Granted, Onward
<1>2. Goes(v.life[a], w.life[a])
  BY <1>1 DEF Onward
<1> HIDE DEF a
<1>3. Asked(v.life[a])
  BY DEF Earned, Asked, a
<1> QED
  BY <1>1, <1>2, <1>3 DEF Earned, Granted, Goes, Asked, Onward, a

LEMMA EffectKeeps ==
  ASSUME NEW v, NEW w, Onward(v, w), NEW e, EffectInv(e, v)
  PROVE  EffectInv(e, w)
<1> SUFFICES ASSUME e.type = "archive"
             PROVE  /\ e.at[1] \in Slices /\ e.at = w.current[e.at[1]]
                    /\ e.action # None /\ Earned(e.at[1], e.action, w)
  BY DEF EffectInv
<1>1. /\ e.at[1] \in Slices /\ e.at = v.current[e.at[1]]
      /\ e.action # None /\ Earned(e.at[1], e.action, v)
  BY DEF EffectInv
<1>2. w.current[e.at[1]] = v.current[e.at[1]]
  BY <1>1 DEF Earned, Granted, Onward
<1> QED
  BY <1>1, <1>2, EarnedKeeps

LEMMA ToSettleKeeps ==
  ASSUME NEW v, NEW w, Onward(v, w), NEW s, NEW j, ToSettle(s, j, v)
  PROVE  ToSettle(s, j, w)
<1> DEFINE a == v.current[s]
<1>1. s \in Slices /\ s \in v.accepted /\ a \in Attempts /\ w.current[s] = a
      /\ Granted(s, w)
  BY DEF ToSettle, Granted, Onward
<1>2. Goes(v.life[a], w.life[a])
  BY <1>1 DEF Onward
<1>3. Asked(v.life[a]) => Asked(w.life[a])
  BY <1>2 DEF Goes
<1> HIDE DEF a
<1> QED
  BY <1>1, <1>3 DEF ToSettle, Onward, a

LEMMA JobKeeps ==
  ASSUME NEW v, NEW w, Onward(v, w), NEW j, JobInv(j, v)
  PROVE  JobInv(j, w)
<1>1. j.op = "create" => j.seen = None \/ RunInv(j.seen, w)
  BY RunKeeps DEF JobInv
<1>2. j.op = "marking" =>
        RunInv(j.next, w) /\ (j.what = "cleaned" => j.wave \in j.next.cleaned)
  BY RunKeeps DEF JobInv
<1>3. /\ j.op \in {"verify", "verified"} => j.wave \in Waves /\ Verified(j.wave, w)
      /\ j.op = "cleaned" => Finished(j.wave, w)
  BY DEF JobInv, Verified, Finished, Onward
<1>4. CleanupInv(j, v) => CleanupInv(j, w)
  BY DEF CleanupInv, Finished, Onward
<1>5. j.op = "cleanup" =>
        /\ CleanupInv(j, w)
        /\ \A s \in j.eligible : Granted(s, w)
        /\ j.confirm # None => j.confirm \subseteq w.confirmed
  BY <1>4 DEF JobInv, Granted, Onward
<1>6. j.op = "settle" =>
        /\ DOMAIN j = SettleFields /\ CleanupInv(j, w)
        /\ \A s \in j.todo : ToSettle(s, j, w)
        /\ \A e \in j.archives : EffectInv(e, w)
  BY <1>4, ToSettleKeeps, EffectKeeps DEF JobInv
<1>7. j.op = "complete" => j.at \in Attempts /\ j.content \in Contents
  BY DEF JobInv
<1> QED
  BY <1>1, <1>2, <1>3, <1>5, <1>6, <1>7 DEF JobInv

LEMMA OfferedKeeps ==
  ASSUME NEW v, NEW w, Onward(v, w), NEW x, Offered(x, v)
  PROVE  Offered(x, w)
BY DEF Offered, Onward

-----------------------------------------------------------------------------
(* The plan run                                                            *)

LEMMA WavesAre ==
  /\ Waves \subseteq Nat \ {0} /\ Web \notin Waves
  /\ \A s \in Slices : WaveOf[s] \in Waves /\ s \in Members(WaveOf[s])
BY PlanAssumption DEF Waves, Members, Web

LEMMA NewIs ==
  ASSUME NEW form \in Forms, NEW v
  PROVE  RunInv(New, v) /\ RunInv([New EXCEPT !.form = form], v)
<1>1. Cardinality({}) = 0 /\ {} = 1 .. 0
  BY FS_EmptySet
<1>2. New \in Runs
  BY DEF New, Runs, Forms
<1> QED
  BY <1>1, <1>2 DEF New, Runs, RunInv, CleanedInOrder

LEMMA AdoptIs ==
  ASSUME NEW v, NEW r, RunInv(r, v)
  PROVE  RunInv(Adopt(r), v)
<1> DEFINE new == New
           n == Adopt(r)
<1>1. new \in Runs
  BY NewIs DEF RunInv, New, Forms
<1>2. n = [new EXCEPT !.verified = r.verified, !.cleaned = r.cleaned]
  BY DEF Adopt
<1> HIDE DEF new, n
<1>3. n \in Runs /\ n.verified = r.verified /\ n.cleaned = r.cleaned
  BY <1>1, <1>2 DEF Runs, RunInv
<1>4. RunInv(n, v)
  BY <1>3 DEF RunInv, CleanedInOrder
<1> QED
  BY <1>4 DEF n

LEMMA MarkVerifiedIs ==
  ASSUME NEW v, NEW r, RunInv(r, v), NEW w, Verified(w, v), NEW digest,
         NEW n \in MarkVerified(r, w, digest)
  PROVE  RunInv(n, v)
<1>1. CASE n = r
  BY <1>1
<1>2. CASE n # r
  <2> DEFINE k == Cardinality(r.verified)
  <2>1. /\ n = [r EXCEPT !.verified = @ \cup {w}] /\ w \in Waves /\ w = k + 1
        /\ r \in Runs /\ k \in Nat /\ r.verified = 1 .. k
    BY <1>2 DEF MarkVerified, RequireWave, RunInv
  <2> HIDE DEF k
  <2>2. n \in Runs /\ n.verified = r.verified \cup {w} /\ n.cleaned = r.cleaned
    BY <2>1 DEF Runs
  <2>3. n.verified = 1 .. k + 1 /\ k + 1 \in Nat
    BY <2>1, <2>2
  <2>4. Cardinality(1 .. k + 1) = k + 1
    BY <2>1, FS_Interval
  <2>5. CleanedInOrder(n)
    BY <2>2 DEF RunInv, CleanedInOrder
  <2> QED
    BY <2>2, <2>3, <2>4, <2>5 DEF RunInv
<1> QED
  BY <1>1, <1>2

LEMMA MarkCleanedIs ==
  ASSUME NEW v, NEW r, RunInv(r, v), NEW w, Finished(w, v), NEW digest,
         NEW n \in MarkCleaned(r, w, digest)
  PROVE  RunInv(n, v) /\ w \in n.cleaned
<1>1. CASE n = r /\ w \in r.cleaned
  BY <1>1
<1>2. CASE ~ (n = r /\ w \in r.cleaned)
  <2>1. /\ n = [r EXCEPT !.cleaned = @ \cup {w}] /\ w \in Waves /\ r \in Runs
        /\ w \in r.verified /\ Spinoffs(w) # {}
        /\ \A x \in r.verified \ r.cleaned : x < w => Spinoffs(x) = {}
    BY <1>2 DEF MarkCleaned, RequireWave, RunInv
  <2>2. n \in Runs /\ n.verified = r.verified /\ n.cleaned = r.cleaned \cup {w}
    BY <2>1 DEF Runs
  <2>3. \A x \in Waves : x < w => x \in r.verified
    BY <2>1, WavesAre DEF RunInv
  <2>4. CleanedInOrder(n)
    BY <2>1, <2>2, <2>3 DEF RunInv, CleanedInOrder
  <2> QED
    BY <2>2, <2>4 DEF RunInv
<1> QED
  BY <1>1, <1>2

\* The wave after a cleaned one has its turn.
LEMMA NextIsOffered ==
  ASSUME NEW r, RunInv(r, View), NEW w \in r.cleaned, NEW x \in NextWave(r, w)
  PROVE  Offered(x, View)
<1>1. /\ x = w + 1 /\ Prerequisites(x) \subseteq Persisted
      /\ w \in Waves /\ w \in Nat
  BY WavesAre DEF NextWave, MissingPrerequisites, RunInv, Runs
<1>2. ASSUME NEW s \in Slices, WaveOf[s] < x, Kind[s] = "spinoff"
      PROVE  s \in View.accepted
  <2>1. WaveOf[s] \in Waves /\ WaveOf[s] \in Nat /\ s \in Spinoffs(WaveOf[s])
    BY <1>2, WavesAre DEF Spinoffs
  <2>2. WaveOf[s] = w \/ WaveOf[s] < w
    BY <1>1, <1>2, <2>1
  <2>3. WaveOf[s] \in r.cleaned
    BY <2>1, <2>2 DEF RunInv, CleanedInOrder
  <2> QED
    BY <2>1, <2>3 DEF RunInv, Finished
<1> QED
  BY <1>1, <1>2 DEF Offered, View

-----------------------------------------------------------------------------
(* The record of a spin-off                                                *)

LEMMA InitialRecordIs ==
  ASSUME NEW content \in Contents
  PROVE  LET r == InitialRecord(content)
         IN  LifeInv(r) /\ r.wake = "pending" /\ r.cleanup = "pending"
BY DEF InitialRecord, LifeInv, ValidLife, Lives

LEMMA NotNone ==
  ASSUME NEW r, LifeInv(r)
  PROVE  r # None
BY LivesAssumption DEF LifeInv, ValidLife

\* The record, or the one that is begun for it.
Now(r, content) == IF r = None THEN InitialRecord(content) ELSE r

LEMMA NowIs ==
  ASSUME NEW r, r = None \/ LifeInv(r), NEW content \in Contents
  PROVE  LET now == Now(r, content)
         IN  /\ LifeInv(now)
             /\ IF r = None THEN now.wake = "pending" /\ now.cleanup = "pending" ELSE now = r
BY InitialRecordIs DEF Now

LEMMA CompleteIs ==
  ASSUME NEW r, r = None \/ LifeInv(r), NEW content \in Contents, NEW receipt,
         NEW o \in Complete(r, content, receipt)
  PROVE  /\ LifeInv(o.record) /\ Goes(r, o.record)
         /\ r # None /\ r.wake # "pending" => o.record.wake # "pending"
         /\ o.send => (r = None \/ r.wake = "pending") /\ o.record.wake # "pending"
<1> DEFINE now == Now(r, content)
<1>1. /\ LifeInv(now)
      /\ IF r = None THEN now.wake = "pending" /\ now.cleanup = "pending" ELSE now = r
  BY NowIs
<1>2. \/ o = [record |-> now, send |-> FALSE]
      \/ /\ o = [record |-> [now EXCEPT !.wake = "delivered"], send |-> FALSE]
         /\ now.wake = "delivering"
      \/ /\ o = [record |-> [now EXCEPT !.wake = "delivering"],
                 send |-> now.wake = "pending"]
  BY DEF Complete, Now
<1> HIDE DEF now
<1>3. /\ o.record \in {now, [now EXCEPT !.wake = "delivered"], [now EXCEPT !.wake = "delivering"]}
      /\ o.record = now \/ o.record.wake \in {"delivered", "delivering"}
      /\ o.send => now.wake = "pending" /\ o.record.wake = "delivering"
  <2>1. now \in Lives
    BY <1>1 DEF LifeInv, ValidLife
  <2>2. /\ [now EXCEPT !.wake = "delivered"].wake = "delivered"
        /\ [now EXCEPT !.wake = "delivering"].wake = "delivering"
    BY <2>1 DEF Lives
  <2>3. CASE o = [record |-> now, send |-> FALSE]
    BY <2>3
  <2>4. CASE o = [record |-> [now EXCEPT !.wake = "delivered"], send |-> FALSE]
    BY <2>2, <2>4
  <2>5. CASE o = [record |-> [now EXCEPT !.wake = "delivering"],
                  send |-> now.wake = "pending"]
    BY <2>2, <2>5
  <2> QED
    BY <1>2, <2>3, <2>4, <2>5
<1>4. LifeInv(o.record) /\ o.record.cleanup = now.cleanup /\ o.record.action = now.action
      /\ o.record.policy = now.policy
  BY <1>1, <1>3 DEF LifeInv, ValidLife, Lives
<1> QED
  BY <1>1, <1>3, <1>4, NotNone DEF Goes, Asked

LEMMA WithPolicyIs ==
  ASSUME NEW r, r = None \/ LifeInv(r), NEW content \in Contents, NEW policy \in Policies
  PROVE  LET n == WithPolicy(r, content, policy)
         IN  /\ LifeInv(n) /\ Goes(r, n)
             /\ r # None => n.wake = r.wake
<1> DEFINE n == WithPolicy(r, content, policy)
<1>1. CASE n = r
  <2>1. LifeInv(r) \/ r = None
    OBVIOUS
  <2>2. r # None
    <3>1. r = None => n = [InitialRecord(content) EXCEPT !.policy = policy]
      BY DEF WithPolicy, Settled
    <3>2. LifeInv([InitialRecord(content) EXCEPT !.policy = policy])
      BY DEF InitialRecord, LifeInv, ValidLife, Lives
    <3> QED
      BY <1>1, <3>1, <3>2, NotNone
  <2> QED
    BY <1>1, <2>1, <2>2 DEF Goes, Asked
<1>2. CASE n # r
  <2> DEFINE now == Now(r, content)
  <2>1. /\ LifeInv(now)
        /\ IF r = None THEN now.wake = "pending" /\ now.cleanup = "pending" ELSE now = r
    BY NowIs
  <2>2. n = [now EXCEPT !.policy = policy] /\ (r = None \/ r.policy = None)
    BY <1>2 DEF WithPolicy, Now, Settled
  <2> HIDE DEF n, now
  <2>3. r # None => r.cleanup \notin {"archiving", "archived"}
    BY <2>1, <2>2, PoliciesAssumption DEF LifeInv
  <2>4. /\ n.cleanup = now.cleanup /\ n.wake = now.wake /\ n \in Lives
        /\ n.action = now.action /\ n.policy = policy
    BY <2>1, <2>2 DEF LifeInv, ValidLife, Lives
  <2>5. LifeInv(n)
    BY <2>1, <2>3, <2>4 DEF LifeInv, ValidLife
  <2> QED
    BY <2>1, <2>3, <2>4, <2>5, NotNone DEF Goes, Asked, n
<1> QED
  BY <1>1, <1>2

LEMMA SnapshotPolicyIs ==
  ASSUME NEW records, \A r \in records : r = None \/ LifeInv(r),
         NEW requested \in Policies, NEW p \in SnapshotPolicy(records, requested)
  PROVE  p \in Policies
<1>1. ASSUME NEW R \in SUBSET records PROVE PoliciesOf(R) \subseteq Policies
  BY DEF PoliciesOf, LifeInv, ValidLife, Lives
<1> DEFINE A == {r \in records : ~ Settled(r)}
           B == {r \in records : Settled(r)}
<1>2. p \in PoliciesOf(A) \/ p \in PoliciesOf(B) \/ p = requested
  BY DEF SnapshotPolicy
<1>3. PoliciesOf(A) \subseteq Policies /\ PoliciesOf(B) \subseteq Policies
  BY <1>1
<1> QED
  BY <1>2, <1>3

LEMMA SettleIs ==
  ASSUME NEW r, r = None \/ LifeInv(r), NEW content \in Contents, NEW policy \in Policies,
         NEW scope \in Scopes, NEW receipt
  PROVE  LET o == Settle(r, content, policy, scope, receipt)
         IN  /\ LifeInv(o.record) /\ Goes(r, o.record)
             /\ r # None => o.record.wake = r.wake
             /\ o.archive \in BOOLEAN
             /\ o.archive =>
                  /\ ~ Asked(r) /\ o.record.cleanup = "archiving" /\ receipt = None
                  /\ o.record.action = scope /\ o.record.policy = policy /\ policy # "keep"
<1> DEFINE now == Now(r, content)
           o == Settle(r, content, policy, scope, receipt)
<1>1. /\ LifeInv(now)
      /\ IF r = None THEN now.wake = "pending" /\ now.cleanup = "pending" ELSE now = r
  BY NowIs
<1>2. now.cleanup \in {"pending", "kept", "archiving", "archived", "attention"}
  BY <1>1 DEF LifeInv, ValidLife, Lives
<1>3. \/ o.record = now /\ o.archive = FALSE
      \/ /\ now.cleanup = "archiving" /\ o.record = [now EXCEPT !.cleanup = "archived"]
         /\ o.archive = FALSE
      \/ /\ now.cleanup = "pending" /\ policy = "keep" /\ o.archive = FALSE
         /\ o.record = [now EXCEPT !.cleanup = "kept", !.policy = policy]
      \/ /\ now.cleanup = "pending" /\ policy # "keep" /\ o.archive = TRUE
         /\ receipt = None
         /\ o.record = [now EXCEPT !.cleanup = "archiving", !.policy = policy,
                                   !.action = scope]
  BY <1>2 DEF Settle, Outcome, Archived, Now
<1> HIDE DEF now, o
<1>4. /\ LifeInv(o.record) /\ o.record.wake = now.wake
      /\ \/ /\ o.record.cleanup = now.cleanup /\ o.record.action = now.action
            /\ o.record.policy = now.policy
         \/ /\ now.cleanup = "archiving" /\ o.record.cleanup = "archived"
            /\ o.record.action = now.action /\ o.record.policy = now.policy
         \/ now.cleanup = "pending"
  <2>1. now \in Lives
    BY <1>1 DEF LifeInv, ValidLife
  <2>2. CASE o.record = now
    BY <1>1, <2>2
  <2>3. CASE /\ now.cleanup = "archiving" /\ o.record = [now EXCEPT !.cleanup = "archived"]
    BY <1>1, <2>1, <2>3 DEF LifeInv, ValidLife, Lives
  <2>4. CASE /\ now.cleanup = "pending"
             /\ o.record = [now EXCEPT !.cleanup = "kept", !.policy = policy]
    BY <1>1, <2>1, <2>4 DEF LifeInv, ValidLife, Lives
  <2>5. CASE /\ now.cleanup = "pending" /\ policy # "keep"
             /\ o.record = [now EXCEPT !.cleanup = "archiving", !.policy = policy,
                                       !.action = scope]
    BY <1>1, <2>1, <2>5, PoliciesAssumption DEF LifeInv, ValidLife, Lives
  <2> QED
    BY <1>3, <2>2, <2>3, <2>4, <2>5
<1>5. Goes(r, o.record)
  BY <1>1, <1>4, NotNone DEF Goes, Asked
<1>6. o.archive \in BOOLEAN
  BY <1>3
<1>7. o.archive =>
        /\ ~ Asked(r) /\ o.record.cleanup = "archiving" /\ receipt = None
        /\ o.record.action = scope /\ o.record.policy = policy /\ policy # "keep"
  <2>1. now \in Lives
    BY <1>1 DEF LifeInv, ValidLife
  <2> QED
    BY <1>1, <1>3, <2>1 DEF Asked, Lives
<1> QED
  BY <1>1, <1>4, <1>5, <1>6, <1>7 DEF o

-----------------------------------------------------------------------------
(* Parts of a step                                                         *)

LEMMA CurrentIs ==
  ASSUME FilesInv, NEW s \in Slices
  PROVE  Current(s) \in Attempts /\ Current(s)[1] = s /\ View.current[s] = Current(s)
BY DEF FilesInv, Current, Attempts, View

LEMMA OnwardIs ==
  ASSUME FilesInv,
         \A s \in Slices : unit[s].state # "absent" => unit'[s].state # "absent",
         \A s \in Slices :
           Accepted(s) => /\ unit'[s].state = "bound"
                          /\ unit'[s].attempt = unit[s].attempt
                          /\ verdict'[Current(s)] = "accepted",
         \A a \in Attempts : Goes(life[a], life'[a]),
         confirmed \subseteq confirmed',
         \A s \in Slices : archived[s] # None => archived'[s] # None
  PROVE  Onward(View, View')
<1>1. View.persisted \subseteq View'.persisted
  BY DEF View, Persisted
<1>2. \A s \in Slices : Accepted(s) => Accepted(s)' /\ Current(s)' = Current(s)
  BY DEF Accepted, Current
<1>3. View.accepted \subseteq View'.accepted
  BY <1>2 DEF View
<1>4. \A s \in View.accepted : View'.current[s] = View.current[s]
  BY <1>2 DEF View
<1>5. \A s \in Slices : View.current[s] \in Attempts
  BY CurrentIs
<1>6. /\ View.life = life /\ View'.life = life'
      /\ View.confirmed = confirmed /\ View'.confirmed = confirmed'
      /\ View.archived = archived /\ View'.archived = archived'
  BY DEF View
<1> QED
  BY <1>1, <1>3, <1>4, <1>5, <1>6 DEF Onward

LEMMA Standing ==
  ASSUME FilesInv, UNCHANGED <<unit, verdict, life>>, confirmed \subseteq confirmed',
         \A s \in Slices : archived[s] # None => archived'[s] # None
  PROVE  Onward(View, View')
<1>1. \A a \in Attempts : Goes(life[a], life'[a])
  BY DEF Goes
<1> QED
  BY <1>1, OnwardIs DEF Accepted

LEMMA FilesKeep ==
  ASSUME FilesInv, Onward(View, View'),
         unit' \in [Slices -> [state : {"absent", "pending", "bound"},
                               attempt : 1 .. MaxAttempt]],
         verdict' \in [Attempts -> {None, "accepted", "rejected"}],
         DOMAIN life' = Attempts,
         \A a \in Attempts : life'[a] = life[a] \/ LifeInv(life'[a]),
         run' = run \/ RunInv(run', View')
  PROVE  FilesInv'
<1>1. run' # None => RunInv(run', View')
  BY RunKeeps DEF FilesInv
<1> QED
  BY <1>1 DEF FilesInv

LEMMA OnceKeeps ==
  ASSUME OnceInv, Onward(View, View'), UNCHANGED <<issued, sent>>,
         \A a \in Attempts :
           life[a] # None => life'[a] # None /\ life'[a].wake = life[a].wake
  PROVE  OnceInv'
<1>1. \A a \in Attempts : Goes(life[a], life'[a])
  BY DEF Onward, View
<1> QED
  BY <1>1 DEF OnceInv, Goes

LEMMA JobsKeep ==
  ASSUME JobsInv, Onward(View, View'), NEW p \in Procs, NEW j,
         job' = [job EXCEPT ![p] = j], j = None \/ JobInv(j, View')
  PROVE  JobsInv'
<1>1. \A q \in Procs : job[q] # None => JobInv(job[q], View')
  BY JobKeeps DEF JobsInv
<1> QED
  BY <1>1 DEF JobsInv

LEMMA JobsStay ==
  ASSUME JobsInv, Onward(View, View'), UNCHANGED job
  PROVE  JobsInv'
BY JobKeeps DEF JobsInv

LEMMA HostKeeps ==
  ASSUME HostInv, Onward(View, View'),
         \A s \in launched' \ launched :
           s \in Slices /\ (Kind[s] = "spinoff" => s \in View'.persisted),
         \A e \in effects' \ effects : EffectInv(e, View'),
         DOMAIN archived' = Slices,
         \A s \in Slices :
           archived'[s] = archived[s] \/ Earned(s, archived'[s], View'),
         \A w \in offered' \ offered : w = 1 \/ Offered(w, View')
  PROVE  HostInv'
<1>1. \A s \in launched' : s \in Slices /\ (Kind[s] = "spinoff" => s \in View'.persisted)
  BY DEF HostInv, Onward
<1>2. \A e \in effects' : EffectInv(e, View')
  BY EffectKeeps DEF HostInv
<1>3. \A s \in Slices : archived'[s] # None => Earned(s, archived'[s], View')
  BY EarnedKeeps DEF HostInv
<1>4. \A w \in offered' \ {1} : Offered(w, View')
  BY OfferedKeeps DEF HostInv
<1> QED
  BY <1>1, <1>2, <1>3, <1>4 DEF HostInv

\* A step of a call that leaves units, verdicts and records alone.
LEMMA CallKeeps ==
  ASSUME IInv, UNCHANGED <<unit, verdict, life, issued, sent, launched, archived>>,
         confirmed \subseteq confirmed', NEW p \in Procs, NEW j,
         job' = [job EXCEPT ![p] = j] \/ UNCHANGED job,
         Onward(View, View') =>
           /\ run' = run \/ RunInv(run', View')
           /\ j = None \/ JobInv(j, View')
           /\ \A e \in effects' \ effects : EffectInv(e, View')
           /\ \A w \in offered' \ offered : w = 1 \/ Offered(w, View')
  PROVE  IInv'
<1>1. Onward(View, View')
  BY Standing DEF IInv
<1>2. FilesInv'
  BY <1>1, FilesKeep DEF IInv, FilesInv
<1>3. OnceInv'
  BY <1>1, OnceKeeps DEF IInv
<1>4. JobsInv'
  BY <1>1, JobsKeep, JobsStay DEF IInv
<1>5. HostInv'
  BY <1>1, HostKeeps DEF IInv, HostInv
<1> QED
  BY <1>2, <1>3, <1>4, <1>5 DEF IInv

-----------------------------------------------------------------------------
(* The calls that keep to the plan run                                     *)

LEMMA CreateBeginKeeps ==
  ASSUME IInv, NEW p \in Procs, CreateBegin(p)
  PROVE  IInv'
<1>1. UNCHANGED <<run, unit, verdict, life, issued, sent, launched, archived, confirmed, effects>>
  BY DEF CreateBegin, files, host, ghosts
<1>2. CASE run = None \/ CanAdopt(run)
  <2> DEFINE j == [op |-> "create", seen |-> run]
  <2>1. job' = [job EXCEPT ![p] = j] /\ UNCHANGED offered
    BY <1>2 DEF CreateBegin, Begin
  <2>2. Onward(View, View') => JobInv(j, View')
    <3>1. JobInv(j, View)
      BY DEF JobInv, IInv, FilesInv
    <3> QED
      BY <3>1, JobKeeps
  <2> HIDE DEF j
  <2> QED
    BY <1>1, <2>1, <2>2, CallKeeps
<1>3. CASE ~ (run = None \/ CanAdopt(run))
  <2>1. UNCHANGED job /\ offered' = offered \cup {1}
    BY <1>3 DEF CreateBegin
  <2> QED
    BY <1>1, <2>1, CallKeeps
<1> QED
  BY <1>2, <1>3

LEMMA CreateWriteKeeps ==
  ASSUME IInv, NEW p \in Procs, CreateWrite(p)
  PROVE  IInv'
<1>1. UNCHANGED <<unit, verdict, life, issued, sent, launched, archived, confirmed, effects>>
      /\ job' = [job EXCEPT ![p] = None] /\ offered' = offered \cup {1}
      /\ run' = IF job[p].seen = None THEN New ELSE Adopt(job[p].seen)
  BY DEF CreateWrite, host, ghosts, Return, Continue
<1>2. job[p].seen = None \/ RunInv(job[p].seen, View)
  BY DEF CreateWrite, In, IInv, JobsInv, JobInv
<1>3. Onward(View, View') => RunInv(run', View')
  <2> SUFFICES ASSUME Onward(View, View') PROVE RunInv(run', View')
    OBVIOUS
  <2>1. RunInv(New, View')
    <3>1. "current" \in Forms
      BY DEF Forms
    <3> QED
      BY <3>1, NewIs
  <2>2. job[p].seen # None => RunInv(Adopt(job[p].seen), View')
    BY <1>2, RunKeeps, AdoptIs
  <2> QED
    BY <1>1, <2>1, <2>2
<1> QED
  BY <1>1, <1>3, CallKeeps

LEMMA VerifyBeginKeeps ==
  ASSUME IInv, NEW p \in Procs, NEW w \in Waves, VerifyBegin(p, w)
  PROVE  IInv'
<1> DEFINE j == [op |-> "verify", wave |-> w, digest |-> Digest(run), seen |-> run]
<1>1. UNCHANGED <<run, unit, verdict, life, issued, sent, launched, archived, confirmed, effects, offered>>
      /\ job' = [job EXCEPT ![p] = j] /\ Members(w) \subseteq launched
  BY DEF VerifyBegin, files, host, ghosts, Begin
<1>2. Verified(w, View)
  BY <1>1 DEF Verified, Spinoffs, IInv, HostInv
<1>3. JobInv(j, View)
  BY <1>2 DEF JobInv
<1>4. Onward(View, View') => JobInv(j, View')
  BY <1>3, JobKeeps
<1> HIDE DEF j
<1> QED
  BY <1>1, <1>4, CallKeeps

LEMMA AdoptJoinedKeeps ==
  ASSUME IInv, NEW p \in Procs, AdoptJoined(p)
  PROVE  IInv'
<1> DEFINE w == job[p].wave
           mark == [op |-> "verified", wave |-> w, digest |-> job[p].digest]
<1>1. UNCHANGED <<run, verdict, life, issued, sent, launched, archived, confirmed, effects, offered>>
  BY DEF AdoptJoined, host, ghosts
<1>2. \/ job' = [job EXCEPT ![p] = None]
      \/ job' = [job EXCEPT ![p] = mark]
  BY DEF AdoptJoined, Return, Continue
<1>3. \/ UNCHANGED unit
      \/ \E S : unit' = [s \in Slices |->
                    IF s \in S THEN [unit[s] EXCEPT !.state = "bound"] ELSE unit[s]]
  <2> DEFINE j == job[p]
             joined == Members(j.wave) \ Spinoffs(j.wave)
             repairs == joined # {} /\ HasWebIdentity(j.seen)
  <2>1. \/ UNCHANGED unit
        \/ unit' = [s \in Slices |->
                      IF repairs /\ s \in joined
                      THEN [unit[s] EXCEPT !.state = "bound"] ELSE unit[s]]
    BY DEF AdoptJoined
  <2> DEFINE S == {s \in joined : repairs}
  <2>2. \A s \in Slices : s \in S <=> repairs /\ s \in joined
    OBVIOUS
  <2> HIDE DEF joined, repairs
  <2>3. [s \in Slices |->
                      IF repairs /\ s \in joined
                      THEN [unit[s] EXCEPT !.state = "bound"] ELSE unit[s]]
         = [s \in Slices |-> IF s \in S THEN [unit[s] EXCEPT !.state = "bound"] ELSE unit[s]]
    BY <2>2
  <2> QED
    BY <2>1, <2>3
<1>4. /\ unit' \in [Slices -> [state : {"absent", "pending", "bound"}, attempt : 1 .. MaxAttempt]]
      /\ \A s \in Slices :
           /\ unit'[s].attempt = unit[s].attempt
           /\ unit'[s].state = unit[s].state \/ unit'[s].state = "bound"
  BY <1>3 DEF IInv, FilesInv
<1>5. Onward(View, View')
  <2>1. \A a \in Attempts : Goes(life[a], life'[a])
    BY <1>1 DEF Goes
  <2> QED
    BY <1>1, <1>4, <2>1, OnwardIs DEF IInv, Accepted
<1>6. JobInv(mark, View')
  <2>1. JobInv(mark, View)
    BY DEF AdoptJoined, In, IInv, JobsInv, JobInv
  <2> QED
    BY <1>5, <2>1, JobKeeps
<1> HIDE DEF mark
<1>7. FilesInv'
  BY <1>1, <1>4, <1>5, FilesKeep DEF IInv, FilesInv
<1>8. OnceInv'
  BY <1>1, <1>5, OnceKeeps DEF IInv
<1>9. JobsInv'
  BY <1>2, <1>5, <1>6, JobsKeep DEF IInv
<1>10. HostInv'
  BY <1>1, <1>5, HostKeeps DEF IInv, HostInv
<1> QED
  BY <1>7, <1>8, <1>9, <1>10 DEF IInv

\* What a mark leaves to its caller.
LEMMA AfterMarkIs ==
  ASSUME NEW what, NEW r, NEW w, AfterMark(what, r, w), Onward(View, View'),
         RunInv(r, View), what = "cleaned" => w \in r.cleaned,
         NEW x \in offered' \ offered
  PROVE  Offered(x, View')
<1>1. what = "cleaned" /\ x \in NextWave(r, w)
  BY DEF AfterMark
<1>2. Offered(x, View)
  BY <1>1, NextIsOffered
<1> QED
  BY <1>2, OfferedKeeps

LEMMA MarkReadKeeps ==
  ASSUME IInv, NEW p \in Procs, MarkRead(p)
  PROVE  IInv'
<1> DEFINE op == job[p].op
           w == job[p].wave
           digest == job[p].digest
           marked == IF run = None THEN {}
                     ELSE IF op = "verified" THEN MarkVerified(run, w, digest)
                     ELSE MarkCleaned(run, w, digest)
           mark(r) == [op |-> "marking", what |-> op, wave |-> w, next |-> r]
<1>1. UNCHANGED <<run, unit, verdict, life, issued, sent, launched, archived, confirmed, effects>>
      /\ op \in {"verified", "cleaned"}
  BY DEF MarkRead, files, host, ghosts, In
<1>2. \/ job' = [job EXCEPT ![p] = None] /\ UNCHANGED offered
      \/ /\ run \in marked /\ job' = [job EXCEPT ![p] = None] /\ AfterMark(op, run, w)
      \/ \E r \in marked : job' = [job EXCEPT ![p] = mark(r)] /\ UNCHANGED offered
  BY DEF MarkRead, Return, Continue
<1>3. JobInv(job[p], View)
  BY DEF MarkRead, In, IInv, JobsInv
<1>4. ASSUME NEW r \in marked
      PROVE  RunInv(r, View) /\ (op = "cleaned" => w \in r.cleaned)
  <2>1. RunInv(run, View) /\ run # None
    BY DEF IInv, FilesInv
  <2>2. CASE op = "verified"
    <3>1. Verified(w, View)
      BY <1>3, <2>2 DEF JobInv
    <3> QED
      BY <2>1, <2>2, <3>1, MarkVerifiedIs
  <2>3. CASE op = "cleaned"
    <3>1. Finished(w, View)
      BY <1>3, <2>3 DEF JobInv
    <3> QED
      BY <2>1, <2>3, <3>1, MarkCleanedIs
  <2> QED
    BY <1>1, <2>2, <2>3
<1> HIDE DEF marked, op, w, digest
<1>5. CASE job' = [job EXCEPT ![p] = None] /\ UNCHANGED offered
  BY <1>1, <1>5, CallKeeps
<1>6. CASE run \in marked /\ job' = [job EXCEPT ![p] = None] /\ AfterMark(op, run, w)
  <2>1. Onward(View, View') => \A x \in offered' \ offered : Offered(x, View')
    BY <1>4, <1>6, AfterMarkIs
  <2> QED
    BY <1>1, <1>6, <2>1, CallKeeps
<1>7. ASSUME NEW r \in marked, job' = [job EXCEPT ![p] = mark(r)], UNCHANGED offered
      PROVE  IInv'
  <2>1. JobInv(mark(r), View)
    BY <1>1, <1>4 DEF JobInv
  <2>2. Onward(View, View') => JobInv(mark(r), View')
    BY <2>1, JobKeeps
  <2> HIDE DEF mark
  <2> QED
    BY <1>1, <1>7, <2>2, CallKeeps
<1> QED
  BY <1>2, <1>5, <1>6, <1>7

LEMMA MarkWriteKeeps ==
  ASSUME IInv, NEW p \in Procs, MarkWrite(p)
  PROVE  IInv'
<1> DEFINE r == job[p].next
<1>1. UNCHANGED <<unit, verdict, life, issued, sent, launched, archived, confirmed, effects>>
      /\ run' = r /\ job' = [job EXCEPT ![p] = None]
      /\ AfterMark(job[p].what, r, job[p].wave)
  BY DEF MarkWrite, host, ghosts, Return, Continue
<1>2. RunInv(r, View) /\ (job[p].what = "cleaned" => job[p].wave \in r.cleaned)
  BY DEF MarkWrite, In, IInv, JobsInv, JobInv
<1> HIDE DEF r
<1>3. Onward(View, View') =>
        RunInv(r, View') /\ \A x \in offered' \ offered : Offered(x, View')
  BY <1>1, <1>2, RunKeeps, AfterMarkIs
<1> QED
  BY <1>1, <1>3, CallKeeps

-----------------------------------------------------------------------------
(* The calls that write the records of spin-offs                           *)

LEMMA CompleteBeginKeeps ==
  ASSUME IInv, NEW p \in Procs, NEW s \in Slices, NEW content \in Contents,
         NEW receipt, CompleteBegin(p, s, content, receipt)
  PROVE  IInv'
<1> DEFINE j == [op |-> "complete", at |-> Current(s), content |-> content,
                 receipt |-> receipt]
<1>1. UNCHANGED <<run, unit, verdict, life, issued, sent, launched, archived, confirmed, effects, offered>>
      /\ job' = [job EXCEPT ![p] = j]
  BY DEF CompleteBegin, files, host, ghosts, Begin
<1>2. JobInv(j, View)
  <2>1. Current(s) \in Attempts
    BY CurrentIs DEF IInv
  <2> QED
    BY <2>1 DEF JobInv
<1>3. Onward(View, View') => JobInv(j, View')
  BY <1>2, JobKeeps
<1> HIDE DEF j
<1> QED
  BY <1>1, <1>3, CallKeeps

\* A step of a call that writes records and leaves the units, the verdicts and
\* the plan run alone.
LEMMA LifeKeeps ==
  ASSUME IInv, UNCHANGED <<run, unit, verdict, launched, archived, confirmed, offered>>,
         DOMAIN life' = Attempts,
         \A a \in Attempts :
           life'[a] = life[a] \/ (LifeInv(life'[a]) /\ Goes(life[a], life'[a])),
         NEW p \in Procs, NEW j, job' = [job EXCEPT ![p] = j],
         Onward(View, View') =>
           /\ OnceInv'
           /\ j = None \/ JobInv(j, View')
           /\ \A e \in effects' \ effects : EffectInv(e, View')
  PROVE  IInv'
<1>1. Onward(View, View')
  <2>1. \A a \in Attempts : Goes(life[a], life'[a])
    BY DEF Goes
  <2> QED
    BY <2>1, OnwardIs DEF IInv, Accepted
<1>2. FilesInv'
  BY <1>1, FilesKeep DEF IInv, FilesInv
<1>3. JobsInv'
  BY <1>1, JobsKeep DEF IInv
<1>4. HostInv'
  BY <1>1, HostKeeps DEF IInv, HostInv
<1> QED
  BY <1>1, <1>2, <1>3, <1>4 DEF IInv

LEMMA CompleteWriteKeeps ==
  ASSUME IInv, NEW p \in Procs, CompleteWrite(p)
  PROVE  IInv'
<1> DEFINE at == job[p].at
           content == job[p].content
           receipt == job[p].receipt
           message == [type |-> "message", at |-> at, action |-> None]
<1>1. UNCHANGED <<run, unit, verdict, launched, archived, confirmed, offered, issued>>
      /\ job' = [job EXCEPT ![p] = None]
  BY DEF CompleteWrite, Return, Continue
<1>2. at \in Attempts /\ content \in Contents
  BY DEF CompleteWrite, In, IInv, JobsInv, JobInv
<1>3. \/ UNCHANGED <<life, effects, sent>>
      \/ \E o \in Complete(life[at], content, receipt) :
           /\ life' = [life EXCEPT ![at] = o.record]
           /\ effects' = IF o.send THEN effects \cup {message} ELSE effects
           /\ sent' = [sent EXCEPT ![at] = IF o.send THEN @ + 1 ELSE @]
  BY DEF CompleteWrite
<1> HIDE DEF at, content, receipt
<1>5. CASE UNCHANGED <<life, effects, sent>>
  BY <1>1, <1>5, CallKeeps
<1>6. ASSUME NEW o \in Complete(life[at], content, receipt),
             life' = [life EXCEPT ![at] = o.record],
             effects' = IF o.send THEN effects \cup {message} ELSE effects,
             sent' = [sent EXCEPT ![at] = IF o.send THEN @ + 1 ELSE @]
      PROVE  IInv'
  <2>1. /\ LifeInv(o.record) /\ Goes(life[at], o.record)
        /\ life[at] # None /\ life[at].wake # "pending" => o.record.wake # "pending"
        /\ o.send => (life[at] = None \/ life[at].wake = "pending") /\ o.record.wake # "pending"
    <3>1. life[at] = None \/ LifeInv(life[at])
      BY <1>2 DEF IInv, FilesInv
    <3> QED
      BY <1>2, <3>1, CompleteIs
  <2>2. /\ DOMAIN life' = Attempts /\ life'[at] = o.record
        /\ \A a \in Attempts : a # at => life'[a] = life[a]
    BY <1>2, <1>6 DEF IInv, FilesInv
  <2>3. \A a \in Attempts :
          life'[a] = life[a] \/ (LifeInv(life'[a]) /\ Goes(life[a], life'[a]))
    BY <2>1, <2>2
  <2>4. OnceInv'
    <3>1. /\ sent \in [Attempts -> {0, 1}] /\ UNCHANGED issued
          /\ \A a \in Attempts :
              /\ issued[a] = 1 => Asked(life[a])
              /\ sent[a] = 1 => life[a] # None /\ life[a].wake # "pending"
      BY <1>1 DEF IInv, OnceInv
    <3>2. sent' \in [Attempts -> {0, 1}] /\ \A a \in Attempts : a # at => sent'[a] = sent[a]
      BY <1>2, <1>6, <2>1, <3>1
    <3>3. sent'[at] = 1 => o.record.wake # "pending"
      BY <1>2, <1>6, <2>1, <3>1
    <3>4. \A a \in Attempts : issued'[a] = 1 => Asked(life'[a])
      BY <2>1, <2>2, <3>1 DEF Goes
    <3>5. \A a \in Attempts : sent'[a] = 1 => life'[a] # None /\ life'[a].wake # "pending"
      BY <2>1, <2>2, <3>1, <3>2, <3>3, NotNone
    <3> QED
      BY <3>1, <3>2, <3>4, <3>5 DEF IInv, OnceInv
  <2>5. \A e \in effects' \ effects : EffectInv(e, View')
    BY <1>6 DEF EffectInv
  <2> QED
    BY <1>1, <2>2, <2>3, <2>4, <2>5, LifeKeeps
<1> QED
  BY <1>3, <1>5, <1>6

LEMMA CrashKeeps ==
  ASSUME IInv, NEW p \in Procs, Crash(p)
  PROVE  IInv'
<1>1. UNCHANGED <<run, unit, verdict, life, issued, sent, launched, archived, confirmed, effects, offered>>
      /\ job' = [job EXCEPT ![p] = None]
  BY DEF Crash, files, host, ghosts, Return, Continue
<1> QED
  BY <1>1, CallKeeps

LEMMA CleanupBeginKeeps ==
  ASSUME IInv, NEW p \in Procs, NEW scope \in Scopes, NEW policy \in Policies,
         NEW confirm, NEW receipts \in SUBSET {s \in Slices : archived[s] # None},
         CleanupBegin(p, scope, policy, confirm, receipts)
  PROVE  IInv'
<1> DEFINE digest == IF scope = Web THEN None ELSE Digest(run)
           j == [op |-> "cleanup", scope |-> scope, digest |-> digest,
                 policy |-> policy,
                 eligible |-> Eligible(scope), pending |-> Pending(scope) # {},
                 confirm |-> confirm, receipts |-> receipts]
<1>9. job' = [job EXCEPT ![p] = j]
  BY DEF CleanupBegin, Begin
<1>1. /\ UNCHANGED <<run, unit, verdict, life, issued, sent, launched, archived, effects, offered>>
      /\ scope # Web => run # None /\ scope \in run.verified
  BY DEF CleanupBegin, files, ghosts
<1>2. confirmed \subseteq confirmed' /\ (confirm # None => confirm \subseteq confirmed')
  BY DEF CleanupBegin
<1> HIDE DEF digest
<1>3. Onward(View, View')
  BY <1>1, <1>2, Standing DEF IInv
<1>4. \A s \in Eligible(scope) : Granted(s, View')
  <2>1. \A s \in Eligible(scope) : Granted(s, View)
    BY DEF Eligible, InScope, Persisted, Granted, View
  <2> QED
    BY <1>3, <2>1 DEF Granted, Onward
<1>5. scope # Web /\ Pending(scope) = {} => Finished(scope, View')
  <2> SUFFICES ASSUME scope # Web, Pending(scope) = {} PROVE Finished(scope, View')
    OBVIOUS
  <2>1. Spinoffs(scope) \subseteq Persisted
    <3>1. RunInv(run, View)
      BY <1>1 DEF IInv, FilesInv
    <3>2. View.persisted = Persisted
      BY DEF View
    <3> QED
      BY <1>1, <3>1, <3>2 DEF RunInv, Verified
  <2>2. Spinoffs(scope) \subseteq InScope(scope)
    BY <2>1 DEF InScope, Spinoffs, Members
  <2>3. Spinoffs(scope) \subseteq View.accepted
    BY <2>2 DEF Pending, View, Spinoffs, Members
  <2> QED
    BY <1>3, <2>3 DEF Finished, Onward
<1>6. \A s \in receipts : s \in Slices /\ View'.archived[s] # None
  BY <1>1 DEF View
<1>7. View'.confirmed = confirmed'
  BY DEF View
<1>8. JobInv(j, View')
  <2>1. /\ j.op = "cleanup" /\ j.scope = scope /\ j.policy = policy
        /\ j.eligible = Eligible(scope) /\ j.pending = (Pending(scope) # {})
        /\ j.confirm = confirm /\ j.receipts = receipts
    OBVIOUS
  <2> HIDE DEF j
  <2>2. CleanupInv(j, View')
    BY <1>5, <1>6, <2>1 DEF CleanupInv
  <2> QED
    BY <1>2, <1>4, <1>7, <2>1, <2>2 DEF JobInv
<1> HIDE DEF j
<1> QED
  BY <1>1, <1>2, <1>8, <1>9, CallKeeps

\* The policy is settled on and written, for some of the candidates at least.
Snapshots(eligible, requested, policy, written) ==
  /\ policy \in SnapshotPolicy({life[Current(s)] : s \in eligible}, requested)
  /\ life' = [a \in Attempts |->
                IF a \in {Current(s) : s \in written}
                THEN WithPolicy(life[a], Reported, policy) ELSE life[a]]

LEMMA SnapshotIs ==
  ASSUME IInv, NEW eligible, \A s \in eligible : Granted(s, View),
         NEW requested \in Policies, NEW policy, NEW written,
         Snapshots(eligible, requested, policy, written)
  PROVE  /\ policy \in Policies /\ DOMAIN life' = Attempts
         /\ \A a \in Attempts :
              /\ life'[a] = life[a] \/ (LifeInv(life'[a]) /\ Goes(life[a], life'[a]))
              /\ life[a] # None => life'[a] # None /\ life'[a].wake = life[a].wake
<1> DEFINE records == {life[Current(s)] : s \in eligible}
<1>1. \A a \in Attempts : life[a] = None \/ LifeInv(life[a])
  BY DEF IInv, FilesInv
<1>2. \A r \in records : r = None \/ LifeInv(r)
  BY <1>1, CurrentIs DEF Granted, IInv
<1>3. policy \in SnapshotPolicy(records, requested)
  BY DEF Snapshots
<1> HIDE DEF records
<1>4. policy \in Policies
  BY <1>2, <1>3, SnapshotPolicyIs
<1>5. ASSUME NEW a \in Attempts
      PROVE  /\ life'[a] = life[a] \/ (LifeInv(life'[a]) /\ Goes(life[a], life'[a]))
             /\ life[a] # None => life'[a] # None /\ life'[a].wake = life[a].wake
  <2>1. life'[a] = life[a] \/ life'[a] = WithPolicy(life[a], Reported, policy)
    BY DEF Snapshots
  <2>2. /\ LifeInv(WithPolicy(life[a], Reported, policy))
        /\ Goes(life[a], WithPolicy(life[a], Reported, policy))
        /\ life[a] # None => WithPolicy(life[a], Reported, policy).wake = life[a].wake
    BY <1>1, <1>4, WithPolicyIs, WavesAssumption
  <2> QED
    BY <2>1, <2>2, NotNone
<1> QED
  BY <1>4, <1>5 DEF Snapshots

LEMMA SnapshotKeeps ==
  ASSUME IInv, NEW p \in Procs, Snapshot(p)
  PROVE  IInv'
<1> DEFINE j == job[p]
           candidates == {s \in j.eligible : ~ Settled(life[Current(s)])}
           pool == IF j.confirm = None THEN candidates ELSE j.eligible
           chosen(policy) == IF j.confirm = None THEN Unasked(j, policy, candidates)
                             ELSE j.confirm
           selected(policy) == chosen(policy) \cup
                       {s \in j.receipts \cap j.eligible :
                          /\ life[Current(s)] # None
                          /\ life[Current(s)].cleanup = "archived"}
           settle(policy) == [op |-> "settle", scope |-> j.scope,
                         digest |-> j.digest, policy |-> policy,
                         todo |-> selected(policy), receipts |-> j.receipts,
                         pending |-> j.pending, states |-> {}, archives |-> {}]
<1>1. UNCHANGED <<run, unit, verdict, launched, archived, confirmed, offered, issued, sent, effects>>
  BY DEF Snapshot, host, ghosts
<1>2. \/ job' = [job EXCEPT ![p] = None] /\ UNCHANGED life
      \/ \E policy :
           /\ Snapshots(j.eligible, j.policy, policy, j.eligible)
           /\ \/ job' = [job EXCEPT ![p] = None]
              \/ chosen(policy) \subseteq pool /\ job' = [job EXCEPT ![p] = settle(policy)]
  BY DEF Snapshot, Snapshots, Return, Continue
<1>3. /\ CleanupInv(j, View)
      /\ \A s \in j.eligible : Granted(s, View)
      /\ j.confirm # None => j.confirm \subseteq View.confirmed
  BY DEF Snapshot, In, IInv, JobsInv, JobInv
<1>4. CASE job' = [job EXCEPT ![p] = None] /\ UNCHANGED life
  BY <1>1, <1>4, CallKeeps
<1>5. ASSUME NEW policy, Snapshots(j.eligible, j.policy, policy, j.eligible),
             \/ job' = [job EXCEPT ![p] = None]
             \/ chosen(policy) \subseteq pool /\ job' = [job EXCEPT ![p] = settle(policy)]
      PROVE  IInv'
  <2>1. /\ policy \in Policies /\ DOMAIN life' = Attempts
        /\ \A a \in Attempts :
             /\ life'[a] = life[a] \/ (LifeInv(life'[a]) /\ Goes(life[a], life'[a]))
             /\ life[a] # None => life'[a] # None /\ life'[a].wake = life[a].wake
    <3>1. j.policy \in Policies
      BY <1>3 DEF CleanupInv
    <3> QED
      BY <1>3, <1>5, <3>1, SnapshotIs
  <2>2. Onward(View, View') => OnceInv'
    BY <1>1, <2>1, OnceKeeps DEF IInv
  <2>3. ASSUME Onward(View, View'), chosen(policy) \subseteq pool
        PROVE  JobInv(settle(policy), View')
    <3> DEFINE k == settle(policy)
    <3>1. /\ k.op = "settle" /\ k.scope = j.scope /\ k.policy = policy
          /\ k.todo = selected(policy) /\ k.receipts = j.receipts
          /\ k.pending = j.pending /\ k.archives = {} /\ DOMAIN k = SettleFields
      BY DEF SettleFields
    <3>2. CleanupInv(j, View')
      BY <1>3, <2>3 DEF CleanupInv, Finished, Onward
    <3> HIDE DEF k
    <3>3. CleanupInv(k, View')
      BY <2>1, <3>1, <3>2 DEF CleanupInv
    <3>4. ASSUME NEW s \in k.todo
          PROVE  ToSettle(s, k, View')
      <4>1. s \in j.eligible /\ (s \in chosen(policy) \/ s \in j.receipts)
        BY <2>3, <3>1
      <4>2. Granted(s, View) /\ s \in Slices
        BY <1>3, <4>1 DEF Granted
      <4>3. ASSUME policy = "ask"
            PROVE  s \in View.confirmed \/ s \in k.receipts \/ Asked(View.life[View.current[s]])
        <5>1. CASE s \in j.receipts
          BY <3>1, <5>1
        <5>2. CASE j.confirm # None /\ s \in j.confirm
          BY <1>3, <5>2
        <5>3. CASE j.confirm = None /\ s \in Unasked(j, policy, candidates)
          <6>1. \/ life[Current(s)] # None /\ life[Current(s)].cleanup = "archiving"
                \/ s \in j.receipts
            BY <4>3, <5>3 DEF Unasked
          <6>2. View.life[View.current[s]] = life[Current(s)]
            BY <4>2, CurrentIs DEF View, IInv
          <6> QED
            BY <3>1, <6>1, <6>2 DEF Asked
        <5> QED
          BY <4>1, <5>1, <5>2, <5>3
      <4>4. ToSettle(s, k, View)
        BY <3>1, <4>2, <4>3 DEF ToSettle
      <4> QED
        BY <2>3, <4>4, ToSettleKeeps
    <3>5. JobInv(k, View')
      BY <3>1, <3>3, <3>4 DEF JobInv
    <3> QED
      BY <3>5 DEF k
  <2> DEFINE k == settle(policy)
  <2>4. \/ job' = [job EXCEPT ![p] = None]
        \/ chosen(policy) \subseteq pool /\ job' = [job EXCEPT ![p] = k]
    BY <1>5
  <2>5. Onward(View, View') /\ chosen(policy) \subseteq pool => JobInv(k, View')
    BY <2>3
  <2> HIDE DEF k, chosen, pool
  <2> QED
    BY <1>1, <2>1, <2>2, <2>4, <2>5, LifeKeeps
<1> QED
  BY <1>2, <1>4, <1>5

LEMMA SnapshotCutKeeps ==
  ASSUME IInv, NEW p \in Procs, SnapshotCut(p)
  PROVE  IInv'
<1> DEFINE j == job[p]
<1>1. UNCHANGED <<run, unit, verdict, launched, archived, confirmed, offered, issued, sent, effects>>
      /\ job' = [job EXCEPT ![p] = None]
  BY DEF SnapshotCut, host, ghosts, Return, Continue
<1>2. j.policy \in Policies /\ \A s \in j.eligible : Granted(s, View)
  BY DEF SnapshotCut, In, IInv, JobsInv, JobInv, CleanupInv
<1>3. PICK policy, written : Snapshots(j.eligible, j.policy, policy, written)
  BY DEF SnapshotCut, Snapshots
<1>4. /\ DOMAIN life' = Attempts
      /\ \A a \in Attempts :
           /\ life'[a] = life[a] \/ (LifeInv(life'[a]) /\ Goes(life[a], life'[a]))
           /\ life[a] # None => life'[a] # None /\ life'[a].wake = life[a].wake
  BY <1>2, <1>3, SnapshotIs
<1>5. Onward(View, View') => OnceInv'
  BY <1>1, <1>4, OnceKeeps DEF IInv
<1> QED
  BY <1>1, <1>4, <1>5, LifeKeeps

\* The archive of a spin-off is asked for at most once, and when it is earned.
LEMMA SettleOneKeeps ==
  ASSUME IInv, NEW p \in Procs, SettleOne(p)
  PROVE  IInv'
<1> DEFINE j == job[p]
           receipt(s) == IF s \in j.receipts THEN archived[s] ELSE None
           out(s) == Settle(life[Current(s)], Reported, j.policy, j.scope, receipt(s))
           effect(s) == [type |-> "archive", at |-> Current(s), action |-> out(s).record.action]
           after(s) == [j EXCEPT !.todo = j.todo \ {s}, !.states = j.states \cup {out(s).state},
                          !.archives = IF out(s).archive THEN j.archives \cup {effect(s)}
                                       ELSE j.archives]
<1>1. PICK s \in j.todo :
        /\ life' = [life EXCEPT ![Current(s)] = out(s).record]
        /\ issued' = [issued EXCEPT ![Current(s)] = IF out(s).archive THEN @ + 1 ELSE @]
        /\ job' = [job EXCEPT ![p] = after(s)]
  BY DEF SettleOne, Continue
<1>2. UNCHANGED <<run, unit, verdict, launched, archived, confirmed, offered, sent, effects>>
  BY DEF SettleOne, host
<1>3. /\ JobInv(j, View) /\ j.op = "settle" /\ DOMAIN j = SettleFields
      /\ CleanupInv(j, View) /\ ToSettle(s, j, View)
      /\ \A e \in j.archives : EffectInv(e, View)
  BY <1>1 DEF SettleOne, In, IInv, JobsInv, JobInv
<1> DEFINE a == Current(s)
           o == out(s)
<1>4. /\ s \in Slices /\ a \in Attempts /\ a[1] = s /\ View.current[s] = a
      /\ View.life = life /\ View.archived = archived
  BY <1>3, CurrentIs DEF ToSettle, Granted, IInv, View
<1>5. life[a] = None \/ LifeInv(life[a])
  BY <1>4 DEF IInv, FilesInv
<1>6. /\ LifeInv(o.record) /\ Goes(life[a], o.record)
      /\ life[a] # None => o.record.wake = life[a].wake
      /\ o.archive \in BOOLEAN
      /\ o.archive =>
           /\ ~ Asked(life[a]) /\ o.record.cleanup = "archiving" /\ receipt(s) = None
           /\ o.record.action = j.scope /\ o.record.policy = j.policy /\ j.policy # "keep"
  <2>1. j.policy \in Policies /\ j.scope \in Scopes
    BY <1>3 DEF CleanupInv
  <2> HIDE DEF receipt
  <2> QED
    BY <1>5, <2>1, SettleIs, WavesAssumption
<1>7. o.archive => s \notin j.receipts
  BY <1>3, <1>4, <1>6 DEF CleanupInv
<1>8. /\ life' = [life EXCEPT ![a] = o.record]
      /\ issued' = [issued EXCEPT ![a] = IF o.archive THEN @ + 1 ELSE @]
  BY <1>1
<1> DEFINE k == after(s)
           e0 == [type |-> "archive", at |-> a, action |-> o.record.action]
<1>9. /\ job' = [job EXCEPT ![p] = k]
      /\ k.op = "settle" /\ DOMAIN k = SettleFields /\ k.scope = j.scope /\ k.policy = j.policy
      /\ k.todo \subseteq j.todo /\ k.receipts = j.receipts /\ k.pending = j.pending
      /\ k.archives = IF o.archive THEN j.archives \cup {e0} ELSE j.archives
  BY <1>1, <1>3 DEF SettleFields
<1> HIDE DEF receipt, out, o, a, k
<1>10. /\ DOMAIN life' = Attempts /\ life'[a] = o.record
       /\ \A b \in Attempts : b # a => life'[b] = life[b]
  BY <1>4, <1>8 DEF IInv, FilesInv
<1>11. \A b \in Attempts :
         life'[b] = life[b] \/ (LifeInv(life'[b]) /\ Goes(life[b], life'[b]))
  BY <1>6, <1>10
<1>12. OnceInv'
  <2>1. /\ issued \in [Attempts -> {0, 1}] /\ UNCHANGED sent /\ sent \in [Attempts -> {0, 1}]
        /\ \A b \in Attempts :
             /\ issued[b] = 1 => Asked(life[b])
             /\ sent[b] = 1 => life[b] # None /\ life[b].wake # "pending"
    BY <1>2 DEF IInv, OnceInv
  <2>2. issued' \in [Attempts -> {0, 1}] /\ \A b \in Attempts : b # a => issued'[b] = issued[b]
    BY <1>4, <1>6, <1>8, <2>1
  <2>3. issued'[a] = 1 => Asked(o.record)
    <3>1. o.archive => Asked(o.record)
      BY <1>6, NotNone DEF Asked
    <3>2. issued'[a] = 1 => o.archive \/ issued[a] = 1
      BY <1>4, <1>8, <2>1
    <3> QED
      BY <1>4, <1>6, <2>1, <3>1, <3>2 DEF Goes
  <2>4. \A b \in Attempts : issued'[b] = 1 => Asked(life'[b])
    BY <1>10, <2>1, <2>2, <2>3
  <2>5. \A b \in Attempts : sent'[b] = 1 => life'[b] # None /\ life'[b].wake # "pending"
    BY <1>6, <1>10, <2>1, NotNone
  <2> QED
    BY <2>1, <2>2, <2>4, <2>5 DEF OnceInv
<1>13. ASSUME Onward(View, View')
       PROVE  JobInv(k, View')
  <2>1. CleanupInv(k, View')
    <3>1. CleanupInv(j, View')
      BY <1>3, <1>13 DEF CleanupInv, Finished, Onward
    <3> QED
      BY <1>9, <3>1 DEF CleanupInv
  <2>2. \A t \in k.todo : ToSettle(t, k, View')
    <3>1. \A t \in j.todo : ToSettle(t, j, View)
      BY <1>3 DEF JobInv
    <3>2. \A t \in k.todo : ToSettle(t, k, View)
      BY <1>9, <3>1 DEF ToSettle
    <3> QED
      BY <1>13, <3>2, ToSettleKeeps
  <2>3. \A e \in j.archives : EffectInv(e, View')
    BY <1>3, <1>13, EffectKeeps
  <2>4. ASSUME o.archive
        PROVE  EffectInv(e0, View')
    <3>1. Granted(s, View') /\ View'.current[s] = a /\ View'.life = life'
      BY <1>3, <1>4, <1>13 DEF ToSettle, Granted, Onward, View
    <3>2. j.policy = "ask" => s \in View'.confirmed
      BY <1>3, <1>4, <1>6, <1>7, <1>13, <2>4 DEF ToSettle, Onward
    <3>3. j.policy \in {"auto", "ask"} /\ j.scope # None
      BY <1>3, <1>6, <2>4, PoliciesAssumption DEF CleanupInv
    <3>4. o.record # None
      BY <1>6, NotNone
    <3>5. Earned(s, o.record.action, View')
      BY <1>6, <1>10, <2>4, <3>1, <3>2, <3>3, <3>4 DEF Earned
    <3> QED
      BY <1>4, <1>6, <2>4, <3>1, <3>3, <3>5 DEF EffectInv
  <2>5. \A e \in k.archives : EffectInv(e, View')
    BY <1>9, <2>3, <2>4
  <2> QED
    BY <1>9, <2>1, <2>2, <2>5 DEF JobInv
<1> QED
  BY <1>2, <1>9, <1>10, <1>11, <1>12, <1>13, LifeKeeps

LEMMA CleanupEndKeeps ==
  ASSUME IInv, NEW p \in Procs, CleanupEnd(p)
  PROVE  IInv'
<1> DEFINE j == job[p]
           mark == [op |-> "cleaned", wave |-> j.scope, digest |-> j.digest]
<1>1. UNCHANGED <<run, unit, verdict, life, issued, sent, launched, archived, confirmed, offered>>
      /\ effects' = effects \cup j.archives
  BY DEF CleanupEnd, files, ghosts
<1>2. \/ job' = [job EXCEPT ![p] = None]
      \/ ~ j.pending /\ j.scope # Web /\ job' = [job EXCEPT ![p] = mark]
  BY DEF CleanupEnd, Return, Continue
<1>3. CleanupInv(j, View) /\ \A e \in j.archives : EffectInv(e, View)
  BY DEF CleanupEnd, In, IInv, JobsInv, JobInv
<1>4. Onward(View, View') => \A e \in effects' \ effects : EffectInv(e, View')
  BY <1>1, <1>3, EffectKeeps
<1>5. CASE job' = [job EXCEPT ![p] = None]
  BY <1>1, <1>4, <1>5, CallKeeps
<1>6. CASE ~ j.pending /\ j.scope # Web /\ job' = [job EXCEPT ![p] = mark]
  <2>1. JobInv(mark, View)
    BY <1>3, <1>6 DEF JobInv, CleanupInv
  <2>2. Onward(View, View') => JobInv(mark, View')
    BY <2>1, JobKeeps
  <2> HIDE DEF mark, j
  <2> QED
    BY <1>1, <1>4, <1>6, <2>2, CallKeeps
<1> QED
  BY <1>2, <1>5, <1>6

-----------------------------------------------------------------------------
(* The orchestrator, the queen and the host                                *)

LEMMA AdvanceKeeps ==
  ASSUME IInv, OrderInv, Advance
  PROVE  IInv'
<1>1. UNCHANGED <<run, unit, verdict, life, job, issued, sent, launched, archived, confirmed, effects>>
      /\ run # None
  BY DEF Advance, files, host, ghosts
<1>2. PICK last \in run.verified :
        /\ Observed(last) # {} /\ \A s \in Observed(last) : Accepted(s)
        /\ offered' = offered \cup NextWave(run, last)
  BY DEF Advance
<1>3. RunInv(run, View)
  BY <1>1 DEF IInv, FilesInv
<1>4. Onward(View, View')
  BY <1>1, Standing DEF IInv
<1>5. ASSUME NEW x \in NextWave(run, last)
      PROVE  Offered(x, View')
  <2>1. /\ x = last + 1 /\ Prerequisites(x) \subseteq Persisted /\ last \in Nat
    BY <1>3, WavesAre DEF NextWave, MissingPrerequisites, RunInv, Runs
  <2>2. ASSUME NEW s \in Slices, WaveOf[s] < x, Kind[s] = "spinoff"
        PROVE  s \in View.accepted
    <3>1. WaveOf[s] \in Nat \ {0} /\ s \in Spinoffs(WaveOf[s])
      BY <2>2, WavesAre DEF Spinoffs
    <3>2. CASE WaveOf[s] = last
      <4>1. s \in Persisted
        BY <1>3, <3>1, <3>2 DEF RunInv, Verified, View
      <4> QED
        BY <1>2, <3>2, <4>1 DEF View, Observed
    <3>3. CASE WaveOf[s] < last
      <4>1. last \in offered \ {1}
        BY <1>2, <2>1, <3>1, <3>3 DEF Observed, OrderInv
      <4>2. Offered(last, View)
        BY <4>1 DEF IInv, HostInv
      <4> QED
        BY <2>2, <3>3, <4>2 DEF Offered
    <3> QED
      BY <2>1, <2>2, <3>1, <3>2, <3>3
  <2>3. Offered(x, View)
    BY <2>1, <2>2 DEF Offered, View
  <2> QED
    BY <1>4, <2>3, OfferedKeeps
<1>6. \A x \in offered' \ offered : Offered(x, View')
  BY <1>2, <1>5
<1>7. FilesInv'
  BY <1>1, <1>4, FilesKeep DEF IInv, FilesInv
<1>8. OnceInv'
  BY <1>1, <1>4, OnceKeeps DEF IInv
<1>9. JobsInv'
  BY <1>1, <1>4, JobsStay DEF IInv
<1>10. HostInv'
  BY <1>1, <1>4, <1>6, HostKeeps DEF IInv, HostInv
<1> QED
  BY <1>7, <1>8, <1>9, <1>10 DEF IInv

\* A step of the orchestrator or the queen on the unit or the verdict of a slice.
LEMMA UnitKeeps ==
  ASSUME IInv, UNCHANGED <<run, life, job, issued, sent, launched, archived, confirmed, effects, offered>>,
         unit' \in [Slices -> [state : {"absent", "pending", "bound"},
                               attempt : 1 .. MaxAttempt]],
         verdict' \in [Attempts -> {None, "accepted", "rejected"}],
         \A s \in Slices : unit[s].state # "absent" => unit'[s].state # "absent",
         \A s \in Slices :
           Accepted(s) => /\ unit'[s].state = "bound"
                          /\ unit'[s].attempt = unit[s].attempt
                          /\ verdict'[Current(s)] = "accepted"
  PROVE  IInv'
<1>1. Onward(View, View')
  <2>1. \A a \in Attempts : Goes(life[a], life'[a])
    BY DEF Goes
  <2> QED
    BY <2>1, OnwardIs DEF IInv
<1>2. FilesInv'
  BY <1>1, FilesKeep DEF IInv, FilesInv
<1>3. OnceInv'
  BY <1>1, OnceKeeps DEF IInv
<1>4. JobsInv'
  BY <1>1, JobsStay DEF IInv
<1>5. HostInv'
  BY <1>1, HostKeeps DEF IInv, HostInv
<1> QED
  BY <1>2, <1>3, <1>4, <1>5 DEF IInv

LEMMA OrchestrateKeeps ==
  ASSUME IInv, NEW s \in Slices, Orchestrate(s)
  PROVE  IInv'
<1>1. /\ UNCHANGED <<run, verdict, life, job, issued, sent, launched, archived, confirmed, effects, offered>>
      /\ unit[s].state = "absent"
      /\ unit' = [unit EXCEPT ![s].state = "pending"]
  BY DEF Orchestrate, host, ghosts
<1>2. /\ unit' \in [Slices -> [state : {"absent", "pending", "bound"}, attempt : 1 .. MaxAttempt]]
      /\ unit'[s].state = "pending"
      /\ \A t \in Slices : t # s => unit'[t] = unit[t]
  BY <1>1 DEF IInv, FilesInv
<1> QED
  BY <1>1, <1>2, UnitKeeps DEF IInv, FilesInv, Accepted

LEMMA BindKeeps ==
  ASSUME IInv, NEW s \in Slices, Bind(s)
  PROVE  IInv'
<1>1. /\ UNCHANGED <<run, verdict, life, job, issued, sent, launched, archived, confirmed, effects, offered>>
      /\ unit[s].state = "pending"
      /\ unit' = [unit EXCEPT ![s].state = "bound"]
  BY DEF Bind, host, ghosts
<1>2. /\ unit' \in [Slices -> [state : {"absent", "pending", "bound"}, attempt : 1 .. MaxAttempt]]
      /\ unit'[s].state = "bound"
      /\ \A t \in Slices : t # s => unit'[t] = unit[t]
  BY <1>1 DEF IInv, FilesInv
<1> QED
  BY <1>1, <1>2, UnitKeeps DEF IInv, FilesInv, Accepted

LEMMA CorrectKeeps ==
  ASSUME IInv, NEW s \in Slices, Correct(s)
  PROVE  IInv'
<1>1. /\ UNCHANGED <<run, verdict, life, job, issued, sent, launched, archived, confirmed, effects, offered>>
      /\ verdict[Current(s)] = "rejected" /\ unit[s].attempt < MaxAttempt
      /\ unit' = [unit EXCEPT ![s].attempt = @ + 1]
  BY DEF Correct, host, ghosts
<1>2. unit[s].attempt + 1 \in 1 .. MaxAttempt
  BY <1>1, WavesAssumption DEF IInv, FilesInv
<1>3. /\ unit' \in [Slices -> [state : {"absent", "pending", "bound"}, attempt : 1 .. MaxAttempt]]
      /\ unit'[s].state = unit[s].state
      /\ \A t \in Slices : t # s => unit'[t] = unit[t]
  BY <1>1, <1>2 DEF IInv, FilesInv
<1>4. ~ Accepted(s)
  BY <1>1 DEF Accepted
<1> QED
  BY <1>1, <1>3, <1>4, UnitKeeps DEF IInv, FilesInv, Accepted

LEMMA DecideKeeps ==
  ASSUME IInv, NEW s \in Slices, NEW decision \in {"accepted", "rejected"},
         Decide(s, decision)
  PROVE  IInv'
<1>1. /\ UNCHANGED <<run, unit, life, job, issued, sent, launched, archived, confirmed, effects, offered>>
      /\ verdict[Current(s)] = None
      /\ verdict' = [verdict EXCEPT ![Current(s)] = decision]
  BY DEF Decide, host, ghosts
<1>2. Current(s) \in Attempts
  BY CurrentIs DEF IInv
<1>3. /\ verdict' \in [Attempts -> {None, "accepted", "rejected"}]
      /\ \A a \in Attempts : verdict[a] = "accepted" => verdict'[a] = "accepted"
  BY <1>1, <1>2, WavesAssumption DEF IInv, FilesInv
<1>4. \A t \in Slices : Accepted(t) => verdict'[Current(t)] = "accepted"
  BY <1>3, CurrentIs DEF Accepted, IInv
<1> QED
  BY <1>1, <1>3, <1>4, UnitKeeps DEF IInv, FilesInv, Accepted

\* A step of the host.
LEMMA HostStepKeeps ==
  ASSUME IInv, UNCHANGED <<run, unit, verdict, life, job, issued, sent, confirmed, offered>>,
         \A s \in launched' \ launched :
           s \in Slices /\ (Kind[s] = "spinoff" => unit[s].state # "absent"),
         effects' \subseteq effects,
         DOMAIN archived' = Slices,
         \A s \in Slices :
           archived'[s] = archived[s] \/ (archived'[s] # None /\ Earned(s, archived'[s], View))
  PROVE  IInv'
<1>1. Onward(View, View')
  BY Standing DEF IInv
<1>2. \A s \in launched' \ launched :
        s \in Slices /\ (Kind[s] = "spinoff" => s \in View'.persisted)
  BY DEF View, Persisted
<1>3. \A s \in Slices :
        archived'[s] = archived[s] \/ Earned(s, archived'[s], View')
  BY <1>1, EarnedKeeps
<1>4. FilesInv'
  BY <1>1, FilesKeep DEF IInv, FilesInv
<1>5. OnceInv'
  BY <1>1, OnceKeeps DEF IInv
<1>6. JobsInv'
  BY <1>1, JobsStay DEF IInv
<1>7. HostInv'
  BY <1>1, <1>2, <1>3, HostKeeps DEF IInv
<1> QED
  BY <1>4, <1>5, <1>6, <1>7 DEF IInv

LEMMA NativeCreateKeeps ==
  ASSUME IInv, NEW s \in Slices, NativeCreate(s)
  PROVE  IInv'
<1>1. /\ UNCHANGED <<run, unit, verdict, life, job, issued, sent, archived, confirmed, effects, offered>>
      /\ launched' = launched \cup {s}
      /\ unit[s].state = "pending" \/ Kind[s] = "subagent"
  BY DEF NativeCreate, files, ghosts
<1> QED
  BY <1>1, HostStepKeeps DEF IInv, HostInv

LEMMA LoseEffectKeeps ==
  ASSUME IInv, NEW e, LoseEffect(e)
  PROVE  IInv'
<1>1. /\ UNCHANGED <<run, unit, verdict, life, job, issued, sent, launched, archived, confirmed, offered>>
      /\ effects' \subseteq effects
  BY DEF LoseEffect, files, ghosts
<1> QED
  BY <1>1, HostStepKeeps DEF IInv, HostInv

LEMMA PerformKeeps ==
  ASSUME IInv, NEW e, Perform(e)
  PROVE  IInv'
<1>1. /\ UNCHANGED <<run, unit, verdict, life, job, issued, sent, launched, confirmed, offered>>
      /\ effects' \subseteq effects /\ e \in effects
      /\ \/ e.type = "archive" /\ archived' = [archived EXCEPT ![e.at[1]] = e.action]
         \/ UNCHANGED archived
  BY DEF Perform, files, ghosts
<1>2. CASE e.type = "archive" /\ archived' = [archived EXCEPT ![e.at[1]] = e.action]
  <2> DEFINE s == e.at[1]
  <2>1. s \in Slices /\ e.action # None /\ Earned(s, e.action, View)
    BY <1>1, <1>2 DEF IInv, HostInv, EffectInv
  <2>2. archived' = [archived EXCEPT ![s] = e.action] /\ DOMAIN archived = Slices
    BY <1>2 DEF IInv, HostInv
  <2> HIDE DEF s
  <2>3. /\ DOMAIN archived' = Slices
        /\ \A t \in Slices :
             archived'[t] = archived[t] \/ (archived'[t] # None /\ Earned(t, archived'[t], View))
    BY <2>1, <2>2
  <2> QED
    BY <1>1, <2>3, HostStepKeeps
<1>3. CASE UNCHANGED archived
  BY <1>1, <1>3, HostStepKeeps DEF IInv, HostInv
<1> QED
  BY <1>1, <1>2, <1>3

-----------------------------------------------------------------------------
(* Work is of waves that were handed out                                   *)

\* A step that hands nothing back and begins no verification.
LEMMA OrderKeeps ==
  ASSUME OrderInv, offered \subseteq offered',
         \A s \in Slices :
           unit'[s].state # "absent" => unit[s].state # "absent" \/ WaveOf[s] \in offered,
         \A p \in Procs : In(p, "verify")' => In(p, "verify") /\ job'[p] = job[p]
  PROVE  OrderInv'
BY DEF OrderInv, Persisted

\* A call goes on, with something else than a verification.
LEMMA JobOrder ==
  ASSUME IInv, NEW p \in Procs, NEW j, j = None \/ j.op # "verify",
         job' = [job EXCEPT ![p] = j]
  PROVE  \A q \in Procs : In(q, "verify")' => In(q, "verify") /\ job'[q] = job[q]
<1>1. DOMAIN job = Procs
  BY DEF IInv, JobsInv
<1>2. job'[p] = j /\ \A q \in Procs : q # p => job'[q] = job[q]
  BY <1>1
<1> QED
  BY <1>2 DEF In

LEMMA CallOrder ==
  ASSUME IInv, OrderInv, NEW p \in Procs, Call(p)
  PROVE  OrderInv'
<1> USE DEF Continue, Return, Begin
<1>1. ASSUME NEW j, j = None \/ j.op # "verify", job' = [job EXCEPT ![p] = j],
             offered \subseteq offered', unit' = unit
      PROVE  OrderInv'
  BY <1>1, JobOrder, OrderKeeps
<1>2. CASE CreateBegin(p)
  <2>1. CASE UNCHANGED job
    BY <1>2, <2>1, OrderKeeps DEF CreateBegin, files, In
  <2>2. CASE job' = [job EXCEPT ![p] = [op |-> "create", seen |-> run]]
    BY <1>1, <1>2, <2>2 DEF CreateBegin, files
  <2> QED
    BY <1>2, <2>1, <2>2 DEF CreateBegin
<1>3. CASE CreateWrite(p)
  BY <1>1, <1>3 DEF CreateWrite
<1>4. CASE \E w \in Waves : VerifyBegin(p, w)
  <2>1. PICK w \in offered :
          job' = [job EXCEPT ![p] = [op |-> "verify", wave |-> w, digest |-> Digest(run),
                                     seen |-> run]]
    BY <1>4 DEF VerifyBegin
  <2>2. DOMAIN job = Procs /\ UNCHANGED <<unit, offered>>
    BY <1>4 DEF VerifyBegin, files, IInv, JobsInv
  <2>3. job'[p].wave = w /\ \A q \in Procs : q # p => job'[q] = job[q]
    BY <2>1, <2>2
  <2> QED
    BY <2>2, <2>3 DEF OrderInv, Persisted, In
<1>5. CASE AdoptJoined(p)
  <2>1. /\ In(p, "verify") /\ job[p].wave \in offered /\ UNCHANGED offered
    BY <1>5 DEF AdoptJoined, OrderInv
  <2>2. \E j : (j = None \/ j.op # "verify") /\ job' = [job EXCEPT ![p] = j]
    BY <1>5 DEF AdoptJoined
  <2>3. ASSUME NEW s \in Slices, unit'[s].state # "absent"
        PROVE  unit[s].state # "absent" \/ WaveOf[s] \in offered
    BY <1>5, <2>1, <2>3 DEF AdoptJoined, Members
  <2> QED
    BY <2>1, <2>2, <2>3, JobOrder, OrderKeeps
<1>6. CASE MarkRead(p)
  BY <1>1, <1>6 DEF MarkRead, AfterMark, files
<1>7. CASE MarkWrite(p)
  BY <1>1, <1>7 DEF MarkWrite, AfterMark
<1>8. CASE \E s \in Slices, content \in Contents, receipt \in BOOLEAN :
             CompleteBegin(p, s, content, receipt)
  BY <1>1, <1>8 DEF CompleteBegin, files
<1>9. CASE CompleteWrite(p)
  BY <1>1, <1>9 DEF CompleteWrite
<1>10. CASE \E scope \in Scopes, policy \in Policies,
              confirm \in SUBSET InScope(Web) \cup {None},
              receipts \in SUBSET {s \in Slices : archived[s] # None} :
              CleanupBegin(p, scope, policy, confirm, receipts)
  BY <1>1, <1>10 DEF CleanupBegin, files
<1>11. CASE Snapshot(p)
  BY <1>1, <1>11 DEF Snapshot
<1>12. CASE SnapshotCut(p) \/ Crash(p)
  BY <1>1, <1>12 DEF SnapshotCut, Crash, files
<1>13. CASE SettleOne(p)
  <2>1. job[p].op = "settle" /\ DOMAIN job[p] = SettleFields
    BY <1>13 DEF SettleOne, In, IInv, JobsInv, JobInv
  <2> DEFINE j == job[p]
             out(s) == Settle(life[Current(s)], Reported, j.policy, j.scope,
                              IF s \in j.receipts THEN archived[s] ELSE None)
             effect(s) == [type |-> "archive", at |-> Current(s), action |-> out(s).record.action]
             archives(s) == IF out(s).archive THEN j.archives \cup {effect(s)} ELSE j.archives
             after(s) == [j EXCEPT !.todo = j.todo \ {s}, !.states = j.states \cup {out(s).state},
                                   !.archives = archives(s)]
  <2>2. PICK s \in j.todo : job' = [job EXCEPT ![p] = after(s)]
    BY <1>13 DEF SettleOne
  <2>3. after(s).op = "settle"
    <3> HIDE DEF out, archives
    <3> QED
      BY <2>1 DEF SettleFields
  <2> HIDE DEF after
  <2> QED
    BY <1>1, <1>13, <2>2, <2>3 DEF SettleOne
<1>14. CASE CleanupEnd(p)
  BY <1>1, <1>14 DEF CleanupEnd, files
<1> QED
  BY <1>2, <1>3, <1>4, <1>5, <1>6, <1>7, <1>8, <1>9, <1>10, <1>11, <1>12, <1>13, <1>14
  DEF Call

LEMMA OrderStep == IInv /\ OrderInv /\ [Next]_vars => OrderInv'
<1> SUFFICES ASSUME IInv, OrderInv, [Next]_vars PROVE OrderInv'
  OBVIOUS
<1>1. ASSUME NEW p \in Procs, Call(p) PROVE OrderInv'
  BY <1>1, CallOrder
<1>2. CASE UNCHANGED <<unit, job>> /\ offered \subseteq offered'
  BY <1>2, OrderKeeps DEF In
<1>3. CASE Advance
  BY <1>2, <1>3 DEF Advance, files
<1>4. ASSUME NEW s \in Slices, Orchestrate(s) \/ Bind(s) \/ Correct(s) PROVE OrderInv'
  <2>1. UNCHANGED <<job, offered>> /\ DOMAIN unit = Slices
    BY <1>4 DEF Orchestrate, Bind, Correct, IInv, FilesInv
  <2>2. WaveOf[s] \in offered \/ unit[s].state # "absent" \/ unit'[s].state = unit[s].state
    BY <1>4, <2>1 DEF Orchestrate, Bind, Correct, IInv, FilesInv
  <2>3. \A t \in Slices : t # s => unit'[t] = unit[t]
    BY <1>4, <2>1 DEF Orchestrate, Bind, Correct
  <2> QED
    BY <2>1, <2>2, <2>3, OrderKeeps DEF In
<1>5. ASSUME NEW s \in Slices,
             NativeCreate(s) \/ \E decision \in {"accepted", "rejected"} : Decide(s, decision)
      PROVE  OrderInv'
  BY <1>2, <1>5 DEF NativeCreate, Decide, files
<1>6. ASSUME NEW e \in effects, Perform(e) \/ LoseEffect(e) PROVE OrderInv'
  BY <1>2, <1>6 DEF Perform, LoseEffect, files
<1>7. CASE UNCHANGED vars
  BY <1>2, <1>7 DEF vars, files
<1> QED
  BY <1>1, <1>3, <1>4, <1>5, <1>6, <1>7 DEF Next, Environment

-----------------------------------------------------------------------------
(* The theorems                                                            *)

LEMMA IInvInit == Init => IInv
<1> SUFFICES ASSUME Init PROVE IInv
  OBVIOUS
<1>1. PICK x \in Starts :
        run = IF x.found = None THEN None ELSE [New EXCEPT !.form = x.found]
  BY DEF Init
<1>2. run # None => RunInv(run, View)
  <2>1. x.found \in Forms \cup {None}
    BY WavesAssumption
  <2> QED
    BY <1>1, <2>1, NewIs
<1>3. FilesInv
  <2>1. 1 \in 1 .. MaxAttempt
    BY WavesAssumption
  <2> QED
    BY <1>2, <2>1 DEF Init, FilesInv
<1>4. OnceInv
  BY DEF Init, OnceInv
<1>5. JobsInv
  BY DEF Init, JobsInv
<1>6. HostInv
  BY DEF Init, HostInv
<1> QED
  BY <1>3, <1>4, <1>5, <1>6 DEF IInv

LEMMA CallStep ==
  ASSUME IInv, NEW p \in Procs, Call(p)
  PROVE  IInv'
<1>1. CASE CreateBegin(p) \/ CreateWrite(p)
  BY <1>1, CreateBeginKeeps, CreateWriteKeeps
<1>2. CASE \E w \in Waves : VerifyBegin(p, w)
  BY <1>2, VerifyBeginKeeps
<1>3. CASE AdoptJoined(p) \/ MarkRead(p) \/ MarkWrite(p)
  BY <1>3, AdoptJoinedKeeps, MarkReadKeeps, MarkWriteKeeps
<1>4. CASE \E s \in Slices, content \in Contents, receipt \in BOOLEAN :
             CompleteBegin(p, s, content, receipt)
  BY <1>4, CompleteBeginKeeps
<1>5. CASE CompleteWrite(p)
  BY <1>5, CompleteWriteKeeps
<1>6. CASE \E scope \in Scopes, policy \in Policies,
              confirm \in SUBSET InScope(Web) \cup {None},
              receipts \in SUBSET {s \in Slices : archived[s] # None} :
             CleanupBegin(p, scope, policy, confirm, receipts)
  BY <1>6, CleanupBeginKeeps
<1>7. CASE Snapshot(p) \/ SnapshotCut(p)
  BY <1>7, SnapshotKeeps, SnapshotCutKeeps
<1>8. CASE SettleOne(p) \/ CleanupEnd(p)
  BY <1>8, SettleOneKeeps, CleanupEndKeeps
<1>9. CASE Crash(p)
  BY <1>9, CrashKeeps
<1> QED
  BY <1>1, <1>2, <1>3, <1>4, <1>5, <1>6, <1>7, <1>8, <1>9 DEF Call

LEMMA EnvironmentStep ==
  ASSUME IInv, OrderInv, Environment
  PROVE  IInv'
<1>1. CASE Advance
  BY <1>1, AdvanceKeeps
<1>2. ASSUME NEW s \in Slices,
             \/ Orchestrate(s) \/ NativeCreate(s) \/ Bind(s) \/ Correct(s)
             \/ \E decision \in {"accepted", "rejected"} : Decide(s, decision)
      PROVE  IInv'
  BY <1>2, OrchestrateKeeps, NativeCreateKeeps, BindKeeps, CorrectKeeps, DecideKeeps
<1>3. ASSUME NEW e \in effects, Perform(e) \/ LoseEffect(e)
      PROVE  IInv'
  BY <1>3, PerformKeeps, LoseEffectKeeps
<1> QED
  BY <1>1, <1>2, <1>3 DEF Environment

LEMMA IInvStep == IInv /\ OrderInv /\ [Next]_vars => IInv'
<1> SUFFICES ASSUME IInv, OrderInv, [Next]_vars PROVE IInv'
  OBVIOUS
<1>1. CASE Next
  BY <1>1, CallStep, EnvironmentStep DEF Next
<1>2. CASE UNCHANGED vars
  <2>1. UNCHANGED <<run, unit, verdict, life, job, issued, sent, launched, archived,
                    confirmed, effects, offered>>
    BY <1>2 DEF vars, files, host, ghosts
  <2> QED
    BY <2>1, HostStepKeeps DEF IInv, HostInv
<1> QED
  BY <1>1, <1>2

LEMMA Invariant == Spec => []IInv
<1>1. Init => OrderInv
  BY DEF Init, OrderInv, Persisted, In
<1> QED
  BY <1>1, IInvInit, IInvStep, OrderStep, PTL DEF Spec

(* For every plan: whatever the calls read before, the policy in force and  *)
(* the answers that were lost, the host archives a task only when its       *)
(* result is accepted, the archive is granted and the policy allows it      *)
(* (cleanup in spinoff-lifecycle.mjs, handleSpinoffCleanup).                *)
THEOREM OnlyEarnedArchives == Spec => []ArchiveIsEarned
<1>1. IInv => ArchiveIsEarned
  <2> SUFFICES ASSUME IInv, NEW s \in Slices, archived[s] # None
               PROVE  LET r == life[Current(s)]
                      IN  /\ Kind[s] = "spinoff" /\ Archivable /\ Accepted(s)
                          /\ r.cleanup \in {"archiving", "archived"} /\ r.action = archived[s]
                          /\ r.policy \in {"auto", "ask"}
                          /\ r.policy = "ask" => s \in confirmed
    BY DEF ArchiveIsEarned
  <2>1. Earned(s, archived[s], View)
    BY DEF IInv, HostInv
  <2>2. View.life[View.current[s]] = life[Current(s)] /\ View.confirmed = confirmed
    BY DEF View
  <2>3. s \in View.accepted <=> Accepted(s)
    BY DEF View
  <2> QED
    BY <2>1, <2>2, <2>3 DEF Earned, Granted
<1> QED
  BY <1>1, Invariant, PTL

(* The archive of a task and the wake of the queen are each requested once  *)
(* at most, for any number of processes, replays, lost answers and crashes  *)
(* (complete and cleanup in spinoff-lifecycle.mjs, under the queen's lock). *)
THEOREM NothingIsAskedTwice == Spec => []RequestedOnce
<1>1. IInv => RequestedOnce
  BY DEF IInv, OnceInv, RequestedOnce
<1> QED
  BY <1>1, Invariant, PTL

(* A wave is recorded as cleaned only with all of its spin-offs accepted,   *)
(* though acceptance was read before the locks and the record is also       *)
(* written by create(), which takes none (markWaveCleaned in                *)
(* plan-run-store.mjs).                                                     *)
THEOREM OnlyAcceptedWavesAreCleaned == Spec => []CleanedIsEarned
<1>1. IInv => CleanedIsEarned
  BY DEF IInv, FilesInv, RunInv, Finished, CleanedIsEarned, View, Spinoffs, Members
<1> QED
  BY <1>1, Invariant, PTL

(* A later wave is handed to the host only when the spin-offs of every      *)
(* earlier wave are accepted and everything it builds on is persisted       *)
(* (nextWaveLaunch and the advance of the orchestrator).                    *)
THEOREM LaterWavesHaveTheirTurn == Spec => []OfferIsEarned
<1>1. IInv => OfferIsEarned
  <2> SUFFICES ASSUME IInv, NEW w \in offered \ {1}
               PROVE  /\ \A s \in Slices : WaveOf[s] < w /\ Kind[s] = "spinoff" => Accepted(s)
                      /\ MissingPrerequisites(w) = {}
    BY DEF OfferIsEarned
  <2>1. Offered(w, View)
    BY DEF IInv, HostInv
  <2> QED
    BY <2>1 DEF Offered, View, MissingPrerequisites
<1> QED
  BY <1>1, Invariant, PTL
=============================================================================
