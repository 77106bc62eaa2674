---------------------------- MODULE RuntimeProofs ----------------------------
(***************************************************************************)
(* First the installation (Install.tla) for any roots, releases, crashes,  *)
(* failed steps and edits: it ends as a whole, and the commit marker       *)
(* decides which release that is.  Then the marketplace (Marketplace.tla)  *)
(* around it: what the user saved is kept, and what an installer left is   *)
(* settled.  Then the mutation fence for any number of workers beside it:  *)
(* no stale worker commits, and no two generations commit together.        *)
(***************************************************************************)
EXTENDS Runtime, MarketplaceInvariant, FiniteSetTheorems, SequenceTheorems, TLAPS

-----------------------------------------------------------------------------
(* Programs *)

LEMMA SeqFacts ==
  ASSUME NEW t, IsSeq(t)
  PROVE  Len(t) \in Nat /\ DOMAIN t = 1 .. Len(t)
BY LenProperties DEF IsSeq

LEMMA InSeq ==
  ASSUME NEW S, NEW t \in Seq(S) PROVE IsSeq(t)
<1>1. Len(t) \in Nat /\ DOMAIN t = 1 .. Len(t) /\ t \in [1 .. Len(t) -> S]
  BY LenProperties
<1>2. t \in [1 .. Len(t) -> {t[i] : i \in DOMAIN t}]
  BY <1>1
<1> QED
  BY <1>1, <1>2, SeqDef DEF IsSeq

LEMMA Joined ==
  ASSUME NEW t, NEW u, IsSeq(t), IsSeq(u)
  PROVE  /\ IsSeq(t \o u) /\ Len(t \o u) = Len(t) + Len(u)
         /\ \A i \in 1 .. Len(t) + Len(u) :
              (t \o u)[i] = IF i <= Len(t) THEN t[i] ELSE u[i - Len(t)]
<1> DEFINE S == {t[i] : i \in DOMAIN t}
           T == {u[i] : i \in DOMAIN u}
<1>1. t \in Seq(S) /\ u \in Seq(T)
  BY DEF IsSeq
<1> HIDE DEF S, T
<1>2. t \in Seq(S \cup T) /\ u \in Seq(S \cup T)
  BY <1>1, SeqMonotonic
<1> QED
  BY <1>2, ConcatProperties, InSeq

LEMMA ProgramConcat ==
  ASSUME NEW t, NEW u, NEW A, NEW B, Program(t, A), Program(u, B),
         \A x \in A, y \in B : Rank(x) < Rank(y)
  PROVE  Program(t \o u, A \cup B)
<1>1. IsSeq(t) /\ IsSeq(u)
  BY DEF Program
<1>2. /\ Len(t) \in Nat /\ Len(u) \in Nat
      /\ DOMAIN t = 1 .. Len(t) /\ DOMAIN u = 1 .. Len(u)
      /\ DOMAIN (t \o u) = 1 .. Len(t) + Len(u)
  BY <1>1, SeqFacts, Joined
<1>3. /\ \A i \in DOMAIN t : i \in DOMAIN (t \o u) /\ (t \o u)[i] = t[i]
      /\ \A i \in DOMAIN u :
           i + Len(t) \in DOMAIN (t \o u) /\ (t \o u)[i + Len(t)] = u[i]
      /\ \A i \in DOMAIN (t \o u) :
           \/ i \in DOMAIN t /\ (t \o u)[i] = t[i]
           \/ i > Len(t) /\ i - Len(t) \in DOMAIN u /\ (t \o u)[i] = u[i - Len(t)]
  BY <1>1, <1>2, Joined
<1>4. Work(t) = A /\ Work(u) = B
  BY DEF Program
<1>5. Work(t \o u) \subseteq A \cup B
  <2> SUFFICES ASSUME NEW i \in DOMAIN (t \o u), (t \o u)[i].op \notin MarketOps
               PROVE  (t \o u)[i] \in A \cup B
    BY DEF Work
  <2> QED
    BY <1>3, <1>4 DEF Work
<1>6. A \subseteq Work(t \o u)
  <2> SUFFICES ASSUME NEW i \in DOMAIN t, t[i].op \notin MarketOps
               PROVE  t[i] \in Work(t \o u)
    BY <1>4 DEF Work
  <2> QED
    BY <1>3 DEF Work
<1>7. B \subseteq Work(t \o u)
  <2> SUFFICES ASSUME NEW i \in DOMAIN u, u[i].op \notin MarketOps
               PROVE  u[i] \in Work(t \o u)
    BY <1>4 DEF Work
  <2> QED
    BY <1>3 DEF Work
<1>8. Ordered(t \o u)
  <2> SUFFICES ASSUME NEW i \in DOMAIN (t \o u), NEW j \in DOMAIN (t \o u), i < j,
                      (t \o u)[i].op \notin MarketOps, (t \o u)[j].op \notin MarketOps
               PROVE  Rank((t \o u)[i]) < Rank((t \o u)[j])
    BY DEF Ordered
  <2>1. CASE i \in DOMAIN t /\ j \in DOMAIN t
    BY <2>1, <1>3, <1>2 DEF Program, Ordered
  <2>2. CASE i \in DOMAIN t /\ j > Len(t)
    <3>1. j - Len(t) \in DOMAIN u /\ (t \o u)[j] = u[j - Len(t)] /\ (t \o u)[i] = t[i]
      BY <2>2, <1>3, <1>2
    <3>2. t[i] \in A /\ u[j - Len(t)] \in B
      BY <3>1, <2>2, <1>4 DEF Work
    <3> QED
      BY <3>1, <3>2
  <2>3. CASE i > Len(t)
    <3>1. /\ i - Len(t) \in DOMAIN u /\ (t \o u)[i] = u[i - Len(t)]
          /\ j - Len(t) \in DOMAIN u /\ (t \o u)[j] = u[j - Len(t)]
          /\ i - Len(t) < j - Len(t)
      BY <2>3, <1>3, <1>2
    <3> QED
      BY <3>1 DEF Program, Ordered
  <2> QED
    BY <2>1, <2>2, <2>3, <1>2
<1> QED
  BY <1>1, <1>5, <1>6, <1>7, <1>8, Joined DEF Program

LEMMA ProgramTail ==
  ASSUME NEW t, NEW W, Program(t, W), t # <<>>
  PROVE  /\ Head(t).op \in MarketOps => Program(Tail(t), W)
         /\ Head(t).op \notin MarketOps =>
              /\ Head(t) \in W /\ Program(Tail(t), W \ {Head(t)})
              /\ \A y \in W \ {Head(t)} : Rank(Head(t)) < Rank(y)
<1> DEFINE S == {t[i] : i \in DOMAIN t}
<1>1. t \in Seq(S)
  BY DEF Program, IsSeq
<1> HIDE DEF S
<1>2. /\ IsSeq(Tail(t)) /\ Len(Tail(t)) = Len(t) - 1 /\ Len(t) \in Nat /\ Len(t) > 0
      /\ DOMAIN t = 1 .. Len(t) /\ DOMAIN Tail(t) = 1 .. Len(t) - 1
      /\ Head(t) = t[1] /\ \A i \in 1 .. Len(t) - 1 : Tail(t)[i] = t[i + 1]
  <2>1. /\ Tail(t) \in Seq(S) /\ Len(Tail(t)) = Len(t) - 1
        /\ \A i \in 1 .. Len(Tail(t)) : Tail(t)[i] = t[i + 1]
    BY <1>1, HeadTailProperties
  <2>2. Len(t) \in Nat /\ Len(t) > 0 /\ DOMAIN t = 1 .. Len(t)
    BY <1>1, LenProperties, EmptySeq
  <2>3. Head(t) = t[1]
    BY <1>1
  <2>4. DOMAIN Tail(t) = 1 .. Len(Tail(t))
    BY <2>1, LenProperties
  <2> QED
    BY <2>1, <2>2, <2>3, <2>4, InSeq
<1>3. /\ 1 \in DOMAIN t
      /\ \A i \in DOMAIN Tail(t) :
           i \in Nat /\ i + 1 \in DOMAIN t /\ 1 < i + 1 /\ Tail(t)[i] = t[i + 1]
      /\ \A i \in DOMAIN t : i = 1 \/ (i - 1 \in DOMAIN Tail(t) /\ 1 < i /\ Tail(t)[i - 1] = t[i])
  BY <1>2
<1>4. Work(t) = W /\ Ordered(t)
  BY DEF Program
<1>5. Ordered(Tail(t))
  <2> SUFFICES ASSUME NEW i \in DOMAIN Tail(t), NEW j \in DOMAIN Tail(t), i < j,
                      Tail(t)[i].op \notin MarketOps, Tail(t)[j].op \notin MarketOps
               PROVE  Rank(Tail(t)[i]) < Rank(Tail(t)[j])
    BY DEF Ordered
  <2>1. i + 1 < j + 1
    BY <1>3
  <2> QED
    BY <2>1, <1>3, <1>4 DEF Ordered
<1>6. Work(Tail(t)) \subseteq W
  <2> SUFFICES ASSUME NEW i \in DOMAIN Tail(t), Tail(t)[i].op \notin MarketOps
               PROVE  Tail(t)[i] \in W
    BY DEF Work
  <2> QED
    BY <1>3, <1>4 DEF Work
<1>7. W \subseteq Work(Tail(t)) \cup {Head(t)}
  <2> SUFFICES ASSUME NEW i \in DOMAIN t, t[i].op \notin MarketOps
               PROVE  t[i] \in Work(Tail(t)) \cup {Head(t)}
    BY <1>4 DEF Work
  <2>1. CASE i = 1
    BY <2>1, <1>2
  <2>2. CASE i # 1
    BY <2>2, <1>3 DEF Work
  <2> QED
    BY <2>1, <2>2
<1>8. CASE Head(t).op \in MarketOps
  <2>1. \A x \in W : x.op \notin MarketOps
    BY <1>4 DEF Work
  <2>2. Work(Tail(t)) = W
    BY <2>1, <1>6, <1>7, <1>8
  <2> QED
    BY <2>2, <1>2, <1>5, <1>8 DEF Program
<1>9. CASE Head(t).op \notin MarketOps
  <2>1. Head(t) \in W
    BY <1>9, <1>2, <1>3, <1>4 DEF Work
  <2>2. \A y \in Work(Tail(t)) : Rank(Head(t)) < Rank(y)
    <3> SUFFICES ASSUME NEW i \in DOMAIN Tail(t), Tail(t)[i].op \notin MarketOps
                 PROVE  Rank(Head(t)) < Rank(Tail(t)[i])
      BY DEF Work
    <3> QED
      BY <1>9, <1>2, <1>3, <1>4 DEF Ordered
  <2>3. Head(t) \notin Work(Tail(t))
    <3>1. Rank(Head(t)) \in Nat
      BY DEF Rank
    <3> QED
      BY <2>2, <3>1
  <2>4. Work(Tail(t)) = W \ {Head(t)}
    BY <2>1, <2>3, <1>6, <1>7
  <2> QED
    BY <2>1, <2>2, <2>4, <1>2, <1>5, <1>9 DEF Program
<1> QED
  BY <1>8, <1>9

LEMMA ProgramQuiet ==
  ASSUME NEW t, IsSeq(t), \A i \in DOMAIN t : t[i].op \in MarketOps
  PROVE  Program(t, {})
BY DEF Program, Ordered, Work

LEMMA ProgramOne ==
  ASSUME NEW x, x.op \notin MarketOps
  PROVE  Program(<<x>>, {x})
<1>1. <<x>> \in Seq({x}) /\ DOMAIN <<x>> = {1} /\ <<x>>[1] = x
  OBVIOUS
<1>2. IsSeq(<<x>>)
  BY <1>1, InSeq
<1>3. Work(<<x>>) = {x}
  BY <1>1 DEF Work
<1>4. Ordered(<<x>>)
  <2>1. \A i, j \in {1} : ~ (i < j)
    OBVIOUS
  <2> QED
    BY <1>1, <2>1 DEF Ordered
<1> QED
  BY <1>2, <1>3, <1>4 DEF Program

LEMMA ProgramTwo ==
  ASSUME NEW x, NEW y, x.op \notin MarketOps, y.op \notin MarketOps, Rank(x) < Rank(y)
  PROVE  Program(<<x, y>>, {x, y})
<1>1. /\ <<x, y>> \in Seq({x, y}) /\ DOMAIN <<x, y>> = {1, 2}
      /\ <<x, y>>[1] = x /\ <<x, y>>[2] = y
  OBVIOUS
<1>2. IsSeq(<<x, y>>)
  BY <1>1, InSeq
<1>3. Work(<<x, y>>) = {x, y}
  BY <1>1 DEF Work
<1>4. Ordered(<<x, y>>)
  <2>1. \A i, j \in {1, 2} : i < j => i = 1 /\ j = 2
    OBVIOUS
  <2> QED
    BY <1>1, <2>1 DEF Ordered
<1> QED
  BY <1>2, <1>3, <1>4 DEF Program

LEMMA ProgramEmpty == Program(<<>>, {})
<1>1. <<>> \in Seq({}) /\ DOMAIN <<>> = {}
  BY EmptySeq
<1>2. IsSeq(<<>>)
  BY <1>1, InSeq
<1> QED
  BY <1>1, <1>2, ProgramQuiet

LEMMA QuietConcat ==
  ASSUME NEW t, NEW u, NEW W, Program(t, {}), Program(u, W)
  PROVE  Program(t \o u, W)
<1>1. Program(t \o u, {} \cup W)
  BY ProgramConcat
<1> QED
  BY <1>1

LEMMA QuietOne ==
  ASSUME NEW x, x.op \in MarketOps PROVE Program(<<x>>, {})
<1>1. <<x>> \in Seq({x}) /\ DOMAIN <<x>> = {1} /\ <<x>>[1] = x
  OBVIOUS
<1> QED
  BY <1>1, InSeq, ProgramQuiet

LEMMA QuietTwo ==
  ASSUME NEW x, NEW y, x.op \in MarketOps, y.op \in MarketOps
  PROVE  Program(<<x, y>>, {})
<1>1. /\ <<x, y>> \in Seq({x, y}) /\ DOMAIN <<x, y>> = {1, 2}
      /\ <<x, y>>[1] = x /\ <<x, y>>[2] = y
  OBVIOUS
<1> QED
  BY <1>1, InSeq, ProgramQuiet

LEMMA QuietThree ==
  ASSUME NEW x, NEW y, NEW z,
         x.op \in MarketOps, y.op \in MarketOps, z.op \in MarketOps
  PROVE  Program(<<x, y, z>>, {})
<1>1. /\ <<x, y, z>> \in Seq({x, y, z}) /\ DOMAIN <<x, y, z>> = {1, 2, 3}
      /\ <<x, y, z>>[1] = x /\ <<x, y, z>>[2] = y /\ <<x, y, z>>[3] = z
  OBVIOUS
<1> QED
  BY <1>1, InSeq, ProgramQuiet

LEMMA QuietFour ==
  ASSUME NEW x, NEW y, NEW z, NEW w, x.op \in MarketOps, y.op \in MarketOps,
         z.op \in MarketOps, w.op \in MarketOps
  PROVE  Program(<<x, y, z, w>>, {})
<1>1. /\ <<x, y, z, w>> \in Seq({x, y, z, w}) /\ DOMAIN <<x, y, z, w>> = {1, 2, 3, 4}
      /\ <<x, y, z, w>>[1] = x /\ <<x, y, z, w>>[2] = y
      /\ <<x, y, z, w>>[3] = z /\ <<x, y, z, w>>[4] = w
  OBVIOUS
<1> QED
  BY <1>1, InSeq, ProgramQuiet

LEMMA QuietPieces ==
  /\ Program(CleanUp, {}) /\ Program(Refuse, {})
  /\ \A c : Program(Take(c), {})
  /\ \A f : Program(Restore(f), {})
  /\ \A op \in MarketOps : \A x : Program(<<Step(op, x)>>, {})
<1>1. \A op \in MarketOps : \A x : Step(op, x).op \in MarketOps
  BY DEF Step
<1>2. {"rm", "refuse", "take", "compareTaken", "restore"} \subseteq MarketOps
  BY DEF MarketOps
<1> HIDE DEF Step, MarketOps
<1>3. Program(CleanUp, {})
  BY <1>1, <1>2, QuietThree DEF CleanUp
<1>4. Program(Refuse, {})
  BY <1>1, <1>2, QuietOne DEF Refuse
<1>5. \A c : Program(Take(c), {})
  BY <1>1, <1>2, QuietThree DEF Take
<1>6. \A f : Program(Restore(f), {})
  BY <1>1, <1>2, QuietTwo DEF Restore
<1>7. \A op \in MarketOps : \A x : Program(<<Step(op, x)>>, {})
  BY <1>1, QuietOne
<1> QED
  BY <1>3, <1>4, <1>5, <1>6, <1>7

LEMMA ReplaceIsQuiet ==
  ASSUME NEW old, NEW new PROVE Program(Replace(old, new), {})
<1> DEFINE first == <<Step("candidate", new)>>
           link == <<Step("link", None)>>
           swap == <<Step("displace", None), Step("compare", old), Step("link", old),
                     Step("rm", "displaced")>>
           last == <<Step("rm", "candidate")>>
<1>1. Program(first, {}) /\ Program(link, {}) /\ Program(last, {})
  BY QuietPieces DEF MarketOps
<1>2. Program(swap, {})
  <2>1. /\ Step("displace", None).op \in MarketOps /\ Step("compare", old).op \in MarketOps
        /\ Step("link", old).op \in MarketOps /\ Step("rm", "displaced").op \in MarketOps
    BY DEF Step, MarketOps
  <2> QED
    BY <2>1, QuietFour
<1>3. Replace(old, new) = first \o (IF old = None THEN link ELSE swap) \o last
  BY DEF Replace
<1> HIDE DEF first, link, swap, last
<1>4. Program(IF old = None THEN link ELSE swap, {})
  BY <1>1, <1>2
<1> QED
  BY <1>1, <1>3, <1>4, QuietConcat

LEMMA SettlementIsQuiet ==
  ASSUME NEW t, NEW found, NEW preserve PROVE Program(Settlement(t, found, preserve), {})
<1> DEFINE good == IF preserve THEN t.expected ELSE t.previous
           bad == IF preserve THEN t.previous ELSE t.expected
           holders == HoldersOf(good, found)
           verified == IF preserve THEN <<>> ELSE <<Step("verify", good)>>
           remove == <<Step("rm", "removal")>>
           clear == IF holders # <<>> /\ Head(holders) = "removal" THEN <<>> ELSE remove
           S1 == remove \o Take(bad) \o CleanUp
           S2 == Restore(Head(holders)) \o CleanUp
           S3 == clear \o Take(bad) \o Restore(Head(holders)) \o CleanUp \o verified
           S4 == CleanUp \o Replace(file, good) \o verified
<1>1. Program(verified, {}) /\ Program(remove, {}) /\ Program(clear, {})
  BY QuietPieces, ProgramEmpty DEF MarketOps
<1>2. Settlement(t, found, preserve) \in {CleanUp, Refuse, S1, S2, S3, S4}
  BY DEF Settlement
<1>3. /\ \A c : Program(Take(c), {})
      /\ \A f : Program(Restore(f), {})
      /\ Program(CleanUp, {}) /\ Program(Refuse, {})
      /\ \A c : Program(Replace(file, c), {})
  BY QuietPieces, ReplaceIsQuiet
<1> HIDE DEF good, bad, holders, verified, remove, clear
<1>4. Program(S1, {})
  BY <1>1, <1>3, QuietConcat
<1>5. Program(S2, {})
  BY <1>3, QuietConcat
<1>6. Program(S4, {})
  BY <1>1, <1>3, QuietConcat
<1>7. Program(S3, {})
  <2>1. Program(CleanUp \o verified, {})
    BY <1>1, <1>3, QuietConcat
  <2>2. Program(clear \o Take(bad), {})
    BY <1>1, <1>3, QuietConcat
  <2>3. Program(clear \o Take(bad) \o Restore(Head(holders)), {})
    BY <2>2, <1>3, QuietConcat
  <2>4. Program(clear \o Take(bad) \o Restore(Head(holders)) \o CleanUp, {})
    BY <2>3, <1>3, QuietConcat
  <2> QED
    BY <2>4, <1>1, QuietConcat
<1> HIDE DEF S1, S2, S3, S4
<1> QED
  BY <1>2, <1>3, <1>4, <1>5, <1>6, <1>7

\* The installer goes on with the work W, or ends.
Goes(W, stage, incomplete) ==
  run' # None =>
    /\ DOMAIN run' = RunFields /\ Program(run'.todo, W)
    /\ run'.root = run.root /\ run'.release = run.release
    /\ run'.stage = stage /\ run'.incomplete = incomplete

GoesOn(W) == Goes(W, run.stage, run.incomplete)

(* A marketplace step changes nothing but the marketplace.                 *)
LEMMA MarketplaceKeeps ==
  ASSUME MarketplaceStep, run # None, DOMAIN run = RunFields,
         NEW W, Program(run.todo, W)
  PROVE  GoesOn(W) /\ journal' = journal
<1>1. Proceed /\ run.todo # <<>> /\ Head(run.todo).op \in MarketOps => GoesOn(W)
  BY ProgramTail DEF Proceed, GoesOn, Goes, RunFields
<1>2. Throw => GoesOn(W)
  BY DEF Throw, GoesOn, Goes
<1>3. run' = run => GoesOn(W)
  BY DEF GoesOn, Goes
<1>4. ASSUME NEW s, Program(s, {}), run.todo # <<>>, Head(run.todo).op \in MarketOps,
             ProceedWith(s)
      PROVE  GoesOn(W)
  <2>1. Program(Tail(run.todo), W)
    BY <1>4, ProgramTail
  <2>2. Program(s \o Tail(run.todo), W)
    BY <1>4, <2>1, QuietConcat
  <2> QED
    BY <1>4, <2>2 DEF ProceedWith, GoesOn, Goes, RunFields
<1>5. CASE Ensure
  <2>1. run.todo # <<>> /\ Head(run.todo).op \in MarketOps /\ journal' = journal
    BY <1>5 DEF Ensure, At, MarketOps, Keep
  <2>2. CASE Proceed
    BY <1>1, <2>1, <2>2
  <2>3. CASE ~ Proceed
    <3>1. PICK new : ProceedWith(Replace(file, new) \o <<Step("verify", new)>>)
      BY <1>5, <2>3 DEF Ensure
    <3>2. Program(<<Step("verify", new)>>, {})
      BY QuietPieces DEF MarketOps
    <3>3. Program(Replace(file, new) \o <<Step("verify", new)>>, {})
      BY <3>2, ReplaceIsQuiet, QuietConcat
    <3> QED
      BY <1>4, <2>1, <3>1, <3>3
  <2> QED
    BY <2>2, <2>3
<1>6. CASE RecoverMarketplace
  <2>1. run.todo # <<>> /\ Head(run.todo).op \in MarketOps /\ journal' = journal
    BY <1>6 DEF RecoverMarketplace, At, MarketOps, Keep
  <2>2. CASE Proceed
    BY <1>1, <2>1, <2>2
  <2>3. CASE Throw
    BY <1>2, <2>1, <2>3
  <2>4. CASE run' = [run EXCEPT
                     !.settling = TRUE,
                     !.todo = Recovery(intent) \o <<Step("dropIntent", None)>> \o Tail(@)]
    <3>1. Program(Recovery(intent), {})
      BY SettlementIsQuiet, QuietPieces DEF Recovery
    <3>2. Program(<<Step("dropIntent", None)>>, {})
      BY QuietPieces DEF MarketOps
    <3>3. Program(Recovery(intent) \o <<Step("dropIntent", None)>>, {})
      BY <3>1, <3>2, QuietConcat
    <3>4. Program(Tail(run.todo), W)
      BY <2>1, ProgramTail
    <3>5. Program(Recovery(intent) \o <<Step("dropIntent", None)>> \o Tail(run.todo), W)
      BY <3>3, <3>4, QuietConcat
    <3> QED
      BY <2>1, <2>4, <3>5 DEF GoesOn, Goes, RunFields
  <2> QED
    BY <1>6, <2>2, <2>3, <2>4 DEF RecoverMarketplace
<1>7. CASE DropIntent
  <2>1. /\ run.todo # <<>> /\ Head(run.todo).op \in MarketOps /\ journal' = journal
        /\ run' = [run EXCEPT !.todo = Tail(@), !.settling = FALSE]
    BY <1>7 DEF DropIntent, At, MarketOps, Keep
  <2> QED
    BY <2>1, ProgramTail DEF GoesOn, Goes, RunFields
<1>8. CASE WriteCandidate \/ Displace \/ Compare
  <2>1. /\ run.todo # <<>> /\ Head(run.todo).op \in MarketOps /\ journal' = journal
        /\ Proceed \/ Throw \/ run' = run
    BY <1>8 DEF WriteCandidate, Displace, Compare, Withdraw, At, MarketOps, Keep
  <2> QED
    BY <1>1, <1>2, <1>3, <2>1
<1>9. CASE Link \/ Rm \/ Verify
  <2>1. /\ run.todo # <<>> /\ Head(run.todo).op \in MarketOps /\ journal' = journal
        /\ Proceed \/ Throw \/ run' = run
    BY <1>9 DEF Link, Rm, Verify, Withdraw, At, MarketOps, Keep
  <2> QED
    BY <1>1, <1>2, <1>3, <2>1
<1>10. CASE TakeAway \/ CompareTaken \/ RestoreFrom
  <2>1. /\ run.todo # <<>> /\ Head(run.todo).op \in MarketOps /\ journal' = journal
        /\ Proceed \/ Throw \/ run' = run
    BY <1>10 DEF TakeAway, CompareTaken, RestoreFrom, At, MarketOps, Keep
  <2> QED
    BY <1>1, <1>2, <1>3, <2>1
<1> QED
  BY <1>5, <1>6, <1>7, <1>8, <1>9, <1>10 DEF MarketplaceStep

LEMMA Ranks ==
  /\ Rank(Step("recover", None)) = 1 /\ Rank(Step("unlinkCurrent", None)) = 3
  /\ \A x : /\ Rank(Step("linkCurrent", x)) = 4 /\ Rank(Step("stateBack", x)) = 8
  /\ Rank(Step("putBack", "launcher")) = 2 /\ Rank(Step("putBack", "skill")) = 5
  /\ Rank(Step("putBack", "source")) = 6
  /\ Rank(Step("cacheBack", None)) = 7 /\ Rank(Step("settled", None)) = 9
  /\ Rank(Step("record", "source")) = 10 /\ Rank(Step("aside", "source")) = 11
  /\ Rank(Step("place", "source")) = 12
  /\ Rank(Step("attempt", None)) = 13 /\ Rank(Step("add", None)) = 14
  /\ Rank(Step("record", "skill")) = 15 /\ Rank(Step("aside", "skill")) = 16
  /\ Rank(Step("place", "skill")) = 17
  /\ Rank(Step("recordCurrent", None)) = 18 /\ Rank(Step("swapCurrent", None)) = 19
  /\ Rank(Step("record", "launcher")) = 20 /\ Rank(Step("aside", "launcher")) = 21
  /\ Rank(Step("place", "launcher")) = 22
  /\ Rank(Step("state", None)) = 23 /\ Rank(Step("commit", None)) = 24
  /\ Rank(Step("clean", "launcher")) = 25 /\ Rank(Step("clean", "skill")) = 26
  /\ Rank(Step("clean", "source")) = 27 /\ Rank(DropStep) = 28
  /\ Rank(BeginStep) = 29
  /\ Rank(Step("refresh", None)) = 30 /\ Rank(Step("reconcile", None)) = 31
BY DEF Rank, Step, DropStep, BeginStep

LEMMA Ops ==
  \A op \in {"recover", "unlinkCurrent", "linkCurrent", "stateBack", "putBack", "cacheBack",
             "settled", "record", "aside", "place", "attempt", "add", "recordCurrent",
             "swapCurrent", "state", "commit", "clean", "dropJournal", "begin", "refresh",
             "reconcile"} :
    \A x : Step(op, x).op = op /\ Step(op, x).arg = x /\ Step(op, x).op \notin MarketOps
BY DEF Step, MarketOps

OfMainWork(S) == IF run.root = Main THEN S ELSE {}

LEMMA CleanUpWork ==
  Program(CleanUpSurfaces \o <<DropStep>>, OfMainWork(Cleaning) \cup {DropStep})
<1> DEFINE x == Step("clean", "launcher")
           y == Step("clean", "skill")
           z == Step("clean", "source")
<1>1. Cleaning = {x, y, z}
  BY DEF Cleaning, Moved
<1>2. Rank(x) = 25 /\ Rank(y) = 26 /\ Rank(z) = 27 /\ Rank(DropStep) = 28
  BY Ranks
<1>3. x.op \notin MarketOps /\ y.op \notin MarketOps /\ z.op \notin MarketOps
  BY Ops
<1>4. CleanUpSurfaces = IF run.root = Main THEN <<x, y, z>> ELSE <<>>
  BY DEF CleanUpSurfaces, OfMain
<1> HIDE DEF x, y, z
<1>5. Program(<<DropStep>>, {DropStep})
  BY Ops, ProgramOne DEF DropStep
<1>6. Program(<<x, y, z>>, {x, y, z})
  <2>1. /\ <<x, y, z>> \in Seq({x, y, z}) /\ DOMAIN <<x, y, z>> = {1, 2, 3}
        /\ <<x, y, z>>[1] = x /\ <<x, y, z>>[2] = y /\ <<x, y, z>>[3] = z
    OBVIOUS
  <2>2. Work(<<x, y, z>>) = {x, y, z}
    BY <2>1, <1>3 DEF Work
  <2>3. Ordered(<<x, y, z>>)
    <3>1. \A i, j \in {1, 2, 3} : i < j => (i = 1 /\ j \in {2, 3}) \/ (i = 2 /\ j = 3)
      OBVIOUS
    <3> QED
      BY <3>1, <2>1, <1>2 DEF Ordered
  <2> QED
    BY <2>1, <2>2, <2>3, InSeq DEF Program
<1>7. CASE run.root = Main
  <2>1. Program(<<x, y, z>> \o <<DropStep>>, {x, y, z} \cup {DropStep})
    BY <1>2, <1>5, <1>6, ProgramConcat
  <2> QED
    BY <2>1, <1>1, <1>4, <1>7 DEF OfMainWork
<1>8. CASE run.root # Main
  <2>1. Program(<<>> \o <<DropStep>>, {DropStep})
    BY <1>5, ProgramEmpty, QuietConcat
  <2> QED
    BY <2>1, <1>4, <1>8 DEF OfMainWork
<1> QED
  BY <1>7, <1>8

LEMMA AppServerWork == Program(AppServer, OfMainWork(Closing))
<1>1. Program(<<Step("refresh", None), Step("reconcile", None)>>, Closing)
  BY Ops, Ranks, ProgramTwo DEF Closing
<1> QED
  BY <1>1, ProgramEmpty DEF AppServer, OfMain, OfMainWork

Forwarding ==
  {Step("record", s) : s \in Moved}
  \cup {Step(op, None) : op \in {"attempt", "add", "recordCurrent", "swapCurrent", "state"}}

LEMMA ForwardWork ==
  Program(Forward, OfMainWork(Forwarding \cup AfterMarker) \cup {CommitStep, DropStep})
<1> DEFINE e1 == Step("record", "source")
           e2 == Step("attempt", None)
           e3 == Step("add", None)
           e4 == Step("record", "skill")
           e5 == Step("recordCurrent", None)
           e6 == Step("swapCurrent", None)
           e7 == Step("record", "launcher")
           e8 == Step("state", None)
           E == {e1, e2, e3, e4, e5, e6, e7, e8}
           e == <<e1, e2, e3, e4, e5, e6, e7, e8>>
<1>1. Forwarding = E
  BY DEF Forwarding, Moved
<1>2. /\ Rank(e1) = 10 /\ Rank(e2) = 13 /\ Rank(e3) = 14 /\ Rank(e4) = 15
      /\ Rank(e5) = 18 /\ Rank(e6) = 19 /\ Rank(e7) = 20 /\ Rank(e8) = 23
  BY Ranks
<1>3. \A x \in E : x.op \notin MarketOps
  BY Ops
<1>4. Forward = (IF run.root = Main THEN e ELSE <<>>) \o <<CommitStep>> \o AfterCommit \o AppServer
  BY DEF Forward, OfMain, CommitStep
<1> HIDE DEF e1, e2, e3, e4, e5, e6, e7, e8
<1>5. Program(e, E)
  <2>1. e \in Seq(E)
    OBVIOUS
  <2>2. /\ DOMAIN e = {1, 2, 3, 4, 5, 6, 7, 8}
        /\ e[1] = e1 /\ e[2] = e2 /\ e[3] = e3 /\ e[4] = e4
        /\ e[5] = e5 /\ e[6] = e6 /\ e[7] = e7 /\ e[8] = e8
    OBVIOUS
  <2> HIDE DEF e
  <2>3. Work(e) = E
    BY <2>2, <1>3 DEF Work
  <2>4. Ordered(e)
    BY <2>2, <1>2 DEF Ordered
  <2> QED
    BY <2>1, <2>3, <2>4, InSeq DEF Program
<1>6. Program(IF run.root = Main THEN e ELSE <<>>, OfMainWork(E))
  BY <1>5, ProgramEmpty DEF OfMainWork
<1>7. Program(<<CommitStep>>, {CommitStep})
  BY Ops, ProgramOne DEF CommitStep
<1>8. Program(AfterCommit, OfMainWork(Cleaning) \cup {DropStep})
  <2>1. Program(<<Step("dropIntent", None)>>, {})
    BY QuietPieces DEF MarketOps
  <2>2. AfterCommit = <<Step("dropIntent", None)>> \o CleanUpSurfaces \o <<DropStep>>
    BY DEF AfterCommit, DropStep
  <2>3. IsSeq(CleanUpSurfaces) /\ IsSeq(<<DropStep>>) /\ IsSeq(<<Step("dropIntent", None)>>)
    <3>1. CleanUpSurfaces \in Seq(Cleaning)
      <4> DEFINE x == Step("clean", "launcher")
                 y == Step("clean", "skill")
                 z == Step("clean", "source")
      <4>1. x \in Cleaning /\ y \in Cleaning /\ z \in Cleaning
        BY DEF Cleaning, Moved
      <4>2. CleanUpSurfaces = IF run.root = Main THEN <<x, y, z>> ELSE <<>>
        BY DEF CleanUpSurfaces, OfMain
      <4> HIDE DEF x, y, z
      <4> QED
        BY <4>1, <4>2
    <3>2. <<DropStep>> \in Seq({DropStep})
      OBVIOUS
    <3> QED
      BY <2>1, <3>1, <3>2, InSeq DEF Program
  <2>4. AfterCommit = <<Step("dropIntent", None)>> \o (CleanUpSurfaces \o <<DropStep>>)
    <3> DEFINE a == <<Step("dropIntent", None)>>
               c == CleanUpSurfaces
               d == <<DropStep>>
               S == {a[i] : i \in DOMAIN a} \cup {c[i] : i \in DOMAIN c} \cup {d[i] : i \in DOMAIN d}
    <3>1. AfterCommit = a \o c \o d /\ IsSeq(a) /\ IsSeq(c) /\ IsSeq(d)
      BY <2>2, <2>3
    <3> HIDE DEF a, c, d
    <3>2. a \in Seq(S) /\ c \in Seq(S) /\ d \in Seq(S)
      BY <3>1, SeqMonotonic DEF IsSeq
    <3> QED
      BY <3>1, <3>2, ConcatAssociative DEF a, c, d
  <2> QED
    BY <2>1, <2>4, CleanUpWork, QuietConcat
<1>9. Rank(CommitStep) = 24
  BY Ranks DEF CommitStep
<1>10. \A x \in E : Rank(x) < 24
  BY <1>2
<1>11. \A x \in OfMainWork(Cleaning) \cup {DropStep} : 24 < Rank(x) /\ Rank(x) < 29
  BY Ranks DEF OfMainWork, Cleaning, Moved
<1>12. \A x \in OfMainWork(Closing) : 29 < Rank(x)
  BY Ranks DEF OfMainWork, Closing
<1> DEFINE f == IF run.root = Main THEN e ELSE <<>>
           A == OfMainWork(E)
           B == OfMainWork(Cleaning) \cup {DropStep}
           C == OfMainWork(Closing)
<1>13. \A x \in A : Rank(x) < 24 /\ Rank(x) \in Nat
  BY <1>10, <1>2 DEF OfMainWork
<1>14. \A x : Rank(x) \in Nat
  BY DEF Rank
<1>15. Program(f, A) /\ Program(AfterCommit, B) /\ Program(AppServer, C)
  BY <1>6, <1>8, AppServerWork
<1>16. \A x \in B : 24 < Rank(x) /\ Rank(x) < 29
  BY <1>11
<1>17. \A x \in C : 29 < Rank(x)
  BY <1>12
<1>18. Forward = f \o <<CommitStep>> \o AfterCommit \o AppServer
  BY <1>4
<1> HIDE DEF A, B, C, f
<1>19. Program(f \o <<CommitStep>>, A \cup {CommitStep})
  BY <1>15, <1>7, <1>9, <1>13, ProgramConcat
<1>20. Program(f \o <<CommitStep>> \o AfterCommit, A \cup {CommitStep} \cup B)
  <2>1. \A x \in A \cup {CommitStep}, y \in B : Rank(x) < Rank(y)
    BY <1>9, <1>13, <1>14, <1>16
  <2> QED
    BY <1>15, <1>19, <2>1, ProgramConcat
<1>21. Program(f \o <<CommitStep>> \o AfterCommit \o AppServer, A \cup {CommitStep} \cup B \cup C)
  <2>1. \A x \in A \cup {CommitStep} \cup B, y \in C : Rank(x) < Rank(y)
    BY <1>9, <1>13, <1>14, <1>16, <1>17
  <2> QED
    BY <1>15, <1>20, <2>1, ProgramConcat
<1>22. A \cup {CommitStep} \cup B \cup C =
       OfMainWork(Forwarding \cup AfterMarker) \cup {CommitStep, DropStep}
  BY <1>1 DEF A, B, C, OfMainWork, AfterMarker
<1> QED
  BY <1>18, <1>21, <1>22

RollbackWork(j) ==
  {Step("putBack", s) : s \in j.recorded}
  \cup (IF j.current = Unrecorded THEN {}
        ELSE {Step("unlinkCurrent", None), Step("linkCurrent", j.current)})
  \cup (IF "source" \in j.recorded THEN {Step("cacheBack", None)} ELSE {})
  \cup OfMainWork({Step("stateBack", j.state)}) \cup {Step("settled", None)}

LEMMA RollbackIsProgram ==
  ASSUME NEW j, j.recorded \subseteq Moved
  PROVE  Program(Rollback(j), RollbackWork(j))
<1> DEFINE B(s) == IF s \in j.recorded THEN {Step("putBack", s)} ELSE {}
           back(s) == IF s \in j.recorded THEN <<Step("putBack", s)>> ELSE <<>>
           C == IF j.current = Unrecorded THEN {}
                ELSE {Step("unlinkCurrent", None), Step("linkCurrent", j.current)}
           cur == IF j.current = Unrecorded THEN <<>>
                  ELSE <<Step("unlinkCurrent", None), Step("linkCurrent", j.current)>>
           D == IF "source" \in j.recorded THEN {Step("cacheBack", None)} ELSE {}
           cache == IF "source" \in j.recorded THEN <<Step("cacheBack", None)>> ELSE <<>>
           F == OfMainWork({Step("stateBack", j.state)})
           st == OfMain(<<Step("stateBack", j.state)>>)
           S == {Step("settled", None)}
           fin == <<Step("settled", None)>>
           b1 == back("launcher")
           b2 == back("skill")
           b3 == back("source")
           B1 == B("launcher")
           B2 == B("skill")
           B3 == B("source")
<1>1. \A s \in Moved : Program(back(s), B(s))
  BY Ops, ProgramOne, ProgramEmpty
<1>2. Program(cur, C)
  <2> DEFINE off == Step("unlinkCurrent", None)
             on == Step("linkCurrent", j.current)
  <2>1. off.op \notin MarketOps /\ on.op \notin MarketOps
    BY Ops
  <2>2. Rank(off) = 3 /\ Rank(on) = 4
    BY Ranks
  <2> HIDE DEF off, on
  <2>3. Program(<<off, on>>, {off, on})
    BY <2>1, <2>2, ProgramTwo
  <2> QED
    BY <2>3, ProgramEmpty DEF off, on
<1>3. Program(cache, D)
  BY Ops, ProgramOne, ProgramEmpty
<1>4. Program(st, F)
  BY Ops, ProgramOne, ProgramEmpty DEF OfMain, OfMainWork
<1>5. Program(fin, S)
  BY Ops, ProgramOne
<1>6. Rollback(j) = b1 \o cur \o b2 \o b3 \o cache \o st \o fin
  BY DEF Rollback
<1>7. RollbackWork(j) = B1 \cup C \cup B2 \cup B3 \cup D \cup F \cup S
  <2>1. {Step("putBack", s) : s \in j.recorded} = B1 \cup B2 \cup B3
    BY DEF Moved
  <2> QED
    BY <2>1 DEF RollbackWork
<1>8. /\ \A x \in B1 : Rank(x) = 2
      /\ \A x \in B2 : Rank(x) = 5
      /\ \A x \in B3 : Rank(x) = 6
  BY Ranks
<1>9. /\ \A x \in C : Rank(x) \in {3, 4}
      /\ \A x \in D : Rank(x) = 7
      /\ \A x \in F : Rank(x) = 8
      /\ \A x \in S : Rank(x) = 9
  BY Ranks DEF OfMainWork
<1>10. Program(b1, B1) /\ Program(b2, B2) /\ Program(b3, B3)
  BY <1>1 DEF Moved
<1> HIDE DEF B1, B2, B3, b1, b2, b3, C, cur, D, cache, F, st, S, fin
<1>11. Program(b1 \o cur, B1 \cup C)
  BY <1>2, <1>10, <1>8, <1>9, ProgramConcat
<1>12. Program(b1 \o cur \o b2, B1 \cup C \cup B2)
  <2>1. \A x \in B1 \cup C, y \in B2 : Rank(x) < Rank(y)
    BY <1>8, <1>9
  <2> QED
    BY <2>1, <1>11, <1>10, ProgramConcat
<1>13. Program(b1 \o cur \o b2 \o b3, B1 \cup C \cup B2 \cup B3)
  <2>1. \A x \in B1 \cup C \cup B2, y \in B3 : Rank(x) < Rank(y)
    BY <1>8, <1>9
  <2> QED
    BY <2>1, <1>12, <1>10, ProgramConcat
<1>14. Program(b1 \o cur \o b2 \o b3 \o cache, B1 \cup C \cup B2 \cup B3 \cup D)
  <2>1. \A x \in B1 \cup C \cup B2 \cup B3, y \in D : Rank(x) < Rank(y)
    BY <1>8, <1>9
  <2> QED
    BY <2>1, <1>13, <1>3, ProgramConcat
<1>15. Program(b1 \o cur \o b2 \o b3 \o cache \o st, B1 \cup C \cup B2 \cup B3 \cup D \cup F)
  <2>1. \A x \in B1 \cup C \cup B2 \cup B3 \cup D, y \in F : Rank(x) < Rank(y)
    BY <1>8, <1>9
  <2> QED
    BY <2>1, <1>14, <1>4, ProgramConcat
<1>16. Program(b1 \o cur \o b2 \o b3 \o cache \o st \o fin,
               B1 \cup C \cup B2 \cup B3 \cup D \cup F \cup S)
  <2>1. \A x \in B1 \cup C \cup B2 \cup B3 \cup D \cup F, y \in S : Rank(x) < Rank(y)
    BY <1>8, <1>9
  <2> QED
    BY <2>1, <1>15, <1>5, ProgramConcat
<1> QED
  BY <1>6, <1>7, <1>16

-----------------------------------------------------------------------------
(* What a step has to keep *)

ShownBy(j, d) == IF Active(j) THEN j.state ELSE d["state"]

Decided ==
  Shown' # Shown =>
    /\ At("commit")
    /\ journal[Main]' # None /\ journal[Main]'.status = "committed"
    /\ \A p \in Places : disk'[p] = Whole(Shown')[p]

\* What a step keeps, and what it may show.
Good == InstallShaped' /\ OthersMoveNothing' /\ Transaction' /\ Decided

\* The state before a step, the surfaces being of v or on the way back to it.
Pre(v) ==
  /\ InstallShaped /\ OthersMoveNothing
  /\ v \in Known /\ Rests(v, journal[Main], disk, backup) /\ Underway(v)

LEMMA ShownIs == Shown = ShownBy(journal[Main], disk) /\ Shown' = ShownBy(journal'[Main], disk')
BY DEF Shown, ShownBy, Active

LEMMA StepIs ==
  \A o, p, x, y : Step(o, x) = Step(p, y) <=> o = p /\ x = y
<1> SUFFICES ASSUME NEW o, NEW p, NEW x, NEW y, Step(o, x) = Step(p, y)
             PROVE  o = p /\ x = y
  OBVIOUS
<1>1. Step(o, x).op = o /\ Step(o, x).arg = x /\ Step(p, y).op = p /\ Step(p, y).arg = y
  BY DEF Step
<1> QED
  BY <1>1

\* The journals on disk after a step of root r.
JournalTo(r, j) ==
  /\ journal' \in [Roots -> Journals \cup {None}]
  /\ journal'[r] = j
  /\ \A q \in Roots \ {r} : journal'[q] = journal[q]
  /\ j # None => j.existed \subseteq j.recorded

LEMMA JournalWritten ==
  ASSUME InstallShaped, run # None, NEW j \in Journals \cup {None}, Journal(j),
         j # None => j.existed \subseteq j.recorded
  PROVE  JournalTo(run.root, j)
BY DEF InstallShaped, Journal, JournalTo

LEMMA JournalKept ==
  ASSUME InstallShaped, run # None, UNCHANGED journal
  PROVE  JournalTo(run.root, journal[run.root])
BY DEF InstallShaped, JournalTo

LEMMA MainMoves ==
  ASSUME NEW v0, Pre(v0), run # None, run.root = Main,
         NEW W, NEW stage, NEW incomplete, Goes(W, stage, incomplete),
         disk' \in [Places -> Held], backup' \in [Moved -> Held],
         NEW j, JournalTo(Main, j),
         NEW v \in Known, Rests(v, j, disk', backup'),
         run' # None => Mode(v, stage, run.release, incomplete, W, j, disk', backup'),
         \/ ShownBy(j, disk') = ShownBy(journal[Main], disk)
         \/ /\ At("commit") /\ j # None /\ j.status = "committed"
            /\ \A p \in Places : disk'[p] = Whole(disk'["state"])[p]
  PROVE  Good
<1>1. Main \in Roots
  BY InstallAssumption
<1>2. InstallShaped'
  BY DEF Pre, InstallShaped, JournalTo, Goes, Program
<1>3. OthersMoveNothing'
  BY DEF Pre, OthersMoveNothing, JournalTo, Goes
<1>4. Transaction'
  <2>1. journal'[Main] = j
    BY DEF JournalTo
  <2>2. Underway(v)'
    <3> SUFFICES ASSUME run' # None
                 PROVE  Mode(v, run'.stage, run'.release, run'.incomplete, Work(run'.todo),
                             journal'[Main], disk', backup')
      BY DEF Underway
    <3>1. /\ run'.stage = stage /\ run'.release = run.release
          /\ run'.incomplete = incomplete /\ Work(run'.todo) = W
      BY DEF Goes, Program
    <3> QED
      BY <2>1, <3>1
  <2> QED
    BY <2>1, <2>2 DEF Transaction
<1>5. Decided
  <2>1. journal'[Main] = j
    BY DEF JournalTo
  <2>2. CASE At("commit") /\ j # None /\ j.status = "committed"
             /\ \A p \in Places : disk'[p] = Whole(disk'["state"])[p]
    <3>1. Shown' = disk'["state"]
      BY <2>1, <2>2, ShownIs DEF ShownBy, Active
    <3> QED
      BY <2>1, <2>2, <3>1 DEF Decided
  <2> QED
    BY <2>1, <2>2, ShownIs DEF Decided
<1> QED
  BY <1>2, <1>3, <1>4, <1>5 DEF Good

LEMMA OthersMove ==
  ASSUME NEW v, Pre(v), run # None, run.root # Main,
         NEW W, NEW stage, NEW incomplete, Goes(W, stage, incomplete),
         UNCHANGED surfaces, NEW j, JournalTo(run.root, j),
         j # None => j.recorded = {} /\ j.current = Unrecorded,
         run' # None => OtherMode(stage, W, j)
  PROVE  Good
<1>1. Main \in Roots
  BY InstallAssumption
<1>2. InstallShaped'
  BY DEF Pre, InstallShaped, JournalTo, Goes, Program, surfaces
<1>3. OthersMoveNothing'
  <2>1. run' # None => run'.root = run.root /\ run'.stage = stage /\ Work(run'.todo) = W
    BY DEF Goes, Program
  <2>2. journal'[run.root] = j /\ \A q \in Roots \ {run.root} : journal'[q] = journal[q]
    BY DEF JournalTo
  <2> QED
    BY <2>1, <2>2 DEF Pre, OthersMoveNothing
<1>4. journal'[Main] = journal[Main] /\ disk' = disk /\ backup' = backup
  BY <1>1 DEF JournalTo, surfaces
<1>5. Transaction'
  <2>1. Underway(v)'
    BY DEF Underway, Goes
  <2> QED
    BY <1>4, <2>1 DEF Transaction, Pre
<1>6. Shown' = Shown
  BY <1>4 DEF Shown
<1> QED
  BY <1>2, <1>3, <1>5, <1>6 DEF Good, Decided

(* The step at hand, and what is left after it.                            *)
LEMMA Takes ==
  ASSUME InstallShaped, run # None, run.todo # <<>>, Head(run.todo).op \notin MarketOps,
         NEW W, W = Work(run.todo), NEW x, x = Head(run.todo)
  PROVE  /\ x \in W /\ Program(Tail(run.todo), W \ {x})
         /\ \A y \in W \ {x} : Rank(x) < Rank(y)
         /\ Proceed => GoesOn(W \ {x})
<1>1. Program(run.todo, W) /\ DOMAIN run = RunFields
  BY DEF InstallShaped
<1>2. /\ x \in W /\ Program(Tail(run.todo), W \ {x})
      /\ \A y \in W \ {x} : Rank(x) < Rank(y)
  BY <1>1, ProgramTail
<1>3. Proceed => GoesOn(W \ {x})
  BY <1>1, <1>2 DEF Proceed, GoesOn, Goes, RunFields
<1> QED
  BY <1>2, <1>3

LEMMA TakesWith ==
  ASSUME InstallShaped, run # None, run.todo # <<>>, Head(run.todo).op \notin MarketOps,
         NEW W, W = Work(run.todo), NEW x, x = Head(run.todo),
         NEW s, NEW S, Program(s, S), \A y \in S, z \in W \ {x} : Rank(y) < Rank(z),
         ProceedWith(s)
  PROVE  GoesOn(S \cup (W \ {x}))
<1>1. DOMAIN run = RunFields /\ Program(Tail(run.todo), W \ {x})
  BY Takes DEF InstallShaped
<1>2. Program(s \o Tail(run.todo), S \cup (W \ {x}))
  BY <1>1, ProgramConcat
<1> QED
  BY <1>1, <1>2 DEF ProceedWith, GoesOn, Goes, RunFields

LEMMA OpsOf ==
  /\ \A x \in Advance : x.op \in {"record", "aside", "place", "attempt", "add",
                                  "recordCurrent", "swapCurrent", "state"}
  /\ \A x \in Cleaning : x.op = "clean"
  /\ \A x \in Closing : x.op \in {"refresh", "reconcile"}
  /\ \A j : \A x \in Undo(j) : x.op \in {"putBack", "unlinkCurrent", "linkCurrent", "cacheBack",
                                         "stateBack", "settled"}
  /\ CommitStep.op = "commit" /\ DropStep.op = "dropJournal" /\ BeginStep.op = "begin"
  /\ Step("recover", None).op = "recover" /\ Step("add", None).op = "add"
BY Ops DEF Advance, Cleaning, Closing, Undo, CommitStep, DropStep, BeginStep

LEMMA RankIsNat == \A x : Rank(x) \in Nat
BY DEF Rank

(* What the installer is at tells how far it is.                           *)
LEMMA HeadMode ==
  ASSUME NEW v, NEW stage, NEW release, NEW incomplete, NEW W, NEW j, NEW d, NEW b,
         Mode(v, stage, release, incomplete, W, j, d, b),
         NEW x \in W, \A y \in W \ {x} : Rank(x) < Rank(y)
  PROVE  /\ x.op = "recover" => Opens(stage, W)
         /\ x.op \in {"putBack", "unlinkCurrent", "linkCurrent", "cacheBack", "stateBack",
                      "settled"} =>
              Undoes(stage, incomplete, W, j, d, b) /\ x \in Undo(j)
         /\ x.op \in {"record", "aside", "place", "attempt", "recordCurrent", "swapCurrent",
                      "state"} =>
              Advances(stage, release, W, j, d, b) /\ x \in Advance
         /\ x.op = "commit" => Advances(stage, release, W, j, d, b) /\ x = CommitStep
         /\ x.op = "add" => /\ x = Step("add", None)
                            /\ \/ Advances(stage, release, W, j, d, b)
                               \/ Ends(stage, W, j)
         /\ x.op \in {"clean", "dropJournal"} =>
              Clears(v, stage, W, j, d, b) /\ x \in Cleaning \cup {DropStep}
         /\ x.op \in {"begin", "refresh", "reconcile"} => Ends(stage, W, j)
<1>1. CASE Opens(stage, W)
  <2>1. x.op \in {"recover", "begin"}
    BY <1>1, OpsOf DEF Opens
  <2>2. x.op # "begin"
    <3> SUFFICES ASSUME x.op = "begin" PROVE FALSE
      OBVIOUS
    <3>1. x = BeginStep /\ Step("recover", None) \in W \ {x}
      BY <1>1, OpsOf, StepIs DEF Opens
    <3> QED
      BY <3>1, Ranks
  <2> QED
    BY <1>1, <2>1, <2>2
<1>2. CASE Advances(stage, release, W, j, d, b)
  <2>1. x \in Advance \cup {CommitStep} \cup Cleaning \cup {DropStep} \cup Closing
    BY <1>2 DEF Advances, AfterMarker
  <2>2. x \notin Cleaning \cup {DropStep} \cup Closing
    <3> SUFFICES ASSUME x \in Cleaning \cup {DropStep} \cup Closing PROVE FALSE
      OBVIOUS
    <3>1. CommitStep \in W \ {x}
      BY <1>2, OpsOf DEF Advances
    <3>2. Rank(x) > 24
      BY Ranks DEF Cleaning, Closing, Moved
    <3>3. Rank(x) < 24
      BY <3>1, Ranks DEF CommitStep
    <3> QED
      BY <3>2, <3>3, RankIsNat
  <2>3. x \in Advance /\ x.op = "add" => x = Step("add", None)
    BY Ops DEF Advance
  <2> QED
    BY <1>2, <2>1, <2>2, <2>3, OpsOf
<1>3. CASE Undoes(stage, incomplete, W, j, d, b)
  <2>1. x \in Undo(j) \/ x = BeginStep
    BY <1>3 DEF Undoes
  <2>2. x # BeginStep
    <3> SUFFICES ASSUME x = BeginStep PROVE FALSE
      OBVIOUS
    <3>1. Step("settled", None) \in W \ {x}
      BY <1>3, StepIs DEF Undoes, BeginStep
    <3> QED
      BY <3>1, Ranks
  <2> QED
    BY <1>3, <2>1, <2>2, OpsOf
<1>4. CASE Clears(v, stage, W, j, d, b)
  <2>1. x \in Cleaning \cup {DropStep} \cup Closing \cup {BeginStep}
    BY <1>4 DEF Clears, AfterMarker
  <2>2. x \notin Closing \cup {BeginStep}
    <3> SUFFICES ASSUME x \in Closing \cup {BeginStep} PROVE FALSE
      OBVIOUS
    <3>1. DropStep \in W \ {x}
      BY <1>4, OpsOf DEF Clears
    <3>2. Rank(x) > 28
      BY Ranks DEF Closing
    <3>3. Rank(x) < 28
      BY <3>1, Ranks
    <3> QED
      BY <3>2, <3>3, RankIsNat
  <2> QED
    BY <1>4, <2>1, <2>2, OpsOf
<1>5. CASE Ends(stage, W, j)
  <2>1. x \in {BeginStep, Step("add", None)} \cup Closing
    BY <1>5 DEF Ends
  <2> QED
    BY <1>5, <2>1, OpsOf
<1> QED
  BY <1>1, <1>2, <1>3, <1>4, <1>5 DEF Mode

LEMMA ReachedKeeps ==
  ASSUME NEW s, NEW release, NEW W, NEW j, NEW d, NEW b, Reached(s, release, W, j, d, b),
         NEW W2, NEW j2, NEW d2, NEW b2, d2[s] = d[s], b2[s] = b[s],
         \A op \in {"record", "aside", "place"} : Step(op, s) \in W2 <=> Step(op, s) \in W,
         s \in j2.recorded <=> s \in j.recorded, s \in j2.existed <=> s \in j.existed
  PROVE  Reached(s, release, W2, j2, d2, b2)
BY DEF Reached

LEMMA RestorableKeeps ==
  ASSUME NEW s, NEW v, NEW j, NEW d, NEW b, Restorable(s, v, j, d, b),
         NEW j2, NEW d2, NEW b2, d2[s] = d[s], b2[s] = b[s],
         s \in j2.recorded <=> s \in j.recorded, s \in j2.existed <=> s \in j.existed
  PROVE  Restorable(s, v, j2, d2, b2)
BY DEF Restorable

LEMMA WholeIs ==
  ASSUME NEW r \in Releases
  PROVE  /\ r \in Known /\ Whole(r)["launcher"] = "link"
         /\ \A p \in Places \ {"launcher"} : Whole(r)[p] = r
         /\ \A v \in Known : Whole(v) \in [Places -> Held]
BY InstallAssumption DEF Whole, Known, Held, Places, Moved

-----------------------------------------------------------------------------
(* The steps forward of the installer of Main *)

\* The installer of Main is at the step x.
MainAt(v, x) ==
  /\ Pre(v) /\ run # None /\ run.root = Main
  /\ run.todo # <<>> /\ x = Head(run.todo) /\ x.op \notin MarketOps

LEMMA MainAtFacts ==
  ASSUME NEW v, NEW x, MainAt(v, x),
         NEW W, W = Work(run.todo), NEW j, j = journal[Main]
  PROVE  /\ v \in Known /\ Main \in Roots /\ run.release \in Releases
         /\ disk \in [Places -> Held] /\ backup \in [Moved -> Held]
         /\ j \in Journals \cup {None} /\ (j # None => j.existed \subseteq j.recorded)
         /\ Rests(v, j, disk, backup)
         /\ Mode(v, run.stage, run.release, run.incomplete, W, j, disk, backup)
         /\ x \in W /\ \A y \in W \ {x} : Rank(x) < Rank(y)
         /\ Program(Tail(run.todo), W \ {x})
         /\ Proceed => GoesOn(W \ {x})
<1>1. Main \in Roots
  BY InstallAssumption
<1>2. /\ x \in W /\ \A y \in W \ {x} : Rank(x) < Rank(y)
      /\ Program(Tail(run.todo), W \ {x})
      /\ Proceed => GoesOn(W \ {x})
  BY Takes DEF MainAt, Pre
<1> QED
  BY <1>1, <1>2 DEF MainAt, Pre, InstallShaped, Underway

LEMMA MainMode ==
  ASSUME NEW v, NEW x, MainAt(v, x), NEW W, W = Work(run.todo), NEW j, j = journal[Main]
  PROVE  /\ x.op = "recover" => Opens(run.stage, W)
         /\ x.op \in {"putBack", "unlinkCurrent", "linkCurrent", "cacheBack", "stateBack",
                      "settled"} =>
              Undoes(run.stage, run.incomplete, W, j, disk, backup) /\ x \in Undo(j)
         /\ x.op \in {"record", "aside", "place", "attempt", "recordCurrent", "swapCurrent",
                      "state"} =>
              Advances(run.stage, run.release, W, j, disk, backup) /\ x \in Advance
         /\ x.op = "commit" =>
              Advances(run.stage, run.release, W, j, disk, backup) /\ x = CommitStep
         /\ x.op = "add" => /\ x = Step("add", None)
                            /\ \/ Advances(run.stage, run.release, W, j, disk, backup)
                               \/ Ends(run.stage, W, j)
         /\ x.op \in {"clean", "dropJournal"} =>
              Clears(v, run.stage, W, j, disk, backup) /\ x \in Cleaning \cup {DropStep}
         /\ x.op \in {"begin", "refresh", "reconcile"} => Ends(run.stage, W, j)
<1>1. /\ Mode(v, run.stage, run.release, run.incomplete, W, j, disk, backup)
      /\ x \in W /\ \A y \in W \ {x} : Rank(x) < Rank(y)
  BY MainAtFacts
<1> QED
  BY <1>1, HeadMode

\* The stage active, at the step x with the work W and the journal j.
Advancing(v, x, W, j) ==
  /\ MainAt(v, x) /\ W = Work(run.todo) /\ j = journal[Main]
  /\ Advances(run.stage, run.release, W, j, disk, backup)
  /\ j \in Journals /\ Undoable(v, j, disk, backup) /\ x \in Advance

LEMMA AdvancingIs ==
  ASSUME NEW v, NEW x, MainAt(v, x), NEW W, W = Work(run.todo), NEW j, j = journal[Main],
         \/ x.op \in {"record", "aside", "place", "attempt", "recordCurrent", "swapCurrent",
                      "state"}
         \/ x.op = "add" /\ Advances(run.stage, run.release, W, j, disk, backup)
  PROVE  Advancing(v, x, W, j)
<1>1. Advances(run.stage, run.release, W, j, disk, backup)
  BY MainMode
<1>2. x \in Advance
  BY MainMode DEF Advance
<1>3. Active(j)
  BY <1>1 DEF Advances
<1>4. Rests(v, j, disk, backup) /\ j \in Journals \cup {None}
  BY MainAtFacts
<1> QED
  BY <1>1, <1>2, <1>3, <1>4 DEF Advancing, Rests, Active

(* The installer goes on to W2.                                            *)
LEMMA AdvanceKeeps ==
  ASSUME NEW v, NEW x, NEW W, NEW j, Advancing(v, x, W, j),
         NEW W2, GoesOn(W2), \A y \in AfterMarker \cup {CommitStep} : y \in W => y \in W2,
         W2 \subseteq W \cup Advance,
         NEW k \in Journals, JournalTo(Main, k), k.status = "active", k.state = j.state,
         disk' \in [Places -> Held], backup' \in [Moved -> Held],
         Undoable(v, k, disk', backup'),
         \A s \in Moved : Reached(s, run.release, W2, k, disk', backup'),
         Written(run.release, W2, k, disk')
  PROVE  Good
<1>1. k # None
  BY InstallAssumption
<1>2. Advances(run.stage, run.release, W2, k, disk', backup')
  BY <1>1 DEF Advancing, Advances, Active
<1>3. Rests(v, k, disk', backup')
  BY <1>1 DEF Rests, Active
<1>4. ShownBy(k, disk') = ShownBy(j, disk)
  BY <1>1 DEF ShownBy, Active, Advancing, Advances
<1> QED
  BY <1>2, <1>3, <1>4, MainMoves DEF Advancing, MainAt, Pre, Mode, GoesOn

LEMMA AdvancePasses ==
  ASSUME NEW v, NEW x, NEW W, NEW j, Advancing(v, x, W, j), Proceed,
         NEW k \in Journals, JournalTo(Main, k), k.status = j.status, k.state = j.state,
         disk' \in [Places -> Held], backup' \in [Moved -> Held],
         Undoable(v, k, disk', backup'),
         \A s \in Moved : Reached(s, run.release, W \ {x}, k, disk', backup'),
         Written(run.release, W \ {x}, k, disk')
  PROVE  Good
<1> DEFINE W2 == W \ {x}
<1>1. GoesOn(W2)
  BY MainAtFacts DEF Advancing
<1>2. x \notin AfterMarker \cup {CommitStep}
  BY OpsOf DEF Advancing, AfterMarker
<1>3. \A y \in AfterMarker \cup {CommitStep} : y \in W => y \in W2
  BY <1>2
<1>4. W2 \subseteq W \cup Advance
  OBVIOUS
<1>5. k.status = "active"
  BY DEF Advancing, Advances, Active
<1>6. /\ \A s \in Moved : Reached(s, run.release, W2, k, disk', backup')
      /\ Written(run.release, W2, k, disk')
  OBVIOUS
<1> HIDE DEF W2
<1> QED
  BY <1>1, <1>3, <1>4, <1>5, <1>6, AdvanceKeeps

LEMMA JournalOfMain ==
  ASSUME NEW v, NEW x, MainAt(v, x),
         NEW k \in Journals \cup {None}, k # None => k.existed \subseteq k.recorded,
         Journal(k) \/ (UNCHANGED journal /\ k = journal[Main])
  PROVE  JournalTo(Main, k)
BY JournalWritten, JournalKept DEF MainAt, Pre

(* A step that moves no surface.                                           *)
LEMMA AdvanceElsewhere ==
  ASSUME NEW v, NEW x, NEW W, NEW j, Advancing(v, x, W, j), Proceed,
         NEW op \in {"attempt", "add", "recordCurrent", "swapCurrent", "state"},
         x = Step(op, None),
         NEW k \in Journals, Journal(k) \/ (UNCHANGED journal /\ k = j),
         k.recorded = j.recorded, k.existed = j.existed, k.status = j.status,
         k.state = j.state,
         disk' \in [Places -> Held], \A s \in Moved : disk'[s] = disk[s], backup' = backup,
         IF k.current = Unrecorded THEN disk'["current"] = Whole(v)["current"]
         ELSE k.current = Whole(v)["current"],
         Written(run.release, W \ {x}, k, disk')
  PROVE  Good
<1> DEFINE W2 == W \ {x}
<1>1. MainAt(v, x) /\ W = Work(run.todo) /\ j = journal[Main] /\ j \in Journals
  BY DEF Advancing
<1>2. JournalTo(Main, k)
  <2>1. k.existed \subseteq k.recorded
    BY <1>1, MainAtFacts, InstallAssumption
  <2> QED
    BY <2>1, <1>1, JournalOfMain
<1>3. backup' \in [Moved -> Held]
  BY <1>1, MainAtFacts
<1>4. \A s \in Moved : \A o \in {"record", "aside", "place"} : Step(o, s) \in W2 <=> Step(o, s) \in W
  BY StepIs
<1>5. \A s \in Moved : Reached(s, run.release, W2, k, disk', backup')
  <2> SUFFICES ASSUME NEW s \in Moved PROVE Reached(s, run.release, W2, k, disk', backup')
    OBVIOUS
  <2>1. Reached(s, run.release, W, j, disk, backup)
    BY DEF Advancing, Advances
  <2> HIDE DEF W2
  <2> QED
    BY <2>1, <1>4, ReachedKeeps
<1>6. Undoable(v, k, disk', backup')
  BY RestorableKeeps DEF Undoable, Advancing
<1> QED
  BY <1>1, <1>2, <1>3, <1>5, <1>6, AdvancePasses

LEMMA PutKeepsType ==
  ASSUME NEW p \in Places, NEW c \in Held, disk \in [Places -> Held], Put(p, c)
  PROVE  /\ disk' \in [Places -> Held] /\ backup' = backup /\ disk'[p] = c
         /\ \A q \in Places \ {p} : disk'[q] = disk[q]
BY DEF Put

LEMMA PlacesAre ==
  /\ Moved \subseteq Places /\ {"cache", "current", "state"} \subseteq Places
  /\ {"cache", "current", "state"} \cap Moved = {}
  /\ {"source", "skill", "launcher"} = Moved
BY DEF Places, Moved

LEMMA MainAttempts ==
  ASSUME NEW v, NEW x, MainAt(v, x), Attempt PROVE Good
<1> DEFINE W == Work(run.todo)
           j == journal[Main]
           k == [j EXCEPT !.attempted = TRUE]
<1>1. x.op = "attempt" /\ Proceed /\ UNCHANGED surfaces /\ Journal(k)
  BY DEF MainAt, Attempt, At, Mine
<1>2. Advancing(v, x, W, j)
  BY <1>1, AdvancingIs
<1>3. x = Step("attempt", None)
  BY <1>1, <1>2, Ops DEF Advancing, Advance
<1>4. k \in Journals
  BY <1>2 DEF Advancing, Journals
<1>5. /\ k.recorded = j.recorded /\ k.existed = j.existed /\ k.current = j.current
      /\ k.status = j.status /\ k.state = j.state
  BY <1>2 DEF Advancing, Journals
<1> HIDE DEF k
<1>6. /\ disk' = disk /\ backup' = backup /\ disk' \in [Places -> Held]
  BY <1>1, MainAtFacts DEF surfaces
<1>7. Written(run.release, W \ {x}, k, disk')
  BY <1>2, <1>3, <1>5, <1>6, StepIs DEF Written, Advancing, Advances
<1> QED
  BY <1>1, <1>2, <1>3, <1>4, <1>5, <1>6, <1>7, AdvanceElsewhere DEF Advancing, Undoable

LEMMA MainRecordsCurrent ==
  ASSUME NEW v, NEW x, MainAt(v, x), RecordCurrent PROVE Good
<1> DEFINE W == Work(run.todo)
           j == journal[Main]
           k == [j EXCEPT !.current = disk["current"]]
<1>1. x.op = "recordCurrent" /\ Proceed /\ UNCHANGED surfaces /\ Journal(k)
  BY DEF MainAt, RecordCurrent, At, Mine
<1>2. Advancing(v, x, W, j)
  BY <1>1, AdvancingIs
<1>3. x = Step("recordCurrent", None)
  BY <1>1, <1>2, Ops DEF Advancing, Advance
<1>4. disk["current"] \in Held /\ disk["current"] # Unrecorded
  <2>1. disk["current"] \in Held
    BY MainAtFacts, PlacesAre
  <2>2. Unrecorded \notin Held
    BY InstallAssumption DEF Held, Known, Unrecorded
  <2> QED
    BY <2>1, <2>2
<1>5. k \in Journals
  BY <1>2, <1>4 DEF Advancing, Journals
<1>6. /\ k.recorded = j.recorded /\ k.existed = j.existed /\ k.current = disk["current"]
      /\ k.status = j.status /\ k.state = j.state
  BY <1>2 DEF Advancing, Journals
<1> HIDE DEF k
<1>7. /\ disk' = disk /\ backup' = backup /\ disk' \in [Places -> Held]
  BY <1>1, MainAtFacts DEF surfaces
<1>8. x \in W
  BY MainAtFacts
<1>9. Written(run.release, W \ {x}, k, disk')
  BY <1>2, <1>3, <1>4, <1>6, <1>7, StepIs DEF Written, Advancing, Advances
<1>10. k.current = Whole(v)["current"]
  BY <1>2, <1>3, <1>6, <1>8 DEF Advancing, Advances, Written, Undoable
<1> QED
  BY <1>1, <1>2, <1>3, <1>4, <1>5, <1>6, <1>7, <1>9, <1>10, AdvanceElsewhere

LEMMA MainSwaps ==
  ASSUME NEW v, NEW x, MainAt(v, x), SwapCurrent PROVE Good
<1> DEFINE W == Work(run.todo)
           j == journal[Main]
<1>1. x.op = "swapCurrent" /\ Proceed /\ Put("current", run.release) /\ UNCHANGED journal
  BY DEF MainAt, SwapCurrent, At
<1>2. Advancing(v, x, W, j)
  BY <1>1, AdvancingIs
<1>3. x = Step("swapCurrent", None)
  BY <1>1, <1>2, Ops DEF Advancing, Advance
<1>4. Step("recordCurrent", None) \notin W
  <2>1. \A y \in W \ {x} : Rank(x) < Rank(y)
    BY MainAtFacts
  <2> QED
    BY <2>1, <1>3, Ranks, StepIs
<1>5. /\ disk' \in [Places -> Held] /\ backup' = backup /\ disk'["current"] = run.release
      /\ \A q \in Places \ {"current"} : disk'[q] = disk[q]
  <2>1. run.release \in Held
    BY MainAtFacts DEF Held, Known
  <2> QED
    BY <2>1, <1>1, MainAtFacts, PlacesAre, PutKeepsType
<1>6. j.current # Unrecorded /\ j.current = Whole(v)["current"] /\ j \in Journals
  <2>1. x \in W
    BY MainAtFacts
  <2> QED
    BY <2>1, <1>2, <1>3, <1>4 DEF Advancing, Advances, Written, Undoable
<1>7. Written(run.release, W \ {x}, j, disk')
  BY <1>2, <1>3, <1>4, <1>5, StepIs, PlacesAre DEF Written, Advancing, Advances
<1>8. \A s \in Moved : disk'[s] = disk[s]
  BY <1>5, PlacesAre
<1> QED
  BY <1>1, <1>2, <1>3, <1>5, <1>6, <1>7, <1>8, AdvanceElsewhere

LEMMA MainWritesState ==
  ASSUME NEW v, NEW x, MainAt(v, x), WriteState PROVE Good
<1> DEFINE W == Work(run.todo)
           j == journal[Main]
<1>1. x.op = "state" /\ Proceed /\ Put("state", run.release) /\ UNCHANGED journal
  BY DEF MainAt, WriteState, At
<1>2. Advancing(v, x, W, j)
  BY <1>1, AdvancingIs
<1>3. x = Step("state", None)
  BY <1>1, <1>2, Ops DEF Advancing, Advance
<1>4. /\ disk' \in [Places -> Held] /\ backup' = backup /\ disk'["state"] = run.release
      /\ \A q \in Places \ {"state"} : disk'[q] = disk[q]
  <2>1. run.release \in Held
    BY MainAtFacts DEF Held, Known
  <2> QED
    BY <2>1, <1>1, MainAtFacts, PlacesAre, PutKeepsType
<1>5. Written(run.release, W \ {x}, j, disk')
  BY <1>2, <1>3, <1>4, StepIs, PlacesAre DEF Written, Advancing, Advances
<1>6. \A s \in Moved \cup {"current"} : disk'[s] = disk[s]
  BY <1>4, PlacesAre
<1> QED
  BY <1>1, <1>2, <1>3, <1>4, <1>5, <1>6, AdvanceElsewhere DEF Advancing, Undoable

LEMMA MainAdds ==
  ASSUME NEW v, NEW x, MainAt(v, x), Add PROVE Good
<1> DEFINE W == Work(run.todo)
           j == journal[Main]
<1>1. x.op = "add" /\ Proceed /\ Put("cache", disk["source"]) /\ UNCHANGED journal
  BY DEF MainAt, Add, At
<1>2. x = Step("add", None)
  BY <1>1, MainMode
<1>3. /\ disk' \in [Places -> Held] /\ backup' = backup /\ disk'["cache"] = disk["source"]
      /\ \A q \in Places \ {"cache"} : disk'[q] = disk[q]
  <2>1. disk["source"] \in Held
    BY MainAtFacts, PlacesAre
  <2> QED
    BY <2>1, <1>1, MainAtFacts, PlacesAre, PutKeepsType
<1>4. \A s \in Moved \cup {"current", "state"} : disk'[s] = disk[s]
  BY <1>3, PlacesAre
<1>5. CASE Advances(run.stage, run.release, W, j, disk, backup)
  <2>1. Advancing(v, x, W, j)
    BY <1>1, <1>5, AdvancingIs
  <2>2. disk["source"] = run.release
    <3>1. \A y \in W \ {x} : Rank(x) < Rank(y)
      BY MainAtFacts
    <3>2. Step("record", "source") \notin W /\ Step("place", "source") \notin W
      BY <3>1, <1>2, Ranks, StepIs
    <3>3. disk["source"] = Whole(run.release)["source"]
      BY <3>2, <1>5, PlacesAre DEF Advances, Reached
    <3> QED
      BY <3>3, MainAtFacts, WholeIs, PlacesAre
  <2>3. Written(run.release, W \ {x}, j, disk')
    BY <2>1, <2>2, <1>2, <1>3, <1>4, StepIs DEF Written, Advancing, Advances
  <2> QED
    BY <2>1, <2>3, <1>1, <1>2, <1>3, <1>4, AdvanceElsewhere DEF Advancing, Undoable
<1>6. CASE Ends(run.stage, W, j)
  <2>1. Ends(run.stage, W \ {x}, j)
    BY <1>6 DEF Ends
  <2>2. GoesOn(W \ {x})
    BY <1>1, MainAtFacts
  <2>3. JournalTo(Main, j)
    BY <1>1, MainAtFacts, JournalOfMain
  <2>4. Rests(v, j, disk', backup')
    <3>1. Rests(v, j, disk, backup)
      BY MainAtFacts
    <3> QED
      BY <3>1, <1>3, <1>4, RestorableKeeps DEF Rests, Undoable, Stands, Clear
  <2>5. ShownBy(j, disk') = ShownBy(j, disk)
    BY <1>4 DEF ShownBy
  <2> QED
    BY <2>1, <2>2, <2>3, <2>4, <2>5, <1>3, MainAtFacts, MainMoves DEF MainAt, Pre, Mode, GoesOn
<1> QED
  BY <1>1, <1>5, <1>6, MainMode

LEMMA OfSurface ==
  ASSUME NEW x \in Advance, NEW op \in {"record", "aside", "place"}, x.op = op
  PROVE  \E s \in Moved : x = Step(op, s) /\ x.arg = s
BY Ops DEF Advance

LEMMA MainRecords ==
  ASSUME NEW v, NEW x, MainAt(v, x), Record PROVE Good
<1> DEFINE W == Work(run.todo)
           j == journal[Main]
<1>1. x.op = "record" /\ UNCHANGED surfaces
  BY DEF MainAt, Record, At
<1>2. Advancing(v, x, W, j)
  BY <1>1, AdvancingIs
<1>3. PICK s \in Moved : x = Step("record", s) /\ x.arg = s
  BY <1>1, <1>2, OfSurface DEF Advancing
<1>4. Arg = s
  BY <1>3 DEF Arg, MainAt
<1>5. /\ disk' = disk /\ backup' = backup
      /\ disk' \in [Places -> Held] /\ backup' \in [Moved -> Held]
  BY <1>1, MainAtFacts DEF surfaces
<1>6. x \in W /\ \A y \in W \ {x} : Rank(x) < Rank(y)
  BY MainAtFacts
<1>7. /\ s \notin j.recorded /\ Step("aside", s) \notin W /\ Step("place", s) \notin W
      /\ disk[s] = Whole(v)[s] /\ backup[s] = None
  <2>1. Reached(s, run.release, W, j, disk, backup) /\ Restorable(s, v, j, disk, backup)
    BY <1>2 DEF Advancing, Advances, Undoable
  <2> QED
    BY <2>1, <1>3, <1>6 DEF Reached, Restorable
<1>8. \A t \in Moved \ {s} : \A o \in {"record", "aside", "place"} : Step(o, t) # x
  BY <1>3, StepIs
<1>9. CASE s = "launcher" /\ disk["launcher"] = "link"
  <2>1. Proceed /\ UNCHANGED journal
    BY <1>4, <1>9 DEF Record
  <2>2. JournalTo(Main, j)
    BY <2>1, MainAtFacts, JournalOfMain
  <2>3. Reached(s, run.release, W \ {x}, j, disk', backup')
    <3>1. disk'[s] = Whole(run.release)[s]
      BY <1>5, <1>9, MainAtFacts, WholeIs
    <3> QED
      BY <3>1, <1>3, <1>7 DEF Reached
  <2>4. \A t \in Moved : Reached(t, run.release, W \ {x}, j, disk', backup')
    <3> SUFFICES ASSUME NEW t \in Moved \ {s}
                 PROVE  Reached(t, run.release, W \ {x}, j, disk', backup')
      BY <2>3
    <3>1. Reached(t, run.release, W, j, disk, backup)
      BY <1>2 DEF Advancing, Advances
    <3> QED
      BY <3>1, <1>5, <1>8, ReachedKeeps
  <2>5. Written(run.release, W \ {x}, j, disk')
    BY <1>2, <1>3, <1>5, StepIs DEF Written, Advancing, Advances
  <2>6. Undoable(v, j, disk', backup') /\ j \in Journals
    BY <1>2, <1>5 DEF Advancing
  <2> QED
    BY <2>1, <2>2, <2>4, <2>5, <2>6, <1>2, <1>5, AdvancePasses
<1>10. CASE ~ (s = "launcher" /\ disk["launcher"] = "link")
  <2> DEFINE k == [j EXCEPT !.recorded = @ \cup {s},
                            !.existed = IF disk[s] = None THEN @ ELSE @ \cup {s}]
             a == Step("aside", s)
             p == Step("place", s)
             W2 == {a, p} \cup (W \ {x})
  <2>1. Journal(k) /\ ProceedWith(Move(s))
    <3>1. run.root = Main
      BY DEF MainAt
    <3> HIDE DEF a, p, W2
    <3> QED
      BY <3>1, <1>4, <1>10 DEF Record, Mine
  <2>2. /\ k \in Journals /\ k.status = j.status /\ k.state = j.state /\ k.current = j.current
        /\ k.recorded = j.recorded \cup {s}
        /\ k.existed = IF disk[s] = None THEN j.existed ELSE j.existed \cup {s}
    BY <1>2 DEF Advancing, Journals
  <2>3. j.existed \subseteq j.recorded
    BY <1>2, MainAtFacts, InstallAssumption DEF Advancing
  <2> HIDE DEF k
  <2>4. JournalTo(Main, k)
    <3>1. k.existed \subseteq k.recorded
      BY <2>2, <2>3
    <3> QED
      BY <3>1, <2>1, <2>2, JournalOfMain
  <2>5. GoesOn(W2)
    <3>1. Program(Move(s), {a, p})
      <4>1. a.op \notin MarketOps /\ p.op \notin MarketOps
        BY Ops
      <4>2. Rank(a) < Rank(p)
        BY Ranks DEF Moved
      <4> HIDE DEF a, p
      <4> QED
        BY <4>1, <4>2, ProgramTwo DEF Move, a, p
    <3>2. \A y \in {a, p}, z \in W \ {x} : Rank(y) < Rank(z)
      <4> SUFFICES ASSUME NEW z \in W \ {x} PROVE Rank(a) < Rank(z) /\ Rank(p) < Rank(z)
        OBVIOUS
      <4>1. z # a /\ z # p /\ z # x /\ Rank(x) < Rank(z)
        BY <1>6, <1>7
      <4>2. z \in Advance \cup {CommitStep} \cup AfterMarker
        BY <1>2 DEF Advancing, Advances
      <4>3. CASE z \in {CommitStep} \cup AfterMarker
        BY <4>3, Ranks DEF AfterMarker, Cleaning, Closing, CommitStep, Moved
      <4>4. CASE z \in Advance
        BY <4>1, <4>4, <1>3, Ranks DEF Advance, Moved
      <4> QED
        BY <4>2, <4>3, <4>4
    <3> QED
      BY <2>1, <3>1, <3>2, TakesWith DEF MainAt, Pre
  <2>6. a \in Advance /\ p \in Advance
    BY DEF Advance
  <2>7. Reached(s, run.release, W2, k, disk', backup')
    <3>1. Step("record", s) \notin W2 /\ a \in W2 /\ p \in W2
      BY <1>3, StepIs
    <3>2. s \in k.recorded /\ (s \in k.existed <=> disk[s] # None)
      BY <2>2, <2>3, <1>7
    <3> QED
      BY <3>1, <3>2, <1>5, <1>7 DEF Reached
  <2>8. \A t \in Moved : Reached(t, run.release, W2, k, disk', backup')
    <3> SUFFICES ASSUME NEW t \in Moved \ {s} PROVE Reached(t, run.release, W2, k, disk', backup')
      BY <2>7
    <3>1. Reached(t, run.release, W, j, disk, backup)
      BY <1>2 DEF Advancing, Advances
    <3>2. \A o \in {"record", "aside", "place"} : Step(o, t) \in W2 <=> Step(o, t) \in W
      BY <1>8, StepIs
    <3>3. /\ t \in k.recorded <=> t \in j.recorded
          /\ t \in k.existed <=> t \in j.existed
      BY <2>2
    <3> HIDE DEF W2
    <3> QED
      BY <3>1, <3>2, <3>3, <1>5, ReachedKeeps
  <2>9. Written(run.release, W2, k, disk')
    <3>1. \A o \in {"recordCurrent", "swapCurrent", "add", "state"} :
            Step(o, None) \in W2 <=> Step(o, None) \in W
      BY <1>3, StepIs
    <3> HIDE DEF W2
    <3> QED
      BY <1>2, <1>5, <2>2, <3>1 DEF Written, Advancing, Advances
  <2>10. Undoable(v, k, disk', backup')
    <3>1. Restorable(s, v, k, disk', backup')
      BY <1>5, <1>7, <2>2, <2>3 DEF Restorable
    <3>2. \A t \in Moved \ {s} : Restorable(t, v, k, disk', backup')
      <4> SUFFICES ASSUME NEW t \in Moved \ {s} PROVE Restorable(t, v, k, disk', backup')
        OBVIOUS
      <4>1. Restorable(t, v, j, disk, backup)
        BY <1>2 DEF Advancing, Undoable
      <4> QED
        BY <4>1, <1>5, <2>2, RestorableKeeps
    <3> QED
      BY <3>1, <3>2, <1>2, <1>5, <2>2 DEF Undoable, Advancing
  <2>11. /\ \A y \in AfterMarker \cup {CommitStep} : y \in W => y \in W2
         /\ W2 \subseteq W \cup Advance
    <3>1. x \notin AfterMarker \cup {CommitStep}
      BY <1>1, OpsOf DEF AfterMarker
    <3> QED
      BY <3>1, <2>6
  <2>12. k.status = "active"
    BY <1>2, <2>2 DEF Advancing, Advances, Active
  <2> HIDE DEF W2
  <2> QED
    BY <1>2, <1>5, <2>2, <2>4, <2>5, <2>8, <2>9, <2>10, <2>11, <2>12, AdvanceKeeps
<1> QED
  BY <1>9, <1>10

(* Moving the surface s.                                                   *)
LEMMA AdvanceMoves ==
  ASSUME NEW v, NEW x, NEW W, NEW j, Advancing(v, x, W, j), Proceed, UNCHANGED journal,
         NEW s \in Moved, NEW op \in {"aside", "place"}, x = Step(op, s),
         disk' \in [Places -> Held], backup' \in [Moved -> Held],
         \A q \in Places \ {s} : disk'[q] = disk[q], \A t \in Moved \ {s} : backup'[t] = backup[t],
         Reached(s, run.release, W \ {x}, j, disk', backup'),
         Restorable(s, v, j, disk', backup')
  PROVE  Good
<1> DEFINE W2 == W \ {x}
<1>1. JournalTo(Main, j) /\ j \in Journals
  BY MainAtFacts, JournalOfMain DEF Advancing
<1>2. \A t \in Moved : disk'[t] = disk[t] \/ t = s
  BY PlacesAre
<1>3. \A t \in Moved : Reached(t, run.release, W2, j, disk', backup')
  <2> SUFFICES ASSUME NEW t \in Moved \ {s} PROVE Reached(t, run.release, W2, j, disk', backup')
    OBVIOUS
  <2>1. Reached(t, run.release, W, j, disk, backup)
    BY DEF Advancing, Advances
  <2>2. \A o \in {"record", "aside", "place"} : Step(o, t) \in W2 <=> Step(o, t) \in W
    BY StepIs
  <2> HIDE DEF W2
  <2> QED
    BY <2>1, <2>2, <1>2, ReachedKeeps
<1>4. Written(run.release, W2, j, disk')
  <2>1. \A o \in {"recordCurrent", "swapCurrent", "add", "state"} :
          Step(o, None) \in W2 <=> Step(o, None) \in W
    BY StepIs
  <2>2. \A q \in {"cache", "current", "state"} : disk'[q] = disk[q]
    BY PlacesAre
  <2> HIDE DEF W2
  <2> QED
    BY <2>1, <2>2 DEF Written, Advancing, Advances
<1>5. Undoable(v, j, disk', backup')
  <2>1. \A t \in Moved : Restorable(t, v, j, disk', backup')
    BY <1>2, RestorableKeeps DEF Undoable, Advancing
  <2>2. disk'["current"] = disk["current"]
    BY PlacesAre
  <2> QED
    BY <2>1, <2>2 DEF Undoable, Advancing
<1> QED
  BY <1>1, <1>3, <1>4, <1>5, AdvancePasses

LEMMA MainMovesAside ==
  ASSUME NEW v, NEW x, MainAt(v, x), Aside PROVE Good
<1> DEFINE W == Work(run.todo)
           j == journal[Main]
<1>1. x.op = "aside" /\ Proceed /\ UNCHANGED journal
  BY DEF MainAt, Aside, At
<1>2. Advancing(v, x, W, j)
  BY <1>1, AdvancingIs
<1>3. PICK s \in Moved : x = Step("aside", s) /\ x.arg = s
  BY <1>1, <1>2, OfSurface DEF Advancing
<1>4. Arg = s
  BY <1>3 DEF Arg, MainAt
<1>5. disk \in [Places -> Held] /\ backup \in [Moved -> Held] /\ x \in W
  BY MainAtFacts
<1>6. /\ disk' \in [Places -> Held] /\ backup' \in [Moved -> Held]
      /\ \A q \in Places \ {s} : disk'[q] = disk[q]
      /\ \A t \in Moved \ {s} : backup'[t] = backup[t]
      /\ disk[s] = None => disk'[s] = None /\ backup'[s] = backup[s]
      /\ disk[s] # None => disk'[s] = None /\ backup'[s] = disk[s]
  <2>1. CASE disk[s] = None
    BY <2>1, <1>4, <1>5 DEF Aside, surfaces
  <2>2. CASE disk[s] # None
    <3>1. /\ backup' = [backup EXCEPT ![s] = disk[s]]
          /\ disk' = [disk EXCEPT ![s] = None]
      BY <2>2, <1>4 DEF Aside
    <3>2. s \in Places /\ None \in Held
      BY PlacesAre DEF Held, Known
    <3> QED
      BY <2>2, <3>1, <3>2, <1>5
  <2> QED
    BY <2>1, <2>2
<1>7. Reached(s, run.release, W, j, disk, backup) /\ Restorable(s, v, j, disk, backup)
  BY <1>2 DEF Advancing, Advances, Undoable
<1>8. /\ s \in j.recorded /\ backup[s] = None /\ Step("place", s) \in W
      /\ s \in j.existed <=> disk[s] # None
      /\ Step("record", s) \notin W
  BY <1>3, <1>5, <1>7 DEF Reached
<1>9. Reached(s, run.release, W \ {x}, j, disk', backup')
  <2>1. /\ Step("aside", s) \notin W \ {x} /\ Step("record", s) \notin W \ {x}
        /\ Step("place", s) \in W \ {x}
    BY <1>3, <1>8, StepIs
  <2> QED
    BY <2>1, <1>6, <1>8 DEF Reached
<1>10. Restorable(s, v, j, disk', backup')
  BY <1>6, <1>7, <1>8 DEF Restorable
<1> QED
  BY <1>1, <1>2, <1>3, <1>6, <1>9, <1>10, AdvanceMoves

LEMMA MainPlaces ==
  ASSUME NEW v, NEW x, MainAt(v, x), Place PROVE Good
<1> DEFINE W == Work(run.todo)
           j == journal[Main]
<1>1. x.op = "place" /\ Proceed /\ UNCHANGED journal
  BY DEF MainAt, Place, At
<1>2. Advancing(v, x, W, j)
  BY <1>1, AdvancingIs
<1>3. PICK s \in Moved : x = Step("place", s) /\ x.arg = s
  BY <1>1, <1>2, OfSurface DEF Advancing
<1>4. Arg = s
  BY <1>3 DEF Arg, MainAt
<1> DEFINE c == IF s = "launcher" THEN "link" ELSE run.release
<1>5. c \in Held /\ c = Whole(run.release)[s] /\ s \in Places
  <2>1. run.release \in Releases /\ s \in Places
    BY MainAtFacts, PlacesAre
  <2>2. CASE s = "launcher"
    BY <2>1, <2>2, WholeIs DEF Held
  <2>3. CASE s # "launcher"
    <3>1. Whole(run.release)[s] = run.release
      BY <2>1, <2>3, WholeIs
    <3> QED
      BY <2>1, <2>3, <3>1 DEF Held, Known
  <2> QED
    BY <2>1, <2>2, <2>3
<1>6. Put(s, c)
  BY <1>4 DEF Place
<1> HIDE DEF c
<1>7. /\ disk' \in [Places -> Held] /\ backup' = backup /\ disk'[s] = c
      /\ \A q \in Places \ {s} : disk'[q] = disk[q] /\ backup \in [Moved -> Held]
  BY <1>5, <1>6, MainAtFacts, PutKeepsType
<1>8. backup' \in [Moved -> Held]
  BY <1>7, MainAtFacts
<1>9. x \in W /\ \A y \in W \ {x} : Rank(x) < Rank(y)
  BY MainAtFacts
<1>10. Step("aside", s) \notin W /\ Step("record", s) \notin W
  <2>1. Rank(Step("aside", s)) < Rank(x) /\ Rank(Step("record", s)) < Rank(x)
    BY <1>3, Ranks DEF Moved
  <2> QED
    BY <2>1, <1>9, RankIsNat
<1>11. Reached(s, run.release, W, j, disk, backup) /\ Restorable(s, v, j, disk, backup)
  BY <1>2 DEF Advancing, Advances, Undoable
<1>12. s \in j.recorded /\ (backup[s] # None \/ s \notin j.existed)
  BY <1>3, <1>9, <1>10, <1>11 DEF Reached
<1>13. Reached(s, run.release, W \ {x}, j, disk', backup')
  BY <1>3, <1>5, <1>7, <1>10 DEF Reached
<1>14. Restorable(s, v, j, disk', backup')
  BY <1>7, <1>11, <1>12 DEF Restorable
<1> QED
  BY <1>1, <1>2, <1>3, <1>7, <1>8, <1>13, <1>14, AdvanceMoves

(* The commit marker is written when every surface is of the release.      *)
LEMMA MainCommits ==
  ASSUME NEW v, NEW x, MainAt(v, x), CommitJournal PROVE Good
<1> DEFINE W == Work(run.todo)
           j == journal[Main]
           k == [j EXCEPT !.status = "committed"]
<1>1. /\ x.op = "commit" /\ UNCHANGED surfaces /\ Journal(k)
      /\ run' = [run EXCEPT !.todo = Tail(@), !.stage = "committed"]
  BY DEF MainAt, CommitJournal, At, Mine
<1>2. Advances(run.stage, run.release, W, j, disk, backup) /\ x = CommitStep
  BY <1>1, MainMode
<1>3. j \in Journals /\ j.existed \subseteq j.recorded
  BY <1>2, MainAtFacts DEF Advances, Active
<1>4. /\ k \in Journals /\ k.status = "committed"
      /\ k.recorded = j.recorded /\ k.existed = j.existed
  BY <1>3 DEF Journals
<1> HIDE DEF k
<1>5. JournalTo(Main, k) /\ k # None
  BY <1>1, <1>3, <1>4, JournalOfMain, InstallAssumption
<1>6. /\ disk' = disk /\ backup' = backup
      /\ disk' \in [Places -> Held] /\ backup' \in [Moved -> Held]
      /\ run.release \in Known /\ run.release \in Releases
  BY <1>1, MainAtFacts, WholeIs DEF surfaces
<1>7. x \in W /\ (\A y \in W \ {x} : Rank(x) < Rank(y)) /\ Program(Tail(run.todo), W \ {x})
  BY MainAtFacts
<1>8. Goes(W \ {x}, "committed", run.incomplete)
  <2>1. DOMAIN run = RunFields
    BY DEF MainAt, Pre, InstallShaped
  <2> QED
    BY <1>1, <1>7, <2>1 DEF Goes, RunFields
<1>9. W \cap Advance = {}
  <2>1. Rank(x) = 24
    BY <1>2, Ranks DEF CommitStep
  <2>2. \A y \in Advance : Rank(y) < 24 /\ y # x
    BY <1>1, Ranks, OpsOf DEF Advance, Moved
  <2> QED
    BY <2>1, <2>2, <1>7, RankIsNat
<1>10. \A p \in Places : disk[p] = Whole(run.release)[p]
  <2>1. \A s \in Moved : disk[s] = Whole(run.release)[s]
    BY <1>2, <1>9 DEF Advances, Reached, Advance
  <2>2. \A q \in {"cache", "current", "state"} : disk[q] = run.release
    BY <1>2, <1>9 DEF Advances, Written, Advance
  <2> QED
    BY <2>1, <2>2, <1>6, WholeIs, PlacesAre DEF Places
<1>11. Clears(run.release, "committed", W \ {x}, k, disk', backup')
  <2>1. x \notin AfterMarker
    BY <1>1, OpsOf DEF AfterMarker
  <2>2. W \ {x} \subseteq AfterMarker /\ AfterMarker \subseteq W \ {x}
    BY <2>1, <1>2, <1>9 DEF Advances
  <2>3. DropStep \in AfterMarker /\ \A s \in Moved : Step("clean", s) \in AfterMarker
    BY DEF AfterMarker, Cleaning
  <2>4. BeginStep \notin AfterMarker
    BY OpsOf DEF AfterMarker
  <2>5. Stands(run.release, disk')
    BY <1>6, <1>10 DEF Stands
  <2> QED
    BY <2>2, <2>3, <2>4, <2>5, <1>5 DEF Clears
<1>12. Rests(run.release, k, disk', backup')
  BY <1>4, <1>5, <1>6, <1>10 DEF Rests, Active, Stands
<1>13. \A p \in Places : disk'[p] = Whole(disk'["state"])[p]
  <2>1. disk["state"] = run.release
    BY <1>6, <1>10, WholeIs, PlacesAre
  <2> QED
    BY <2>1, <1>6, <1>10
<1>14. At("commit")
  BY DEF CommitJournal
<1> QED
  BY <1>4, <1>5, <1>6, <1>8, <1>11, <1>12, <1>13, <1>14, MainMoves DEF MainAt, Mode

LEMMA MainBegins ==
  ASSUME NEW v, NEW x, MainAt(v, x), Begin PROVE Good
<1> DEFINE W == Work(run.todo)
           j == journal[Main]
           k == NewJournal(disk)
           W2 == Forwarding \cup AfterMarker \cup {CommitStep, DropStep}
<1>1. /\ x.op = "begin" /\ UNCHANGED surfaces /\ Journal(k)
      /\ run' = [run EXCEPT !.todo = Forward, !.stage = "active"]
  BY DEF MainAt, Begin, At
<1>2. Ends(run.stage, W, j) /\ x \in W
  BY <1>1, MainMode, MainAtFacts
<1>3. x = BeginStep
  <2>1. x \in {BeginStep, Step("add", None)} \cup Closing
    BY <1>2 DEF Ends
  <2> QED
    BY <2>1, <1>1, OpsOf
<1>4. j = None
  BY <1>2, <1>3 DEF Ends
<1>5. disk \in [Places -> Held] /\ backup \in [Moved -> Held] /\ Stands(v, disk) /\ Clear(backup)
  <2>1. Rests(v, j, disk, backup)
    BY MainAtFacts
  <2> QED
    BY <1>4, <2>1, MainAtFacts DEF Rests, Active
<1>6. /\ k \in Journals /\ k.status = "active" /\ k.recorded = {} /\ k.existed = {}
      /\ k.current = Unrecorded /\ k.state = disk["state"]
  BY <1>5, PlacesAre DEF NewJournal, Journals
<1> HIDE DEF k
<1>7. JournalTo(Main, k) /\ k # None
  BY <1>1, <1>6, JournalOfMain, InstallAssumption
<1>8. disk' = disk /\ backup' = backup
  BY <1>1 DEF surfaces
<1>9. Goes(W2, "active", run.incomplete)
  <2>1. DOMAIN run = RunFields
    BY DEF MainAt, Pre, InstallShaped
  <2>2. Program(Forward, W2)
    BY ForwardWork DEF OfMainWork, MainAt
  <2> HIDE DEF W2
  <2> QED
    BY <1>1, <2>1, <2>2 DEF Goes, RunFields
<1>10. \A s \in Moved : Step("record", s) \in W2 /\ Step("place", s) \notin W2
                        /\ Step("aside", s) \notin W2
  <2>1. \A s \in Moved : \A y \in W2 : y # Step("place", s) /\ y # Step("aside", s)
    BY Ops, OpsOf DEF Forwarding, AfterMarker
  <2> QED
    BY <2>1 DEF Forwarding
<1>11. \A o \in {"attempt", "add", "recordCurrent", "swapCurrent", "state"} : Step(o, None) \in W2
  BY DEF Forwarding
<1>12. W2 \subseteq Advance \cup {CommitStep} \cup AfterMarker
  BY DEF Forwarding, Advance, AfterMarker
<1>13. CommitStep \in W2 /\ AfterMarker \subseteq W2
  OBVIOUS
<1> HIDE DEF W2
<1>14. Advances("active", run.release, W2, k, disk', backup')
  <2>1. \A s \in Moved : Reached(s, run.release, W2, k, disk', backup')
    BY <1>6, <1>10 DEF Reached
  <2>2. Written(run.release, W2, k, disk')
    BY <1>6, <1>11 DEF Written
  <2> QED
    BY <2>1, <2>2, <1>6, <1>7, <1>12, <1>13 DEF Advances, Active
<1>15. Rests(v, k, disk', backup')
  <2>1. \A s \in Moved : Restorable(s, v, k, disk', backup')
    BY <1>5, <1>6, <1>8, PlacesAre DEF Restorable, Stands, Clear
  <2>2. disk["current"] = Whole(v)["current"] /\ disk["state"] = Whole(v)["state"]
    BY <1>5, PlacesAre DEF Stands
  <2> QED
    BY <2>1, <2>2, <1>6, <1>7, <1>8 DEF Rests, Active, Undoable
<1>16. ShownBy(k, disk') = ShownBy(j, disk)
  BY <1>4, <1>6, <1>7 DEF ShownBy, Active
<1> QED
  BY <1>5, <1>7, <1>8, <1>9, <1>14, <1>15, <1>16, MainAtFacts, MainMoves DEF MainAt, Mode

-----------------------------------------------------------------------------
(* The installer of Main after the marker, and going back *)

LEMMA MainCleans ==
  ASSUME NEW v, NEW x, MainAt(v, x), Clean PROVE Good
<1> DEFINE W == Work(run.todo)
           j == journal[Main]
<1>1. x.op = "clean" /\ Proceed /\ UNCHANGED <<journal, disk>> /\ Arg = x.arg
  BY DEF MainAt, Clean, At, Arg
<1>2. Clears(v, run.stage, W, j, disk, backup) /\ x \in Cleaning
  BY <1>1, MainMode, OpsOf
<1>3. PICK s \in Moved : x = Step("clean", s) /\ x.arg = s
  BY <1>2, Ops DEF Cleaning
<1>4. backup' = [backup EXCEPT ![s] = None] /\ disk' = disk
  BY <1>1, <1>3 DEF Clean
<1>5. /\ backup \in [Moved -> Held] /\ disk' \in [Places -> Held] /\ v \in Known
      /\ j \in Journals \cup {None} /\ Rests(v, j, disk, backup) /\ GoesOn(W \ {x})
  BY <1>1, MainAtFacts
<1>6. /\ backup' \in [Moved -> Held] /\ backup'[s] = None
      /\ \A t \in Moved \ {s} : backup'[t] = backup[t]
  BY <1>4, <1>5 DEF Held, Known
<1>7. JournalTo(Main, j)
  BY <1>1, MainAtFacts, JournalOfMain
<1>8. x # DropStep
  BY <1>1, OpsOf
<1>9. Clears(v, run.stage, W \ {x}, j, disk', backup')
  <2>1. \A t \in Moved : backup'[t] = None \/ Step("clean", t) \in W \ {x}
    BY <1>2, <1>3, <1>6, StepIs DEF Clears
  <2> QED
    BY <2>1, <1>2, <1>4, <1>8 DEF Clears
<1>10. Rests(v, j, disk', backup')
  <2>1. CASE Active(j)
    <3>1. \A t \in Moved : Restorable(t, v, j, disk', backup')
      <4> SUFFICES ASSUME NEW t \in Moved PROVE Restorable(t, v, j, disk', backup')
        OBVIOUS
      <4>1. Restorable(t, v, j, disk, backup) /\ disk[t] = Whole(v)[t]
        BY <2>1, <1>2, <1>5, PlacesAre DEF Rests, Undoable, Clears, Stands
      <4> QED
        BY <4>1, <1>4, <1>6 DEF Restorable
    <3> QED
      BY <2>1, <3>1, <1>4, <1>5 DEF Rests, Undoable
  <2>2. CASE ~ Active(j)
    BY <2>2, <1>2, <1>4, <1>5 DEF Rests, Clears
  <2> QED
    BY <2>1, <2>2
<1>11. ShownBy(j, disk') = ShownBy(j, disk)
  BY <1>4
<1> HIDE DEF j
<1>12. Mode(v, run.stage, run.release, run.incomplete, W \ {x}, j, disk', backup')
  BY <1>9 DEF Mode
<1> QED
  BY <1>5, <1>6, <1>7, <1>10, <1>11, <1>12, MainMoves DEF MainAt, GoesOn, j

LEMMA MainDrops ==
  ASSUME NEW v, NEW x, MainAt(v, x), DropJournal PROVE Good
<1> DEFINE W == Work(run.todo)
           j == journal[Main]
<1>1. x.op = "dropJournal" /\ Proceed /\ UNCHANGED surfaces /\ Journal(None)
  BY DEF MainAt, DropJournal, At
<1>2. Clears(v, run.stage, W, j, disk, backup) /\ x = DropStep
  BY <1>1, MainMode, OpsOf
<1>3. /\ disk' = disk /\ backup' = backup
      /\ disk' \in [Places -> Held] /\ backup' \in [Moved -> Held] /\ v \in Known
      /\ Rests(v, j, disk, backup) /\ GoesOn(W \ {x})
  BY <1>1, MainAtFacts DEF surfaces
<1>4. W \cap Cleaning = {}
  <2>1. \A y \in W \ {x} : Rank(x) < Rank(y)
    BY MainAtFacts
  <2>2. \A y \in Cleaning : Rank(y) < 28 /\ y # x
    BY <1>1, Ranks, OpsOf DEF Cleaning, Moved
  <2> QED
    BY <2>1, <2>2, <1>2, Ranks, RankIsNat
<1>5. Clear(backup) /\ Stands(v, disk)
  BY <1>2, <1>4 DEF Clears, Cleaning, Clear
<1>6. JournalTo(Main, None)
  BY <1>1, JournalOfMain
<1>7. Ends(run.stage, W \ {x}, None)
  BY <1>2, <1>4 DEF Clears, Ends, AfterMarker
<1>8. Rests(v, None, disk', backup')
  BY <1>3, <1>5 DEF Rests, Active
<1>9. ShownBy(None, disk') = ShownBy(j, disk)
  <2>1. Active(j) => j.state = disk["state"]
    BY <1>3, <1>5, PlacesAre DEF Rests, Undoable, Stands
  <2> QED
    BY <2>1, <1>3 DEF ShownBy, Active
<1>10. Mode(v, run.stage, run.release, run.incomplete, W \ {x}, None, disk', backup')
  BY <1>7 DEF Mode
<1> QED
  BY <1>3, <1>6, <1>8, <1>9, <1>10, MainMoves DEF MainAt, GoesOn

\* Nothing but the cache is touched.
OnlyCache ==
  /\ disk' \in [Places -> Held] /\ backup' = backup
  /\ \A q \in Places \ {"cache"} : disk'[q] = disk[q]

LEMMA OnlyCacheRests ==
  ASSUME OnlyCache, NEW v, NEW j, Rests(v, j, disk, backup)
  PROVE  Rests(v, j, disk', backup') /\ ShownBy(j, disk') = ShownBy(j, disk)
<1>1. \A q \in Moved \cup {"current", "state"} : disk'[q] = disk[q]
  BY PlacesAre DEF OnlyCache
<1>2. Active(j) => Undoable(v, j, disk', backup')
  BY <1>1, RestorableKeeps DEF OnlyCache, Undoable, Rests
<1>3. Stands(v, disk) => Stands(v, disk')
  BY DEF OnlyCache, Stands
<1> QED
  BY <1>1, <1>2, <1>3 DEF OnlyCache, Rests, ShownBy

LEMMA MainEnds ==
  ASSUME NEW v, NEW x, MainAt(v, x), UNCHANGED journal, OnlyCache,
         NEW W2, Ends(run.stage, W2, journal[Main]), GoesOn(W2)
  PROVE  Good
<1> DEFINE j == journal[Main]
<1>1. JournalTo(Main, j)
  BY MainAtFacts, JournalOfMain
<1>2. Rests(v, j, disk', backup') /\ ShownBy(j, disk') = ShownBy(j, disk)
  BY MainAtFacts, OnlyCacheRests
<1>3. disk' \in [Places -> Held] /\ backup' \in [Moved -> Held] /\ v \in Known
  BY MainAtFacts DEF OnlyCache
<1>4. Mode(v, run.stage, run.release, run.incomplete, W2, j, disk', backup')
  BY DEF Mode
<1> QED
  BY <1>1, <1>2, <1>3, <1>4, MainMoves DEF MainAt, GoesOn

LEMMA MainRefreshes ==
  ASSUME NEW v, NEW x, MainAt(v, x), Refresh PROVE Good
<1> DEFINE W == Work(run.todo)
           j == journal[Main]
<1>1. x.op = "refresh" /\ Proceed /\ UNCHANGED journal /\ backup' = backup
  BY DEF MainAt, Refresh, At
<1>2. Ends(run.stage, W \ {x}, j)
  BY <1>1, MainMode DEF Ends
<1>3. OnlyCache
  <2>1. disk \in [Places -> Held]
    BY MainAtFacts
  <2> QED
    BY <1>1, <2>1 DEF OnlyCache, Refresh, Held, Known
<1> QED
  BY <1>1, <1>2, <1>3, MainAtFacts, MainEnds

LEMMA MainReconciles ==
  ASSUME NEW v, NEW x, MainAt(v, x), Reconcile PROVE Good
<1> DEFINE W == Work(run.todo)
           j == journal[Main]
           add == Step("add", None)
<1>1. x.op = "reconcile" /\ UNCHANGED <<journal, surfaces>>
  BY DEF MainAt, Reconcile, At
<1>2. Ends(run.stage, W, j)
  BY <1>1, MainMode
<1>3. OnlyCache
  BY <1>1, MainAtFacts DEF OnlyCache, surfaces
<1>4. CASE Proceed
  <2>1. GoesOn(W \ {x})
    BY <1>4, MainAtFacts
  <2>2. Ends(run.stage, W \ {x}, j)
    BY <1>2 DEF Ends
  <2> QED
    BY <1>1, <1>3, <2>1, <2>2, MainEnds
<1>5. CASE ProceedWith(<<add>>)
  <2>1. x = Step("reconcile", None)
    <3>1. x \in {BeginStep, add} \cup Closing
      BY <1>2, MainAtFacts DEF Ends
    <3> QED
      BY <3>1, <1>1, Ops, OpsOf DEF Closing
  <2>2. W \ {x} = {}
    <3>1. \A y \in W \ {x} : Rank(x) < Rank(y)
      BY MainAtFacts
    <3>2. \A y \in W : Rank(y) < 32
      BY <1>2, Ranks DEF Ends, Closing
    <3> QED
      BY <3>1, <3>2, <2>1, <1>2, Ranks, StepIs DEF Ends, Closing
  <2>3. Program(<<add>>, {add})
    BY Ops, ProgramOne
  <2> HIDE DEF add
  <2>4. GoesOn({add} \cup (W \ {x}))
    BY <2>2, <2>3, <1>5, TakesWith DEF MainAt, Pre
  <2>5. Ends(run.stage, {add} \cup (W \ {x}), j)
    BY <1>2, <2>2, StepIs DEF Ends, add, BeginStep
  <2> QED
    BY <1>1, <1>3, <2>4, <2>5, MainEnds
<1> QED
  BY <1>4, <1>5 DEF Reconcile

\* Going back, at the step x.
Retreating(v, x, W, j) ==
  /\ MainAt(v, x) /\ W = Work(run.todo) /\ j = journal[Main]
  /\ Undoes(run.stage, run.incomplete, W, j, disk, backup) /\ x \in Undo(j)
  /\ j \in Journals /\ j.existed \subseteq j.recorded /\ Undoable(v, j, disk, backup)

LEMMA RetreatingIs ==
  ASSUME NEW v, NEW x, MainAt(v, x), NEW W, W = Work(run.todo), NEW j, j = journal[Main],
         x.op \in {"putBack", "unlinkCurrent", "linkCurrent", "cacheBack", "stateBack",
                   "settled"}
  PROVE  Retreating(v, x, W, j)
<1>1. Undoes(run.stage, run.incomplete, W, j, disk, backup) /\ x \in Undo(j)
  BY MainMode
<1>2. Rests(v, j, disk, backup) /\ j \in Journals \cup {None}
      /\ (j # None => j.existed \subseteq j.recorded)
  BY MainAtFacts
<1> QED
  BY <1>1, <1>2 DEF Retreating, Undoes, Rests, Active

LEMMA RetreatKeeps ==
  ASSUME NEW v, NEW x, NEW W, NEW j, Retreating(v, x, W, j), UNCHANGED journal,
         NEW W2, GoesOn(W2), W2 \subseteq W, Step("settled", None) \in W2,
         disk' \in [Places -> Held], backup' \in [Moved -> Held],
         Undoable(v, j, disk', backup'),
         ~ run.incomplete => Back(W2, j, disk', backup')
  PROVE  Good
<1>1. JournalTo(Main, j) /\ v \in Known
  BY MainAtFacts, JournalOfMain DEF Retreating
<1>2. Undoes(run.stage, run.incomplete, W2, j, disk', backup')
  BY DEF Retreating, Undoes
<1>3. Mode(v, run.stage, run.release, run.incomplete, W2, j, disk', backup')
  BY <1>2 DEF Mode
<1>4. Rests(v, j, disk', backup') /\ ShownBy(j, disk') = ShownBy(j, disk)
  BY DEF Retreating, Undoes, Rests, ShownBy
<1> QED
  BY <1>1, <1>3, <1>4, MainMoves DEF Retreating, MainAt, GoesOn

LEMMA MainPutsBack ==
  ASSUME NEW v, NEW x, MainAt(v, x), PutBack PROVE Good
<1> DEFINE W == Work(run.todo)
           j == journal[Main]
<1>1. x.op = "putBack" /\ UNCHANGED journal
  BY DEF MainAt, PutBack, At
<1>2. Retreating(v, x, W, j)
  BY <1>1, RetreatingIs
<1>3. PICK s \in j.recorded : x = Step("putBack", s) /\ x.arg = s
  BY <1>1, <1>2, Ops DEF Retreating, Undo
<1>4. Arg = s /\ Mine = j
  BY <1>3 DEF Arg, MainAt, Mine
<1>5. s \in Moved /\ s \in Places /\ None \in Held
  BY <1>2, <1>3, PlacesAre DEF Retreating, Journals, Held, Known
<1>6. disk \in [Places -> Held] /\ backup \in [Moved -> Held] /\ x \in W
  BY MainAtFacts
<1>7. Restorable(s, v, j, disk, backup)
  BY <1>2, <1>5 DEF Retreating, Undoable
\* What a step at s has to leave there.
<1>8. ASSUME disk' \in [Places -> Held], backup' \in [Moved -> Held],
             \A q \in Places \ {s} : disk'[q] = disk[q],
             \A t \in Moved \ {s} : backup'[t] = backup[t],
             Restorable(s, v, j, disk', backup'),
             NEW W2, GoesOn(W2), W2 = W \/ W2 = W \ {x},
             W2 = W \/ (backup'[s] = None /\ (s \notin j.existed => disk'[s] = None))
      PROVE  Good
  <2>1. \A t \in Moved \ {s} : disk'[t] = disk[t] /\ backup'[t] = backup[t]
    BY <1>8, PlacesAre
  <2>2. disk'["current"] = disk["current"] /\ disk'["state"] = disk["state"]
    BY <1>5, <1>8, PlacesAre
  <2>3. Undoable(v, j, disk', backup')
    BY <1>2, <1>8, <2>1, <2>2, RestorableKeeps DEF Retreating, Undoable
  <2>4. Step("settled", None) \in W2
    BY <1>2, <1>3, <1>8, StepIs DEF Retreating, Undoes
  <2>5. \A y \in W : y \in W2 \/ y = Step("putBack", s)
    BY <1>3, <1>8
  <2>6. \A t : Step("linkCurrent", t) \in W2 <=> Step("linkCurrent", t) \in W
    BY <1>3, <1>8, StepIs
  <2>7. Step("unlinkCurrent", None) \in W2 <=> Step("unlinkCurrent", None) \in W
    BY <1>3, <1>8, StepIs
  <2>8. \A t : Step("stateBack", t) \in W2 <=> Step("stateBack", t) \in W
    BY <1>3, <1>8, StepIs
  <2>9. \A t \in Moved \ {s} : Step("putBack", t) \in W2 <=> Step("putBack", t) \in W
    BY <1>3, <1>8, StepIs
  <2>10. ~ run.incomplete => Back(W2, j, disk', backup')
    <3> SUFFICES ASSUME Back(W, j, disk, backup) PROVE Back(W2, j, disk', backup')
      BY <1>2 DEF Retreating, Undoes
    <3>1. ASSUME NEW t \in j.recorded
          PROVE  Step("putBack", t) \in W2
                 \/ (backup'[t] = None /\ (t \notin j.existed => disk'[t] = None))
      <4>1. t \in Moved
        BY <1>2, <3>1 DEF Retreating, Journals
      <4>2. CASE t = s
        BY <4>2, <1>3, <1>6, <1>8
      <4>3. CASE t # s
        BY <4>1, <4>3, <2>1, <2>9 DEF Back
      <4> QED
        BY <4>2, <4>3
    <3> QED
      BY <3>1, <2>2, <2>6, <2>7, <2>8 DEF Back
  <2>11. W2 \subseteq W
    BY <1>8
  <2> QED
    BY <1>1, <1>2, <1>8, <2>3, <2>4, <2>10, <2>11, RetreatKeeps
<1>9. CASE backup[s] # None /\ disk[s] # None
  <2>1. run' = run /\ Put(s, None)
    BY <1>4, <1>9 DEF PutBack
  <2>2. /\ disk' \in [Places -> Held] /\ backup' = backup
        /\ \A q \in Places \ {s} : disk'[q] = disk[q]
    BY <2>1, <1>5, <1>6, PutKeepsType
  <2>3. GoesOn(W)
    BY <2>1 DEF GoesOn, Goes, MainAt, Pre, InstallShaped
  <2>4. Restorable(s, v, j, disk', backup')
    BY <2>2, <1>3, <1>7, <1>9 DEF Restorable
  <2> QED
    BY <2>2, <2>3, <2>4, <1>6, <1>8
<1>10. CASE backup[s] # None /\ disk[s] = None
  <2>1. /\ disk' = [disk EXCEPT ![s] = backup[s]]
        /\ backup' = [backup EXCEPT ![s] = None] /\ Proceed
    BY <1>4, <1>10 DEF PutBack
  <2>2. /\ disk' \in [Places -> Held] /\ backup' \in [Moved -> Held]
        /\ \A q \in Places \ {s} : disk'[q] = disk[q]
        /\ \A t \in Moved \ {s} : backup'[t] = backup[t]
        /\ disk'[s] = backup[s] /\ backup'[s] = None
    BY <2>1, <1>5, <1>6
  <2>3. Restorable(s, v, j, disk', backup') /\ s \in j.existed
    BY <2>2, <1>3, <1>7, <1>10 DEF Restorable
  <2>4. GoesOn(W \ {x})
    BY <2>1, MainAtFacts
  <2> QED
    BY <2>2, <2>3, <2>4, <1>8
<1>11. CASE backup[s] = None
  <2>1. /\ Proceed
        /\ IF s \in j.existed THEN UNCHANGED surfaces ELSE Put(s, None)
    BY <1>4, <1>11 DEF PutBack
  <2>2. /\ disk' \in [Places -> Held] /\ backup' = backup
        /\ \A q \in Places \ {s} : disk'[q] = disk[q]
        /\ IF s \in j.existed THEN disk'[s] = disk[s] ELSE disk'[s] = None
    BY <2>1, <1>5, <1>6, PutKeepsType DEF surfaces
  <2>3. Restorable(s, v, j, disk', backup')
    BY <2>2, <1>3, <1>7, <1>11 DEF Restorable
  <2>4. GoesOn(W \ {x})
    BY <2>1, MainAtFacts
  <2> QED
    BY <2>2, <2>3, <2>4, <1>6, <1>8, <1>11
<1> QED
  BY <1>9, <1>10, <1>11

LEMMA MainUnlinks ==
  ASSUME NEW v, NEW x, MainAt(v, x), UnlinkCurrent PROVE Good
<1> DEFINE W == Work(run.todo)
           j == journal[Main]
<1>1. x.op = "unlinkCurrent" /\ UNCHANGED journal /\ Proceed /\ Put("current", None)
  BY DEF MainAt, UnlinkCurrent, At
<1>2. Retreating(v, x, W, j)
  BY <1>1, RetreatingIs
<1>3. x = Step("unlinkCurrent", None) /\ j.current # Unrecorded
  BY <1>1, <1>2, Ops DEF Retreating, Undo
<1>4. /\ disk' \in [Places -> Held] /\ backup' = backup
      /\ \A q \in Places \ {"current"} : disk'[q] = disk[q]
  BY <1>1, MainAtFacts, PlacesAre, PutKeepsType DEF Held, Known
<1>5. \A q \in Moved \cup {"state"} : disk'[q] = disk[q]
  BY <1>4, PlacesAre
<1>6. x \in W /\ GoesOn(W \ {x}) /\ backup' \in [Moved -> Held]
  BY <1>1, <1>4, MainAtFacts
<1>7. Step("settled", None) \in W \ {x}
  BY <1>2, <1>3, StepIs DEF Retreating, Undoes
<1>8. Undoable(v, j, disk', backup')
  BY <1>2, <1>3, <1>4, <1>5, RestorableKeeps DEF Undoable, Retreating
<1>9. ~ run.incomplete => Back(W \ {x}, j, disk', backup')
  <2> SUFFICES ASSUME Back(W, j, disk, backup) PROVE Back(W \ {x}, j, disk', backup')
    BY <1>2 DEF Retreating, Undoes
  <2>1. j.recorded \subseteq Moved
    BY <1>2 DEF Retreating, Journals
  <2> QED
    BY <2>1, <1>3, <1>4, <1>5, <1>6, StepIs DEF Back
<1> QED
  BY <1>1, <1>2, <1>4, <1>6, <1>7, <1>8, <1>9, RetreatKeeps

LEMMA MainLinks ==
  ASSUME NEW v, NEW x, MainAt(v, x), LinkCurrent PROVE Good
<1> DEFINE W == Work(run.todo)
           j == journal[Main]
<1>1. x.op = "linkCurrent" /\ UNCHANGED journal /\ Proceed /\ Put("current", x.arg)
  BY DEF MainAt, LinkCurrent, At, Arg
<1>2. Retreating(v, x, W, j)
  BY <1>1, RetreatingIs
<1>3. x = Step("linkCurrent", j.current) /\ j.current # Unrecorded /\ x.arg = j.current
  BY <1>1, <1>2, Ops DEF Retreating, Undo
<1>4. j.current \in Held
  BY <1>2, <1>3 DEF Retreating, Journals
<1>5. /\ disk' \in [Places -> Held] /\ backup' = backup /\ disk'["current"] = j.current
      /\ \A q \in Places \ {"current"} : disk'[q] = disk[q]
  BY <1>1, <1>3, <1>4, MainAtFacts, PlacesAre, PutKeepsType
<1>6. \A q \in Moved \cup {"state"} : disk'[q] = disk[q]
  BY <1>5, PlacesAre
<1>7. /\ GoesOn(W \ {x}) /\ backup' \in [Moved -> Held]
      /\ Step("unlinkCurrent", None) \notin W
  <2>1. \A y \in W \ {x} : Rank(x) < Rank(y)
    BY MainAtFacts
  <2>2. Step("unlinkCurrent", None) \notin W
    BY <2>1, <1>3, Ranks, StepIs
  <2> QED
    BY <2>2, <1>1, <1>5, MainAtFacts
<1>8. Step("settled", None) \in W \ {x}
  BY <1>2, <1>3, StepIs DEF Retreating, Undoes
<1>9. Undoable(v, j, disk', backup')
  BY <1>2, <1>3, <1>5, <1>6, RestorableKeeps DEF Undoable, Retreating
<1>10. ~ run.incomplete => Back(W \ {x}, j, disk', backup')
  <2> SUFFICES ASSUME Back(W, j, disk, backup) PROVE Back(W \ {x}, j, disk', backup')
    BY <1>2 DEF Retreating, Undoes
  <2>1. j.recorded \subseteq Moved
    BY <1>2 DEF Retreating, Journals
  <2> QED
    BY <2>1, <1>3, <1>5, <1>6, <1>7, StepIs DEF Back
<1> QED
  BY <1>1, <1>2, <1>5, <1>7, <1>8, <1>9, <1>10, RetreatKeeps

LEMMA MainCachesBack ==
  ASSUME NEW v, NEW x, MainAt(v, x), CacheBack PROVE Good
<1> DEFINE W == Work(run.todo)
           j == journal[Main]
<1>1. x.op = "cacheBack" /\ UNCHANGED journal /\ Proceed
  BY DEF MainAt, CacheBack, At
<1>2. Retreating(v, x, W, j)
  BY <1>1, RetreatingIs
<1>3. x = Step("cacheBack", None)
  BY <1>1, <1>2, Ops DEF Retreating, Undo
<1>4. disk \in [Places -> Held] /\ disk["source"] \in Held /\ None \in Held
  BY MainAtFacts, PlacesAre DEF Held, Known
<1>5. OnlyCache
  <2>1. CASE UNCHANGED surfaces
    BY <2>1, <1>4 DEF OnlyCache, surfaces
  <2>2. CASE \E c \in Held : Put("cache", c)
    BY <2>2, <1>4, PlacesAre, PutKeepsType DEF OnlyCache
  <2> QED
    BY <2>1, <2>2, <1>4 DEF CacheBack
<1>6. backup' = backup /\ \A q \in Moved \cup {"current", "state"} : disk'[q] = disk[q]
  BY <1>5, PlacesAre DEF OnlyCache
<1>7. Undoable(v, j, disk', backup')
  BY <1>2, <1>6, RestorableKeeps DEF Undoable, Retreating
<1>8. ~ run.incomplete => Back(W \ {x}, j, disk', backup')
  <2> SUFFICES ASSUME Back(W, j, disk, backup) PROVE Back(W \ {x}, j, disk', backup')
    BY <1>2 DEF Retreating, Undoes
  <2>1. j.recorded \subseteq Moved
    BY <1>2 DEF Retreating, Journals
  <2> QED
    BY <2>1, <1>3, <1>6, StepIs DEF Back
<1>9. Step("settled", None) \in W \ {x}
  BY <1>2, <1>3, StepIs DEF Retreating, Undoes
<1> QED
  BY <1>1, <1>2, <1>5, <1>6, <1>7, <1>8, <1>9, MainAtFacts, RetreatKeeps DEF OnlyCache

LEMMA MainStatesBack ==
  ASSUME NEW v, NEW x, MainAt(v, x), StateBack PROVE Good
<1> DEFINE W == Work(run.todo)
           j == journal[Main]
<1>1. x.op = "stateBack" /\ UNCHANGED journal /\ Proceed /\ Put("state", x.arg)
  BY DEF MainAt, StateBack, At, Arg
<1>2. Retreating(v, x, W, j)
  BY <1>1, RetreatingIs
<1>3. x = Step("stateBack", j.state) /\ x.arg = j.state /\ j.state \in Held
  BY <1>1, <1>2, Ops DEF Retreating, Undo, Journals
<1>4. /\ disk' \in [Places -> Held] /\ backup' = backup /\ disk'["state"] = j.state
      /\ \A q \in Places \ {"state"} : disk'[q] = disk[q]
  BY <1>1, <1>3, MainAtFacts, PlacesAre, PutKeepsType
<1>5. \A q \in Moved \cup {"current"} : disk'[q] = disk[q]
  BY <1>4, PlacesAre
<1>6. Undoable(v, j, disk', backup')
  BY <1>2, <1>4, <1>5, RestorableKeeps DEF Undoable, Retreating
<1>7. ~ run.incomplete => Back(W \ {x}, j, disk', backup')
  <2> SUFFICES ASSUME Back(W, j, disk, backup) PROVE Back(W \ {x}, j, disk', backup')
    BY <1>2 DEF Retreating, Undoes
  <2>1. j.recorded \subseteq Moved
    BY <1>2 DEF Retreating, Journals
  <2> QED
    BY <2>1, <1>3, <1>4, <1>5, StepIs DEF Back
<1>8. Step("settled", None) \in W \ {x}
  BY <1>2, <1>3, StepIs DEF Retreating, Undoes
<1> QED
  BY <1>1, <1>2, <1>4, <1>6, <1>7, <1>8, MainAtFacts, RetreatKeeps

(* A rollback that is complete has put the earlier release back.           *)
LEMMA MainSettles ==
  ASSUME NEW v, NEW x, MainAt(v, x), Settled PROVE Good
<1> DEFINE W == Work(run.todo)
           j == journal[Main]
           W2 == (Cleaning \cup {DropStep}) \cup (W \ {x})
<1>1. x.op = "settled" /\ UNCHANGED <<journal, surfaces>>
  BY DEF MainAt, Settled, At
<1>2. Retreating(v, x, W, j)
  BY <1>1, RetreatingIs
<1>3. x = Step("settled", None)
  BY <1>1, <1>2, Ops DEF Retreating, Undo
<1>4. W \subseteq {x, BeginStep}
  <2>1. \A y \in W \ {x} : Rank(x) < Rank(y)
    BY MainAtFacts
  <2>2. W \subseteq Undo(j) \cup {BeginStep} /\ j.recorded \subseteq Moved
    BY <1>2 DEF Retreating, Undoes, Journals
  <2>3. \A y \in Undo(j) : y = x \/ Rank(y) < 9
    BY <2>2, <1>3, Ranks DEF Undo, Moved
  <2> QED
    BY <2>1, <2>2, <2>3, <1>3, Ranks, RankIsNat
<1>5. /\ disk' = disk /\ backup' = backup /\ disk' \in [Places -> Held]
      /\ backup' \in [Moved -> Held] /\ v \in Known /\ Rests(v, j, disk, backup)
  BY <1>1, MainAtFacts DEF surfaces
<1>6. JournalTo(Main, j)
  BY <1>1, MainAtFacts, JournalOfMain
<1>7. CASE ~ run.incomplete
  <2>1. ProceedWith(CleanUpSurfaces \o <<DropStep>>)
    BY <1>7 DEF Settled, Incomplete, DropStep
  <2>2. Program(CleanUpSurfaces \o <<DropStep>>, Cleaning \cup {DropStep})
    BY CleanUpWork DEF OfMainWork, MainAt
  <2>3. GoesOn(W2)
    <3>1. \A y \in Cleaning \cup {DropStep}, z \in W \ {x} : Rank(y) < Rank(z)
      BY <1>4, Ranks DEF Cleaning, Moved
    <3> QED
      BY <2>1, <2>2, <3>1, TakesWith DEF MainAt, Pre
  <2>4. Back(W, j, disk, backup) /\ Undoable(v, j, disk, backup) /\ Active(j)
    BY <1>2, <1>7 DEF Retreating, Undoes
  <2>5. \A y \in Undo(j) : y \in W => y = x
    BY <1>4, OpsOf
  <2>6. /\ \A s \in j.recorded : Step("putBack", s) \notin W
        /\ j.current # Unrecorded => Step("linkCurrent", j.current) \notin W
        /\ Step("stateBack", j.state) \notin W
    BY <2>5, <1>3, StepIs DEF Undo
  <2>7. \A s \in Moved : disk[s] = Whole(v)[s] /\ backup[s] = None
    BY <2>4, <2>6 DEF Back, Undoable, Restorable
  <2>8. disk["current"] = Whole(v)["current"] /\ disk["state"] = Whole(v)["state"]
    BY <2>4, <2>6 DEF Back, Undoable
  <2>9. Stands(v, disk)
    BY <2>7, <2>8 DEF Stands, Places
  <2>10. Clears(v, run.stage, W2, j, disk', backup')
    <3>1. W2 \subseteq AfterMarker \cup {BeginStep} /\ DropStep \in W2
      BY <1>4 DEF AfterMarker
    <3>2. BeginStep \in W2 => BeginStep \in W
      BY OpsOf
    <3> HIDE DEF W2
    <3> QED
      BY <3>1, <3>2, <2>7, <2>9, <1>2, <1>5, <2>4 DEF Clears, Retreating, Undoes, Active
  <2> HIDE DEF W2
  <2>11. Mode(v, run.stage, run.release, run.incomplete, W2, j, disk', backup')
    BY <2>10 DEF Mode
  <2>12. Rests(v, j, disk', backup') /\ ShownBy(j, disk') = ShownBy(j, disk)
    BY <1>5
  <2> QED
    BY <2>3, <2>11, <2>12, <1>5, <1>6, MainMoves DEF MainAt, GoesOn
<1>8. CASE run.incomplete
  <2>1. IF run.stage = "failed" THEN Proceed ELSE Throw
    BY <1>8 DEF Settled, Incomplete
  <2>2. GoesOn(W \ {x})
    BY <2>1, MainAtFacts DEF Throw, GoesOn, Goes
  <2>3. run' # None => Ends(run.stage, W \ {x}, j)
    <3>1. run' # None => run.stage = "failed"
      BY <2>1 DEF Throw
    <3>2. BeginStep \in W => run.stage = "opening"
      BY <1>2 DEF Retreating, Undoes
    <3> QED
      BY <3>1, <3>2, <1>4 DEF Ends
  <2>4. run' # None => Mode(v, run.stage, run.release, run.incomplete, W \ {x}, j, disk', backup')
    BY <2>3 DEF Mode
  <2>5. Rests(v, j, disk', backup') /\ ShownBy(j, disk') = ShownBy(j, disk)
    BY <1>5
  <2> QED
    BY <2>2, <2>4, <2>5, <1>5, <1>6, MainMoves DEF MainAt, GoesOn
<1> QED
  BY <1>7, <1>8

LEMMA MainRecovers ==
  ASSUME NEW v, NEW x, MainAt(v, x), Recover PROVE Good
<1> DEFINE W == Work(run.todo)
           j == journal[Main]
<1>1. /\ x.op = "recover" /\ UNCHANGED <<journal, surfaces>> /\ Mine = j
      /\ run.root = Main
  BY DEF MainAt, Recover, At, Mine
<1>2. Opens(run.stage, W)
  BY <1>1, MainMode
<1>3. x = Step("recover", None) /\ W \ {x} = {BeginStep}
  BY <1>1, <1>2, MainAtFacts, OpsOf DEF Opens
<1>4. /\ disk' = disk /\ backup' = backup /\ disk' \in [Places -> Held]
      /\ backup' \in [Moved -> Held] /\ v \in Known
      /\ Rests(v, j, disk', backup') /\ ShownBy(j, disk') = ShownBy(j, disk)
      /\ j \in Journals \cup {None}
  BY <1>1, MainAtFacts DEF surfaces
<1>5. JournalTo(Main, j)
  BY <1>1, MainAtFacts, JournalOfMain
<1>6. ASSUME NEW W2, GoesOn(W2),
             Mode(v, run.stage, run.release, run.incomplete, W2, j, disk', backup')
      PROVE  Good
  BY <1>4, <1>5, <1>6, MainMoves DEF MainAt, GoesOn
<1>7. CASE j = None
  <2>1. Proceed
    BY <1>1, <1>7 DEF Recover
  <2>2. Ends(run.stage, W \ {x}, j)
    BY <1>2, <1>3, <1>7 DEF Opens, Ends
  <2> QED
    BY <2>1, <2>2, <1>6, MainAtFacts DEF Mode
<1>8. CASE j # None /\ ~ MustUndo(j)
  <2> DEFINE W2 == (Cleaning \cup {DropStep}) \cup (W \ {x})
  <2>1. ProceedWith(CleanUpSurfaces \o <<DropStep>>)
    BY <1>1, <1>8 DEF Recover, DropStep
  <2>2. Program(CleanUpSurfaces \o <<DropStep>>, Cleaning \cup {DropStep})
    BY CleanUpWork DEF OfMainWork, MainAt
  <2>3. GoesOn(W2)
    <3>1. \A y \in Cleaning \cup {DropStep}, z \in W \ {x} : Rank(y) < Rank(z)
      BY <1>3, Ranks DEF Cleaning, Moved
    <3> QED
      BY <2>1, <2>2, <3>1, TakesWith DEF MainAt, Pre
  <2>4. Stands(v, disk')
    BY <1>4, <1>8 DEF Rests, Active, MustUndo
  <2>5. Clears(v, run.stage, W2, j, disk', backup')
    <3>1. /\ W2 \subseteq AfterMarker \cup {BeginStep} /\ DropStep \in W2
          /\ \A s \in Moved : Step("clean", s) \in W2
      BY <1>3 DEF AfterMarker, Cleaning
    <3> HIDE DEF W2
    <3> QED
      BY <3>1, <2>4, <1>2, <1>8 DEF Clears, Opens
  <2> HIDE DEF W2
  <2> QED
    BY <2>3, <2>5, <1>6 DEF Mode
<1>9. CASE j # None /\ MustUndo(j)
  <2> DEFINE W2 == RollbackWork(j) \cup (W \ {x})
  <2>1. ProceedWith(Rollback(j)) /\ j \in Journals /\ Active(j)
    BY <1>1, <1>4, <1>9 DEF Recover, Active, MustUndo
  <2>2. j.recorded \subseteq Moved
    BY <2>1 DEF Journals
  <2>3. RollbackWork(j) \subseteq Undo(j)
    BY DEF RollbackWork, Undo, OfMainWork
  <2>4. GoesOn(W2)
    <3>1. \A y \in RollbackWork(j), z \in W \ {x} : Rank(y) < Rank(z)
      <4>1. \A y \in Undo(j) : Rank(y) < 10
        BY <2>2, Ranks DEF Undo, Moved
      <4> QED
        BY <4>1, <2>3, <1>3, Ranks, RankIsNat
    <3>2. Program(Rollback(j), RollbackWork(j))
      BY <2>2, RollbackIsProgram
    <3> QED
      BY <2>1, <3>1, <3>2, TakesWith DEF MainAt, Pre
  <2>5. Back(W2, j, disk', backup') /\ Step("settled", None) \in W2
    BY <1>1 DEF Back, RollbackWork, OfMainWork
  <2>6. Undoes(run.stage, run.incomplete, W2, j, disk', backup')
    <3>1. W2 \subseteq Undo(j) \cup {BeginStep}
      BY <1>3, <2>3
    <3> HIDE DEF W2
    <3> QED
      BY <3>1, <2>1, <2>5, <1>2 DEF Undoes, Opens
  <2> HIDE DEF W2
  <2> QED
    BY <2>4, <2>6, <1>6 DEF Mode
<1> QED
  BY <1>7, <1>8, <1>9

(* A step of the installer of Main that leaves journal and surfaces alone. *)
LEMMA MainStays ==
  ASSUME NEW v, Pre(v), run # None, run.root = Main, UNCHANGED <<journal, surfaces>>,
         NEW W, NEW stage, NEW incomplete, Goes(W, stage, incomplete),
         run' # None =>
           Mode(v, stage, run.release, incomplete, W, journal[Main], disk, backup)
  PROVE  Good
<1> DEFINE j == journal[Main]
<1>1. JournalTo(Main, j)
  BY JournalKept DEF Pre
<1>2. /\ disk' = disk /\ backup' = backup
      /\ disk' \in [Places -> Held] /\ backup' \in [Moved -> Held]
      /\ v \in Known /\ Rests(v, j, disk', backup')
  BY DEF Pre, InstallShaped, surfaces
<1>3. ShownBy(j, disk') = ShownBy(journal[Main], disk)
  BY <1>2
<1>4. run' # None => Mode(v, stage, run.release, incomplete, W, j, disk', backup')
  BY <1>2
<1> QED
  BY <1>1, <1>2, <1>3, <1>4, MainMoves

LEMMA RunFacts ==
  ASSUME InstallShaped, run # None
  PROVE  DOMAIN run = RunFields /\ Program(run.todo, Work(run.todo)) /\ run.root \in Roots
BY DEF InstallShaped

LEMMA MainFails ==
  ASSUME NEW v, Pre(v), run # None, run.root = Main, Fail PROVE Good
<1> DEFINE W == Work(run.todo)
           j == journal[Main]
           x == Head(run.todo)
           undone == <<Step("recoverMarketplace", None)>>
<1>1. /\ run.todo # <<>> /\ UNCHANGED <<journal, surfaces>> /\ DOMAIN run = RunFields
      /\ Program(run.todo, W) /\ Mine = j
      /\ Mode(v, run.stage, run.release, run.incomplete, W, j, disk, backup)
  BY RunFacts DEF Fail, Pre, Underway, Mine
<1>2. Program(undone, {})
  BY QuietPieces DEF MarketOps
<1>3. CASE x.op = "begin" /\ run' = [run EXCEPT !.stage = "failed", !.todo = undone]
  <2>1. Goes({}, "failed", run.incomplete)
    BY <1>1, <1>2, <1>3 DEF Goes, RunFields
  <2>2. Ends("failed", {}, j)
    BY DEF Ends
  <2>3. Mode(v, "failed", run.release, run.incomplete, {}, j, disk, backup)
    BY <2>2 DEF Mode
  <2> QED
    BY <1>1, <2>1, <2>3, MainStays
<1>4. CASE /\ run.stage = "active"
           /\ run' = [run EXCEPT !.stage = "failed", !.todo = Rollback(j) \o undone]
  <2>1. Active(j)
    BY <1>1, <1>4 DEF Mode, Opens, Advances, Undoes, Clears, Ends
  <2>2. j.recorded \subseteq Moved
    <3>1. j \in Journals
      BY <2>1, InstallAssumption DEF Pre, InstallShaped, Active
    <3> QED
      BY <3>1 DEF Journals
  <2>3. Program(Rollback(j) \o undone, RollbackWork(j))
    <3>1. Program(Rollback(j), RollbackWork(j))
      BY <2>2, RollbackIsProgram
    <3>2. Program(Rollback(j) \o undone, RollbackWork(j) \cup {})
      BY <3>1, <1>2, ProgramConcat
    <3> QED
      BY <3>2
  <2>4. Goes(RollbackWork(j), "failed", run.incomplete)
    BY <1>1, <1>4, <2>3 DEF Goes, RunFields
  <2>5. RollbackWork(j) \subseteq Undo(j)
    BY DEF RollbackWork, Undo, OfMainWork
  <2>6. Back(RollbackWork(j), j, disk, backup) /\ Step("settled", None) \in RollbackWork(j)
    BY DEF Back, RollbackWork, OfMainWork
  <2>7. BeginStep \notin RollbackWork(j)
    BY <2>5, OpsOf
  <2>8. Undoes("failed", run.incomplete, RollbackWork(j), j, disk, backup)
    BY <2>1, <2>5, <2>6, <2>7 DEF Undoes
  <2>9. Mode(v, "failed", run.release, run.incomplete, RollbackWork(j), j, disk, backup)
    BY <2>8 DEF Mode
  <2> QED
    BY <1>1, <2>4, <2>9, MainStays
<1>5. CASE x.op \in Undoing /\ run' = [run EXCEPT !.incomplete = TRUE, !.todo = Tail(@)]
  <2>1. MainAt(v, x)
    BY <1>1, <1>5 DEF MainAt, Undoing, MarketOps
  <2>2. Undoes(run.stage, run.incomplete, W, j, disk, backup)
    BY <1>5, <2>1, MainMode DEF Undoing
  <2>3. Program(Tail(run.todo), W \ {x})
    BY <2>1, MainAtFacts
  <2>4. Goes(W \ {x}, run.stage, TRUE)
    BY <1>1, <1>5, <2>3 DEF Goes, RunFields
  <2>5. Step("settled", None) \in W \ {x}
    BY <1>5, <2>2, Ops DEF Undoes, Undoing
  <2>6. Undoes(run.stage, TRUE, W \ {x}, j, disk, backup)
    BY <2>2, <2>5 DEF Undoes
  <2>7. Mode(v, run.stage, run.release, TRUE, W \ {x}, j, disk, backup)
    BY <2>6 DEF Mode
  <2> QED
    BY <1>1, <2>4, <2>7, MainStays
<1>6. CASE run' = None
  <2>1. Goes(W, run.stage, run.incomplete)
    BY <1>6 DEF Goes
  <2> QED
    BY <1>1, <1>6, <2>1, MainStays
<1>7. CASE run.stage = "committed" /\ run' = [run EXCEPT !.todo = AppServer]
  <2>1. Program(AppServer, Closing)
    BY AppServerWork DEF OfMainWork
  <2>2. Goes(Closing, run.stage, run.incomplete)
    BY <1>1, <1>7, <2>1 DEF Goes, RunFields
  <2>3. Ends(run.stage, Closing, j)
    BY <1>7, OpsOf DEF Ends
  <2>4. Mode(v, run.stage, run.release, run.incomplete, Closing, j, disk, backup)
    BY <2>3 DEF Mode
  <2> QED
    BY <1>1, <2>2, <2>4, MainStays
<1> QED
  BY <1>1, <1>3, <1>4, <1>5, <1>6, <1>7 DEF Fail

LEMMA MainSteps ==
  ASSUME NEW v, Pre(v), run # None, run.root = Main, Progress PROVE Good
<1> DEFINE W == Work(run.todo)
           x == Head(run.todo)
<1>1. CASE MarketplaceStep /\ UNCHANGED surfaces
  <2>1. GoesOn(W) /\ journal' = journal
    BY <1>1, RunFacts, MarketplaceKeeps DEF Pre
  <2>2. Mode(v, run.stage, run.release, run.incomplete, W, journal[Main], disk, backup)
    BY DEF Pre, Underway
  <2> QED
    BY <1>1, <2>1, <2>2, MainStays DEF GoesOn
<1>2. CASE Finish
  <2>1. Goes(W, run.stage, run.incomplete) /\ run' = None /\ UNCHANGED <<journal, surfaces>>
    BY <1>2 DEF Finish, Goes
  <2> QED
    BY <2>1, MainStays
<1>3. CASE Begin \/ Record \/ Aside \/ Place \/ Attempt \/ Add \/ RecordCurrent
  <2>1. MainAt(v, x)
    BY <1>3 DEF MainAt, MarketOps, At, Begin, Record, Aside, Place, Attempt, Add, RecordCurrent
  <2> QED
    BY <1>3, <2>1, MainBegins, MainRecords, MainMovesAside, MainPlaces, MainAttempts,
       MainAdds, MainRecordsCurrent
<1>4. CASE SwapCurrent \/ WriteState \/ CommitJournal \/ Clean \/ DropJournal \/ Refresh \/ Reconcile
  <2>1. MainAt(v, x)
    BY <1>4 DEF MainAt, MarketOps, At, SwapCurrent, WriteState, CommitJournal, Clean,
       DropJournal, Refresh, Reconcile
  <2> QED
    BY <1>4, <2>1, MainSwaps, MainWritesState, MainCommits, MainCleans, MainDrops,
       MainRefreshes, MainReconciles
<1>5. CASE Backwards
  <2>1. MainAt(v, x)
    BY <1>5 DEF MainAt, MarketOps, At, Backwards, Recover, PutBack, UnlinkCurrent,
       LinkCurrent, CacheBack, StateBack, Settled
  <2> QED
    BY <1>5, <2>1, MainRecovers, MainPutsBack, MainUnlinks, MainLinks, MainCachesBack,
       MainStatesBack, MainSettles DEF Backwards
<1> QED
  BY <1>1, <1>2, <1>3, <1>4, <1>5 DEF Progress, Forwards

-----------------------------------------------------------------------------
(* The installer of another root *)

OtherAt(v, x) ==
  /\ Pre(v) /\ run # None /\ run.root # Main
  /\ run.todo # <<>> /\ x = Head(run.todo) /\ x.op \notin MarketOps

LEMMA OtherFacts ==
  ASSUME NEW v, Pre(v), run # None, run.root # Main,
         NEW W, W = Work(run.todo), NEW j, j = journal[run.root]
  PROVE  /\ OtherMode(run.stage, W, j) /\ j \in Journals \cup {None}
         /\ j # None => /\ j.recorded = {} /\ j.current = Unrecorded
                        /\ j.existed \subseteq j.recorded
         /\ DOMAIN run = RunFields /\ Program(run.todo, W) /\ Mine = j
         /\ UNCHANGED journal => JournalTo(run.root, j)
BY JournalKept DEF Pre, InstallShaped, OthersMoveNothing, Mine

LEMMA OtherAtFacts ==
  ASSUME NEW v, NEW x, OtherAt(v, x), NEW W, W = Work(run.todo)
  PROVE  /\ x \in W /\ \A y \in W \ {x} : Rank(x) < Rank(y)
         /\ Program(Tail(run.todo), W \ {x})
         /\ Proceed => GoesOn(W \ {x})
BY Takes DEF OtherAt, Pre

LEMMA OtherOps ==
  ASSUME NEW stage, NEW W, NEW j, OtherMode(stage, W, j), NEW x \in W
  PROVE  /\ x \in {Step("recover", None), Step("settled", None), BeginStep, CommitStep, DropStep}
         /\ x.op \in {"recover", "settled", "begin", "commit", "dropJournal"}
<1>1. x \in {Step("recover", None), Step("settled", None), BeginStep, CommitStep, DropStep}
  BY DEF OtherMode, OtherWorks
<1> QED
  BY <1>1, Ops, OpsOf

(* It goes on without a surface being touched.                             *)
LEMMA OtherStays ==
  ASSUME NEW v, Pre(v), run # None, run.root # Main, UNCHANGED <<journal, surfaces>>,
         NEW W, NEW stage, NEW incomplete, Goes(W, stage, incomplete),
         run' # None => OtherMode(stage, W, journal[run.root])
  PROVE  Good
BY OtherFacts, OthersMove

LEMMA OtherBegins ==
  ASSUME NEW v, NEW x, OtherAt(v, x), Begin PROVE Good
<1> DEFINE k == NewJournal(disk)
           W == {CommitStep, DropStep}
<1>1. /\ UNCHANGED surfaces /\ Journal(k)
      /\ run' = [run EXCEPT !.todo = Forward, !.stage = "active"]
  BY DEF Begin
<1>2. Program(Forward, W)
  BY ForwardWork DEF OfMainWork, OtherAt
<1>3. Goes(W, "active", run.incomplete)
  BY <1>1, <1>2, OtherFacts DEF Goes, RunFields, OtherAt
<1>4. /\ k \in Journals /\ k # None /\ k.recorded = {} /\ k.existed = {}
      /\ k.current = Unrecorded
  <2>1. disk["cache"] \in Held /\ disk["state"] \in Held
    BY PlacesAre DEF OtherAt, Pre, InstallShaped
  <2>2. k \in Journals
    BY <2>1 DEF NewJournal, Journals
  <2> QED
    BY <2>2, InstallAssumption DEF NewJournal
<1> HIDE DEF k, W
<1>5. JournalTo(run.root, k)
  BY <1>1, <1>4, JournalWritten DEF OtherAt, Pre
<1>6. OtherMode("active", W, k)
  BY <1>4 DEF OtherMode, W
<1> QED
  BY <1>1, <1>3, <1>4, <1>5, <1>6, OthersMove DEF OtherAt

LEMMA OtherCommits ==
  ASSUME NEW v, NEW x, OtherAt(v, x), CommitJournal PROVE Good
<1> DEFINE W == Work(run.todo)
           j == journal[run.root]
           k == [j EXCEPT !.status = "committed"]
<1>1. /\ x.op = "commit" /\ UNCHANGED surfaces /\ Journal(k)
      /\ run' = [run EXCEPT !.todo = Tail(@), !.stage = "committed"]
  BY DEF CommitJournal, At, OtherAt, Mine
<1>2. x \in W /\ OtherMode(run.stage, W, j) /\ Program(Tail(run.todo), W \ {x})
  BY OtherAtFacts, OtherFacts DEF OtherAt
<1>3. x = CommitStep
  BY <1>1, <1>2, OtherOps, Ops, OpsOf
<1>4. W = {CommitStep, DropStep} /\ j # None
  <2>1. \A S \in OtherWorks : CommitStep \notin S
    BY Ops, OpsOf DEF OtherWorks
  <2> QED
    BY <1>2, <1>3, <2>1 DEF OtherMode
<1>5. j \in Journals /\ j.recorded = {} /\ j.current = Unrecorded /\ j.existed \subseteq j.recorded
  BY <1>4, OtherFacts DEF OtherAt
<1>6. /\ k \in Journals /\ k.recorded = {} /\ k.current = Unrecorded
      /\ k.existed \subseteq k.recorded
  BY <1>5 DEF Journals
<1>7. Goes(W \ {x}, "committed", run.incomplete)
  BY <1>1, <1>2, OtherFacts DEF Goes, RunFields, OtherAt
<1>8. W \ {x} \in OtherWorks
  BY <1>3, <1>4 DEF OtherWorks
<1> HIDE DEF k, W
<1>9. JournalTo(run.root, k)
  BY <1>1, <1>6, JournalWritten DEF OtherAt, Pre
<1>10. OtherMode("committed", W \ {x}, k)
  BY <1>8 DEF OtherMode
<1> QED
  BY <1>1, <1>6, <1>7, <1>9, <1>10, OthersMove DEF OtherAt

LEMMA OtherDrops ==
  ASSUME NEW v, NEW x, OtherAt(v, x), DropJournal PROVE Good
<1> DEFINE W == Work(run.todo)
           j == journal[run.root]
<1>1. x.op = "dropJournal" /\ UNCHANGED surfaces /\ Journal(None) /\ Proceed
  BY DEF DropJournal, At, OtherAt
<1>2. /\ x \in W /\ OtherMode(run.stage, W, j) /\ GoesOn(W \ {x})
      /\ \A y \in W \ {x} : Rank(x) < Rank(y)
  BY <1>1, OtherAtFacts, OtherFacts DEF OtherAt
<1>3. x = DropStep
  BY <1>1, <1>2, OtherOps, Ops, OpsOf
<1>4. CommitStep \notin W
  <2> SUFFICES ASSUME CommitStep \in W PROVE FALSE
    OBVIOUS
  <2>1. CommitStep \in W \ {x}
    BY <1>3, OpsOf
  <2> QED
    BY <2>1, <1>2, <1>3, Ranks DEF CommitStep
<1>5. run.stage # "active" /\ W \in OtherWorks
  BY <1>2, <1>4 DEF OtherMode
<1>6. W \ {x} \in OtherWorks
  <2>1. W # {Step("recover", None), BeginStep}
    BY <1>2, <1>3, OpsOf
  <2>2. W \in SUBSET {Step("settled", None), BeginStep} \/ W \in SUBSET {DropStep, BeginStep}
    BY <1>5, <2>1 DEF OtherWorks
  <2> HIDE DEF W
  <2> QED
    BY <2>2 DEF OtherWorks
<1>7. JournalTo(run.root, None)
  BY <1>1, JournalWritten DEF OtherAt, Pre
<1>8. OtherMode(run.stage, W \ {x}, None)
  BY <1>5, <1>6 DEF OtherMode
<1> QED
  BY <1>1, <1>2, <1>7, <1>8, OthersMove DEF OtherAt, GoesOn

LEMMA OtherRecovers ==
  ASSUME NEW v, NEW x, OtherAt(v, x), Recover PROVE Good
<1> DEFINE W == Work(run.todo)
           j == journal[run.root]
<1>1. x.op = "recover" /\ UNCHANGED <<journal, surfaces>>
  BY DEF Recover, At, OtherAt
<1>2. x \in W /\ OtherMode(run.stage, W, j)
  BY OtherAtFacts, OtherFacts DEF OtherAt
<1>3. x = Step("recover", None)
  BY <1>1, <1>2, OtherOps, Ops, OpsOf
<1>4. run.stage # "active" /\ W = {x, BeginStep}
  BY <1>2, <1>3, Ops, OpsOf DEF OtherMode, OtherWorks
<1>5. W \ {x} = {BeginStep}
  BY <1>3, <1>4, OpsOf
<1>6. ASSUME NEW s, NEW S, Program(s, S), S = {Step("settled", None)} \/ S = {DropStep},
             ProceedWith(s)
      PROVE  Good
  <2>1. \A y \in S, z \in W \ {x} : Rank(y) < Rank(z)
    BY <1>5, <1>6, Ranks
  <2>2. GoesOn(S \cup (W \ {x}))
    BY <1>6, <2>1, TakesWith DEF OtherAt, Pre
  <2>3. S \cup {BeginStep} \in OtherWorks
    BY <1>6 DEF OtherWorks
  <2>4. OtherMode(run.stage, S \cup {BeginStep}, j)
    BY <1>4, <2>3 DEF OtherMode
  <2> QED
    BY <1>1, <1>5, <2>2, <2>4, OtherStays DEF OtherAt, GoesOn
<1>7. CASE Proceed
  <2>1. GoesOn({BeginStep})
    BY <1>5, <1>7, OtherAtFacts
  <2>2. OtherMode(run.stage, {BeginStep}, j)
    BY <1>4 DEF OtherMode, OtherWorks
  <2> QED
    BY <1>1, <2>1, <2>2, OtherStays DEF OtherAt, GoesOn
<1>8. CASE ProceedWith(CleanUpSurfaces \o <<DropStep>>)
  <2>1. Program(CleanUpSurfaces \o <<DropStep>>, {DropStep})
    BY CleanUpWork DEF OfMainWork, OtherAt
  <2> QED
    BY <1>6, <1>8, <2>1
<1>9. CASE j # None /\ ProceedWith(Rollback(j))
  <2>1. j.recorded = {} /\ j.current = Unrecorded
    BY <1>9, OtherFacts DEF OtherAt
  <2>2. RollbackWork(j) = {Step("settled", None)}
    BY <2>1 DEF RollbackWork, OfMainWork, OtherAt
  <2>3. Program(Rollback(j), {Step("settled", None)})
    BY <2>1, <2>2, RollbackIsProgram
  <2> QED
    BY <1>6, <1>9, <2>3
<1> QED
  BY <1>7, <1>8, <1>9 DEF Recover, Mine, DropStep

LEMMA OtherSettles ==
  ASSUME NEW v, NEW x, OtherAt(v, x), Settled PROVE Good
<1> DEFINE W == Work(run.todo)
           j == journal[run.root]
<1>1. /\ x.op = "settled" /\ UNCHANGED <<journal, surfaces>>
      /\ Proceed \/ Throw \/ ProceedWith(CleanUpSurfaces \o <<DropStep>>)
  BY DEF Settled, At, OtherAt, DropStep
<1>2. x \in W /\ OtherMode(run.stage, W, j) /\ (Proceed => GoesOn(W \ {x}))
  BY OtherAtFacts, OtherFacts DEF OtherAt
<1>3. x = Step("settled", None)
  BY <1>1, <1>2, OtherOps, Ops, OpsOf
<1>4. run.stage # "active" /\ W \ {x} \subseteq {BeginStep}
  BY <1>2, <1>3, Ops, OpsOf DEF OtherMode, OtherWorks
<1>5. CASE Proceed \/ Throw
  <2>1. GoesOn(W \ {x})
    BY <1>2, <1>5 DEF Throw, GoesOn, Goes
  <2>2. W \ {x} \in OtherWorks
    BY <1>4 DEF OtherWorks
  <2>3. OtherMode(run.stage, W \ {x}, j)
    BY <1>4, <2>2 DEF OtherMode
  <2> QED
    BY <1>1, <2>1, <2>3, OtherStays DEF OtherAt, GoesOn
<1>6. CASE ProceedWith(CleanUpSurfaces \o <<DropStep>>)
  <2>1. Program(CleanUpSurfaces \o <<DropStep>>, {DropStep})
    BY CleanUpWork DEF OfMainWork, OtherAt
  <2>2. \A y \in {DropStep}, z \in W \ {x} : Rank(y) < Rank(z)
    BY <1>4, Ranks
  <2>3. GoesOn({DropStep} \cup (W \ {x}))
    BY <1>6, <2>1, <2>2, TakesWith DEF OtherAt, Pre
  <2>4. {DropStep} \cup (W \ {x}) \in OtherWorks
    BY <1>4 DEF OtherWorks
  <2>5. OtherMode(run.stage, {DropStep} \cup (W \ {x}), j)
    BY <1>4, <2>4 DEF OtherMode
  <2> QED
    BY <1>1, <2>3, <2>5, OtherStays DEF OtherAt, GoesOn
<1> QED
  BY <1>1, <1>5, <1>6

LEMMA OtherFails ==
  ASSUME NEW v, Pre(v), run # None, run.root # Main, Fail PROVE Good
<1> DEFINE W == Work(run.todo)
           j == journal[run.root]
           x == Head(run.todo)
           undone == <<Step("recoverMarketplace", None)>>
<1>1. /\ run.todo # <<>> /\ UNCHANGED <<journal, surfaces>> /\ DOMAIN run = RunFields
      /\ Program(run.todo, W) /\ Mine = j /\ OtherMode(run.stage, W, j)
  BY OtherFacts DEF Fail
<1>2. Program(undone, {})
  BY QuietPieces DEF MarketOps
<1>3. {} \in OtherWorks /\ {Step("settled", None)} \in OtherWorks
  BY DEF OtherWorks
<1>4. CASE run' = [run EXCEPT !.stage = "failed", !.todo = undone]
  <2>1. Goes({}, "failed", run.incomplete)
    BY <1>1, <1>2, <1>4 DEF Goes, RunFields
  <2>2. OtherMode("failed", {}, j)
    BY <1>3 DEF OtherMode
  <2> QED
    BY <1>1, <2>1, <2>2, OtherStays
<1>5. CASE /\ run.stage = "active"
           /\ run' = [run EXCEPT !.stage = "failed", !.todo = Rollback(j) \o undone]
  <2>1. j.recorded = {} /\ j.current = Unrecorded
    BY <1>1, <1>5, OtherFacts DEF OtherMode
  <2>2. RollbackWork(j) = {Step("settled", None)}
    BY <2>1 DEF RollbackWork, OfMainWork
  <2>3. Program(Rollback(j), {Step("settled", None)})
    BY <2>1, <2>2, RollbackIsProgram
  <2>4. Program(Rollback(j) \o undone, {Step("settled", None)} \cup {})
    BY <1>2, <2>3, ProgramConcat
  <2>5. Goes({Step("settled", None)}, "failed", run.incomplete)
    BY <1>1, <1>5, <2>4 DEF Goes, RunFields
  <2>6. OtherMode("failed", {Step("settled", None)}, j)
    BY <1>3 DEF OtherMode
  <2> QED
    BY <1>1, <2>5, <2>6, OtherStays
<1>6. CASE x.op \in Undoing
  <2>1. OtherAt(v, x)
    BY <1>1, <1>6 DEF OtherAt, Undoing, MarketOps
  <2>2. x \in W
    BY <2>1, OtherAtFacts
  <2> QED
    BY <1>1, <1>6, <2>2, OtherOps DEF Undoing
<1>7. CASE run' = None
  <2>1. Goes(W, run.stage, run.incomplete)
    BY <1>7 DEF Goes
  <2> QED
    BY <1>1, <1>7, <2>1, OtherStays
<1>8. CASE run.stage = "committed" /\ run' = [run EXCEPT !.todo = AppServer]
  <2>1. Program(AppServer, {})
    BY AppServerWork DEF OfMainWork
  <2>2. Goes({}, run.stage, run.incomplete)
    BY <1>1, <1>8, <2>1 DEF Goes, RunFields
  <2>3. OtherMode(run.stage, {}, j)
    BY <1>3, <1>8 DEF OtherMode
  <2> QED
    BY <1>1, <2>2, <2>3, OtherStays
<1> QED
  BY <1>1, <1>4, <1>5, <1>6, <1>7, <1>8 DEF Fail

LEMMA OtherSteps ==
  ASSUME NEW v, Pre(v), run # None, run.root # Main, Progress PROVE Good
<1> DEFINE W == Work(run.todo)
           x == Head(run.todo)
<1>1. OtherMode(run.stage, W, journal[run.root]) /\ DOMAIN run = RunFields /\ Program(run.todo, W)
  BY OtherFacts
<1>2. CASE MarketplaceStep /\ UNCHANGED surfaces
  <2>1. GoesOn(W) /\ journal' = journal
    BY <1>1, <1>2, MarketplaceKeeps
  <2> QED
    BY <1>1, <1>2, <2>1, OtherStays DEF GoesOn
<1>3. CASE Finish
  <2>1. Goes(W, run.stage, run.incomplete) /\ run' = None /\ UNCHANGED <<journal, surfaces>>
    BY <1>3 DEF Finish, Goes
  <2> QED
    BY <2>1, OtherStays
<1>4. CASE \/ Record \/ Aside \/ Place \/ Attempt \/ Add \/ RecordCurrent \/ SwapCurrent
           \/ WriteState \/ Clean \/ Refresh \/ Reconcile
  <2>1. /\ x.op \in {"record", "aside", "place", "attempt", "add", "recordCurrent",
                     "swapCurrent", "state", "clean", "refresh", "reconcile"}
        /\ run.todo # <<>>
    BY <1>4 DEF At, Record, Aside, Place, Attempt, Add, RecordCurrent, SwapCurrent,
       WriteState, Clean, Refresh, Reconcile
  <2>2. OtherAt(v, x)
    BY <2>1 DEF OtherAt, MarketOps
  <2> QED
    BY <1>1, <2>1, <2>2, OtherAtFacts, OtherOps
<1>5. CASE PutBack \/ UnlinkCurrent \/ LinkCurrent \/ CacheBack \/ StateBack
  <2>1. /\ x.op \in {"putBack", "unlinkCurrent", "linkCurrent", "cacheBack", "stateBack"}
        /\ run.todo # <<>>
    BY <1>5 DEF At, PutBack, UnlinkCurrent, LinkCurrent, CacheBack, StateBack
  <2>2. OtherAt(v, x)
    BY <2>1 DEF OtherAt, MarketOps
  <2> QED
    BY <1>1, <2>1, <2>2, OtherAtFacts, OtherOps
<1>6. CASE Begin \/ CommitJournal \/ DropJournal \/ Recover \/ Settled
  <2>1. OtherAt(v, x)
    BY <1>6 DEF OtherAt, MarketOps, At, Begin, CommitJournal, DropJournal, Recover, Settled
  <2> QED
    BY <1>6, <2>1, OtherBegins, OtherCommits, OtherDrops, OtherRecovers, OtherSettles
<1> QED
  BY <1>2, <1>3, <1>4, <1>5, <1>6 DEF Progress, Forwards, Backwards

-----------------------------------------------------------------------------
(* All steps *)

LEMMA InstallInvInit == InstallInit => InstallInv
<1> SUFFICES ASSUME InstallInit PROVE InstallInv
  OBVIOUS
<1>1. PICK v \in {None, "legacy", Earlier} : disk = Whole(v)
  BY DEF InstallInit
<1>2. /\ backup = [s \in Moved |-> None] /\ journal = [r \in Roots |-> None]
      /\ run = None
  BY DEF InstallInit
<1>3. v \in Known /\ Main \in Roots /\ None \in Held
  BY InstallAssumption DEF Known, Held
<1>4. Whole(v) \in [Places -> Held]
  BY <1>3 DEF Whole, Held, Known
<1>5. InstallShaped
  BY <1>1, <1>2, <1>3, <1>4 DEF InstallShaped
<1>6. OthersMoveNothing
  BY <1>2 DEF OthersMoveNothing
<1>7. Rests(v, journal[Main], disk, backup)
  BY <1>1, <1>2, <1>3 DEF Rests, Active, Stands, Clear
<1>8. Transaction
  BY <1>2, <1>3, <1>7 DEF Transaction, Underway
<1> QED
  BY <1>5, <1>6, <1>8 DEF InstallInv

\* A step that leaves surfaces and journals alone keeps what they tell.
LEMMA RestsStays ==
  ASSUME NEW v, Pre(v), UNCHANGED <<journal, surfaces>>
  PROVE  /\ Shown' = Shown /\ disk' = disk /\ backup' = backup /\ journal' = journal
         /\ v \in Known /\ Rests(v, journal'[Main], disk', backup')
BY DEF Pre, surfaces, Shown

LEMMA InstallerEnds ==
  ASSUME NEW v, Pre(v), run' = None, UNCHANGED <<journal, surfaces>> PROVE Good
<1>1. InstallShaped'
  BY RestsStays DEF Pre, InstallShaped
<1>2. OthersMoveNothing'
  BY RestsStays DEF Pre, OthersMoveNothing
<1>3. Transaction'
  BY RestsStays DEF Transaction, Underway
<1> QED
  BY <1>1, <1>2, <1>3, RestsStays DEF Good, Decided

LEMMA InstallerWaits ==
  ASSUME NEW v, Pre(v), run' = run, UNCHANGED <<journal, surfaces>> PROVE Good
<1>1. InstallShaped'
  BY RestsStays DEF Pre, InstallShaped
<1>2. OthersMoveNothing'
  BY RestsStays DEF Pre, OthersMoveNothing
<1>3. Transaction'
  BY RestsStays DEF Pre, Transaction, Underway
<1> QED
  BY <1>1, <1>2, <1>3, RestsStays DEF Good, Decided

LEMMA InstallerStarts ==
  ASSUME NEW v, Pre(v), NEW r \in Roots, Start(r) PROVE Good
<1> DEFINE W == {Step("recover", None), BeginStep}
           open == <<Step("recoverMarketplace", None), Step("recover", None)>>
           begin == <<Step("ensure", None), Step("begin", None)>>
           todo == <<Step("recoverMarketplace", None), Step("recover", None),
                     Step("ensure", None), Step("begin", None)>>
<1>1. PICK release \in Releases :
        run' = [root |-> r, release |-> release, settling |-> FALSE, stage |-> "opening",
                incomplete |-> FALSE, todo |-> todo]
  BY DEF Start
<1>2. UNCHANGED <<journal, surfaces>>
  BY DEF Start
<1>3. Program(todo, W)
  <2>1. Program(<<Step("recoverMarketplace", None)>>, {}) /\ Program(<<Step("ensure", None)>>, {})
    BY QuietPieces DEF MarketOps
  <2>2. Program(<<Step("recover", None)>>, {Step("recover", None)})
    BY Ops, ProgramOne
  <2>3. Program(<<BeginStep>>, {BeginStep})
    BY OpsOf, Ops, ProgramOne DEF BeginStep
  <2>4. Program(<<Step("recoverMarketplace", None)>> \o <<Step("recover", None)>>,
                {Step("recover", None)})
    BY <2>1, <2>2, QuietConcat
  <2>5. Program(<<Step("ensure", None)>> \o <<BeginStep>>, {BeginStep})
    BY <2>1, <2>3, QuietConcat
  <2>6. /\ open = <<Step("recoverMarketplace", None)>> \o <<Step("recover", None)>>
        /\ begin = <<Step("ensure", None)>> \o <<BeginStep>>
        /\ todo = open \o begin
    BY DEF BeginStep
  <2>7. \A y \in {Step("recover", None)}, z \in {BeginStep} : Rank(y) < Rank(z)
    BY Ranks
  <2>8. Program(open \o begin, {Step("recover", None)} \cup {BeginStep})
    <3>1. Program(open, {Step("recover", None)}) /\ Program(begin, {BeginStep})
      BY <2>4, <2>5, <2>6
    <3> HIDE DEF open, begin
    <3> QED
      BY <3>1, <2>7, ProgramConcat
  <2> QED
    BY <2>6, <2>8
<1> HIDE DEF todo
<1>4. /\ run' # None => /\ DOMAIN run' = RunFields /\ run'.root = r
                        /\ run'.release = release /\ run'.stage = "opening"
                        /\ run'.todo = todo
  BY <1>1 DEF RunFields
<1>5. run' # None => Work(run'.todo) = W /\ Program(run'.todo, Work(run'.todo))
  BY <1>3, <1>4 DEF Program
<1>6. InstallShaped'
  BY <1>2, <1>4, <1>5, RestsStays DEF Pre, InstallShaped
<1>7. OthersMoveNothing'
  <2>1. run' # None => OtherMode(run'.stage, Work(run'.todo), journal'[run'.root])
    BY <1>4, <1>5 DEF OtherMode, OtherWorks
  <2> QED
    BY <1>2, <2>1, RestsStays DEF Pre, OthersMoveNothing
<1>8. Transaction'
  <2>1. run' # None => Opens(run'.stage, Work(run'.todo))
    BY <1>4, <1>5 DEF Opens
  <2>2. Underway(v)'
    BY <2>1 DEF Underway, Mode
  <2> QED
    BY <1>2, <2>2, RestsStays DEF Transaction
<1> QED
  BY <1>2, <1>6, <1>7, <1>8, RestsStays DEF Good, Decided

InstallNext == InstallerStep \/ \E r \in Roots : Start(r)

LEMMA ProgressRuns == Progress => run # None
<1>1. CASE MarketplaceStep
  BY <1>1 DEF MarketplaceStep, Ensure, WriteCandidate, Displace, Link, Rm, Verify,
     Compare, RecoverMarketplace, TakeAway, CompareTaken, RestoreFrom, DropIntent, At
<1>2. CASE Forwards
  BY <1>2 DEF Forwards, Begin, Record, Aside, Place, Attempt, Add, RecordCurrent,
     SwapCurrent, WriteState, CommitJournal, Clean, DropJournal, Refresh, Reconcile,
     Finish, At
<1>3. CASE Backwards
  BY <1>3 DEF Backwards, Recover, PutBack, UnlinkCurrent, LinkCurrent, CacheBack,
     StateBack, Settled, At
<1> QED
  BY <1>1, <1>2, <1>3 DEF Progress

LEMMA InstallInvStep ==
  ASSUME InstallInv, [InstallNext]_installer
  PROVE  InstallInv' /\ Decided
<1>1. PICK v \in Known : Pre(v)
  BY DEF InstallInv, Transaction, Pre
<1>2. CASE Progress
  <2>1. run # None
    BY <1>2, ProgressRuns
  <2>2. Good
    BY <1>1, <1>2, <2>1, MainSteps, OtherSteps
  <2> QED
    BY <2>2 DEF Good, InstallInv
<1>3. CASE Fail
  <2>1. run # None
    BY <1>3 DEF Fail
  <2>2. Good
    BY <1>1, <1>3, <2>1, MainFails, OtherFails
  <2> QED
    BY <2>2 DEF Good, InstallInv
<1>4. CASE Crash
  <2>1. Good
    BY <1>1, <1>4, InstallerEnds DEF Crash
  <2> QED
    BY <2>1 DEF Good, InstallInv
<1>5. CASE (Edit /\ UNCHANGED surfaces) \/ UNCHANGED installer
  <2>1. Good
    BY <1>1, <1>5, InstallerWaits DEF Edit, installer
  <2> QED
    BY <2>1 DEF Good, InstallInv
<1>6. CASE \E r \in Roots : Start(r)
  <2>1. Good
    BY <1>1, <1>6, InstallerStarts
  <2> QED
    BY <2>1 DEF Good, InstallInv
<1> QED
  BY <1>2, <1>3, <1>4, <1>5, <1>6 DEF InstallNext, InstallerStep

(* Without a journal the surfaces rest.                                    *)
LEMMA InvIsWhole == InstallInv => AllOrNothing
<1> SUFFICES ASSUME InstallInv, run = None, journal[Main] = None
             PROVE  /\ \E v \in Known : Stands(v, disk)
                    /\ Clear(backup)
  BY DEF AllOrNothing, Stands, Clear
<1> QED
  BY DEF InstallInv, Transaction, Rests, Active

(* The invariant: at every moment, and after every cut, the surfaces of     *)
(* Main are of one release or go back to one, and the rest of the          *)
(* installer's program, or a recovery from the journal, takes them there.  *)
THEOREM InstallInvHolds == InstallSpec => []InstallInv
<1>1. InstallInv /\ [InstallNext]_installer => InstallInv'
  BY InstallInvStep
<1> QED
  BY <1>1, InstallInvInit, PTL DEF InstallSpec, InstallNext

(* Once no journal is left every surface is of one release and nothing is  *)
(* left aside, whatever failed, was cut off or was rolled back before.     *)
THEOREM InstallIsWhole == InstallSpec => []AllOrNothing
<1>1. InstallInv => AllOrNothing
  BY InvIsWhole
<1> QED
  BY <1>1, InstallInvHolds, PTL

(* Only the commit marker changes which release is installed, and then     *)
(* every surface is of it: neither a failure, a cut, nor the recovery of a *)
(* later installer does.                                                   *)
THEOREM MarkerDecides == InstallSpec => CommitDecides
<1>1. InstallInv /\ [InstallNext]_installer =>
        [Shown' # Shown =>
           /\ journal[Main]' # None /\ journal[Main]'.status = "committed"
           /\ \A p \in Places : disk'[p] = Whole(Shown')[p]]_installer
  BY InstallInvStep DEF Decided
<1> QED
  BY <1>1, InstallInvHolds, PTL DEF InstallSpec, InstallNext, CommitDecides

(* Beside workers, too: the worker side writes nothing the installer reads. *)
LEMMA NextInstalls ==
  ASSUME [Next]_<<installer, runtime>> PROVE [InstallNext]_installer
<1>1. ASSUME NEW w \in Workers, WorkerStep(w) PROVE UNCHANGED installer
  BY <1>1 DEF WorkerStep, Import, Derive, Register, RegisterTimesOut, Admit, Recheck, Inspect,
     CommitMutation, Drain, RemoveLease, Exit, KeepInstaller
<1>2. CASE UNCHANGED <<installer, runtime>>
  BY <1>2
<1>3. CASE Next
  BY <1>1, <1>3 DEF Next, Install, InstallNext
<1> QED
  BY <1>2, <1>3

(* Both hold of the installer beside any workers.                          *)
THEOREM InstallBesideWorkers == Spec => []AllOrNothing /\ CommitDecides
<1>1. InstallInv /\ [Next]_<<installer, runtime>> => InstallInv'
  BY NextInstalls, InstallInvStep
<1>2. RuntimeInit => InstallInv
  BY InstallInvInit DEF RuntimeInit
<1>3. Spec => []InstallInv
  BY <1>1, <1>2, PTL DEF Spec
<1>4. InstallInv => AllOrNothing
  BY InvIsWhole
<1>5. InstallInv /\ [Next]_<<installer, runtime>> =>
        [Shown' # Shown =>
           /\ journal[Main]' # None /\ journal[Main]'.status = "committed"
           /\ \A p \in Places : disk'[p] = Whole(Shown')[p]]_installer
  BY NextInstalls, InstallInvStep DEF Decided
<1> QED
  BY <1>3, <1>4, <1>5, PTL DEF Spec, CommitDecides

-----------------------------------------------------------------------------
(* The marketplace: what is left of a program *)

(* A program's next step, and what is left of it.                          *)
LEMMA ThenIs ==
  \A x, t : IsSeq(t) =>
    /\ IsSeq(Then(x, t)) /\ Then(x, t) # <<>> /\ Head(Then(x, t)) = x /\ Tail(Then(x, t)) = t
    /\ Len(Then(x, t)) = Len(t) + 1
<1> SUFFICES ASSUME NEW x, NEW t, IsSeq(t)
             PROVE  /\ IsSeq(Then(x, t)) /\ Then(x, t) # <<>>
                    /\ Head(Then(x, t)) = x /\ Tail(Then(x, t)) = t
                    /\ Len(Then(x, t)) = Len(t) + 1
  OBVIOUS
<1> DEFINE S == {t[i] : i \in DOMAIN t} \cup {x}
<1>1. t \in Seq({t[i] : i \in DOMAIN t})
  BY DEF IsSeq
<1>2. t \in Seq(S) /\ x \in S
  BY <1>1, SeqMonotonic
<1> HIDE DEF S
<1>3. /\ <<x>> \o t \in Seq(S) /\ <<x>> \o t # <<>> /\ Head(<<x>> \o t) = x
      /\ Tail(<<x>> \o t) = t /\ Len(<<x>> \o t) = Len(t) + 1
  BY <1>2
<1> QED
  BY <1>3, InSeq DEF Then

LEMMA StepFacts == \A o, x : Step(o, x).op = o /\ Step(o, x).arg = x
BY DEF Step

LEMMA EmptyIsSeq == IsSeq(<<>>) /\ Len(<<>>) = 0
<1>1. <<>> \in Seq({}) /\ Len(<<>>) = 0
  BY EmptySeq
<1> QED
  BY <1>1, InSeq

LEMMA OneIsSeq == \A x : IsSeq(<<x>>) /\ <<x>> = Then(x, <<>>)
<1> SUFFICES ASSUME NEW x PROVE IsSeq(<<x>>) /\ <<x>> = Then(x, <<>>)
  OBVIOUS
<1>1. <<x>> \in Seq({x}) /\ <<x>> = <<x>> \o <<>>
  OBVIOUS
<1> QED
  BY <1>1, InSeq DEF Then

LEMMA RestIs ==
  /\ IsSeq(<<BeginStep>>) /\ IsSeq(Opening) /\ IsSeq(Rest) /\ IsSeq(Checked)
<1>1. IsSeq(<<BeginStep>>) /\ IsSeq(<<>>)
  BY OneIsSeq, EmptyIsSeq
<1>2. IsSeq(Opening)
  BY <1>1, ThenIs DEF Opening
<1>3. IsSeq(Rest)
  BY <1>1, <1>2, ThenIs DEF Rest
<1> QED
  BY <1>1, <1>2, <1>3, ThenIs DEF Checked, Check

LEMMA WriteIs ==
  ASSUME NEW old, NEW new, NEW t, IsSeq(t)
  PROVE  /\ IsSeq(RmCandidate(t)) /\ IsSeq(RmDisplaced(t)) /\ IsSeq(LinkOver(old, t))
         /\ IsSeq(CompareWith(old, t)) /\ IsSeq(DisplaceOld(old, t))
         /\ IsSeq(Write(old, new, t))
<1>1. IsSeq(RmCandidate(t)) /\ IsSeq(RmDisplaced(t))
  BY ThenIs DEF RmCandidate, RmDisplaced
<1>2. IsSeq(LinkOver(old, t))
  BY <1>1, ThenIs DEF LinkOver
<1>3. IsSeq(CompareWith(old, t)) /\ IsSeq(DisplaceOld(old, t))
  BY <1>2, ThenIs DEF CompareWith, DisplaceOld
<1> QED
  BY <1>1, <1>2, <1>3, ThenIs DEF Write

LEMMA CleanIs ==
  ASSUME NEW t, IsSeq(t)
  PROVE  /\ IsSeq(CleanR(t)) /\ IsSeq(CleanC(t)) /\ IsSeq(CleanD(t))
         /\ \A f : IsSeq(RmRestored(f, t)) /\ IsSeq(RestoreOf(f, t))
         /\ \A c : IsSeq(CompareTakenWith(c, t)) /\ IsSeq(TakeOld(c, t))
<1>1. IsSeq(CleanR(t)) /\ IsSeq(CleanC(t)) /\ IsSeq(CleanD(t))
  BY ThenIs DEF CleanR, CleanC, CleanD
<1>2. \A f : IsSeq(RmRestored(f, t)) /\ IsSeq(RestoreOf(f, t))
  BY <1>1, ThenIs DEF RmRestored, RestoreOf
<1>3. \A c : IsSeq(CompareTakenWith(c, t)) /\ IsSeq(TakeOld(c, t))
  BY <1>1, ThenIs DEF CompareTakenWith, TakeOld
<1> QED
  BY <1>1, <1>2, <1>3

LEMMA SameRun ==
  ASSUME UNCHANGED <<intent, journal, edits>>,
         run'.stage = run.stage, run'.settling = run.settling
  PROVE  /\ Wanted' = Wanted /\ Unwanted' = Unwanted /\ Old' = Old /\ New' = New
         /\ Rest' = Rest /\ Checked' = Checked /\ (Untouched' <=> Untouched)
         /\ (Committed(intent.root)' <=> Committed(intent.root)) /\ (Adds' <=> Adds)
<1>1. /\ Wanted' = Wanted /\ Unwanted' = Unwanted /\ (Untouched' <=> Untouched)
      /\ (Committed(intent.root)' <=> Committed(intent.root)) /\ (Adds' <=> Adds)
  BY DEF Wanted, Unwanted, Untouched, Committed, Adds
<1>2. Old' = Old /\ New' = New
  BY <1>1 DEF Old, New
<1>3. Rest' = Rest
  BY DEF Rest
<1> QED
  BY <1>1, <1>2, <1>3 DEF Checked

-----------------------------------------------------------------------------
(* The marketplace: the places within an update or a recovery *)

\* A step of the marketplace takes the first step of the program.
LEMMA MarketActs ==
  ASSUME Progress, run # None, run.todo # <<>>, NEW op \in MarketOps, Head(run.todo).op = op
  PROVE  /\ UNCHANGED <<surfaces, journal, edits, faults>>
         /\ op = "ensure" => Ensure
         /\ op = "candidate" => WriteCandidate
         /\ op = "displace" => Displace
         /\ op = "compare" => Compare
         /\ op = "link" => Link
         /\ op = "rm" => Rm
         /\ op = "verify" => Verify
         /\ op = "recoverMarketplace" => RecoverMarketplace
         /\ op # "refuse"
         /\ op = "take" => TakeAway
         /\ op = "compareTaken" => CompareTaken
         /\ op = "restore" => RestoreFrom
         /\ op = "dropIntent" => DropIntent
<1>1. ~ Forwards
  BY DEF MarketOps, Forwards, At, Begin, Record, Aside, Place, Attempt, Add, RecordCurrent,
     SwapCurrent, WriteState, CommitJournal, Clean, DropJournal, Refresh, Reconcile, Finish
<1>2. ~ Backwards
  BY DEF MarketOps, Backwards, At, Recover, PutBack, UnlinkCurrent, LinkCurrent, CacheBack,
     StateBack, Settled
<1>3. MarketplaceStep /\ UNCHANGED surfaces
  BY <1>1, <1>2 DEF Progress
<1>4. UNCHANGED <<journal, edits, faults>>
  BY <1>3 DEF MarketplaceStep, Ensure, WriteCandidate, Displace, Compare, Link, Rm, Verify,
     RecoverMarketplace, TakeAway, CompareTaken, RestoreFrom, DropIntent, Keep
<1>5. /\ Ensure => op = "ensure"
      /\ WriteCandidate => op = "candidate"
      /\ Displace => op = "displace"
      /\ Compare => op = "compare"
      /\ Link => op = "link"
      /\ Rm => op = "rm"
      /\ Verify => op = "verify"
      /\ RecoverMarketplace => op = "recoverMarketplace"
      /\ TakeAway => op = "take"
      /\ CompareTaken => op = "compareTaken"
      /\ RestoreFrom => op = "restore"
      /\ DropIntent => op = "dropIntent"
  BY DEF Ensure, WriteCandidate, Displace, Compare, Link, Rm, Verify,
     RecoverMarketplace, TakeAway, CompareTaken, RestoreFrom, DropIntent, At
<1> QED
  BY <1>3, <1>4, <1>5 DEF MarketplaceStep

\* The contents that there are.
LEMMA ContentFacts ==
  /\ None \notin Contents /\ Partial \notin Contents /\ Partial # None
  /\ \A c \in Contents : c.edit \in 0 .. MaxEdits /\ c.entry \in BOOLEAN
  /\ Files = {"displaced", "candidate", "removal"}
<1>1. Partial \notin Contents
  <2>1. \A c \in Contents : DOMAIN c = {"edit", "entry"}
    BY DEF Contents
  <2>2. "partial" \in DOMAIN Partial
    BY DEF Partial
  <2> QED
    BY <2>1, <2>2
<1> QED
  BY <1>1, MarketplaceAssumption DEF Contents, Files

\* The invariant while there is an intent, and while its program runs.
Intended == InstallShaped /\ MarketInv /\ run # None /\ intent # None

Inside == InstallShaped /\ MarketInv /\ run # None /\ Within

LEMMA InsideFacts ==
  ASSUME Intended \/ Inside
  PROVE  /\ intent \in Intents /\ intent # None
         /\ intent.root \in Roots /\ intent.previous \in Contents \cup {None}
         /\ intent.expected \in Contents
         /\ intent.expected.edit \in Nat /\ intent.expected.edit <= edits
         /\ intent.previous # None =>
              intent.previous.edit = intent.expected.edit /\ ~ intent.previous.entry
         /\ intent.previous = None => intent.expected.edit = 0
         /\ intent.expected.entry /\ intent.expected # None
         /\ edits \in Nat /\ edits \in 0 .. MaxEdits
         /\ IF Untouched THEN Traces ELSE Saved
         /\ DOMAIN run = RunFields /\ IsSeq(run.todo)
<1>0. InstallShaped /\ MarketInv /\ intent # None /\ run # None
  BY DEF Intended, Inside, Within
<1>1. intent # None /\ intent \in Intents
  BY <1>0 DEF MarketInv, MarketShaped
<1>2. /\ intent.root \in Roots /\ intent.previous \in Contents \cup {None}
      /\ intent.expected \in Contents
  BY <1>1 DEF Intents
<1>3. Adds /\ (IF Untouched THEN Traces ELSE Saved)
  BY <1>0 DEF MarketInv, Settleable
<1>4. edits \in 0 .. MaxEdits /\ MaxEdits \in Nat
  BY <1>0, MarketplaceAssumption DEF MarketInv, MarketShaped
<1>5. intent.expected.edit \in 0 .. MaxEdits /\ intent.expected # None
  BY <1>2, ContentFacts
<1>6. DOMAIN run = RunFields /\ IsSeq(run.todo)
  BY <1>0 DEF InstallShaped, Program
<1> QED
  BY <1>1, <1>2, <1>3, <1>4, <1>5, <1>6 DEF Adds

\* The contents of the intent are stale once the user has saved.
LEMMA StaleContents ==
  ASSUME Intended \/ Inside, ~ Untouched
  PROVE  /\ ~ Fresh(intent.previous) /\ ~ Fresh(intent.expected) /\ ~ Fresh(Partial)
         /\ ~ Fresh(Old) /\ ~ Fresh(New) /\ ~ Fresh(None)
         /\ ~ Fresh(Wanted) /\ ~ Fresh(Unwanted)
<1>1. ~ Fresh(intent.previous) /\ ~ Fresh(intent.expected)
  BY InsideFacts DEF Fresh, Untouched
<1>2. ~ Fresh(Partial) /\ ~ Fresh(None)
  BY InsideFacts DEF Fresh, Untouched, Partial
<1> QED
  BY <1>1, <1>2 DEF Old, New, Wanted, Unwanted

LEMMA OldNew ==
  ASSUME Inside
  PROVE  /\ {Old, New} = {intent.previous, intent.expected}
         /\ Old \in Contents \cup {None} /\ New \in Contents \cup {None}
         /\ (Old # None \/ New # None) /\ Old # New
         /\ Partial \notin {Old, New}
         /\ Wanted \in {Old, New} /\ (run.settling => Wanted = New /\ Unwanted = Old)
         /\ ~ run.settling => Wanted = Old /\ ~ Committed(intent.root)
         /\ Committed(intent.root) => New = intent.expected
         /\ New = None => ~ Committed(intent.root)
<1>1. ~ run.settling => ~ Committed(intent.root)
  BY DEF Inside, Within
<1> QED
  BY <1>1, InsideFacts, ContentFacts DEF Old, New, Wanted, Unwanted

\* A step of a program leaves t of it.
Onto(t) ==
  /\ run'.todo = t /\ run'.stage = run.stage /\ run'.settling = run.settling
  /\ run'.root = run.root

LEMMA OntoTail ==
  ASSUME InstallShaped, run # None, Proceed PROVE Onto(Tail(run.todo))
BY DEF InstallShaped, RunFields, Proceed, Onto

LEMMA ListedStays ==
  ASSUME Listed, UNCHANGED <<surfaces, journal, intent>>, intent # None
  PROVE  Listed'
<1>1. Shown' = Shown /\ (Committed(intent.root)' <=> Committed(intent.root))
  BY DEF Shown, surfaces, Committed
<1> QED
  BY <1>1 DEF Listed

\* A step that keeps the intent keeps the invariant when the exchange files
\* and the place do.
LEMMA InsideStays ==
  ASSUME Intended \/ Inside, UNCHANGED <<surfaces, journal, edits, intent>>,
         file' \in Contents \cup {None}, file' # None => file'.edit <= edits,
         exchange' \in [Files -> Contents \cup {None, Partial}],
         IF Untouched THEN Traces' ELSE Saved', run' = None \/ Between' \/ Within'
  PROVE  MarketInv'
<1>0. MarketInv /\ intent # None
  BY InsideFacts DEF Intended, Inside
<1>1. MarketShaped'
  BY <1>0 DEF MarketInv, MarketShaped
<1>2. Settleable'
  <2>1. Adds /\ intent # None
    BY <1>0 DEF MarketInv, Settleable
  <2>2. Adds' /\ intent' # None /\ (Untouched' <=> Untouched)
    BY <2>1 DEF Adds, Untouched
  <2> QED
    BY <2>2 DEF Settleable
<1>3. Listed'
  BY <1>0, ListedStays DEF MarketInv
<1>4. Placed'
  BY DEF Placed
<1> QED
  BY <1>1, <1>2, <1>3, <1>4 DEF MarketInv

\* The same for a place of the same program.
LEMMA SamePlace ==
  ASSUME Inside, UNCHANGED <<journal, edits, intent>>,
         NEW t, Onto(t)
  PROVE  /\ run'.todo = t
         /\ Wanted' = Wanted /\ Old' = Old /\ New' = New /\ Rest' = Rest /\ Checked' = Checked
         /\ (Untouched' <=> Untouched)
         /\ (Committed(intent.root)' <=> Committed(intent.root))
         /\ (run'.settling <=> run.settling)
         /\ Writes' => Within'
         /\ Completes' => Within'
         /\ \A u \in {Rest, Checked, Write(Old, New, Checked)} : Cleans(u)' => Within'
         /\ \A f \in Files, u \in {Rest, Checked} : Restores(f, u)' => Within'
         /\ \A f \in Files, u \in {CleanD(Rest)} \cup
                  {RestoreOf(g, w) : g \in Files, w \in {Rest, Checked}} :
              TakesOut(f, u)' => Within'
<1>1. /\ run'.todo = t /\ run'.stage = run.stage /\ run'.settling = run.settling
      /\ run'.root = run.root
  BY DEF Onto
<1>2. /\ Wanted' = Wanted /\ Old' = Old /\ New' = New /\ Rest' = Rest /\ Checked' = Checked
      /\ (Untouched' <=> Untouched)
      /\ (Committed(intent.root)' <=> Committed(intent.root))
  BY <1>1, SameRun
<1>3. /\ intent' # None /\ run'.stage \in {"opening", "failed"}
      /\ ~ run'.settling =>
           run'.stage = "opening" /\ run'.root = intent'.root /\ ~ Committed(intent.root)'
  BY <1>1, <1>2 DEF Inside, Within
<1> QED
  BY <1>1, <1>2, <1>3 DEF Within

-----------------------------------------------------------------------------
(* A file is written *)

LEMMA TracesStay ==
  ASSUME Inside, UNCHANGED <<journal, edits, intent>>,
         file' \in {None, Old, New},
         \A f \in Files : exchange'[f] \in {None, Partial, Old, New},
         \A f \in Files : exchange'[f] = Partial =>
           /\ f = "candidate" /\ ~ Committed(intent.root)
           /\ exchange'["displaced"] = None /\ exchange'["removal"] = None,
         file' # Wanted /\ (file' = None \/ Committed(intent.root)) =>
           \E f \in Files : exchange'[f] = Wanted
  PROVE  Traces'
<1>1. Wanted' = Wanted /\ (Committed(intent.root)' <=> Committed(intent.root))
  BY DEF Wanted, Committed
<1>2. {Old, New} = {intent.previous, intent.expected}
  BY OldNew
<1> QED
  BY <1>1, <1>2 DEF Traces

LEMMA TracesAre ==
  ASSUME Inside, Untouched
  PROVE  /\ file \in {None, Old, New}
         /\ \A f \in Files : exchange[f] \in {None, Partial, Old, New}
         /\ \A f \in Files : exchange[f] = Partial =>
              /\ f = "candidate" /\ ~ Committed(intent.root)
              /\ exchange["displaced"] = None /\ exchange["removal"] = None
         /\ file # Wanted /\ (file = None \/ Committed(intent.root)) =>
              \E f \in Files : exchange[f] = Wanted
<1>1. {Old, New} = {intent.previous, intent.expected} /\ Traces
  BY OldNew, InsideFacts
<1> QED
  BY <1>1 DEF Traces

LEMMA DiskFacts ==
  ASSUME Inside
  PROVE  /\ file \in Contents \cup {None} /\ (file # None => file.edit <= edits)
         /\ exchange \in [Files -> Contents \cup {None, Partial}]
         /\ Old \in Contents \cup {None} /\ New \in Contents \cup {None}
         /\ Old # None => Old.edit <= edits
         /\ New # None => New.edit <= edits
         /\ Listed
<1>1. /\ file \in Contents \cup {None} /\ (file # None => file.edit <= edits)
      /\ exchange \in [Files -> Contents \cup {None, Partial}] /\ Listed
  BY DEF Inside, MarketInv, MarketShaped
<1>2. intent.previous # None => intent.previous.edit <= edits
  BY InsideFacts
<1> QED
  BY <1>1, <1>2, OldNew, InsideFacts

\* writeBytesAtomically, step by step.
LEMMA CandidateIsWritten ==
  ASSUME Inside, Progress, run.todo = Write(Old, New, Checked), FileIs(Old),
         ~ Committed(intent.root), New # None, exchange["removal"] = None,
         exchange["displaced"] = None, exchange["candidate"] \in {None, Partial}
  PROVE  MarketInv'
<1> DEFINE t == IF Old = None THEN LinkOver(Old, Checked) ELSE DisplaceOld(Old, Checked)
<1>1. /\ run.todo # <<>> /\ Head(run.todo) = Step("candidate", New) /\ Tail(run.todo) = t
  BY RestIs, WriteIs, ThenIs DEF Write
<1>2. /\ WriteCandidate /\ UNCHANGED <<surfaces, journal, edits, faults>>
      /\ Arg = New
  BY <1>1, StepFacts, MarketActs DEF Inside, MarketOps, Arg
<1> HIDE DEF t
<1>3. UNCHANGED <<file, intent>>
  BY <1>2 DEF WriteCandidate
<1>4. CASE exchange["candidate"] = None
  <2>1. exchange' = [exchange EXCEPT !["candidate"] = Partial] /\ run' = run
    BY <1>2, <1>4 DEF WriteCandidate
  <2>2. /\ exchange' \in [Files -> Contents \cup {None, Partial}]
        /\ exchange'["candidate"] = Partial /\ exchange'["displaced"] = None
        /\ exchange'["removal"] = None
    BY <2>1, DiskFacts, ContentFacts
  <2>3. Untouched => Traces'
    BY <1>2, <1>3, <2>2, TracesAre, TracesStay, OldNew, ContentFacts DEF FileIs
  <2>4. ~ Untouched => Saved'
    BY <1>2, <1>3 DEF FileIs, Saved, Fresh
  <2>5. Onto(run.todo)
    BY <2>1 DEF Onto
  <2>6. Writes'
    BY <1>2, <1>3, <2>1, <2>2, <2>5, SamePlace DEF Writes, FileIs, Fresh
  <2> QED
    BY <1>2, <1>3, <2>2, <2>3, <2>4, <2>5, <2>6, SamePlace, InsideStays, DiskFacts
<1>5. CASE exchange["candidate"] = Partial
  <2>1. exchange' = [exchange EXCEPT !["candidate"] = New] /\ Onto(t)
    BY <1>1, <1>2, <1>5, ContentFacts, OntoTail DEF WriteCandidate, Inside
  <2>2. /\ exchange' \in [Files -> Contents \cup {None, Partial}]
        /\ exchange'["candidate"] = New /\ exchange'["displaced"] = None
        /\ exchange'["removal"] = None
    BY <2>1, DiskFacts, ContentFacts
  <2>3. Untouched => Traces'
    BY <1>2, <1>3, <2>2, TracesAre, TracesStay, OldNew, ContentFacts DEF FileIs
  <2>4. ~ Untouched => Saved'
    BY <1>2, <1>3 DEF FileIs, Saved, Fresh
  <2>5. Writes'
    <3>1. run'.todo = t /\ Old' = Old /\ New' = New /\ Checked' = Checked
          /\ (Untouched' <=> Untouched)
          /\ (Committed(intent.root)' <=> Committed(intent.root))
      BY <1>2, <1>3, <2>1, SamePlace
    <3>2. FileIs(Old)'
      BY <1>2, <1>3, <3>1 DEF FileIs, Fresh
    <3>3. CASE Old = None
      <4>1. FileIs(None)'
        BY <3>1, <3>2, <3>3 DEF FileIs
      <4> QED
        BY <2>2, <3>1, <3>3, <4>1 DEF Writes, t
    <3>4. CASE Old # None
      BY <2>2, <3>1, <3>2, <3>4 DEF Writes, t
    <3> QED
      BY <3>3, <3>4
  <2> QED
    BY <1>2, <1>3, <2>1, <2>2, <2>3, <2>4, <2>5, SamePlace, InsideStays, DiskFacts
<1> QED
  BY <1>4, <1>5

\* A removal of an exchange file that is not needed.
LEMMA RmStep ==
  ASSUME Inside, Progress, NEW f \in Files, NEW t, IsSeq(t),
         run.todo = Then(Step("rm", f), t),
         IF Untouched
         THEN \/ file = Wanted
              \/ file # None /\ ~ Committed(intent.root)
              \/ \E g \in Files \ {f} : exchange[g] = Wanted
         ELSE Fresh(file)
  PROVE  /\ Onto(t) /\ UNCHANGED <<surfaces, journal, edits, file, intent>>
         /\ exchange' = [exchange EXCEPT ![f] = None]
         /\ Within' => MarketInv'
<1>1. run.todo # <<>> /\ Head(run.todo) = Step("rm", f) /\ Tail(run.todo) = t
  BY ThenIs
<1>2. Rm /\ UNCHANGED <<surfaces, journal, edits, faults>> /\ Arg = f
  BY <1>1, StepFacts, MarketActs DEF Inside, MarketOps, Arg
<1>3. /\ Onto(t) /\ UNCHANGED <<file, intent>>
      /\ exchange' = [exchange EXCEPT ![f] = None]
  BY <1>1, <1>2, OntoTail DEF Rm, Inside
<1>4. /\ exchange' \in [Files -> Contents \cup {None, Partial}]
      /\ exchange'[f] = None /\ \A g \in Files \ {f} : exchange'[g] = exchange[g]
  BY <1>3, DiskFacts
<1>5. ASSUME Untouched PROVE Traces'
  <2>1. /\ file' \in {None, Old, New}
        /\ \A g \in Files : exchange'[g] \in {None, Partial, Old, New}
    BY <1>3, <1>4, <1>5, TracesAre
  <2>2. \A g \in Files : exchange'[g] = Partial =>
          /\ g = "candidate" /\ ~ Committed(intent.root)
          /\ exchange'["displaced"] = None /\ exchange'["removal"] = None
    BY <1>4, <1>5, TracesAre, ContentFacts
  <2>3. file' # Wanted /\ (file' = None \/ Committed(intent.root)) =>
           \E g \in Files : exchange'[g] = Wanted
    BY <1>3, <1>4, <1>5
  <2> QED
    BY <1>2, <1>3, <2>1, <2>2, <2>3, TracesStay
<1>6. ~ Untouched => Saved'
  BY <1>2, <1>3 DEF Saved, Fresh
<1>7. Within' => MarketInv'
  BY <1>2, <1>3, <1>4, <1>5, <1>6, InsideStays, DiskFacts
<1> QED
  BY <1>2, <1>3, <1>7

\* What is known of the file stays.
LEMMA FileIsStays ==
  ASSUME UNCHANGED <<file, intent, edits>>, NEW c, FileIs(c) PROVE FileIs(c)'
BY DEF FileIs, Fresh, Untouched

LEMMA ReplacedIsRemoved ==
  ASSUME Inside, Progress, ~ Committed(intent.root), New # None, FileIs(New),
         exchange["removal"] = None,
         \/ run.todo = RmDisplaced(Checked)
         \/ run.todo = RmCandidate(Checked) /\ exchange["displaced"] = None
  PROVE  MarketInv'
<1>1. IF Untouched THEN file = Wanted \/ (file # None /\ ~ Committed(intent.root))
      ELSE Fresh(file)
  BY DEF FileIs
<1>2. CASE run.todo = RmDisplaced(Checked)
  <2>1. IsSeq(RmCandidate(Checked)) /\ "displaced" \in Files
    BY RestIs, WriteIs, ContentFacts
  <2>2. /\ Onto(RmCandidate(Checked)) /\ UNCHANGED <<surfaces, journal, edits, file, intent>>
        /\ exchange' = [exchange EXCEPT !["displaced"] = None]
        /\ Within' => MarketInv'
    BY <1>1, <1>2, <2>1, RmStep DEF RmDisplaced
  <2>3. exchange'["displaced"] = None /\ exchange'["removal"] = None
    BY <2>2, DiskFacts, ContentFacts
  <2>4. Writes'
    <3>1. FileIs(New)'
      BY <2>2, FileIsStays, SamePlace DEF FileIs
    <3> QED
      BY <2>2, <2>3, <3>1, SamePlace DEF Writes, Onto
  <2> QED
    BY <2>2, <2>4, SamePlace
<1>3. CASE run.todo = RmCandidate(Checked) /\ exchange["displaced"] = None
  <2>1. IsSeq(Checked) /\ "candidate" \in Files
    BY RestIs, ContentFacts
  <2>2. /\ Onto(Checked) /\ UNCHANGED <<surfaces, journal, edits, file, intent>>
        /\ exchange' = [exchange EXCEPT !["candidate"] = None]
        /\ Within' => MarketInv'
    BY <1>1, <1>3, <2>1, RmStep DEF RmCandidate
  <2>3. exchange' = NoFiles
    BY <1>3, <2>2, DiskFacts, ContentFacts DEF NoFiles
  <2>4. Completes'
    <3>1. FileIs(New)' /\ KeepsEntry'
      BY <2>2, FileIsStays, SamePlace DEF FileIs, KeepsEntry
    <3> QED
      BY <2>2, <2>3, <3>1, SamePlace DEF Completes
  <2> QED
    BY <2>2, <2>4, SamePlace
<1> QED
  BY <1>2, <1>3

\* The intent is dropped once its exchange files are gone.
LEMMA IntentGoes ==
  ASSUME Inside, UNCHANGED <<surfaces, journal, edits>>, intent' = None, exchange' = NoFiles,
         file' \in Contents \cup {None}, file' # None => file'.edit <= edits,
         edits > 0 => Fresh(file)',
         Committed(intent.root) => file' # None /\ file'.entry,
         run' = None \/ Between'
  PROVE  MarketInv'
<1>1. MarketShaped'
  <2>1. NoFiles \in [Files -> Contents \cup {None, Partial}]
    BY DEF NoFiles
  <2> QED
    BY <2>1 DEF Inside, MarketInv, MarketShaped
<1>2. Settleable'
  BY DEF Settleable
<1>3. Listed'
  <2>1. Shown' = Shown
    BY DEF Shown, surfaces
  <2>2. Shown \in Releases \ {Earlier} => Committed(intent.root)
    BY InsideFacts DEF Inside, MarketInv, Listed
  <2> QED
    BY <2>1, <2>2 DEF Listed
<1>4. Placed'
  BY DEF Placed
<1> QED
  BY <1>1, <1>2, <1>3, <1>4 DEF MarketInv

\* A step that only ends the program.
LEMMA EndsAsItIs ==
  ASSUME Inside, UNCHANGED <<surfaces, journal, edits, intent, file, exchange>>, run' = None
  PROVE  MarketInv'
<1>1. Untouched => Traces'
  BY InsideFacts, TracesAre, TracesStay
<1>2. ~ Untouched => Saved'
  BY InsideFacts DEF Saved, Fresh
<1> QED
  BY <1>1, <1>2, DiskFacts, InsideStays

LEMMA OldIsDisplaced ==
  ASSUME Inside, Progress, run.todo = DisplaceOld(Old, Checked), FileIs(Old), Old # None,
         ~ Committed(intent.root), New # None, exchange["removal"] = None,
         exchange["displaced"] = None, exchange["candidate"] = New
  PROVE  MarketInv'
<1> DEFINE t == CompareWith(Old, Checked)
<1>1. /\ run.todo # <<>> /\ Head(run.todo) = Step("displace", None) /\ Tail(run.todo) = t
  BY RestIs, WriteIs, ThenIs DEF DisplaceOld
<1> HIDE DEF t
<1>2. Displace /\ UNCHANGED <<surfaces, journal, edits, faults>>
  BY <1>1, StepFacts, MarketActs DEF Inside, MarketOps
<1>3. file # None
  BY DEF FileIs, Fresh
<1>4. /\ exchange' = [exchange EXCEPT !["displaced"] = file] /\ file' = None
      /\ Onto(t) /\ UNCHANGED intent
  BY <1>1, <1>2, <1>3, OntoTail DEF Displace, Inside
<1>5. /\ exchange' \in [Files -> Contents \cup {None, Partial}]
      /\ exchange'["candidate"] = New /\ exchange'["displaced"] = file
      /\ exchange'["removal"] = None
  BY <1>4, DiskFacts, ContentFacts
<1>6. ASSUME Untouched PROVE Traces'
  <2>1. file = Old
    BY <1>6 DEF FileIs
  <2>2. /\ \A f \in Files : exchange'[f] \in {None, Old, New}
        /\ \E f \in Files : exchange'[f] = Wanted
    BY <1>5, <2>1, OldNew, ContentFacts
  <2> QED
    BY <1>2, <1>4, <2>2, TracesStay, OldNew, ContentFacts
<1>7. ~ Untouched => Saved'
  BY <1>2, <1>4, <1>5 DEF FileIs, Saved, Fresh
<1>8. Writes'
  <2>1. TakenIs("displaced", Old)'
    BY <1>2, <1>4, <1>5, SamePlace DEF TakenIs, FileIs, Fresh
  <2> QED
    BY <1>2, <1>4, <1>5, <2>1, SamePlace DEF Writes, t
<1> QED
  BY <1>2, <1>4, <1>5, <1>6, <1>7, <1>8, SamePlace, InsideStays

LEMMA DisplacedIsCompared ==
  ASSUME Inside, Progress, run.todo = CompareWith(Old, Checked), TakenIs("displaced", Old),
         Old # None, ~ Committed(intent.root), New # None, exchange["removal"] = None,
         exchange["candidate"] = New
  PROVE  MarketInv'
<1> DEFINE t == LinkOver(Old, Checked)
<1>1. /\ run.todo # <<>> /\ Head(run.todo) = Step("compare", Old) /\ Tail(run.todo) = t
  BY RestIs, WriteIs, ThenIs DEF CompareWith
<1> HIDE DEF t
<1>2. Compare /\ UNCHANGED <<surfaces, journal, edits, faults>> /\ Arg = Old
  BY <1>1, StepFacts, MarketActs DEF Inside, MarketOps, Arg
<1>3. CASE exchange["displaced"] = Old
  <2>1. Onto(t) /\ UNCHANGED <<file, exchange, intent>>
    BY <1>1, <1>2, <1>3, OntoTail DEF Compare, Inside, marketplace
  <2>2. Untouched => Traces'
    BY <1>2, <2>1, TracesAre, TracesStay
  <2>3. ~ Untouched => Fresh(file)
    BY <1>3, StaleContents DEF TakenIs
  <2>4. ~ Untouched => Saved'
    BY <1>2, <2>1, <2>3 DEF Saved, Fresh
  <2>5. FileIs(None)
    BY <2>3 DEF FileIs, TakenIs
  <2>6. Writes'
    <3>1. FileIs(None)'
      BY <1>2, <2>1, <2>5, FileIsStays
    <3> QED
      BY <1>2, <1>3, <2>1, <3>1, SamePlace DEF Writes, t
  <2> QED
    BY <1>2, <2>1, <2>2, <2>4, <2>6, SamePlace, InsideStays, DiskFacts
<1>4. CASE exchange["displaced"] # Old
  <2>1. ~ Untouched
    BY <1>4 DEF TakenIs
  <2>2. CASE file # None
    <3>1. /\ exchange' = [exchange EXCEPT !["candidate"] = None]
          /\ run' = None /\ UNCHANGED <<file, intent>>
      BY <1>2, <1>4, <2>2 DEF Compare, Throw, marketplace
    <3>2. Fresh(file) /\ Fresh(file)'
      BY <1>2, <2>1, <2>2, <3>1 DEF TakenIs, Fresh
    <3>3. Saved' /\ exchange' \in [Files -> Contents \cup {None, Partial}]
      BY <3>1, <3>2, DiskFacts DEF Saved
    <3> QED
      BY <1>2, <2>1, <3>1, <3>3, InsideStays, DiskFacts
  <2>3. CASE file = None
    <3>1. /\ file' = exchange["displaced"]
          /\ exchange' = [exchange EXCEPT !["displaced"] = None, !["candidate"] = None]
          /\ intent' = IF run.settling THEN intent ELSE None
          /\ run' = None
      BY <1>2, <1>4, <2>3 DEF Compare, Throw, marketplace
    <3>2. /\ Fresh(exchange["displaced"]) /\ exchange["displaced"] # Partial
          /\ exchange["displaced"] \in Contents
      <4>1. Fresh(exchange["displaced"])
        BY <2>1, <2>3 DEF TakenIs, Fresh
      <4> QED
        BY <4>1, <2>1, DiskFacts, StaleContents, ContentFacts
    <3>3. Fresh(file)' /\ file' \in Contents /\ file'.edit <= edits
      BY <1>2, <3>1, <3>2, InsideFacts DEF Fresh
    <3>4. exchange' = NoFiles /\ exchange' \in [Files -> Contents \cup {None, Partial}]
      <4>1. /\ exchange' \in [Files -> Contents \cup {None, Partial}]
            /\ \A f \in Files : exchange'[f] = None
        BY <3>1, DiskFacts, ContentFacts
      <4> QED
        BY <4>1 DEF NoFiles
    <3>5. CASE run.settling
      <4>1. Saved'
        BY <3>3 DEF Saved
      <4> QED
        BY <1>2, <2>1, <3>1, <3>3, <3>4, <3>5, <4>1, InsideStays
    <3>6. CASE ~ run.settling
      BY <1>2, <3>1, <3>3, <3>4, <3>6, IntentGoes
    <3> QED
      BY <3>5, <3>6
  <2> QED
    BY <2>2, <2>3
<1> QED
  BY <1>3, <1>4

LEMMA CandidateIsLinked ==
  ASSUME Inside, Progress, run.todo = LinkOver(Old, Checked), FileIs(None),
         ~ Committed(intent.root), New # None, exchange["removal"] = None,
         exchange["displaced"] = Old, exchange["candidate"] = New
  PROVE  MarketInv'
<1> DEFINE t == IF Old = None THEN RmCandidate(Checked) ELSE RmDisplaced(Checked)
<1>0. IsSeq(t) /\ run.todo = Then(Step("link", Old), t)
  BY RestIs, WriteIs DEF LinkOver
<1> HIDE DEF t
<1>1. /\ run.todo # <<>> /\ Head(run.todo) = Step("link", Old) /\ Tail(run.todo) = t
  BY <1>0, ThenIs
<1>2. Link /\ UNCHANGED <<surfaces, journal, edits, faults>> /\ Arg = Old
  BY <1>1, StepFacts, MarketActs DEF Inside, MarketOps, Arg
<1>3. CASE file = None
  <2>1. Untouched
    BY <1>3 DEF FileIs, Fresh
  <2>2. Onto(t) /\ file' = New /\ UNCHANGED <<exchange, intent>>
    BY <1>1, <1>2, <1>3, OntoTail DEF Link, Inside
  <2>3. Traces'
    <3>1. file' \in {None, Old, New} /\ file' # None
      BY <2>2
    <3> QED
      BY <1>2, <2>1, <2>2, <3>1, TracesAre, TracesStay
  <2>4. Writes'
    <3>1. FileIs(New)'
      BY <1>2, <2>1, <2>2, SamePlace DEF FileIs
    <3>2. CASE Old = None
      BY <1>2, <2>2, <3>1, <3>2, SamePlace DEF Writes, t
    <3>3. CASE Old # None
      BY <1>2, <2>2, <3>1, <3>3, SamePlace DEF Writes, t
    <3> QED
      BY <3>2, <3>3
  <2> QED
    BY <1>2, <2>1, <2>2, <2>3, <2>4, SamePlace, InsideStays, DiskFacts
<1>4. CASE file # None
  <2>1. ~ Untouched /\ Fresh(file)
    BY <1>4 DEF FileIs
  <2>2. /\ exchange' = [exchange EXCEPT !["candidate"] = None] /\ run' = None
        /\ UNCHANGED file
        /\ \/ UNCHANGED intent
           \/ intent' = None /\ Old = None /\ ~ run.settling
    BY <1>2, <1>4 DEF Link, Withdraw, Throw
  <2>3. Fresh(file)'
    BY <1>2, <2>1, <2>2 DEF Fresh
  <2>4. exchange' \in [Files -> Contents \cup {None, Partial}]
    BY <2>2, DiskFacts
  <2>5. CASE UNCHANGED intent
    <3>1. Saved'
      BY <2>3 DEF Saved
    <3> QED
      BY <1>2, <2>1, <2>2, <2>4, <2>5, <3>1, InsideStays, DiskFacts
  <2>6. CASE intent' = None /\ Old = None
    <3>1. exchange' = NoFiles
      <4>1. \A f \in Files : exchange'[f] = None
        BY <2>2, <2>6, DiskFacts, ContentFacts
      <4> QED
        BY <2>4, <4>1 DEF NoFiles
    <3> QED
      BY <1>2, <2>2, <2>3, <2>6, <3>1, IntentGoes, DiskFacts
  <2> QED
    BY <2>2, <2>5, <2>6
<1> QED
  BY <1>3, <1>4

LEMMA WritesStep ==
  ASSUME Inside, Writes, Progress PROVE MarketInv'
BY CandidateIsWritten, OldIsDisplaced, DisplacedIsCompared, CandidateIsLinked,
   ReplacedIsRemoved DEF Writes

LEMMA OpeningIs ==
  /\ Opening = <<Step("recover", None), Step("ensure", None), BeginStep>>
  /\ DOMAIN Opening = 1 .. 3 /\ Len(Opening) = 3
  /\ Opening[1] = Step("recover", None) /\ Opening[1].op = "recover"
  /\ Opening[2] = Step("ensure", None) /\ Opening[3] = BeginStep
<1> DEFINE x == Step("recover", None)
           y == Step("ensure", None)
           t == <<x, y, BeginStep>>
<1>1. t = <<x>> \o (<<y>> \o <<BeginStep>>)
  <2>1. <<y, BeginStep>> = <<y>> \o <<BeginStep>>
    OBVIOUS
  <2>2. t = <<x>> \o <<y, BeginStep>>
    OBVIOUS
  <2> QED
    BY <2>1, <2>2
<1>2. x.op = "recover"
  BY StepFacts
<1> HIDE DEF x, y
<1>3. DOMAIN t = 1 .. 3 /\ Len(t) = 3 /\ t[1] = x /\ t[2] = y /\ t[3] = BeginStep
  OBVIOUS
<1>4. Opening = t
  BY <1>1 DEF Opening, Then, x, y
<1> QED
  BY <1>2, <1>3, <1>4 DEF x, y

\* The end of an update or of a recovery.
LEMMA CompletesStep ==
  ASSUME Inside, Completes, Progress PROVE MarketInv'
<1>1. exchange = NoFiles /\ FileIs(New) /\ KeepsEntry
  BY DEF Completes
<1>2. IsSeq(Rest) /\ IsSeq(Opening) /\ IsSeq(<<>>)
  BY RestIs, EmptyIsSeq
<1>3. edits > 0 => Fresh(file)
  <2>1. CASE Untouched
    <3>1. New = None => edits = 0
      BY <2>1, InsideFacts, OldNew DEF Untouched
    <3>2. New # None => New.edit = edits
      BY <2>1, InsideFacts, OldNew DEF Untouched
    <3> QED
      BY <1>1, <2>1, <3>1, <3>2 DEF FileIs, Fresh
  <2>2. CASE ~ Untouched
    BY <1>1, <2>2 DEF FileIs
  <2> QED
    BY <2>1, <2>2
<1>4. CASE run.todo = Checked
  <2>1. /\ run.todo # <<>> /\ Head(run.todo) = Step("verify", New) /\ Tail(run.todo) = Rest
    BY <1>2, <1>4, ThenIs DEF Checked, Check
  <2>2. Verify /\ UNCHANGED <<surfaces, journal, edits, faults>> /\ Arg = New
    BY <2>1, StepFacts, MarketActs DEF Inside, MarketOps, Arg
  <2>3. UNCHANGED <<file, exchange, intent>>
    BY <2>2 DEF Verify, marketplace
  <2>4. CASE file # New
    <3>1. run' = None
      BY <2>2, <2>4 DEF Verify, Throw
    <3> QED
      BY <2>2, <2>3, <3>1, EndsAsItIs
  <2>5. CASE file = New
    <3>1. Onto(Rest)
      BY <2>1, <2>2, <2>5, OntoTail DEF Verify, Inside
    <3>2. Untouched => Traces'
      BY <2>2, <2>3, TracesAre, TracesStay
    <3>3. ~ Untouched => Saved'
      BY <1>1, <2>2, <2>3 DEF Saved, Fresh, FileIs
    <3>4. CASE run.settling
      <4>1. FileIs(New)' /\ KeepsEntry'
        BY <1>1, <2>2, <2>3, <3>1, SamePlace, FileIsStays DEF FileIs, KeepsEntry
      <4>2. Completes'
        BY <1>1, <2>2, <2>3, <3>1, <3>4, <4>1, SamePlace DEF Completes
      <4> QED
        BY <2>2, <2>3, <3>1, <3>2, <3>3, <4>2, SamePlace, InsideStays, DiskFacts
    <3>5. CASE ~ run.settling
      <4>1. /\ run.stage = "opening" /\ run.root = intent.root /\ ~ Committed(intent.root)
            /\ Rest = <<BeginStep>> /\ New = intent.expected
        BY <3>5 DEF Inside, Within, Rest, New
      <4>2. file # None /\ file.entry /\ Fresh(file)
        BY <1>1, <2>5, <4>1, InsideFacts DEF FileIs, Fresh, Untouched
      <4>3. UpToDate' /\ Own' /\ ~ Committed(run.root)'
        BY <1>1, <2>2, <2>3, <3>1, <4>1, <4>2 DEF UpToDate, Own, Fresh, Committed, Onto
      <4>4. BeforeBegin'
        BY <3>1, <4>1, <4>3 DEF BeforeBegin, Onto
      <4> QED
        BY <2>2, <2>3, <3>2, <3>3, <4>4, InsideStays, DiskFacts DEF Between
    <3> QED
      BY <3>4, <3>5
  <2> QED
    BY <2>4, <2>5
<1>5. CASE run.settling /\ run.todo = Rest
  <2> DEFINE t == IF run.stage = "opening" THEN Opening ELSE <<>>
  <2>1. /\ run.todo # <<>> /\ Head(run.todo) = Step("dropIntent", None) /\ Tail(run.todo) = t
    BY <1>2, <1>5, ThenIs DEF Rest
  <2> HIDE DEF t
  <2>2. DropIntent /\ UNCHANGED <<surfaces, journal, edits, faults>>
    BY <2>1, StepFacts, MarketActs DEF Inside, MarketOps
  <2>3. intent' = None /\ UNCHANGED <<file, exchange>>
    BY <2>2 DEF DropIntent
  <2>4. /\ run'.todo = t /\ run'.stage = run.stage /\ ~ run'.settling /\ run'.root = run.root
    BY <2>1, <2>2, InsideFacts DEF DropIntent, RunFields
  <2>5. Between'
    <3>1. CASE run.stage = "opening"
      <4>1. BeforeUpdate'
        BY <2>3, <2>4, <3>1, OpeningIs DEF BeforeUpdate, Before, Last, t
      <4> QED
        BY <4>1 DEF Between
    <3>2. CASE run.stage = "failed"
      <4>1. AfterIntent'
        BY <2>3, <2>4, <3>2, EmptyIsSeq, SeqFacts DEF AfterIntent, Before, t
      <4> QED
        BY <4>1 DEF Between
    <3> QED
      BY <3>1, <3>2 DEF Inside, Within
  <2>6. Fresh(file)' <=> Fresh(file)
    BY <2>2, <2>3 DEF Fresh
  <2> QED
    BY <1>1, <1>3, <2>2, <2>3, <2>5, <2>6, IntentGoes, DiskFacts DEF KeepsEntry
<1> QED
  BY <1>4, <1>5 DEF Completes

-----------------------------------------------------------------------------
(* A recovery cleans up, restores, and takes away *)

\* The exchange files are cleared away.
LEMMA CleansStep ==
  ASSUME Inside, NEW t \in {Rest, Checked, Write(Old, New, Checked)}, Cleans(t), Progress
  PROVE  MarketInv'
<1> DEFINE Completing == t \in {Rest, Checked} /\ FileIs(New) /\ KeepsEntry
           Rewriting == /\ t = Write(Old, New, Checked) /\ FileIs(Old)
                        /\ ~ Committed(intent.root) /\ New # None
<1>1. run.settling /\ (Completing \/ Rewriting)
  BY DEF Cleans
<1>2. /\ IsSeq(t) /\ IsSeq(CleanR(t)) /\ IsSeq(CleanC(t))
  BY RestIs, WriteIs, CleanIs
<1>3. IF Untouched THEN file = Wanted \/ (file # None /\ ~ Committed(intent.root))
      ELSE Fresh(file)
  <2>1. Wanted = New /\ (~ Committed(intent.root) => Old # None)
    BY <1>1, OldNew, InsideFacts DEF Old, Unwanted
  <2> QED
    BY <1>1, <2>1 DEF FileIs
<1>4. "displaced" \in Files /\ "candidate" \in Files /\ "removal" \in Files
  BY ContentFacts
<1>5. ASSUME NEW f \in Files, NEW u, run.todo = Then(Step("rm", f), u), IsSeq(u)
      PROVE  /\ Onto(u) /\ UNCHANGED <<surfaces, journal, edits, file, intent>>
             /\ exchange' = [exchange EXCEPT ![f] = None]
             /\ Within' => MarketInv'
  BY <1>3, <1>5, RmStep
<1>6. ASSUME UNCHANGED <<surfaces, journal, edits, file, intent>>, NEW u, Onto(u)
      PROVE  /\ Completing => FileIs(New)' /\ KeepsEntry' /\ t \in {Rest', Checked'}
             /\ Rewriting => /\ FileIs(Old)' /\ ~ Committed(intent.root)' /\ New' # None
                             /\ t = Write(Old, New, Checked)'
  BY <1>6, SamePlace, FileIsStays DEF FileIs, KeepsEntry
<1>7. run.todo \in {CleanD(t), CleanC(t), CleanR(t)}
  BY DEF Cleans
<1>8. CASE run.todo = CleanD(t)
  <2>1. /\ Onto(CleanC(t)) /\ UNCHANGED <<surfaces, journal, edits, file, intent>>
        /\ exchange' = [exchange EXCEPT !["displaced"] = None]
        /\ Within' => MarketInv'
    BY <1>2, <1>4, <1>5, <1>8 DEF CleanD
  <2>2. exchange'["displaced"] = None
    BY <2>1, <1>4, DiskFacts
  <2>3. Cleans(t)'
    BY <1>1, <1>6, <2>1, <2>2, SamePlace DEF Cleans
  <2> QED
    BY <2>1, <2>3, SamePlace
<1>9. CASE run.todo = CleanC(t) /\ exchange["displaced"] = None
  <2>1. /\ Onto(CleanR(t)) /\ UNCHANGED <<surfaces, journal, edits, file, intent>>
        /\ exchange' = [exchange EXCEPT !["candidate"] = None]
        /\ Within' => MarketInv'
    BY <1>2, <1>4, <1>5, <1>9 DEF CleanC
  <2>2. exchange'["displaced"] = None /\ exchange'["candidate"] = None
    BY <1>9, <2>1, <1>4, DiskFacts
  <2>3. Cleans(t)'
    BY <1>1, <1>6, <2>1, <2>2, SamePlace DEF Cleans
  <2> QED
    BY <2>1, <2>3, SamePlace
<1>10. CASE /\ run.todo = CleanR(t) /\ exchange["displaced"] = None
            /\ exchange["candidate"] = None
  <2>1. /\ Onto(t) /\ UNCHANGED <<surfaces, journal, edits, file, intent>>
        /\ exchange' = [exchange EXCEPT !["removal"] = None]
        /\ Within' => MarketInv'
    BY <1>2, <1>4, <1>5, <1>10 DEF CleanR
  <2>2. /\ exchange'["displaced"] = None /\ exchange'["candidate"] = None
        /\ exchange'["removal"] = None /\ exchange' = NoFiles
    BY <1>10, <2>1, DiskFacts, ContentFacts DEF NoFiles
  <2>3. CASE Completing
    <3>1. Completes'
      BY <1>1, <1>6, <2>1, <2>2, <2>3, SamePlace DEF Completes
    <3> QED
      BY <2>1, <3>1, SamePlace
  <2>4. CASE Rewriting
    <3>1. Writes'
      BY <1>6, <2>1, <2>2, <2>4, SamePlace DEF Writes
    <3> QED
      BY <2>1, <3>1, SamePlace
  <2> QED
    BY <1>1, <2>3, <2>4
<1> QED
  BY <1>8, <1>9, <1>10 DEF Cleans

\* restoreMarketplaceArtifact.
LEMMA RestoresStep ==
  ASSUME Inside, NEW f \in Files, NEW t \in {Rest, Checked}, Restores(f, t), Progress
  PROVE  MarketInv'
<1>1. run.settling /\ New # None /\ Wanted = New
  BY OldNew DEF Restores
<1>2. IsSeq(t) /\ IsSeq(CleanD(t)) /\ IsSeq(RmRestored(f, t))
  BY RestIs, CleanIs
<1>3. CASE run.todo = RestoreOf(f, t) /\ exchange[f] = New /\ FileIs(None)
  <2>1. /\ run.todo # <<>> /\ Head(run.todo) = Step("restore", f)
        /\ Tail(run.todo) = RmRestored(f, t)
    BY <1>2, <1>3, ThenIs DEF RestoreOf
  <2>2. RestoreFrom /\ UNCHANGED <<surfaces, journal, edits, faults>> /\ Arg = f
    BY <2>1, StepFacts, MarketActs DEF Inside, MarketOps, Arg
  <2>3. UNCHANGED <<exchange, intent>>
    BY <2>2 DEF RestoreFrom
  <2>4. CASE file = None
    <3>1. file' = New /\ Onto(RmRestored(f, t))
      BY <1>3, <2>1, <2>2, <2>4, OntoTail DEF RestoreFrom, Inside
    <3>2. Untouched
      BY <1>3, <2>4 DEF FileIs, Fresh
    <3>3. Traces'
      BY <1>1, <2>2, <2>3, <3>1, <3>2, TracesAre, TracesStay
    <3>4. Restores(f, t)'
      <4>1. FileIs(New)'
        BY <2>2, <2>3, <3>1, <3>2, SamePlace DEF FileIs
      <4>2. KeepsEntry'
        BY <1>1, <2>2, <2>3, <3>1, SamePlace, OldNew, InsideFacts DEF KeepsEntry
      <4> QED
        BY <1>1, <2>2, <2>3, <3>1, <4>1, <4>2, SamePlace DEF Restores
    <3> QED
      BY <1>1, <2>2, <2>3, <3>1, <3>2, <3>3, <3>4, SamePlace, InsideStays, DiskFacts
  <2>5. CASE file # None
    <3>1. run' = None /\ UNCHANGED file
      BY <2>2, <2>5 DEF RestoreFrom, Throw
    <3> QED
      BY <2>2, <2>3, <3>1, EndsAsItIs
  <2> QED
    BY <2>4, <2>5
<1>4. CASE run.todo = RmRestored(f, t) /\ FileIs(New) /\ KeepsEntry
  <2>1. /\ Onto(CleanD(t)) /\ UNCHANGED <<surfaces, journal, edits, file, intent>>
        /\ Within' => MarketInv'
    BY <1>1, <1>2, <1>4, RmStep DEF RmRestored, FileIs
  <2>2. Cleans(t)'
    <3>1. FileIs(New)' /\ KeepsEntry' /\ t \in {Rest', Checked'}
      BY <1>4, <2>1, SamePlace, FileIsStays DEF FileIs, KeepsEntry
    <3> QED
      BY <1>1, <2>1, <3>1, SamePlace DEF Cleans
  <2> QED
    BY <2>1, <2>2, SamePlace
<1> QED
  BY <1>3, <1>4 DEF Restores

\* removeMarketplaceIfFingerprint, before a restoration or on its own.
TakenBefore == {CleanD(Rest)} \cup {RestoreOf(g, u) : g \in Files, u \in {Rest, Checked}}

\* A place where something is to be restored after the removal.
LEMMA RestoredLater ==
  ASSUME Inside, NEW f \in Files, NEW t \in TakenBefore, TakesOut(f, t)
  PROVE  /\ IsSeq(t) /\ IsSeq(CleanR(t)) /\ IsSeq(TakeOld(Old, t))
         /\ IsSeq(CompareTakenWith(Old, t))
         /\ run.settling /\ Wanted = New /\ Old # None
         /\ New = None => t = CleanD(Rest) /\ ~ Committed(intent.root)
         /\ New # None => /\ exchange[f] = New
                          /\ t \in {RestoreOf(f, Rest), RestoreOf(f, Checked)}
                          /\ run.todo # TakeOld(Old, t) => f # "removal"
<1>1. IsSeq(t)
  BY RestIs, CleanIs DEF TakenBefore
<1>2. IsSeq(CleanR(t)) /\ IsSeq(TakeOld(Old, t)) /\ IsSeq(CompareTakenWith(Old, t))
  BY <1>1, CleanIs
<1> QED
  BY <1>1, <1>2, OldNew DEF TakesOut, TakesBefore

LEMMA TakeHeads ==
  ASSUME NEW c, NEW t, IsSeq(t)
  PROVE  /\ Head(CleanR(t)).op = "rm" /\ CleanR(t) # <<>>
         /\ Head(TakeOld(c, t)) = Step("take", None) /\ TakeOld(c, t) # <<>>
         /\ Head(TakeOld(c, t)).op = "take"
         /\ Tail(TakeOld(c, t)) = CompareTakenWith(c, t)
         /\ Head(CompareTakenWith(c, t)) = Step("compareTaken", c)
         /\ Head(CompareTakenWith(c, t)).op = "compareTaken" /\ CompareTakenWith(c, t) # <<>>
         /\ Tail(CompareTakenWith(c, t)) = CleanR(t)
BY CleanIs, ThenIs, StepFacts DEF CleanR, TakeOld, CompareTakenWith

LEMMA OldIsTaken ==
  ASSUME Inside, NEW f \in Files, NEW t \in TakenBefore, TakesOut(f, t), Progress,
         run.todo = TakeOld(Old, t), FileIs(Old)
  PROVE  MarketInv'
<1>1. /\ run.todo # <<>> /\ Head(run.todo) = Step("take", None)
      /\ Tail(run.todo) = CompareTakenWith(Old, t)
  BY RestoredLater, TakeHeads
<1>2. TakeAway /\ UNCHANGED <<surfaces, journal, edits, faults>>
  BY <1>1, StepFacts, MarketActs DEF Inside, MarketOps
<1>3. file # None /\ UNCHANGED intent
  BY <1>2, RestoredLater DEF FileIs, Fresh, TakeAway
<1>4. CASE exchange["removal"] # None
  <2>1. run' = None /\ UNCHANGED <<file, exchange>>
    BY <1>2, <1>4 DEF TakeAway, Throw
  <2> QED
    BY <1>2, <1>3, <2>1, EndsAsItIs
<1>5. CASE exchange["removal"] = None
  <2>1. /\ exchange' = [exchange EXCEPT !["removal"] = file] /\ file' = None
        /\ Onto(CompareTakenWith(Old, t))
    BY <1>1, <1>2, <1>3, <1>5, OntoTail DEF TakeAway, Inside
  <2>2. /\ exchange' \in [Files -> Contents \cup {None, Partial}]
        /\ exchange'["removal"] = file
        /\ \A g \in Files \ {"removal"} : exchange'[g] = exchange[g]
    BY <2>1, DiskFacts, ContentFacts
  <2>3. New # None => f # "removal" /\ exchange'[f] = New
    BY <1>5, <2>2, RestoredLater
  <2>4. exchange["candidate"] # Partial
    BY DEF TakesOut
  <2>5. ASSUME Untouched PROVE Traces'
    <3>1. file = Old
      BY <2>5 DEF FileIs
    <3>2. \A g \in Files : exchange'[g] \in {None, Old, New}
      BY <2>2, <2>4, <2>5, <3>1, TracesAre, ContentFacts
    <3>3. file' = Wanted \/ \E g \in Files : exchange'[g] = Wanted
      BY <2>1, <2>3, RestoredLater
    <3> QED
      BY <1>2, <1>3, <2>1, <3>2, <3>3, TracesStay, OldNew, ContentFacts
  <2>6. ~ Untouched => Saved'
    BY <1>2, <2>2 DEF FileIs, Saved, Fresh
  <2>7. TakesOut(f, t)'
    <3>1. TakenIs("removal", Old)'
      BY <1>2, <1>3, <2>1, <2>2, SamePlace DEF TakenIs, FileIs, Fresh
    <3>2. TakesBefore(f, t)'
      BY <1>2, <1>3, <2>1, <2>3, SamePlace, RestoredLater DEF TakesBefore
    <3>3. exchange'["candidate"] # Partial
      BY <2>2, <2>4, ContentFacts
    <3> QED
      BY <1>2, <1>3, <2>1, <3>1, <3>2, <3>3, SamePlace, RestoredLater DEF TakesOut
  <2> QED
    BY <1>2, <1>3, <2>1, <2>2, <2>5, <2>6, <2>7, SamePlace, InsideStays DEF TakenBefore
<1> QED
  BY <1>4, <1>5

LEMMA TakenIsCompared ==
  ASSUME Inside, NEW f \in Files, NEW t \in TakenBefore, TakesOut(f, t), Progress,
         run.todo = CompareTakenWith(Old, t), TakenIs("removal", Old)
  PROVE  MarketInv'
<1>1. /\ run.todo # <<>> /\ Head(run.todo) = Step("compareTaken", Old)
      /\ Tail(run.todo) = CleanR(t) /\ run.todo # TakeOld(Old, t)
  BY RestoredLater, TakeHeads
<1>2. CompareTaken /\ UNCHANGED <<surfaces, journal, edits, faults>> /\ Arg = Old
  BY <1>1, StepFacts, MarketActs DEF Inside, MarketOps, Arg
<1>3. UNCHANGED intent
  BY <1>2 DEF CompareTaken
<1>4. CASE exchange["removal"] = Old
  <2>1. Onto(CleanR(t)) /\ UNCHANGED <<file, exchange>>
    BY <1>1, <1>2, <1>4, OntoTail DEF CompareTaken, Inside
  <2>2. Untouched => Traces'
    BY <1>2, <1>3, <2>1, TracesAre, TracesStay
  <2>3. ~ Untouched => Fresh(file)
    BY <1>4, StaleContents DEF TakenIs
  <2>4. ~ Untouched => Saved'
    BY <1>2, <2>1, <2>3 DEF Saved, Fresh
  <2>5. TakesOut(f, t)'
    <3>1. FileIs(None)'
      BY <1>2, <1>3, <2>1, <2>3, SamePlace DEF TakenIs, FileIs, Fresh
    <3>2. TakesBefore(f, t)'
      BY <1>1, <1>2, <1>3, <2>1, SamePlace, RestoredLater DEF TakesBefore
    <3> QED
      BY <1>2, <1>3, <2>1, <3>1, <3>2, SamePlace, RestoredLater DEF TakesOut
  <2> QED
    BY <1>2, <1>3, <2>1, <2>2, <2>4, <2>5, SamePlace, InsideStays, DiskFacts DEF TakenBefore
<1>5. CASE exchange["removal"] # Old
  <2>1. ~ Untouched
    BY <1>5 DEF TakenIs
  <2>2. CASE file # None
    <3>1. run' = None /\ UNCHANGED <<file, exchange>>
      BY <1>2, <1>5, <2>2 DEF CompareTaken, Throw
    <3> QED
      BY <1>2, <1>3, <3>1, EndsAsItIs
  <2>3. CASE file = None
    <3>1. /\ file' = exchange["removal"] /\ run' = None
          /\ exchange' = [exchange EXCEPT !["removal"] = None]
      BY <1>2, <1>5, <2>3 DEF CompareTaken, Throw
    <3>2. /\ Fresh(exchange["removal"]) /\ exchange["removal"] # Partial
          /\ exchange["removal"] \in Contents
      <4>1. Fresh(exchange["removal"])
        BY <2>1, <2>3 DEF TakenIs, Fresh
      <4> QED
        BY <4>1, <2>1, DiskFacts, StaleContents, ContentFacts
    <3>3. Fresh(file)' /\ file' \in Contents /\ file'.edit <= edits
      BY <1>2, <3>1, <3>2, InsideFacts DEF Fresh
    <3>4. Saved' /\ exchange' \in [Files -> Contents \cup {None, Partial}]
      BY <3>1, <3>3, DiskFacts DEF Saved
    <3> QED
      BY <1>2, <1>3, <2>1, <3>1, <3>3, <3>4, InsideStays
  <2> QED
    BY <2>2, <2>3
<1> QED
  BY <1>4, <1>5

LEMMA TakesOutStep ==
  ASSUME Inside, NEW f \in Files, NEW t \in TakenBefore, TakesOut(f, t), Progress
  PROVE  MarketInv'
<1>1. "removal" \in Files
  BY ContentFacts
<1>2. CASE run.todo = CleanR(TakeOld(Old, t)) /\ FileIs(Old)
  <2>1. run.todo # TakeOld(Old, t)
    <3>1. IsSeq(TakeOld(Old, t)) /\ IsSeq(t)
      BY RestoredLater
    <3>2. Head(CleanR(TakeOld(Old, t))).op = "rm"
      BY <3>1, TakeHeads
    <3>3. Head(TakeOld(Old, t)).op = "take"
      BY <3>1, TakeHeads
    <3> QED
      BY <1>2, <3>2, <3>3
  <2>2. /\ Onto(TakeOld(Old, t)) /\ UNCHANGED <<surfaces, journal, edits, file, intent>>
        /\ exchange' = [exchange EXCEPT !["removal"] = None]
        /\ Within' => MarketInv'
    <3>1. IF Untouched
          THEN \/ file = Wanted
               \/ file # None /\ ~ Committed(intent.root)
               \/ \E g \in Files \ {"removal"} : exchange[g] = Wanted
          ELSE Fresh(file)
      BY <1>2, <2>1, RestoredLater DEF FileIs
    <3> QED
      BY <1>1, <1>2, <3>1, RmStep, RestoredLater DEF CleanR
  <2>3. /\ New # None => exchange'[f] = New
        /\ exchange'["candidate"] # Partial
    BY <2>1, <2>2, RestoredLater, DiskFacts, ContentFacts DEF TakesOut
  <2>4. TakesOut(f, t)'
    <3>1. FileIs(Old)'
      BY <1>2, <2>2, SamePlace, FileIsStays DEF FileIs
    <3>2. TakesBefore(f, t)'
      BY <2>2, <2>3, SamePlace, RestoredLater DEF TakesBefore
    <3> QED
      BY <2>2, <2>3, <3>1, <3>2, SamePlace, RestoredLater DEF TakesOut
  <2> QED
    BY <2>2, <2>4, SamePlace DEF TakenBefore
<1>3. CASE run.todo = CleanR(t) /\ FileIs(None)
  <2>1. run.todo # TakeOld(Old, t)
    BY <1>3, RestoredLater, TakeHeads
  <2>2. /\ Onto(t) /\ UNCHANGED <<surfaces, journal, edits, file, intent>>
        /\ exchange' = [exchange EXCEPT !["removal"] = None]
        /\ Within' => MarketInv'
    <3>1. IF Untouched
          THEN \/ file = Wanted
               \/ file # None /\ ~ Committed(intent.root)
               \/ \E g \in Files \ {"removal"} : exchange[g] = Wanted
          ELSE Fresh(file)
      BY <1>3, <2>1, RestoredLater DEF FileIs
    <3> QED
      BY <1>1, <1>3, <3>1, RmStep, RestoredLater DEF CleanR
  <2>3. FileIs(None)'
    BY <1>3, <2>2, FileIsStays
  <2>4. CASE New = None
    <3>1. FileIs(New)' /\ KeepsEntry'
      BY <2>2, <2>3, <2>4, SamePlace, RestoredLater DEF KeepsEntry, FileIs
    <3>2. Cleans(Rest)'
      BY <2>2, <2>4, <3>1, SamePlace, RestoredLater DEF Cleans
    <3> QED
      BY <2>2, <3>2, SamePlace
  <2>5. CASE New # None
    <3>1. exchange'[f] = New
      BY <2>1, <2>2, <2>5, RestoredLater, DiskFacts
    <3>2. PICK u \in {Rest, Checked} : t = RestoreOf(f, u)
      BY <2>5, RestoredLater
    <3>3. Restores(f, u)'
      BY <2>2, <2>3, <2>5, <3>1, <3>2, SamePlace, RestoredLater DEF Restores
    <3> QED
      BY <2>2, <3>3, SamePlace
  <2> QED
    BY <2>4, <2>5
<1> QED
  BY <1>2, <1>3, OldIsTaken, TakenIsCompared DEF TakesOut

LEMMA InsideStep ==
  ASSUME Inside, Progress PROVE MarketInv'
BY WritesStep, CompletesStep, CleansStep, RestoresStep, TakesOutStep
   DEF Inside, Within, TakenBefore

-----------------------------------------------------------------------------
(* What a recovery works out *)

LEMMA Reassociate ==
  ASSUME NEW a, NEW b, NEW c, IsSeq(a), IsSeq(b), IsSeq(c)
  PROVE  IsSeq(a \o b) /\ (a \o b) \o c = a \o (b \o c)
<1> DEFINE S == {a[i] : i \in DOMAIN a} \cup {b[i] : i \in DOMAIN b} \cup {c[i] : i \in DOMAIN c}
<1>1. /\ a \in Seq({a[i] : i \in DOMAIN a}) /\ b \in Seq({b[i] : i \in DOMAIN b})
      /\ c \in Seq({c[i] : i \in DOMAIN c})
  BY DEF IsSeq
<1>2. a \in Seq(S) /\ b \in Seq(S) /\ c \in Seq(S)
  BY <1>1, SeqMonotonic
<1> HIDE DEF S
<1>3. (a \o b) \o c = a \o (b \o c)
  BY <1>2, ConcatAssociative
<1> QED
  BY <1>3, Joined

LEMMA Nothing ==
  ASSUME NEW t, IsSeq(t) PROVE <<>> \o t = t /\ t \o <<>> = t
<1>1. t \in Seq({t[i] : i \in DOMAIN t})
  BY DEF IsSeq
<1> QED
  BY <1>1, ConcatEmptySeq

LEMMA TuplesJoin ==
  /\ \A x, y : <<x, y>> = <<x>> \o <<y>>
  /\ \A x, y, z : <<x, y, z>> = <<x>> \o <<y, z>>
  /\ \A x, y, z, w : <<x, y, z, w>> = <<x>> \o <<y, z, w>>
<1>1. ASSUME NEW x, NEW y PROVE <<x, y>> = <<x>> \o <<y>>
  <2>1. /\ <<x>> \in Seq({x, y}) /\ <<y>> \in Seq({x, y}) /\ <<x, y>> \in Seq({x, y})
        /\ Len(<<x>>) = 1 /\ Len(<<y>>) = 1 /\ Len(<<x, y>>) = 2
        /\ <<x>>[1] = x /\ <<y>>[1] = y /\ <<x, y>>[1] = x /\ <<x, y>>[2] = y
    OBVIOUS
  <2>2. /\ (<<x>> \o <<y>>) \in Seq({x, y}) /\ Len(<<x>> \o <<y>>) = 2
        /\ (<<x>> \o <<y>>)[1] = x /\ (<<x>> \o <<y>>)[2] = y
    BY <2>1, ConcatProperties
  <2>3. \A i \in 1 .. 2 : <<x, y>>[i] = (<<x>> \o <<y>>)[i]
    <3>1. \A i \in 1 .. 2 : i = 1 \/ i = 2
      OBVIOUS
    <3> QED
      BY <2>1, <2>2, <3>1
  <2> QED
    BY <2>1, <2>2, <2>3, SeqEqual
<1>2. \A x, y, z : <<x, y, z>> = <<x>> \o <<y, z>>
  OBVIOUS
<1>3. \A x, y, z, w : <<x, y, z, w>> = <<x>> \o <<y, z, w>>
  OBVIOUS
<1> QED
  BY <1>1, <1>2, <1>3

LEMMA Unfolds ==
  ASSUME NEW t, IsSeq(t)
  PROVE  /\ \A x, y : <<x, y>> \o t = Then(x, Then(y, t))
         /\ \A x, y, z : <<x, y, z>> \o t = Then(x, Then(y, Then(z, t)))
         /\ \A x, y, z, w : <<x, y, z, w>> \o t = Then(x, Then(y, Then(z, Then(w, t))))
<1>1. ASSUME NEW x, NEW y
      PROVE  <<x, y>> \o t = Then(x, Then(y, t)) /\ IsSeq(<<x, y>>)
  <2>1. <<x, y>> = <<x>> \o <<y>> /\ IsSeq(<<x>>) /\ IsSeq(<<y>>)
    BY TuplesJoin, OneIsSeq
  <2>2. IsSeq(<<x>> \o <<y>>) /\ (<<x>> \o <<y>>) \o t = <<x>> \o (<<y>> \o t)
    BY <2>1, Reassociate
  <2> QED
    BY <2>1, <2>2, Zenon DEF Then
<1>2. ASSUME NEW x, NEW y, NEW z
      PROVE  <<x, y, z>> \o t = Then(x, Then(y, Then(z, t))) /\ IsSeq(<<x, y, z>>)
  <2>1. <<x, y, z>> = <<x>> \o <<y, z>> /\ IsSeq(<<x>>) /\ IsSeq(<<y, z>>)
    BY <1>1, TuplesJoin, OneIsSeq
  <2>2. <<y, z>> \o t = Then(y, Then(z, t))
    BY <1>1
  <2>3. /\ IsSeq(<<x>> \o <<y, z>>)
        /\ (<<x>> \o <<y, z>>) \o t = <<x>> \o (<<y, z>> \o t)
    BY <2>1, Reassociate
  <2> QED
    BY <2>1, <2>2, <2>3, Zenon DEF Then
<1>3. ASSUME NEW x, NEW y, NEW z, NEW w
      PROVE  <<x, y, z, w>> \o t = Then(x, Then(y, Then(z, Then(w, t))))
  <2>1. <<x, y, z, w>> = <<x>> \o <<y, z, w>> /\ IsSeq(<<x>>) /\ IsSeq(<<y, z, w>>)
    BY <1>2, TuplesJoin, OneIsSeq
  <2>2. <<y, z, w>> \o t = Then(y, Then(z, Then(w, t)))
    BY <1>2
  <2>3. (<<x>> \o <<y, z, w>>) \o t = <<x>> \o (<<y, z, w>> \o t)
    BY <2>1, Reassociate
  <2> QED
    BY <2>1, <2>2, <2>3, Zenon DEF Then
<1> QED
  BY <1>1, <1>2, <1>3

\* The pieces of a settlement, as places of a program.
LEMMA PiecesAre ==
  ASSUME NEW t, IsSeq(t)
  PROVE  /\ CleanUp \o t = CleanD(t)
         /\ \A c : Take(c) \o t = TakeOld(c, t)
         /\ \A f : Restore(f) \o t = Then(Step("restore", f), Then(Step("rm", f), t))
         /\ \A old, new : Replace(old, new) \o t = Write(old, new, t)
<1>1. /\ CleanUp \o t = CleanD(t)
      /\ \A c : Take(c) \o t = TakeOld(c, t)
      /\ \A f : Restore(f) \o t = Then(Step("restore", f), Then(Step("rm", f), t))
  BY Unfolds DEF CleanUp, CleanD, CleanC, CleanR, Take, TakeOld, CompareTakenWith, Restore
<1>2. ASSUME NEW old, NEW new PROVE Replace(old, new) \o t = Write(old, new, t)
  <2> DEFINE first == <<Step("candidate", new)>>
             link == <<Step("link", None)>>
             swap == <<Step("displace", None), Step("compare", old), Step("link", old),
                       Step("rm", "displaced")>>
             middle == IF old = None THEN link ELSE swap
             last == <<Step("rm", "candidate")>>
  <2>1. Replace(old, new) = (first \o middle) \o last
    BY DEF Replace
  <2>2. IsSeq(first) /\ IsSeq(link) /\ IsSeq(last)
    BY OneIsSeq
  <2>3. IsSeq(swap)
    <3>1. swap \in Seq({swap[i] : i \in 1 .. 4}) /\ DOMAIN swap = 1 .. 4
      OBVIOUS
    <3> QED
      BY <3>1 DEF IsSeq
  <2>4. last \o t = RmCandidate(t) /\ IsSeq(RmCandidate(t))
    BY WriteIs DEF RmCandidate, Then
  <2>5. middle \o RmCandidate(t) =
          IF old = None THEN LinkOver(old, t) ELSE DisplaceOld(old, t)
    <3>1. CASE old = None
      BY <3>1 DEF LinkOver, Then
    <3>2. CASE old # None
      <4>1. swap \o RmCandidate(t) = DisplaceOld(old, t)
        BY <2>4, <3>2, Unfolds DEF DisplaceOld, CompareWith, LinkOver, RmDisplaced
      <4> QED
        BY <3>2, <4>1
    <3> QED
      BY <3>1, <3>2
  <2> HIDE DEF first, link, swap, last
  <2>6. IsSeq(middle)
    BY <2>2, <2>3
  <2> HIDE DEF middle
  <2>7. IsSeq(first \o middle)
    BY <2>2, <2>6, Reassociate
  <2>8. Replace(old, new) \o t = (first \o middle) \o (last \o t)
    BY <2>1, <2>2, <2>7, Reassociate
  <2>9. (first \o middle) \o RmCandidate(t) = first \o (middle \o RmCandidate(t))
    BY <2>2, <2>4, <2>6, Reassociate
  <2> QED
    BY <2>4, <2>5, <2>8, <2>9 DEF Write, Then, first
<1> QED
  BY <1>1, <1>2

\* The exchange file that is looked at first.
LEMMA HoldersAre ==
  ASSUME NEW c, NEW found, NEW h, h = HoldersOf(c, found)
  PROVE  /\ h # <<>> => Head(h) \in Files /\ found[Head(h)] = c
         /\ h = <<>> => \A f \in Files : found[f] # c
<1> DEFINE holder(f) == IF found[f] = c THEN <<f>> ELSE <<>>
           x == holder("displaced")
           y == holder("candidate")
           z == holder("removal")
<1>1. h = (x \o y) \o z
  BY DEF HoldersOf
<1>2. ASSUME NEW f PROVE IsSeq(holder(f)) /\ (holder(f) = <<>> <=> found[f] # c)
  <2>1. IsSeq(<<f>>) /\ IsSeq(<<>>) /\ <<f>> # <<>>
    BY OneIsSeq, EmptyIsSeq
  <2> QED
    BY <2>1
<1>3. /\ IsSeq(x) /\ IsSeq(y) /\ IsSeq(z)
      /\ x = <<>> <=> found["displaced"] # c
      /\ y = <<>> <=> found["candidate"] # c
      /\ z = <<>> <=> found["removal"] # c
      /\ x # <<>> => x = <<"displaced">>
      /\ y # <<>> => y = <<"candidate">>
      /\ z # <<>> => z = <<"removal">>
  BY <1>2
<1> HIDE DEF x, y, z
<1>4. h = x \o (y \o z) /\ IsSeq(y \o z)
  BY <1>1, <1>3, Reassociate
<1>5. CASE x # <<>>
  <2>1. h = Then("displaced", y \o z)
    BY <1>3, <1>4, <1>5 DEF Then
  <2> QED
    BY <1>3, <1>4, <1>5, <2>1, ThenIs, ContentFacts
<1>6. CASE x = <<>> /\ y # <<>>
  <2>1. h = Then("candidate", z)
    BY <1>3, <1>4, <1>6, Nothing DEF Then
  <2> QED
    BY <1>3, <1>6, <2>1, ThenIs, ContentFacts
<1>7. CASE x = <<>> /\ y = <<>> /\ z # <<>>
  <2>1. h = z
    BY <1>3, <1>4, <1>7, Nothing
  <2>2. h = Then("removal", <<>>)
    BY <1>3, <1>7, <2>1, OneIsSeq
  <2> QED
    BY <1>3, <1>7, <2>2, ThenIs, EmptyIsSeq, ContentFacts
<1>8. CASE x = <<>> /\ y = <<>> /\ z = <<>>
  <2>1. h = <<>>
    BY <1>3, <1>4, <1>8, Nothing
  <2> QED
    BY <1>3, <1>8, <2>1, ContentFacts
<1> QED
  BY <1>5, <1>6, <1>7, <1>8

\* A recovery that starts now works on what no user has touched.
LEMMA RecoveryIs ==
  ASSUME Intended, Recovery(intent) # Refuse
  PROVE  /\ Untouched /\ Traces
         /\ Recovery(intent) = Settlement(intent, Found, Committed(intent.root))
         /\ Found \in [Files -> Contents \cup {None}]
         /\ \A f \in Files : Found[f] = IF exchange[f] = Partial THEN None ELSE exchange[f]
<1>1. /\ ~ Unexplained(intent, Committed(intent.root))
      /\ Recovery(intent) = Settlement(intent, Found, Committed(intent.root))
  BY DEF Recovery
<1>2. /\ file \in Contents \cup {None}
      /\ exchange \in [Files -> Contents \cup {None, Partial}]
  BY DEF Intended, MarketInv, MarketShaped
<1>3. Untouched
  <2> SUFFICES ASSUME ~ Untouched PROVE FALSE
    OBVIOUS
  <2>1. Saved
    BY InsideFacts
  <2>2. ~ Fresh(exchange["displaced"]) /\ ~ Fresh(exchange["removal"])
    <3>1. \A f \in Files : exchange[f] \in {None, Partial, intent.previous, intent.expected}
      BY <1>1 DEF Unexplained
    <3> QED
      BY <3>1, StaleContents, ContentFacts
  <2>3. file \notin {None, intent.previous, intent.expected}
    BY <2>1, <2>2, StaleContents DEF Saved
  <2>4. Settlement(intent, Found, Committed(intent.root)) = Refuse
    BY <2>3 DEF Settlement
  <2> QED
    BY <1>1, <2>4
<1>4. Traces
  BY <1>3, InsideFacts
<1>5. /\ Found \in [Files -> Contents \cup {None}]
      /\ \A f \in Files : Found[f] = IF exchange[f] = Partial THEN None ELSE exchange[f]
  <2>1. \A f \in Files : exchange[f] = Partial => f = "candidate"
    BY <1>4 DEF Traces
  <2> QED
    BY <1>2, <2>1, ContentFacts DEF Found, CutOff
<1> QED
  BY <1>1, <1>3, <1>4, <1>5

RestoringAfterTaking(c, b, h, x) == (((c \o Take(b)) \o Restore(h)) \o CleanUp) \o x

RewritingAfterCleaning(b, c, x) == (CleanUp \o Replace(b, c)) \o x

LEMMA RestoresAfterTaking ==
  ASSUME NEW c, IsSeq(c), NEW b, NEW h, NEW x, IsSeq(x), NEW u, IsSeq(u)
  PROVE  RestoringAfterTaking(c, b, h, x) \o u = c \o TakeOld(b, RestoreOf(h, x \o u))
<1> DEFINE p == c \o Take(b)
           q == p \o Restore(h)
           r == q \o CleanUp
           v == x \o u
<1>1. IsSeq(Take(b)) /\ IsSeq(Restore(h)) /\ IsSeq(CleanUp)
  BY QuietPieces DEF Program
<1>2. IsSeq(p) /\ \A t : IsSeq(t) => p \o t = c \o (Take(b) \o t)
  BY <1>1, Reassociate
<1> HIDE DEF p
<1>3. IsSeq(q) /\ \A t : IsSeq(t) => q \o t = p \o (Restore(h) \o t)
  BY <1>1, <1>2, Reassociate
<1> HIDE DEF q
<1>4. IsSeq(r) /\ \A t : IsSeq(t) => r \o t = q \o (CleanUp \o t)
  BY <1>1, <1>3, Reassociate
<1> HIDE DEF r
<1>5. (r \o x) \o u = r \o v /\ IsSeq(v)
  BY <1>4, Reassociate
<1> HIDE DEF v
<1>6. r \o v = q \o CleanD(v) /\ IsSeq(CleanD(v))
  BY <1>4, <1>5, PiecesAre, CleanIs
<1>7. Restore(h) \o CleanD(v) = RestoreOf(h, v) /\ IsSeq(RestoreOf(h, v))
  BY <1>5, <1>6, PiecesAre, CleanIs DEF RestoreOf, RmRestored
<1>8. q \o CleanD(v) = p \o RestoreOf(h, v)
  BY <1>3, <1>6, <1>7
<1>9. p \o RestoreOf(h, v) = c \o TakeOld(b, RestoreOf(h, v))
  BY <1>2, <1>7, PiecesAre
<1> QED
  BY <1>5, <1>6, <1>8, <1>9 DEF r, q, p, v, RestoringAfterTaking

LEMMA RewritesAfterCleaning ==
  ASSUME NEW b, NEW c, NEW x, IsSeq(x), NEW u, IsSeq(u)
  PROVE  RewritingAfterCleaning(b, c, x) \o u = CleanD(Write(b, c, x \o u))
<1> DEFINE p == CleanUp \o Replace(b, c)
           v == x \o u
<1>1. IsSeq(Replace(b, c)) /\ IsSeq(CleanUp)
  BY QuietPieces, ReplaceIsQuiet DEF Program
<1>2. IsSeq(p) /\ \A t : IsSeq(t) => p \o t = CleanUp \o (Replace(b, c) \o t)
  BY <1>1, Reassociate
<1> HIDE DEF p
<1>3. (p \o x) \o u = p \o v /\ IsSeq(v)
  BY <1>2, Reassociate
<1> HIDE DEF v
<1>4. Replace(b, c) \o v = Write(b, c, v) /\ IsSeq(Write(b, c, v))
  BY <1>3, PiecesAre, WriteIs
<1>5. p \o v = CleanD(Write(b, c, v))
  BY <1>2, <1>3, <1>4, PiecesAre
<1> QED
  BY <1>3, <1>5 DEF p, v, RewritingAfterCleaning

\* The check that a recovery that undoes ends with.
CheckedBefore(u) == IF Committed(intent.root) THEN u ELSE Check(Wanted, u)

\* The program of a recovery, u being what follows it, is t.
SettledBy(t, u) ==
  \/ file = Wanted /\ t = CleanD(u)
  \/ /\ Wanted = None /\ file = Unwanted /\ Unwanted # None
     /\ t = CleanR(TakeOld(Unwanted, CleanD(u)))
  \/ \E f \in Files :
       /\ Wanted # None /\ file = None /\ Found[f] = Wanted
       /\ t = RestoreOf(f, u)
  \/ \E f \in Files :
       /\ Wanted # None /\ file = Unwanted /\ Unwanted # None /\ Found[f] = Wanted
       /\ \/ t = CleanR(TakeOld(Unwanted, RestoreOf(f, CheckedBefore(u)))) /\ f # "removal"
          \/ t = TakeOld(Unwanted, RestoreOf(f, CheckedBefore(u)))
  \/ /\ Wanted # None /\ file = Unwanted /\ Unwanted # None /\ ~ Committed(intent.root)
     /\ t = CleanD(Write(Unwanted, Wanted, CheckedBefore(u)))

LEMMA SettlementIs ==
  ASSUME Intended, Recovery(intent) # Refuse, NEW u, IsSeq(u)
  PROVE  SettledBy(Recovery(intent) \o u, u)
<1> DEFINE R == Recovery(intent)
           v == CheckedBefore(u)
<1>0. /\ Untouched /\ Traces /\ R # Refuse
      /\ R = Settlement(intent, Found, Committed(intent.root))
      /\ Found \in [Files -> Contents \cup {None}]
      /\ \A f \in Files : Found[f] = IF exchange[f] = Partial THEN None ELSE exchange[f]
  BY RecoveryIs
<1> HIDE DEF R
<1> DEFINE holders == HoldersOf(Wanted, Found)
           verified == IF Committed(intent.root) THEN <<>> ELSE <<Step("verify", Wanted)>>
           remove == <<Step("rm", "removal")>>
           clear == IF holders # <<>> /\ Head(holders) = "removal" THEN <<>> ELSE remove
           h == Head(holders)
<1>1. R = IF file = Wanted THEN CleanUp
          ELSE IF file \notin {None, Unwanted} THEN Refuse
          ELSE IF Wanted = None THEN (remove \o Take(Unwanted)) \o CleanUp
          ELSE IF holders # <<>> /\ file = None THEN Restore(h) \o CleanUp
          ELSE IF holders # <<>>
               THEN (((clear \o Take(Unwanted)) \o Restore(h)) \o CleanUp) \o verified
          ELSE IF Committed(intent.root) THEN Refuse
          ELSE (CleanUp \o Replace(file, Wanted)) \o verified
  BY <1>0 DEF Settlement, Wanted, Unwanted
<1>2. /\ holders # <<>> => h \in Files /\ Found[h] = Wanted
      /\ holders = <<>> => \A f \in Files : Found[f] # Wanted
  BY HoldersAre
<1>3. /\ IsSeq(CleanUp) /\ IsSeq(remove) /\ IsSeq(clear) /\ IsSeq(verified)
      /\ IsSeq(Take(Unwanted)) /\ IsSeq(Restore(h)) /\ IsSeq(Replace(file, Wanted))
  BY QuietPieces, ReplaceIsQuiet, OneIsSeq, EmptyIsSeq DEF Program
<1>4. /\ verified \o u = v /\ IsSeq(v)
  <2>1. CASE Committed(intent.root)
    BY <2>1, Nothing DEF CheckedBefore
  <2>2. CASE ~ Committed(intent.root)
    BY <2>2, ThenIs DEF CheckedBefore, Check, Then
  <2> QED
    BY <2>1, <2>2
<1>5. remove \o TakeOld(Unwanted, CleanD(u)) = CleanR(TakeOld(Unwanted, CleanD(u)))
  BY DEF CleanR, Then
<1>6. clear \o TakeOld(Unwanted, RestoreOf(h, v)) =
        IF holders # <<>> /\ h = "removal" THEN TakeOld(Unwanted, RestoreOf(h, v))
        ELSE CleanR(TakeOld(Unwanted, RestoreOf(h, v)))
  <2>1. IsSeq(TakeOld(Unwanted, RestoreOf(h, v)))
    BY <1>4, CleanIs
  <2>2. CASE holders # <<>> /\ h = "removal"
    BY <2>1, <2>2, Nothing
  <2>3. CASE ~ (holders # <<>> /\ h = "removal")
    BY <2>3 DEF CleanR, Then
  <2> QED
    BY <2>2, <2>3
<1> HIDE DEF holders, verified, remove, clear, h, v
<1>7. CASE file = Wanted
  <2>1. R \o u = CleanD(u)
    BY <1>0, <1>1, <1>7, PiecesAre
  <2> QED
    BY <1>7, <2>1 DEF SettledBy, R
<1>8. CASE file # Wanted /\ Wanted = None
  <2>1. R = (remove \o Take(Unwanted)) \o CleanUp /\ file = Unwanted /\ Unwanted # None
    BY <1>0, <1>1, <1>8
  <2>2. IsSeq(remove \o Take(Unwanted))
    BY <1>3, Reassociate
  <2>3. ((remove \o Take(Unwanted)) \o CleanUp) \o u = (remove \o Take(Unwanted)) \o (CleanUp \o u)
    BY <1>3, <2>2, Reassociate
  <2>4. CleanUp \o u = CleanD(u) /\ IsSeq(CleanD(u))
    BY PiecesAre, CleanIs
  <2>5. (remove \o Take(Unwanted)) \o CleanD(u) = remove \o (Take(Unwanted) \o CleanD(u))
    BY <1>3, <2>4, Reassociate
  <2>6. Take(Unwanted) \o CleanD(u) = TakeOld(Unwanted, CleanD(u))
    BY <2>4, PiecesAre
  <2>7. R \o u = CleanR(TakeOld(Unwanted, CleanD(u)))
    BY <1>5, <2>1, <2>3, <2>4, <2>5, <2>6
  <2> QED
    BY <1>8, <2>1, <2>7 DEF SettledBy, R
<1>9. CASE file # Wanted /\ Wanted # None /\ holders # <<>> /\ file = None
  <2>1. R = Restore(h) \o CleanUp
    BY <1>0, <1>1, <1>9
  <2>2. (Restore(h) \o CleanUp) \o u = Restore(h) \o (CleanUp \o u)
    BY <1>3, Reassociate
  <2>3. CleanUp \o u = CleanD(u) /\ IsSeq(CleanD(u))
    BY PiecesAre, CleanIs
  <2>4. Restore(h) \o CleanD(u) = RestoreOf(h, u)
    BY <2>3, PiecesAre DEF RestoreOf, RmRestored
  <2>5. R \o u = RestoreOf(h, u)
    BY <2>1, <2>2, <2>3, <2>4
  <2> QED
    BY <1>2, <1>9, <2>5 DEF SettledBy, R
<1>10. CASE file # Wanted /\ Wanted # None /\ holders # <<>> /\ file # None
  <2>1. /\ R = (((clear \o Take(Unwanted)) \o Restore(h)) \o CleanUp) \o verified
        /\ file = Unwanted /\ Unwanted # None
    BY <1>0, <1>1, <1>10
  <2>2. RestoringAfterTaking(clear, Unwanted, h, verified) \o u
          = clear \o TakeOld(Unwanted, RestoreOf(h, verified \o u))
    BY <1>3, RestoresAfterTaking
  <2>3. R = RestoringAfterTaking(clear, Unwanted, h, verified)
    BY <2>1 DEF RestoringAfterTaking
  <2>4. R \o u = clear \o TakeOld(Unwanted, RestoreOf(h, v))
    BY <1>4, <2>2, <2>3
  <2> QED
    <3>1. /\ Wanted # None /\ file = Unwanted /\ Unwanted # None
          /\ h \in Files /\ Found[h] = Wanted
      BY <1>2, <1>10, <2>1
    <3>2. \/ R \o u = CleanR(TakeOld(Unwanted, RestoreOf(h, v))) /\ h # "removal"
          \/ R \o u = TakeOld(Unwanted, RestoreOf(h, v))
      BY <1>6, <1>10, <2>4
    <3> QED
      BY <3>1, <3>2 DEF SettledBy, R, v
<1>11. CASE file # Wanted /\ Wanted # None /\ holders = <<>>
  <2>1. /\ R = (CleanUp \o Replace(file, Wanted)) \o verified /\ ~ Committed(intent.root)
        /\ file \in {None, Unwanted}
    BY <1>0, <1>1, <1>11
  <2>2. file # None /\ file = Unwanted
    <3>1. \A f \in Files : exchange[f] # Wanted
      <4>1. Wanted # Partial
        BY InsideFacts, ContentFacts DEF Wanted
      <4> QED
        BY <1>0, <1>2, <1>11, <4>1
    <3> QED
      BY <1>0, <1>11, <2>1, <3>1 DEF Traces
  <2>3. RewritingAfterCleaning(Unwanted, Wanted, verified) \o u
          = CleanD(Write(Unwanted, Wanted, verified \o u))
    BY <1>3, RewritesAfterCleaning
  <2>4. R = RewritingAfterCleaning(Unwanted, Wanted, verified)
    BY <2>1, <2>2 DEF RewritingAfterCleaning
  <2>5. R \o u = CleanD(Write(Unwanted, Wanted, v))
    BY <1>4, <2>3, <2>4
  <2> QED
    BY <1>11, <2>1, <2>2, <2>5 DEF SettledBy, R, v
<1> QED
  BY <1>7, <1>8, <1>9, <1>10, <1>11

LEMMA ThenAfter ==
  \A r, x, t : IsSeq(r) /\ IsSeq(t) => (r \o <<x>>) \o t = r \o Then(x, t)
<1> SUFFICES ASSUME NEW r, NEW x, NEW t, IsSeq(r), IsSeq(t)
             PROVE  (r \o <<x>>) \o t = r \o Then(x, t)
  OBVIOUS
<1>1. IsSeq(<<x>>)
  BY OneIsSeq
<1> QED
  BY <1>1, Reassociate DEF Then

\* A recovery comes first of all, or last of a failed installation.
RecoveredIn(stage, t) ==
  \/ stage = "opening" /\ t = Opening
  \/ stage = "failed" /\ t = <<>>

\* recoverMarketplaceTransaction works out what is left to be done.
LEMMA RecoveryBegins ==
  ASSUME Intended, Progress, NEW t, IsSeq(t), RecoveredIn(run.stage, t),
         run.todo = Then(Step("recoverMarketplace", None), t)
  PROVE  MarketInv'
<1>1. /\ run.todo # <<>> /\ Head(run.todo) = Step("recoverMarketplace", None)
      /\ Tail(run.todo) = t
  BY ThenIs
<1>2. /\ RecoverMarketplace /\ UNCHANGED <<surfaces, journal, edits, faults>>
      /\ UNCHANGED <<file, intent>> /\ intent # None
  <2>1. RecoverMarketplace /\ UNCHANGED <<surfaces, journal, edits, faults>>
    BY <1>1, StepFacts, MarketActs DEF Intended, MarketOps
  <2> QED
    BY <2>1 DEF RecoverMarketplace, Intended
<1>3. /\ file \in Contents \cup {None} /\ (file # None => file.edit <= edits)
      /\ exchange \in [Files -> Contents \cup {None, Partial}]
  BY DEF Intended, MarketInv, MarketShaped
<1>4. CASE OwnedElsewhere(intent) \/ Recovery(intent) = Refuse
  <2>1. run' = None /\ UNCHANGED exchange
    BY <1>2, <1>4 DEF RecoverMarketplace, Throw
  <2>2. Traces => Traces'
    BY <1>2, <2>1 DEF Traces, Wanted, Committed
  <2>3. Saved => Saved'
    BY <1>2, <2>1 DEF Saved, Fresh
  <2> QED
    BY <1>2, <1>3, <2>1, <2>2, <2>3, InsideFacts, InsideStays
<1>5. CASE ~ OwnedElsewhere(intent) /\ Recovery(intent) # Refuse
  <2> DEFINE R == Recovery(intent)
             u == Then(Step("dropIntent", None), t)
  <2>1. /\ exchange' = Found
        /\ run'.todo = (R \o <<Step("dropIntent", None)>>) \o t
        /\ run'.stage = run.stage /\ run'.settling = TRUE
    BY <1>1, <1>2, <1>5, InsideFacts DEF RecoverMarketplace, RunFields
  <2>2. run'.todo = R \o u
    <3>1. IsSeq(R)
      BY QuietPieces, SettlementIsQuiet DEF Recovery, Program
    <3> HIDE DEF R
    <3>2. (R \o <<Step("dropIntent", None)>>) \o t = R \o u
      BY <3>1, ThenAfter
    <3> QED
      BY <2>1, <3>2, Zenon
  <2>3. /\ Untouched /\ Traces /\ R = Settlement(intent, Found, Committed(intent.root))
        /\ R # Refuse /\ Found \in [Files -> Contents \cup {None}]
        /\ \A f \in Files : Found[f] = IF exchange[f] = Partial THEN None ELSE exchange[f]
    BY <1>5, RecoveryIs
  <2>4. /\ Wanted' = Wanted /\ Old' = Unwanted /\ New' = Wanted
        /\ Rest' = u /\ Checked' = Check(Wanted, u) /\ Untouched'
        /\ (Committed(intent.root)' <=> Committed(intent.root))
    <3>1. /\ Wanted' = Wanted /\ Unwanted' = Unwanted /\ Untouched'
          /\ (Committed(intent.root)' <=> Committed(intent.root))
      BY <1>2, <2>3 DEF Wanted, Unwanted, Untouched, Committed
    <3>2. Opening' = Opening
      BY DEF Opening
    <3>3. Rest' = u
      BY <2>1, <3>2 DEF Rest, RecoveredIn
    <3> QED
      BY <2>1, <3>1, <3>3 DEF Old, New, Checked
  <2> HIDE DEF R, u
  <2>5. IsSeq(u)
    BY ThenIs DEF u
  <2>6. SettledBy(R \o u, u)
    BY <1>5, <2>5, SettlementIs DEF R
  <2>7. PICK v : v = CheckedBefore(u)
    OBVIOUS
  <2>71. /\ v \in {Rest', Checked'} /\ (~ Committed(intent.root) => v = Checked')
    BY <2>4, <2>7 DEF CheckedBefore
  <2>8. /\ \A f \in Files : exchange'[f] = Found[f] /\ exchange'[f] # Partial
        /\ exchange' \in [Files -> Contents \cup {None, Partial}]
    BY <2>1, <2>3, ContentFacts
  <2>9. Traces'
    <3>1. Wanted # Partial
      BY InsideFacts, ContentFacts DEF Wanted
    <3> QED
      BY <1>2, <2>3, <2>4, <2>8, <3>1 DEF Traces
  <2>10. /\ FileIs(New)' <=> file = Wanted
         /\ FileIs(Old)' <=> file = Unwanted
         /\ FileIs(None)' <=> file = None
    BY <1>2, <2>4 DEF FileIs
  <2>11. Within'
    <3>1. intent' # None /\ run'.stage \in {"opening", "failed"} /\ run'.settling
      BY <1>2, <2>1 DEF RecoveredIn
    <3>2. CASE file = Wanted /\ R \o u = CleanD(u)
      <4>1. KeepsEntry'
        BY <1>2, <2>4, <3>2, InsideFacts DEF KeepsEntry, Wanted
      <4>2. Cleans(Rest)'
        BY <2>2, <2>4, <2>10, <3>1, <3>2, <4>1 DEF Cleans
      <4> QED
        BY <3>1, <4>2 DEF Within
    <3>3. CASE /\ Wanted = None /\ file = Unwanted /\ Unwanted # None
               /\ R \o u = CleanR(TakeOld(Unwanted, CleanD(u)))
      <4>1. TakesOut("displaced", CleanD(Rest))'
        BY <2>2, <2>4, <2>8, <2>10, <3>1, <3>3, ContentFacts DEF TakesOut, TakesBefore
      <4> QED
        BY <3>1, <4>1, ContentFacts DEF Within
    <3>4. ASSUME NEW f \in Files,
                 Wanted # None, file = None, Found[f] = Wanted, R \o u = RestoreOf(f, u)
          PROVE  Within'
      <4>1. Restores(f, Rest)'
        BY <2>2, <2>4, <2>8, <2>10, <3>1, <3>4 DEF Restores
      <4> QED
        BY <3>1, <4>1 DEF Within
    <3>5. ASSUME NEW f \in Files, Wanted # None, file = Unwanted, Unwanted # None,
                 Found[f] = Wanted,
                 \/ R \o u = CleanR(TakeOld(Unwanted, RestoreOf(f, v))) /\ f # "removal"
                 \/ R \o u = TakeOld(Unwanted, RestoreOf(f, v))
          PROVE  Within'
      <4>1. TakesBefore(f, RestoreOf(f, v))'
        BY <2>2, <2>4, <2>71, <2>8, <3>5 DEF TakesBefore
      <4>2. TakesOut(f, RestoreOf(f, v))'
        BY <2>2, <2>4, <2>8, <2>10, <3>1, <3>5, <4>1, ContentFacts DEF TakesOut
      <4> QED
        BY <2>71, <3>1, <4>2 DEF Within
    <3>6. CASE /\ Wanted # None /\ file = Unwanted /\ Unwanted # None
               /\ ~ Committed(intent.root)
               /\ R \o u = CleanD(Write(Unwanted, Wanted, v))
      <4>1. Cleans(Write(Old, New, Checked))'
        BY <2>2, <2>4, <2>71, <2>10, <3>1, <3>6 DEF Cleans
      <4> QED
        BY <3>1, <4>1 DEF Within
    <3> QED
      BY <2>6, <2>7, <3>2, <3>3, <3>4, <3>5, <3>6 DEF SettledBy
  <2> QED
    BY <1>2, <1>3, <2>3, <2>8, <2>9, <2>11, InsideStays
<1> QED
  BY <1>4, <1>5

-----------------------------------------------------------------------------
(* Programs that are told by their places *)

LEMMA TailFacts ==
  ASSUME NEW t, IsSeq(t), t # <<>>
  PROVE  /\ Len(t) \in Nat /\ Len(t) > 0 /\ DOMAIN t = 1 .. Len(t) /\ Head(t) = t[1]
         /\ IsSeq(Tail(t)) /\ Len(Tail(t)) = Len(t) - 1 /\ DOMAIN Tail(t) = 1 .. Len(t) - 1
         /\ \A i \in 1 .. Len(t) - 1 : Tail(t)[i] = t[i + 1]
<1> DEFINE S == {t[i] : i \in DOMAIN t}
<1>1. t \in Seq(S)
  BY DEF IsSeq
<1> HIDE DEF S
<1>2. /\ Tail(t) \in Seq(S) /\ Len(Tail(t)) = Len(t) - 1
      /\ \A i \in 1 .. Len(Tail(t)) : Tail(t)[i] = t[i + 1]
  BY <1>1, HeadTailProperties
<1>3. Len(t) \in Nat /\ Len(t) > 0 /\ DOMAIN t = 1 .. Len(t)
  BY <1>1, LenProperties, EmptySeq
<1>4. Head(t) = t[1]
  BY <1>1
<1>5. DOMAIN Tail(t) = 1 .. Len(Tail(t))
  BY <1>2, LenProperties
<1> QED
  BY <1>2, <1>3, <1>4, <1>5, InSeq

\* The steps of s take the place of the first one of t.
Replaces(u, s, t) == u = s \o Tail(t)

LEMMA Replaced ==
  ASSUME NEW t, IsSeq(t), t # <<>>, NEW s, IsSeq(s), NEW u, Replaces(u, s, t)
  PROVE  /\ IsSeq(u) /\ Len(s) \in Nat /\ Len(t) \in Nat /\ Len(t) > 0
         /\ Len(u) = Len(s) + Len(t) - 1
         /\ DOMAIN u = 1 .. Len(u) /\ DOMAIN s = 1 .. Len(s) /\ DOMAIN t = 1 .. Len(t)
         /\ \A i \in DOMAIN s : i \in DOMAIN u /\ u[i] = s[i]
         /\ \A i \in DOMAIN t : i > 1 =>
              i + Len(s) - 1 \in DOMAIN u /\ u[i + Len(s) - 1] = t[i]
         /\ \A i \in DOMAIN u :
              \/ i \in DOMAIN s /\ u[i] = s[i]
              \/ /\ i > Len(s) /\ i - Len(s) + 1 \in DOMAIN t /\ i - Len(s) + 1 > 1
                 /\ u[i] = t[i - Len(s) + 1]
<1> DEFINE v == Tail(t)
<1>1. /\ Len(t) \in Nat /\ Len(t) > 0 /\ DOMAIN t = 1 .. Len(t)
      /\ IsSeq(v) /\ Len(v) = Len(t) - 1 /\ \A i \in 1 .. Len(t) - 1 : v[i] = t[i + 1]
  BY TailFacts
<1> HIDE DEF v
<1>2. Len(s) \in Nat /\ DOMAIN s = 1 .. Len(s)
  BY SeqFacts
<1>3. /\ IsSeq(u) /\ Len(u) = Len(s) + Len(v)
      /\ \A i \in 1 .. Len(s) + Len(v) : u[i] = IF i <= Len(s) THEN s[i] ELSE v[i - Len(s)]
  BY <1>1, Joined DEF v, Replaces
<1>4. DOMAIN u = 1 .. Len(u) /\ Len(u) = Len(s) + Len(t) - 1
  BY <1>1, <1>2, <1>3, SeqFacts
<1>5. \A i \in DOMAIN s : i \in DOMAIN u /\ u[i] = s[i]
  BY <1>1, <1>2, <1>3, <1>4
<1>6. ASSUME NEW i \in DOMAIN t, i > 1
      PROVE  i + Len(s) - 1 \in DOMAIN u /\ u[i + Len(s) - 1] = t[i]
  <2> DEFINE k == i + Len(s) - 1
  <2>1. /\ k \in 1 .. Len(s) + Len(v) /\ k > Len(s) /\ k - Len(s) = i - 1
        /\ i - 1 \in 1 .. Len(t) - 1 /\ (i - 1) + 1 = i
    BY <1>1, <1>2, <1>6
  <2> HIDE DEF k
  <2>2. u[k] = v[k - Len(s)]
    BY <1>2, <1>3, <2>1
  <2> QED
    BY <1>1, <1>3, <1>4, <2>1, <2>2 DEF k
<1>7. ASSUME NEW i \in DOMAIN u, i \notin DOMAIN s
      PROVE  /\ i > Len(s) /\ i - Len(s) + 1 \in DOMAIN t /\ i - Len(s) + 1 > 1
             /\ u[i] = t[i - Len(s) + 1]
  <2>1. /\ i \in 1 .. Len(s) + Len(v) /\ i > Len(s) /\ i - Len(s) \in 1 .. Len(t) - 1
        /\ i - Len(s) + 1 \in 1 .. Len(t) /\ i - Len(s) + 1 > 1
    BY <1>1, <1>2, <1>3, <1>4, <1>7
  <2>2. u[i] = v[i - Len(s)]
    <3>1. ~ (i <= Len(s))
      BY <1>2, <2>1
    <3> QED
      BY <1>3, <2>1, <3>1
  <2> QED
    BY <1>1, <2>1, <2>2
<1> QED
  BY <1>1, <1>2, <1>3, <1>4, <1>5, <1>6, <1>7

AllIn(t, ops) == IsSeq(t) /\ \A i \in DOMAIN t : t[i].op \in ops

LEMMA BeforeMoves ==
  ASSUME NEW t, IsSeq(t), NEW n \in Nat, Len(t) > n, NEW ops, Before(t, ops, n),
         NEW s, AllIn(s, ops), NEW u, Replaces(u, s, t)
  PROVE  /\ IsSeq(u) /\ Len(u) >= n /\ Before(u, ops, n)
         /\ \A k \in Nat : k < n => Last(u, k) = Last(t, k)
<1>0. t # <<>>
  BY EmptyIsSeq
<1>1. IsSeq(s) /\ \A i \in DOMAIN s : s[i].op \in ops
  BY DEF AllIn
<1>2. /\ IsSeq(u) /\ Len(s) \in Nat /\ Len(t) \in Nat /\ Len(u) = Len(s) + Len(t) - 1
      /\ DOMAIN u = 1 .. Len(u) /\ DOMAIN t = 1 .. Len(t)
      /\ \A i \in DOMAIN t : i > 1 =>
              i + Len(s) - 1 \in DOMAIN u /\ u[i + Len(s) - 1] = t[i]
      /\ \A i \in DOMAIN u :
              \/ i \in DOMAIN s /\ u[i] = s[i]
              \/ /\ i > Len(s) /\ i - Len(s) + 1 \in DOMAIN t /\ i - Len(s) + 1 > 1
                 /\ u[i] = t[i - Len(s) + 1]
  BY <1>0, <1>1, Replaced
<1>3. Before(u, ops, n)
  <2> SUFFICES ASSUME NEW i \in DOMAIN u, i <= Len(u) - n PROVE u[i].op \in ops
    BY DEF Before
  <2>1. CASE i \in DOMAIN s /\ u[i] = s[i]
    BY <1>1, <2>1
  <2>2. CASE /\ i > Len(s) /\ i - Len(s) + 1 \in DOMAIN t /\ i - Len(s) + 1 > 1
             /\ u[i] = t[i - Len(s) + 1]
    <3>1. i - Len(s) + 1 <= Len(t) - n
      BY <1>2
    <3> QED
      BY <2>2, <3>1 DEF Before
  <2> QED
    BY <1>2, <2>1, <2>2
<1>4. ASSUME NEW k \in Nat, k < n PROVE Last(u, k) = Last(t, k)
  <2>1. Len(t) - k \in DOMAIN t /\ Len(t) - k > 1 /\ (Len(t) - k) + Len(s) - 1 = Len(u) - k
    BY <1>2, <1>4
  <2> QED
    BY <1>2, <2>1 DEF Last
<1> QED
  BY <1>2, <1>3, <1>4

LEMMA MarksMove ==
  ASSUME NEW t, IsSeq(t), NEW n \in DOMAIN t, n > 1, Marks(t, n),
         NEW s, AllIn(s, AdvanceOps), NEW u, Replaces(u, s, t)
  PROVE  IsSeq(u) /\ \E m \in DOMAIN u : Marks(u, m)
<1>0. t # <<>>
  BY EmptySeq
<1>1. IsSeq(s) /\ \A i \in DOMAIN s : s[i].op \in AdvanceOps
  BY DEF AllIn
<1>2. /\ IsSeq(u) /\ Len(s) \in Nat /\ Len(t) \in Nat /\ Len(u) = Len(s) + Len(t) - 1
      /\ DOMAIN u = 1 .. Len(u) /\ DOMAIN t = 1 .. Len(t)
      /\ \A i \in DOMAIN t : i > 1 =>
              i + Len(s) - 1 \in DOMAIN u /\ u[i + Len(s) - 1] = t[i]
      /\ \A i \in DOMAIN u :
              \/ i \in DOMAIN s /\ u[i] = s[i]
              \/ /\ i > Len(s) /\ i - Len(s) + 1 \in DOMAIN t /\ i - Len(s) + 1 > 1
                 /\ u[i] = t[i - Len(s) + 1]
      /\ DOMAIN s = 1 .. Len(s)
  BY <1>0, <1>1, Replaced
<1> DEFINE m == n + Len(s) - 1
<1>3. n \in Nat /\ n + 1 \in DOMAIN t /\ n + 1 > 1 /\ (n + 1) + Len(s) - 1 = m + 1 /\ m \in Nat
  <2>1. n + 1 \in DOMAIN t
    BY DEF Marks
  <2>2. n \in Nat /\ n > 1 /\ Len(s) \in Nat
    BY <1>2
  <2> QED
    BY <2>1, <2>2
<1>4. m \in DOMAIN u /\ m + 1 \in DOMAIN u /\ u[m] = t[n] /\ u[m + 1] = t[n + 1]
  BY <1>2, <1>3
<1>5. ASSUME NEW i \in DOMAIN u, i < m PROVE u[i].op \in AdvanceOps
  <2>1. CASE i \in DOMAIN s /\ u[i] = s[i]
    BY <1>1, <2>1
  <2>2. CASE /\ i > Len(s) /\ i - Len(s) + 1 \in DOMAIN t /\ i - Len(s) + 1 > 1
             /\ u[i] = t[i - Len(s) + 1]
    <3>1. i - Len(s) + 1 < n
      BY <1>2, <1>3, <1>5
    <3> QED
      BY <2>2, <3>1 DEF Marks
  <2> QED
    BY <1>2, <2>1, <2>2
<1>6. ASSUME NEW i \in DOMAIN u, i > m + 1 PROVE u[i].op \in CloseOps
  <2>1. i \notin DOMAIN s
    BY <1>2, <1>3, <1>6
  <2>2. /\ i - Len(s) + 1 \in DOMAIN t /\ u[i] = t[i - Len(s) + 1]
    BY <1>2, <2>1
  <2>3. i - Len(s) + 1 > n + 1
    BY <1>2, <1>3, <1>6
  <2> QED
    BY <2>2, <2>3 DEF Marks
<1> HIDE DEF m
<1>7. Marks(u, m)
  BY <1>4, <1>5, <1>6 DEF Marks
<1> QED
  BY <1>2, <1>4, <1>7

LEMMA AllInFacts ==
  ASSUME NEW S
  PROVE  /\ AllIn(<<>>, S)
         /\ \A x : x.op \in S => AllIn(<<x>>, S)
         /\ \A s, t : AllIn(s, S) /\ AllIn(t, S) => AllIn(s \o t, S)
<1>1. AllIn(<<>>, S)
  BY EmptyIsSeq, EmptySeq DEF AllIn
<1>2. ASSUME NEW x, x.op \in S PROVE AllIn(<<x>>, S)
  <2>1. DOMAIN <<x>> = {1} /\ <<x>>[1] = x
    OBVIOUS
  <2> QED
    BY <1>2, <2>1, OneIsSeq DEF AllIn
<1>3. ASSUME NEW s, NEW t, AllIn(s, S), AllIn(t, S) PROVE AllIn(s \o t, S)
  <2>1. IsSeq(s) /\ IsSeq(t)
    BY <1>3 DEF AllIn
  <2>2. /\ Len(s) \in Nat /\ Len(t) \in Nat /\ DOMAIN s = 1 .. Len(s) /\ DOMAIN t = 1 .. Len(t)
        /\ IsSeq(s \o t) /\ DOMAIN (s \o t) = 1 .. Len(s) + Len(t)
        /\ \A i \in 1 .. Len(s) + Len(t) :
             (s \o t)[i] = IF i <= Len(s) THEN s[i] ELSE t[i - Len(s)]
    BY <2>1, Joined, SeqFacts
  <2>3. ASSUME NEW i \in DOMAIN (s \o t) PROVE (s \o t)[i].op \in S
    <3>1. CASE i <= Len(s)
      BY <1>3, <2>2, <3>1 DEF AllIn
    <3>2. CASE i > Len(s)
      <4>1. i - Len(s) \in DOMAIN t
        BY <2>2, <3>2
      <4> QED
        BY <1>3, <2>2, <3>2, <4>1 DEF AllIn
    <3> QED
      BY <2>2, <3>1, <3>2
  <2> QED
    BY <2>2, <2>3 DEF AllIn
<1> QED
  BY <1>1, <1>2, <1>3

LEMMA AllInMore ==
  ASSUME NEW S, NEW T, S \subseteq T PROVE \A t : AllIn(t, S) => AllIn(t, T)
BY DEF AllIn

LEMMA AllInTuples ==
  ASSUME NEW S
  PROVE  /\ \A x, y : x.op \in S /\ y.op \in S => AllIn(<<x, y>>, S)
         /\ \A x, y, z : x.op \in S /\ y.op \in S /\ z.op \in S => AllIn(<<x, y, z>>, S)
<1>1. ASSUME NEW x, NEW y, x.op \in S, y.op \in S PROVE AllIn(<<x, y>>, S)
  <2>1. <<x, y>> = <<x>> \o <<y>>
    BY TuplesJoin
  <2>2. AllIn(<<x>>, S) /\ AllIn(<<y>>, S)
    BY <1>1, AllInFacts
  <2>3. AllIn(<<x>> \o <<y>>, S)
    BY <2>2, AllInFacts
  <2> QED
    BY <2>1, <2>3, Zenon
<1>2. ASSUME NEW x, NEW y, NEW z, x.op \in S, y.op \in S, z.op \in S
      PROVE  AllIn(<<x, y, z>>, S)
  <2>1. <<x, y, z>> = <<x>> \o <<y, z>>
    BY TuplesJoin
  <2>2. AllIn(<<x>>, S) /\ AllIn(<<y, z>>, S)
    BY <1>1, <1>2, AllInFacts
  <2>3. AllIn(<<x>> \o <<y, z>>, S)
    BY <2>2, AllInFacts
  <2> QED
    BY <2>1, <2>3, Zenon
<1> QED
  BY <1>1, <1>2

LEMMA PrefixesAre ==
  /\ AllIn(CleanUpSurfaces, {"clean"}) /\ AllIn(AppServer, {"refresh", "reconcile"})
  /\ \A s : AllIn(Move(s), {"aside", "place"})
  /\ \A j : AllIn(Rollback(j), UndoOps)
<1>1. AllIn(CleanUpSurfaces, {"clean"})
  BY StepFacts, AllInFacts, AllInTuples DEF CleanUpSurfaces, OfMain
<1>2. AllIn(AppServer, {"refresh", "reconcile"})
  BY StepFacts, AllInFacts, AllInTuples DEF AppServer, OfMain
<1>3. \A s : AllIn(Move(s), {"aside", "place"})
  BY StepFacts, AllInTuples DEF Move
<1>4. ASSUME NEW j PROVE AllIn(Rollback(j), UndoOps)
  <2> DEFINE back(s) == IF s \in j.recorded THEN <<Step("putBack", s)>> ELSE <<>>
             a == back("launcher")
             b == IF j.current = Unrecorded THEN <<>>
                  ELSE <<Step("unlinkCurrent", None), Step("linkCurrent", j.current)>>
             c == back("skill")
             d == back("source")
             e == IF "source" \in j.recorded THEN <<Step("cacheBack", None)>> ELSE <<>>
             f == OfMain(<<Step("stateBack", j.state)>>)
             g == <<Step("settled", None)>>
  <2>1. \A op \in UndoOps : \A x : Step(op, x).op \in UndoOps
    BY StepFacts
  <2>2. /\ "putBack" \in UndoOps /\ "unlinkCurrent" \in UndoOps /\ "linkCurrent" \in UndoOps
        /\ "cacheBack" \in UndoOps /\ "stateBack" \in UndoOps /\ "settled" \in UndoOps
    BY DEF UndoOps
  <2> HIDE DEF UndoOps
  <2>3. AllIn(a, UndoOps) /\ AllIn(c, UndoOps) /\ AllIn(d, UndoOps)
    BY <2>1, <2>2, AllInFacts
  <2>4. AllIn(b, UndoOps)
    BY <2>1, <2>2, AllInFacts, AllInTuples
  <2>5. AllIn(e, UndoOps) /\ AllIn(f, UndoOps) /\ AllIn(g, UndoOps)
    BY <2>1, <2>2, AllInFacts DEF OfMain
  <2>6. Rollback(j) = (((((a \o b) \o c) \o d) \o e) \o f) \o g
    BY DEF Rollback
  <2> HIDE DEF a, b, c, d, e, f, g
  <2>7. AllIn((a \o b) \o c, UndoOps)
    BY <2>3, <2>4, AllInFacts
  <2>8. AllIn(((a \o b) \o c) \o d, UndoOps)
    BY <2>3, <2>7, AllInFacts
  <2>9. AllIn((((a \o b) \o c) \o d) \o e, UndoOps)
    BY <2>5, <2>8, AllInFacts
  <2>10. AllIn(((((a \o b) \o c) \o d) \o e) \o f, UndoOps)
    BY <2>5, <2>9, AllInFacts
  <2>11. AllIn((((((a \o b) \o c) \o d) \o e) \o f) \o g, UndoOps)
    BY <2>5, <2>10, AllInFacts
  <2> QED
    BY <2>6, <2>11, Zenon
<1> QED
  BY <1>1, <1>2, <1>3, <1>4

\* What a rollback or a recovery ends with.
LEMMA ClosingIs ==
  LET s == CleanUpSurfaces \o <<Step("dropJournal", None)>>
  IN  /\ AllIn(s, UndoOps) /\ AllIn(s, CloseOps)
      /\ \E i \in DOMAIN s : s[i].op = "dropJournal"
<1> DEFINE d == <<Step("dropJournal", None)>>
           s == CleanUpSurfaces \o d
           S == {"clean", "dropJournal"}
<1>1. AllIn(CleanUpSurfaces, S) /\ AllIn(d, S)
  BY PrefixesAre, AllInFacts, AllInMore, StepFacts
<1>2. DOMAIN d = {1} /\ d[1].op = "dropJournal" /\ Len(d) = 1
  BY StepFacts
<1> HIDE DEF d
<1>3. AllIn(s, S)
  BY <1>1, AllInFacts
<1>4. AllIn(s, UndoOps) /\ AllIn(s, CloseOps)
  BY <1>3, AllInMore DEF UndoOps, CloseOps
<1>5. \E i \in DOMAIN s : s[i].op = "dropJournal"
  <2> DEFINE c == CleanUpSurfaces
  <2>1. IsSeq(c) /\ IsSeq(d)
    BY <1>1 DEF AllIn
  <2> HIDE DEF c
  <2>2. /\ IsSeq(c \o d) /\ Len(c \o d) = Len(c) + 1 /\ Len(c) \in Nat
        /\ (c \o d)[Len(c) + 1] = d[1]
    <3>1. /\ IsSeq(c \o d) /\ Len(c \o d) = Len(c) + 1 /\ Len(c) \in Nat
          /\ \A i \in 1 .. Len(c) + 1 :
               (c \o d)[i] = IF i <= Len(c) THEN c[i] ELSE d[i - Len(c)]
      BY <1>2, <2>1, Joined, SeqFacts
    <3>2. /\ Len(c) + 1 \in 1 .. Len(c) + 1 /\ ~ (Len(c) + 1 <= Len(c))
          /\ (Len(c) + 1) - Len(c) = 1
      BY <3>1
    <3>3. (c \o d)[Len(c) + 1] = d[(Len(c) + 1) - Len(c)]
      BY <3>1, <3>2
    <3> QED
      BY <3>1, <3>2, <3>3
  <2>3. Len(c) + 1 \in DOMAIN (c \o d)
    BY <2>2, SeqFacts
  <2> QED
    BY <1>2, <2>2, <2>3 DEF c
<1> QED
  BY <1>4, <1>5 DEF d

\* The steps forward: up to the marker, and from it on.
LEMMA ForwardIs ==
  \E s, t : /\ AllIn(s, AdvanceOps) /\ AllIn(t, CloseOps)
            /\ Forward = s \o Then(CommitStep, Then(Step("dropIntent", None), t))
<1> DEFINE s == OfMain(<< Step("record", "source"), Step("attempt", None), Step("add", None),
                          Step("record", "skill"), Step("recordCurrent", None),
                          Step("swapCurrent", None), Step("record", "launcher"),
                          Step("state", None) >>)
           c == <<Step("dropIntent", None)>>
           d == <<Step("dropJournal", None)>>
           t == (CleanUpSurfaces \o d) \o AppServer
<1>1. AllIn(s, AdvanceOps)
  <2> DEFINE x == << Step("record", "source"), Step("attempt", None), Step("add", None),
                     Step("record", "skill"), Step("recordCurrent", None),
                     Step("swapCurrent", None), Step("record", "launcher"),
                     Step("state", None) >>
             a == << Step("record", "source"), Step("attempt", None), Step("add", None)>>
             b == <<Step("record", "skill"), Step("recordCurrent", None)>>
             e == <<Step("swapCurrent", None), Step("record", "launcher"),
                     Step("state", None) >>
  <2>1. x = a \o (b \o e)
    <3>1. x = a \o << Step("record", "skill"), Step("recordCurrent", None),
                     Step("swapCurrent", None), Step("record", "launcher"),
                     Step("state", None) >>
      OBVIOUS
    <3>2. << Step("record", "skill"), Step("recordCurrent", None),
                     Step("swapCurrent", None), Step("record", "launcher"),
                     Step("state", None) >> = b \o e
      OBVIOUS
    <3> QED
      BY <3>1, <3>2, Zenon
  <2>2. AllIn(a, AdvanceOps) /\ AllIn(b, AdvanceOps) /\ AllIn(e, AdvanceOps)
    BY StepFacts, AllInTuples DEF AdvanceOps
  <2>3. AllIn(<<>>, AdvanceOps)
    BY AllInFacts
  <2> HIDE DEF x, a, b, e
  <2>4. AllIn(b \o e, AdvanceOps)
    BY <2>2, AllInFacts
  <2>5. AllIn(x, AdvanceOps)
    BY <2>1, <2>2, <2>4, AllInFacts
  <2>6. s = IF run.root = Main THEN x ELSE <<>>
    BY DEF OfMain, x
  <2> QED
    BY <2>3, <2>5, <2>6
<1>2. AllIn(CleanUpSurfaces \o d, CloseOps) /\ AllIn(AppServer, CloseOps)
  BY ClosingIs, PrefixesAre, AllInMore DEF CloseOps
<1>3. AllIn(t, CloseOps) /\ IsSeq(t)
  BY <1>2, AllInFacts DEF AllIn
<1>4. /\ IsSeq(s) /\ IsSeq(CleanUpSurfaces) /\ IsSeq(d) /\ IsSeq(c) /\ IsSeq(AppServer)
      /\ IsSeq(CleanUpSurfaces \o d) /\ IsSeq(<<CommitStep>>)
  BY <1>1, <1>2, PrefixesAre, OneIsSeq DEF AllIn
<1>5. Forward = ((s \o <<CommitStep>>) \o ((c \o CleanUpSurfaces) \o d)) \o AppServer
  BY DEF Forward, AfterCommit, CommitStep
<1> HIDE DEF s, d, c
<1> DEFINE u == Then(Step("dropIntent", None), t)
<1>6. ((c \o CleanUpSurfaces) \o d) \o AppServer = u /\ IsSeq((c \o CleanUpSurfaces) \o d)
  <2>1. (c \o CleanUpSurfaces) \o d = c \o (CleanUpSurfaces \o d) /\ IsSeq(c \o CleanUpSurfaces)
    BY <1>4, Reassociate
  <2>2. (c \o (CleanUpSurfaces \o d)) \o AppServer = c \o t
    BY <1>4, Reassociate
  <2>3. IsSeq((c \o CleanUpSurfaces) \o d)
    BY <1>4, <2>1, Reassociate
  <2> QED
    BY <2>1, <2>2, <2>3 DEF Then, c
<1>7. IsSeq(u)
  BY <1>3, ThenIs
<1> DEFINE m == (c \o CleanUpSurfaces) \o d
           p == s \o <<CommitStep>>
<1>8. IsSeq(p) /\ IsSeq(m)
  BY <1>4, <1>6, Reassociate
<1> HIDE DEF m, u, p
<1>9. Forward = p \o u
  <2>1. (p \o m) \o AppServer = p \o (m \o AppServer)
    BY <1>4, <1>8, Reassociate
  <2> QED
    BY <1>5, <1>6, <2>1 DEF m, p
<1>10. p \o u = s \o Then(CommitStep, u)
  BY <1>4, <1>7, ThenAfter DEF p
<1> QED
  BY <1>1, <1>3, <1>9, <1>10 DEF u

\* Marks in it.
LEMMA ForwardMarks == IsSeq(Forward) /\ \E n \in DOMAIN Forward : Marks(Forward, n)
<1>1. PICK s, t : /\ AllIn(s, AdvanceOps) /\ AllIn(t, CloseOps)
                  /\ Forward = s \o Then(CommitStep, Then(Step("dropIntent", None), t))
  BY ForwardIs
<1> DEFINE u == Then(Step("dropIntent", None), t)
           v == Then(CommitStep, u)
<1>2. IsSeq(s) /\ IsSeq(t)
  BY <1>1 DEF AllIn
<1>3. IsSeq(u) /\ u # <<>> /\ Head(u) = Step("dropIntent", None) /\ Tail(u) = t
  BY <1>2, ThenIs
<1>4. IsSeq(v) /\ v # <<>> /\ Head(v) = CommitStep /\ Tail(v) = u
  BY <1>3, ThenIs
<1> HIDE DEF u, v
<1>5. /\ Len(t) \in Nat /\ Len(u) = Len(t) + 1 /\ Len(v) = Len(t) + 2
      /\ DOMAIN t = 1 .. Len(t)
      /\ v[1] = CommitStep /\ v[2] = Step("dropIntent", None)
      /\ \A i \in 3 .. Len(t) + 2 : v[i] = t[i - 2]
  <2>1. Len(t) \in Nat /\ DOMAIN t = 1 .. Len(t)
    BY <1>2, SeqFacts
  <2>2. Len(t) = Len(u) - 1 /\ u[1] = Step("dropIntent", None) /\ Len(u) \in Nat
        /\ \A i \in 1 .. Len(u) - 1 : t[i] = u[i + 1]
    BY <1>3, TailFacts
  <2>3. Len(u) = Len(v) - 1 /\ v[1] = CommitStep /\ Len(v) \in Nat
        /\ \A i \in 1 .. Len(v) - 1 : u[i] = v[i + 1]
    BY <1>4, TailFacts
  <2>4. v[2] = u[1]
    BY <2>1, <2>2, <2>3
  <2>5. ASSUME NEW i \in 3 .. Len(t) + 2 PROVE v[i] = t[i - 2]
    <3>1. /\ i - 2 \in 1 .. Len(u) - 1 /\ (i - 2) + 1 = i - 1
          /\ i - 1 \in 1 .. Len(v) - 1 /\ (i - 1) + 1 = i
      BY <2>1, <2>2, <2>3
    <3> QED
      BY <2>2, <2>3, <3>1
  <2> QED
    BY <2>1, <2>2, <2>3, <2>4, <2>5
<1> DEFINE f == s \o v
           n == Len(s) + 1
<1>6. /\ IsSeq(f) /\ DOMAIN f = 1 .. Len(s) + Len(v) /\ Len(s) \in Nat
      /\ DOMAIN s = 1 .. Len(s)
      /\ \A i \in 1 .. Len(s) + Len(v) : f[i] = IF i <= Len(s) THEN s[i] ELSE v[i - Len(s)]
  BY <1>2, <1>4, Joined, SeqFacts
<1> HIDE DEF f
<1>7. n \in DOMAIN f /\ n + 1 \in DOMAIN f /\ f[n] = v[1] /\ f[n + 1] = v[2] /\ n \in Nat
  BY <1>5, <1>6
<1>8. ASSUME NEW i \in DOMAIN f, i < n PROVE f[i].op \in AdvanceOps
  <2>1. i \in DOMAIN s /\ f[i] = s[i]
    BY <1>5, <1>6, <1>8
  <2> QED
    BY <1>1, <2>1 DEF AllIn
<1>9. ASSUME NEW i \in DOMAIN f, i > n + 1 PROVE f[i].op \in CloseOps
  <2>1. /\ ~ (i <= Len(s)) /\ i \in 1 .. Len(s) + Len(v)
        /\ i - Len(s) \in 3 .. Len(t) + 2 /\ (i - Len(s)) - 2 \in DOMAIN t
    BY <1>5, <1>6, <1>9
  <2>2. f[i] = v[i - Len(s)]
    BY <1>6, <2>1
  <2>3. f[i] = t[(i - Len(s)) - 2]
    BY <1>5, <2>1, <2>2
  <2> QED
    BY <1>1, <2>1, <2>3 DEF AllIn
<1> HIDE DEF n
<1>10. Marks(f, n)
  BY <1>5, <1>7, <1>8, <1>9 DEF Marks
<1>11. Forward = f
  BY <1>1 DEF f, v, u
<1> QED
  BY <1>6, <1>7, <1>10, <1>11

-----------------------------------------------------------------------------
(* Steps that are not about the marketplace *)

\* An installer that runs, and a step that shows another release only when it
\* sets the marker.
Stepping ==
  /\ InstallInv /\ MarketInv /\ run # None
  /\ Shown' # Shown => At("commit")

LEMMA MarketStays ==
  ASSUME MarketInv, UNCHANGED <<file, exchange, intent, edits>>, Shown' = Shown,
         intent # None => (Committed(intent.root)' <=> Committed(intent.root)),
         run' # None => Between' \/ Within'
  PROVE  MarketInv'
<1>1. MarketShaped'
  BY DEF MarketInv, MarketShaped
<1>2. Settleable'
  <2>1. CASE intent = None
    BY <2>1 DEF MarketInv, Settleable, Fresh
  <2>2. CASE intent # None
    <3>1. Adds' /\ (Untouched' <=> Untouched)
      BY <2>2 DEF MarketInv, Settleable, Adds, Untouched
    <3>2. Traces => Traces'
      BY <2>2 DEF Traces, Wanted
    <3>3. Saved => Saved'
      BY DEF Saved, Fresh
    <3> QED
      BY <2>2, <3>1, <3>2, <3>3 DEF MarketInv, Settleable
  <2> QED
    BY <2>1, <2>2
<1>3. Listed'
  BY DEF MarketInv, Listed
<1>4. Placed'
  BY DEF Placed
<1> QED
  BY <1>1, <1>2, <1>3, <1>4 DEF MarketInv

LEMMA CommittedStays ==
  ASSUME InstallShaped, run # None,
         \/ UNCHANGED journal
         \/ \E j : Journal(j) /\ (j # None /\ j.status = "committed" <=> Committed(run.root))
  PROVE  /\ \A r \in Roots : (Committed(r)' <=> Committed(r))
         /\ run'.root = run.root => (Committed(run.root)' <=> Committed(run.root))
<1>1. run.root \in Roots /\ journal \in [Roots -> Journals \cup {None}]
  BY DEF InstallShaped
<1>2. \A r \in Roots : (Committed(r)' <=> Committed(r))
  BY <1>1 DEF Committed, Journal
<1> QED
  BY <1>1, <1>2 DEF Committed

\* The program goes on, and steps of ops may take the place of its first one.
Continues(ops) ==
  \/ run' = None
  \/ Onto(run.todo)
  \/ \E s, u : AllIn(s, ops) /\ Replaces(u, s, run.todo) /\ Onto(u)

LEMMA ContinuesWith ==
  ASSUME InstallShaped, run # None, NEW ops
  PROVE  /\ Proceed => Continues(ops)
         /\ \A s : ProceedWith(s) /\ AllIn(s, ops) => Continues(ops)
<1>1. \A s : ProceedWith(s) => Onto(s \o Tail(run.todo))
  BY DEF InstallShaped, RunFields, ProceedWith, Onto
<1>2. ASSUME NEW s, ProceedWith(s), AllIn(s, ops) PROVE Continues(ops)
  BY <1>1, <1>2 DEF Continues, Replaces
<1>3. ASSUME Proceed PROVE Continues(ops)
  <2>1. CASE run.todo = <<>>
    <3>1. Onto(Tail(run.todo))
      BY <1>3, OntoTail
    <3> QED
      BY <2>1, <3>1 DEF Continues
  <2>2. CASE run.todo # <<>>
    <3>1. IsSeq(Tail(run.todo))
      BY <2>2, TailFacts DEF InstallShaped, Program
    <3>2. <<>> \o Tail(run.todo) = Tail(run.todo)
      BY <3>1, Nothing
    <3>3. Onto(Tail(run.todo)) /\ AllIn(<<>>, ops)
      BY <1>3, OntoTail, AllInFacts
    <3> QED
      BY <3>2, <3>3 DEF Continues, Replaces
  <2> QED
    BY <2>1, <2>2
<1> QED
  BY <1>2, <1>3

LEMMA SurfaceActs ==
  ASSUME Progress, run # None, run.todo # <<>>, NEW op, Head(run.todo).op = op,
         op \notin MarketOps
  PROVE  /\ UNCHANGED <<file, exchange, intent, edits>>
         /\ op = "begin" => Begin
         /\ op = "record" => Record
         /\ op = "aside" => Aside
         /\ op = "place" => Place
         /\ op = "attempt" => Attempt
         /\ op = "add" => Add
         /\ op = "recordCurrent" => RecordCurrent
         /\ op = "swapCurrent" => SwapCurrent
         /\ op = "state" => WriteState
         /\ op = "commit" => CommitJournal
         /\ op = "clean" => Clean
         /\ op = "dropJournal" => DropJournal
         /\ op = "refresh" => Refresh
         /\ op = "reconcile" => Reconcile
         /\ op = "recover" => Recover
         /\ op = "putBack" => PutBack
         /\ op = "unlinkCurrent" => UnlinkCurrent
         /\ op = "linkCurrent" => LinkCurrent
         /\ op = "cacheBack" => CacheBack
         /\ op = "stateBack" => StateBack
         /\ op = "settled" => Settled
<1>1. ~ MarketplaceStep
  BY DEF MarketOps, MarketplaceStep, Ensure, WriteCandidate, Displace, Compare, Link, Rm, Verify,
     RecoverMarketplace, TakeAway, CompareTaken, RestoreFrom, DropIntent, At
<1>2. Forwards \/ Backwards
  BY <1>1 DEF Progress
<1>3. /\ Begin => op = "begin"
      /\ Record => op = "record"
      /\ Aside => op = "aside"
      /\ Place => op = "place"
      /\ Attempt => op = "attempt"
      /\ Add => op = "add"
      /\ RecordCurrent => op = "recordCurrent"
      /\ SwapCurrent => op = "swapCurrent"
      /\ WriteState => op = "state"
      /\ CommitJournal => op = "commit"
      /\ Clean => op = "clean"
      /\ DropJournal => op = "dropJournal"
      /\ Refresh => op = "refresh"
      /\ Reconcile => op = "reconcile"
      /\ ~ Finish
  BY DEF At, Begin, Record, Aside, Place, Attempt, Add, RecordCurrent, SwapCurrent, WriteState,
     CommitJournal, Clean, DropJournal, Refresh, Reconcile, Finish
<1>4. /\ Recover => op = "recover"
      /\ PutBack => op = "putBack"
      /\ UnlinkCurrent => op = "unlinkCurrent"
      /\ LinkCurrent => op = "linkCurrent"
      /\ CacheBack => op = "cacheBack"
      /\ StateBack => op = "stateBack"
      /\ Settled => op = "settled"
  BY DEF At, Recover, PutBack, UnlinkCurrent, LinkCurrent, CacheBack, StateBack, Settled
<1>5. UNCHANGED <<file, exchange, intent, edits>>
  <2>1. CASE Forwards
    BY <2>1 DEF Forwards, Begin, Record, Aside, Place, Attempt, Add, RecordCurrent, SwapCurrent,
       WriteState, CommitJournal, Clean, DropJournal, Refresh, Reconcile, Finish,
       KeepMarketplace, marketplace
  <2>2. CASE Backwards
    BY <2>2 DEF Backwards, Recover, PutBack, UnlinkCurrent, LinkCurrent, CacheBack, StateBack,
       Settled, KeepMarketplace, marketplace
  <2> QED
    BY <1>2, <2>1, <2>2
<1> QED
  BY <1>2, <1>3, <1>4, <1>5 DEF Forwards, Backwards

LEMMA UndoSteps ==
  ASSUME InstallShaped, Progress, run # None, run.todo # <<>>, Head(run.todo).op \in UndoOps
  PROVE  /\ UNCHANGED <<file, exchange, intent, edits>> /\ Continues(UndoOps)
         /\ IF Head(run.todo).op = "dropJournal" THEN Journal(None) ELSE UNCHANGED journal
<1> DEFINE op == Head(run.todo).op
<1>1. op \in UndoOps /\ op \notin MarketOps
  BY DEF UndoOps, MarketOps
<1>2. UNCHANGED <<file, exchange, intent, edits>>
  BY <1>1, SurfaceActs
<1>3. CASE op \in {"unlinkCurrent", "linkCurrent", "cacheBack", "stateBack", "clean"}
  <2>1. Proceed /\ UNCHANGED journal
    BY <1>1, <1>3, SurfaceActs DEF UnlinkCurrent, LinkCurrent, CacheBack, StateBack, Clean
  <2> QED
    BY <1>2, <1>3, <2>1, ContinuesWith
<1>4. CASE op = "putBack"
  <2>1. PutBack
    BY <1>1, <1>4, SurfaceActs
  <2>2. UNCHANGED journal /\ (Proceed \/ run' = run)
    BY <2>1 DEF PutBack
  <2>3. run' = run => Continues(UndoOps)
    BY DEF Continues, Onto
  <2> QED
    BY <1>2, <1>4, <2>2, <2>3, ContinuesWith
<1>5. CASE op = "settled"
  <2>1. Settled
    BY <1>1, <1>5, SurfaceActs
  <2>2. /\ UNCHANGED journal
        /\ Proceed \/ run' = None
           \/ ProceedWith(CleanUpSurfaces \o <<Step("dropJournal", None)>>)
    BY <2>1 DEF Settled, Throw
  <2>3. AllIn(CleanUpSurfaces \o <<Step("dropJournal", None)>>, UndoOps)
    BY ClosingIs
  <2>4. run' = None => Continues(UndoOps)
    BY DEF Continues
  <2> QED
    BY <1>2, <1>5, <2>2, <2>3, <2>4, ContinuesWith
<1>6. CASE op = "dropJournal"
  <2>1. Proceed /\ Journal(None)
    BY <1>1, <1>6, SurfaceActs DEF DropJournal
  <2> QED
    BY <1>2, <1>6, <2>1, ContinuesWith
<1> QED
  BY <1>1, <1>3, <1>4, <1>5, <1>6 DEF UndoOps

LEMMA HeadThenTail == \A t : IsSeq(t) /\ t # <<>> => t = Then(Head(t), Tail(t))
<1> SUFFICES ASSUME NEW t, IsSeq(t), t # <<>> PROVE t = Then(Head(t), Tail(t))
  OBVIOUS
<1> DEFINE S == {t[i] : i \in DOMAIN t}
<1>1. t \in Seq(S)
  BY DEF IsSeq
<1> HIDE DEF S
<1>2. <<Head(t)>> \o Tail(t) = t
  BY <1>1, HeadTailProperties
<1> QED
  BY <1>2 DEF Then

LEMMA OneLeft ==
  ASSUME NEW t, IsSeq(t), Len(t) = 1 PROVE t # <<>> /\ Tail(t) = <<>> /\ t = Then(Head(t), <<>>)
<1>1. t # <<>>
  BY EmptyIsSeq
<1>2. IsSeq(Tail(t)) /\ Len(Tail(t)) = 0
  BY <1>1, TailFacts
<1>3. Tail(t) = <<>>
  BY <1>2, EmptySeq DEF IsSeq
<1> QED
  BY <1>1, <1>3, HeadThenTail

LEMMA SteppingFacts ==
  ASSUME Stepping
  PROVE  /\ InstallShaped /\ MarketInv /\ run # None /\ IsSeq(run.todo) /\ DOMAIN run = RunFields
         /\ run.root \in Roots /\ journal \in [Roots -> Journals \cup {None}]
         /\ intent # None => intent.root \in Roots
<1>1. InstallShaped
  BY DEF Stepping, InstallInv
<1>2. intent # None => intent.root \in Roots
  BY DEF Stepping, MarketInv, MarketShaped, Intents
<1> QED
  BY <1>1, <1>2 DEF Stepping, InstallShaped, Program

\* A step that leaves the commits of the journals as they are.
LEMMA StepStays ==
  ASSUME Stepping, ~ At("commit"), UNCHANGED <<file, exchange, intent, edits>>,
         \/ UNCHANGED journal
         \/ \E j : Journal(j) /\ (j # None /\ j.status = "committed" <=> Committed(run.root))
         \/ intent = None,
         run' # None => Between' \/ Within'
  PROVE  MarketInv'
<1>1. intent # None => (Committed(intent.root)' <=> Committed(intent.root))
  BY SteppingFacts, CommittedStays
<1> QED
  BY <1>1, SteppingFacts, MarketStays DEF Stepping

\* A rollback goes on.
LEMMA RollbackGoesOn ==
  ASSUME Stepping, AfterFailure, Head(run.todo).op \in UndoOps, Len(run.todo) > 1,
         UNCHANGED <<file, exchange, intent, edits>>, Continues(UndoOps),
         IF Head(run.todo).op = "dropJournal" THEN Journal(None) ELSE UNCHANGED journal
  PROVE  MarketInv'
<1>1. /\ IsSeq(run.todo) /\ InstallShaped /\ run # None
      /\ Before(run.todo, UndoOps, 1) /\ Last(run.todo, 0) = Step("recoverMarketplace", None)
      /\ run.stage = "failed" /\ ~ Committed(run.root) /\ run.todo # <<>>
  BY SteppingFacts DEF AfterFailure
<1>2. /\ \/ UNCHANGED journal
         \/ \E j : Journal(j) /\ (j # None /\ j.status = "committed" <=> Committed(run.root))
      /\ ~ At("commit")
  BY <1>1 DEF At, UndoOps
<1>3. ASSUME NEW u, Onto(u), u # <<>>, Before(u, UndoOps, 1),
             Last(u, 0) = Step("recoverMarketplace", None)
      PROVE  AfterFailure'
  <2>1. ~ Committed(run.root)'
    BY <1>1, <1>2, <1>3, CommittedStays DEF Onto
  <2> QED
    BY <1>1, <1>3, <2>1 DEF AfterFailure, Onto
<1>4. ASSUME NEW s, NEW u, AllIn(s, UndoOps), Replaces(u, s, run.todo), Onto(u)
      PROVE  AfterFailure'
  <2>1. /\ IsSeq(u) /\ Len(u) >= 1 /\ Before(u, UndoOps, 1)
        /\ Last(u, 0) = Last(run.todo, 0)
    BY <1>1, <1>4, BeforeMoves
  <2>2. u # <<>>
    BY <2>1, EmptyIsSeq
  <2> QED
    BY <1>1, <1>3, <1>4, <2>1, <2>2
<1>5. run' # None => AfterFailure'
  BY <1>1, <1>3, <1>4 DEF Continues
<1> QED
  BY <1>2, <1>5, StepStays DEF Between

LEMMA AfterFailureStep ==
  ASSUME Stepping, AfterFailure, Progress PROVE MarketInv'
<1>1. /\ IsSeq(run.todo) /\ run.todo # <<>> /\ InstallShaped /\ run # None
      /\ Before(run.todo, UndoOps, 1) /\ Last(run.todo, 0) = Step("recoverMarketplace", None)
      /\ run.stage = "failed" /\ ~ Committed(run.root)
  BY SteppingFacts DEF AfterFailure
<1>2. /\ Len(run.todo) \in Nat /\ Len(run.todo) > 0 /\ DOMAIN run.todo = 1 .. Len(run.todo)
      /\ Head(run.todo) = run.todo[1]
  BY <1>1, TailFacts
<1>3. CASE Len(run.todo) = 1
  <2>1. Head(run.todo) = Step("recoverMarketplace", None)
    BY <1>1, <1>2, <1>3 DEF Last
  <2>2. run.todo = Then(Step("recoverMarketplace", None), <<>>) /\ Tail(run.todo) = <<>>
    BY <1>1, <1>3, <2>1, OneLeft
  <2>3. CASE intent # None
    <3>1. Intended
      BY <2>3, SteppingFacts DEF Intended
    <3>2. RecoveredIn(run.stage, <<>>)
      BY <1>1 DEF RecoveredIn
    <3> QED
      BY <2>2, <3>1, <3>2, EmptyIsSeq, RecoveryBegins
  <2>4. CASE intent = None
    <3>1. Head(run.todo).op = "recoverMarketplace"
      BY <2>1, StepFacts
    <3>2. RecoverMarketplace /\ UNCHANGED <<journal, edits>>
      BY <1>1, <3>1, MarketActs DEF MarketOps
    <3>3. Proceed /\ UNCHANGED <<file, exchange, intent>>
      BY <2>4, <3>2 DEF RecoverMarketplace
    <3>4. Onto(<<>>)
      BY <1>1, <2>2, <3>3, OntoTail
    <3>5. AfterIntent'
      BY <1>1, <2>4, <3>3, <3>4, EmptySeq DEF AfterIntent, Before, Onto
    <3>6. ~ At("commit")
      BY <3>1 DEF At
    <3> QED
      BY <3>2, <3>3, <3>5, <3>6, StepStays DEF Between
  <2> QED
    BY <2>3, <2>4
<1>4. CASE Len(run.todo) > 1
  <2>1. Head(run.todo).op \in UndoOps
    BY <1>1, <1>2, <1>4 DEF Before
  <2>2. /\ UNCHANGED <<file, exchange, intent, edits>> /\ Continues(UndoOps)
        /\ IF Head(run.todo).op = "dropJournal" THEN Journal(None) ELSE UNCHANGED journal
    BY <1>1, <2>1, UndoSteps
  <2> QED
    BY <1>4, <2>1, <2>2, RollbackGoesOn
<1>5. Len(run.todo) = 1 \/ Len(run.todo) > 1
  <2>1. \A n \in Nat : n > 0 => n = 1 \/ n > 1
    OBVIOUS
  <2> QED
    BY <1>2, <2>1
<1> QED
  BY <1>3, <1>4, <1>5

LEMMA BeforeRecoveryStep ==
  ASSUME Stepping, BeforeRecovery, Progress PROVE MarketInv'
<1>1. /\ run.todo = Then(Step("recoverMarketplace", None), Opening) /\ run.stage = "opening"
      /\ ~ run.settling /\ IsSeq(Opening)
  BY RestIs DEF BeforeRecovery
<1>2. CASE intent # None
  <2>1. Intended /\ RecoveredIn(run.stage, Opening)
    BY <1>1, <1>2, SteppingFacts DEF Intended, RecoveredIn
  <2> QED
    BY <1>1, <2>1, RecoveryBegins
<1>3. CASE intent = None
  <2>1. /\ run.todo # <<>> /\ Head(run.todo) = Step("recoverMarketplace", None)
        /\ Tail(run.todo) = Opening /\ Head(run.todo).op = "recoverMarketplace"
    BY <1>1, ThenIs, StepFacts
  <2>2. RecoverMarketplace /\ UNCHANGED <<journal, edits>>
    BY <2>1, SteppingFacts, MarketActs DEF MarketOps
  <2>3. Proceed /\ UNCHANGED <<file, exchange, intent>>
    BY <1>3, <2>2 DEF RecoverMarketplace
  <2>4. Onto(Opening)
    BY <2>1, <2>3, SteppingFacts, OntoTail
  <2>5. BeforeUpdate'
    BY <1>1, <1>3, <2>3, <2>4, OpeningIs DEF BeforeUpdate, Before, Last, Onto
  <2>6. ~ At("commit")
    BY <2>1 DEF At
  <2> QED
    BY <2>2, <2>3, <2>5, <2>6, StepStays DEF Between
<1> QED
  BY <1>2, <1>3

\* ensurePersonalMarketplace finds the entry, or starts an update.
LEMMA UpdateBegins ==
  ASSUME Stepping, intent = None, Ensure, UNCHANGED surfaces,
         run.todo = Then(Step("ensure", None), <<BeginStep>>),
         run.stage = "opening", ~ run.settling, ~ Committed(run.root)
  PROVE  MarketInv'
<1>1. /\ run.todo # <<>> /\ Head(run.todo) = Step("ensure", None)
      /\ Tail(run.todo) = <<BeginStep>> /\ IsSeq(<<BeginStep>>) /\ ~ At("commit")
  <2>1. IsSeq(<<BeginStep>>)
    BY RestIs
  <2>2. /\ run.todo # <<>> /\ Head(run.todo) = Step("ensure", None)
        /\ Tail(run.todo) = <<BeginStep>>
    BY <2>1, ThenIs
  <2>3. Head(run.todo).op = "ensure"
    BY <2>2, StepFacts
  <2> QED
    BY <2>1, <2>2, <2>3 DEF At
<1>2. /\ edits \in 0 .. MaxEdits /\ MaxEdits \in Nat
      /\ file \in Contents \cup {None} /\ (file # None => file.edit <= edits)
      /\ exchange = NoFiles /\ (edits > 0 => Fresh(file))
  BY SteppingFacts, MarketplaceAssumption DEF MarketInv, MarketShaped, Settleable
<1>3. file # None => Fresh(file)
  BY <1>2, ContentFacts DEF Fresh
<1>4. UNCHANGED <<file, exchange, journal, edits>>
  BY DEF Ensure, Keep
<1>5. CASE file # None /\ file.entry
  <2>1. Proceed /\ UNCHANGED intent
    BY <1>5 DEF Ensure
  <2>2. Onto(<<BeginStep>>)
    BY <1>1, <2>1, SteppingFacts, OntoTail
  <2>3. UpToDate
    BY <1>2, <1>3, <1>5 DEF UpToDate
  <2>4. UpToDate' /\ Own' /\ ~ Committed(run.root)'
    BY <1>4, <2>1, <2>2, <2>3 DEF UpToDate, Fresh, Own, Committed, Onto
  <2>5. BeforeBegin'
    BY <2>2, <2>4 DEF BeforeBegin, Onto
  <2> QED
    BY <1>1, <1>4, <2>1, <2>5, StepStays DEF Between
<1>6. CASE ~ (file # None /\ file.entry)
  <2> DEFINE new == [edit |-> IF file = None THEN edits ELSE file.edit, entry |-> TRUE]
             x == [root |-> run.root, previous |-> file, expected |-> new]
             r == Replace(file, new)
  <2>1. intent' = x /\ ProceedWith(r \o <<Step("verify", new)>>)
    BY <1>6 DEF Ensure
  <2>2. /\ new.entry /\ new.edit = edits /\ new \in Contents
        /\ file = None => edits = 0
    <3>1. new.edit = edits
      BY <1>3 DEF Fresh
    <3> QED
      BY <1>2, <3>1 DEF Fresh, Contents
  <2>3. run'.todo = (r \o <<Step("verify", new)>>) \o <<BeginStep>>
    BY <1>1, <2>1, SteppingFacts DEF ProceedWith, RunFields
  <2>4. /\ run'.stage = "opening" /\ run'.settling = FALSE /\ run'.root = run.root
    BY <2>1, SteppingFacts DEF ProceedWith, RunFields
  <2>5. /\ intent'.root = run.root /\ intent'.previous = file /\ intent'.expected = new
        /\ intent' \in Intents /\ intent' # None
    <3>1. x \in Intents
      BY <1>2, <2>2, SteppingFacts DEF Intents
    <3> QED
      BY <2>1, <3>1, MarketplaceAssumption
  <2>6. IsSeq(r)
    BY ReplaceIsQuiet DEF Program
  <2> HIDE DEF x, r, new
  <2>7. run'.todo = r \o Check(new, <<BeginStep>>)
    <3>1. (r \o <<Step("verify", new)>>) \o <<BeginStep>> = r \o Check(new, <<BeginStep>>)
      <4> DEFINE t == <<BeginStep>>
      <4>1. IsSeq(t)
        BY <1>1
      <4> HIDE DEF t
      <4>2. (r \o <<Step("verify", new)>>) \o t = r \o Then(Step("verify", new), t)
        BY <2>6, <4>1, ThenAfter
      <4> QED
        BY <4>2 DEF Check, t
    <3> QED
      BY <2>3, <3>1, Zenon
  <2>8. run'.todo = Write(file, new, Check(new, <<BeginStep>>))
    <3>1. IsSeq(Check(new, <<BeginStep>>))
      BY <1>1, ThenIs DEF Check
    <3>2. r \o Check(new, <<BeginStep>>) = Write(file, new, Check(new, <<BeginStep>>))
      BY <3>1, PiecesAre DEF r
    <3> QED
      BY <2>7, <3>2, Zenon
  <2>9. /\ ~ Committed(intent.root)' /\ Untouched' /\ Wanted' = file
        /\ Old' = file /\ New' = new /\ Rest' = <<BeginStep>>
    <3>1. ~ Committed(intent.root)' /\ Untouched'
      BY <1>4, <2>2, <2>5 DEF Committed, Untouched
    <3>2. BeginStep' = BeginStep
      BY DEF BeginStep, Step
    <3> QED
      BY <2>4, <2>5, <3>1, <3>2 DEF Wanted, Old, New, Rest
  <2>10. Checked' = Check(new, <<BeginStep>>)
    BY <2>9 DEF Checked
  <2>11. exchange' = NoFiles /\ exchange'["displaced"] = None /\ exchange'["candidate"] = None
         /\ exchange'["removal"] = None /\ \A f \in Files : exchange'[f] = None
    BY <1>2, <1>4 DEF NoFiles, Files
  <2>12. Writes'
    <3>1. run'.todo = Write(Old', New', Checked')
      BY <2>8, <2>9, <2>10
    <3>2. FileIs(Old)'
      BY <1>4, <2>9 DEF FileIs
    <3>3. New' # None
      BY <2>2, <2>9, ContentFacts
    <3> QED
      BY <2>9, <2>11, <3>1, <3>2, <3>3 DEF Writes
  <2>13. Within'
    BY <2>4, <2>5, <2>9, <2>12 DEF Within
  <2>14. Settleable'
    <3>1. Adds'
      <4>1. file # None => ~ file.entry /\ file.edit = edits
        BY <1>3, <1>6 DEF Fresh
      <4> QED
        BY <1>2, <1>4, <2>2, <2>5, <4>1 DEF Adds
    <3>2. Traces'
      <4>1. Partial # None
        BY ContentFacts
      <4> QED
        BY <1>4, <2>5, <2>9, <2>11, <4>1 DEF Traces
    <3> QED
      BY <2>5, <2>9, <3>1, <3>2 DEF Settleable
  <2>15. Listed'
    <3>1. Shown' = Shown
      BY <1>1 DEF Stepping
    <3>2. Shown \notin Releases \ {Earlier}
      BY <1>6, SteppingFacts DEF MarketInv, Listed
    <3> QED
      BY <3>1, <3>2 DEF Listed
  <2>16. MarketShaped'
    BY <1>4, <2>5, SteppingFacts DEF MarketInv, MarketShaped
  <2> QED
    BY <2>13, <2>14, <2>15, <2>16 DEF MarketInv, Placed
<1> QED
  BY <1>5, <1>6

\* A recovery of the surfaces goes on, and keeps a step that undoes or drops a
\* committed journal until that is done.
LEMMA RecoversOnto ==
  ASSUME Stepping, BeforeUpdate, Len(run.todo) > 2,
         UNCHANGED <<file, exchange, intent, edits>>, Continues(UndoOps \cup {"recover"}),
         Head(run.todo).op # "commit",
         UNCHANGED journal \/ Journal(None),
         \A u : run' # None /\ Onto(u) /\ Committed(run.root)' =>
           \E i \in DOMAIN u : u[i].op \in {"recover", "dropJournal"}
  PROVE  MarketInv'
<1>1. /\ IsSeq(run.todo) /\ Len(run.todo) > 2 /\ InstallShaped /\ run # None
      /\ Before(run.todo, UndoOps \cup {"recover"}, 2)
      /\ Last(run.todo, 1) = Step("ensure", None) /\ Last(run.todo, 0) = BeginStep
      /\ run.stage = "opening" /\ ~ run.settling /\ intent = None
  BY SteppingFacts DEF BeforeUpdate
<1>2. ASSUME run' # None, NEW u, Onto(u), Len(u) >= 2, Before(u, UndoOps \cup {"recover"}, 2),
             Last(u, 1) = Step("ensure", None), Last(u, 0) = BeginStep
      PROVE  BeforeUpdate'
  <2>1. Committed(run.root)' => \E i \in DOMAIN u : u[i].op \in {"recover", "dropJournal"}
    BY <1>2
  <2>2. BeginStep' = BeginStep
    BY DEF BeginStep, Step
  <2> QED
    BY <1>1, <1>2, <2>1, <2>2 DEF BeforeUpdate, Onto
<1>3. ASSUME run' # None, NEW s, NEW u,
             AllIn(s, UndoOps \cup {"recover"}), Replaces(u, s, run.todo), Onto(u)
      PROVE  BeforeUpdate'
  <2>1. /\ Len(u) >= 2 /\ Before(u, UndoOps \cup {"recover"}, 2)
        /\ Last(u, 1) = Last(run.todo, 1) /\ Last(u, 0) = Last(run.todo, 0)
    BY <1>1, <1>3, BeforeMoves
  <2> QED
    BY <1>1, <1>2, <1>3, <2>1
<1>4. run' # None /\ Onto(run.todo) => BeforeUpdate'
  BY <1>1, <1>2 DEF BeforeUpdate
<1>5. run' # None => BeforeUpdate'
  BY <1>3, <1>4 DEF Continues
<1>6. ~ At("commit")
  BY DEF At
<1> QED
  BY <1>1, <1>5, <1>6, StepStays DEF Between

\* The same, while the surfaces are put back or the journal is dropped.
LEMMA OpeningGoesOn ==
  ASSUME Stepping, BeforeUpdate, Len(run.todo) > 2, Head(run.todo).op \in UndoOps,
         UNCHANGED <<file, exchange, intent, edits>>, Continues(UndoOps),
         IF Head(run.todo).op = "dropJournal" THEN Journal(None) ELSE UNCHANGED journal
  PROVE  MarketInv'
<1>0. /\ IsSeq(run.todo) /\ run.todo # <<>> /\ Head(run.todo) = run.todo[1]
      /\ DOMAIN run.todo = 1 .. Len(run.todo) /\ Len(run.todo) \in Nat
      /\ Committed(run.root) =>
           \E i \in DOMAIN run.todo : run.todo[i].op \in {"recover", "dropJournal"}
  <2>1. IsSeq(run.todo) /\ run.todo # <<>>
    BY SteppingFacts, EmptyIsSeq
  <2> QED
    BY <2>1, TailFacts DEF BeforeUpdate
<1>2. Continues(UndoOps \cup {"recover"}) /\ Head(run.todo).op # "commit"
  BY AllInMore DEF Continues, UndoOps
<1>3. CASE Head(run.todo).op = "dropJournal"
  <2>1. Journal(None)
    BY <1>3
  <2>2. \A u : Onto(u) => ~ Committed(run.root)'
    BY <2>1, SteppingFacts DEF Onto, Committed, Journal
  <2> QED
    BY <1>2, <2>1, <2>2, RecoversOnto
<1>4. CASE Head(run.todo).op # "dropJournal"
  <2>1. UNCHANGED journal
    BY <1>4
  <2>2. ASSUME run' # None, NEW u, Onto(u), Committed(run.root)'
        PROVE  \E i \in DOMAIN u : u[i].op \in {"recover", "dropJournal"}
    <3>1. Committed(run.root)
      BY <2>1, <2>2 DEF Committed, Onto
    <3>2. PICK i \in DOMAIN run.todo : run.todo[i].op \in {"recover", "dropJournal"}
      BY <1>0, <3>1
    <3>3. i > 1
      <4>1. i # 1
        BY <1>0, <1>4, <3>2 DEF UndoOps
      <4> QED
        BY <1>0, <4>1
    <3>4. CASE Onto(run.todo)
      BY <2>2, <3>2, <3>4 DEF Onto
    <3>5. ASSUME NEW s, NEW w, AllIn(s, UndoOps), Replaces(w, s, run.todo), Onto(w)
          PROVE  \E k \in DOMAIN u : u[k].op \in {"recover", "dropJournal"}
      <4>1. w = u /\ IsSeq(s)
        BY <2>2, <3>5 DEF Onto, AllIn
      <4>2. i + Len(s) - 1 \in DOMAIN u /\ u[i + Len(s) - 1] = run.todo[i]
        BY <1>0, <3>3, <3>5, <4>1, Replaced
      <4> QED
        BY <3>2, <4>2
    <3> QED
      BY <2>2, <3>4, <3>5 DEF Continues
  <2> QED
    BY <1>2, <2>1, <2>2, RecoversOnto
<1> QED
  BY <1>3, <1>4

LEMMA BeforeUpdateStep ==
  ASSUME Stepping, BeforeUpdate, Progress PROVE MarketInv'
<1>1. /\ IsSeq(run.todo) /\ Len(run.todo) >= 2 /\ InstallShaped /\ run # None
      /\ Before(run.todo, UndoOps \cup {"recover"}, 2)
      /\ Last(run.todo, 1) = Step("ensure", None) /\ Last(run.todo, 0) = BeginStep
      /\ run.stage = "opening" /\ ~ run.settling /\ intent = None
      /\ Committed(run.root) =>
           \E i \in DOMAIN run.todo : run.todo[i].op \in {"recover", "dropJournal"}
  BY SteppingFacts DEF BeforeUpdate
<1>2. run.todo # <<>>
  BY <1>1, EmptyIsSeq
<1>3. /\ Len(run.todo) \in Nat /\ DOMAIN run.todo = 1 .. Len(run.todo)
      /\ Head(run.todo) = run.todo[1]
      /\ IsSeq(Tail(run.todo)) /\ Len(Tail(run.todo)) = Len(run.todo) - 1
      /\ \A i \in 1 .. Len(run.todo) - 1 : Tail(run.todo)[i] = run.todo[i + 1]
  BY <1>1, <1>2, TailFacts
<1>4. CASE Len(run.todo) = 2
  <2> DEFINE t == Tail(run.todo)
  <2>1. /\ run.todo[1] = Step("ensure", None) /\ run.todo[2] = BeginStep
        /\ DOMAIN run.todo = 1 .. 2
    BY <1>1, <1>3, <1>4 DEF Last
  <2>2. IsSeq(t) /\ Len(t) = 1 /\ t[1] = BeginStep
    BY <1>3, <1>4, <2>1
  <2>3. run.todo = Then(Step("ensure", None), t)
    BY <1>1, <1>2, <1>3, <2>1, HeadThenTail
  <2> HIDE DEF t
  <2>4. t = <<BeginStep>>
    <3>1. t # <<>> /\ t = Then(Head(t), <<>>)
      BY <2>2, OneLeft
    <3>2. Head(t) = BeginStep
      BY <2>2, <3>1, TailFacts
    <3> QED
      BY <3>1, <3>2, OneIsSeq
  <2>5. Ensure /\ UNCHANGED surfaces
    <3>1. Head(run.todo).op = "ensure"
      BY <1>3, <2>1, StepFacts
    <3> QED
      BY <1>1, <1>2, <3>1, MarketActs DEF MarketOps
  <2>6. ~ Committed(run.root)
    <3>1. ASSUME NEW i \in DOMAIN run.todo PROVE run.todo[i].op \in {"ensure", "begin"}
      <4>1. i = 1 \/ i = 2
        BY <2>1, <3>1
      <4>2. BeginStep.op = "begin" /\ Step("ensure", None).op = "ensure"
        BY StepFacts DEF BeginStep
      <4> QED
        BY <2>1, <4>1, <4>2
    <3> QED
      BY <1>1, <3>1
  <2> QED
    BY <1>1, <2>3, <2>4, <2>5, <2>6, UpdateBegins
<1>5. CASE Len(run.todo) > 2
  <2>1. Head(run.todo).op \in UndoOps \cup {"recover"}
    BY <1>1, <1>3, <1>5 DEF Before
  <2>2. CASE Head(run.todo).op = "recover"
    <3>1. Recover /\ UNCHANGED <<file, exchange, intent, edits>>
      BY <1>1, <1>2, <2>2, SurfaceActs DEF MarketOps
    <3>2. UNCHANGED journal
      BY <3>1 DEF Recover
    <3>4. ASSUME Proceed, Mine = None PROVE MarketInv'
      <4>1. Continues(UndoOps \cup {"recover"})
        BY <1>1, <3>4, ContinuesWith
      <4>2. \A u : Onto(u) => ~ Committed(run.root)'
        BY <3>2, <3>4 DEF Onto, Committed, Mine
      <4> QED
        BY <1>5, <2>2, <3>1, <3>2, <4>1, <4>2, RecoversOnto
    <3>5. ASSUME ProceedWith(Rollback(Mine)), Mine # None, Mine.status = "active"
          PROVE  MarketInv'
      <4>1. AllIn(Rollback(Mine), UndoOps \cup {"recover"})
        BY PrefixesAre, AllInMore
      <4>2. Continues(UndoOps \cup {"recover"})
        BY <1>1, <3>5, <4>1, ContinuesWith
      <4>3. \A u : Onto(u) => ~ Committed(run.root)'
        BY <3>2, <3>5 DEF Onto, Committed, Mine
      <4> QED
        BY <1>5, <2>2, <3>1, <3>2, <4>2, <4>3, RecoversOnto
    <3>6. ASSUME ProceedWith(CleanUpSurfaces \o <<Step("dropJournal", None)>>)
          PROVE  MarketInv'
      <4> DEFINE s == CleanUpSurfaces \o <<Step("dropJournal", None)>>
      <4>1. /\ AllIn(s, UndoOps) /\ \E i \in DOMAIN s : s[i].op = "dropJournal"
            /\ ProceedWith(s)
        BY <3>6, ClosingIs
      <4> HIDE DEF s
      <4>2. AllIn(s, UndoOps \cup {"recover"}) /\ IsSeq(s)
        BY <4>1, AllInMore DEF AllIn
      <4>3. Continues(UndoOps \cup {"recover"})
        BY <1>1, <4>1, <4>2, ContinuesWith
      <4>4. ASSUME NEW u, Onto(u) PROVE \E i \in DOMAIN u : u[i].op = "dropJournal"
        <5>1. Replaces(u, s, run.todo)
          BY <4>1, <4>4, SteppingFacts DEF Onto, Replaces, ProceedWith, RunFields
        <5>2. \A i \in DOMAIN s : i \in DOMAIN u /\ u[i] = s[i]
          BY <1>1, <1>2, <4>2, <5>1, Replaced
        <5> QED
          BY <4>1, <5>2
      <4> QED
        BY <1>5, <2>2, <3>1, <3>2, <4>3, <4>4, RecoversOnto
    <3> QED
      BY <3>1, <3>4, <3>5, <3>6 DEF Recover, MustUndo
  <2>3. CASE Head(run.todo).op \in UndoOps
    <3>1. /\ UNCHANGED <<file, exchange, intent, edits>> /\ Continues(UndoOps)
          /\ IF Head(run.todo).op = "dropJournal" THEN Journal(None) ELSE UNCHANGED journal
      BY <1>1, <1>2, <2>3, UndoSteps
    <3> QED
      BY <1>5, <2>3, <3>1, OpeningGoesOn
  <2> QED
    BY <2>1, <2>2, <2>3
<1>6. Len(run.todo) = 2 \/ Len(run.todo) > 2
  <2>1. \A n \in Nat : n >= 2 => n = 2 \/ n > 2
    OBVIOUS
  <2> QED
    BY <1>1, <1>3, <2>1
<1> QED
  BY <1>4, <1>5, <1>6

LEMMA BeforeBeginStep ==
  ASSUME Stepping, BeforeBegin, Progress PROVE MarketInv'
<1>1. /\ run.todo # <<>> /\ Head(run.todo).op = "begin" /\ run.stage = "opening"
      /\ UpToDate /\ Own /\ ~ Committed(run.root)
  <2>1. BeginStep.op = "begin"
    BY StepFacts DEF BeginStep
  <2> QED
    BY <2>1 DEF BeforeBegin
<1>2. Begin /\ UNCHANGED <<file, exchange, intent, edits>>
  BY <1>1, SteppingFacts, SurfaceActs DEF MarketOps
<1>3. /\ Journal(NewJournal(disk)) /\ run'.todo = Forward /\ run'.stage = "active"
      /\ run'.root = run.root
  BY <1>2, SteppingFacts DEF Begin, RunFields
<1>4. \E j : Journal(j) /\ (j # None /\ j.status = "committed" <=> Committed(run.root))
  BY <1>1, <1>3 DEF NewJournal
<1>5. ~ Committed(run.root)'
  BY <1>1, <1>3, <1>4, SteppingFacts, CommittedStays
<1>6. UpToDate' /\ Own'
  BY <1>1, <1>2, <1>3 DEF UpToDate, Fresh, Own
<1>7. \E n \in DOMAIN run'.todo : Marks(run'.todo, n)
  BY <1>3, ForwardMarks
<1>8. BeforeMarker'
  BY <1>3, <1>5, <1>6, <1>7 DEF BeforeMarker
<1>9. ~ At("commit")
  BY <1>1 DEF At
<1> QED
  BY <1>2, <1>4, <1>8, <1>9, StepStays DEF Between

\* An installer that moves the surfaces has a journal.
LEMMA HasJournal ==
  ASSUME Stepping, run.stage = "active" PROVE Mine # None /\ Mine \in Journals
<1>1. run # None /\ OthersMoveNothing /\ Transaction
  BY DEF Stepping, InstallInv
<1>2. CASE run.root = Main
  <2>1. PICK v \in Known : Underway(v)
    BY <1>1 DEF Transaction
  <2>2. Active(journal[Main])
    BY <1>1, <1>2, <2>1 DEF Underway, Mode, Opens, Advances, Undoes, Clears, Ends
  <2> QED
    BY <1>2, <2>2, SteppingFacts DEF Active, Mine
<1>3. CASE run.root # Main
  BY <1>1, <1>3, SteppingFacts DEF OthersMoveNothing, OtherMode, Mine
<1> QED
  BY <1>2, <1>3

LEMMA AdvanceSteps ==
  ASSUME Stepping, Progress, run.stage = "active", run.todo # <<>>,
         Head(run.todo).op \in AdvanceOps
  PROVE  /\ UNCHANGED <<file, exchange, intent, edits>> /\ Continues(AdvanceOps)
         /\ \/ UNCHANGED journal
            \/ \E j : Journal(j) /\ j.status = Mine.status
<1> DEFINE op == Head(run.todo).op
<1>1. /\ op \in AdvanceOps /\ op \notin MarketOps /\ InstallShaped /\ run # None
      /\ Mine \in Journals /\ DOMAIN Mine = {"status", "recorded", "existed", "attempted",
                                            "installed", "current", "state"}
  BY SteppingFacts, HasJournal DEF AdvanceOps, MarketOps, Journals
<1>2. UNCHANGED <<file, exchange, intent, edits>>
  BY <1>1, SurfaceActs
<1>3. CASE op \in {"aside", "place", "add", "swapCurrent", "state"}
  <2>1. Proceed /\ UNCHANGED journal
    BY <1>1, <1>3, SurfaceActs DEF Aside, Place, Add, SwapCurrent, WriteState
  <2> QED
    BY <1>1, <1>2, <2>1, ContinuesWith
<1>4. CASE op = "attempt"
  <2>1. Proceed /\ Journal([Mine EXCEPT !.attempted = TRUE])
    BY <1>1, <1>4, SurfaceActs DEF Attempt
  <2>2. [Mine EXCEPT !.attempted = TRUE].status = Mine.status
    BY <1>1
  <2> QED
    BY <1>1, <1>2, <2>1, <2>2, ContinuesWith
<1>5. CASE op = "recordCurrent"
  <2>1. Proceed /\ Journal([Mine EXCEPT !.current = disk["current"]])
    BY <1>1, <1>5, SurfaceActs DEF RecordCurrent
  <2>2. [Mine EXCEPT !.current = disk["current"]].status = Mine.status
    BY <1>1
  <2> QED
    BY <1>1, <1>2, <2>1, <2>2, ContinuesWith
<1>6. CASE op = "record"
  <2>1. Record
    BY <1>1, <1>6, SurfaceActs
  <2> DEFINE j == [Mine EXCEPT !.recorded = @ \cup {Arg},
                     !.existed = IF disk[Arg] = None THEN @ ELSE @ \cup {Arg}]
  <2>2. j.status = Mine.status
    BY <1>1
  <2>3. AllIn(Move(Arg), AdvanceOps)
    BY PrefixesAre, AllInMore DEF AdvanceOps
  <2>4. (Proceed /\ UNCHANGED journal) \/ (Journal(j) /\ ProceedWith(Move(Arg)))
    BY <2>1 DEF Record
  <2> HIDE DEF j
  <2> QED
    BY <1>1, <1>2, <2>2, <2>3, <2>4, ContinuesWith
<1> QED
  BY <1>1, <1>3, <1>4, <1>5, <1>6 DEF AdvanceOps

\* The commit marker is set while the marketplace has the entry.
LEMMA MarkerIsSet ==
  ASSUME Stepping, Progress, run.todo # <<>>, Head(run.todo) = CommitStep,
         run.stage = "active", UpToDate, Own,
         Tail(run.todo) # <<>>, Head(Tail(run.todo)) = Step("dropIntent", None),
         \A i \in DOMAIN Tail(run.todo) : i > 1 => Tail(run.todo)[i].op \in CloseOps
  PROVE  MarketInv'
<1>1. CommitJournal /\ UNCHANGED <<file, exchange, intent, edits>>
  <2>1. Head(run.todo).op = "commit"
    BY StepFacts DEF CommitStep
  <2> QED
    BY <2>1, SteppingFacts, SurfaceActs DEF MarketOps
<1> DEFINE j == [Mine EXCEPT !.status = "committed"]
<1>2. /\ Journal(j) /\ run'.todo = Tail(run.todo) /\ run'.stage = "committed"
      /\ run'.root = run.root /\ UNCHANGED surfaces
  BY <1>1, SteppingFacts DEF CommitJournal, RunFields
<1>3. j \in Journals /\ j.status = "committed"
  BY HasJournal DEF Journals
<1> HIDE DEF j
<1>4. Committed(run.root)'
  BY <1>2, <1>3, SteppingFacts, InstallAssumption DEF Committed, Journal
<1>5. intent # None => intent.root = run.root /\ Committed(intent.root)'
  <2>1. ASSUME intent # None PROVE intent.root = run.root
    BY <2>1 DEF Own
  <2>2. ASSUME intent # None PROVE intent'.root = run'.root
    BY <1>1, <1>2, <2>1, <2>2
  <2> QED
    BY <1>4, <2>1, <2>2 DEF Committed
<1>6. UpToDate' /\ Own'
  BY <1>1, <1>2 DEF UpToDate, Fresh, Own
<1>7. MarketShaped'
  BY <1>1, SteppingFacts DEF MarketInv, MarketShaped
<1>8. Settleable'
  <2>1. CASE intent = None
    BY <1>1, <2>1, SteppingFacts DEF MarketInv, Settleable, Fresh
  <2>2. CASE intent # None
    <3>1. Adds /\ (Untouched => Traces)
      BY <2>2, SteppingFacts DEF MarketInv, Settleable
    <3>2. Adds' /\ (Untouched' <=> Untouched)
      BY <1>1, <3>1 DEF Adds, Untouched
    <3>3. ASSUME Untouched PROVE Traces'
      <4>1. file = intent.expected
        BY <3>1, <3>3 DEF Traces, Adds, UpToDate
      <4>2. Wanted' = intent.expected
        BY <1>1, <1>5, <2>2 DEF Wanted
      <4>3. \A f \in Files : exchange[f] = None
        BY DEF UpToDate, NoFiles
      <4>4. Partial # None
        BY ContentFacts
      <4> QED
        BY <1>1, <4>1, <4>2, <4>3, <4>4 DEF Traces
    <3>4. Saved'
      BY <1>6 DEF Saved, UpToDate
    <3> QED
      BY <1>1, <2>2, <3>2, <3>3, <3>4 DEF Settleable
  <2> QED
    BY <2>1, <2>2
<1>9. Listed'
  BY <1>1, <1>5, <1>6 DEF Listed, UpToDate
<1>10. MarkerSet'
  BY <1>2, <1>6 DEF MarkerSet
<1> QED
  BY <1>7, <1>8, <1>9, <1>10 DEF MarketInv, Placed, Between

LEMMA BeforeMarkerStep ==
  ASSUME Stepping, BeforeMarker, Progress PROVE MarketInv'
<1>1. /\ run.stage = "active" /\ UpToDate /\ Own /\ ~ Committed(run.root) /\ IsSeq(run.todo)
      /\ InstallShaped /\ run # None
  BY SteppingFacts DEF BeforeMarker
<1>2. PICK n \in DOMAIN run.todo : Marks(run.todo, n)
  BY DEF BeforeMarker
<1>3. run.todo # <<>>
  BY <1>2, EmptySeq
<1>4. /\ Len(run.todo) \in Nat /\ DOMAIN run.todo = 1 .. Len(run.todo)
      /\ Head(run.todo) = run.todo[1]
      /\ IsSeq(Tail(run.todo)) /\ Len(Tail(run.todo)) = Len(run.todo) - 1
      /\ DOMAIN Tail(run.todo) = 1 .. Len(run.todo) - 1
      /\ \A i \in 1 .. Len(run.todo) - 1 : Tail(run.todo)[i] = run.todo[i + 1]
  BY <1>1, <1>3, TailFacts
<1>5. CASE n = 1
  <2> DEFINE t == Tail(run.todo)
  <2>1. /\ 2 \in DOMAIN run.todo /\ run.todo[1] = CommitStep
        /\ run.todo[2] = Step("dropIntent", None)
        /\ \A i \in DOMAIN run.todo : i > 2 => run.todo[i].op \in CloseOps
    <3>1. 1 + 1 = 2
      OBVIOUS
    <3> QED
      BY <1>2, <1>5, <3>1 DEF Marks
  <2>2. 1 \in DOMAIN t /\ t[1] = Step("dropIntent", None)
    <3>1. 1 \in 1 .. Len(run.todo) - 1 /\ 1 + 1 = 2
      BY <1>4, <2>1
    <3> QED
      BY <1>4, <2>1, <3>1
  <2>3. ASSUME NEW i \in DOMAIN t, i > 1 PROVE t[i].op \in CloseOps
    <3>1. i + 1 \in DOMAIN run.todo /\ i + 1 > 2 /\ t[i] = run.todo[i + 1]
      BY <1>4, <2>3
    <3> QED
      BY <2>1, <3>1
  <2>40. IsSeq(t)
    BY <1>4
  <2> HIDE DEF t
  <2>4. IsSeq(t) /\ t # <<>>
    BY <2>2, <2>40, EmptySeq
  <2>5. Head(t) = Step("dropIntent", None)
    BY <2>2, <2>4, TailFacts
  <2>6. Head(run.todo) = CommitStep
    BY <1>4, <2>1
  <2> QED
    BY <1>1, <1>3, <2>3, <2>4, <2>5, <2>6, MarkerIsSet DEF t
<1>6. CASE n > 1
  <2>1. Head(run.todo).op \in AdvanceOps
    <3>1. 1 \in DOMAIN run.todo /\ 1 < n
      BY <1>4, <1>6
    <3> QED
      BY <1>2, <1>4, <3>1 DEF Marks
  <2>2. /\ UNCHANGED <<file, exchange, intent, edits>> /\ Continues(AdvanceOps)
        /\ \/ UNCHANGED journal
           \/ \E j : Journal(j) /\ j.status = Mine.status
    BY <1>1, <1>3, <2>1, AdvanceSteps
  <2>3. \/ UNCHANGED journal
        \/ \E j : Journal(j) /\ (j # None /\ j.status = "committed" <=> Committed(run.root))
    <3>1. Mine.status # "committed"
      BY <1>1, HasJournal DEF Committed, Mine
    <3> QED
      BY <1>1, <2>2, <3>1
  <2>4. ~ At("commit")
    BY <2>1 DEF At, AdvanceOps
  <2>5. ASSUME NEW u, Onto(u), \E m \in DOMAIN u : Marks(u, m) PROVE BeforeMarker'
    <3>1. ~ Committed(run.root)'
      BY <1>1, <2>3, <2>5, CommittedStays DEF Onto
    <3>2. UpToDate' /\ Own'
      BY <1>1, <2>2, <2>5 DEF UpToDate, Fresh, Own, Onto
    <3>3. \E m \in DOMAIN run'.todo : Marks(run'.todo, m)
      BY <2>5 DEF Onto
    <3> QED
      BY <1>1, <2>5, <3>1, <3>2, <3>3 DEF BeforeMarker, Onto
  <2>6. ASSUME NEW s, NEW u, AllIn(s, AdvanceOps), Replaces(u, s, run.todo), Onto(u)
        PROVE  BeforeMarker'
    <3>1. \E m \in DOMAIN u : Marks(u, m)
      BY <1>1, <1>2, <1>6, <2>6, MarksMove
    <3> QED
      BY <2>5, <2>6, <3>1
  <2>7. run' # None => BeforeMarker'
    BY <1>2, <2>2, <2>5, <2>6 DEF Continues
  <2> QED
    BY <2>2, <2>3, <2>4, <2>7, StepStays DEF Between
<1>7. n = 1 \/ n > 1
  <2>1. n \in 1 .. Len(run.todo) /\ Len(run.todo) \in Nat
    BY <1>4
  <2> QED
    BY <2>1
<1> QED
  BY <1>5, <1>6, <1>7

LEMMA MarkerSetStep ==
  ASSUME Stepping, MarkerSet, Progress PROVE MarketInv'
<1>1. /\ run.todo # <<>> /\ Head(run.todo).op = "dropIntent" /\ IsSeq(run.todo)
      /\ \A i \in DOMAIN run.todo : i > 1 => run.todo[i].op \in CloseOps
      /\ run.stage = "committed" /\ UpToDate
  BY SteppingFacts, StepFacts DEF MarkerSet
<1>2. /\ DropIntent /\ UNCHANGED <<surfaces, journal, edits>>
  BY <1>1, SteppingFacts, MarketActs DEF MarketOps
<1>3. /\ intent' = None /\ UNCHANGED <<file, exchange>>
      /\ run'.todo = Tail(run.todo) /\ run'.stage = "committed"
  BY <1>1, <1>2, SteppingFacts DEF DropIntent, RunFields
<1>4. MarketShaped'
  BY <1>2, <1>3, SteppingFacts DEF MarketInv, MarketShaped
<1>5. Settleable'
  BY <1>1, <1>2, <1>3 DEF Settleable, UpToDate, Fresh
<1>6. Listed'
  BY <1>1, <1>3 DEF Listed, UpToDate
<1>7. AfterIntent'
  <2> DEFINE t == Tail(run.todo)
  <2>1. /\ DOMAIN run.todo = 1 .. Len(run.todo) /\ Len(run.todo) \in Nat
        /\ DOMAIN t = 1 .. Len(run.todo) - 1
        /\ \A i \in 1 .. Len(run.todo) - 1 : t[i] = run.todo[i + 1]
    BY <1>1, TailFacts
  <2>2. ASSUME NEW i \in DOMAIN t PROVE t[i].op \in CloseOps
    <3>1. i + 1 \in DOMAIN run.todo /\ i + 1 > 1 /\ t[i] = run.todo[i + 1]
      BY <2>1, <2>2
    <3> QED
      BY <1>1, <3>1
  <2> QED
    BY <1>3, <2>2 DEF AfterIntent, Before
<1> QED
  BY <1>4, <1>5, <1>6, <1>7 DEF MarketInv, Placed, Between

LEMMA AfterIntentStep ==
  ASSUME Stepping, AfterIntent, Progress PROVE MarketInv'
<1>1. /\ IsSeq(run.todo) /\ InstallShaped /\ run # None /\ Before(run.todo, CloseOps, 0)
      /\ run.stage \in {"failed", "committed"} /\ intent = None
  BY SteppingFacts DEF AfterIntent
<1>2. CASE run.todo = <<>>
  <2>1. Finish
    BY <1>2 DEF Progress, MarketplaceStep, Ensure, WriteCandidate, Displace, Compare, Link, Rm,
       Verify, RecoverMarketplace, TakeAway, CompareTaken, RestoreFrom, DropIntent, At,
       Forwards, Begin, Record, Aside, Place, Attempt, Add, RecordCurrent, SwapCurrent,
       WriteState, CommitJournal, Clean, DropJournal, Refresh, Reconcile, Backwards, Recover,
       PutBack, UnlinkCurrent, LinkCurrent, CacheBack, StateBack, Settled
  <2>2. run' = None /\ UNCHANGED <<file, exchange, intent, edits, journal>> /\ ~ At("commit")
    BY <1>2, <2>1 DEF Finish, KeepMarketplace, marketplace, At
  <2> QED
    BY <2>2, StepStays
<1>3. CASE run.todo # <<>>
  <2>1. /\ Len(run.todo) \in Nat /\ Len(run.todo) > 0 /\ DOMAIN run.todo = 1 .. Len(run.todo)
        /\ Head(run.todo) = run.todo[1]
    BY <1>1, <1>3, TailFacts
  <2> DEFINE op == Head(run.todo).op
  <2>2. op \in CloseOps /\ op \notin MarketOps
    <3>1. 1 \in DOMAIN run.todo /\ 1 <= Len(run.todo) - 0
      BY <2>1
    <3> QED
      BY <1>1, <2>1, <3>1 DEF Before, CloseOps, MarketOps
  <2>3. UNCHANGED <<file, exchange, intent, edits>> /\ ~ At("commit")
    BY <1>1, <1>3, <2>2, SurfaceActs DEF At, CloseOps
  <2>4. Continues(CloseOps)
    <3>1. CASE op \in {"clean", "dropJournal", "refresh", "add"}
      <4>1. Proceed
        BY <1>1, <1>3, <2>2, <3>1, SurfaceActs DEF Clean, DropJournal, Refresh, Add
      <4> QED
        BY <1>1, <4>1, ContinuesWith
    <3>2. CASE op = "reconcile"
      <4>1. Proceed \/ ProceedWith(<<Step("add", None)>>)
        BY <1>1, <1>3, <2>2, <3>2, SurfaceActs DEF Reconcile
      <4>2. AllIn(<<Step("add", None)>>, CloseOps)
        <5>1. Step("add", None).op \in CloseOps
          BY StepFacts DEF CloseOps
        <5> QED
          BY <5>1, AllInFacts
      <4> QED
        BY <1>1, <4>1, <4>2, ContinuesWith
    <3> QED
      BY <2>2, <3>1, <3>2 DEF CloseOps
  <2>5. ASSUME NEW u, Onto(u), Before(u, CloseOps, 0) PROVE AfterIntent'
    BY <1>1, <2>3, <2>5 DEF AfterIntent, Onto
  <2>6. ASSUME NEW s, NEW u, AllIn(s, CloseOps), Replaces(u, s, run.todo), Onto(u)
        PROVE  AfterIntent'
    <3>1. Before(u, CloseOps, 0)
      BY <1>1, <2>1, <2>6, BeforeMoves
    <3> QED
      BY <2>5, <2>6, <3>1
  <2>7. run' # None => AfterIntent'
    BY <1>1, <2>4, <2>5, <2>6 DEF Continues
  <2> QED
    BY <1>1, <2>3, <2>7, StepStays DEF Between
<1> QED
  BY <1>2, <1>3

LEMMA ProgressKeepsMarket ==
  ASSUME Stepping, Progress PROVE MarketInv'
<1>1. Between \/ Within
  BY SteppingFacts DEF MarketInv, Placed
<1>2. Within => MarketInv'
  BY SteppingFacts, InsideStep DEF Inside
<1> QED
  BY <1>1, <1>2, BeforeRecoveryStep, AfterFailureStep, BeforeUpdateStep, BeforeBeginStep,
     BeforeMarkerStep, MarkerSetStep, AfterIntentStep DEF Between

-----------------------------------------------------------------------------
(* Failures, crashes, and what the user saves *)

\* A step that leaves the disk as it is.
LEMMA DiskStays ==
  ASSUME MarketInv, UNCHANGED <<marketplace, journal, edits, surfaces>>,
         run' # None => Between' \/ Within'
  PROVE  MarketInv'
<1>1. UNCHANGED <<file, exchange, intent, edits>>
  BY DEF marketplace
<1>2. Shown' = Shown /\ (Committed(intent.root)' <=> Committed(intent.root))
  BY DEF Shown, surfaces, Committed, marketplace
<1> QED
  BY <1>1, <1>2, MarketStays

\* Within an update or a recovery every step is one of the marketplace.
LEMMA WithinHeads ==
  ASSUME InstallShaped, MarketInv, run # None, Within
  PROVE  run.todo # <<>> /\ Head(run.todo).op \in MarketOps
<1> DEFINE Ready(u) == u # <<>> /\ Head(u).op \in MarketOps
<1>1. ASSUME NEW op \in MarketOps, NEW x, NEW t, IsSeq(t) PROVE Ready(Then(Step(op, x), t))
  BY <1>1, ThenIs, StepFacts
<1>2. IsSeq(Rest) /\ IsSeq(Checked) /\ (run.settling => Ready(Rest)) /\ Ready(Checked)
  <2>1. IsSeq(Rest) /\ IsSeq(Checked) /\ IsSeq(Opening) /\ IsSeq(<<>>)
    BY RestIs, EmptyIsSeq
  <2>2. run.settling => Ready(Rest)
    BY <1>1, <2>1 DEF Rest, MarketOps
  <2> QED
    BY <1>1, <2>1, <2>2 DEF Checked, Check, MarketOps
<1> HIDE DEF Ready
<1>3. ASSUME NEW t, IsSeq(t)
      PROVE  /\ Ready(RmCandidate(t)) /\ Ready(RmDisplaced(t))
             /\ \A o : Ready(LinkOver(o, t)) /\ Ready(CompareWith(o, t)) /\ Ready(DisplaceOld(o, t))
             /\ \A o, n : Ready(Write(o, n, t)) /\ IsSeq(Write(o, n, t))
             /\ Ready(CleanD(t)) /\ Ready(CleanC(t)) /\ Ready(CleanR(t)) /\ IsSeq(CleanD(t))
             /\ \A f : Ready(RestoreOf(f, t)) /\ Ready(RmRestored(f, t)) /\ IsSeq(RestoreOf(f, t))
             /\ \A c : Ready(TakeOld(c, t)) /\ Ready(CompareTakenWith(c, t))
                       /\ IsSeq(TakeOld(c, t))
  <2>1. Ready(RmCandidate(t)) /\ Ready(RmDisplaced(t)) /\ IsSeq(RmCandidate(t)) /\ IsSeq(RmDisplaced(t))
    BY <1>1, <1>3, WriteIs DEF RmCandidate, RmDisplaced, MarketOps
  <2>2. \A o : Ready(LinkOver(o, t)) /\ IsSeq(LinkOver(o, t))
    BY <1>1, <1>3, <2>1, WriteIs DEF LinkOver, MarketOps
  <2>3. \A o : Ready(CompareWith(o, t)) /\ Ready(DisplaceOld(o, t)) /\ IsSeq(DisplaceOld(o, t))
    BY <1>1, <1>3, <2>2, WriteIs DEF CompareWith, DisplaceOld, MarketOps
  <2>4. \A o, n : Ready(Write(o, n, t)) /\ IsSeq(Write(o, n, t))
    <3>1. \A o : IsSeq(IF o = None THEN LinkOver(o, t) ELSE DisplaceOld(o, t))
      BY <2>2, <2>3
    <3> QED
      BY <1>1, <1>3, <3>1, WriteIs DEF Write, MarketOps
  <2>5. Ready(CleanD(t)) /\ Ready(CleanC(t)) /\ Ready(CleanR(t)) /\ IsSeq(CleanD(t))
    BY <1>1, <1>3, CleanIs DEF CleanD, CleanC, CleanR, MarketOps
  <2>6. \A f : Ready(RestoreOf(f, t)) /\ Ready(RmRestored(f, t)) /\ IsSeq(RestoreOf(f, t))
    BY <1>1, <1>3, CleanIs DEF RestoreOf, RmRestored, MarketOps
  <2>7. \A c : Ready(TakeOld(c, t)) /\ Ready(CompareTakenWith(c, t)) /\ IsSeq(TakeOld(c, t))
    <3>1. \A c : IsSeq(CleanR(t)) /\ IsSeq(CompareTakenWith(c, t)) /\ IsSeq(TakeOld(c, t))
      BY <1>3, CleanIs
    <3> QED
      BY <1>1, <1>3, <3>1 DEF TakeOld, CompareTakenWith, MarketOps
  <2> QED
    BY <2>1, <2>2, <2>3, <2>4, <2>5, <2>6, <2>7
<1>4. Writes => Ready(run.todo)
  BY <1>2, <1>3 DEF Writes
<1>5. Completes => Ready(run.todo)
  BY <1>2 DEF Completes
<1>6. ASSUME NEW t \in {Rest, Checked, Write(Old, New, Checked)}, Cleans(t) PROVE Ready(run.todo)
  <2>1. IsSeq(t)
    BY <1>2, <1>3
  <2> QED
    BY <1>3, <1>6, <2>1 DEF Cleans
<1>7. ASSUME NEW f \in Files, NEW t \in {Rest, Checked}, Restores(f, t) PROVE Ready(run.todo)
  <2>1. IsSeq(t)
    BY <1>2
  <2> QED
    BY <1>3, <1>7, <2>1 DEF Restores
<1>8. ASSUME NEW f \in Files, NEW t, IsSeq(t), TakesOut(f, t) PROVE Ready(run.todo)
  <2>1. IsSeq(TakeOld(Old, t))
    BY <1>3, <1>8
  <2> QED
    BY <1>3, <1>8, <2>1 DEF TakesOut
<1>9. ASSUME NEW t \in {CleanD(Rest)} \cup {RestoreOf(g, u) : g \in Files, u \in {Rest, Checked}}
      PROVE  IsSeq(t)
  BY <1>2, <1>3
<1>10. Ready(run.todo)
  BY <1>4, <1>5, <1>6, <1>7, <1>8, <1>9 DEF Within
<1> QED
  BY <1>10 DEF Ready

\* What is next, at every place between the programs.
LEMMA BetweenHeads ==
  ASSUME Stepping, run.todo # <<>>
  PROVE  LET op == Head(run.todo).op
         IN  /\ BeforeRecovery => op = "recoverMarketplace"
             /\ AfterFailure => op \in UndoOps \cup {"recoverMarketplace"}
             /\ AfterFailure /\ op \in UndoOps => Len(run.todo) > 1
             /\ BeforeUpdate => op \in UndoOps \cup {"recover", "ensure"}
             /\ BeforeUpdate /\ op \in UndoOps => Len(run.todo) > 2
             /\ BeforeBegin => op = "begin"
             /\ BeforeMarker => op \in AdvanceOps \cup {"commit"}
             /\ MarkerSet => op = "dropIntent"
             /\ AfterIntent => op \in CloseOps
             /\ Within => op \in MarketOps
<1> DEFINE op == Head(run.todo).op
<1>1. /\ IsSeq(run.todo) /\ Len(run.todo) \in Nat /\ Len(run.todo) > 0
      /\ DOMAIN run.todo = 1 .. Len(run.todo) /\ Head(run.todo) = run.todo[1]
      /\ InstallShaped /\ MarketInv /\ run # None
  BY SteppingFacts, TailFacts
<1>2. BeforeRecovery => op = "recoverMarketplace"
  BY RestIs, ThenIs, StepFacts DEF BeforeRecovery
<1>3. /\ AfterFailure => op \in UndoOps \cup {"recoverMarketplace"}
      /\ AfterFailure /\ op \in UndoOps => Len(run.todo) > 1
  <2> SUFFICES ASSUME AfterFailure
               PROVE  /\ op \in UndoOps \cup {"recoverMarketplace"}
                      /\ op \in UndoOps => Len(run.todo) > 1
    OBVIOUS
  <2>1. CASE Len(run.todo) = 1
    <3>1. run.todo[1] = Step("recoverMarketplace", None)
      BY <2>1 DEF AfterFailure, Last
    <3> QED
      BY <1>1, <3>1, StepFacts DEF UndoOps
  <2>2. CASE Len(run.todo) > 1
    <3>1. 1 \in DOMAIN run.todo /\ 1 <= Len(run.todo) - 1
      BY <1>1, <2>2
    <3> QED
      BY <1>1, <2>2, <3>1 DEF AfterFailure, Before
  <2>3. Len(run.todo) = 1 \/ Len(run.todo) > 1
    <3>1. \A n \in Nat : n > 0 => n = 1 \/ n > 1
      OBVIOUS
    <3> QED
      BY <1>1, <3>1
  <2> QED
    BY <2>1, <2>2, <2>3
<1>4. /\ BeforeUpdate => op \in UndoOps \cup {"recover", "ensure"}
      /\ BeforeUpdate /\ op \in UndoOps => Len(run.todo) > 2
  <2> SUFFICES ASSUME BeforeUpdate
               PROVE  /\ op \in UndoOps \cup {"recover", "ensure"}
                      /\ op \in UndoOps => Len(run.todo) > 2
    OBVIOUS
  <2>1. CASE Len(run.todo) = 2
    <3>1. run.todo[1] = Step("ensure", None)
      BY <2>1 DEF BeforeUpdate, Last
    <3> QED
      BY <1>1, <3>1, StepFacts DEF UndoOps
  <2>2. CASE Len(run.todo) > 2
    <3>1. 1 \in DOMAIN run.todo /\ 1 <= Len(run.todo) - 2
      BY <1>1, <2>2
    <3> QED
      BY <1>1, <2>2, <3>1 DEF BeforeUpdate, Before
  <2>3. Len(run.todo) = 2 \/ Len(run.todo) > 2
    <3>1. \A n \in Nat : n >= 2 => n = 2 \/ n > 2
      OBVIOUS
    <3> QED
      BY <1>1, <3>1 DEF BeforeUpdate
  <2> QED
    BY <2>1, <2>2, <2>3
<1>5. BeforeBegin => op = "begin"
  <2>1. BeginStep.op = "begin"
    BY StepFacts DEF BeginStep
  <2> QED
    BY <2>1 DEF BeforeBegin
<1>6. BeforeMarker => op \in AdvanceOps \cup {"commit"}
  <2> SUFFICES ASSUME BeforeMarker PROVE op \in AdvanceOps \cup {"commit"}
    OBVIOUS
  <2>1. PICK n \in DOMAIN run.todo : Marks(run.todo, n)
    BY DEF BeforeMarker
  <2>2. CASE n = 1
    <3>1. run.todo[1] = CommitStep /\ CommitStep.op = "commit"
      BY <2>1, <2>2, StepFacts DEF Marks, CommitStep
    <3> QED
      BY <1>1, <3>1
  <2>3. CASE n # 1
    <3>1. 1 \in DOMAIN run.todo /\ 1 < n
      BY <1>1, <2>3
    <3> QED
      BY <1>1, <2>1, <3>1 DEF Marks
  <2> QED
    BY <2>2, <2>3
<1>7. MarkerSet => op = "dropIntent"
  BY StepFacts DEF MarkerSet
<1>8. AfterIntent => op \in CloseOps
  <2>1. 1 \in DOMAIN run.todo /\ 1 <= Len(run.todo) - 0
    BY <1>1
  <2> QED
    BY <1>1, <2>1 DEF AfterIntent, Before
<1>9. Within => op \in MarketOps
  BY <1>1, WithinHeads
<1> QED
  BY <1>2, <1>3, <1>4, <1>5, <1>6, <1>7, <1>8, <1>9

LEMMA FailKeepsMarket ==
  ASSUME Stepping, Fail PROVE MarketInv'
<1> DEFINE op == Head(run.todo).op
           undone == <<Step("recoverMarketplace", None)>>
<1>1. /\ UNCHANGED <<marketplace, journal, edits, surfaces>> /\ run.todo # <<>> /\ MarketInv
      /\ UNCHANGED <<file, exchange, intent>>
      /\ InstallShaped /\ run # None /\ IsSeq(run.todo) /\ DOMAIN run = RunFields
  BY SteppingFacts DEF Fail, marketplace
<1>2. Between \/ Within
  BY <1>1 DEF MarketInv, Placed
<1>3. Within => run.stage \in {"opening", "failed"}
  BY DEF Within
<1>4. /\ UndoOps \cap MarketOps = {} /\ CloseOps \cap MarketOps = {}
      /\ AdvanceOps \cap MarketOps = {} /\ "recoverMarketplace" \in MarketOps
  BY DEF UndoOps, CloseOps, AdvanceOps, MarketOps
<1>5. (Committed(run.root)' <=> Committed(run.root)) \/ run'.root # run.root
  BY <1>1 DEF Committed
<1>6. CASE op = "begin" /\ run' = [run EXCEPT !.stage = "failed", !.todo = undone]
  <2>1. BeforeBegin
    BY <1>1, <1>2, <1>6, BetweenHeads DEF Between, UndoOps, AdvanceOps, CloseOps, MarketOps
  <2>2. run'.todo = undone /\ run'.stage = "failed" /\ run'.root = run.root
    BY <1>1, <1>6 DEF RunFields
  <2>3. /\ undone # <<>> /\ Last(undone, 0) = Step("recoverMarketplace", None)
        /\ Before(undone, UndoOps, 1)
    <3>1. Len(undone) = 1 /\ DOMAIN undone = {1} /\ undone[1] = Step("recoverMarketplace", None)
      OBVIOUS
    <3>2. ~ (1 <= 1 - 1) /\ 1 - 0 = 1
      OBVIOUS
    <3> QED
      BY <3>1, <3>2, EmptySeq DEF Last, Before
  <2> HIDE DEF undone
  <2>4. AfterFailure'
    BY <1>5, <2>1, <2>2, <2>3 DEF AfterFailure, BeforeBegin
  <2> QED
    BY <1>1, <2>4, DiskStays DEF Between
<1>7. CASE run.stage = "active"
           /\ run' = [run EXCEPT !.stage = "failed", !.todo = Rollback(Mine) \o undone]
  <2>1. BeforeMarker
    BY <1>2, <1>3, <1>7 DEF Between, BeforeRecovery, AfterFailure, BeforeUpdate, BeforeBegin,
       MarkerSet, AfterIntent
  <2> DEFINE s == Rollback(Mine)
             u == s \o undone
  <2>2. run'.todo = u /\ run'.stage = "failed" /\ run'.root = run.root
    BY <1>1, <1>7 DEF RunFields
  <2>3. /\ IsSeq(s) /\ \A i \in DOMAIN s : s[i].op \in UndoOps
        /\ Len(s) \in Nat /\ DOMAIN s = 1 .. Len(s)
    <3>1. AllIn(s, UndoOps)
      BY PrefixesAre
    <3> HIDE DEF s
    <3> QED
      BY <3>1, SeqFacts DEF AllIn
  <2>4. /\ IsSeq(undone) /\ Len(undone) = 1 /\ undone[1] = Step("recoverMarketplace", None)
    BY OneIsSeq
  <2> HIDE DEF s, undone
  <2>5. /\ IsSeq(u) /\ Len(u) = Len(s) + 1 /\ DOMAIN u = 1 .. Len(u)
        /\ \A i \in 1 .. Len(s) + 1 : u[i] = IF i <= Len(s) THEN s[i] ELSE undone[i - Len(s)]
    BY <2>3, <2>4, Joined, SeqFacts
  <2> HIDE DEF u
  <2>6. u # <<>> /\ Last(u, 0) = Step("recoverMarketplace", None)
    <3>1. /\ Len(u) - 0 = Len(s) + 1 /\ Len(s) + 1 \in 1 .. Len(s) + 1
          /\ ~ (Len(s) + 1 <= Len(s)) /\ (Len(s) + 1) - Len(s) = 1
      BY <2>3, <2>5
    <3>2. u[Len(s) + 1] = undone[1]
      BY <2>5, <3>1
    <3> QED
      BY <2>4, <2>5, <3>1, <3>2, EmptySeq DEF Last
  <2>7. Before(u, UndoOps, 1)
    <3> SUFFICES ASSUME NEW i \in DOMAIN u, i <= Len(u) - 1 PROVE u[i].op \in UndoOps
      BY DEF Before
    <3>1. i \in 1 .. Len(s) + 1 /\ i <= Len(s) /\ i \in DOMAIN s
      BY <2>3, <2>5
    <3> QED
      BY <2>3, <2>5, <3>1
  <2>8. AfterFailure'
    BY <1>5, <2>1, <2>2, <2>6, <2>7 DEF AfterFailure, BeforeMarker
  <2> QED
    BY <1>1, <2>8, DiskStays DEF Between
<1>8. CASE op \in Undoing /\ run' = [run EXCEPT !.incomplete = TRUE, !.todo = Tail(@)]
  <2>1. op \in UndoOps /\ op \notin {"recoverMarketplace", "recover", "ensure", "begin", "commit",
                                     "dropIntent", "dropJournal"}
        /\ op \notin AdvanceOps /\ op \notin CloseOps /\ op \notin MarketOps
    BY <1>8 DEF Undoing, UndoOps, AdvanceOps, CloseOps, MarketOps
  <2>2. AfterFailure \/ BeforeUpdate
    BY <1>1, <1>2, <2>1, BetweenHeads DEF Between
  <2>3. Continues(UndoOps)
    <3>1. Onto(Tail(run.todo))
      BY <1>1, <1>8 DEF Onto, RunFields
    <3>2. <<>> \o Tail(run.todo) = Tail(run.todo)
      BY <1>1, TailFacts, Nothing
    <3> QED
      BY <3>1, <3>2, AllInFacts DEF Continues, Replaces
  <2>4. CASE AfterFailure
    BY <1>1, <2>1, <2>3, <2>4, BetweenHeads, RollbackGoesOn
  <2>5. CASE BeforeUpdate
    BY <1>1, <2>1, <2>3, <2>5, BetweenHeads, OpeningGoesOn
  <2> QED
    BY <2>2, <2>4, <2>5
<1>9. CASE run' = None
  BY <1>1, <1>9, DiskStays
<1>10. CASE /\ run.stage = "committed" /\ op \in {"clean", "dropJournal"}
            /\ run' = [run EXCEPT !.todo = AppServer]
  <2>1. AfterIntent
    <3>1. op \notin MarketOps /\ op # "dropIntent"
      BY <1>10 DEF MarketOps
    <3> QED
      BY <1>1, <1>2, <1>3, <1>10, <3>1, BetweenHeads DEF Between, BeforeRecovery, AfterFailure,
         BeforeUpdate, BeforeBegin, BeforeMarker
  <2>2. run'.todo = AppServer /\ run'.stage = "committed"
    BY <1>1, <1>10 DEF RunFields
  <2>3. AllIn(AppServer, CloseOps)
    BY PrefixesAre, AllInMore DEF CloseOps
  <2>4. Before(AppServer, CloseOps, 0)
    BY <2>3 DEF AllIn, Before
  <2>5. AfterIntent'
    BY <1>1, <2>1, <2>2, <2>4 DEF AfterIntent
  <2> QED
    BY <1>1, <2>5, DiskStays DEF Between
<1> QED
  BY <1>6, <1>7, <1>8, <1>9, <1>10 DEF Fail

LEMMA CrashKeepsMarket ==
  ASSUME MarketInv, Crash PROVE MarketInv'
BY DiskStays DEF Crash

\* An installer starts.
LEMMA StartKeepsMarket ==
  ASSUME MarketInv, NEW r \in Roots, Start(r) PROVE MarketInv'
<1>1. /\ run'.stage = "opening" /\ run'.settling = FALSE
      /\ run'.todo = << Step("recoverMarketplace", None), Step("recover", None),
                        Step("ensure", None), Step("begin", None) >>
      /\ UNCHANGED <<marketplace, journal, edits, surfaces>>
  BY DEF Start
<1>2. << Step("recoverMarketplace", None), Step("recover", None),
         Step("ensure", None), Step("begin", None) >>
        = Then(Step("recoverMarketplace", None), Opening)
  <2> DEFINE a == Step("recoverMarketplace", None)
             b == Step("recover", None)
             c == Step("ensure", None)
             d == Step("begin", None)
  <2>1. <<a, b, c, d>> = <<a>> \o <<b, c, d>>
    BY TuplesJoin
  <2>2. Opening = <<b, c, d>>
    BY OpeningIs DEF BeginStep
  <2> QED
    BY <2>1, <2>2 DEF Then
<1>3. Opening' = Opening
  BY DEF Opening
<1>4. BeforeRecovery'
  BY <1>1, <1>2, <1>3 DEF BeforeRecovery
<1> QED
  BY <1>1, <1>4, DiskStays DEF Between

\* Wherever an update or a recovery is, it stays there when only the file
\* changes, as long as it changes to something that the place allows.
LEMMA WithinStays ==
  ASSUME InstallShaped, MarketInv, run # None, Within,
         UNCHANGED <<exchange, intent, journal, run>>,
         \A c : FileIs(c) => FileIs(c)', \A f, c : TakenIs(f, c) => TakenIs(f, c)',
         KeepsEntry => KeepsEntry'
  PROVE  Within'
<1>1. /\ \A c : FileIs(c) => FileIs(c)'
      /\ \A f, c : TakenIs(f, c) => TakenIs(f, c)'
      /\ (KeepsEntry => KeepsEntry')
  OBVIOUS
<1>2. /\ (Committed(intent.root)' <=> Committed(intent.root))
      /\ Old' = Old /\ New' = New /\ Rest' = Rest /\ Checked' = Checked
  <2>1. /\ (Committed(intent.root)' <=> Committed(intent.root))
        /\ Wanted' = Wanted /\ Unwanted' = Unwanted
    BY DEF Wanted, Unwanted, Committed
  <2>2. Old' = Old /\ New' = New /\ Rest' = Rest
    BY <2>1 DEF Old, New, Rest
  <2> QED
    BY <2>1, <2>2 DEF Checked
<1>3. /\ intent' # None /\ run'.stage \in {"opening", "failed"}
      /\ ~ run'.settling =>
           run'.stage = "opening" /\ run'.root = intent'.root /\ ~ Committed(intent.root)'
  BY <1>2 DEF Within
<1>4. Writes => Writes'
  BY <1>1, <1>2 DEF Writes
<1>5. Completes => Completes'
  BY <1>1, <1>2 DEF Completes
<1>6. ASSUME NEW t \in {Rest, Checked, Write(Old, New, Checked)}, Cleans(t) PROVE Within'
  <2>1. PICK u : u = t
    OBVIOUS
  <2>2. Cleans(u)'
    BY <1>1, <1>2, <1>6, <2>1 DEF Cleans
  <2>3. u \in {Rest, Checked, Write(Old, New, Checked)}'
    BY <1>2, <1>6, <2>1
  <2> QED
    BY <1>3, <2>2, <2>3 DEF Within
<1>7. ASSUME NEW f \in Files, NEW t \in {Rest, Checked}, Restores(f, t) PROVE Within'
  <2>1. PICK u : u = t
    OBVIOUS
  <2>2. Restores(f, u)'
    BY <1>1, <1>2, <1>7, <2>1 DEF Restores
  <2>3. u \in {Rest, Checked}'
    BY <1>2, <1>7, <2>1
  <2> QED
    BY <1>3, <2>2, <2>3 DEF Within
<1>8. ASSUME NEW f \in Files,
             NEW t \in {CleanD(Rest)} \cup {RestoreOf(g, u) : g \in Files, u \in {Rest, Checked}},
             TakesOut(f, t)
      PROVE  Within'
  <2>1. PICK v : v = t
    OBVIOUS
  <2>2. TakesBefore(f, v)'
    BY <1>2, <1>8, <2>1 DEF TakesOut, TakesBefore
  <2>3. TakesOut(f, v)'
    BY <1>1, <1>2, <1>8, <2>1, <2>2 DEF TakesOut
  <2>4. v \in ({CleanD(Rest)} \cup {RestoreOf(g, u) : g \in Files, u \in {Rest, Checked}})'
    BY <1>2, <1>8, <2>1
  <2> QED
    BY <1>3, <2>3, <2>4 DEF Within
<1> QED
  BY <1>3, <1>4, <1>5, <1>6, <1>7, <1>8 DEF Within

LEMMA EditKeepsMarket ==
  ASSUME InstallShaped, MarketInv, Edit, UNCHANGED surfaces PROVE MarketInv'
<1>1. /\ edits \in 0 .. MaxEdits /\ edits \in Nat /\ edits' = edits + 1 /\ edits' \in 0 .. MaxEdits
      /\ UNCHANGED <<exchange, intent, journal, run, surfaces>>
  <2>1. edits \in 0 .. MaxEdits /\ MaxEdits \in Nat /\ edits < MaxEdits /\ edits' = edits + 1
    BY MarketplaceAssumption DEF MarketInv, MarketShaped, Edit
  <2> QED
    BY <2>1 DEF Edit
<1>2. PICK entry \in BOOLEAN :
        /\ file # None => entry = file.entry
        /\ file' = [edit |-> edits + 1, entry |-> entry]
  BY DEF Edit
<1>3. /\ file' \in Contents /\ file' # None /\ file'.edit = edits'
      /\ file # None => file'.entry = file.entry
  BY <1>1, <1>2, ContentFacts DEF Contents
<1>4. Fresh(file)'
  BY <1>3 DEF Fresh
<1>5. MarketShaped'
  BY <1>1, <1>3 DEF MarketInv, MarketShaped
<1>6. intent # None => Adds' /\ ~ Untouched'
  <2> SUFFICES ASSUME intent # None PROVE Adds' /\ ~ Untouched'
    OBVIOUS
  <2>1. /\ Adds /\ intent.expected \in Contents
    BY DEF MarketInv, MarketShaped, Settleable, Intents
  <2>2. intent.expected.edit \in Nat /\ intent.expected.edit <= edits
    BY <2>1, ContentFacts DEF Adds
  <2>3. intent.expected.edit <= edits' /\ intent.expected.edit # edits'
    BY <1>1, <2>2
  <2> QED
    BY <1>1, <2>1, <2>3 DEF Adds, Untouched
<1>7. Settleable'
  BY <1>1, <1>4, <1>6 DEF MarketInv, Settleable, Saved
<1>8. Listed'
  <2>1. Shown' = Shown /\ (Committed(intent.root)' <=> Committed(intent.root))
    BY <1>1 DEF Shown, surfaces, Committed
  <2> QED
    BY <1>1, <1>3, <2>1 DEF MarketInv, Listed
<1>9. UpToDate => UpToDate'
  BY <1>1, <1>3, <1>4 DEF UpToDate
<1>10. Between => Between'
  <2>1. BeforeRecovery => BeforeRecovery'
    BY <1>1 DEF BeforeRecovery, Opening
  <2>2. AfterFailure => AfterFailure'
    BY <1>1 DEF AfterFailure, Committed
  <2>3. BeforeUpdate => BeforeUpdate'
    BY <1>1 DEF BeforeUpdate, Committed
  <2>4. BeforeBegin => BeforeBegin'
    BY <1>1, <1>9 DEF BeforeBegin, Own, Committed
  <2>5. BeforeMarker => BeforeMarker'
    BY <1>1, <1>9 DEF BeforeMarker, Own, Committed
  <2>6. MarkerSet => MarkerSet'
    BY <1>1, <1>9 DEF MarkerSet, Own
  <2>7. AfterIntent => AfterIntent'
    BY <1>1 DEF AfterIntent
  <2> QED
    BY <2>1, <2>2, <2>3, <2>4, <2>5, <2>6, <2>7 DEF Between
<1>11. run # None /\ Within => Within'
  <2>1. Within => \A c : FileIs(c)' /\ \A f : TakenIs(f, c)'
    BY <1>4, <1>6 DEF Within, FileIs, TakenIs
  <2>2. KeepsEntry => KeepsEntry'
    BY <1>1, <1>3 DEF KeepsEntry, Committed
  <2> QED
    BY <1>1, <2>1, <2>2, WithinStays
<1>12. Placed'
  BY <1>1, <1>10, <1>11 DEF MarketInv, Placed
<1> QED
  BY <1>5, <1>7, <1>8, <1>12 DEF MarketInv

LEMMA NothingKeepsMarket ==
  ASSUME InstallShaped, MarketInv, UNCHANGED installer PROVE MarketInv'
<1>1. /\ UNCHANGED <<marketplace, journal, edits, surfaces>>
      /\ UNCHANGED <<file, exchange, intent, journal, run, edits>>
  BY DEF installer, marketplace
<1>2. run # None /\ Within => Within'
  <2>1. /\ \A c : FileIs(c) => FileIs(c)'
        /\ \A f, c : TakenIs(f, c) => TakenIs(f, c)'
        /\ (KeepsEntry => KeepsEntry')
    BY <1>1 DEF FileIs, TakenIs, KeepsEntry, Fresh, Untouched, Committed
  <2> QED
    BY <1>1, <2>1, WithinStays
<1>3. UpToDate => UpToDate'
  BY <1>1 DEF UpToDate, Fresh
<1>4. Between => Between'
  <2>1. BeforeRecovery => BeforeRecovery'
    BY <1>1 DEF BeforeRecovery, Opening
  <2>2. AfterFailure => AfterFailure'
    BY <1>1 DEF AfterFailure, Committed
  <2>3. BeforeUpdate => BeforeUpdate'
    BY <1>1 DEF BeforeUpdate, Committed
  <2>4. BeforeBegin => BeforeBegin'
    BY <1>1, <1>3 DEF BeforeBegin, Own, Committed
  <2>5. BeforeMarker => BeforeMarker'
    BY <1>1, <1>3 DEF BeforeMarker, Own, Committed
  <2>6. MarkerSet => MarkerSet'
    BY <1>1, <1>3 DEF MarkerSet, Own
  <2>7. AfterIntent => AfterIntent'
    BY <1>1 DEF AfterIntent
  <2> QED
    BY <2>1, <2>2, <2>3, <2>4, <2>5, <2>6, <2>7 DEF Between
<1> QED
  BY <1>1, <1>2, <1>4, DiskStays DEF MarketInv, Placed

LEMMA MarketInvInit == InstallInit => MarketInv
<1> SUFFICES ASSUME InstallInit PROVE MarketInv
  OBVIOUS
<1>1. /\ exchange = NoFiles /\ intent = None /\ edits = 0 /\ run = None
      /\ journal = [r \in Roots |-> None]
  BY DEF InstallInit, MarketplaceInit
<1>2. MaxEdits \in Nat /\ 0 \in 0 .. MaxEdits
  BY MarketplaceAssumption
<1>3. file \in Contents \cup {None} /\ (file # None => file.edit <= 0)
  <2>1. PICK entry \in BOOLEAN : file \in {None, [edit |-> 0, entry |-> entry]}
    BY DEF InstallInit, MarketplaceInit
  <2> QED
    BY <1>2, <2>1 DEF Contents
<1>4. MarketShaped
  BY <1>1, <1>2, <1>3 DEF MarketShaped, NoFiles
<1>5. Shown \in {None, Earlier}
  <2>1. PICK v \in {None, "legacy", Earlier} : disk = Whole(v)
    BY DEF InstallInit
  <2>2. disk["state"] \in {None, Earlier}
    BY <2>1 DEF Whole, Places, Moved
  <2> QED
    BY <1>1, <2>2, InstallAssumption DEF Shown
<1>6. Listed
  BY <1>5, InstallAssumption DEF Listed
<1> QED
  BY <1>1, <1>4, <1>6 DEF MarketInv, Settleable, Placed

-----------------------------------------------------------------------------
(* What the invariant says *)

LEMMA SavedIsKept == MarketInv => EditSurvives
<1> SUFFICES ASSUME MarketInv, edits > 0, ~ (file # None /\ file.edit = edits)
             PROVE  \E f \in Files : exchange[f] # None /\ exchange[f].edit = edits
  BY DEF EditSurvives
<1>1. CASE intent = None
  BY <1>1 DEF MarketInv, Settleable, Fresh
<1>2. CASE intent # None
  <2>1. /\ Adds /\ (IF Untouched THEN Traces ELSE Saved)
        /\ intent.previous \in Contents \cup {None} /\ intent.expected \in Contents
    BY <1>2 DEF MarketInv, MarketShaped, Settleable, Intents
  <2>2. CASE Untouched
    <3>1. /\ intent.previous # None /\ intent.previous.edit = edits
          /\ intent.expected # None /\ intent.expected.edit = edits
      BY <2>1, <2>2, ContentFacts DEF Adds, Untouched
    <3>2. file = None
      BY <2>1, <2>2, <3>1 DEF Traces
    <3>3. Wanted # None /\ Wanted.edit = edits
      BY <3>1 DEF Wanted
    <3> QED
      BY <2>1, <2>2, <3>2, <3>3 DEF Traces
  <2>3. CASE ~ Untouched
    BY <2>1, <2>3, ContentFacts DEF Saved, Fresh
  <2> QED
    BY <2>2, <2>3
<1> QED
  BY <1>1, <1>2

\* The steps of a recovery that does something.
Acts(s) == IsSeq(s) /\ s # <<>> /\ Head(s).op # "refuse"

LEMMA ActsFacts ==
  /\ \A s : Acts(s) => s # Refuse
  /\ \A s, t : Acts(s) /\ IsSeq(t) => Acts(s \o t)
  /\ \A x : x.op # "refuse" => Acts(<<x>>)
<1>1. ASSUME NEW s, Acts(s) PROVE s # Refuse
  <2>1. Refuse = Then(Step("refuse", None), <<>>)
    BY OneIsSeq DEF Refuse
  <2> QED
    BY <1>1, <2>1, ThenIs, EmptyIsSeq, StepFacts DEF Acts
<1>2. ASSUME NEW s, NEW t, Acts(s), IsSeq(t) PROVE Acts(s \o t)
  <2>1. /\ IsSeq(s) /\ s # <<>> /\ Head(s).op # "refuse"
        /\ Len(s) \in Nat /\ Len(s) > 0 /\ Head(s) = s[1] /\ Len(t) \in Nat
    BY <1>2, TailFacts, SeqFacts DEF Acts
  <2> DEFINE u == s \o t
  <2>2. /\ IsSeq(u) /\ Len(u) = Len(s) + Len(t)
        /\ \A i \in 1 .. Len(s) + Len(t) : u[i] = IF i <= Len(s) THEN s[i] ELSE t[i - Len(s)]
    BY <1>2, <2>1, Joined
  <2> HIDE DEF u
  <2>3. u # <<>> /\ u[1] = s[1]
    <3>1. 1 \in 1 .. Len(s) + Len(t) /\ 1 <= Len(s) /\ Len(u) # 0
      BY <2>1, <2>2
    <3> QED
      BY <2>2, <3>1, EmptyIsSeq
  <2>4. Acts(u)
    BY <2>1, <2>2, <2>3, TailFacts DEF Acts
  <2> QED
    BY <2>4 DEF u
<1>3. ASSUME NEW x, x.op # "refuse" PROVE Acts(<<x>>)
  BY <1>3, OneIsSeq, ThenIs, EmptyIsSeq DEF Acts
<1> QED
  BY <1>1, <1>2, <1>3

LEMMA PiecesAct ==
  /\ Acts(CleanUp) /\ IsSeq(CleanUp)
  /\ \A x : Acts(<<Step("rm", x)>>)
  /\ \A c : Acts(Take(c)) /\ IsSeq(Take(c))
  /\ \A f : Acts(Restore(f)) /\ IsSeq(Restore(f))
  /\ \A old, new : IsSeq(Replace(old, new))
<1>1. \A x : Acts(<<Step("rm", x)>>)
  BY ActsFacts, StepFacts
<1>2. /\ IsSeq(CleanUp) /\ \A c : IsSeq(Take(c)) /\ \A f : IsSeq(Restore(f))
      /\ \A old, new : IsSeq(Replace(old, new))
  BY QuietPieces, ReplaceIsQuiet DEF Program
<1>3. ASSUME NEW s, IsSeq(s), NEW x, NEW y, s[1] = Step(x, y), x # "refuse", Len(s) # 0
      PROVE  Acts(s)
  <2>1. s # <<>> /\ Head(s) = s[1]
    BY <1>3, EmptyIsSeq, TailFacts
  <2> QED
    BY <1>3, <2>1, StepFacts DEF Acts
<1>4. Acts(CleanUp)
  <2>1. CleanUp[1] = Step("rm", "displaced") /\ Len(CleanUp) = 3
    BY DEF CleanUp
  <2> QED
    BY <1>2, <1>3, <2>1
<1>5. ASSUME NEW c PROVE Acts(Take(c))
  <2>1. Take(c)[1] = Step("take", None) /\ Len(Take(c)) = 3
    BY DEF Take
  <2> QED
    BY <1>2, <1>3, <2>1
<1>6. ASSUME NEW f PROVE Acts(Restore(f))
  <2>1. Restore(f)[1] = Step("restore", f) /\ Len(Restore(f)) = 2
    BY DEF Restore
  <2> QED
    BY <1>2, <1>3, <2>1
<1> QED
  BY <1>1, <1>2, <1>4, <1>5, <1>6

LEMMA TracesSettle == MarketInv => OwnTracesAreSettled
<1> SUFFICES ASSUME MarketInv, intent # None, Untouched PROVE Recovery(intent) # Refuse
  BY DEF OwnTracesAreSettled, Untouched
<1>1. /\ Adds /\ Traces /\ exchange \in [Files -> Contents \cup {None, Partial}]
      /\ file \in Contents \cup {None}
      /\ intent.previous \in Contents \cup {None} /\ intent.expected \in Contents
  BY DEF MarketInv, MarketShaped, Settleable, Intents
<1>2. ~ Unexplained(intent, Committed(intent.root))
  BY <1>1, ContentFacts DEF Traces, Unexplained, CutOff
<1>3. \A f \in Files : Found[f] = IF exchange[f] = Partial THEN None ELSE exchange[f]
  <2>1. \A f \in Files : exchange[f] = Partial => f = "candidate"
    BY <1>1 DEF Traces
  <2> QED
    BY <1>1, <2>1 DEF Found, CutOff, Files
<1> DEFINE preserve == Committed(intent.root)
           holders == HoldersOf(Wanted, Found)
           verified == IF preserve THEN <<>> ELSE <<Step("verify", Wanted)>>
           clear == IF holders # <<>> /\ Head(holders) = "removal" THEN <<>>
                    ELSE <<Step("rm", "removal")>>
           S1 == (<<Step("rm", "removal")>> \o Take(Unwanted)) \o CleanUp
           S2 == Restore(Head(holders)) \o CleanUp
           S3 == (((clear \o Take(Unwanted)) \o Restore(Head(holders))) \o CleanUp) \o verified
           S4 == (CleanUp \o Replace(file, Wanted)) \o verified
<1>4. Recovery(intent) =
        IF file = Wanted THEN CleanUp
        ELSE IF file \notin {None, Unwanted} THEN Refuse
        ELSE IF Wanted = None THEN S1
        ELSE IF holders # <<>> /\ file = None THEN S2
        ELSE IF holders # <<>> THEN S3
        ELSE IF preserve THEN Refuse
        ELSE S4
  BY <1>2 DEF Recovery, Settlement, Wanted, Unwanted
<1>5. file = Wanted \/ file \in {None, Unwanted}
  BY <1>1 DEF Traces, Wanted, Unwanted
<1>6. file = Wanted \/ ~ preserve \/ holders # <<>>
  <2> SUFFICES ASSUME file # Wanted, preserve PROVE holders # <<>>
    OBVIOUS
  <2>1. PICK f \in Files : exchange[f] = Wanted
    BY <1>1 DEF Traces
  <2>2. Found[f] = Wanted
    BY <1>1, <1>3, <2>1, ContentFacts DEF Wanted
  <2> QED
    BY <2>2, HoldersAre
<1>7. IsSeq(verified) /\ IsSeq(clear) /\ (clear = <<>> \/ Acts(clear))
  BY PiecesAct, EmptyIsSeq, OneIsSeq
<1> HIDE DEF verified, clear, holders, preserve
<1>8. Acts(S1) /\ Acts(S2) /\ Acts(S4)
  BY <1>7, PiecesAct, ActsFacts
<1>9. Acts(S3)
  <2>1. Acts(clear \o Take(Unwanted))
    <3>1. CASE Acts(clear)
      BY <3>1, PiecesAct, ActsFacts
    <3>2. CASE clear = <<>>
      <4>1. <<>> \o Take(Unwanted) = Take(Unwanted) /\ Acts(Take(Unwanted))
        BY PiecesAct, Nothing
      <4> QED
        BY <3>2, <4>1
    <3> QED
      BY <1>7, <3>1, <3>2
  <2>2. Acts((clear \o Take(Unwanted)) \o Restore(Head(holders)))
    BY <2>1, PiecesAct, ActsFacts
  <2>3. Acts(((clear \o Take(Unwanted)) \o Restore(Head(holders))) \o CleanUp)
    BY <2>2, PiecesAct, ActsFacts
  <2> QED
    BY <2>3, <1>7, ActsFacts
<1> HIDE DEF S1, S2, S3, S4
<1> QED
  BY <1>4, <1>5, <1>6, <1>8, <1>9, PiecesAct, ActsFacts

LEMMA ListedStaysListed == MarketInv /\ Earlier \notin Releases => InstalledIsListed
BY DEF MarketInv, Listed, InstalledIsListed, Shown

LEMMA MarketInvStep ==
  ASSUME InstallInv, MarketInv, [InstallNext]_installer
  PROVE  MarketInv'
<1>1. InstallShaped /\ Decided
  BY InstallInvStep DEF InstallInv
<1>2. run # None => Stepping
  BY <1>1 DEF Stepping, Decided
<1>3. CASE Progress
  BY <1>2, <1>3, ProgressRuns, ProgressKeepsMarket
<1>4. CASE Fail
  <2>1. run # None
    BY <1>4 DEF Fail
  <2> QED
    BY <1>2, <1>4, <2>1, FailKeepsMarket
<1>5. CASE Crash
  BY <1>5, CrashKeepsMarket
<1>6. CASE Edit /\ UNCHANGED surfaces
  BY <1>1, <1>6, EditKeepsMarket
<1>7. CASE \E r \in Roots : Start(r)
  BY <1>7, StartKeepsMarket
<1>8. CASE UNCHANGED installer
  BY <1>1, <1>8, NothingKeepsMarket
<1> QED
  BY <1>3, <1>4, <1>5, <1>6, <1>7, <1>8 DEF InstallNext, InstallerStep

(* The invariant: at every moment, and after every cut, the marketplace,   *)
(* its exchange files and its intent are such that a recovery can settle   *)
(* them, and the installer is at a place of its program that keeps it so.  *)
THEOREM MarketInvHolds == InstallSpec => []MarketInv
<1>1. InstallInv /\ MarketInv /\ [InstallNext]_installer => MarketInv'
  BY MarketInvStep
<1> QED
  BY <1>1, MarketInvInit, InstallInvHolds, PTL DEF InstallSpec, InstallNext

(* What the user saved last is in the marketplace file or in an exchange   *)
(* file next to it, whatever the installers, their crashes and their       *)
(* recoveries do, for any number of saves and faults.                      *)
THEOREM EditIsKept == InstallSpec => []EditSurvives
<1> QED
  BY MarketInvHolds, SavedIsKept, PTL

(* recoverMarketplaceTransaction does not refuse what an installer left of *)
(* an update or of a recovery, wherever it was cut off, unless the user    *)
(* has saved since.                                                        *)
THEOREM TracesAreSettled == InstallSpec => []OwnTracesAreSettled
<1> QED
  BY MarketInvHolds, TracesSettle, PTL

(* A release that an installer committed stays in the marketplace.  What   *)
(* was installed before the first installer started is not one of them:    *)
(* nothing is known of its entry.                                          *)
THEOREM InstalledStaysListed ==
  ASSUME Earlier \notin Releases
  PROVE  InstallSpec => []InstalledIsListed
<1>1. MarketInv => InstalledIsListed
  BY ListedStaysListed
<1> QED
  BY <1>1, MarketInvHolds, PTL

(* The marketplace beside any workers: they write nothing of it.           *)
THEOREM MarketplaceBesideWorkers == Spec => []EditSurvives /\ []OwnTracesAreSettled
<1>1. InstallInv /\ [Next]_<<installer, runtime>> => InstallInv'
  BY NextInstalls, InstallInvStep
<1>2. InstallInv /\ MarketInv /\ [Next]_<<installer, runtime>> => MarketInv'
  BY NextInstalls, MarketInvStep
<1>3. RuntimeInit => InstallInv /\ MarketInv
  BY InstallInvInit, MarketInvInit DEF RuntimeInit
<1> QED
  BY <1>1, <1>2, <1>3, SavedIsKept, TracesSettle, PTL DEF Spec

-----------------------------------------------------------------------------
(* The mutation fence *)

Calling == {"admitting", "admitted", "rechecking", "committing"}

Shaped ==
  /\ DOMAIN worker = Workers
  /\ \A w \in Workers :
       DOMAIN worker[w] = {"phase", "code", "identity", "draining"}

\* A lease has a generation, and keeps the installer out.
LeaseInv ==
  \A w \in Workers :
    /\ worker[w].phase = "imported" => worker[w].code # None
    /\ worker[w].phase = "identified" => worker[w].identity # None
    /\ Leased(w) => worker[w].identity # None /\ run = None

\* What a call was admitted against is still what is installed.
AdmittedInv ==
  \A w \in Workers :
    worker[w].phase \in Calling => disk["cache"] \in {None, worker[w].identity}

IInv == Shaped /\ LeaseInv /\ AdmittedInv /\ OneGenerationCommits

\* A step of one worker.
Turns(w, phase, code, identity) ==
  /\ DOMAIN worker' = Workers
  /\ DOMAIN worker'[w] = {"phase", "code", "identity", "draining"}
  /\ worker'[w].phase = phase /\ worker'[w].code = code
  /\ worker'[w].identity = identity
  /\ \A v \in Workers : v # w => worker'[v] = worker[v]

-----------------------------------------------------------------------------
LEMMA IInvInit == RuntimeInit => IInv
<1> SUFFICES ASSUME RuntimeInit PROVE IInv
  OBVIOUS
<1>1. /\ worker = [w \in Workers |-> Off]
      /\ \A w \in Workers : worker[w].phase = "off"
  BY DEF RuntimeInit, Off
<1>2. Shaped
  BY <1>1 DEF Shaped, Off
<1> QED
  BY <1>1, <1>2 DEF IInv, LeaseInv, AdmittedInv, OneGenerationCommits, Leased,
     Calling

(* Without a run the installer touches nothing that a worker looks at.     *)
LEMMA IdleInstaller ==
  ASSUME InstallerStep, run = None PROVE run' = None /\ disk' = disk
<1>1. CASE Edit /\ UNCHANGED surfaces
  BY <1>1 DEF Edit, surfaces
<1>2. ~ MarketplaceStep
  BY DEF MarketplaceStep, Ensure, WriteCandidate, Displace, Link, Rm, Verify,
     Compare, RecoverMarketplace, TakeAway, CompareTaken, RestoreFrom,
     DropIntent, At
<1>3. ~ Forwards
  BY DEF Forwards, Begin, Record, Aside, Place, Attempt, Add, RecordCurrent,
     SwapCurrent, WriteState, CommitJournal, Clean, DropJournal, Refresh,
     Reconcile, Finish, At
<1>4. ~ Backwards
  BY DEF Backwards, Recover, PutBack, UnlinkCurrent, LinkCurrent, CacheBack,
     StateBack, Settled, At
<1>5. ~ Fail /\ ~ Crash
  BY DEF Fail, Crash
<1> QED
  BY <1>1, <1>2, <1>3, <1>4, <1>5 DEF InstallerStep, Progress

(* An installer step leaves the workers; while one is leased it is idle.   *)
LEMMA InstallerKeeps ==
  ASSUME IInv, worker' = worker,
         (\E w \in Workers : Leased(w)) => run' = None /\ disk' = disk
  PROVE  IInv'
<1> USE DEF IInv
<1>1. Shaped' /\ OneGenerationCommits'
  BY DEF Shaped, OneGenerationCommits
<1>2. LeaseInv'
  BY DEF LeaseInv, Leased
<1>3. AdmittedInv'
  BY DEF AdmittedInv, Leased, Calling
<1> QED
  BY <1>1, <1>2, <1>3

(* What a step of one worker must respect.                                 *)
LEMMA WorkerKeeps ==
  ASSUME IInv, NEW w \in Workers, NEW p, NEW code, NEW identity,
         Turns(w, p, code, identity), UNCHANGED <<run, disk>>,
         p = "imported" => code # None,
         p = "identified" => identity # None,
         p \in {"serving"} \cup Calling => identity # None /\ run = None,
         p \in Calling => disk["cache"] \in {None, identity},
         p = "committing" =>
           \A v \in Workers : worker[v].phase = "committing" =>
             worker[v].identity = identity
  PROVE  IInv'
<1>1. Shaped'
  BY DEF IInv, Shaped, Turns
<1>2. LeaseInv'
  BY DEF IInv, LeaseInv, Leased, Calling, Turns
<1>3. AdmittedInv'
  BY DEF IInv, AdmittedInv, Turns
<1>4. OneGenerationCommits'
  BY DEF IInv, OneGenerationCommits, Turns
<1> QED
  BY <1>1, <1>2, <1>3, <1>4 DEF IInv

(* Two leased workers of an unmixed registry are of one generation.        *)
LEMMA UnmixedIsOne ==
  ASSUME IsFiniteSet(Workers), Unmixed, NEW v \in Workers, NEW w \in Workers,
         Leased(v), Leased(w)
  PROVE  worker[v].identity = worker[w].identity
<1> DEFINE L == {u \in Workers : Leased(u)}
           of == [u \in L |-> worker[u].identity]
<1>1. IsFiniteSet(L)
  BY FS_Subset
<1>2. IsFiniteSet(Generations)
  <2>1. of \in Surjection(L, Generations)
    BY DEF Surjection, Generations
  <2> QED
    BY <1>1, <2>1, FS_Surjection
<1>3. Cardinality(Generations) \in Nat /\ Cardinality(Generations) <= 1
  BY <1>2, FS_CardinalityType DEF Unmixed
<1>4. worker[v].identity \in Generations /\ worker[w].identity \in Generations
  BY DEF Generations
<1>5. Cardinality(Generations) # 0
  BY <1>2, <1>4, FS_EmptySet
<1>6. Cardinality(Generations) = 1
  BY <1>3, <1>5
<1>7. PICK g : Generations = {g}
  BY <1>2, <1>6, FS_Singleton
<1> QED
  BY <1>4, <1>7

LEMMA WorkerStepKeeps ==
  ASSUME IsFiniteSet(Workers), IInv, NEW w \in Workers, WorkerStep(w)
  PROVE  IInv'
<1> USE DEF IInv
<1>1. UNCHANGED <<run, disk>> /\ Shaped
  BY DEF WorkerStep, Import, Derive, Register, RegisterTimesOut, Admit, Recheck,
     Inspect, CommitMutation, Drain, RemoveLease, Exit, KeepInstaller, installer,
     surfaces
<1>2. ASSUME NEW phase, Becomes(w, phase),
             phase \in {"unregistered", "serving"} \cup Calling,
             phase # "unregistered" => worker[w].identity # None /\ run = None,
             phase \in Calling => disk["cache"] \in {None, worker[w].identity},
             phase = "committing" =>
               \A v \in Workers : worker[v].phase = "committing" =>
                 worker[v].identity = worker[w].identity
      PROVE  IInv'
  <2>1. Turns(w, phase, worker[w].code, worker[w].identity)
    BY <1>1, <1>2 DEF Becomes, Turns, Shaped
  <2> QED
    BY <1>1, <1>2, <2>1, WorkerKeeps DEF Calling
<1>3. CASE Import(w)
  <2>1. PICK code \in (Checkouts \cup {disk["cache"]}) \ {None} :
          Turns(w, "imported", code, None)
    BY <1>1, <1>3 DEF Import, Off, Turns, Shaped
  <2> QED
    BY <1>1, <2>1, WorkerKeeps DEF Calling
<1>4. CASE Derive(w)
  <2>1. CASE Becomes(w, "unregistered")
    BY <1>2, <2>1 DEF Calling
  <2>2. CASE worker' = [worker EXCEPT ![w].phase = "identified",
                                      ![w].identity = worker[w].code]
    <3>1. /\ Turns(w, "identified", worker[w].code, worker[w].code)
          /\ worker[w].code # None
      BY <1>1, <1>4, <2>2 DEF Derive, LeaseInv, Turns, Shaped
    <3> QED
      BY <1>1, <3>1, WorkerKeeps DEF Calling
  <2> QED
    BY <1>4, <2>1, <2>2 DEF Derive
<1>5. CASE Register(w) \/ RegisterTimesOut(w)
  BY <1>2, <1>5 DEF Register, RegisterTimesOut, Free, LeaseInv, Calling
<1>6. CASE Admit(w) \/ Recheck(w)
  <2>1. worker[w].identity # None /\ run = None
    BY <1>6 DEF Admit, Recheck, LeaseInv, Leased
  <2> QED
    BY <1>2, <1>6, <2>1 DEF Admit, Recheck, Calling, Current
<1>7. CASE Inspect(w)
  <2>1. /\ worker[w].identity # None /\ run = None /\ Leased(w)
        /\ disk["cache"] \in {None, worker[w].identity}
    BY <1>7 DEF Inspect, LeaseInv, Leased, AdmittedInv, Calling
  <2>2. ASSUME Unmixed
        PROVE  \A v \in Workers : worker[v].phase = "committing" =>
                 worker[v].identity = worker[w].identity
    BY <2>1, <2>2, UnmixedIsOne DEF Leased
  <2> QED
    BY <1>2, <1>7, <2>1, <2>2 DEF Inspect, Calling
<1>8. CASE CommitMutation(w)
  <2>1. worker[w].identity # None /\ run = None
    BY <1>8 DEF CommitMutation, LeaseInv, Leased
  <2> QED
    BY <1>2, <1>8, <2>1 DEF CommitMutation, Calling
<1>9. CASE Drain(w)
  <2>1. Turns(w, worker[w].phase, worker[w].code, worker[w].identity)
    BY <1>1, <1>9 DEF Drain, Turns, Shaped
  <2>2. /\ worker[w].phase \notin {"imported", "identified"}
        /\ worker[w].identity # None /\ run = None
        /\ worker[w].phase \in Calling => disk["cache"] \in {None, worker[w].identity}
        /\ worker[w].phase = "committing" =>
             \A v \in Workers : worker[v].phase = "committing" =>
               worker[v].identity = worker[w].identity
    BY <1>9 DEF Drain, Leased, LeaseInv, AdmittedInv, OneGenerationCommits
  <2> QED
    BY <1>1, <2>1, <2>2, WorkerKeeps
<1>10. CASE RemoveLease(w) \/ Exit(w)
  <2>1. Turns(w, "off", None, None)
    BY <1>1, <1>10 DEF RemoveLease, Exit, Off, Turns, Shaped
  <2> QED
    BY <1>1, <2>1, WorkerKeeps DEF Calling
<1> QED
  BY <1>3, <1>4, <1>5, <1>6, <1>7, <1>8, <1>9, <1>10 DEF WorkerStep

LEMMA IInvStep ==
  ASSUME IsFiniteSet(Workers), IInv, [Next]_<<installer, runtime>>
  PROVE  IInv'
<1>1. CASE InstallerStep /\ UNCHANGED runtime
  <2>1. (\E w \in Workers : Leased(w)) => run = None
    BY DEF IInv, LeaseInv
  <2> QED
    BY <1>1, <2>1, IdleInstaller, InstallerKeeps DEF runtime
<1>2. CASE \E r \in Roots : Install(r)
  BY <1>2, InstallerKeeps DEF Install, NoWorkers, runtime
<1>3. CASE UNCHANGED <<installer, runtime>>
  <2>1. worker' = worker /\ run' = run /\ disk' = disk
    BY <1>3 DEF installer, runtime, surfaces
  <2>2. (\E w \in Workers : Leased(w)) => run = None
    BY DEF IInv, LeaseInv
  <2> QED
    BY <2>1, <2>2, InstallerKeeps
<1> QED
  BY <1>1, <1>2, <1>3, WorkerStepKeeps DEF Next

(* No worker makes a mutation durable while an installer runs or after     *)
(* another release was installed, whatever was asked for and answered in   *)
(* between.                                                                *)
THEOREM NoWorkerIsStale ==
  ASSUME IsFiniteSet(Workers)
  PROVE  Spec => []NoStaleCommit
<1>1. IInv => NoStaleCommit
  BY DEF IInv, NoStaleCommit, LeaseInv, AdmittedInv, Leased, Calling
<1> QED
  BY <1>1, IInvInit, IInvStep, PTL DEF Spec

(* Workers that commit at the same time are of one generation.             *)
THEOREM CommitsAreOfOneGeneration ==
  ASSUME IsFiniteSet(Workers)
  PROVE  Spec => []OneGenerationCommits
<1>1. IInv => OneGenerationCommits
  BY DEF IInv
<1> QED
  BY <1>1, IInvInit, IInvStep, PTL DEF Spec
=============================================================================
