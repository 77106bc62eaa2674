------------------------- MODULE MarketplaceInvariant -------------------------
(***************************************************************************)
(* Why the marketplace survives its updates: the inductive invariant of    *)
(* Marketplace, within Install.  What is on disk is described in a way     *)
(* that holds at every moment, and so after every cut (Settleable); for    *)
(* every place of a program there is what its next steps rely on.          *)
(***************************************************************************)
EXTENDS InstallInvariant

Fresh(c) == c # None /\ c.edit = edits

\* The user has not saved since the intent was written.
Untouched == intent.expected.edit = edits

\* What a recovery goes for, and what it removes.
Wanted == IF Committed(intent.root) THEN intent.expected ELSE intent.previous

Unwanted == IF Committed(intent.root) THEN intent.previous ELSE intent.expected

MarketShaped ==
  /\ edits \in 0 .. MaxEdits
  /\ file \in Contents \cup {None} /\ (file # None => file.edit <= edits)
  /\ exchange \in [Files -> Contents \cup {None, Partial}]
  /\ intent \in Intents \cup {None}

\* An update adds the entry to what it read.
Adds ==
  LET p == intent.previous
      x == intent.expected
  IN  /\ x.entry /\ x.edit <= edits
      /\ IF p = None THEN x.edit = 0 ELSE ~ p.entry /\ p.edit = x.edit

\* While the user does not save there are only the two contents of the intent,
\* and the one that a recovery wants is never lost.
Traces ==
  /\ file \in {None, intent.previous, intent.expected}
  /\ \A f \in Files : exchange[f] \in {None, Partial, intent.previous, intent.expected}
  /\ \A f \in Files : exchange[f] = Partial =>
       /\ f = "candidate" /\ ~ Committed(intent.root)
       /\ exchange["displaced"] = None /\ exchange["removal"] = None
  /\ file # Wanted /\ (file = None \/ Committed(intent.root)) =>
       \E f \in Files : exchange[f] = Wanted

\* What the user saved meanwhile is in the file or was renamed from it.
Saved == Fresh(file) \/ Fresh(exchange["displaced"]) \/ Fresh(exchange["removal"])

Settleable ==
  IF intent = None THEN exchange = NoFiles /\ (edits > 0 => Fresh(file))
  ELSE Adds /\ (IF Untouched THEN Traces ELSE Saved)

\* The entry of a release that was installed is there, or the intent will keep it.
Listed ==
  Shown \in Releases \ {Earlier} =>
    IF intent = None THEN file # None /\ file.entry ELSE Committed(intent.root)

-----------------------------------------------------------------------------
(* The programs of the marketplace, from every place on *)

Then(x, t) == <<x>> \o t

Opening == Then(Step("recover", None), Then(Step("ensure", None), <<BeginStep>>))

\* What follows an update, and what follows a recovery.
Rest ==
  IF ~ run.settling THEN <<BeginStep>>
  ELSE Then(Step("dropIntent", None), IF run.stage = "opening" THEN Opening ELSE <<>>)

Check(c, t) == Then(Step("verify", c), t)

RmCandidate(t) == Then(Step("rm", "candidate"), t)

RmDisplaced(t) == Then(Step("rm", "displaced"), RmCandidate(t))

LinkOver(old, t) ==
  Then(Step("link", old), IF old = None THEN RmCandidate(t) ELSE RmDisplaced(t))

CompareWith(old, t) == Then(Step("compare", old), LinkOver(old, t))

DisplaceOld(old, t) == Then(Step("displace", None), CompareWith(old, t))

Write(old, new, t) ==
  Then(Step("candidate", new), IF old = None THEN LinkOver(old, t) ELSE DisplaceOld(old, t))

CleanR(t) == Then(Step("rm", "removal"), t)

CleanC(t) == Then(Step("rm", "candidate"), CleanR(t))

CleanD(t) == Then(Step("rm", "displaced"), CleanC(t))

RmRestored(f, t) == Then(Step("rm", f), CleanD(t))

RestoreOf(f, t) == Then(Step("restore", f), RmRestored(f, t))

CompareTakenWith(c, t) == Then(Step("compareTaken", c), CleanR(t))

TakeOld(c, t) == Then(Step("take", None), CompareTakenWith(c, t))

-----------------------------------------------------------------------------
(* The places of a program *)

\* The file is c, or the user has saved since.
FileIs(c) == IF Untouched THEN file = c ELSE Fresh(file)

\* f, which was renamed from the file, is c, or what the user saved before that.
TakenIs(f, c) ==
  IF Untouched THEN file = None /\ exchange[f] = c
  ELSE Fresh(file) \/ (file = None /\ Fresh(exchange[f]))

\* What an update, or a recovery, replaces, and by what.
Old == IF run.settling THEN Unwanted ELSE intent.previous

New == IF run.settling THEN Wanted ELSE intent.expected

Checked == Check(New, Rest)

KeepsEntry == Committed(intent.root) => file # None /\ file.entry

\* An update, or a recovery that writes what it wants anew.
Writes ==
  LET d == exchange["displaced"]
      c == exchange["candidate"]
  IN  /\ ~ Committed(intent.root) /\ New # None /\ exchange["removal"] = None
      /\ \/ /\ run.todo = Write(Old, New, Checked) /\ d = None /\ c \in {None, Partial}
            /\ FileIs(Old)
         \/ /\ run.todo = DisplaceOld(Old, Checked) /\ Old # None /\ d = None /\ c = New
            /\ FileIs(Old)
         \/ /\ run.todo = CompareWith(Old, Checked) /\ Old # None /\ c = New
            /\ TakenIs("displaced", Old)
         \/ run.todo = LinkOver(Old, Checked) /\ d = Old /\ c = New /\ FileIs(None)
         \/ run.todo = RmDisplaced(Checked) /\ FileIs(New)
         \/ run.todo = RmCandidate(Checked) /\ d = None /\ FileIs(New)

\* The end of an update, or of a recovery.
Completes ==
  /\ exchange = NoFiles /\ FileIs(New) /\ KeepsEntry
  /\ run.todo = Checked \/ (run.settling /\ run.todo = Rest)

\* A recovery clears the exchange files away, and may write afterwards.
Cleans(t) ==
  LET d == exchange["displaced"]
      c == exchange["candidate"]
  IN  /\ run.settling
      /\ \/ t \in {Rest, Checked} /\ FileIs(New) /\ KeepsEntry
         \/ /\ t = Write(Old, New, Checked) /\ FileIs(Old)
            /\ ~ Committed(intent.root) /\ New # None
      /\ \/ run.todo = CleanD(t)
         \/ run.todo = CleanC(t) /\ d = None
         \/ run.todo = CleanR(t) /\ d = None /\ c = None

Restores(f, t) ==
  /\ run.settling /\ t \in {Rest, Checked} /\ New # None
  /\ \/ run.todo = RestoreOf(f, t) /\ exchange[f] = New /\ FileIs(None)
     \/ run.todo = RmRestored(f, t) /\ FileIs(New) /\ KeepsEntry

\* A recovery takes the unwanted content away, before f is restored.
TakesBefore(f, t) ==
  IF New = None THEN t = CleanD(Rest)
  ELSE /\ exchange[f] = New
       /\ t \in {RestoreOf(f, Rest), RestoreOf(f, Checked)}
       /\ f = "removal" => run.todo = TakeOld(Old, t)

TakesOut(f, t) ==
  /\ run.settling /\ Old # None /\ exchange["candidate"] # Partial
  /\ TakesBefore(f, t)
  /\ \/ run.todo = CleanR(TakeOld(Old, t)) /\ FileIs(Old)
     \/ run.todo = TakeOld(Old, t) /\ FileIs(Old)
     \/ run.todo = CompareTakenWith(Old, t) /\ TakenIs("removal", Old)
     \/ run.todo = CleanR(t) /\ FileIs(None)

Within ==
  /\ intent # None /\ run.stage \in {"opening", "failed"}
  /\ ~ run.settling =>
       run.stage = "opening" /\ run.root = intent.root /\ ~ Committed(intent.root)
  /\ \/ Writes
     \/ Completes
     \/ \E t \in {Rest, Checked, Write(Old, New, Checked)} : Cleans(t)
     \/ \E f \in Files, t \in {Rest, Checked} : Restores(f, t)
     \/ \E f \in Files, t \in {CleanD(Rest)} \cup {RestoreOf(g, u) : g \in Files, u \in {Rest, Checked}} :
          TakesOut(f, t)

-----------------------------------------------------------------------------
(* Between the programs *)

UndoOps == {"putBack", "unlinkCurrent", "linkCurrent", "cacheBack", "stateBack", "settled",
            "clean", "dropJournal"}

AdvanceOps == {"record", "aside", "place", "attempt", "add", "recordCurrent", "swapCurrent",
               "state"}

CloseOps == {"clean", "dropJournal", "refresh", "reconcile", "add"}

Last(t, n) == t[Len(t) - n]

\* All steps but the last n are of ops.
Before(t, ops, n) == \A i \in DOMAIN t : i <= Len(t) - n => t[i].op \in ops

UpToDate == file # None /\ file.entry /\ Fresh(file) /\ exchange = NoFiles

Own == intent # None => intent.root = run.root

BeforeRecovery ==
  /\ run.todo = Then(Step("recoverMarketplace", None), Opening)
  /\ run.stage = "opening" /\ ~ run.settling

AfterFailure ==
  /\ run.todo # <<>> /\ Before(run.todo, UndoOps, 1)
  /\ Last(run.todo, 0) = Step("recoverMarketplace", None)
  /\ run.stage = "failed" /\ ~ Committed(run.root)

BeforeUpdate ==
  /\ Len(run.todo) >= 2 /\ Before(run.todo, UndoOps \cup {"recover"}, 2)
  /\ Last(run.todo, 1) = Step("ensure", None) /\ Last(run.todo, 0) = BeginStep
  /\ run.stage = "opening" /\ ~ run.settling /\ intent = None
  /\ Committed(run.root) =>
       \E i \in DOMAIN run.todo : run.todo[i].op \in {"recover", "dropJournal"}

BeforeBegin ==
  /\ run.todo = <<BeginStep>> /\ run.stage = "opening"
  /\ UpToDate /\ Own /\ ~ Committed(run.root)

\* What the steps of t from the n-th on are: the marker, the intent, and the rest.
Marks(t, n) ==
  /\ n + 1 \in DOMAIN t /\ t[n] = CommitStep /\ t[n + 1] = Step("dropIntent", None)
  /\ \A i \in DOMAIN t :
       /\ i < n => t[i].op \in AdvanceOps
       /\ i > n + 1 => t[i].op \in CloseOps

BeforeMarker ==
  /\ \E n \in DOMAIN run.todo : Marks(run.todo, n)
  /\ run.stage = "active" /\ UpToDate /\ Own /\ ~ Committed(run.root)

MarkerSet ==
  /\ run.todo # <<>> /\ Head(run.todo) = Step("dropIntent", None)
  /\ \A i \in DOMAIN run.todo : i > 1 => run.todo[i].op \in CloseOps
  /\ run.stage = "committed" /\ UpToDate /\ Own

AfterIntent ==
  /\ Before(run.todo, CloseOps, 0)
  /\ run.stage \in {"failed", "committed"} /\ intent = None

Between ==
  \/ BeforeRecovery \/ AfterFailure \/ BeforeUpdate \/ BeforeBegin
  \/ BeforeMarker \/ MarkerSet \/ AfterIntent

Placed == run # None => Between \/ Within

MarketInv == MarketShaped /\ Settleable /\ Listed /\ Placed
=============================================================================
