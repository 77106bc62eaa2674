--------------------------- MODULE InstallInvariant ---------------------------
(***************************************************************************)
(* Why an installation ends as a whole: the inductive invariant of         *)
(* Install.  It says which release the surfaces of Main are of, or would   *)
(* go back to, and relates them and the journal to what is left of the     *)
(* program of the installer that runs, or that was cut off.  A program is  *)
(* followed by the set of its steps that are not about the marketplace;    *)
(* their order is always the same one, that of Rank.                       *)
(***************************************************************************)
EXTENDS Install

-----------------------------------------------------------------------------
(* The installation of a release: programs *)

\* The steps that only touch the marketplace.
MarketOps ==
  {"ensure", "candidate", "displace", "compare", "link", "rm", "verify",
   "recoverMarketplace", "refuse", "take", "compareTaken", "restore", "dropIntent"}

\* The place of a step among those of a program that are not about the
\* marketplace.
Rank(x) ==
  CASE x.op = "recover" -> 1
    [] x.op = "putBack" /\ x.arg = "launcher" -> 2
    [] x.op = "unlinkCurrent" -> 3
    [] x.op = "linkCurrent" -> 4
    [] x.op = "putBack" /\ x.arg = "skill" -> 5
    [] x.op = "putBack" /\ x.arg = "source" -> 6
    [] x.op = "cacheBack" -> 7
    [] x.op = "stateBack" -> 8
    [] x.op = "settled" -> 9
    [] x.op = "record" /\ x.arg = "source" -> 10
    [] x.op = "aside" /\ x.arg = "source" -> 11
    [] x.op = "place" /\ x.arg = "source" -> 12
    [] x.op = "attempt" -> 13
    [] x.op = "add" -> 14
    [] x.op = "record" /\ x.arg = "skill" -> 15
    [] x.op = "aside" /\ x.arg = "skill" -> 16
    [] x.op = "place" /\ x.arg = "skill" -> 17
    [] x.op = "recordCurrent" -> 18
    [] x.op = "swapCurrent" -> 19
    [] x.op = "record" /\ x.arg = "launcher" -> 20
    [] x.op = "aside" /\ x.arg = "launcher" -> 21
    [] x.op = "place" /\ x.arg = "launcher" -> 22
    [] x.op = "state" -> 23
    [] x.op = "commit" -> 24
    [] x.op = "clean" /\ x.arg = "launcher" -> 25
    [] x.op = "clean" /\ x.arg = "skill" -> 26
    [] x.op = "clean" /\ x.arg = "source" -> 27
    [] x.op = "dropJournal" -> 28
    [] x.op = "begin" -> 29
    [] x.op = "refresh" -> 30
    [] x.op = "reconcile" -> 31
    [] OTHER -> 0

IsSeq(t) == t \in Seq({t[i] : i \in DOMAIN t})

Work(t) == {t[i] : i \in {k \in DOMAIN t : t[k].op \notin MarketOps}}

Ordered(t) ==
  \A i, j \in DOMAIN t :
    i < j /\ t[i].op \notin MarketOps /\ t[j].op \notin MarketOps =>
      Rank(t[i]) < Rank(t[j])

\* t is a program whose steps, apart from those of the marketplace, are W.
Program(t, W) == IsSeq(t) /\ Ordered(t) /\ Work(t) = W

-----------------------------------------------------------------------------
(* The installation of a release: what is on disk *)

RunFields == {"root", "release", "settling", "stage", "incomplete", "todo"}

InstallShaped ==
  /\ disk \in [Places -> Held] /\ backup \in [Moved -> Held]
  /\ journal \in [Roots -> Journals \cup {None}]
  /\ \A r \in Roots : journal[r] # None => journal[r].existed \subseteq journal[r].recorded
  /\ run # None =>
       /\ DOMAIN run = RunFields /\ run.root \in Roots /\ run.release \in Releases
       /\ Program(run.todo, Work(run.todo))

BeginStep == Step("begin", None)

CommitStep == Step("commit", None)

DropStep == Step("dropJournal", None)

\* The works of an installer of another root, which has no surface to move.
OtherWorks ==
  {{Step("recover", None), BeginStep}}
  \cup (SUBSET {Step("settled", None), BeginStep}) \cup (SUBSET {DropStep, BeginStep})

OtherMode(stage, W, j) ==
  IF stage = "active" THEN W = {CommitStep, DropStep} /\ j # None ELSE W \in OtherWorks

OthersMoveNothing ==
  /\ \A r \in Roots \ {Main} : journal[r] # None =>
       journal[r].recorded = {} /\ journal[r].current = Unrecorded
  /\ run # None /\ run.root # Main =>
       OtherMode(run.stage, Work(run.todo), journal[run.root])

Stands(v, d) == \A p \in Places \ {"cache"} : d[p] = Whole(v)[p]

Clear(b) == \A s \in Moved : b[s] = None

\* A rollback of j leaves at s what v has there.
Restorable(s, v, j, d, b) ==
  IF s \notin j.recorded THEN d[s] = Whole(v)[s] /\ b[s] = None
  ELSE /\ s \in j.existed <=> Whole(v)[s] # None
       /\ b[s] = None /\ s \in j.existed => d[s] = Whole(v)[s]
       /\ b[s] # None => s \in j.existed /\ b[s] = Whole(v)[s]

Undoable(v, j, d, b) ==
  /\ \A s \in Moved : Restorable(s, v, j, d, b)
  /\ IF j.current = Unrecorded THEN d["current"] = Whole(v)["current"]
     ELSE j.current = Whole(v)["current"]
  /\ j.state = Whole(v)["state"]

Active(j) == j # None /\ j.status = "active"

\* The release that the surfaces are of, or that they go back to, is v.
Rests(v, j, d, b) ==
  IF Active(j) THEN Undoable(v, j, d, b) ELSE Stands(v, d) /\ (j = None => Clear(b))

-----------------------------------------------------------------------------
(* How far the installer of Main is: its stage, whether its rollback is    *)
(* incomplete, its release, and its work W.                                *)

Cleaning == {Step("clean", s) : s \in Moved}

Closing == {Step("refresh", None), Step("reconcile", None)}

AfterMarker == Cleaning \cup {DropStep} \cup Closing

Advance ==
  {Step("record", s) : s \in Moved} \cup {Step("aside", s) : s \in Moved}
  \cup {Step("place", s) : s \in Moved}
  \cup {Step(op, None) : op \in {"attempt", "add", "recordCurrent", "swapCurrent", "state"}}

Undo(j) ==
  {Step("putBack", s) : s \in j.recorded}
  \cup (IF j.current = Unrecorded THEN {}
        ELSE {Step("unlinkCurrent", None), Step("linkCurrent", j.current)})
  \cup {Step("cacheBack", None), Step("stateBack", j.state), Step("settled", None)}

Opens(stage, W) == stage = "opening" /\ W = {Step("recover", None), BeginStep}

\* Going forward every surface is as it was, on its way, or of the release.
Reached(s, release, W, j, d, b) ==
  /\ Step("record", s) \in W => s \notin j.recorded
  /\ Step("aside", s) \in W =>
       /\ s \in j.recorded /\ b[s] = None /\ Step("place", s) \in W
       /\ s \in j.existed <=> d[s] # None
  /\ Step("place", s) \in W /\ Step("aside", s) \notin W =>
       s \in j.recorded /\ (b[s] # None \/ s \notin j.existed)
  /\ Step("record", s) \notin W /\ Step("place", s) \notin W => d[s] = Whole(release)[s]

\* The same for the places that are not moved aside.
Written(release, W, j, d) ==
  /\ Step("recordCurrent", None) \in W => j.current = Unrecorded /\ Step("swapCurrent", None) \in W
  /\ IF Step("swapCurrent", None) \in W
     THEN Step("recordCurrent", None) \notin W => j.current # Unrecorded
     ELSE d["current"] = release
  /\ Step("add", None) \notin W => d["cache"] = release
  /\ Step("state", None) \notin W => d["state"] = release

Advances(stage, release, W, j, d, b) ==
  /\ stage = "active" /\ Active(j)
  /\ CommitStep \in W /\ AfterMarker \subseteq W
  /\ W \subseteq Advance \cup {CommitStep} \cup AfterMarker
  /\ \A s \in Moved : Reached(s, release, W, j, d, b)
  /\ Written(release, W, j, d)

\* Going back every surface is back, or its step is still to come.
Back(W, j, d, b) ==
  /\ \A s \in j.recorded :
       Step("putBack", s) \in W \/ (b[s] = None /\ (s \notin j.existed => d[s] = None))
  /\ j.current # Unrecorded =>
       Step("linkCurrent", j.current) \in W
       \/ (d["current"] = j.current /\ Step("unlinkCurrent", None) \notin W)
  /\ Step("stateBack", j.state) \in W \/ d["state"] = j.state

Undoes(stage, incomplete, W, j, d, b) ==
  /\ stage \in {"opening", "failed"} /\ Active(j)
  /\ Step("settled", None) \in W /\ W \subseteq Undo(j) \cup {BeginStep}
  /\ BeginStep \in W => stage = "opening"
  /\ ~ incomplete => Back(W, j, d, b)

Clears(v, stage, W, j, d, b) ==
  /\ stage \in {"opening", "failed", "committed"} /\ j # None
  /\ DropStep \in W /\ W \subseteq AfterMarker \cup {BeginStep}
  /\ BeginStep \in W => stage = "opening"
  /\ Stands(v, d) /\ \A s \in Moved : b[s] = None \/ Step("clean", s) \in W

Ends(stage, W, j) ==
  /\ stage \in {"opening", "failed", "committed"}
  /\ W \subseteq {BeginStep, Step("add", None)} \cup Closing
  /\ BeginStep \in W => stage = "opening" /\ j = None

Mode(v, stage, release, incomplete, W, j, d, b) ==
  \/ Opens(stage, W)
  \/ Advances(stage, release, W, j, d, b)
  \/ Undoes(stage, incomplete, W, j, d, b)
  \/ Clears(v, stage, W, j, d, b)
  \/ Ends(stage, W, j)

Underway(v) ==
  run # None /\ run.root = Main =>
    Mode(v, run.stage, run.release, run.incomplete, Work(run.todo), journal[Main], disk, backup)

Transaction == \E v \in Known : Rests(v, journal[Main], disk, backup) /\ Underway(v)

InstallInv == InstallShaped /\ OthersMoveNothing /\ Transaction
=============================================================================
