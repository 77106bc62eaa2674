------------------------------- MODULE Install -------------------------------
(***************************************************************************)
(* The installation of a release (src/src/distribution-install.mjs): the   *)
(* journal of a distribution transaction, the surfaces it moves into place *)
(* one after the other, its commit, its rollback, and the recovery of what *)
(* an interrupted installer left.  The marketplace (Marketplace.tla) is    *)
(* settled around it: a journal and a marketplace intent must not tell     *)
(* different stories.                                                      *)
(*                                                                         *)
(* Only the surfaces of the root Main are followed; the other roots take   *)
(* the same steps with no surface to move.                                 *)
(***************************************************************************)
EXTENDS Marketplace

CONSTANTS
  Main,
  Releases,  \* releases that may be installed
  Earlier    \* the release that may have been installed before

Moved == {"source", "skill", "launcher"}

Places == Moved \cup {"cache", "current", "state"}

\* A place holds nothing, a release, or a link to `current`; "legacy" is a skill
\* and a launcher that an installer without a journal copied.
Known == {None, "legacy", Earlier} \cup Releases

Held == Known \cup {"link"}

Unrecorded == "unrecorded"

Journals ==
  [status : {"active", "committed"}, recorded : SUBSET Moved, existed : SUBSET Moved,
   attempted : BOOLEAN, installed : BOOLEAN, current : Held \cup {Unrecorded},
   state : Held]

ASSUME InstallAssumption ==
  /\ Main \in Roots /\ {None, "legacy", "link", Unrecorded} \cap Releases = {}
  /\ Unrecorded \notin {None, Earlier} /\ None \notin Journals

VARIABLES
  disk,    \* what every managed place holds
  backup   \* what was moved aside for a moved surface

surfaces == <<disk, backup>>

\* What the places hold when v, and nothing else, is installed.
Whole(v) ==
  [p \in Places |->
     IF v = None THEN None
     ELSE IF v = "legacy" THEN IF p \in {"skill", "launcher"} THEN v ELSE None
     ELSE IF p = "launcher" THEN "link" ELSE v]

NewJournal(previous) ==
  [status |-> "active", recorded |-> {}, existed |-> {}, attempted |-> FALSE,
   installed |-> previous["cache"] # None, current |-> Unrecorded,
   state |-> previous["state"]]

InstallInit ==
  /\ MarketplaceInit
  /\ \E v \in {None, "legacy", Earlier} : disk = Whole(v)
  /\ backup = [s \in Moved |-> None]
  /\ journal = [r \in Roots |-> None]
  /\ run = None

-----------------------------------------------------------------------------
(* The program of installDistributionWithRuntimeExclusion *)

Start(r) ==
  /\ run = None
  /\ \E release \in Releases :
       run' = [root |-> r, release |-> release, settling |-> FALSE, stage |-> "opening",
               incomplete |-> FALSE,
               todo |-> << Step("recoverMarketplace", None), Step("recover", None),
                           Step("ensure", None), Step("begin", None) >>]
  /\ UNCHANGED <<marketplace, journal, edits, faults, surfaces>>

Move(s) == <<Step("aside", s), Step("place", s)>>

OfMain(steps) == IF run.root = Main THEN steps ELSE <<>>

CleanUpSurfaces ==
  OfMain(<<Step("clean", "launcher"), Step("clean", "skill"), Step("clean", "source")>>)

\* The intent is settled while the journal that vouches for it is there.
Bug_JournalFirst ==
  CleanUpSurfaces \o <<Step("dropJournal", None), Step("dropIntent", None)>>

AfterCommit ==
  <<Step("dropIntent", None)>> \o CleanUpSurfaces \o <<Step("dropJournal", None)>>

AppServer == OfMain(<<Step("refresh", None), Step("reconcile", None)>>)

Forward ==
  OfMain(<< Step("record", "source"), Step("attempt", None), Step("add", None),
            Step("record", "skill"), Step("recordCurrent", None),
            Step("swapCurrent", None), Step("record", "launcher"),
            Step("state", None) >>)
  \o <<Step("commit", None)>> \o AfterCommit \o AppServer

\* rollbackTransaction: every step is tried, whatever happened to the others.
Rollback(j) ==
  LET back(s) == IF s \in j.recorded THEN <<Step("putBack", s)>> ELSE <<>>
  IN  back("launcher")
      \o (IF j.current = Unrecorded THEN <<>>
          ELSE <<Step("unlinkCurrent", None), Step("linkCurrent", j.current)>>)
      \o back("skill") \o back("source")
      \o (IF "source" \in j.recorded THEN <<Step("cacheBack", None)>> ELSE <<>>)
      \o OfMain(<<Step("stateBack", j.state)>>) \o <<Step("settled", None)>>

-----------------------------------------------------------------------------
(* The steps forward *)

Journal(j) == journal' = [journal EXCEPT ![run.root] = j]

Mine == journal[run.root]

KeepMarketplace == UNCHANGED <<marketplace, edits, faults>>

\* The journal is on disk before the first surface is touched.
Begin ==
  /\ At("begin")
  /\ Journal(NewJournal(disk))
  /\ run' = [run EXCEPT !.todo = Forward, !.stage = "active"]
  /\ KeepMarketplace /\ UNCHANGED surfaces

\* What a surface is to be put back to is recorded before it is moved.  A
\* launcher that already points to `current` is left alone.
Record ==
  /\ At("record")
  /\ IF Arg = "launcher" /\ disk["launcher"] = "link"
     THEN Proceed /\ UNCHANGED journal
     ELSE /\ Journal([Mine EXCEPT
                        !.recorded = @ \cup {Arg},
                        !.existed = IF disk[Arg] = None THEN @ ELSE @ \cup {Arg}])
          /\ ProceedWith(Move(Arg))
  /\ KeepMarketplace /\ UNCHANGED surfaces

Aside ==
  /\ At("aside")
  /\ IF disk[Arg] = None THEN UNCHANGED surfaces
     ELSE /\ backup' = [backup EXCEPT ![Arg] = disk[Arg]]
          /\ disk' = [disk EXCEPT ![Arg] = None]
  /\ Proceed /\ KeepMarketplace /\ UNCHANGED journal

Put(place, content) == disk' = [disk EXCEPT ![place] = content] /\ UNCHANGED backup

Place ==
  /\ At("place")
  /\ Put(Arg, IF Arg = "launcher" THEN "link" ELSE run.release)
  /\ Proceed /\ KeepMarketplace /\ UNCHANGED journal

Attempt ==
  /\ At("attempt")
  /\ Journal([Mine EXCEPT !.attempted = TRUE])
  /\ Proceed /\ KeepMarketplace /\ UNCHANGED surfaces

\* `plugin add` of the host copies the source into its cache.
Add ==
  /\ At("add")
  /\ Put("cache", disk["source"])
  /\ Proceed /\ KeepMarketplace /\ UNCHANGED journal

RecordCurrent ==
  /\ At("recordCurrent")
  /\ Journal([Mine EXCEPT !.current = disk["current"]])
  /\ Proceed /\ KeepMarketplace /\ UNCHANGED surfaces

SwapCurrent ==
  /\ At("swapCurrent")
  /\ Put("current", run.release)
  /\ Proceed /\ KeepMarketplace /\ UNCHANGED journal

WriteState ==
  /\ At("state")
  /\ Put("state", run.release)
  /\ Proceed /\ KeepMarketplace /\ UNCHANGED journal

\* The commit marker is written last.
CommitJournal ==
  /\ At("commit")
  /\ Journal([Mine EXCEPT !.status = "committed"])
  /\ run' = [run EXCEPT !.todo = Tail(@), !.stage = "committed"]
  /\ KeepMarketplace /\ UNCHANGED surfaces

Clean ==
  /\ At("clean")
  /\ backup' = [backup EXCEPT ![Arg] = None]
  /\ Proceed /\ KeepMarketplace /\ UNCHANGED <<journal, disk>>

DropJournal ==
  /\ At("dropJournal")
  /\ Journal(None)
  /\ Proceed /\ KeepMarketplace /\ UNCHANGED surfaces

\* The running app-server is asked to refresh the plugin; what it does to
\* the cache is checked, and the committed release is added once more.
Refresh ==
  /\ At("refresh")
  /\ \/ UNCHANGED <<disk, faults>>
     \/ /\ faults < MaxFaults /\ faults' = faults + 1
        /\ disk' = [disk EXCEPT !["cache"] = None]
  /\ Proceed /\ UNCHANGED <<marketplace, edits, journal, backup>>

Reconcile ==
  /\ At("reconcile")
  /\ IF disk["cache"] = run.release THEN Proceed ELSE ProceedWith(<<Step("add", None)>>)
  /\ KeepMarketplace /\ UNCHANGED <<journal, surfaces>>

Finish ==
  /\ run # None /\ run.todo = <<>>
  /\ run' = None
  /\ KeepMarketplace /\ UNCHANGED <<journal, surfaces>>

-----------------------------------------------------------------------------
(* The steps back *)

\* recoverTransaction
Bug_UndoesCommitted(j) == TRUE

MustUndo(j) == j.status = "active"

Recover ==
  /\ At("recover")
  /\ \/ Mine = None /\ Proceed
     \/ /\ Mine # None /\ ~ MustUndo(Mine)
        /\ ProceedWith(CleanUpSurfaces \o <<Step("dropJournal", None)>>)
     \/ Mine # None /\ MustUndo(Mine) /\ ProceedWith(Rollback(Mine))
  /\ KeepMarketplace /\ UNCHANGED <<journal, surfaces>>

\* A rollback that was cut off finds the backup put back already.
Bug_PutBackTwice ==
  /\ At("putBack")
  /\ \/ /\ backup[Arg] # None
        /\ disk' = [disk EXCEPT ![Arg] = backup[Arg]]
        /\ backup' = [backup EXCEPT ![Arg] = None]
        /\ Proceed
     \/ /\ backup[Arg] = None
        /\ IF Arg \in Mine.existed
           THEN run' = [run EXCEPT !.todo = Tail(@), !.incomplete = TRUE] /\ UNCHANGED surfaces
           ELSE Put(Arg, None) /\ Proceed
  /\ KeepMarketplace /\ UNCHANGED journal

\* restorePath removes what is in the way, then renames the backup.
PutBack ==
  /\ At("putBack")
  /\ \/ /\ backup[Arg] # None /\ disk[Arg] # None
        /\ Put(Arg, None) /\ UNCHANGED run
     \/ /\ backup[Arg] # None /\ disk[Arg] = None
        /\ disk' = [disk EXCEPT ![Arg] = backup[Arg]]
        /\ backup' = [backup EXCEPT ![Arg] = None]
        /\ Proceed
     \/ /\ backup[Arg] = None
        /\ IF Arg \in Mine.existed THEN UNCHANGED surfaces ELSE Put(Arg, None)
        /\ Proceed
  /\ KeepMarketplace /\ UNCHANGED journal

UnlinkCurrent ==
  /\ At("unlinkCurrent")
  /\ Put("current", None)
  /\ Proceed /\ KeepMarketplace /\ UNCHANGED journal

LinkCurrent ==
  /\ At("linkCurrent")
  /\ Put("current", Arg)
  /\ Proceed /\ KeepMarketplace /\ UNCHANGED journal

\* The plugin is added again from the restored source, or removed.
CacheBack ==
  /\ At("cacheBack")
  /\ IF Mine.installed THEN Put("cache", disk["source"])
     ELSE IF Mine.attempted THEN Put("cache", None)
     ELSE UNCHANGED surfaces
  /\ Proceed /\ KeepMarketplace /\ UNCHANGED journal

StateBack ==
  /\ At("stateBack")
  /\ Put("state", Arg)
  /\ Proceed /\ KeepMarketplace /\ UNCHANGED journal

\* An incomplete rollback keeps its journal for the next installer.
Bug_DropsIncomplete == FALSE

Incomplete == run.incomplete

Settled ==
  /\ At("settled")
  /\ IF ~ Incomplete
     THEN ProceedWith(CleanUpSurfaces \o <<Step("dropJournal", None)>>)
     ELSE IF run.stage = "failed" THEN Proceed ELSE Throw
  /\ KeepMarketplace /\ UNCHANGED <<journal, surfaces>>

-----------------------------------------------------------------------------
(* A step fails: before the journal there is only the marketplace to put     *)
(* back; after it, the transaction too; a step back that fails is noted;     *)
(* after the commit nothing is undone.                                       *)
Undoing == {"putBack", "linkCurrent", "cacheBack", "stateBack"}

Fail ==
  /\ run # None /\ run.todo # <<>> /\ faults < MaxFaults
  /\ faults' = faults + 1
  /\ LET op == Head(run.todo).op
         undone == <<Step("recoverMarketplace", None)>>
     IN \/ /\ op = "begin"
           /\ run' = [run EXCEPT !.stage = "failed", !.todo = undone]
        \/ /\ run.stage = "active"
           /\ run' = [run EXCEPT !.stage = "failed", !.todo = Rollback(Mine) \o undone]
        \/ /\ op \in Undoing
           /\ run' = [run EXCEPT !.incomplete = TRUE, !.todo = Tail(@)]
        \/ /\ run.stage = "committed" /\ op \in {"dropIntent", "add"}
           /\ run' = None
        \/ /\ run.stage = "committed" /\ op \in {"clean", "dropJournal"}
           /\ run' = [run EXCEPT !.todo = AppServer]
  /\ UNCHANGED <<marketplace, journal, edits, surfaces>>

\* The installer dies; the next one finds its locks without an owner.
Crash ==
  /\ run # None /\ faults < MaxFaults
  /\ faults' = faults + 1 /\ run' = None
  /\ UNCHANGED <<marketplace, journal, edits, surfaces>>

Forwards ==
  \/ Begin \/ Record \/ Aside \/ Place \/ Attempt \/ Add \/ RecordCurrent
  \/ SwapCurrent \/ WriteState \/ CommitJournal \/ Clean \/ DropJournal
  \/ Refresh \/ Reconcile \/ Finish

Backwards ==
  \/ Recover \/ PutBack \/ UnlinkCurrent \/ LinkCurrent \/ CacheBack
  \/ StateBack \/ Settled

Progress == (MarketplaceStep /\ UNCHANGED surfaces) \/ Forwards \/ Backwards

InstallerStep == Progress \/ Fail \/ Crash \/ (Edit /\ UNCHANGED surfaces)

installer == <<marketplace, journal, run, edits, faults, surfaces>>

\* An installer that runs goes on; a user whose installation was interrupted
\* runs the installer of every root again until it gets through.
Fairness == WF_installer(Progress) /\ \A r \in Roots : SF_installer(Start(r))

InstallSpec ==
  /\ InstallInit /\ [][InstallerStep \/ \E r \in Roots : Start(r)]_installer
  /\ Fairness

-----------------------------------------------------------------------------
(* Type invariant: among others, the marketplace is never a file whose      *)
(* writing was cut off.                                                     *)
InstallTypeOK ==
  /\ disk \in [Places -> Held] /\ backup \in [Moved -> Held]
  /\ journal \in [Roots -> Journals \cup {None}]
  /\ \A r \in Roots : journal[r] # None => journal[r].existed \subseteq journal[r].recorded
  /\ file \in Contents \cup {None} /\ intent \in Intents \cup {None}
  /\ \A f \in Files : exchange[f] \in Contents \cup {None, Partial}

(* Once no journal is left, every surface is of one and the same release    *)
(* (the cache, which the host may change behind the installer's back, is    *)
(* left out), and nothing is left aside: no cut, failure or failed rollback *)
(* step ends in a mixture.                                                  *)
AllOrNothing ==
  run = None /\ journal[Main] = None =>
    /\ \E v \in Known : \A p \in Places \ {"cache"} : disk[p] = Whole(v)[p]
    /\ \A s \in Moved : backup[s] = None

\* The release that a recovery starting now would end with.
Shown ==
  IF journal[Main] # None /\ journal[Main].status = "active" THEN journal[Main].state
  ELSE disk["state"]

(* The commit marker, and nothing else, changes which release is installed, *)
(* and when it does every surface is of that release: an installation that  *)
(* fails, is cut off, or is undone by a later installer, leaves the earlier *)
(* release; a committed one is not undone.                                  *)
CommitDecides ==
  [][Shown' # Shown =>
       /\ journal[Main]' # None /\ journal[Main]'.status = "committed"
       /\ \A p \in Places : disk'[p] = Whole(Shown')[p]]_installer

(* A release that was installed stays in the marketplace: a recovery does   *)
(* not take the entry out of it that the committed installation put in.     *)
InstalledIsListed ==
  run = None /\ intent = None /\ journal[Main] = None /\ disk["state"] \in Releases =>
    file # None /\ file.entry

(* An interrupted installation is finished or undone by the installers that *)
(* come after it, whatever the crashes and the failed steps of its rollback *)
(* have left, unless the user has saved the marketplace since.              *)
Recovers ==
  journal[Main] # None ~>
    journal[Main] = None \/ (intent # None /\ intent.expected.edit # edits)
=============================================================================
