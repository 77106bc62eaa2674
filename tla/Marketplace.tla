----------------------------- MODULE Marketplace -----------------------------
(***************************************************************************)
(* The personal marketplace file and the transaction that adds the plugin  *)
(* to it (src/src/distribution-install.mjs).  The file belongs to the user,*)
(* who may save it at any moment; the installer may die between any two    *)
(* file operations, and the next one has to put things right from the      *)
(* intent and the exchange files it finds.                                 *)
(*                                                                         *)
(* A content is the number of the user's edit it stems from and whether it *)
(* has the plugin's entry.  An installer runs its `todo`, a sequence of    *)
(* steps that it works out from what it reads.                             *)
(***************************************************************************)
EXTENDS Naturals, Sequences

CONSTANTS
  Roots,     \* install roots; they share the marketplace and its lock
  None,
  MaxEdits,  \* saves of the user that are explored
  MaxFaults  \* crashes and failed operations that are explored

Contents == [edit : 0 .. MaxEdits, entry : BOOLEAN]

Partial == [edit |-> 0, entry |-> FALSE, partial |-> TRUE]

Files == {"displaced", "candidate", "removal"}

Intents ==
  [root : Roots, previous : Contents \cup {None}, expected : Contents]

ASSUME MarketplaceAssumption ==
  /\ MaxEdits \in Nat /\ MaxFaults \in Nat
  /\ None \notin Roots \cup Contents \cup {Partial} \cup Intents

VARIABLES
  file,     \* the marketplace: a content, or None
  exchange, \* the files next to it: candidate, displaced, removal
  intent,   \* the marketplace transaction on disk, or None
  journal,  \* the distribution transaction of every root, or None
  run,      \* the installer that holds the locks, or None
  edits,    \* saves of the user
  faults    \* crashes and failures so far

marketplace == <<file, exchange, intent>>

Step(op, arg) == [op |-> op, arg |-> arg]

NoFiles == [f \in Files |-> None]

MarketplaceInit ==
  /\ \E entry \in BOOLEAN : file \in {None, [edit |-> 0, entry |-> entry]}
  /\ exchange = NoFiles /\ intent = None
  /\ edits = 0 /\ faults = 0

-----------------------------------------------------------------------------
(* The installer's program *)

At(op) == run # None /\ run.todo # <<>> /\ Head(run.todo).op = op

Arg == Head(run.todo).arg

Proceed == run' = [run EXCEPT !.todo = Tail(@)]

ProceedWith(steps) == run' = [run EXCEPT !.todo = steps \o Tail(@)]

\* The program throws and the locks are released.
Throw == run' = None

Keep == UNCHANGED <<journal, edits, faults>>

-----------------------------------------------------------------------------
(* ensurePersonalMarketplace and activateMarketplaceBootstrap *)

\* writeBytesAtomically(path, new), for a path that holds old.
Replace(old, new) ==
  <<Step("candidate", new)>>
  \o (IF old = None THEN <<Step("link", None)>>
      ELSE <<Step("displace", None), Step("compare", old), Step("link", old),
             Step("rm", "displaced")>>)
  \o <<Step("rm", "candidate")>>

Ensure ==
  /\ At("ensure")
  /\ IF file # None /\ file.entry THEN Proceed /\ UNCHANGED intent
     ELSE LET new == [edit |-> IF file = None THEN edits ELSE file.edit,
                      entry |-> TRUE]
          IN  /\ intent' = [root |-> run.root, previous |-> file, expected |-> new]
              /\ ProceedWith(Replace(file, new) \o <<Step("verify", new)>>)
  /\ UNCHANGED <<file, exchange>> /\ Keep

WriteCandidate ==
  /\ At("candidate")
  /\ IF exchange["candidate"] = None
     THEN exchange' = [exchange EXCEPT !["candidate"] = Partial] /\ UNCHANGED run
     ELSE exchange' = [exchange EXCEPT !["candidate"] = Arg] /\ Proceed
  /\ UNCHANGED <<file, intent>> /\ Keep

\* An error that leaves the marketplace as the user has it: activation takes
\* its intent back; a recovery (settling) keeps it.
Withdraw ==
  /\ exchange' = [exchange EXCEPT !["candidate"] = None]
  /\ intent' = IF run.settling THEN intent ELSE None
  /\ Throw

\* rename(path, displaced), whatever is there by now.
Displace ==
  /\ At("displace")
  /\ \/ file = None /\ Withdraw /\ UNCHANGED file
     \/ /\ file # None
        /\ exchange' = [exchange EXCEPT !["displaced"] = file] /\ file' = None
        /\ Proceed /\ UNCHANGED intent
  /\ Keep

\* What was displaced is not what was expected: it is put back, unless the
\* user has saved once more; then it stays, and so does the intent.
Compare ==
  /\ At("compare")
  /\ \/ exchange["displaced"] = Arg /\ Proceed /\ UNCHANGED marketplace
     \/ /\ exchange["displaced"] # Arg /\ file = None
        /\ file' = exchange["displaced"]
        /\ exchange' = [exchange EXCEPT !["displaced"] = None, !["candidate"] = None]
        /\ intent' = IF run.settling THEN intent ELSE None
        /\ Throw
     \/ /\ exchange["displaced"] # Arg /\ file # None
        /\ exchange' = [exchange EXCEPT !["candidate"] = None]
        /\ Throw /\ UNCHANGED <<file, intent>>
  /\ Keep

\* link(candidate, path) fails when the user has saved in between; what was
\* displaced then stays where it is.
Bug_Overwrites ==
  /\ At("link")
  /\ file' = exchange["candidate"] /\ Proceed
  /\ UNCHANGED <<exchange, intent>> /\ Keep

Link ==
  /\ At("link")
  /\ \/ file = None /\ file' = exchange["candidate"] /\ Proceed
        /\ UNCHANGED <<exchange, intent>>
     \/ file # None /\ Arg = None /\ Withdraw /\ UNCHANGED file
     \/ /\ file # None /\ Arg # None
        /\ exchange' = [exchange EXCEPT !["candidate"] = None]
        /\ Throw /\ UNCHANGED <<file, intent>>
  /\ Keep

Rm ==
  /\ At("rm")
  /\ exchange' = [exchange EXCEPT ![Arg] = None] /\ Proceed
  /\ UNCHANGED <<file, intent>> /\ Keep

\* The check at the end of an activation or a rollback.
Verify ==
  /\ At("verify")
  /\ IF file = Arg THEN Proceed ELSE Throw
  /\ UNCHANGED marketplace /\ Keep

-----------------------------------------------------------------------------
(* recoverMarketplaceTransaction *)

CleanUp == <<Step("rm", "displaced"), Step("rm", "candidate"), Step("rm", "removal")>>

Refuse == <<Step("refuse", None)>>

\* removeMarketplaceIfFingerprint, restoreMarketplaceArtifact.
Take(content) ==
  <<Step("take", None), Step("compareTaken", content), Step("rm", "removal")>>

Restore(f) == <<Step("restore", f), Step("rm", f)>>

\* The exchange files that hold content, in the order they are looked at.
HoldersOf(content, found) ==
  LET holder(f) == IF found[f] = content THEN <<f>> ELSE <<>>
  IN  holder("displaced") \o holder("candidate") \o holder("removal")

\* The steps for what is found.  A committed update is completed (preserve),
\* another one is undone.
Settlement(t, found, preserve) ==
  LET good == IF preserve THEN t.expected ELSE t.previous
      bad == IF preserve THEN t.previous ELSE t.expected
      holders == HoldersOf(good, found)
      verified == IF preserve THEN <<>> ELSE <<Step("verify", good)>>
      clear == IF holders # <<>> /\ Head(holders) = "removal" THEN <<>>
               ELSE <<Step("rm", "removal")>>
  IN  IF file = good THEN CleanUp
      ELSE IF file \notin {None, bad} THEN Refuse
      ELSE IF good = None THEN <<Step("rm", "removal")>> \o Take(bad) \o CleanUp
      ELSE IF holders # <<>> /\ file = None THEN Restore(Head(holders)) \o CleanUp
      ELSE IF holders # <<>>
           THEN clear \o Take(bad) \o Restore(Head(holders)) \o CleanUp \o verified
      ELSE IF preserve THEN Refuse
      ELSE CleanUp \o Replace(file, good) \o verified

Committed(r) == journal[r] # None /\ journal[r].status = "committed"

\* Another root's update that is still open.
OwnedElsewhere(t) ==
  t.root # run.root /\ journal[t.root] # None /\ ~ Committed(t.root)

\* A candidate whose writing was cut off is removed when nothing else has
\* happened yet.
CutOff == exchange["candidate"] = Partial

Bug_RefusesCutOff(t, preserve) ==
  CutOff \/ \E f \in Files : exchange[f] \notin {None, t.previous, t.expected}

Unexplained(t, preserve) ==
  \/ \E f \in Files : exchange[f] \notin {None, Partial, t.previous, t.expected}
  \/ CutOff /\ (preserve \/ exchange["displaced"] # None \/ exchange["removal"] # None)

Found == IF CutOff THEN [exchange EXCEPT !["candidate"] = None] ELSE exchange

Recovery(t) ==
  LET preserve == Committed(t.root)
  IN  IF Unexplained(t, preserve) THEN Refuse ELSE Settlement(t, Found, preserve)

RecoverMarketplace ==
  /\ At("recoverMarketplace")
  /\ \/ intent = None /\ Proceed /\ UNCHANGED exchange
     \/ /\ intent # None
        /\ OwnedElsewhere(intent) \/ Recovery(intent) = Refuse
        /\ Throw /\ UNCHANGED exchange
     \/ /\ intent # None /\ ~ OwnedElsewhere(intent) /\ Recovery(intent) # Refuse
        /\ exchange' = Found
        /\ run' = [run EXCEPT
                     !.settling = TRUE,
                     !.todo = Recovery(intent) \o <<Step("dropIntent", None)>> \o Tail(@)]
  /\ UNCHANGED <<file, intent>> /\ Keep

\* rename(path, removal), and back when it was not the content expected.
TakeAway ==
  /\ At("take")
  /\ \/ /\ file # None /\ exchange["removal"] = None
        /\ exchange' = [exchange EXCEPT !["removal"] = file] /\ file' = None
        /\ Proceed
     \/ /\ file = None \/ exchange["removal"] # None
        /\ Throw /\ UNCHANGED <<file, exchange>>
  /\ UNCHANGED intent /\ Keep

CompareTaken ==
  /\ At("compareTaken")
  /\ \/ exchange["removal"] = Arg /\ Proceed /\ UNCHANGED <<file, exchange>>
     \/ /\ exchange["removal"] # Arg /\ file = None
        /\ file' = exchange["removal"]
        /\ exchange' = [exchange EXCEPT !["removal"] = None] /\ Throw
     \/ /\ exchange["removal"] # Arg /\ file # None
        /\ Throw /\ UNCHANGED <<file, exchange>>
  /\ UNCHANGED intent /\ Keep

RestoreFrom ==
  /\ At("restore")
  /\ IF file = None THEN file' = exchange[Arg] /\ Proceed
     ELSE Throw /\ UNCHANGED file
  /\ UNCHANGED <<exchange, intent>> /\ Keep

DropIntent ==
  /\ At("dropIntent")
  /\ intent' = None /\ run' = [run EXCEPT !.todo = Tail(@), !.settling = FALSE]
  /\ UNCHANGED <<file, exchange>> /\ Keep

MarketplaceStep ==
  \/ Ensure \/ WriteCandidate \/ Displace \/ Link \/ Rm \/ Verify
  \/ Compare \/ RecoverMarketplace \/ TakeAway \/ CompareTaken \/ RestoreFrom \/ DropIntent

-----------------------------------------------------------------------------
(* The user's editor replaces the file with what it holds. *)
Edit ==
  /\ edits < MaxEdits
  /\ edits' = edits + 1
  /\ \E entry \in BOOLEAN :
       /\ file # None => entry = file.entry
       /\ file' = [edit |-> edits + 1, entry |-> entry]
  /\ UNCHANGED <<exchange, intent, journal, run, faults>>

-----------------------------------------------------------------------------
(* What the user saved last is in the marketplace, or where a later         *)
(* installer finds it and puts it back: neither the replacement of the file *)
(* nor its recovery after a crash loses it.                                 *)
EditSurvives ==
  edits > 0 =>
    \/ file # None /\ file.edit = edits
    \/ \E f \in Files : exchange[f] # None /\ exchange[f].edit = edits

(* A recovery never refuses what an installer, cut off anywhere in an       *)
(* activation or in a recovery, has left behind: it refuses only when the   *)
(* user has saved since, and there is something of his to protect.          *)
OwnTracesAreSettled ==
  run = None /\ intent # None /\ intent.expected.edit = edits => Recovery(intent) # Refuse
=============================================================================
