----------------------------- MODULE StoreProofs -----------------------------
(***************************************************************************)
(* What the state files rest on.                                           *)
(*                                                                         *)
(* The state lock is mutually exclusive for any number of calls in any     *)
(* number of processes, as long as no creator stalls for 30 seconds and at *)
(* most one call outlives a process that ends (none may end: any number of *)
(* calls).  MCStateLockExit shows that two surviving calls are too many.   *)
(*                                                                         *)
(* The execution store for any number of callers, tasks, actions and       *)
(* attempts: its transitions keep records valid and take nothing back, and *)
(* one instance with its mutation chain implements the atomic WorkUnit.    *)
(***************************************************************************)
EXTENDS StateLock, ExecutionStore, TLAPS

-----------------------------------------------------------------------------
(* The state lock *)

SoleSurvivor ==
  \A p \in Mortal : \A c, d \in Calls : host[c] # p /\ host[d] # p => c = d

Lost(p) == p \notin alive \/ life[p] > 0

SomeoneLost == \E p \in Procs : Lost(p)

\* A lost process was mortal and all its calls are dead, and only those.
LostInv ==
  /\ \A p \in Procs : Lost(p) => p \in Mortal
  /\ \A c \in Calls : Lost(host[c]) <=> pc[c] = "dead"

\* Owner records are written by the first life of a process.
LifeInv ==
  /\ dir # Nothing /\ dir.owner # Nothing => dir.owner.life = 0
  /\ \A c \in Calls : seen[c] # Nothing => seen[c].life = 0

\* A directory without owner.json belongs to its maker, or to no one.
MakerInv ==
  /\ \A c \in Calls :
       pc[c] \in Creating => dir # Nothing /\ dir.maker = c /\ dir.owner = Nothing
  /\ dir # Nothing /\ dir.owner = Nothing => pc[dir.maker] \in Creating \cup {"dead"}

\* Whoever found the lock abandoned had reason to: a process was lost.
EvidenceInv ==
  /\ dir # Nothing /\ dir.old => SomeoneLost
  /\ \A c \in Calls : sawOld[c] \/ pc[c] = "reclaim" => SomeoneLost

LockIInv ==
  /\ LockTypeOK
  /\ LostInv
  /\ LifeInv
  /\ MakerInv
  /\ HolderKeepsItsDirectory
  /\ EvidenceInv

(* Every step keeps the types.                                             *)
LEMMA LockTypeStep == LockTypeOK /\ [LockNext]_lockVars => LockTypeOK'
<1> SUFFICES ASSUME LockTypeOK, [LockNext]_lockVars PROVE LockTypeOK'
  OBVIOUS
<1> USE ConstantsAssumption, NothingAssumption
<1>1. ASSUME NEW c \in Calls, Acquire(c) \/ Step(c) PROVE LockTypeOK'
  <2>1. Me(c) \in OwnerRecords
    BY DEF LockTypeOK, Me, OwnerRecords
  <2>2. CASE WriteOwner(c)
    <3>1. dir' = [dir EXCEPT !.owner = Me(c)] /\ dir \in Directories
      BY <2>2 DEF WriteOwner, LockTypeOK
    <3>2. dir' \in Directories
      BY <2>1, <3>1 DEF Directories
    <3> QED
      BY <2>2, <3>2 DEF WriteOwner, LockTypeOK, Goto, PCs, Holding
  <2>3. CASE Mkdir(c)
    <3>1. [maker |-> c, owner |-> Nothing, old |-> FALSE] \in Directories
      BY DEF Directories
    <3> QED
      BY <2>3, <3>1 DEF Mkdir, LockTypeOK, Goto, PCs, Creating, Waiting
  <2>4. CASE ReadOwner(c)
    <3>1. dir # Nothing => dir.owner \in OwnerRecords \cup {Nothing}
      BY DEF LockTypeOK, Directories
    <3> QED
      BY <2>4, <3>1 DEF ReadOwner, LockTypeOK, Goto, PCs, Waiting
  <2>5. CASE Stat(c)
    <3>1. dir # Nothing => dir.old \in BOOLEAN
      BY DEF LockTypeOK, Directories
    <3> QED
      BY <2>5, <3>1 DEF Stat, LockTypeOK, Goto, PCs, Waiting
  <2>6. CASE Acquire(c) \/ Undo(c) \/ WriteOwnerFails(c) \/ Probe(c)
    BY <2>6 DEF Acquire, Undo, WriteOwnerFails, Probe, LockTypeOK, Goto, PCs,
                Creating, Waiting
  <2>7. CASE Reclaim(c) \/ Retry(c)
    BY <2>7 DEF Reclaim, Retry, LockTypeOK, Goto, PCs, Waiting
  <2>8. CASE CallbackEnds(c) \/ ReadToken(c) \/ Release(c)
    BY <2>8 DEF CallbackEnds, ReadToken, Release, LockTypeOK, Goto, PCs,
                Holding, Releasing
  <2> QED
    BY <1>1, <2>2, <2>3, <2>4, <2>5, <2>6, <2>7, <2>8 DEF Step
<1>2. ASSUME NEW p \in Procs, Exit(p) PROVE LockTypeOK'
  BY <1>2 DEF Exit, LockTypeOK, PCs
<1>3. ASSUME NEW p \in Procs, ReuseId(p) PROVE LockTypeOK'
  <2>1. life[p] + 1 \in 0 .. MaxReuses
    BY <1>3 DEF ReuseId, LockTypeOK
  <2> QED
    BY <1>3, <2>1 DEF ReuseId, LockTypeOK
<1>4. CASE Age
  <2>1. dir \in Directories /\ dir' = [dir EXCEPT !.old = TRUE]
    BY <1>4 DEF Age, LockTypeOK
  <2>2. dir' \in Directories
    BY <2>1 DEF Directories
  <2>3. stalls' \in 0 .. MaxStalls
    BY <1>4 DEF Age, LockTypeOK
  <2> QED
    BY <1>4, <2>2, <2>3 DEF Age, LockTypeOK
<1>5. CASE UNCHANGED lockVars
  BY <1>5 DEF lockVars, LockTypeOK
<1> QED
  BY <1>1, <1>2, <1>3, <1>4, <1>5 DEF LockNext

(* The variables keep their types, under no assumption but the constants'. *)
THEOREM TypeCorrect == LockSpec => []LockTypeOK
<1>1. LockInit => LockTypeOK
  BY ConstantsAssumption DEF LockInit, LockTypeOK, PCs
<1> QED
  BY <1>1, LockTypeStep, PTL DEF LockSpec

(* An owner record names the call that wrote it.                           *)
LEMMA OwnName ==
  ASSUME LockTypeOK
  PROVE  \A d \in Calls : /\ Me(d) \in OwnerRecords /\ Me(d).call = d
                          /\ Me(d) # Nothing
<1> SUFFICES ASSUME NEW d \in Calls
             PROVE  Me(d) \in OwnerRecords /\ Me(d).call = d /\ Me(d) # Nothing
  OBVIOUS
<1>1. Me(d) \in OwnerRecords /\ Me(d).call = d
  BY ConstantsAssumption DEF LockTypeOK, Me, OwnerRecords
<1> QED
  BY <1>1, NothingAssumption

LEMMA HolderNamed ==
  ASSUME LockTypeOK, HolderKeepsItsDirectory, NEW d \in Calls, pc[d] \in Holding
  PROVE  dir # Nothing /\ dir.owner # Nothing /\ dir.owner.call = d
BY OwnName DEF HolderKeepsItsDirectory

(* A call that is still running owns its directory and nobody else works   *)
(* there: the lost processes leave at most one call to judge them.         *)
LEMMA ReclaimIsAlone ==
  ASSUME SoleSurvivor, LockIInv, NEW c \in Calls, pc[c] = "reclaim",
         NEW d \in Calls, pc[d] # "dead"
  PROVE  c = d
<1>1. PICK p \in Procs : Lost(p)
  BY DEF LockIInv, EvidenceInv, SomeoneLost
<1>2. p \in Mortal
  BY <1>1 DEF LockIInv, LostInv
<1>3. host[c] # p /\ host[d] # p
  BY <1>1 DEF LockIInv, LostInv
<1> QED
  BY <1>2, <1>3 DEF SoleSurvivor

(* A dead owner is evidence of a lost process.                             *)
LEMMA AbandonedMeansLost ==
  ASSUME LockIInv, NEW c \in Calls, Abandoned(c)
  PROVE  SomeoneLost
<1> USE ConstantsAssumption
<1>1. CASE seen[c] = Nothing
  BY <1>1 DEF Abandoned, LockIInv, EvidenceInv
<1>2. CASE seen[c] # Nothing
  <2>1. seen[c] \in OwnerRecords /\ seen[c].life = 0
    BY <1>2 DEF LockIInv, LockTypeOK, LifeInv
  <2>2. host[seen[c].call] \in Procs
    BY <2>1 DEF OwnerRecords
  <2>3. life[host[seen[c].call]] \in Nat
    BY <2>2 DEF LockIInv, LockTypeOK
  <2>4. Lost(host[seen[c].call])
    BY <1>2, <2>1, <2>3 DEF Abandoned, MayOwn, Lost
  <2> QED
    BY <2>2, <2>4 DEF SomeoneLost
<1> QED
  BY <1>1, <1>2

(* Only the steps of the environment change who is lost.                   *)
LEMMA LostByEnvironment ==
  ASSUME UNCHANGED <<alive, life>>
  PROVE  /\ SomeoneLost' <=> SomeoneLost
         /\ \A p \in Procs : Lost(p)' <=> Lost(p)
BY DEF SomeoneLost, Lost

(* The invariant with its parts, initially and after every step.           *)
LEMMA LockInvInit == LockInit => LockIInv
<1> SUFFICES ASSUME LockInit PROVE LockIInv
  OBVIOUS
<1> USE ConstantsAssumption DEF LockInit
<1>1. LockTypeOK
  BY DEF LockTypeOK, PCs
<1>2. \A p \in Procs : ~ Lost(p)
  BY DEF Lost
<1>3. LostInv
  BY <1>2 DEF LostInv
<1> QED
  BY <1>1, <1>2, <1>3 DEF LockIInv, LifeInv, MakerInv, Creating, EvidenceInv,
     HolderKeepsItsDirectory, Holding, Releasing

(* A step of a call preserves the invariant.                               *)
LEMMA LockCallStep ==
  ASSUME SoleSurvivor, MaxStalls = 0, LockIInv, LockTypeOK',
         NEW c \in Calls, Acquire(c) \/ Step(c)
  PROVE  LockIInv'
<1> USE ConstantsAssumption, NothingAssumption
<1> DEFINE moves == /\ UNCHANGED <<alive, life>>
                    /\ \A d \in Calls \ {c} : pc'[d] = pc[d]
                    /\ pc[c] # "dead" /\ pc'[c] # "dead"
<1>1. moves
  BY DEF Acquire, Step, Mkdir, WriteOwner, WriteOwnerFails, Undo, ReadOwner, Stat,
         Probe, Reclaim, Retry, CallbackEnds, ReadToken, Release, Goto,
         LockIInv, LockTypeOK
<1>2. LostInv'
  <2>1. \A p \in Procs : Lost(p)' <=> Lost(p)
    BY <1>1, LostByEnvironment
  <2>2. \A d \in Calls : Lost(host[d])' <=> Lost(host[d])
    BY <2>1
  <2>3. \A d \in Calls : pc'[d] = "dead" <=> pc[d] = "dead"
    BY <1>1
  <2> QED
    BY <2>1, <2>2, <2>3 DEF LockIInv, LostInv
<1>3. life[host[c]] = 0
  BY <1>1 DEF LockIInv, LostInv, Lost, LockTypeOK
<1>4. Me(c) \in OwnerRecords /\ Me(c).life = 0 /\ Me(c).call = c
  BY <1>3 DEF Me, OwnerRecords
<1>5. \A d \in Calls : Me(d)' = Me(d)
  BY <1>1 DEF Me
<1>named. \A d \in Calls : pc[d] \in Holding =>
            dir # Nothing /\ dir.owner # Nothing /\ dir.owner.call = d
  BY HolderNamed DEF LockIInv
<1>maker. \A d \in Calls : pc[d] \in Creating =>
            dir # Nothing /\ dir.owner = Nothing /\ dir.maker = d
  BY DEF LockIInv, MakerInv
<1>still. LockTypeOK /\ (dir # Nothing => dir.maker \in Calls)
  BY DEF LockIInv, LockTypeOK, Directories
<1>6. CASE Mkdir(c)
  <2>1. CASE dir = Nothing
    <3>1. /\ dir' = [maker |-> c, owner |-> Nothing, old |-> FALSE]
          /\ dir' # Nothing
          /\ pc'[c] = "writeOwner"
          /\ UNCHANGED <<seen, sawOld>>
      <4>1. [maker |-> c, owner |-> Nothing, old |-> FALSE] \in Directories
        BY DEF Directories
      <4> QED
        BY <1>6, <2>1, <4>1, <1>still DEF Mkdir, Goto, LockTypeOK
    <3>2. \A d \in Calls \ {c} : pc[d] \notin Creating \cup Holding
      BY <2>1, <1>named, <1>maker
    <3>3. LifeInv' /\ MakerInv' /\ HolderKeepsItsDirectory'
      BY <1>1, <3>1, <3>2 DEF LockIInv, LifeInv, MakerInv, Creating, Holding,
         Releasing, HolderKeepsItsDirectory
    <3>4. EvidenceInv'
      BY <1>1, <3>1, LostByEnvironment DEF LockIInv, EvidenceInv
    <3> QED
      BY <1>2, <3>3, <3>4 DEF LockIInv
  <2>2. CASE dir # Nothing
    <3>1. dir' = dir /\ pc'[c] = "readOwner" /\ UNCHANGED <<seen, sawOld>>
      BY <1>6, <2>2 DEF Mkdir, Goto, LockIInv, LockTypeOK
    <3>2. pc[c] = "mkdir"
      BY <1>6 DEF Mkdir
    <3>3. LifeInv' /\ EvidenceInv'
      BY <1>1, <3>1, <3>2, LostByEnvironment DEF LockIInv, LifeInv, EvidenceInv
    <3>4. MakerInv' /\ HolderKeepsItsDirectory'
      BY <1>1, <1>5, <1>still, <3>1, <3>2 DEF LockIInv, MakerInv,
         HolderKeepsItsDirectory, Creating, Holding, Releasing
    <3> QED
      BY <1>2, <3>3, <3>4 DEF LockIInv
  <2> QED
    BY <2>1, <2>2
<1>7. CASE WriteOwner(c)
  <2>1. dir \in Directories /\ dir.maker = c /\ dir.owner = Nothing
    BY <1>7 DEF WriteOwner, LockIInv, LockTypeOK, MakerInv, Creating
  <2>2. /\ dir' = [dir EXCEPT !.owner = Me(c)]
        /\ pc'[c] = "callback"
        /\ UNCHANGED <<seen, sawOld>>
    BY <1>7 DEF WriteOwner, Goto, LockIInv, LockTypeOK
  <2>3. /\ dir' # Nothing /\ dir'.owner = Me(c) /\ dir'.maker = c
        /\ dir'.old = dir.old /\ dir # Nothing
    BY <1>4, <2>1, <2>2, NothingAssumption, LockTypeOK' DEF Directories, LockTypeOK, OwnerRecords
  <2>4. \A d \in Calls \ {c} : pc[d] \notin Creating \cup Holding
    BY <2>1, <1>named, <1>maker
  <2>5. LifeInv' /\ MakerInv'
    BY <1>1, <1>4, <2>2, <2>3, <2>4 DEF LockIInv, LifeInv, MakerInv, Creating
  <2>6. HolderKeepsItsDirectory'
    BY <1>1, <1>5, <2>2, <2>3, <2>4 DEF HolderKeepsItsDirectory
  <2>7. EvidenceInv'
    BY <1>1, <2>2, <2>3, LostByEnvironment DEF LockIInv, EvidenceInv
  <2> QED
    BY <1>2, <2>5, <2>6, <2>7 DEF LockIInv
<1>8. CASE Undo(c) \/ Release(c) \/ Reclaim(c)
  <2>1. dir' = Nothing /\ UNCHANGED <<seen, sawOld>>
    BY <1>8 DEF Undo, Release, Reclaim
  <2>2. pc'[c] \in {"idle", "mkdir", "retry"}
    BY <1>8 DEF Undo, Release, Reclaim, Goto, LockIInv, LockTypeOK
  <2>3. \A d \in Calls \ {c} : pc[d] \notin Creating \cup Holding
    <3>1. CASE Undo(c)
      BY <3>1, <1>named, <1>maker DEF Undo, Creating
    <3>2. CASE Release(c)
      BY <3>2, <1>named, <1>maker DEF Release, Holding, Releasing
    <3>3. CASE Reclaim(c)
      BY <3>3, ReclaimIsAlone DEF Reclaim, Creating, Holding, Releasing
    <3> QED
      BY <1>8, <3>1, <3>2, <3>3
  <2>4. LifeInv' /\ MakerInv' /\ HolderKeepsItsDirectory'
    BY <1>1, <2>1, <2>2, <2>3 DEF LockIInv, LifeInv, MakerInv, Creating, Holding,
       Releasing, HolderKeepsItsDirectory
  <2>5. EvidenceInv'
    BY <1>1, <2>1, <2>2, LostByEnvironment DEF LockIInv, EvidenceInv
  <2> QED
    BY <1>2, <2>4, <2>5 DEF LockIInv
<1>9. CASE ReadOwner(c) \/ Stat(c) \/ Probe(c) \/ Retry(c)
  <2>1. dir' = dir /\ pc[c] \in Waiting /\ pc'[c] \in Waiting \cup {"mkdir", "idle"}
    BY <1>9 DEF ReadOwner, Stat, Probe, Retry, Goto, LockIInv, LockTypeOK, Waiting
  <2>2. LifeInv'
    <3>1. \A d \in Calls : seen'[d] # Nothing => seen'[d].life = 0
      BY <1>9 DEF ReadOwner, Stat, Probe, Retry, LockIInv, LifeInv, LockTypeOK
    <3> QED
      BY <2>1, <3>1 DEF LockIInv, LifeInv
  <2>3. MakerInv' /\ HolderKeepsItsDirectory'
    BY <1>1, <1>5, <1>still, <2>1 DEF LockIInv, MakerInv, HolderKeepsItsDirectory,
       Creating, Holding, Releasing, Waiting
  <2>4. \A d \in Calls : sawOld'[d] => SomeoneLost
    BY <1>9 DEF ReadOwner, Stat, Probe, Retry, LockIInv, EvidenceInv, LockTypeOK
  <2>5. pc'[c] = "reclaim" => SomeoneLost
    BY <1>9, AbandonedMeansLost DEF ReadOwner, Stat, Probe, Retry, Goto, LockIInv,
       LockTypeOK
  <2>6. EvidenceInv'
    BY <1>1, <2>1, <2>4, <2>5, LostByEnvironment DEF LockIInv, EvidenceInv
  <2> QED
    BY <1>2, <2>2, <2>3, <2>6 DEF LockIInv
<1>10. CASE \/ Acquire(c) \/ WriteOwnerFails(c) \/ CallbackEnds(c) \/ ReadToken(c)
  <2>1. UNCHANGED <<dir, seen, sawOld>>
    BY <1>10 DEF Acquire, WriteOwnerFails, CallbackEnds, ReadToken
  <2>2. \/ pc[c] = "idle" /\ pc'[c] = "mkdir"
        \/ pc[c] \in Creating /\ pc'[c] \in Creating
        \/ pc[c] \in Holding /\ pc'[c] \in Holding \cup {"idle"}
    BY <1>10 DEF Acquire, WriteOwnerFails, CallbackEnds, ReadToken, Goto, LockIInv,
       LockTypeOK, Creating, Holding, Releasing
  <2>3. LifeInv' /\ EvidenceInv'
    BY <1>1, <2>1, <2>2, LostByEnvironment DEF LockIInv, LifeInv, EvidenceInv,
       Creating, Holding, Releasing
  <2>4. MakerInv' /\ HolderKeepsItsDirectory'
    BY <1>1, <1>5, <1>still, <2>1, <2>2 DEF LockIInv, MakerInv,
       HolderKeepsItsDirectory, Creating, Holding, Releasing
  <2> QED
    BY <1>2, <2>3, <2>4 DEF LockIInv
<1> QED
  BY <1>6, <1>7, <1>8, <1>9, <1>10 DEF Step

(* A step of the environment preserves the invariant.                      *)
LEMMA EnvironmentStep ==
  ASSUME MaxStalls = 0, LockIInv, LockTypeOK',
         (\E p \in Procs : Exit(p) \/ ReuseId(p)) \/ Age
  PROVE  LockIInv'
<1> USE ConstantsAssumption, NothingAssumption
<1>1. ASSUME NEW p \in Procs, Exit(p) PROVE LockIInv'
  <2>1. /\ alive' = alive \ {p} /\ p \in Mortal
        /\ pc' = [c \in Calls |-> IF host[c] = p THEN "dead" ELSE pc[c]]
        /\ UNCHANGED <<dir, seen, sawOld, life>>
    BY <1>1 DEF Exit
  <2>2. \A q \in Procs : Lost(q)' <=> Lost(q) \/ q = p
    BY <2>1 DEF Lost
  <2>3. LostInv' /\ SomeoneLost'
    BY <2>1, <2>2 DEF LockIInv, LostInv, SomeoneLost
  <2>4. \A c \in Calls : pc'[c] = "dead" \/ pc'[c] = pc[c]
    BY <2>1
  <2>5. \A c \in Calls : Me(c)' = Me(c)
    BY <2>1 DEF Me
  <2>6. MakerInv' /\ HolderKeepsItsDirectory'
    <3>1. dir # Nothing => dir.maker \in Calls
      BY DEF LockIInv, LockTypeOK, Directories
    <3> QED
      BY <2>1, <2>4, <2>5, <3>1 DEF LockIInv, MakerInv, HolderKeepsItsDirectory,
         Creating, Holding, Releasing
  <2> QED
    BY <2>1, <2>3, <2>6 DEF LockIInv, LifeInv, EvidenceInv
<1>2. ASSUME NEW p \in Procs, ReuseId(p) PROVE LockIInv'
  <2>1. /\ p \notin alive /\ life' = [life EXCEPT ![p] = @ + 1]
        /\ alive' = alive \cup {p}
        /\ UNCHANGED <<pc, dir, seen, sawOld>>
    BY <1>2 DEF ReuseId
  <2>2. \A q \in Procs : Lost(q)' <=> Lost(q)
    BY <2>1 DEF Lost, LockIInv, LockTypeOK
  <2>3. LostInv' /\ (SomeoneLost => SomeoneLost')
    BY <2>1, <2>2 DEF LockIInv, LostInv, SomeoneLost
  <2>4. \A c \in Calls : host[c] = p => pc[c] = "dead"
    BY <2>1 DEF LockIInv, LostInv, Lost
  <2>5. \A c \in Calls : pc[c] # "dead" => Me(c)' = Me(c)
    BY <2>1, <2>4 DEF Me, LockIInv, LockTypeOK
  <2>6. HolderKeepsItsDirectory'
    BY <2>1, <2>5 DEF LockIInv, HolderKeepsItsDirectory, Holding, Releasing
  <2> QED
    BY <2>1, <2>3, <2>6 DEF LockIInv, LifeInv, MakerInv, EvidenceInv
<1>3. CASE Age
  <2>1. /\ dir \in Directories /\ dir.owner = Nothing
        /\ dir' = [dir EXCEPT !.old = TRUE]
        /\ UNCHANGED <<pc, seen, sawOld, alive, life>>
        /\ pc[dir.maker] \notin Creating
    BY <1>3 DEF Age, LockIInv, LockTypeOK
  <2>2. dir'.maker = dir.maker /\ dir'.owner = dir.owner /\ dir' # Nothing
    BY <2>1, LockTypeOK' DEF Directories, LockTypeOK
  <2>3. dir.maker \in Calls /\ dir # Nothing
    BY <2>1 DEF Directories
  <2>4. pc[dir.maker] = "dead"
    BY <2>1, <2>3 DEF LockIInv, MakerInv
  <2>5. SomeoneLost'
    BY <2>1, <2>3, <2>4, LostByEnvironment DEF LockIInv, LostInv, SomeoneLost
  <2>6. LostInv' /\ LifeInv' /\ MakerInv' /\ HolderKeepsItsDirectory'
    BY <2>1, <2>2, <2>3, LostByEnvironment DEF LockIInv, LostInv, LifeInv, MakerInv,
       HolderKeepsItsDirectory, Me, Lost
  <2> QED
    BY <2>5, <2>6 DEF LockIInv, EvidenceInv
<1> QED
  BY <1>1, <1>2, <1>3

(* Whoever holds the lock owns the directory, so nobody else holds it.     *)
LEMMA HolderIsUnique ==
  ASSUME LockTypeOK, HolderKeepsItsDirectory PROVE MutualExclusion
BY HolderNamed DEF MutualExclusion

(* The invariant holds in every reachable state.                           *)
LEMMA Inductive ==
  ASSUME SoleSurvivor, MaxStalls = 0 PROVE LockSpec => []LockIInv
<1>1. LockIInv /\ [LockNext]_lockVars => LockIInv'
  <2> SUFFICES ASSUME LockIInv, [LockNext]_lockVars PROVE LockIInv'
    OBVIOUS
  <2>1. LockTypeOK'
    BY LockTypeStep DEF LockIInv
  <2>2. CASE UNCHANGED lockVars
    BY <2>2 DEF lockVars, LockIInv, LockTypeOK, LostInv, Lost, SomeoneLost, LifeInv,
       MakerInv, HolderKeepsItsDirectory, Me, EvidenceInv
  <2> QED
    BY <2>1, <2>2, LockCallStep, EnvironmentStep DEF LockNext
<1> QED
  BY <1>1, LockInvInit, PTL DEF LockSpec

(* withOwnedStateLock never lets two callbacks run at once, for every      *)
(* number of calls and processes, when at most one call survives a process *)
(* that ends and no creator stalls.                                        *)
THEOREM Exclusion ==
  ASSUME SoleSurvivor, MaxStalls = 0 PROVE LockSpec => []MutualExclusion
<1>1. LockIInv => MutualExclusion
  BY HolderIsUnique DEF LockIInv
<1> QED
  BY <1>1, Inductive, PTL

(* Under the same assumptions the holder's directory is never taken away.  *)
THEOREM HolderSafe ==
  ASSUME SoleSurvivor, MaxStalls = 0 PROVE LockSpec => []HolderKeepsItsDirectory
<1>1. LockIInv => HolderKeepsItsDirectory
  BY DEF LockIInv
<1> QED
  BY <1>1, Inductive, PTL

-----------------------------------------------------------------------------
(* The execution store *)

(* A record that keeps binding and history is as valid as the one before.  *)
LEMMA SameLaunch ==
  ASSUME NEW r, ValidRecord(r), NEW s \in Records,
         s.binding = r.binding, s.history = r.history,
         s.revision >= r.revision, s.attempt >= r.attempt,
         s.attempt <= s.maxAttempts
  PROVE  ValidRecord(s) /\ Forward(r, s)
<1>1. /\ r \in Records /\ r.attempt \in Nat /\ r.revision \in Nat
      /\ s.attempt \in Nat /\ r.binding.generation \in Nat
      /\ Len(r.history) \in Nat
  BY DEF ValidRecord, Records, Bindings
<1>2. /\ ValidBinding(r.binding) /\ ValidHistory(r.history, r.binding)
      /\ r.binding.generation <= r.attempt
  BY DEF ValidRecord
<1>3. ValidRecord(s)
  BY <1>1, <1>2 DEF ValidRecord
<1>4. s # None
  BY InstanceAssumption
<1> QED
  BY <1>1, <1>3, <1>4 DEF Forward

LEMMA Reflexive == ASSUME NEW r, ValidRecord(r) PROVE Forward(r, r)
<1>1. /\ r \in Records /\ r.attempt \in Nat /\ r.revision \in Nat
      /\ r.maxAttempts \in Nat /\ r.attempt <= r.maxAttempts
  BY DEF ValidRecord, Records
<1> QED
  BY <1>1, SameLaunch

(* What each transition makes of a valid record is valid and goes forward. *)
LEMMA CreateKeeps ==
  ASSUME NEW r, r # None => ValidRecord(r), NEW new, NEW s \in Create(r, new)
  PROVE  ValidRecord(s) /\ (r # None => Forward(r, s))
<1>1. s = new /\ ValidRecord(new) /\ (r # None => r = s)
  BY DEF Create
<1> QED
  BY <1>1, Reflexive

LEMMA ReviseKeeps ==
  ASSUME NEW r, ValidRecord(r), NEW new, NEW n \in Nat, NEW s \in Revise(r, new, n)
  PROVE  ValidRecord(s) /\ Forward(r, s)
<1>1. /\ s = new /\ ValidRecord(new) /\ s.revision = r.revision + 1
      /\ s.attempt = r.attempt /\ s.binding = r.binding /\ s.history = r.history
  BY DEF Revise
<1>2. /\ s \in Records /\ r.revision \in Nat /\ r.attempt \in Nat
      /\ s.attempt <= s.maxAttempts
  BY <1>1 DEF ValidRecord, Records
<1>3. s.revision >= r.revision /\ s.attempt >= r.attempt
  BY <1>1, <1>2
<1> QED
  BY <1>1, <1>2, <1>3, SameLaunch

LEMMA MarkKeeps ==
  ASSUME NEW r, ValidRecord(r), NEW n \in Nat, NEW a \in Actions,
         NEW s \in MarkLaunchPending(r, n, a)
  PROVE  ValidRecord(s) /\ Forward(r, s)
<1> USE NullAssumption
<1>1. CASE s = r
  BY <1>1, Reflexive
<1>2. CASE r.binding.state = "unbound" /\
           s = [r EXCEPT !.binding = Pending(a, @.generation)]
  <2>1. Pending(a, r.binding.generation) \in Bindings
    BY DEF Pending, Bindings, BindingStates, ValidRecord, Records
  <2>2. /\ s \in Records /\ s.history = r.history /\ s.attempt = r.attempt
        /\ s.binding = Pending(a, r.binding.generation)
        /\ s.maxAttempts = r.maxAttempts /\ s.revision = r.revision
    BY <1>2, <2>1 DEF ValidRecord, Records
  <2>3. Len(r.history) = 0 /\ r.history \in Seq(Entries)
    BY <1>2 DEF ValidRecord, ValidHistory, Contiguous, Records
  <2>4. ValidBinding(s.binding)
    BY <2>2 DEF ValidBinding, Pending
  <2>5. ValidHistory(s.history, s.binding)
    <3>1. r.binding.generation = Len(r.history) + 1
      BY DEF ValidRecord, ValidHistory, Contiguous
    <3>2. s.binding.generation = r.binding.generation
      BY <2>2 DEF Pending
    <3> QED
      BY <2>2, <2>3, <3>1, <3>2 DEF ValidHistory, Contiguous, Chained,
         NothingReused
  <2>6. /\ r.revision \in Nat /\ r.attempt \in Nat /\ Len(r.history) \in Nat
        /\ r.binding.generation \in Nat /\ s # None
        /\ s.binding.generation = r.binding.generation
    BY <2>2, InstanceAssumption DEF ValidRecord, Records, Bindings, Pending
  <2>7. ValidRecord(s)
    BY <2>2, <2>4, <2>5, <2>6 DEF ValidRecord
  <2>8. Forward(r, s)
    BY <1>2, <2>2, <2>6 DEF Forward
  <2> QED
    BY <2>7, <2>8
<1> QED
  BY <1>1, <1>2 DEF MarkLaunchPending

LEMMA BindKeeps ==
  ASSUME NEW r, ValidRecord(r), NEW n \in Nat, NEW a \in Actions,
         NEW m \in Threads, NEW s \in Bind(r, n, a, m)
  PROVE  ValidRecord(s) /\ Forward(r, s)
<1> USE NullAssumption
<1>1. CASE s = r
  BY <1>1, Reflexive
<1>2. CASE /\ r.binding.state # "bound" /\ r.binding.action = a
           /\ \A i \in 1 .. Len(r.history) : r.history[i].member # m
           /\ s = [r EXCEPT !.binding =
                     [@ EXCEPT !.state = "bound", !.member = m]]
  <2> DEFINE b == [r.binding EXCEPT !.state = "bound", !.member = m]
  <2>1. /\ b \in Bindings /\ b.state = "bound" /\ b.member = m
        /\ b.action = a /\ b.generation = r.binding.generation
    BY <1>2 DEF ValidRecord, Records, Bindings, BindingStates
  <2>2. /\ s \in Records /\ s.history = r.history /\ s.attempt = r.attempt
        /\ s.maxAttempts = r.maxAttempts /\ s.revision = r.revision
        /\ s.binding = b
    BY <1>2, <2>1 DEF ValidRecord, Records
  <2>3. ValidBinding(s.binding)
    BY <2>1, <2>2 DEF ValidBinding
  <2> HIDE DEF b
  <2>4. ValidHistory(s.history, s.binding)
    <3>1. ValidHistory(r.history, r.binding)
      BY DEF ValidRecord
    <3>2. Contiguous(s.history, s.binding)
      BY <2>1, <2>2, <3>1 DEF ValidHistory, Contiguous
    <3>3. Chained(s.history, s.binding)
      BY <1>2, <2>1, <2>2, <3>1 DEF ValidHistory, Chained
    <3>4. NothingReused(s.history, s.binding)
      BY <1>2, <2>1, <2>2, <3>1 DEF ValidHistory, NothingReused
    <3> QED
      BY <3>2, <3>3, <3>4 DEF ValidHistory
  <2>5. /\ r.revision \in Nat /\ r.attempt \in Nat /\ Len(r.history) \in Nat
        /\ r.binding.generation \in Nat /\ s # None
    BY <2>2, InstanceAssumption DEF ValidRecord, Records, Bindings
  <2>6. ValidRecord(s)
    BY <2>1, <2>2, <2>3, <2>4 DEF ValidRecord
  <2>7. Forward(r, s)
    BY <1>2, <2>1, <2>2, <2>5 DEF Forward
  <2> QED
    BY <2>6, <2>7
<1> QED
  BY <1>1, <1>2 DEF Bind

LEMMA AdvanceKeeps ==
  ASSUME NEW r, ValidRecord(r), NEW n \in Nat, NEW k \in Nat,
         NEW s \in AdvanceAttempt(r, n, k)
  PROVE  ValidRecord(s) /\ Forward(r, s)
<1>1. s = [r EXCEPT !.attempt = @ + 1] /\ r.attempt < r.maxAttempts
  BY DEF AdvanceAttempt
<1>2. /\ s \in Records /\ s.history = r.history /\ s.binding = r.binding
      /\ s.attempt = r.attempt + 1 /\ s.maxAttempts = r.maxAttempts
      /\ s.revision = r.revision
  BY <1>1 DEF ValidRecord, Records
<1>3. r.attempt \in Nat /\ r.maxAttempts \in Nat /\ r.revision \in Nat
  BY DEF ValidRecord, Records
<1>4. /\ s.revision >= r.revision /\ s.attempt >= r.attempt
      /\ s.attempt <= s.maxAttempts
  BY <1>1, <1>2, <1>3
<1> QED
  BY <1>2, <1>4, SameLaunch

LEMMA DetachKeeps ==
  ASSUME NEW r, ValidRecord(r), NEW n \in Nat, NEW k \in Nat, NEW m \in Threads,
         NEW s \in DetachImpossibleRequiredMember(r, n, k, m)
  PROVE  ValidRecord(s) /\ Forward(r, s)
<1>1. s = [r EXCEPT !.required = FALSE]
  BY DEF DetachImpossibleRequiredMember
<1>2. /\ s \in Records /\ s.history = r.history /\ s.binding = r.binding
      /\ s.attempt = r.attempt /\ s.maxAttempts = r.maxAttempts
      /\ s.revision = r.revision
  BY <1>1 DEF ValidRecord, Records
<1>3. /\ r.attempt \in Nat /\ r.maxAttempts \in Nat /\ r.revision \in Nat
      /\ r.attempt <= r.maxAttempts
  BY DEF ValidRecord, Records
<1> QED
  BY <1>2, <1>3, SameLaunch

LEMMA ReplaceKeeps ==
  ASSUME NEW r, ValidRecord(r), NEW n \in Nat, NEW k \in Nat, NEW a \in Actions,
         NEW s \in BeginReplacement(r, n, k, a)
  PROVE  ValidRecord(s) /\ Forward(r, s)
<1> USE NullAssumption
<1>1. CASE s = r
  BY <1>1, Reflexive
<1> DEFINE e == [member |-> r.binding.member, action |-> r.binding.action,
                 generation |-> r.binding.generation, replacedBy |-> a]
           h == Append(r.history, e)
           b == Pending(a, r.binding.generation + 1)
<1>2. CASE /\ r.binding.state = "bound" /\ r.attempt < r.maxAttempts
           /\ r.binding.action # a
           /\ \A i \in 1 .. Len(r.history) : r.history[i].action # a
           /\ s = [r EXCEPT !.attempt = @ + 1, !.binding = b, !.history = h]
  <2>1. r.binding \in Bindings /\ r.history \in Seq(Entries) /\ r \in Records
    BY DEF ValidRecord, Records
  <2>2. e \in Entries
    BY <1>2, <2>1 DEF Entries, Bindings, ValidRecord, ValidBinding
  <2>3. /\ h \in Seq(Entries) /\ Len(h) = Len(r.history) + 1 /\ h[Len(h)] = e
        /\ \A i \in 1 .. Len(r.history) : h[i] = r.history[i]
    BY <2>1, <2>2
  <2>4. b \in Bindings
    BY <2>1 DEF Pending, Bindings, BindingStates
  <2>5. /\ b.state = "launch-pending" /\ b.member = None /\ b.action = a
        /\ b.generation = r.binding.generation + 1
    BY DEF Pending
  <2> HIDE DEF e, h, b
  <2>6. /\ s \in Records /\ s.history = h /\ s.binding = b
        /\ s.attempt = r.attempt + 1 /\ s.maxAttempts = r.maxAttempts
        /\ s.revision = r.revision
    <3>1. h \in Seq(Entries) /\ r \in Records
      BY <2>1, <2>3
    <3>2. /\ r.attempt + 1 \in Nat \ {0} /\ r.revision \in Nat \ {0}
          /\ r.maxAttempts \in Nat \ {0} /\ r.required \in BOOLEAN
          /\ r.readable \in BOOLEAN
      BY <3>1 DEF Records
    <3>3. s = [revision |-> r.revision, attempt |-> r.attempt + 1,
               maxAttempts |-> r.maxAttempts, required |-> r.required,
               readable |-> r.readable, binding |-> b, history |-> h]
      BY <1>2, <3>1 DEF Records
    <3> QED
      BY <2>4, <3>1, <3>2, <3>3 DEF Records
  <2>7. ValidBinding(b)
    BY <2>5 DEF ValidBinding
  <2>8. /\ e.member = r.binding.member /\ e.action = r.binding.action
        /\ e.generation = r.binding.generation /\ e.replacedBy = a
    BY DEF e
  <2>9. /\ r.binding.generation = Len(r.history) + 1
        /\ \A i \in 1 .. Len(r.history) :
             r.history[i].generation = i /\ r.history[i] \in Entries
    BY <2>1 DEF ValidRecord, ValidHistory, Contiguous
  <2>10. Contiguous(h, b)
    BY <2>3, <2>5, <2>8, <2>9, <2>1 DEF Contiguous
  <2>11. Chained(h, b)
    <3>1. \A i \in 1 .. Len(r.history) : r.history[i].replacedBy =
            IF i < Len(r.history) THEN r.history[i + 1].action
            ELSE r.binding.action
      BY DEF ValidRecord, ValidHistory, Chained
    <3> SUFFICES ASSUME NEW i \in 1 .. Len(h)
                 PROVE  h[i].replacedBy =
                          IF i < Len(h) THEN h[i + 1].action ELSE b.action
      BY DEF Chained
    <3>2. CASE i = Len(h)
      BY <3>2, <2>3, <2>5, <2>8, <2>1
    <3>3. CASE i = Len(r.history)
      BY <3>1, <3>3, <2>3, <2>8, <2>1
    <3>4. CASE i < Len(r.history)
      <4>1. i \in 1 .. Len(r.history) /\ i + 1 \in 1 .. Len(r.history)
        BY <3>4, <2>1
      <4>2. h[i] = r.history[i] /\ h[i + 1] = r.history[i + 1] /\ i < Len(h)
        BY <4>1, <3>4, <2>3, <2>1
      <4> QED
        BY <3>1, <3>4, <4>1, <4>2
    <3> QED
      BY <3>2, <3>3, <3>4, <2>3, <2>1
  <2>12. NothingReused(h, b)
    <3>1. /\ \A i, j \in 1 .. Len(r.history) : i # j =>
               /\ r.history[i].member # r.history[j].member
               /\ r.history[i].action # r.history[j].action
          /\ \A i \in 1 .. Len(r.history) :
               /\ r.history[i].member # r.binding.member
               /\ r.history[i].action # r.binding.action
      BY DEF ValidRecord, ValidHistory, NothingReused
    <3>2. \A i, j \in 1 .. Len(h) :
            i # j => h[i].member # h[j].member /\ h[i].action # h[j].action
      <4> SUFFICES ASSUME NEW i \in 1 .. Len(h), NEW j \in 1 .. Len(h), i # j
                   PROVE  h[i].member # h[j].member /\ h[i].action # h[j].action
        OBVIOUS
      <4>1. Len(r.history) \in Nat
        BY <2>1
      <4>2. CASE i \in 1 .. Len(r.history) /\ j \in 1 .. Len(r.history)
        BY <4>2, <3>1, <2>3
      <4>3. CASE i \in 1 .. Len(r.history) /\ j = Len(h)
        BY <4>3, <3>1, <2>3, <2>8
      <4>4. CASE i = Len(h) /\ j \in 1 .. Len(r.history)
        BY <4>4, <3>1, <2>3, <2>8
      <4> QED
        BY <4>1, <4>2, <4>3, <4>4, <2>3
    <3>3. \A i \in 1 .. Len(h) : h[i].member \in Threads
      <4>1. \A i \in 1 .. Len(h) : h[i] \in Entries
        BY <2>3
      <4> QED
        BY <4>1 DEF Entries
    <3>4. \A i \in 1 .. Len(h) : h[i].member # b.member /\ h[i].action # b.action
      BY <1>2, <3>3, <2>1, <2>3, <2>5, <2>8
    <3> QED
      BY <3>2, <3>4 DEF NothingReused
  <2>13. ValidRecord(s)
    BY <1>2, <2>1, <2>5, <2>6, <2>7, <2>10, <2>11, <2>12 DEF ValidRecord,
       ValidHistory, Records, Bindings
  <2>14. Forward(r, s)
    <3>1. /\ r.binding.generation \in Nat /\ r.attempt \in Nat
          /\ r.revision \in Nat /\ Len(r.history) \in Nat
      BY <2>1 DEF Records, Bindings
    <3>2. s # None
      BY <2>6, InstanceAssumption
    <3> QED
      BY <3>1, <3>2, <2>3, <2>5, <2>6 DEF Forward
  <2> QED
    BY <2>13, <2>14
<1> QED
  BY <1>1, <1>2 DEF BeginReplacement

-----------------------------------------------------------------------------
(* WorkUnit is an instance of the same record definitions.                 *)
LEMMA SameValid == \A r : Unit!ValidRecord(r) <=> ValidRecord(r)
BY DEF Unit!ValidRecord, ValidRecord, Unit!Records, Records, Unit!Bindings,
   Bindings, Unit!Entries, Entries, Unit!BindingStates, BindingStates,
   Unit!ValidBinding, ValidBinding, Unit!ValidHistory, ValidHistory,
   Unit!Contiguous, Contiguous, Unit!Chained, Chained, Unit!NothingReused,
   NothingReused

LEMMA SameForward == \A r, s : Unit!Forward(r, s) <=> Forward(r, s)
BY DEF Unit!Forward, Forward

LEMMA SameCreate == \A r, new : Unit!Create(r, new) = Create(r, new)
BY SameValid DEF Unit!Create, Create, Unit!Creatable, Creatable, Unit!Unbound, Unbound

LEMMA SameRevise ==
  \A r, new, n : Unit!Revise(r, new, n) = Revise(r, new, n)
BY SameValid DEF Unit!Revise, Revise, Unit!Creatable, Creatable

LEMMA SameMark ==
  \A r, n, a : Unit!MarkLaunchPending(r, n, a) = MarkLaunchPending(r, n, a)
BY DEF Unit!MarkLaunchPending, MarkLaunchPending, Unit!Pending, Pending

LEMMA SameBind == \A r, n, a, m : Unit!Bind(r, n, a, m) = Bind(r, n, a, m)
BY DEF Unit!Bind, Bind

LEMMA SameAdvance ==
  \A r, n, k : Unit!AdvanceAttempt(r, n, k) = AdvanceAttempt(r, n, k)
BY DEF Unit!AdvanceAttempt, AdvanceAttempt

LEMMA SameDetach ==
  \A r, n, k, m : Unit!DetachImpossibleRequiredMember(r, n, k, m)
                    = DetachImpossibleRequiredMember(r, n, k, m)
BY DEF Unit!DetachImpossibleRequiredMember, DetachImpossibleRequiredMember

LEMMA SameReplace ==
  \A r, n, k, a : Unit!BeginReplacement(r, n, k, a)
                    = BeginReplacement(r, n, k, a)
BY DEF Unit!BeginReplacement, BeginReplacement, Unit!Pending, Pending

-----------------------------------------------------------------------------
(* The mutation chain: only its head reads and writes.                     *)
HeadReads == reading # {} => queue # << >> /\ reading = {Head(queue)}

IInv ==
  /\ queue \in Seq(Callers)
  /\ reading \subseteq Callers
  /\ copy \in [Callers -> Records \cup {None}]
  /\ crashes \in 0 .. MaxCrashes
  /\ HeadReads
  /\ CopyIsCurrent
  /\ FileValid

(* What a caller writes is one step of the atomic work unit, and valid.    *)
LEMMA WriteIsAtomic ==
  ASSUME IInv, NEW c \in Callers, c \in reading,
         \/ CreateCall(c) \/ ReviseCall(c) \/ MarkLaunchPendingCall(c)
         \/ BindCall(c) \/ AdvanceAttemptCall(c) \/ DetachCall(c)
         \/ BeginReplacementCall(c)
  PROVE  /\ Unit!Next
         /\ ValidRecord(file')
         /\ file # None => Forward(file, file')
<1> USE InstanceAssumption, NullAssumption
<1>1. copy[c] = file /\ (file # None => ValidRecord(file))
  BY SameValid DEF IInv, CopyIsCurrent, FileValid, Unit!RecordValid
<1>2. CASE CreateCall(c)
  <2>1. PICK new \in Specs : file' \in Create(file, new)
    BY <1>1, <1>2 DEF CreateCall, Write
  <2>2. Unit!CreateStep
    BY <2>1, SameCreate DEF Unit!CreateStep
  <2> QED
    BY <1>1, <2>1, <2>2, CreateKeeps DEF Unit!Next
<1>3. CASE ReviseCall(c)
  <2>1. PICK new \in Specs, n \in Numbers :
          file # None /\ file' \in Revise(file, Unit!Revised(file, new), n)
    BY <1>1, <1>3 DEF ReviseCall, Write
  <2>2. Unit!ReviseStep
    BY <2>1, SameRevise DEF Unit!ReviseStep
  <2> QED
    BY <1>1, <2>1, <2>2, ReviseKeeps DEF Unit!Next
<1>4. CASE MarkLaunchPendingCall(c)
  <2>1. PICK n \in Numbers, a \in Actions : file' \in MarkLaunchPending(file, n, a)
    BY <1>1, <1>4 DEF MarkLaunchPendingCall, Write
  <2>2. Unit!LaunchStep
    BY <2>1, SameMark DEF Unit!LaunchStep
  <2>3. file # None
    BY <2>1 DEF MarkLaunchPending
  <2> QED
    BY <1>1, <2>1, <2>2, <2>3, MarkKeeps DEF Unit!Next
<1>5. CASE BindCall(c)
  <2>1. PICK n \in Numbers, a \in Actions, m \in Threads :
          file' \in Bind(file, n, a, m)
    BY <1>1, <1>5 DEF BindCall, Write
  <2>2. Unit!BindStep
    BY <2>1, SameBind DEF Unit!BindStep
  <2>3. file # None
    BY <2>1 DEF Bind
  <2> QED
    BY <1>1, <2>1, <2>2, <2>3, BindKeeps DEF Unit!Next
<1>6. CASE AdvanceAttemptCall(c)
  <2>1. PICK n \in Numbers, k \in Numbers : file' \in AdvanceAttempt(file, n, k)
    BY <1>1, <1>6 DEF AdvanceAttemptCall, Write
  <2>2. Unit!AdvanceStep
    BY <2>1, SameAdvance DEF Unit!AdvanceStep
  <2>3. file # None
    BY <2>1 DEF AdvanceAttempt
  <2> QED
    BY <1>1, <2>1, <2>2, <2>3, AdvanceKeeps DEF Unit!Next
<1>7. CASE DetachCall(c)
  <2>1. PICK n \in Numbers, k \in Numbers, m \in Threads :
          file' \in DetachImpossibleRequiredMember(file, n, k, m)
    BY <1>1, <1>7 DEF DetachCall, Write
  <2>2. Unit!DetachStep
    BY <2>1, SameDetach DEF Unit!DetachStep
  <2>3. file # None
    BY <2>1 DEF DetachImpossibleRequiredMember
  <2> QED
    BY <1>1, <2>1, <2>2, <2>3, DetachKeeps DEF Unit!Next
<1>8. CASE BeginReplacementCall(c)
  <2>1. PICK n \in Numbers, k \in Numbers, a \in Actions :
          file' \in BeginReplacement(file, n, k, a)
    BY <1>1, <1>8 DEF BeginReplacementCall, Write
  <2>2. Unit!ReplaceStep
    BY <2>1, SameReplace DEF Unit!ReplaceStep
  <2>3. file # None
    BY <2>1 DEF BeginReplacement
  <2> QED
    BY <1>1, <2>1, <2>2, <2>3, ReplaceKeeps DEF Unit!Next
<1> QED
  BY <1>2, <1>3, <1>4, <1>5, <1>6, <1>7, <1>8

(* Every call of the store that writes settles the head of the chain.      *)
WritingCall(c) ==
  \/ CreateCall(c) \/ ReviseCall(c) \/ MarkLaunchPendingCall(c)
  \/ BindCall(c) \/ AdvanceAttemptCall(c) \/ DetachCall(c)
  \/ BeginReplacementCall(c)

LEMMA WritesSettle ==
  ASSUME NEW c \in Callers, WritingCall(c) PROVE Settle(c)
BY DEF WritingCall, CreateCall, ReviseCall, MarkLaunchPendingCall, BindCall,
   AdvanceAttemptCall, DetachCall, BeginReplacementCall, Write

LEMMA SettleKeepsTheChain ==
  ASSUME IInv, NEW c \in Callers, Settle(c), FileValid'
  PROVE  IInv'
<1>1. reading = {c} /\ queue # << >> /\ Head(queue) = c
  BY DEF Settle, IInv, HeadReads
<1>2. reading' = {} /\ queue' \in Seq(Callers)
  BY <1>1 DEF Settle, IInv
<1>3. copy' \in [Callers -> Records \cup {None}] /\ crashes' = crashes
  BY DEF Settle, IInv
<1> QED
  BY <1>2, <1>3 DEF IInv, HeadReads, CopyIsCurrent

(* Every step preserves the invariant and is a step of WorkUnit.           *)
LEMMA StepIsAtomic ==
  ASSUME IInv, [Next]_vars
  PROVE  /\ IInv'
         /\ [Unit!Next]_file
         /\ file # None => file' = file \/ Forward(file, file')
<1> USE InstanceAssumption
<1>1. ASSUME NEW c \in Callers, Call(c)
      PROVE  IInv' /\ file' = file
  <2>1. /\ queue' = Append(queue, c) /\ queue \in Seq(Callers)
        /\ UNCHANGED <<file, reading, copy, crashes>>
    BY <1>1 DEF Call, IInv
  <2>2. queue' \in Seq(Callers)
    BY <2>1
  <2>3. queue # << >> => queue' # << >> /\ Head(queue') = Head(queue)
    BY <2>1
  <2>4. FileValid' /\ CopyIsCurrent'
    BY <2>1 DEF IInv, FileValid, Unit!RecordValid, CopyIsCurrent
  <2> QED
    BY <2>1, <2>2, <2>3, <2>4 DEF IInv, HeadReads
<1>2. ASSUME NEW c \in Callers, Read(c)
      PROVE  IInv' /\ file' = file
  <2>1. reading = {} /\ reading' = {c}
    BY <1>2 DEF Read, Turn, IInv, HeadReads
  <2>2. file \in Records \cup {None}
    BY SameValid DEF IInv, FileValid, Unit!RecordValid, ValidRecord
  <2>3. /\ copy' = [copy EXCEPT ![c] = file] /\ queue' = queue
        /\ file' = file /\ crashes' = crashes
        /\ queue # << >> /\ Head(queue) = c
    BY <1>2 DEF Read, Turn
  <2>4. FileValid'
    BY <2>3 DEF IInv, FileValid, Unit!RecordValid
  <2> QED
    BY <2>1, <2>2, <2>3, <2>4 DEF IInv, HeadReads, CopyIsCurrent
<1>3. ASSUME NEW c \in Callers, Throw(c)
      PROVE  IInv' /\ file' = file
  <2>1. Settle(c) /\ file' = file
    BY <1>3 DEF Throw
  <2>2. FileValid'
    BY <2>1 DEF IInv, FileValid, Unit!RecordValid
  <2> QED
    BY <2>1, <2>2, SettleKeepsTheChain
<1>4. ASSUME NEW c \in Callers, WritingCall(c)
      PROVE  IInv' /\ Unit!Next /\ (file # None => Forward(file, file'))
  <2>1. Settle(c) /\ c \in reading
    BY <1>4, WritesSettle DEF Settle
  <2>2. /\ Unit!Next /\ ValidRecord(file')
        /\ file # None => Forward(file, file')
    BY <1>4, <2>1, WriteIsAtomic DEF WritingCall
  <2>3. FileValid'
    BY <2>2, SameValid DEF FileValid, Unit!RecordValid
  <2> QED
    BY <2>1, <2>2, <2>3, SettleKeepsTheChain
<1>5. CASE Crash
  <2>1. FileValid'
    BY <1>5 DEF Crash, IInv, FileValid, Unit!RecordValid
  <2>2. crashes' \in 0 .. MaxCrashes
    BY <1>5 DEF Crash, IInv
  <2> QED
    BY <1>5, <2>1, <2>2 DEF Crash, IInv, HeadReads, CopyIsCurrent
<1>6. CASE UNCHANGED vars
  BY <1>6 DEF vars, IInv, HeadReads, CopyIsCurrent, FileValid, Unit!RecordValid
<1> QED
  BY <1>1, <1>2, <1>3, <1>4, <1>5, <1>6 DEF Next, WritingCall, Crash, vars

LEMMA IInvInit == Init => IInv /\ Unit!Init
<1> SUFFICES ASSUME Init PROVE IInv /\ Unit!Init
  OBVIOUS
<1>1. FileValid
  BY InstanceAssumption, SameValid DEF Init, FileValid, Unit!RecordValid
<1>2. 0 \in 0 .. MaxCrashes
  BY InstanceAssumption
<1> QED
  BY <1>1, <1>2 DEF Init, IInv, HeadReads, CopyIsCurrent, Unit!Init

(* The file always holds a record the validator accepts (or none), for     *)
(* every number of callers, whatever they ask and whenever the process     *)
(* stops: no transition of the store produces a malformed record.          *)
THEOREM StoredRecordIsValid == Spec => []FileValid
<1>1. IInv => FileValid
  BY DEF IInv
<1> QED
  BY <1>1, IInvInit, StepIsAtomic, PTL DEF Spec

(* No mutation works on a stale copy: the chain closes the window between  *)
(* read and rename.                                                        *)
THEOREM NoStaleCopy == Spec => []CopyIsCurrent
<1>1. IInv => CopyIsCurrent
  BY DEF IInv
<1> QED
  BY <1>1, IInvInit, StepIsAtomic, PTL DEF Spec

(* The store implements the atomic work unit.                              *)
THEOREM StoreIsAtomic == Spec => AtomicMutations
<1> QED
  BY IInvInit, StepIsAtomic, PTL DEF Spec, AtomicMutations, Unit!Spec

(* Revisions, attempts, generations, histories and bound members are never *)
(* taken back.                                                             *)
THEOREM StoreGoesForward == Spec => NothingTakenBack
<1>1. IInv /\ [Next]_vars => [file # None => Unit!Forward(file, file')]_file
  BY StepIsAtomic, SameForward
<1> QED
  BY <1>1, IInvInit, StepIsAtomic, PTL DEF Spec, NothingTakenBack,
     Unit!NothingTakenBack
=============================================================================
