------------------------------- MODULE PlanRun -------------------------------
(***************************************************************************)
(* The plan-run record of src/src/plan-run-store.mjs and what the store    *)
(* makes of it.  A transition is the set of records it can leave behind:   *)
(* the empty set when it throws.                                           *)
(*                                                                         *)
(* A record is abstracted to its form and its progress.  Queen, digests of *)
(* the plan and lineage never change.  "old" is a record written before    *)
(* web identities existed (no identity, undecorated titles, no plan),      *)
(* "planless" one before the plan was kept, "current" what is written now. *)
(***************************************************************************)
EXTENDS Naturals, FiniteSets

CONSTANTS
  Slices,     \* the slices of the plan, ids of their work units as well
  Kind,       \* lifecycle of a slice: "spinoff" or "subagent"
  WaveOf,     \* index of the wave a slice is in
  DependsOn   \* the slices a slice depends on

ASSUME PlanAssumption ==
  /\ Kind \in [Slices -> {"spinoff", "subagent"}]
  /\ WaveOf \in [Slices -> Nat \ {0}]
  /\ DependsOn \in [Slices -> SUBSET Slices]
  /\ \A s \in Slices : \A d \in DependsOn[s] : WaveOf[d] < WaveOf[s]

Waves == {WaveOf[s] : s \in Slices}

Members(w) == {s \in Slices : WaveOf[s] = w}

Spinoffs(w) == {s \in Members(w) : Kind[s] = "spinoff"}

Durable == \E s \in Slices : Kind[s] = "spinoff"

Forms == IF Durable THEN {"old", "planless", "current"} ELSE {"planless", "current"}

Runs == [form : Forms, verified : SUBSET Waves, cleaned : SUBSET Waves]

\* Old titles, hence another digest of every wave contract.
Digest(r) == IF r.form = "old" THEN "old" ELSE "current"

HasWebIdentity(r) == Durable /\ r.form # "old"

HasPlan(r) == r.form = "current"

\* createPlanRunV1
New == [form |-> "current", verified |-> {}, cleaned |-> {}]

-----------------------------------------------------------------------------
(* PlanRunStoreV1.create *)

\* legacyRecordCanAdoptWebIdentity: "old".  legacyRecordCanAdoptTitleGrammar
\* asks only that the titles render to the current ones, which current titles
\* do: with a web identity every replay of create is an adoption.
\* legacyRecordCanAdoptPlanContract: the plan is missing.
CanAdopt(r) == Durable \/ ~ HasPlan(r)

Adopt(r) == [New EXCEPT !.verified = r.verified, !.cleaned = r.cleaned]

-----------------------------------------------------------------------------
(* requireWave, markWaveVerified, markWaveCleaned *)

RequireWave(r, w, digest) == w \in Waves /\ digest = Digest(r)

MarkVerified(r, w, digest) ==
  IF ~ RequireWave(r, w, digest) THEN {}
  ELSE IF w \in r.verified THEN {r}
  ELSE IF w # Cardinality(r.verified) + 1 THEN {}
  ELSE {[r EXCEPT !.verified = @ \cup {w}]}

MarkCleaned(r, w, digest) ==
  IF ~ RequireWave(r, w, digest) THEN {}
  ELSE IF w \in r.cleaned THEN {r}
  ELSE IF \/ w \notin r.verified \/ Spinoffs(w) = {}
          \/ \E v \in r.verified \ r.cleaned : v < w /\ Spinoffs(v) # {}
       THEN {}
  ELSE {[r EXCEPT !.cleaned = @ \cup {w}]}

-----------------------------------------------------------------------------
(* What the validator and the order of the marks make of every record.     *)
Contiguous(r) == \A w \in r.verified : \A v \in Waves : v < w => v \in r.verified

CleanedInOrder(r) ==
  /\ r.cleaned \subseteq r.verified
  /\ \A w \in r.cleaned :
       /\ Spinoffs(w) # {}
       /\ \A v \in Waves : v < w /\ Spinoffs(v) # {} => v \in r.cleaned

ValidRun(r) == r \in Runs /\ Contiguous(r) /\ CleanedInOrder(r)
=============================================================================
