--------------------------- MODULE WorkUnitRecord ---------------------------
(***************************************************************************)
(* The durable work-unit record (WorkUnitSpecV1) of                        *)
(* src/src/execution-store.mjs: what its validator accepts and what each   *)
(* store transition makes of it.  A transition is the set of records it    *)
(* can leave behind: the empty set when it throws.                         *)
(*                                                                         *)
(* Text fields, web, queen, kind and dependencies never change and are     *)
(* left out; of the capabilities only read-result matters here.            *)
(***************************************************************************)
EXTENDS Naturals, Sequences

CONSTANTS
  Threads,  \* native task ids
  Actions,  \* launch action ids
  None      \* the null of the JSON record

ASSUME NullAssumption == None \notin Threads \cup Actions

BindingStates == {"unbound", "launch-pending", "bound"}

Bindings ==
  [state : BindingStates, member : Threads \cup {None},
   action : Actions \cup {None}, generation : Nat \ {0}]

Entries ==
  [member : Threads, action : Actions, generation : Nat \ {0},
   replacedBy : Actions]

Records ==
  [revision : Nat \ {0}, attempt : Nat \ {0}, maxAttempts : Nat \ {0},
   required : BOOLEAN, readable : BOOLEAN,
   binding : Bindings, history : Seq(Entries)]

Unbound == [state |-> "unbound", member |-> None, action |-> None,
            generation |-> 1]

Pending(action, generation) ==
  [state |-> "launch-pending", member |-> None, action |-> action,
   generation |-> generation]

-----------------------------------------------------------------------------
(* The validator *)

\* normalizeBinding: which fields a binding state has.
ValidBinding(b) ==
  /\ b.state = "unbound" => b.member = None /\ b.action = None
  /\ b.state = "launch-pending" => b.member = None /\ b.action # None
  /\ b.state = "bound" => b.member # None /\ b.action # None

\* normalizeReplacementHistory: contiguous generations, each entry names the
\* next launch, and no member or launch action occurs twice.
Contiguous(h, b) ==
  /\ b.state = "unbound" => Len(h) = 0
  /\ b.generation = Len(h) + 1
  /\ \A i \in 1 .. Len(h) : h[i].generation = i

Chained(h, b) ==
  \A i \in 1 .. Len(h) :
    h[i].replacedBy = IF i < Len(h) THEN h[i + 1].action ELSE b.action

NothingReused(h, b) ==
  /\ \A i, j \in 1 .. Len(h) :
       i # j => h[i].member # h[j].member /\ h[i].action # h[j].action
  /\ \A i \in 1 .. Len(h) : h[i].member # b.member /\ h[i].action # b.action

ValidHistory(h, b) == Contiguous(h, b) /\ Chained(h, b) /\ NothingReused(h, b)

ValidRecord(r) ==
  /\ r \in Records
  /\ ValidBinding(r.binding)
  /\ ValidHistory(r.history, r.binding)
  /\ r.binding.generation <= r.attempt
  /\ r.attempt <= r.maxAttempts

\* assertCreatableWorkUnit
Creatable(r) == r.required => r.readable

-----------------------------------------------------------------------------
(* The transitions of ExecutionStoreV1 *)

Create(r, new) ==
  IF /\ ValidRecord(new) /\ Creatable(new)
     /\ new.binding = Unbound /\ new.history = << >>
     /\ r \in {None, new}
  THEN {new} ELSE {}

Revise(r, new, expected) ==
  IF /\ r # None /\ ValidRecord(new) /\ Creatable(new)
     /\ r.revision = expected /\ new.revision = expected + 1
     /\ new.attempt = r.attempt /\ new.binding = r.binding
     /\ new.history = r.history
  THEN {new} ELSE {}

Bug_MarkIgnoresState(r, revision, action) ==
  IF r = None \/ r.revision # revision THEN {}
  ELSE {[r EXCEPT !.binding = Pending(action, @.generation)]}

MarkLaunchPending(r, revision, action) ==
  IF r = None \/ r.revision # revision THEN {}
  ELSE IF r.binding.state = "launch-pending" /\ r.binding.action = action THEN {r}
  ELSE IF r.binding.state # "unbound" THEN {}
  ELSE {[r EXCEPT !.binding = Pending(action, @.generation)]}

Bind(r, revision, action, member) ==
  IF r = None \/ r.revision # revision \/ r.binding.action # action THEN {}
  ELSE IF r.binding.state = "bound"
       THEN {x \in {r} : x.binding.member = member}
  ELSE IF \E i \in 1 .. Len(r.history) : r.history[i].member = member THEN {}
  ELSE {[r EXCEPT !.binding = [@ EXCEPT !.state = "bound", !.member = member]]}

AdvanceAttempt(r, revision, attempt) ==
  IF /\ r # None /\ r.revision = revision /\ r.attempt = attempt
     /\ r.binding.state = "bound" /\ r.attempt < r.maxAttempts
  THEN {[r EXCEPT !.attempt = @ + 1]} ELSE {}

DetachImpossibleRequiredMember(r, revision, attempt, member) ==
  IF /\ r # None /\ r.revision = revision /\ r.attempt = attempt
     /\ r.binding.state = "bound" /\ r.binding.member = member
     /\ ~ (r.required /\ r.readable)
  THEN {[r EXCEPT !.required = FALSE]} ELSE {}

Bug_ReplaceKeepsGeneration(r, revision, attempt, action) ==
  IF /\ r # None /\ r.revision = revision /\ r.attempt = attempt
     /\ r.binding.state = "bound" /\ r.attempt < r.maxAttempts
     /\ r.binding.action # action
  THEN {[r EXCEPT
           !.attempt = @ + 1,
           !.binding = Pending(action, @.generation),
           !.history = Append(@, [member |-> r.binding.member,
                                  action |-> r.binding.action,
                                  generation |-> r.binding.generation,
                                  replacedBy |-> action])]}
  ELSE {}

\* The first branch is the replay of a replacement already begun.  That no
\* earlier launch used the action is what the validator says of the new record.
BeginReplacement(r, revision, attempt, action) ==
  IF r = None \/ r.revision # revision THEN {}
  ELSE IF /\ r.binding.state = "launch-pending" /\ r.binding.generation > 1
          /\ r.binding.action = action /\ r.attempt = attempt + 1
       THEN {r}
  ELSE IF /\ r.attempt = attempt /\ r.binding.state = "bound"
          /\ r.attempt < r.maxAttempts /\ r.binding.action # action
          /\ \A i \in 1 .. Len(r.history) : r.history[i].action # action
       THEN {[r EXCEPT
               !.attempt = @ + 1,
               !.binding = Pending(action, @.generation + 1),
               !.history = Append(@, [member |-> r.binding.member,
                                      action |-> r.binding.action,
                                      generation |-> r.binding.generation,
                                      replacedBy |-> action])]}
  ELSE {}

-----------------------------------------------------------------------------
\* What no later record takes back: revision, attempt and generation, the
\* history, and the binding of a bound generation.
Forward(r, s) ==
  /\ s # None
  /\ s.revision >= r.revision /\ s.attempt >= r.attempt
  /\ s.binding.generation >= r.binding.generation
  /\ Len(s.history) >= Len(r.history)
  /\ \A i \in 1 .. Len(r.history) : s.history[i] = r.history[i]
  /\ r.binding.state = "bound" /\ s.binding.generation = r.binding.generation
       => s.binding = r.binding
=============================================================================
