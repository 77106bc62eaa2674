---------------------------- MODULE LaunchProofs ----------------------------
(***************************************************************************)
(* The launch of one work unit for any number of calls, attempts, tasks    *)
(* and losses: one native task at most, and no lost update of the record.  *)
(***************************************************************************)
EXTENDS Launch, TLAPS

\* A record of this unit: its one revision, its first generation.
UnitRecord(r) ==
  /\ r \in Records
  /\ r.revision = 1 /\ r.maxAttempts = MaxAttempt /\ r.attempt <= MaxAttempt
  /\ r.required /\ r.readable
  /\ r.history = << >> /\ r.binding.generation = 1
  /\ ValidBinding(r.binding)

State(r) == r.binding.state

\* Until the unit is marked there is nothing to launch with.
Virgin == file = None \/ State(file) = "unbound"

Typed ==
  /\ file = None \/ UnitRecord(file)
  /\ lock \in Calls \cup {None}
  /\ pc \in [Calls -> PCs]
  /\ request \in [Calls -> Requests]
  /\ copy \in [Calls -> Records \cup {None}]
  /\ newlyPending \in [Calls -> BOOLEAN]
  /\ joiner = None \/ UnitRecord(joiner)
  /\ effects \subseteq Effects
  /\ receipts \subseteq Receipts
  /\ tasks \subseteq Threads
  /\ losses \in 0 .. MaxLosses

\* Between the lock and the answer a call holds the lock.
LockInv == \A c \in Calls : pc[c] \in PCs \ {"idle", "wait"} => lock = c

\* A copy of the lock's holder is the file; once the unit is bound the join
\* adapter may advance the attempt, and nothing else.
Current(r) ==
  /\ r # None /\ file # None
  /\ IF State(r) = "bound" THEN State(file) = "bound" /\ file.binding = r.binding
     ELSE file = r

CopyInv ==
  \A c \in Calls :
    /\ pc[c] \in {"create", "createWrite"} => file = None
    /\ pc[c] = "createWrite" => copy[c] = None
    /\ pc[c] \in {"check", "mark", "markWrite", "bind", "bindWrite", "answer"}
         => UnitRecord(copy[c]) /\ Current(copy[c])
    /\ pc[c] \in {"mark", "markWrite"} => State(copy[c]) = "unbound"
    /\ pc[c] \in {"bind", "bindWrite"} =>
         State(copy[c]) # "unbound" /\ request[c].member # None
    /\ pc[c] = "answer" => State(copy[c]) # "unbound"

\* What the join adapter has read is the file, when it will write.
JoinInv == joiner # None /\ State(joiner) = "bound" => file = joiner

Creates == {e \in effects : e.type = "create"}

\* The right to create a task passes from the call that marked the unit to the
\* effect of its answer and from there to the task.
RightInv ==
  /\ Virgin => /\ effects = {} /\ tasks = {}
               /\ \A c \in Calls : ~ newlyPending[c]
  /\ \A c \in Calls : newlyPending[c] =>
       pc[c] = "answer" /\ tasks = {} /\ Creates = {}
  /\ Creates # {} => tasks = {}
  /\ \A d, e \in Creates : d = e
  /\ AtMostOneTask

\* Whoever names a task names one that was created.
NamedInv ==
  /\ \A r \in receipts : r.member \in tasks
  /\ \A c \in Calls : request[c].member # None => request[c].member \in tasks

IInv == Typed /\ LockInv /\ CopyInv /\ JoinInv /\ RightInv /\ NamedInv

-----------------------------------------------------------------------------
(* What the transitions make of the record of this unit.                   *)

LEMMA UnitRecordIsValid ==
  ASSUME NEW r, UnitRecord(r) PROVE ValidRecord(r) /\ r # None
<1>1. Len(r.history) = 0 /\ r.attempt \in Nat \ {0} /\ r.history = << >>
  BY DEF UnitRecord, Records
<1>2. ValidHistory(r.history, r.binding)
  BY <1>1 DEF UnitRecord, ValidHistory, Contiguous, Chained, NothingReused
<1> QED
  BY <1>1, <1>2, LaunchAssumption DEF UnitRecord, ValidRecord

LEMMA NewRecord ==
  ASSUME NEW k \in 1 .. MaxAttempt
  PROVE  LET r == [Definition EXCEPT !.attempt = k]
         IN  /\ UnitRecord(r) /\ Creatable(r) /\ r.attempt = k
             /\ r.binding = Unbound /\ State(r) = "unbound" /\ r.history = << >>
<1> DEFINE r == [Definition EXCEPT !.attempt = k]
<1>1. Unbound \in Bindings
  BY DEF Unbound, Bindings, BindingStates
<1>2. MaxAttempt \in Nat \ {0} /\ k \in Nat \ {0} /\ k <= MaxAttempt
  BY LaunchAssumption
<1>3. Definition \in Records
  BY <1>1, <1>2 DEF Definition, Records
<1>4. /\ r \in Records /\ r.attempt = k /\ r.binding = Unbound
      /\ r.revision = 1 /\ r.maxAttempts = MaxAttempt /\ r.required
      /\ r.readable /\ r.history = << >>
  BY <1>2, <1>3 DEF Definition, Records
<1>5. ValidBinding(Unbound) /\ Unbound.generation = 1 /\ Unbound.state = "unbound"
  BY DEF ValidBinding, Unbound
<1> QED
  BY <1>2, <1>4, <1>5 DEF UnitRecord, Creatable, State

LEMMA MarkedRecord ==
  ASSUME NEW r, UnitRecord(r), State(r) = "unbound", NEW a \in Actions
  PROVE  LET s == [r EXCEPT !.binding = Pending(a, @.generation)]
         IN  /\ MarkLaunchPending(r, 1, a) = {s}
             /\ UnitRecord(s) /\ State(s) = "launch-pending"
             /\ s.attempt = r.attempt /\ s # r
<1> DEFINE s == [r EXCEPT !.binding = Pending(a, @.generation)]
<1>1. Pending(a, 1) \in Bindings /\ ValidBinding(Pending(a, 1))
  BY NullAssumption DEF Pending, Bindings, BindingStates, ValidBinding
<1>2. /\ s \in Records /\ s.binding = Pending(a, 1) /\ s.attempt = r.attempt
      /\ s.revision = r.revision /\ s.maxAttempts = r.maxAttempts
      /\ s.required = r.required /\ s.readable = r.readable
      /\ s.history = r.history
  BY <1>1 DEF UnitRecord, Records
<1>3. MarkLaunchPending(r, 1, a) = {s}
  BY UnitRecordIsValid DEF MarkLaunchPending, UnitRecord, State
<1>4. /\ Pending(a, 1).state = "launch-pending"
      /\ Pending(a, 1).generation = 1
  BY DEF Pending
<1> HIDE DEF s
<1>5. UnitRecord(s) /\ State(s) = "launch-pending" /\ s # r
  BY <1>1, <1>2, <1>4 DEF UnitRecord, State
<1> QED
  BY <1>2, <1>3, <1>5 DEF s

LEMMA BoundRecord ==
  ASSUME NEW r, UnitRecord(r), NEW a \in Actions, NEW m \in Threads, NEW s \in Bind(r, 1, a, m)
  PROVE  /\ UnitRecord(s) /\ State(s) = "bound" /\ State(r) # "unbound"
         /\ s # r => State(r) = "launch-pending"
<1> USE NullAssumption
<1>1. CASE s = r /\ State(r) = "bound"
  BY <1>1
<1>2. CASE /\ r.binding.state # "bound" /\ r.binding.action = a
           /\ s = [r EXCEPT !.binding = [@ EXCEPT !.state = "bound", !.member = m]]
           /\ State(r) # "bound"
  <2> DEFINE b == [r.binding EXCEPT !.state = "bound", !.member = m]
  <2>1. r \in Records /\ r.binding \in Bindings
    BY DEF UnitRecord, Records
  <2>2. /\ b \in Bindings /\ b.state = "bound" /\ b.member = m
        /\ b.action = r.binding.action /\ b.generation = r.binding.generation
    BY <2>1 DEF Bindings, BindingStates
  <2>3. r.binding.state # "unbound"
    BY <1>2 DEF UnitRecord, ValidBinding
  <2>4. /\ s \in Records /\ s.binding = b /\ s.attempt = r.attempt
        /\ s.revision = r.revision /\ s.maxAttempts = r.maxAttempts
        /\ s.required = r.required /\ s.readable = r.readable
        /\ s.history = r.history
    BY <1>2, <2>1, <2>2 DEF Records
  <2> HIDE DEF b
  <2>5. ValidBinding(b) /\ b.generation = 1 /\ State(s) = "bound"
    BY <1>2, <2>2, <2>4 DEF ValidBinding, UnitRecord, State
  <2>6. r.binding.state = "launch-pending"
    BY <1>2, <2>1, <2>3 DEF Bindings, BindingStates
  <2> QED
    BY <1>2, <2>1, <2>2, <2>4, <2>5, <2>6 DEF UnitRecord, State
<1> QED
  BY <1>1, <1>2 DEF Bind, State

LEMMA AdvancedRecord ==
  ASSUME NEW r, UnitRecord(r), NEW s \in AdvanceAttempt(r, 1, r.attempt)
  PROVE  /\ UnitRecord(s) /\ State(r) = "bound" /\ s.binding = r.binding
         /\ s = [r EXCEPT !.attempt = @ + 1]
<1>1. s = [r EXCEPT !.attempt = @ + 1] /\ r.attempt < r.maxAttempts
      /\ r.binding.state = "bound"
  BY DEF AdvanceAttempt
<1>2. r \in Records
  BY DEF UnitRecord
<1>3. r.attempt \in Nat /\ r.maxAttempts \in Nat /\ r.attempt + 1 \in Nat \ {0}
  BY <1>2 DEF Records
<1>4. /\ s \in Records /\ s.history = r.history /\ s.binding = r.binding
      /\ s.attempt = r.attempt + 1 /\ s.maxAttempts = r.maxAttempts
      /\ s.revision = r.revision /\ s.required = r.required
      /\ s.readable = r.readable
  BY <1>1, <1>2, <1>3 DEF Records
<1> QED
  BY <1>1, <1>3, <1>4 DEF UnitRecord, State

-----------------------------------------------------------------------------
(* The invariant                                                           *)

LEMMA IInvInit == Init => IInv
<1> SUFFICES ASSUME Init PROVE IInv
  OBVIOUS
<1>1. 0 \in 0 .. MaxLosses /\ NoRequest \in Requests
  BY LaunchAssumption DEF NoRequest, Requests
<1>2. Typed
  BY <1>1 DEF Init, Typed, PCs
<1> QED
  BY <1>2 DEF Init, IInv, LockInv, CopyInv, JoinInv, RightInv, NamedInv, Creates,
     Virgin, AtMostOneTask, NoRequest

(* A call that ends, whatever else its step does to the effects.           *)
LEMMA OverKeeps ==
  ASSUME IInv, NEW c \in Calls, Over(c),
         UNCHANGED <<file, joiner, receipts, tasks>>, losses' \in 0 .. MaxLosses,
         effects' \subseteq Effects,
         \/ effects' = effects
         \/ pc[c] = "answer" /\ effects' = effects \cup EffectOf(c)
  PROVE  IInv'
<1> USE DEF IInv
<1>1. NoRequest \in Requests
  BY LaunchAssumption DEF NoRequest, Requests
<1>2. Typed'
  BY <1>1 DEF Over, Typed, PCs
<1>3. LockInv'
  BY DEF Over, LockInv, Typed
<1>4. CopyInv'
  BY DEF Over, CopyInv, Typed, Current
<1>5. JoinInv'
  BY DEF JoinInv
<1>6. RightInv'
  <2>1. CASE effects' = effects
    BY <2>1 DEF RightInv, Over, Typed, Creates, Virgin, AtMostOneTask
  <2>2. CASE pc[c] = "answer" /\ effects' = effects \cup EffectOf(c)
    <3>1. UnitRecord(copy[c]) /\ Current(copy[c]) /\ State(copy[c]) # "unbound"
      BY <2>2 DEF CopyInv
    <3>2. ~ Virgin /\ ~ Virgin'
      BY <3>1 DEF Virgin, Current, State
    <3>3. CASE ~ newlyPending[c]
      <4>1. Creates' = Creates
        BY <2>2, <3>3 DEF Creates, EffectOf
      <4> QED
        BY <3>2, <4>1 DEF RightInv, Over, Typed, AtMostOneTask
    <3>4. CASE newlyPending[c]
      <4>1. tasks = {} /\ Creates = {}
        BY <3>4 DEF RightInv
      <4>2. \A d, e \in Creates' : d = e
        BY <2>2, <4>1 DEF Creates, EffectOf
      <4>3. \A d \in Calls : d # c => pc[d] # "answer"
        BY <2>2 DEF LockInv, Typed, PCs
      <4>4. \A d \in Calls : ~ newlyPending'[d]
        BY <4>3 DEF RightInv, Over, Typed
      <4> QED
        BY <3>2, <4>1, <4>2, <4>4 DEF RightInv, AtMostOneTask
    <3> QED
      BY <3>3, <3>4
  <2> QED
    BY <2>1, <2>2
<1>7. NamedInv'
  BY DEF NamedInv, Over, Typed, NoRequest
<1> QED
  BY <1>2, <1>3, <1>4, <1>5, <1>6, <1>7

(* A read of the file, at one of the places where a call reads it.         *)
LEMMA ReadKeeps ==
  ASSUME IInv, NEW c \in Calls, NEW from, NEW to, ReadThen(c, from, to),
         \/ from = "read" /\ to = "create" /\ file = None
         \/ from = "read" /\ to = "check" /\ file # None
         \/ from = "create" /\ to = "createWrite"
         \/ from = "mark" /\ to = "markWrite"
         \/ from = "bind" /\ to = "bindWrite"
  PROVE  IInv'
<1> USE DEF IInv
<1>1. /\ pc[c] = from /\ pc' = [pc EXCEPT ![c] = to]
      /\ copy' = [copy EXCEPT ![c] = file]
      /\ UNCHANGED <<file, lock, request, newlyPending, joiner, world, losses>>
      /\ lock = c
  BY DEF ReadThen, LockInv, PCs
<1>2. file \in Records \cup {None}
  BY DEF Typed, UnitRecord
<1>3. Typed'
  BY <1>1, <1>2 DEF Typed, PCs, world
<1>4. LockInv'
  BY <1>1 DEF LockInv, Typed, PCs
<1>5. CopyInv'
  <2>1. CASE from = "read" \/ from = "create"
    BY <1>1, <2>1 DEF CopyInv, Typed, Current
  <2>2. CASE from = "mark" \/ from = "bind"
    <3>1. /\ UnitRecord(copy[c]) /\ Current(copy[c])
          /\ from = "mark" => State(copy[c]) = "unbound"
          /\ from = "bind" => /\ State(copy[c]) # "unbound"
                              /\ request[c].member # None
      BY <1>1, <2>2 DEF CopyInv
    <3>2. /\ file # None /\ UnitRecord(file) /\ Current(file)
          /\ from = "mark" => State(file) = "unbound"
          /\ from = "bind" => State(file) # "unbound"
      BY <2>2, <3>1 DEF Current, Typed
    <3> QED
      BY <1>1, <2>2, <3>1, <3>2 DEF CopyInv, Typed, Current
  <2> QED
    BY <2>1, <2>2
<1>6. JoinInv' /\ NamedInv'
  BY <1>1 DEF JoinInv, NamedInv, world
<1>7. RightInv'
  BY <1>1 DEF RightInv, Typed, Creates, Virgin, AtMostOneTask, world
<1> QED
  BY <1>3, <1>4, <1>5, <1>6, <1>7

(* A step of a call that moves it on and touches no file.                  *)
LEMMA CheckKeeps ==
  ASSUME IInv, NEW c \in Calls, Check(c) PROVE IInv'
<1> USE DEF IInv
<1>1. CASE Throw(c)
  BY <1>1, OverKeeps DEF Throw, Typed, world
<1>2. ASSUME NEW to \in {"mark", "answer", "bind"},
             pc' = [pc EXCEPT ![c] = to],
             to = "mark" => State(copy[c]) = "unbound",
             to # "mark" => State(copy[c]) # "unbound",
             to = "bind" => request[c].member # None,
             UNCHANGED <<file, lock, request, copy, newlyPending, joiner,
                         world, losses>>
      PROVE  IInv'
  <2>1. /\ pc[c] = "check" /\ lock = c
        /\ UnitRecord(copy[c]) /\ Current(copy[c])
    BY DEF Check, LockInv, PCs, CopyInv
  <2>2. Typed' /\ LockInv'
    BY <1>2, <2>1 DEF Typed, LockInv, PCs, world
  <2>3. CopyInv'
    BY <1>2, <2>1 DEF CopyInv, Typed, Current
  <2>4. JoinInv' /\ NamedInv'
    BY <1>2 DEF JoinInv, NamedInv, world
  <2>5. RightInv'
    BY <1>2, <2>1 DEF RightInv, Typed, Creates, Virgin, AtMostOneTask, world
  <2> QED
    BY <2>2, <2>3, <2>4, <2>5
<1> QED
  BY <1>1, <1>2 DEF Check, State

(* The writes of a call.                                                   *)
LEMMA CreateWriteKeeps ==
  ASSUME IInv, NEW c \in Calls, CreateWrite(c)
  PROVE  /\ IInv' /\ file = None
         /\ \E k \in 1 .. MaxAttempt :
              file' \in Create(file, [Definition EXCEPT !.attempt = k])
<1> USE DEF IInv
<1> DEFINE new == [Definition EXCEPT !.attempt = request[c].attempt]
<1>1. pc[c] = "createWrite" /\ request[c].attempt \in 1 .. MaxAttempt
  BY DEF CreateWrite, ReadThen, WriteThen, Typed, Requests
<1>2. file = None /\ copy[c] = None /\ lock = c
  BY <1>1 DEF CopyInv, LockInv, PCs
<1>3. UnitRecord(new) /\ State(new) = "unbound" /\ new # None
  BY <1>1, NewRecord, UnitRecordIsValid
<1>4. Create(None, new) = {new}
  BY <1>1, NewRecord, UnitRecordIsValid DEF Create
<1> HIDE DEF new
<1>5. /\ file' = new /\ copy' = [copy EXCEPT ![c] = new]
      /\ pc' = [pc EXCEPT ![c] = "check"]
      /\ UNCHANGED <<lock, request, joiner, world, losses, newlyPending>>
  BY <1>2, <1>3, <1>4 DEF CreateWrite, WriteThen, new
<1>6. Typed' /\ LockInv'
  BY <1>2, <1>3, <1>5 DEF Typed, UnitRecord, LockInv, PCs, world
<1>7. CopyInv'
  <2>1. \A d \in Calls : d # c => pc[d] \in {"idle", "wait"}
    BY <1>2 DEF LockInv, Typed
  <2> QED
    BY <1>3, <1>5, <2>1 DEF CopyInv, Typed, Current
<1>8. JoinInv' /\ NamedInv'
  <2>1. joiner = None \/ State(joiner) # "bound"
    BY <1>2 DEF JoinInv
  <2> QED
    BY <1>5, <2>1 DEF JoinInv, NamedInv, world
<1>9. RightInv'
  BY <1>2, <1>3, <1>5 DEF RightInv, Typed, Creates, Virgin, AtMostOneTask, world
<1> QED
  BY <1>1, <1>2, <1>4, <1>5, <1>6, <1>7, <1>8, <1>9 DEF new

LEMMA MarkWriteKeeps ==
  ASSUME IInv, NEW c \in Calls, MarkWrite(c)
  PROVE  IInv' /\ \E a \in Actions : file' \in MarkLaunchPending(file, 1, a)
<1> USE DEF IInv
<1> DEFINE a == LaunchActionFor(request[c].attempt)
           new == [file EXCEPT !.binding = Pending(a, @.generation)]
<1>1. /\ pc[c] = "markWrite" /\ lock = c /\ a \in Actions
      /\ request[c].attempt \in 1 .. MaxAttempt
  BY LaunchAssumption DEF MarkWrite, LockInv, PCs, Typed, Requests, LaunchActionFor
<1>2. /\ copy[c] = file /\ UnitRecord(file) /\ State(file) = "unbound"
      /\ file # None
  BY <1>1 DEF CopyInv, Current
<1>3. /\ MarkLaunchPending(file, 1, a) = {new} /\ UnitRecord(new)
      /\ State(new) = "launch-pending" /\ new # file /\ new # None
  BY <1>1, <1>2, MarkedRecord, UnitRecordIsValid
<1>4. /\ Virgin /\ tasks = {} /\ effects = {} /\ request[c].member = None
      /\ \A d \in Calls : ~ newlyPending[d]
  BY <1>2 DEF Virgin, RightInv, NamedInv
<1> HIDE DEF new
<1>5. /\ file' = new /\ copy' = [copy EXCEPT ![c] = new]
      /\ pc' = [pc EXCEPT ![c] = "answer"]
      /\ newlyPending' = [newlyPending EXCEPT ![c] = TRUE]
      /\ UNCHANGED <<lock, request, joiner, world, losses>>
  BY <1>2, <1>3, <1>4 DEF MarkWrite, WriteThen
<1>6. Typed' /\ LockInv'
  BY <1>1, <1>3, <1>5 DEF Typed, UnitRecord, LockInv, PCs, world
<1>7. CopyInv'
  <2>1. \A d \in Calls : d # c => pc[d] \in {"idle", "wait"}
    BY <1>1 DEF LockInv, Typed
  <2> QED
    BY <1>3, <1>5, <2>1 DEF CopyInv, Typed, Current
<1>8. JoinInv' /\ NamedInv'
  <2>1. joiner = None \/ State(joiner) # "bound"
    BY <1>2 DEF JoinInv
  <2> QED
    BY <1>5, <2>1 DEF JoinInv, NamedInv, world
<1>9. RightInv'
  <2>1. ~ Virgin' /\ tasks' = {} /\ Creates' = {}
    BY <1>3, <1>4, <1>5 DEF Virgin, Creates, world
  <2>2. \A d \in Calls : newlyPending'[d] => d = c
    BY <1>4, <1>5 DEF Typed
  <2>3. pc'[c] = "answer"
    BY <1>5 DEF Typed
  <2> QED
    BY <2>1, <2>2, <2>3 DEF RightInv, AtMostOneTask
<1> QED
  BY <1>1, <1>3, <1>5, <1>6, <1>7, <1>8, <1>9

LEMMA BindWriteKeeps ==
  ASSUME IInv, NEW c \in Calls, BindWrite(c)
  PROVE  /\ IInv'
         /\ \/ file' = file
            \/ \E a \in Actions, m \in Threads : file' \in Bind(file, 1, a, m)
<1> USE DEF IInv
<1> DEFINE a == LaunchActionFor(request[c].attempt)
           m == request[c].member
<1>1. /\ pc[c] = "bindWrite" /\ lock = c /\ a \in Actions /\ m \in Threads
      /\ UnitRecord(copy[c]) /\ Current(copy[c]) /\ State(copy[c]) # "unbound"
  BY LaunchAssumption DEF BindWrite, LockInv, PCs, Typed, Requests,
     LaunchActionFor, CopyInv
<1>2. CASE Throw(c)
  BY <1>2, OverKeeps DEF Throw, Typed, world
<1>3. ASSUME NEW r \in Bind(copy[c], 1, a, m),
             file' = IF r = copy[c] THEN file ELSE r,
             copy' = [copy EXCEPT ![c] = r],
             pc' = [pc EXCEPT ![c] = "answer"],
             UNCHANGED <<lock, request, joiner, world, losses, newlyPending>>
      PROVE  /\ IInv'
             /\ file' = file \/ file' \in Bind(file, 1, a, m)
  <2>1. /\ UnitRecord(r) /\ State(r) = "bound"
        /\ r # copy[c] => State(copy[c]) = "launch-pending"
    BY <1>1, <1>3, BoundRecord
  <2>2. file' = file \/ (file' = r /\ copy[c] = file /\ State(file) # "bound")
    BY <1>1, <1>3, <2>1 DEF Current
  <2>3. UnitRecord(file') /\ Current(r)' /\ file' # None /\ ~ Virgin /\ ~ Virgin'
    BY <1>1, <1>3, <2>1, <2>2, UnitRecordIsValid DEF Current, Typed, Virgin
  <2>4. Typed' /\ LockInv'
    BY <1>1, <1>3, <2>1, <2>3 DEF Typed, UnitRecord, LockInv, PCs, world
  <2>5. CopyInv'
    <3>1. \A d \in Calls : d # c => pc[d] \in {"idle", "wait"}
      BY <1>1 DEF LockInv, Typed
    <3> QED
      BY <1>3, <2>1, <2>3, <3>1 DEF CopyInv, Typed
  <2>6. JoinInv' /\ NamedInv'
    BY <1>3, <2>2 DEF JoinInv, NamedInv, world
  <2>7. RightInv'
    BY <1>1, <1>3, <2>3 DEF RightInv, Typed, Creates, AtMostOneTask, world
  <2> QED
    BY <1>3, <2>2, <2>4, <2>5, <2>6, <2>7
<1> QED
  BY <1>1, <1>2, <1>3 DEF BindWrite, WriteThen

-----------------------------------------------------------------------------
(* The other actors                                                        *)

LEMMA CalledKeeps ==
  ASSUME IInv, NEW c \in Calls, Ask(c) \/ Report(c) PROVE IInv'
<1> USE DEF IInv
<1>1. PICK k \in 1 .. MaxAttempt, m \in tasks \cup {None} : Called(c, k, m)
  BY DEF Ask, Report, Typed, Receipts, NamedInv
<1>2. Typed' /\ LockInv'
  BY <1>1 DEF Called, Typed, Requests, LockInv, PCs, world
<1>3. CopyInv'
  BY <1>1 DEF Called, CopyInv, Typed, Current, world
<1>4. JoinInv' /\ NamedInv'
  BY <1>1 DEF Called, JoinInv, NamedInv, Typed, world
<1>5. RightInv'
  BY <1>1 DEF Called, RightInv, Typed, Creates, Virgin, AtMostOneTask, world
<1> QED
  BY <1>2, <1>3, <1>4, <1>5

LEMMA LockKeeps == ASSUME IInv, NEW c \in Calls, Lock(c) PROVE IInv'
<1> USE DEF IInv
<1>1. Typed' /\ LockInv'
  BY LaunchAssumption DEF Lock, Typed, LockInv, PCs, world
<1>2. CopyInv'
  BY DEF Lock, CopyInv, Typed, Current, world
<1>3. JoinInv' /\ NamedInv'
  BY DEF Lock, JoinInv, NamedInv, world
<1>4. RightInv'
  BY DEF Lock, RightInv, Typed, Creates, Virgin, AtMostOneTask, world
<1> QED
  BY <1>1, <1>2, <1>3, <1>4

(* The join adapter writes a bound record only, and the one it has read.   *)
LEMMA JoinerKeeps ==
  ASSUME IInv, JoinerRead \/ JoinerWrite
  PROVE  /\ IInv'
         /\ \/ file' = file
            \/ file # None /\ file' \in AdvanceAttempt(file, 1, file.attempt)
<1> USE DEF IInv
<1>1. CASE JoinerRead
  <2>1. /\ joiner' = file /\ file # None
        /\ UNCHANGED <<file, lock, pc, request, copy, newlyPending, effects,
                       receipts, tasks, losses>>
    BY <1>1 DEF JoinerRead, handler, world
  <2> QED
    BY <2>1 DEF Typed, LockInv, CopyInv, Current, JoinInv, RightInv, NamedInv,
       Creates, Virgin, AtMostOneTask
<1>2. CASE JoinerWrite /\ file' = file
  <2>1. /\ joiner' = None /\ file' = file
        /\ UNCHANGED <<lock, pc, request, copy, newlyPending, effects,
                       receipts, tasks, losses>>
    BY <1>2 DEF JoinerWrite, handler, world
  <2> QED
    BY <2>1 DEF Typed, LockInv, CopyInv, Current, JoinInv, RightInv, NamedInv,
       Creates, Virgin, AtMostOneTask
<1>3. CASE JoinerWrite /\ file' \in AdvanceAttempt(joiner, 1, joiner.attempt)
  <2>1. UnitRecord(joiner)
    BY <1>3 DEF JoinerWrite, Typed
  <2>2. /\ UnitRecord(file') /\ State(joiner) = "bound"
        /\ file'.binding = joiner.binding /\ file' # None
    BY <1>3, <2>1, AdvancedRecord, UnitRecordIsValid
  <2>3. file = joiner /\ joiner # None
    BY <1>3, <2>2 DEF JoinInv, JoinerWrite
  <2>4. /\ joiner' = None
        /\ UNCHANGED <<lock, pc, request, copy, newlyPending, effects,
                       receipts, tasks, losses>>
    BY <1>3 DEF JoinerWrite, handler, world
  <2>5. State(file) = "bound" /\ State(file') = "bound" /\ file # None
    BY <2>2, <2>3 DEF State
  <2>6. Typed' /\ LockInv' /\ JoinInv' /\ NamedInv'
    BY <2>2, <2>4 DEF Typed, LockInv, JoinInv, NamedInv
  <2>7. CopyInv'
    <3>1. \A r : Current(r) => Current(r)'
      BY <2>2, <2>3, <2>5 DEF Current
    <3> QED
      BY <2>4, <2>5, <3>1 DEF CopyInv
  <2>8. RightInv'
    <3>1. ~ Virgin /\ ~ Virgin'
      BY <2>2, <2>5 DEF Virgin
    <3> QED
      BY <2>4, <3>1 DEF RightInv, Creates, AtMostOneTask
  <2> QED
    BY <1>3, <2>3, <2>6, <2>7, <2>8
<1> QED
  BY <1>1, <1>2, <1>3 DEF JoinerWrite

(* A create effect is performed once, and a task reconciled is one.        *)
LEMMA WorldKeeps ==
  ASSUME IInv, PerformCreate \/ PerformReconcile \/ QueenLost PROVE IInv'
<1> USE DEF IInv
<1>1. CASE PerformCreate
  <2>1. PICK e \in effects, t \in Threads \ tasks :
          /\ e.type = "create" /\ effects' = effects \ {e}
          /\ tasks' = tasks \cup {t}
          /\ receipts' \in
               {receipts, receipts \cup {[attempt |-> e.attempt, member |-> t]}}
          /\ UNCHANGED <<file, lock, pc, request, copy, newlyPending, joiner, losses>>
    BY <1>1 DEF PerformCreate, handler
  <2>2. tasks = {} /\ ~ Virgin /\ \A c \in Calls : ~ newlyPending[c]
    BY <2>1 DEF RightInv, Creates
  <2>3. Creates' = {} /\ tasks' = {t}
    BY <2>1, <2>2 DEF RightInv, Creates
  <2>4. [attempt |-> e.attempt, member |-> t] \in Receipts
    BY <2>1 DEF Typed, Effects, Receipts
  <2>5. Typed'
    BY <2>1, <2>4 DEF Typed
  <2>6. LockInv' /\ CopyInv' /\ JoinInv' /\ NamedInv'
    BY <2>1 DEF LockInv, CopyInv, Current, JoinInv, NamedInv
  <2>7. RightInv'
    BY <2>1, <2>2, <2>3 DEF RightInv, Virgin, AtMostOneTask
  <2> QED
    BY <2>5, <2>6, <2>7
<1>2. CASE PerformReconcile
  <2>1. PICK e \in effects :
          /\ e.type = "reconcile" /\ effects' = effects \ {e}
          /\ receipts' = receipts \cup
               {[attempt |-> e.attempt, member |-> t] :
                  t \in {u \in tasks : Cardinality(tasks) = 1}}
          /\ UNCHANGED <<file, lock, pc, request, copy, newlyPending, joiner,
                         tasks, losses>>
    BY <1>2 DEF PerformReconcile, handler
  <2>2. \A r \in receipts' : r \in Receipts /\ r.member \in tasks
    BY <2>1 DEF Typed, Effects, Receipts, NamedInv
  <2>3. Typed' /\ NamedInv'
    BY <2>1, <2>2 DEF Typed, NamedInv
  <2>4. LockInv' /\ CopyInv' /\ JoinInv'
    BY <2>1 DEF LockInv, CopyInv, Current, JoinInv
  <2>5. RightInv'
    BY <2>1 DEF RightInv, Virgin, Creates, AtMostOneTask
  <2> QED
    BY <2>3, <2>4, <2>5
<1>3. CASE QueenLost
  <2>1. /\ losses < MaxLosses /\ losses' = losses + 1 /\ effects' = {}
        /\ receipts' = {}
        /\ UNCHANGED <<file, lock, pc, request, copy, newlyPending, joiner, tasks>>
    BY <1>3 DEF QueenLost, handler
  <2>2. losses' \in 0 .. MaxLosses
    BY <2>1, LaunchAssumption DEF Typed
  <2> QED
    BY <2>1, <2>2 DEF Typed, LockInv, CopyInv, Current, JoinInv, RightInv,
       NamedInv, Virgin, Creates, AtMostOneTask
<1> QED
  BY <1>1, <1>2, <1>3

-----------------------------------------------------------------------------
(* WorkUnit is an instance of the same record definitions.                 *)

LEMMA SameValid == \A r : Unit!ValidRecord(r) <=> ValidRecord(r)
BY DEF Unit!ValidRecord, ValidRecord, Unit!Records, Records, Unit!Bindings,
   Bindings, Unit!Entries, Entries, Unit!BindingStates, BindingStates,
   Unit!ValidBinding, ValidBinding, Unit!ValidHistory, ValidHistory,
   Unit!Contiguous, Contiguous, Unit!Chained, Chained, Unit!NothingReused,
   NothingReused

LEMMA SameTransitions ==
  /\ \A r, new : Unit!Create(r, new) = Create(r, new)
  /\ \A r, n, a : Unit!MarkLaunchPending(r, n, a) = MarkLaunchPending(r, n, a)
  /\ \A r, n, a, m : Unit!Bind(r, n, a, m) = Bind(r, n, a, m)
  /\ \A r, n, k : Unit!AdvanceAttempt(r, n, k) = AdvanceAttempt(r, n, k)
<1>1. \A r, new : Unit!Create(r, new) = Create(r, new)
  BY SameValid DEF Unit!Create, Create, Unit!Creatable, Creatable, Unit!Unbound,
     Unbound
<1>2. \A r, n, a : Unit!MarkLaunchPending(r, n, a) = MarkLaunchPending(r, n, a)
  BY DEF Unit!MarkLaunchPending, MarkLaunchPending, Unit!Pending, Pending
<1>3. \A r, n, a, m : Unit!Bind(r, n, a, m) = Bind(r, n, a, m)
  BY DEF Unit!Bind, Bind
<1>4. \A r, n, k : Unit!AdvanceAttempt(r, n, k) = AdvanceAttempt(r, n, k)
  BY DEF Unit!AdvanceAttempt, AdvanceAttempt
<1> QED
  BY <1>1, <1>2, <1>3, <1>4

(* The writes are steps of the work unit.                                  *)
LEMMA WritesAreUnitSteps ==
  /\ \A k \in 1 .. MaxAttempt :
       file' \in Create(file, [Definition EXCEPT !.attempt = k]) => Unit!Next
  /\ \A a \in Actions : file' \in MarkLaunchPending(file, 1, a) => Unit!Next
  /\ \A a \in Actions, m \in Threads : file' \in Bind(file, 1, a, m) => Unit!Next
  /\ \A k \in 1 .. MaxAttempt : file' \in AdvanceAttempt(file, 1, k) => Unit!Next
<1>1. 1 \in 1 .. MaxAttempt
  BY LaunchAssumption
<1>2. ASSUME NEW k \in 1 .. MaxAttempt,
             file' \in Create(file, [Definition EXCEPT !.attempt = k])
      PROVE  Unit!Next
  BY <1>2, SameTransitions DEF Unit!Next, Unit!CreateStep
<1>3. ASSUME NEW a \in Actions, file' \in MarkLaunchPending(file, 1, a)
      PROVE  Unit!Next
  BY <1>1, <1>3, SameTransitions DEF Unit!Next, Unit!LaunchStep
<1>4. ASSUME NEW a \in Actions, NEW m \in Threads, file' \in Bind(file, 1, a, m)
      PROVE  Unit!Next
  BY <1>1, <1>4, SameTransitions DEF Unit!Next, Unit!BindStep
<1>5. ASSUME NEW k \in 1 .. MaxAttempt, file' \in AdvanceAttempt(file, 1, k)
      PROVE  Unit!Next
  BY <1>1, <1>5, SameTransitions DEF Unit!Next, Unit!AdvanceStep
<1> QED
  BY <1>2, <1>3, <1>4, <1>5

(* Every step preserves the invariant and takes the record at most one     *)
(* transition further.                                                     *)
LEMMA StepIsAtomic ==
  ASSUME IInv, [Next]_vars PROVE IInv' /\ [Unit!Next]_file
<1>1. ASSUME NEW c \in Calls, Ask(c) \/ Report(c)
      PROVE  IInv' /\ file' = file
  BY <1>1, CalledKeeps DEF Ask, Report, Called
<1>2. ASSUME NEW c \in Calls, Step(c)
      PROVE  IInv' /\ [Unit!Next]_file
  <2>1. CASE Lock(c)
    BY <2>1, LockKeeps DEF Lock
  <2>2. CASE ReadRecord(c)
    BY <2>2, ReadKeeps DEF ReadRecord, ReadThen
  <2>3. CASE CreateRead(c)
    BY <2>3, ReadKeeps DEF CreateRead, ReadThen
  <2>4. CASE CreateWrite(c)
    BY <2>4, CreateWriteKeeps, WritesAreUnitSteps
  <2>5. CASE Check(c)
    BY <2>5, CheckKeeps DEF Check, Throw
  <2>6. CASE MarkRead(c)
    BY <2>6, ReadKeeps DEF MarkRead, ReadThen
  <2>7. CASE MarkWrite(c)
    BY <2>7, MarkWriteKeeps, WritesAreUnitSteps
  <2>8. CASE BindRead(c)
    BY <2>8, ReadKeeps DEF BindRead, ReadThen
  <2>9. CASE BindWrite(c)
    BY <2>9, BindWriteKeeps, WritesAreUnitSteps
  <2>10. CASE Answer(c)
    <3>1. EffectOf(c) \subseteq Effects
      <4>1. UnitRecord(copy[c])
        BY <2>10 DEF Answer, IInv, CopyInv
      <4>2. copy[c].attempt \in 1 .. MaxAttempt
        BY <4>1, LaunchAssumption DEF UnitRecord, Records
      <4> QED
        BY <4>2 DEF EffectOf, Effects
    <3>2. effects' \subseteq Effects /\ losses' \in 0 .. MaxLosses
      BY <2>10, <3>1 DEF Answer, IInv, Typed
    <3> QED
      BY <2>10, <3>2, OverKeeps DEF Answer
  <2> QED
    BY <1>2, <2>1, <2>2, <2>3, <2>4, <2>5, <2>6, <2>7, <2>8, <2>9, <2>10 DEF Step
<1>3. ASSUME NEW c \in Calls, CallLost(c)
      PROVE  IInv' /\ file' = file
  <2>1. losses' \in 0 .. MaxLosses /\ effects' \subseteq Effects
    BY <1>3, LaunchAssumption DEF CallLost, IInv, Typed, world
  <2> QED
    BY <1>3, <2>1, OverKeeps DEF CallLost, world
<1>4. CASE JoinerRead \/ JoinerWrite
  <2>1. file # None => file.attempt \in 1 .. MaxAttempt
    BY LaunchAssumption DEF IInv, Typed, UnitRecord, Records
  <2> QED
    BY <1>4, <2>1, JoinerKeeps, WritesAreUnitSteps
<1>5. CASE PerformCreate \/ PerformReconcile \/ QueenLost
  BY <1>5, WorldKeeps DEF PerformCreate, PerformReconcile, QueenLost
<1>6. CASE UNCHANGED vars
  <2>1. UNCHANGED <<file, lock, pc, request, copy, newlyPending, joiner,
                    effects, receipts, tasks, losses>>
    BY <1>6 DEF vars, handler, world
  <2> QED
    BY <2>1 DEF IInv, Typed, LockInv, CopyInv, Current, JoinInv, RightInv,
       NamedInv, Virgin, Creates, AtMostOneTask
<1> QED
  BY <1>1, <1>2, <1>3, <1>4, <1>5, <1>6 DEF Next

(* The record on disk is always one the validator accepts, and every call  *)
(* and the queen hold what their types say, whatever is lost.              *)
THEOREM TypeCorrect == Spec => []TypeOK
<1>1. IInv => TypeOK
  BY UnitRecordIsValid DEF IInv, Typed, TypeOK, UnitRecord
<1> QED
  BY <1>1, IInvInit, StepIsAtomic, PTL DEF Spec

(* orchestrate creates one native task for a unit at most, however many    *)
(* calls overlap, however often the queen asks again, and whichever        *)
(* answers, receipts, calls and queens are lost.                           *)
THEOREM OneTask == Spec => []AtMostOneTask
<1>1. IInv => AtMostOneTask
  BY DEF IInv, RightInv
<1> QED
  BY <1>1, IInvInit, StepIsAtomic, PTL DEF Spec

(* Calls under the execution lock and the join adapter under another one   *)
(* write the record from reads that may be old; still the file implements  *)
(* the atomic work unit: no update is lost.                                *)
THEOREM LaunchIsAtomic == Spec => NoLostUpdate
<1>1. Init => Unit!Init
  BY DEF Init, Unit!Init
<1> QED
  BY <1>1, IInvInit, StepIsAtomic, PTL DEF Spec, NoLostUpdate, Unit!Spec
=============================================================================
