-------------------------------- MODULE Waves --------------------------------
(***************************************************************************)
(* A plan from its first launch to its last cleanup.  It composes the      *)
(* plan-run store (PlanRun), the records of finished spin-offs             *)
(* (SpinoffRecord), the work units and the queen's verdicts with the tools *)
(* that go over them: nelos_plan_slices, nelos_launch_verify_batch,        *)
(* nelos_spinoff_complete, nelos_spinoff_cleanup and the end of            *)
(* nelos_orchestrate_advance (src/src/mcp-server.mjs, plan-run-store.mjs,  *)
(* spinoff-lifecycle.mjs, mcp-observation.mjs).                            *)
(*                                                                         *)
(* Calls run in Nelos processes, which share nothing but the files.  A     *)
(* call is cut into its file steps: what it has read is kept in its job    *)
(* and used later.  A lock section is one step; marking a wave is two,     *)
(* because create() takes no lock and may write in between.                *)
(***************************************************************************)
EXTENDS PlanRun, SpinoffRecord

CONSTANTS
  Procs,       \* Nelos processes
  Reported,    \* the content that results and decisions carry
  Archivable,  \* cleanupIntended: spin-offs get the archive capability
  MaxAttempt,  \* attempts of a work unit that are explored
  Starts       \* what is explored: the form of the plan run found on disk (or
               \* None) and how often each call, correction and fault occurs

ASSUME WavesAssumption ==
  /\ Scopes = {0} \cup Waves /\ Archivable \in BOOLEAN
  /\ Reported \in Contents /\ None \notin {"accepted", "rejected"}
  /\ MaxAttempt \in Nat \ {0}
  /\ \A x \in Starts :
       /\ x.found \in Forms \cup {None}
       /\ x.budget \in [{"create", "verify", "complete", "cleanup", "correct",
                         "crash", "loss"} -> Nat]

Web == 0

VARIABLES
  \* files
  run,       \* the plan run, or None
  unit,      \* the work unit of every slice: state of its launch, attempt
  verdict,   \* the queen's decision on every attempt
  life,      \* the spin-off record of every attempt
  \* processes
  job,       \* the call each process is in, or None
  \* host
  launched,  \* slices whose native task runs or ran
  offered,   \* waves whose launch was handed to the host
  effects,   \* effects handed to the host and not yet performed
  archived,  \* the action that archived a task, or None
  told,      \* completions whose message reached the queen
  confirmed, \* slices the user agreed to archive
  \* history and left
  issued,    \* how often the archive of a task was requested
  sent,      \* how often the message of a completion was requested
  left       \* what is left of the budget

files == <<run, unit, verdict, life>>
host == <<launched, effects, archived, told, confirmed>>
ghosts == <<issued, sent>>
vars == <<files, job, offered, host, ghosts, left>>

Attempts == Slices \X (1 .. MaxAttempt)

Init ==
  /\ \E x \in Starts :
       /\ run = IF x.found = None THEN None ELSE [New EXCEPT !.form = x.found]
       /\ left = x.budget
  /\ unit = [s \in Slices |-> [state |-> "absent", attempt |-> 1]]
  /\ verdict = [a \in Attempts |-> None]
  /\ life = [a \in Attempts |-> None]
  /\ job = [p \in Procs |-> None]
  /\ launched = {}
  /\ offered = {} /\ effects = {}
  /\ archived = [s \in Slices |-> None]
  /\ told = {} /\ confirmed = {}
  /\ issued = [a \in Attempts |-> 0] /\ sent = [a \in Attempts |-> 0]

-----------------------------------------------------------------------------
(* What the calls read *)

Current(s) == <<s, unit[s].attempt>>

\* An accepted decision for exactly this attempt of a bound unit.
Accepted(s) ==
  unit[s].state = "bound" /\ verdict[Current(s)] = "accepted"

Persisted == {s \in Slices : unit[s].state # "absent"}

WithDependencies(S) == S \cup UNION {DependsOn[s] : s \in S}

\* missingPersistedDependencyIdsV1: all that a wave builds on.
Prerequisites(w) ==
  LET closure[n \in Nat] ==
        IF n = 0 THEN UNION {DependsOn[s] : s \in Members(w)}
        ELSE WithDependencies(closure[n - 1])
  IN  closure[Cardinality(Slices)]

MissingPrerequisites(w) == Prerequisites(w) \ Persisted

\* The wave that a completed cleanup or an advance hands to the host, if any.
NextWave(r, w) ==
  {v \in {w + 1} \cap Waves : HasPlan(r) /\ MissingPrerequisites(v) = {}}

Free(p) == job[p] = None

Begin(p, j) == Free(p) /\ job' = [job EXCEPT ![p] = j]

Spend(what) == left[what] > 0 /\ left' = [left EXCEPT ![what] = @ - 1]

Continue(p, j) == job' = [job EXCEPT ![p] = j]

Return(p) == Continue(p, None)

In(p, op) == job[p] # None /\ job[p].op = op

-----------------------------------------------------------------------------
(* nelos_plan_slices: PlanRunStoreV1.create.  Each replay of the call, with *)
(* the launch authorization for instance, comes through here.              *)

CreateBegin(p) ==
  /\ Free(p) /\ Spend("create")
  /\ IF run = None \/ CanAdopt(run)
     THEN Begin(p, [op |-> "create", seen |-> run]) /\ UNCHANGED offered
     ELSE offered' = offered \cup {1} /\ UNCHANGED job
  /\ UNCHANGED <<files, host, ghosts>>

CreateWrite(p) ==
  /\ In(p, "create")
  /\ run' = IF job[p].seen = None THEN New ELSE Adopt(job[p].seen)
  /\ offered' = offered \cup {1}
  /\ Return(p)
  /\ UNCHANGED <<unit, verdict, life, host, ghosts, left>>

-----------------------------------------------------------------------------
(* nelos_launch_verify_batch, for a batch of which every member verifies.  *)

VerifyBegin(p, w) ==
  /\ Free(p) /\ Spend("verify")
  /\ run # None /\ w \in offered /\ Members(w) \subseteq launched
  /\ Begin(p, [op |-> "verify", wave |-> w, digest |-> Digest(run),
               seen |-> run])
  /\ UNCHANGED <<files, offered, host, ghosts>>

\* adoptVerifiedJoinedMembers: the joined members get a bound work unit.
AdoptJoined(p) ==
  /\ In(p, "verify")
  /\ LET j == job[p]
         joined == Members(j.wave) \ Spinoffs(j.wave)
         repairs == joined # {} /\ HasWebIdentity(j.seen)
         mark == [op |-> "verified", wave |-> j.wave, digest |-> j.digest]
     IN  IF repairs /\ ~ HasPlan(j.seen)
         THEN Return(p) /\ UNCHANGED unit
         ELSE /\ unit' = [s \in Slices |->
                            IF repairs /\ s \in joined
                            THEN [unit[s] EXCEPT !.state = "bound"] ELSE unit[s]]
              /\ Continue(p, mark)
  /\ UNCHANGED <<run, verdict, life, offered, host, ghosts, left>>

Bug_OffersOnceVerified(what, r, w) == offered' = offered \cup NextWave(r, w)

\* What the caller of a mark goes on with.
AfterMark(what, r, w) ==
  offered' = IF what = "cleaned" THEN offered \cup NextWave(r, w) ELSE offered

\* withPlanRunLock, held from the read to the write.
HasRunLock(p) == \A q \in Procs : ~ In(q, "marking")

MarkRead(p) ==
  /\ In(p, "verified") \/ In(p, "cleaned")
  /\ HasRunLock(p)
  /\ LET j == job[p]
         marked == IF run = None THEN {}
                   ELSE IF j.op = "verified" THEN MarkVerified(run, j.wave, j.digest)
                   ELSE MarkCleaned(run, j.wave, j.digest)
     IN  \/ marked = {} /\ Return(p) /\ UNCHANGED offered
         \/ /\ run \in marked
            /\ Return(p) /\ AfterMark(j.op, run, j.wave)
         \/ \E r \in marked \ {run} :
              /\ Continue(p, [op |-> "marking", what |-> j.op, wave |-> j.wave,
                              next |-> r])
              /\ UNCHANGED offered
  /\ UNCHANGED <<files, host, ghosts, left>>

MarkWrite(p) ==
  /\ In(p, "marking")
  /\ run' = job[p].next
  /\ AfterMark(job[p].what, job[p].next, job[p].wave)
  /\ Return(p)
  /\ UNCHANGED <<unit, verdict, life, host, ghosts, left>>

-----------------------------------------------------------------------------
(* nelos_spinoff_complete: the unit is read before the queen's lock.       *)

CompleteBegin(p, s, content, receipt) ==
  /\ Free(p) /\ Spend("complete")
  /\ Kind[s] = "spinoff" /\ unit[s].state = "bound"
  /\ receipt => Current(s) \in told
  /\ Begin(p, [op |-> "complete", at |-> Current(s), content |-> content,
               receipt |-> receipt])
  /\ UNCHANGED <<files, offered, host, ghosts>>

CompleteWrite(p) ==
  /\ In(p, "complete")
  /\ LET j == job[p]
         outcomes == Complete(life[j.at], j.content, j.receipt)
     IN  \/ outcomes = {} /\ UNCHANGED <<life, effects, sent>>
         \/ \E o \in outcomes :
              /\ life' = [life EXCEPT ![j.at] = o.record]
              /\ effects' = IF o.send
                            THEN effects \cup {[type |-> "message", at |-> j.at,
                                                action |-> None]}
                            ELSE effects
              /\ sent' = [sent EXCEPT ![j.at] = IF o.send THEN @ + 1 ELSE @]
  /\ Return(p)
  /\ UNCHANGED <<run, unit, verdict, offered, launched, archived,
                 told, confirmed, issued, left>>

-----------------------------------------------------------------------------
(* nelos_spinoff_cleanup *)

Bug_BoundInScope(scope) ==
  {s \in Slices : unit[s].state = "bound" /\ Kind[s] = "spinoff"
                  /\ scope \in {Web, WaveOf[s]}}

InScope(scope) ==
  {s \in Persisted : Kind[s] = "spinoff" /\ scope \in {Web, WaveOf[s]}}

Pending(scope) == {s \in InScope(scope) : ~ Accepted(s)}

Bug_AnyResultIsEligible(scope) ==
  {s \in InScope(scope) : Archivable /\ unit[s].state = "bound"}

Eligible(scope) == {s \in InScope(scope) : Archivable /\ Accepted(s)}

\* All it reads before it takes a lock.  The policy is the argument or what the
\* user configuration says by then.  The user confirms by name; a receipt is
\* there for what the host has archived.
CleanupBegin(p, scope, policy, confirm, receipts) ==
  /\ Free(p) /\ Spend("cleanup")
  /\ scope # Web => /\ run # None /\ HasWebIdentity(run)
                    /\ scope \in run.verified
  /\ Pending(scope) # {} => Eligible(scope) # {}
  /\ Begin(p, [op |-> "cleanup", scope |-> scope,
               digest |-> IF scope = Web THEN None ELSE Digest(run),
               policy |-> policy,
               eligible |-> Eligible(scope), pending |-> Pending(scope) # {},
               confirm |-> confirm, receipts |-> receipts])
  /\ confirmed' = IF confirm = None THEN confirmed ELSE confirmed \cup confirm
  /\ UNCHANGED <<files, offered, launched, effects, archived, told,
                 ghosts>>

\* The first lock section.  What is returned to the caller without settling
\* anything (a confirmation list, an error) ends the call.
Unasked(j, policy, candidates) ==
  {s \in candidates : \/ policy # "ask"
                      \/ life[Current(s)] # None /\ life[Current(s)].cleanup = "archiving"
                      \/ s \in j.receipts}

Snapshot(p) ==
  /\ In(p, "cleanup")
  /\ LET j == job[p]
         policies == SnapshotPolicy({life[Current(s)] : s \in j.eligible}, j.policy)
         candidates == {s \in j.eligible : ~ Settled(life[Current(s)])}
     IN  \/ policies = {} /\ Return(p) /\ UNCHANGED life
         \/ \E policy \in policies :
              LET pool == IF j.confirm = None THEN candidates ELSE j.eligible
                  chosen == IF j.confirm = None THEN Unasked(j, policy, candidates)
                            ELSE j.confirm
                  selected ==
                    chosen \cup {s \in j.receipts \cap j.eligible :
                                   /\ life[Current(s)] # None
                                   /\ life[Current(s)].cleanup = "archived"}
                  asks == /\ policy = "ask" /\ j.confirm = None /\ j.receipts = {}
                          /\ chosen = {} /\ candidates # {}
              IN  /\ life' = [a \in Attempts |->
                                IF a \in {Current(s) : s \in j.eligible}
                                THEN WithPolicy(life[a], Reported, policy) ELSE life[a]]
                  /\ IF asks \/ ~ chosen \subseteq pool \/ ~ j.receipts \subseteq selected
                     THEN Return(p)
                     ELSE Continue(p, [op |-> "settle", scope |-> j.scope,
                                       digest |-> j.digest, policy |-> policy,
                                       todo |-> selected, receipts |-> j.receipts,
                                       pending |-> j.pending, states |-> {},
                                       archives |-> {}])
  /\ UNCHANGED <<run, unit, verdict, offered, host, ghosts, left>>

\* The process dies after some of the snapshot is written.
SnapshotCut(p) ==
  /\ In(p, "cleanup")
  /\ \E policy \in SnapshotPolicy({life[Current(s)] : s \in job[p].eligible},
                                  job[p].policy),
        written \in SUBSET job[p].eligible :
       life' = [a \in Attempts |->
                  IF a \in {Current(s) : s \in written}
                  THEN WithPolicy(life[a], Reported, policy) ELSE life[a]]
  /\ Return(p)
  /\ Spend("crash")
  /\ UNCHANGED <<run, unit, verdict, offered, host, ghosts>>

\* The lock section of one candidate.
SettleOne(p) ==
  /\ In(p, "settle")
  /\ \E s \in job[p].todo :
       LET j == job[p]
           o == Settle(life[Current(s)], Reported, j.policy, j.scope,
                       IF s \in j.receipts THEN archived[s] ELSE None)
           effect == [type |-> "archive", at |-> Current(s), action |-> o.record.action]
       IN  /\ life' = [life EXCEPT ![Current(s)] = o.record]
           /\ issued' = [issued EXCEPT ![Current(s)] = IF o.archive THEN @ + 1 ELSE @]
           /\ Continue(p, [j EXCEPT !.todo = @ \ {s}, !.states = @ \cup {o.state},
                             !.archives = IF o.archive THEN @ \cup {effect} ELSE @])
  /\ UNCHANGED <<run, unit, verdict, offered, host, sent, left>>

\* The answer: effects, or attention, or not-ready, or complete.
CleanupEnd(p) ==
  /\ In(p, "settle") /\ job[p].todo = {}
  /\ LET j == job[p]
         complete == j.states \cap {"archiving", "attention"} = {} /\ ~ j.pending
     IN  IF complete /\ j.scope # Web
         THEN Continue(p, [op |-> "cleaned", wave |-> j.scope, digest |-> j.digest])
         ELSE Return(p)
  /\ effects' = effects \cup job[p].archives
  /\ UNCHANGED <<files, offered, launched, archived, told, confirmed,
                 ghosts, left>>

-----------------------------------------------------------------------------
(* nelos_orchestrate_advance, at the boundary where every required unit is  *)
(* accepted (terminalNextAction).  Its reads only see more as time passes.  *)

\* The work units that an advance observes: those of the last wave that was verified.
Observed(w) == {s \in Persisted : WaveOf[s] = w}

Advance ==
  /\ run # None /\ HasWebIdentity(run)
  /\ \E last \in run.verified :
       /\ \A w \in run.verified : w <= last
       /\ Observed(last) # {} /\ \A s \in Observed(last) : Accepted(s)
       /\ Spinoffs(last) # {} => last \in run.cleaned
       /\ offered' = offered \cup NextWave(run, last)
  /\ UNCHANGED <<files, job, host, ghosts, left>>

-----------------------------------------------------------------------------
(* The host and the queen.  Launches, bindings and corrections are those of *)
(* Launch and Observation, each taken as one step here.                     *)

Orchestrate(s) ==
  /\ WaveOf[s] \in offered /\ unit[s].state = "absent"
  /\ unit' = [unit EXCEPT ![s].state = "pending"]
  /\ UNCHANGED <<run, verdict, life, job, offered, host, ghosts, left>>

\* A joined member may be started without its work unit.
NativeCreate(s) ==
  /\ s \notin launched
  /\ \/ unit[s].state = "pending"
     \/ Kind[s] = "subagent" /\ WaveOf[s] \in offered
  /\ launched' = launched \cup {s}
  /\ UNCHANGED <<files, job, offered, effects, archived, told, confirmed,
                 ghosts, left>>

Bind(s) ==
  /\ s \in launched /\ unit[s].state = "pending"
  /\ unit' = [unit EXCEPT ![s].state = "bound"]
  /\ UNCHANGED <<run, verdict, life, job, offered, host, ghosts, left>>

Decide(s, decision) ==
  /\ unit[s].state = "bound" /\ verdict[Current(s)] = None
  /\ verdict' = [verdict EXCEPT ![Current(s)] = decision]
  /\ UNCHANGED <<run, unit, life, job, offered, host, ghosts, left>>

Correct(s) ==
  /\ verdict[Current(s)] = "rejected" /\ unit[s].attempt < MaxAttempt
  /\ Spend("correct")
  /\ unit' = [unit EXCEPT ![s].attempt = @ + 1]
  /\ UNCHANGED <<run, verdict, life, job, offered, host, ghosts>>

Perform(e) ==
  /\ e \in effects
  /\ effects' = effects \ {e}
  /\ IF e.type = "archive"
     THEN archived' = [archived EXCEPT ![e.at[1]] = e.action] /\ UNCHANGED told
     ELSE told' = told \cup {e.at} /\ UNCHANGED archived
  /\ UNCHANGED <<files, job, offered, launched, confirmed, ghosts, left>>

\* The answer that carried it never reached the host.
LoseEffect(e) ==
  /\ e \in effects 
  /\ effects' = effects \ {e}
  /\ Spend("loss")
  /\ UNCHANGED <<files, job, offered, launched, archived, told, confirmed,
                 ghosts>>

Crash(p) ==
  /\ ~ Free(p) 
  /\ Return(p)
  /\ Spend("crash")
  /\ UNCHANGED <<files, offered, host, ghosts>>

-----------------------------------------------------------------------------
Call(p) ==
  \/ CreateBegin(p) \/ CreateWrite(p)
  \/ \E w \in Waves : VerifyBegin(p, w)
  \/ AdoptJoined(p) \/ MarkRead(p) \/ MarkWrite(p)
  \/ \E s \in Slices, content \in Contents, receipt \in BOOLEAN :
       CompleteBegin(p, s, content, receipt)
  \/ CompleteWrite(p)
  \/ \E scope \in Scopes, policy \in Policies,
        confirm \in SUBSET InScope(Web) \cup {None}, receipts \in SUBSET {s \in Slices : archived[s] # None} :
       CleanupBegin(p, scope, policy, confirm, receipts)
  \/ Snapshot(p) \/ SnapshotCut(p) \/ SettleOne(p) \/ CleanupEnd(p)
  \/ Crash(p)

Environment ==
  \/ Advance
  \/ \E s \in Slices :
       \/ Orchestrate(s) \/ NativeCreate(s) \/ Bind(s) \/ Correct(s)
       \/ \E decision \in {"accepted", "rejected"} : Decide(s, decision)
  \/ \E e \in effects : Perform(e) \/ LoseEffect(e)

Next == (\E p \in Procs : Call(p)) \/ Environment

Spec == Init /\ [][Next]_vars

-----------------------------------------------------------------------------
TypeOK ==
  /\ run = None \/ ValidRun(run)
  /\ unit \in [Slices -> [state : {"absent", "pending", "bound"},
                          attempt : 1 .. MaxAttempt]]
  /\ verdict \in [Attempts -> {None, "accepted", "rejected"}]
  /\ \A a \in Attempts : life[a] = None \/ ValidLife(life[a])
  /\ offered \subseteq Waves

(* A task is archived only when its queen accepted its result, the plan     *)
(* grants the archive and the policy the cleanup began with allows it; under *)
(* ask only when the user named it.  A later change of the policy, another  *)
(* call or a lost answer does not change that.                              *)
ArchiveIsEarned ==
  \A s \in Slices :
    archived[s] # None =>
      LET r == life[Current(s)]
      IN  /\ Kind[s] = "spinoff" /\ Archivable /\ Accepted(s)
          /\ r.cleanup \in {"archiving", "archived"} /\ r.action = archived[s]
          /\ r.policy \in {"auto", "ask"}
          /\ r.policy = "ask" => s \in confirmed

(* The host is asked once to archive a task and once to wake the queen for  *)
(* a completion, for all replays, races and crashes: what is in doubt is    *)
(* reconciled, never repeated.                                              *)
RequestedOnce ==
  \A a \in Attempts : issued[a] <= 1 /\ sent[a] <= 1

(* A wave recorded as cleaned has all of its spin-offs accepted.            *)
CleanedIsEarned ==
  run # None =>
    \A w \in run.cleaned : \A s \in Spinoffs(w) : Accepted(s)

(* A later wave is handed out only when the spin-offs of every wave before  *)
(* it are accepted and all it builds on is persisted.                       *)
OfferIsEarned ==
  \A w \in offered \ {1} :
    /\ \A s \in Slices : WaveOf[s] < w /\ Kind[s] = "spinoff" => Accepted(s)
    /\ MissingPrerequisites(w) = {}

(* "verified wave progress is ordered, replay-safe, and durable across      *)
(* restart" (test/plan-run-store.test.mjs:136).                             *)
ProgressIsDurable ==
  [][run # None => /\ run.verified \subseteq run'.verified
                   /\ run.cleaned \subseteq run'.cleaned]_vars

(* "Do not launch a later wave until required current results are accepted" *)
(* (skills/manage-nelos-tasks/SKILL.md:79), joined members included.        *)
LaterWaveWaits ==
  \A w \in offered \ {1} : \A s \in Slices : WaveOf[s] < w => Accepted(s)

(* "cleanup policy snapshots conflict within the web"                       *)
(* (src/src/spinoff-lifecycle.mjs:797) is an error no sequence of calls     *)
(* leads to: the spin-offs of a web that wait for their cleanup, whichever  *)
(* calls and waves snapshotted them, are under one policy.                  *)
OnePolicyInForce ==
  \A a, b \in Attempts :
    /\ life[a] # None /\ life[b] # None
    /\ ~ Settled(life[a]) /\ ~ Settled(life[b])
    /\ life[a].policy # None /\ life[b].policy # None
    => life[a].policy = life[b].policy
=============================================================================
