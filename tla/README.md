# TLA+ models of Nelos

Nelos lets one agent task (the *queen*) split its work into units, start a native task (a *spin-off*) for
each, wait for them, read their results, decide on them and go on. Nelos itself executes nothing: its MCP
tools and its CLI keep records in files, hand the queen *effects* to perform against the native host, and
take back *receipts*. The queen, the host and several Nelos processes run at their own pace, and each of
them can stop at any point. What makes the program correct is therefore spread over several files, locks
and actors, and that is what these modules model.

Paths below are relative to the repository; `src/...` without a prefix is its source directory.

## 1. Inventory

| Component | State it keeps | Operations | Talks to |
|---|---|---|---|
| **State lock** `src/task-state.mjs`, `src/process-liveness.mjs` | a directory with `owner.json` for each lock name | acquire, probe the owner, reclaim an abandoned directory, run the callback, release | every store, through the `with...Lock` functions; the process table |
| **Execution store** `src/execution-store.mjs` | one JSON record per work unit: spec revision, attempt, binding, binding history; a queue of mutations per store instance | create, revise, markLaunchPending, bind, advanceAttempt, detachImpossibleRequiredMember, beginReplacement | called by launch, join, CLI, replanning |
| **MCP launch orchestration** `src/mcp-orchestration.mjs`, `src/web-orchestration.mjs`, `src/execution-reconciliation.mjs` | nothing of its own | orchestrate: create the record, mark it pending, return a create or a reconcile effect, bind from a receipt | execution lock, execution store, the queen |
| **CLI worktree launch and provisioning** `bin/nelos`, `src/worktree-provisioning.mjs` | a provisioning receipt per action id, the Git worktree | worktree launch, worktree provision (create or adopt), recovery | execution store, repository lock, Git, the host |
| **Observation join** `src/mcp-observation.mjs`, `src/orchestration-observation.mjs`, `src/orchestration-checkpoint-store.mjs` | one checkpoint per web: members, results, consumed receipts | advance(receipt or none): reduce to a boundary and effects | observation lock, execution store, decisions, the queen |
| **Queen decisions** `src/mcp-queen-decision.mjs`, `src/queen-acceptance.mjs` | one immutable record per result decided on | decide | checkpoint, execution store, the host |
| **Plan runs and waves** `src/plan-run-store.mjs`, `src/plan-orchestration-bridge.mjs` | a plan run with its waves, verified and cleaned marks | create/adopt, markWaveVerified, markWaveCleaned | join, spin-off lifecycle, planning |
| **Spin-off lifecycle** `src/spinoff-lifecycle.mjs`, `src/durable-spinoff-composition.mjs` | a completion, wake and cleanup record for each finished spin-off | complete (wake the queen), cleanup (archive, mark the wave, hand out the next) | plan runs, work units, decisions, the queen |
| **Planning lifecycle** `src/planning-lifecycle.mjs`, `src/planning-bootstrap.mjs`, `src/exception-replanning.mjs`, `src/slice-planner.mjs` | one record per objective or replan: planner, phase, receipts, result | advance: launch or reconcile the planner, verify it, wait, read and finalize the plan | the host's turns and collaboration calls, the queen |
| **Distribution install** `src/distribution-install.mjs` | a journal per root with backups, the marketplace intent and its exchange files, the activation record | install, commit, roll back, recover | the user's marketplace file, the runtime registry |
| **Runtime workers and mutation fence** `src/runtime-worker-registry.mjs`, `src/runtime-mutation-fence.mjs`, `src/runtime-identity.mjs` | a lease per worker process | derive an identity, register, drain, admit a mutation, check it before its commit | every mutating tool, the installer |
| **App-server bridge** `src/mcp-app-server-bridge.mjs` | the child, the connection, the pending requests | connect, request, retry a read, time out, fail, close; inspect, wait, wake, archive | the native app server |
| **Launch gate** `src/launch-execution-gate.mjs`, `src/launch-batch-verification.mjs` | none | authorize, verify a batch | launch orchestration, plan runs |
| MCP server, web registry, work results, configuration, experimentation, compatibility evidence | see `PROJECT.json` | | |

### What is hard here

* **File steps interleave.** A lock, a mutation or a launch is a sequence of file-system calls. Other
  processes act between any two of them, and what was read may be old when it is used.
* **Locks differ.** The join adapter writes work-unit records under the observation lock of the web, the launch
  adapter under the execution lock of the unit, and the CLI under none. Only the launch state of the
  record keeps them apart.
* **Effects are uncertain.** A create effect is answered once. If its answer is lost, the task may exist or
  not. A follow-up may have been delivered although its receipt never arrived. The queen repeats receipts,
  hands in old ones, or restarts without any.
* **Two writes are not one.** A follow-up receipt changes the execution record and then the checkpoint. A
  provisioning writes a receipt, runs Git and writes the receipt again.
* **The host goes on.** Turns start and end between a wait, a read and a decision; users write to tasks.
* **Reads come before locks.** `create` of a plan run takes no lock at all, and a cleanup reads units, verdicts and its
  policy before it takes the first of several; other calls write in between.
* **Installation is thirty file operations.** The installer may die between any two of them and again during the
  recovery, and the marketplace file belongs to a user who may save it at any moment.
* **Generations overlap.** Workers of an old release are still running when a new one is installed.
* **Requests share a connection.** The failure of one takes it away from the others, which must each find out what
  became of theirs.

`PROJECT.json` lists these hazards at the lines where they bite, each with the properties that cover it or a
note on why none does.

### What makes each component correct

* State lock: at most one callback at a time, the holder's directory stays until it is released, and a dead owner is
  reclaimed.
* Execution store: mutations are atomic and in sequence, no record is ever written that the next read
  rejects, and nothing recorded about a launch is taken back.
* Launch orchestration: one native task per unit however often the create is retried, and a created task is
  bound in the end.
* Worktree launch: one writer and one owner per worktree, and a receipt that says `provisioned` can be trusted.
* Join and decisions: an accepted result is exactly what the queen decided on and stays accepted; an attempt
  is spent once for each delivered correction; `continue` is answered only for a complete wave; the join
  settles.
* Plan runs and spin-offs: archives, wakes, cleaned marks and the offer of a later wave are earned, and neither a wake nor an
  archive is asked for twice.
* Planning: one planner and one plan for each objective or replan, taken from the turn it is booked to, in a schedule that can be
  launched; and an answer in the end.
* Installation: an interrupted installation is completed or undone as a whole, the journal's commit decides which, an edit of the
  user survives, and the marketplace and the surfaces tell one story.
* Runtime workers: no mutation becomes durable beside an installer, under a replaced release or beside another generation.
* App-server bridge: a wake is delivered once, what is reported as not applied is not applied, and every call ends.

## 2. Modules

| Module | Models | Uses |
|---|---|---|
| `StateLock` | `withOwnedStateLock` and the lease rule | |
| `WorkUnitRecord` | the record, its validator and the seven transitions as pure operators | |
| `WorkUnit` | abstract specification: one record, one transition after the other | `WorkUnitRecord` |
| `ExecutionStore` | one store instance: queue, read, temporary file, rename, crash | `WorkUnitRecord`; instantiates `WorkUnit` with `record <- file` |
| `StoreProofs` | theorems about the lock and the store | `StateLock`, `ExecutionStore`, TLAPS |
| `Launch` | `orchestrate`, the queen, the join adapter as second writer | `WorkUnitRecord`; instantiates `WorkUnit` |
| `LaunchProofs` | theorems about it | `Launch`, TLAPS |
| `WorktreeLaunch` | `nelos worktree launch` and `provision`, Git | `WorkUnitRecord` |
| `WorktreeLaunchProofs` | theorems about it | `WorktreeLaunch`, TLAPS |
| `Observation` | `advance`, the reducer, `decide`, the queen, the members' turns | `WorkUnitRecord` |
| `ObservationProofs` | theorems about it | `Observation`, TLAPS |
| `PlanRun` | the plan-run record and its transitions as operators | |
| `SpinoffRecord` | the record of a finished spin-off: wake and cleanup, as operators | |
| `Waves` | the tools that take a plan from its first launch to its last cleanup, in several Nelos processes | `PlanRun`, `SpinoffRecord` |
| `WavesProofs` | theorems about it | `Waves`, TLAPS |
| `Planning` | the planning lifecycle, the planner's turns, the replan and the schedule of waves | |
| `PlanningProofs` | theorems about it | `Planning`, TLAPS |
| `Marketplace` | the marketplace transaction and its recovery | |
| `Install` | the journal, the moves, commit, rollback and recovery of an installation | `Marketplace` |
| `Runtime` | workers, leases and the mutation fence beside the installer | `Install` |
| `InstallInvariant` | the inductive invariant of `Install` | `Install` |
| `MarketplaceInvariant` | the inductive invariant of `Marketplace` within `Install` | `InstallInvariant` |
| `RuntimeProofs` | theorems about `Install`, `Marketplace` and `Runtime` | `Runtime`, `MarketplaceInvariant`, TLAPS |
| `Bridge` | the connection to the app server and the calls that share it | |
| `BridgeProofs` | theorems about it | `Bridge`, TLAPS |
| `MC*` | instances of them for TLC | |

`Waves` composes the plan run, the spin-off records, the units and the verdicts; `Runtime` extends `Install`, which extends
`Marketplace`, so that a worker's question about its release meets an installer at any of its steps. `Install` can be run by itself
(`InstallSpec`) and inside `Runtime` (`Spec`).

A transition of `WorkUnitRecord` is a set of records: the record it leaves, or the empty set when the code
throws. A replay leaves the record it was given. The record keeps the fields that decide something: spec
revision, attempt, the attempt limit, required, readable, the binding (state, action, generation, member) and the
history of bindings that were replaced. Names, titles, prompts, timestamps and digests are left out.

`ExecutionStore` is the composition of the record with the store's own concurrency, `Launch` and
`Observation` compose the record with the adapters, the queen and the host. In these two and in
`WorktreeLaunch` every call has a store instance of its own, as in the code, so a mutation is a read and a later write
and the queue of `ExecutionStore` does not help; `NoLostUpdate` says that the protocol around it does.

### How state and actions correspond to the code

**StateLock.** `dir` is the lock directory: who made it, its `owner.json`, and whether its age exceeds 30 s. `pc`
is the place of each call in `withOwnedStateLock`, one action per file-system call: `Mkdir`, `WriteOwner` /
`WriteOwnerFails` / `Undo`, `ReadOwner`, `Stat`, `Probe`, `Reclaim` (`moveStaleLock`), `Retry`,
`CallbackEnds`, `ReadToken`, `Release`. `alive` and `life` are the process table: a process ends, and its id may
be given to another. `MayOwn` is `processMayOwnLease`. The token in `owner.json` is the call itself. The names `LockInit`, `LockNext` and
`LockSpec` keep it apart from `ExecutionStore`, beside which its theorems stand.

**ExecutionStore.** `queue` is `#mutations` of one unit. `Read` begins the mutation at the head, one action per
public method writes, and `Throw` is every refusal or failed write. Which method was called is chosen
when it writes, since nothing before that depends on it. `Crash` loses the queue and keeps the file. Two processes on
one file are the subject of `Launch` and `WorktreeLaunch`.

**Launch.** `Called`, `Lock`, `ReadRecord`, `CreateRead`/`CreateWrite`, `Check`, `MarkRead`/`MarkWrite`,
`BindRead`/`BindWrite` and `Answer` follow `orchestrate` from its entry to the effects it returns;
`newlyPending` is the local that decides between a create and a reconcile effect.
`PerformCreate` and `PerformReconcile` are the queen's. A call that stops gives its lock back: what
`StateLock` promises.

**WorktreeLaunch.** The `pc` labels follow `runWorktreeLaunch` and `provisionWorktreeV1`: read, create,
mark, wait for the repository lock, `Resume` or `Claim`, `Git`, `Verify`, `StartTask`, bind. `worktree` abstracts the
checkout to absent, partial, base commit, or worked in. `EndEarly` is any error or crash; a Git command
that was running becomes `orphan` and may finish later.

**Observation.** `checkpoint` is the join's file, `file` the execution records, `decisions` the acceptance
store. `Effects`, `Boundary`, `WaitMembers` are the reducer; `ApplyReceipt` with `Observed` is
`applyObservationReceiptV1`; `ApplyResultPolicies` applies decisions and the policy for malformed
results. `BeginAdvance` computes, `Store` writes the unit when the receipt calls for it, `WriteCheckpoint`
writes the checkpoint and answers. `BeginDecide`, `CheckLatest` and `Record` are the three phases of `decide`, which
takes no observation lock. A receipt is an effect's action id with what the host said. `said`, `lifecycle` and
`asked` are the host.

The reads at the start of `advance` are one step: only launches and decisions happen between them, and neither
changes what the other read returns. Binding generations and spec revisions of members stay at 1 in `Observation`.

**Waves.** A tool call is a `job` in a process, cut at its file steps: what it read is in the job. `CreateBegin`/`CreateWrite` are
`PlanRunStore.create`, which takes no lock; `MarkRead`/`MarkWrite` the two halves of a mark under the plan-run lock (two, because
`create` may write in between); `VerifyBegin` is `nelos_launch_verify_batch` and `AdoptJoined` the adoption of joined members in it;
`CompleteBegin`/`CompleteWrite` are `nelos_spinoff_complete`; `CleanupBegin`, `Snapshot`, `SnapshotCut`, `SettleOne` and `CleanupEnd` are
`nelos_spinoff_cleanup` from its reads through the lock section of each spin-off to the mark of the wave; `Advance` is what
`nelos_orchestrate_advance` does once the join says continue for the units of the last verified wave. `Orchestrate`, `NativeCreate`, `Bind`, `Decide` and `Correct` are the work units
and verdicts as far as waves look at them. `Perform` and `LoseEffect` are the queen.

**Planning.** A `job` is a call that holds the lifecycle's lock; `at` is its place: `Prepare`, `ResumeLaunch`, `ResumeCreated` and
`ResumeResult` are the entries by what the record and the receipt say, `ReadTurn` and `ReadAgent` the two host reads, `Status` and
`StatusAction` the bounded reconciliation of interrupted turns, `Judge` and `Finalize` the check of a response and its plan.
`planner` is the host: the planner tasks with their turns. `Schedule` is `planWorkSlices`, `Pending` the slices a replan plans again.

**Marketplace and Install.** An installer `run` holds the locks and works off its `todo`, a sequence of steps that it extends from what it
finds (`Forward`, `Rollback`, `Recovery`); each step is one file operation of the code or a group that nothing can cut
(`Record`, `Aside`, `Place` for each moved surface, `RecordCurrent`, `SwapCurrent`, `WriteState`, `CommitJournal`, ...). `Fail` is
an operation that fails, `Crash` the end of the installer, `Edit` a save of the user between any two steps. A content of the
marketplace is the number of the user's edit it stems from and whether it has the plugin's entry; a file that was cut off while it was written is
`Partial`. A dead installer's lock is free, so `run = None` stands for it.

**Runtime.** `phase` is a worker's place from the import of its code to the rename of a mutation; `Inspect` is the part of the health
question that runs under the registry lock, `CommitMutation` the rename after it. `Install(r)` starts an installer only when no lease is alive.

**Bridge.** An event of the event loop (an answer, a timer, the end of the child) is an action that waits for `Quiet`; the jobs it sets off
come first. A request is two jobs, because `#request` awaits `#connect`: `Requests` gets the connection (`#connect`), `Write` writes to
the child there is then (`#write`), which may be gone, take no input, or be a new one that is not initialized yet. A write that fails goes
through `#fail`, as do timeouts, refusals and the end of the child: `Drop` and `Drops` reject every request with one error, `Cuts` is what that does to
the calls. `ConnectsInVain` is an initialize answer whose child is gone when it is looked at; link `stuck` is the
rejected `#ready` that stays when initialize itself cannot be written. `Retries` is `#readRequest`, `CertainlyUnapplied` the set of the same name.
`Searched`, `StatusRead` and `WakeGoesOn` are `deliverParentWake`, `WaitGoesOn` is `waitForThreads`. `wire` is what the child holds,
`orphans` what a child holds that was told to end. `cut` is a history variable: the attempt of a mutation that was sent and then rejected, with the
connection, by an error that calls it unapplied (`Loses`).

## 3. Runs

| Run | Instance | Checks | Shows |
|---|---|---|---|
| `lock` | 3 calls: two in a process that may end and be replaced under the same id, one in another | `LockTypeOK`, `MutualExclusion`, `HolderKeepsItsDirectory`, `DeadOwnerIsReclaimed` | the lock excludes, survives crashes at every step and gets free again |
| `lock_exit` | 3 processes, one may end | `MutualExclusion` violated | finding 1 |
| `store` | 2 callers, 2 members, 3 actions, one crash | `FileValid`, `CopyIsCurrent`, `AtomicMutations`, `NothingTakenBack` | the queued store implements `WorkUnit` |
| `launch` | 2 overlapping calls, 2 tasks, 2 attempts, 2 losses | `AtMostOneTask`, `NoLostUpdate`, `CreatedTaskIsBound` | an uncertain create is reconciled, not repeated |
| `worktree` | 2 runs of which one is a launch, 2 actions, 3 early ends | `OneWriter`, `OneOwner`, `ProvisionedIsReal`, `WriterIsAccountedFor` | recovery of provisioning at every step |
| `join` | 2 required members, one a legacy member without read access and with a title; history of 3 receipts, 2 decide calls | `AcceptedIsDecided`, `AcceptedStands`, `ContinueIsEarned` | what is accepted was decided and stays so; no `continue` for part of a wave |
| `join_settles` | 1 member, 3 attempts, 2 envelopes, a user's turn, a loss, a restart | `CheckpointNotAhead`, `AttemptsWereDelivered`, `JoinSettles` | crashes between the two writes are harmless, the join ends |
| `waves` | 2 waves: two spin-offs and a joined member, then a spin-off that needs it; 2 processes; eight mixes of calls and faults | `ArchiveIsEarned`, `RequestedOnce`, `CleanedIsEarned`, `OfferIsEarned` | what cleanups and completions do is earned, whatever they read before others wrote |
| `install` | 2 roots, 2 releases, 1 save of the user, 2 crashes or failures | `AllOrNothing`, `CommitDecides`, `InstalledIsListed`, `EditSurvives`, `OwnTracesAreSettled`, `Recovers` | every installation ends as a whole and the user's file survives |
| `runtime` | 2 workers, cache or 2 checkouts, installers of 2 roots with 1 fault, 3 starts | `NoStaleCommit`, `OneGenerationCommits` | the fence holds between the last question and the rename |
| `planning` | a plan and a replan; four mixes of calls, turns, misreported turns, losses and crashes | `OnePlan`, `PlanIsCurrent`, `ScheduleIsSafe`, `PlanningSettles` | one planner, one plan, from the turn it is booked to |
| `bridge` | eight mixes of up to three reads, waits, wakes, archives and probes | `WakeOnce`, `CertainIsUnapplied`, `CallsEnd` | what becomes of requests when they lose their connection |

`PROJECT.json` names a mutant for every property: a plausible fault in the translated code that the run detects. The bodies of the
faults are the `Bug_...` operators, which no specification uses. Of the type invariants only the one of the lock is run (the store has
`FileValid` in its place); the others stand in their modules and state the types.

### Bounds and why they are enough

* Lock: three calls are the least at which a holder, a late prober and a newcomer meet; two of them share a process,
  because calls of one process see the same life. One reuse of a process id gives two lives, and the lease rule only asks
  whether a life is the same.
* Store: two callers suffice for a read between another's read and rename. Three actions and two members allow a replacement, a
  return of a used action or member, and a replacement of the replacement. `Initial` holds no record, or one written by
  an older version.
* Launch: a second call overlaps the first, a second attempt makes an old receipt and a late joiner; two losses allow a lost
  answer and a lost queen in one behaviour.
* Worktree: with an action of its own each, the two runs dispute the path. Three early ends allow a crash in the recovery
  of a recovery.
* Join: `MaxHeld = 1` bounds what the queen holds that Nelos has not consumed; what was consumed it may hand in again at any time and
  in any order. `MaxConsumed = 3` stands for the code's 1,000 in `join`, so that receipts fall out of the history.
  Timed-out waits are excluded (`MaxTimeouts = 0`), as they only raise the wait generation.
* Waves: a hazard takes two calls that overlap and one that comes before or after. Each element of `Starts` gives the form of the plan run found on
  disk and a number of each call and fault; together they reach every pair of tools that write one file.
* Install: the second fault falls into the recovery of the first. One save of the user tells an edit from a trace, and its place is any.
  A second root shares the marketplace, not the surfaces.
* Runtime: two workers of different generations, one installer between them; a third start lets a drained worker be followed by another.
* Planning: two calls overlap in one mix; in the others answers are lost, the process ends, a turn is called interrupted while it runs, or a
  second turn follows. `MaxInterrupted = 1` stands for the code's 3, `MaxParallel = 2` for its limit of a wave.
* Bridge: one call connects, one joins, one comes later. Two faults in one mix let a failed write hit what another call has sent, and let
  a child be lost between the two jobs of a request. `Page = 1` stands for the 20 turns a search sees, so that a wake falls
  behind it after one turn; two attempts of a wake are one and its repetition.
* Symmetry is used in `join`, `waves` and `runtime`, over calls, processes, alike spin-offs and workers, and in no run with a temporal
  property.
* `CHECK_DEADLOCK FALSE` stands where all budgets are spent and all calls ended: the system rests.

### Fairness

* `StateLock`: a running process executes the calls it has begun (the event loop), and the clock advances. Nobody is
  obliged to call, to end, or to succeed in writing. `DeadOwnerIsReclaimed` asks that the dead owner's directory
  goes away, not that every waiter gets the lock: the code promises no order among waiters.
* `ExecutionStore`, `WorktreeLaunch`, `Waves`, `Runtime`: none; only safety is checked.
* `Launch`: a running call goes on. The queen keeps asking for its unit's attempt, performs what it is given and hands in
  what it holds (`docs/task-orchestration.md`, "Resume After an Interrupted Queen"). Getting the lock, asking and
  reporting compete with other calls, so they are strongly fair.
* `Observation`: the queen stays in its join loop (same document, "Queen Join Loop"): it asks, performs, submits and
  decides; strong fairness again because its requests compete for the lock with its own replays. Launches happen, and turns end.
  `Refuse` removes a receipt Nelos refuses, after which the queen asks again before it performs anything. `JoinSettles` is
  promised to behaviours without a turn of the user and without a restart (section 6).
* `Planning`: a call that runs goes on, the queen performs the effects it was given (of several reads the newest) and keeps calling with
  what it knows; calls compete for the lock, so asking, reporting and handing in are strongly fair. The planner's first turn starts and turns end.
* `Install`: an installer that runs goes on, and a user whose installation was interrupted runs the installer of every root again until it gets
  through (strong fairness of `Start`, which an installer of the other root disables in between).
* `Bridge`: the event loop runs its jobs and its timers. Nothing is asked of the app server, of its answers or of the caller.

## 4. Proofs

**`StoreProofs`**, the lock.

* `TypeCorrect`: `LockSpec => []LockTypeOK` for any calls, processes and bounds, from `ConstantsAssumption` and
  `NothingAssumption`.
* `Exclusion` and `HolderSafe`: mutual exclusion and the holder's directory, for any number of calls and
  processes, from two more assumptions that the code needs: `MaxStalls = 0` (no live creator is held up 30 s before
  `owner.json` exists) and `SoleSurvivor` (outside any process that may end, at most one call runs; if no process may end
  it asks nothing). Without `SoleSurvivor` the property is false: that is finding 1. Without `MaxStalls = 0` it is
  false too (section 6).

Mutual exclusion is not inductive: nothing in it says why a reclaiming waiter meets no holder. `LockIInv` adds that a
running holder is named by the directory; that a lost process (ended, or its id reused) is mortal and has only
dead calls; and that a call that has judged a directory abandoned has evidence of a lost process. Under
`SoleSurvivor` a reclaiming call is then the only one that is not dead (`ReclaimIsAlone`), and what it takes
away belongs to nobody. One lemma treats the steps of calls, one those of the environment.

**`StoreProofs`**, the execution store, from `NullAssumption` and `InstanceAssumption`, for any callers, specs and
numbers:

* `StoredRecordIsValid`, `NoStaleCopy`, `StoreIsAtomic` (the refinement of `WorkUnit` under `record <- file`) and
  `StoreGoesForward`.

Each transition has a lemma (`CreateKeeps` ... `ReplaceKeeps`): from a valid record it leaves a valid one that is
`Forward` of it. The inductive invariant says that the file is valid, that only the head of the queue may be reading,
and that a reader's copy is the file. It is what makes a write of a stale copy impossible: `StepIsAtomic` concludes that every
step is a transition of `WorkUnit` on the file or leaves the file alone. The `Same...` lemmas identify the
operators of the instance with the module's own.

**`LaunchProofs`**, from `LaunchAssumption` and `NullAssumption`, for any number of overlapping calls, attempts, tasks and
losses: `TypeCorrect`, `OneTask` (`AtMostOneTask`), `LaunchIsAtomic` (`NoLostUpdate`: the
launch implements `WorkUnit`).

`AtMostOneTask` says nothing about who may still create a task. `IInv` follows that right: nobody has it while the unit is
unmarked (`Virgin`); marking gives it to the one call whose `newlyPending` is set; its answer turns it into the one create effect, and
performing that into the task. The rest makes the marking happen once: between lock and answer a call is the lock's holder
(`LockInv`), and its copy is the file, except that the join adapter, which takes another lock, may have advanced the attempt of a
bound unit (`CopyInv`, `Current`). That exception is why `NoLostUpdate` holds although two locks guard one file: what the launch
writes after it has read a bound unit is nothing, and the join writes only bound units (`JoinInv`).

**`WorktreeLaunchProofs`**, from `WorktreeAssumption` and `NullAssumption`, for any number of runs, actions and early ends.

* `TypeCorrect`, `WorktreeHasOneOwner` (`OneOwner`) and `ProvisionedStaysReal` (`ProvisionedIsReal`) need nothing else. Their invariant
  (`Base`) says that the run between claim and verification holds the repository lock and that its receipt says `provisioning`.
* `WorktreeHasOneWriter` (`OneWriter`) and `WriterStaysAccountedFor` (`WriterIsAccountedFor`) assume `MaxLaunches <= 1`, with any number of
  provisionings, resumptions and early ends beside the one launch, and `IsFiniteSet(Runs)`, without which `Cardinality` bounds nothing.
  With two launches `OneWriter` is false (finding 2). `IInv` adds that the launch is the only writer of the record, so that
  its copy is the file at every place (`LaunchAt`), and that no task exists before the receipt is verified (`TaskInv`).

**`ObservationProofs`**, from the assumptions of the module, for any units, attempts, histories, receipts, decisions, turns of the user and
failures: `AcceptanceIsOfTheResult` (`AcceptedIsDecided`), `AcceptanceIsFinal` (`AcceptedStands`), `RecordIsWrittenFirst`
(`CheckpointNotAhead`), `AttemptsAreNotLost` (`AttemptsWereDelivered`), `ContinueIsSafe` (`ContinueIsEarned`).

`AcceptedStands` relates three writers: `decide` works from the checkpoint under a lock of its own while an advance holds a checkpoint it
computed earlier. What makes it inductive is that a current result is frozen: an accepted decision, recorded or on its way to the store, is for the
attempt the record is at and the turn the checkpoint calls current, unless a rejection of that very turn is recorded
(`DecisionInv`); and whatever an advance computes keeps such a result or has seen the rejection (`Follows`). An advance between its two
writes is described from the file: either the unit is not written and the checkpoint to come is one attempt ahead (`StoreInv`), or it is
and nothing is (`WriteInv`). Consumed corrections are `Spent`, so a receipt handed in again finds its attempt gone. The reducer is followed
by lemmas about one member (`MemberInv`), then about a checkpoint, and every step that only adds turns, receipts or decisions is
one application of `Grows`.

**`WavesProofs`**, from `PlanAssumption`, `PoliciesAssumption`, `LivesAssumption` and `WavesAssumption`, for any plan, any number of
processes and any budget of calls and faults: `OnlyEarnedArchives` (`ArchiveIsEarned`), `NothingIsAskedTwice` (`RequestedOnce`),
`OnlyAcceptedWavesAreCleaned` (`CleanedIsEarned`), `LaterWavesHaveTheirTurn` (`OfferIsEarned`).

Every call here acts on what it read earlier, in a store that others write. The argument is that what it relies on is never taken back.
`View` collects it: persisted units, accepted spin-offs and their attempts, the records, the user's confirmations. Every
step moves it `Onward`: an accepted attempt stays the current one, since a verdict is given once and only a rejected attempt is
corrected; a record whose cleanup began keeps its action and policy (`Goes`). All the invariants of jobs, effects and
files are stated over a view and survive an `Onward` move (`JobKeeps`, `EffectKeeps`, `RunKeeps`, ...), so that an action only has to
show what it adds. `Advance` looks at the units of the last verified wave only (`Observed`); that those of the waves before it
are accepted too rests on `OrderInv`: work units are only of waves that were handed out. `RunInv` says that the verified waves are `1 .. k`: that is what makes `create`, which writes marks it read
before, harmless for these properties (it may take marks back, finding 4, but leaves an ordered prefix of earned ones), and it
turns "the last verified wave is settled" into "every wave before the next one is". A spin-off that is about to be settled under `ask`
was named by the user, has a receipt or is past the question (`ToSettle`), and asking for the archive excludes the last two.
The type invariant of `Waves` is not a theorem: `offered \subseteq Waves` needs a plan without an empty first wave.

**`RuntimeProofs`**, the installation. `InstallIsWhole` (`AllOrNothing`) and `MarkerDecides` (`CommitDecides`) are theorems of `InstallSpec` for any roots,
releases, crashes, failed steps and edits, from `MarketplaceAssumption` and `InstallAssumption`, which only keeps the values that mark "nothing"
apart from the others. `InstallBesideWorkers` states both of `Runtime`'s `Spec`. `InstallInvariant.tla` has the invariant, `InstallInv`, which
TLC finds to hold in all 219,263 states of the `install` run.

* A program is computed from what the installer finds, so there is no fixed list of places to give an assertion for. But its steps that are not about
  the marketplace always come in one order (`Rank`), whatever is left out. A program can then be followed by its set of steps: `Program(t, W)` says that
  t is in order and that W is what it holds besides steps of the marketplace. Taking the first step takes the least one of W (`ProgramTail`);
  putting a piece in front adds to it (`ProgramConcat`); the marketplace's own pieces add nothing (`QuietConcat`, `SettlementIsQuiet`).
* `Rests(v, ...)` says what is on disk: with an active journal, a rollback would end with v (`Undoable`, place by place: `Restorable`); with a committed
  one or none, the surfaces are of v.
* `Mode` says what the installer's work W still owes: going forward (`Advances`) every surface is as it was, moved aside, or of the new release, according
  to which of its steps are still in W; going back (`Undoes`) every surface is back unless its step is in W or was noted as failed; after the
  marker or a complete rollback (`Clears`) the surfaces stand and every backup has its `clean` in W. W empty and no journal is `AllOrNothing`; the marker
  with nothing but cleaning left is `CommitDecides`.
* `HeadMode` concludes from the step at hand how far the installer is. Then each action has one lemma for the installer of `Main` (`MainRecords` ...
  `MainRecovers`, `MainFails`) and, where it can be taken at all, one for another root (`OtherBegins` ...), which moves no surface. `MainMoves` and
  `OthersMove` put the pieces of the invariant together once for all of them.

**`RuntimeProofs`**, the marketplace, from the same assumptions and for any saves of the user: `EditIsKept` (`EditSurvives`), `TracesAreSettled`
(`OwnTracesAreSettled`) and `InstalledStaysListed` (`InstalledIsListed`). The last one also assumes `Earlier \notin Releases`: of the entry of a
release that was there before the first installer nothing is known. `MarketplaceBesideWorkers` states the first two of `Runtime`'s `Spec`.
`MarketplaceInvariant.tla` has the invariant, `MarketInv`, which TLC finds to hold in all 219,263 states of the `install` run.

* None of the three is inductive: a crash leaves nothing of the program but its exchange files, and a program relies on what it has checked many
  steps ago, while the user may save between any two of them. `Settleable` is what every cut leaves. Without an intent there are no exchange files.
  With one the intent is an honest update (`Adds`), and there are two cases. If nobody saved since, the files hold nothing but the two contents of the
  intent, or a half-written candidate, and the content a recovery wants is not lost (`Traces`). If somebody did, the save is in the file, or was
  just renamed from it (`Saved`).
* `Placed` says what a program relies on at each of its places. Within the marketplace's part (`Within`) the places are those of an update
  or of one of the recovery's plans: it writes anew, completes, cleans, restores a file or takes one out. At each of them the file is what the program
  last compared or linked, unless the user has saved since (`FileIs`, `TakenIs`): this is why the renames and links of the code, which never
  overwrite, suffice. Between those parts (`Between`) it is enough to know which steps of the marketplace are still to come, and that an
  installer that goes for its marker has brought the file up to date.
* `Listed` follows the entry from the marker to the removal of the intent: until then the intent of a committed root keeps it.
* Each step has a lemma for each place, and each plan of a recovery one that says at which place it starts, for every state that is
  `Settleable`. `InstallInv` is used for what the marker and the stages mean.

**`RuntimeProofs`**, the mutation fence, for any releases, roots, checkouts, failures and edits, with `IsFiniteSet(Workers)`: `NoWorkerIsStale`
(`NoStaleCommit`), `CommitsAreOfOneGeneration` (`OneGenerationCommits`). A lease has a generation and excludes an installer (`LeaseInv`), so
what a call was admitted against is what is still installed (`AdmittedInv`); the installer, for its part, touches nothing without a run
(`IdleInstaller`). Two leased workers of an unmixed registry are of one generation, which is where finiteness is used.

**`PlanningProofs`**, from `PlanningAssumption` and `ResponsesAssumption` (a plan has a list of slices), for any calls, answers of planners, turns,
losses and crashes: `OnePlanner` (`OnePlan`), `PlanHolds` (`PlanIsCurrent`), `ScheduleHolds` (`ScheduleIsSafe`) and `TypeCorrect`. `PlanHolds`
has one hypothesis, `TurnsAreReported`: of a planner that gets a second turn the host misreports none. Section 6 says what happens otherwise.

* `OnePlan` is about what has happened and says nothing about who may still launch. `IInv` follows that right: nobody has it before there
  is a record, creating the record gives it to one answer, the answer turns into one effect, the effect into the planner (`LaunchInv`). Then
  every receipt is of a planner that is there, a call that works on a receipt has the lock and a record without a result (`WorkInv`), and every plan
  handed out is the one that follows from the result of the record (`Given`), which is written once (`RecordGrows`).
* `PlanIsCurrent` relates a record to turns that ended long ago, while the host goes on and `read` receipts wait in the queen's hands. `TurnInv`
  says that a turn somebody refers to is over, and stays so: the turn of a receipt (`Booked`), of a read effect (`Readable`), of a job that
  looked at the host before the host went on (`LookedAt`, `Settled`). What was said up to a turn that is over does not change (`HostGrows`).
  `Calm` excludes the misreported turns, and there alone the hypothesis is used.
* `ScheduleIsSafe` is about what recursive functions compute, for a list of slices of any length. `Recursion` gives a recursive function over
  `0 .. N` its equations and its range, by the well-foundedness of the naturals (`Induction`), and the lemmas build on it: `OnlyFacts`, `WaveFacts`,
  `ScheduleFacts`. The waves so far stay `Sound` (no slice twice, none before one it needs, none too large), and a round of the loop adds
  a slice unless none is ready, so as many rounds as there are slices leave no slice ready (`Exhausts`). `ReplanFacts`: of a plan that schedules
  completely, what is left without its completed slices does too, since of the slices left over one of the earliest wave of the old plan
  would be ready (`Smallest`). `UsableInv` says that a result that is recorded was accepted, so its plan is such a plan.
* TLC finds the first two invariants to hold in all 224,398 states of the `planning` run.

**`BridgeProofs`**, from `BridgeAssumption` and `NullAssumption`, for any calls, attempts, faults and turns: `UnappliedIsCertain`
(`CertainIsUnapplied`) and `WakesOnce` (`WakeOnce`). The conditions are in the properties. Both except an attempt that was `cut`: sent, and then
rejected with `bridge-closed`, `input-unavailable` or `request-rejected` by a close, the failed write of another request or a refused initialize
(finding 9); an error that is the request's own answer, or that it gets before it is sent, is no exception. `WakeOnce` also excepts an app server
that ignores SIGTERM (section 6). For the first, whatever was or may yet be applied belongs to an attempt that is in flight with
an answer that is no rejection, that was cut, or that has ended as uncertain or done (`CertainInv`). For the second, every delivered wake is
excused from another delivery: its call is in flight, over or cut, or it is searching and will find it (`Excused`). Without lingering
app servers nothing of a dropped connection is applied later.

**Only model-checked:**

* Liveness (`DeadOwnerIsReclaimed`, `CreatedTaskIsBound`, `JoinSettles`, `PlanningSettles`, `Recovers`, `CallsEnd`): liveness under fairness and
  `ENABLED` are beyond the proof system.
* What `Prerequisites` and the recursive functions outside `Planning` compute: the theorems hold whatever they are, and treat `Prerequisites(w)` as
  some set.
* The type invariants of `Observation`, `Waves`, `Bridge`, `Install` and `Runtime`: they are in no configuration, TLC finds each of them to hold
  in the instances of the runs.

No module declares a recursive operator.

## 5. Findings

1. **A waiter can take the lock from its next holder** (`lock_exit`, `src/task-state.mjs:194`). The waiter reads
   `owner.json`; the owner releases and its process exits; a third process takes the lock; the waiter probes
   the process it read about, finds it gone and renames the directory that is there now. The CLI exits after
   each command, so this needs only one short-lived process among three.
2. **Two `worktree launch` commands start two tasks in one worktree** (`bin/nelos:838`). The launch
   mark of the second is taken as a replay of the first. TLC refutes `OneWriter` in `MCWorktreeLaunch.cfg` with `MaxLaunches = 2`.
3. **A stale result is not observed again** (`src/orchestration-observation.mjs:367`). The documentation
   says to wait for and read the current turn; the wait leaves terminal members out and the read's action id
   has been consumed. TLC refutes `StaleIsObservedAgain` of `Observation` in `MCObservationSettles.cfg`.
4. **A replay of `nelos_plan_slices` takes back a mark** (`src/plan-run-store.mjs:752`). `create` reads without the lock and, for a plan with
   spin-offs, always finds something to adopt; it writes the marks it read. TLC refutes `ProgressIsDurable` of `Waves` in `MCWaves.cfg`.
5. **A wave is marked cleaned and the next one offered while joined members are undecided** (`src/spinoff-lifecycle.mjs:1075`).
   `LaterWaveWaits` of `Waves`, in `MCWaves.cfg`.
6. **Two cleanups leave two policies in one web** (`src/spinoff-lifecycle.mjs:797`), after which every cleanup of the web throws.
   `OnePolicyInForce` of `Waves`, in `MCWaves.cfg`.
7. **Accepted spin-offs are archived while required siblings are pending** (`src/spinoff-lifecycle.mjs:755`); two lines of one document
   say opposite things about it.
8. **A lost lease goes unreported** (`src/mcp-server.mjs:1431`): health asks for the generations and the worker's own failure to
   register, not for its lease.
9. **The bridge calls a mutation certainly unapplied that was sent and may be applied** (`src/mcp-app-server-bridge.mjs:1440`): all that
   is pending gets the error of a close (`bridge-closed`), of another request's failed write (`input-unavailable`, lines 657 and
   729) or of a refused initialize beside a request that was written before the child was initialized, and line 288 lists these codes as certainly
   unapplied. TLC refutes `CertainIsUnapplied` of `Bridge` once the exception for a `cut` attempt is taken out, and with the exception
   narrowed to a closed bridge as well. A wake of this kind may be delivered twice: its caller has no reason to ask for the reconciliation.

Findings 2 to 6 and 9 were each confirmed with TLC in the way given; only the first has a run of its own.

Read in the code while it was modelled, and not shown by a run:

* `bin/nelos:1101` says "an older in-flight response cannot regress it". With equal or absent `updatedAt` the comparison falls back on
  `observedAt`, so a slow older response that is applied later regresses the disposition. `runStart` and `runSend`
  patch the task's record (lines 1749 and 1883) without the registry lock and can undo an archive that comes in between.
* `src/mcp-server.mjs:314` derives another source id for a queen that comes back from the archive than a repetition of the same call does: a plan
  that was planned before the archive then throws "queen web identity ... conflicts with persisted web identity" every time, a new one
  gets a second plan run in the same web.
* `src/exception-replanning.mjs:355` checks that completed slices are preserved after the lifecycle has become "completed", so every
  replay throws; only another idempotency key goes on.
* `src/distribution-install.mjs:2626` says "any on-time or late host refresh left the committed cache intact"; one that lands after the verification
  is not seen.
* `AppServerClient.connect` (`src/app-server-client.mjs:103`) has no handler for a connection that ends cleanly during the handshake, and does
  not settle then. The bridge writes to the child's input without an error handler; a write error that the stream reports itself
  therefore ends the process, though perhaps after a report of finding 9 is out.
* If the initialize answer and a malformed line come in one chunk, the bridge's health says "ready" with no child until the next request
  (`ConnectsInVain`).
* A bridge that could not write its initialize request never connects again: `#ready` keeps the rejection (link `stuck`).
* `acquireInstallLock` moves a stale owner's lock the way the state lock does (finding 1).

## 6. Behaviour outside the checked bounds

The passing runs assume the following away. Where a configuration is named, it was tried with TLC and
does what is said here.

* A live process held up for more than 30 s between `mkdir` and `owner.json`: its directory is taken for abandoned and
  two callbacks run (`lock` with `MaxStalls = 1`).
* Hosts that offer process ids only (`Strong = {}`): a reused id keeps a dead owner's lock until that process ends
  too. The lease rule prefers waiting to stealing.
* A turn of the user between the read of a result and the decision: `decide` refuses, the member is terminal and
  not waited for, the join stays at `decide` (`join_settles` without the condition on `userTurns`). The safety properties of
  `join_settles` are checked with such turns; `JoinSettles` is promised only without.
* A queen that restarts between the read and the decision: `decide` needs the exact receipt, and no effect reads the result
  again (`join_settles` without the condition on `restarts`).
* Receipts that fall out of the newest 1,000 are refused by `decide`; `docs/observation-join.md` documents the
  compaction. `join` shows that no wrong `continue` comes of it, not that the join ends.
* An app server that goes on working after SIGTERM: a wake that timed out may be applied after the search of its repetition, and the queen
  gets it twice (`bridge`: `WakeOnce` without the condition on `lingers`). The code relies on the signal being faster than the next
  connection.
* A wake or an archive that was sent and then cut by `close`, by another request's failed write or by a refused initialize (finding 9). All of
  these steps are in the runs; the two properties except the calls they hit.
* A planner's turn that the host misreports as interrupted, followed by a second turn: a response of the earlier turn can be booked to the later
  one (`planning` with the mix `Start(1, 2, 1, 0, 0, 0)` refutes `PlanIsCurrent`; `test/planning-lifecycle.test.mjs:413` says "accepts
  responses only from the current terminal native turn").
* A user who saves the marketplace after a crash: every later installer refuses until the traces are taken away by hand, by
  design (`Recovers` excepts it).
* A lost archive effect is never given again; cleanup offers only a reconciliation. An `ask` policy with an empty confirmation leads to
  "complete". A completion whose summary differs from the recorded one throws every time.

One recovery inside the bounds is worth knowing: when `advance` stops between its two writes on the receipt of the
last correction, the same receipt may be refused on the retry, because no correction is left at the new attempt. What gets
the join going again in `join_settles` is the next `advance` without a receipt, which drops the old evidence.

## 7. Not modelled, and why

* **Web registry and task web**, execution map, web inspection: records of webs and tasks, patched without a lock of their own (a hazard
  without a property), and projections of the stores.
* **Launch gate, contracts, work results, configuration, routing**: pure functions and one locked configuration file. `Observation` takes
  the verdict on a result as an input, `Waves` the policy. The checks of a batch before it is verified are read-only.
* **Experimentation, compatibility evidence, doctor, provenance, uninstaller**: tooling beside the orchestration; collected evidence
  and its validators.
* **MCP framing and schemas** (`src/protocol-contract`), prompts, reports: no state.
* In `Observation`: replaced bindings of members; the dependency graph of `decide` (`deriveWebReadinessV1`) has no state. The multi-unit
  reducer of `web-orchestration.mjs` only lends its action id to `Launch`.
* In `Waves`: derived plan runs of a replan; remembering a policy, a write of the configuration.
* In `Planning`: the planner's prompt, the routing of slices, topology checks, system errors of the thread, and the one-shot
  `nelos_plan_bootstrap`.
* In `Marketplace` and `Install`: I/O failures of the marketplace other than a crash; modes and path checks; the legacy transaction
  paths; transaction ids; the integrity digests; surfaces of the roots other than `Main`. A stage that a crash leaves before its journal entry
  exists is only lost space.
* In `Runtime`: heartbeats, which only matter where the start time of a process cannot be read. Every release has its own cache path.
* In `Bridge`: `synchronizeQueenTitle`, whose window between read and set its comment excludes; `collaborationAgentStatus`
  (`Planning` has its answer); what a batch collects from its reads; the flags of an active thread; `app-server-client.mjs`. No tool of the
  MCP server calls `deliverParentWake` or `archiveThread`: the callers that share the connection are those of the exported class.
* A corrupted file (JSON cut short, wrong mode, symbolic link) is refused by every store and is not modelled, except where the installer
  itself leaves one.

The modules cover the orchestration core and the installer; by lines they are a smaller part of the repository, much of which
is schemas, contracts, evidence and command-line plumbing.

## 8. Plan

Done: the lock, the store and its refinement, launch, worktrees, join and decisions, waves and spin-offs, planning, installation,
the marketplace, the mutation fence, the bridge; theorems for the safety properties of all of them.

Left, in this order:

1. The registry of webs and tasks: patches without a lock, the allocation of web ids, the queen that comes back from the archive.
2. A composition of `Launch`, `Observation` and `Waves` over one work-unit record.
