------------------------------- MODULE Runtime -------------------------------
(***************************************************************************)
(* The workers of a release beside the installer (runtime-worker-registry, *)
(* runtime-mutation-fence, runtime-identity and the start, the calls and   *)
(* the shutdown of mcp-server.mjs).  A worker imports its code from the    *)
(* plugin cache or from a checkout, derives its identity, registers a      *)
(* lease, and asks for its health before a mutating call and again before  *)
(* the rename that makes it durable.  The installer holds the lock of the  *)
(* registry from before its first step to after its last, and starts only  *)
(* when no lease is alive.                                                 *)
(*                                                                         *)
(* A lease lives as long as its process: its owner's start time can be     *)
(* read.  The answer of the health is split where it waits for the lock.   *)
(***************************************************************************)
EXTENDS Install, FiniteSets

CONSTANTS
  Workers,
  Checkouts,  \* source checkouts a worker may run from
  MaxBoots    \* starts of workers that are explored

ASSUME RuntimeAssumption ==
  MaxBoots \in Nat /\ Checkouts \cap (Releases \cup {None, Earlier}) = {}

VARIABLES
  worker,  \* what every worker process is doing
  boots

runtime == <<worker, boots>>

Phases ==
  {"off", "imported", "identified", "unregistered", "serving",
   "admitting", "admitted", "rechecking", "committing"}

Off == [phase |-> "off", code |-> None, identity |-> None, draining |-> FALSE]

RuntimeInit == InstallInit /\ worker = [w \in Workers |-> Off] /\ boots = 0

KeepInstaller == UNCHANGED installer

Becomes(w, phase) == worker' = [worker EXCEPT ![w].phase = phase]

\* The lock of the registry is free.
Free == run = None

Leased(w) ==
  worker[w].phase \in {"serving", "admitting", "admitted", "rechecking", "committing"}

-----------------------------------------------------------------------------
(* runtime-identity.mjs *)

\* Every release has a path of its own in the cache.
PathPresent(code) == code \in Checkouts \/ disk["cache"] = code

\* resolveRuntimeHealthV1: nothing installed to compare with is no proof of a
\* stale generation; a release other than the worker's own is.
Current(w) ==
  /\ worker[w].identity # None /\ PathPresent(worker[w].identity)
  /\ disk["cache"] \in {None, worker[w].identity}

Generations == {worker[v].identity : v \in {u \in Workers : Leased(u)}}

\* #inspectUnlocked
Bug_DrainingIsGone ==
  Cardinality({worker[v].identity : v \in {u \in Workers : Leased(u) /\ ~ worker[u].draining}})
    <= 1

Unmixed == Cardinality(Generations) <= 1

-----------------------------------------------------------------------------
(* A worker *)

Import(w) ==
  /\ worker[w].phase = "off" /\ boots < MaxBoots
  /\ \E code \in (Checkouts \cup {disk["cache"]}) \ {None} :
       worker' = [worker EXCEPT ![w] = [Off EXCEPT !.phase = "imported", !.code = code]]
  /\ boots' = boots + 1 /\ KeepInstaller

\* deriveRuntimeIdentityV1 reads the directory that the code came from; a
\* worker without an identity does not register and never mutates.
Derive(w) ==
  /\ worker[w].phase = "imported"
  /\ IF PathPresent(worker[w].code)
     THEN worker' = [worker EXCEPT ![w].phase = "identified", ![w].identity = worker[w].code]
     ELSE Becomes(w, "unregistered")
  /\ UNCHANGED boots /\ KeepInstaller

Register(w) ==
  /\ worker[w].phase = "identified" /\ Free
  /\ Becomes(w, "serving") /\ UNCHANGED boots /\ KeepInstaller

\* The lock is not free in time: the failure stays with the worker.
RegisterTimesOut(w) ==
  /\ worker[w].phase = "identified" /\ ~ Free
  /\ Becomes(w, "unregistered") /\ UNCHANGED boots /\ KeepInstaller

\* A mutating call: the health is asked for, first the installed identity...
Admit(w) ==
  /\ worker[w].phase = "serving" /\ Current(w)
  /\ Becomes(w, "admitting") /\ UNCHANGED boots /\ KeepInstaller

Recheck(w) ==
  /\ worker[w].phase = "admitted"
  /\ Becomes(w, IF Current(w) THEN "rechecking" ELSE "serving")
  /\ UNCHANGED boots /\ KeepInstaller

\* ...then the registry, under its lock, which no installer takes while a
\* lease is alive.
Inspect(w) ==
  /\ worker[w].phase \in {"admitting", "rechecking"} /\ Free
  /\ Becomes(w, IF ~ Unmixed THEN "serving"
                ELSE IF worker[w].phase = "admitting" THEN "admitted" ELSE "committing")
  /\ UNCHANGED boots /\ KeepInstaller

\* The rename; once entered it is not stopped.
CommitMutation(w) ==
  /\ worker[w].phase = "committing"
  /\ Becomes(w, "serving") /\ UNCHANGED boots /\ KeepInstaller

\* shutdown: the calls under way are finished, then the lease is removed.
Drain(w) ==
  /\ Leased(w) /\ ~ worker[w].draining /\ Free
  /\ worker' = [worker EXCEPT ![w].draining = TRUE]
  /\ UNCHANGED boots /\ KeepInstaller

RemoveLease(w) ==
  /\ worker[w].phase = "serving" /\ worker[w].draining /\ Free
  /\ worker' = [worker EXCEPT ![w] = Off]
  /\ UNCHANGED boots /\ KeepInstaller

\* The process ends: killed, forced out of a shutdown, never registered.
Exit(w) ==
  /\ worker[w].phase # "off"
  /\ worker' = [worker EXCEPT ![w] = Off]
  /\ UNCHANGED boots /\ KeepInstaller

WorkerStep(w) ==
  \/ Import(w) \/ Derive(w) \/ Register(w) \/ RegisterTimesOut(w)
  \/ Admit(w) \/ Recheck(w) \/ Inspect(w)
  \/ CommitMutation(w) \/ Drain(w) \/ RemoveLease(w) \/ Exit(w)

-----------------------------------------------------------------------------
(* The installer asks the registry under its lock. *)
Bug_StartsBesideWorkers == TRUE

NoWorkers == \A w \in Workers : ~ Leased(w)

Install(r) == NoWorkers /\ Start(r) /\ UNCHANGED runtime

Next ==
  \/ InstallerStep /\ UNCHANGED runtime
  \/ \E r \in Roots : Install(r)
  \/ \E w \in Workers : WorkerStep(w)

Spec == RuntimeInit /\ [][Next]_<<installer, runtime>>

-----------------------------------------------------------------------------
(* Type invariant. *)
TypeOK ==
  /\ InstallTypeOK
  /\ \A w \in Workers :
       /\ worker[w].phase \in Phases
       /\ worker[w].identity \in {None, worker[w].code}
       /\ Leased(w) => worker[w].identity # None

(* No mutation becomes durable while an installer is at work, nor by a      *)
(* worker of a release that is no longer the installed one, although the    *)
(* last question a worker asks is answered before it renames.               *)
NoStaleCommit ==
  \A w \in Workers : worker[w].phase = "committing" =>
    run = None /\ disk["cache"] \in {None, worker[w].identity}

(* Two generations never commit side by side: the one that was let in first *)
(* keeps the other out until its own commit, and its shutdown, are over.    *)
OneGenerationCommits ==
  \A v, w \in Workers :
    worker[v].phase = "committing" /\ worker[w].phase = "committing" =>
      worker[v].identity = worker[w].identity
=============================================================================
