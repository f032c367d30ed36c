------------------------------ MODULE Reconcile ------------------------------
(***************************************************************************)
(* The daemon's reconciliation of one deployment with its worker           *)
(* (internal/daemon/reconcile.go, registry.go, the lifecycle in worker.go  *)
(* and Run in daemon.go), over the store, with the health row that workers,*)
(* launches and operator commands all write (internal/storage/health.go).  *)
(*                                                                         *)
(* One pass at a time lists the deployment, reads the worker's slot under  *)
(* a lock and acts on it after the lock is released.  Each worker has a    *)
(* goroutine that serves it and settles its end; operator commands come    *)
(* from other processes between any two steps.                             *)
(*                                                                         *)
(* A definition named ..._Mutant is the one after it with a bug a change   *)
(* to the code could introduce; nothing uses it.                           *)
(***************************************************************************)
EXTENDS Store

CONSTANTS
    Continuous,  \* the artifacts whose plan is continuous
    Thresholds,  \* the failure thresholds that a deployment may be given
    MaxFailures  \* bound: failures are counted up to it

\* A name that is deployed again after a purge has another id, and a slot of
\* its own.
ASSUME OneRowAssumption == MaxDeployments = 1

ASSUME ThresholdsAssumption ==
    MaxFailures \in Nat \ {0} /\ Thresholds \subseteq 1..MaxFailures

VARIABLES
    health,     \* the row of table deployment_health
    threshold,  \* deployments.failure_threshold
    policies,   \* history: each threshold since the failures were last zero
    workers,    \* every worker ever started, and the goroutine that serves it
    slot,       \* Daemon.workers: the deployment's entry, if it has one
    pass        \* where the daemon's main goroutine is, and its local variables

policy == <<threshold, policies>>

vars == <<storeVars, health, policy, workers, slot, pass>>

\* starting is status = 'starting'; the other values follow from failures and
\* from whether the generation stopped, and nothing reads them back.
Health ==
    [generation : Nat, starting : BOOLEAN,
     failures : 0..MaxFailures, notified : BOOLEAN]

Worker ==
    [generation : Nat, artifact : Artifacts, configRevision : Nat,
     \* The process runs until it is "exited": what it wrote is still read, by a
     \* goroutine that may be "stranded" waiting for a reader that left.  Then
     \* serve returned an error not yet counted, one that was counted, or none.
     relay : {"handshake", "serving", "exited", "stranded",
              "uncounted", "erred", "ended", "gone"},
     timer : BOOLEAN,     \* workerStableAfter is still to come
     reported : BOOLEAN]  \* it stops after a failure that was recorded

\* worker is 0 once the goroutine has cleared it; waiting is before nextStart.
Slot == [worker : Nat, waiting : BOOLEAN]

\* Also an entry that has neither.
NoSlot == [worker |-> 0, waiting |-> FALSE]

Pass ==
    [at : {"down", "idle", "list", "resolve", "record", "read", "launch",
           "start", "ready", "failed", "fenced", "sweep",
           "stopUnresolved", "stopChanged", "stopInactive", "stopAll", "wait"},
     existing : Nat,     \* the worker read from the slot
     stopping : Nat,     \* the worker that stop was called on
     closing : BOOLEAN]  \* the daemon's context is cancelled

Running(w) == workers[w].relay = "serving"

\* serve goes on with what it reads.
Served(w) == workers[w].relay \in {"serving", "exited"}

\* serve starts the timer of a continuous plan, and stops it when it returns: what
\* a worker stopped for no longer matters to a goroutine that will not read it.
Relay(w, relay) ==
    workers' = [workers EXCEPT
        ![w].relay = relay,
        ![w].timer =
            \/ /\ workers[w].relay = "handshake" /\ relay = "serving"
               /\ workers[w].artifact \in Continuous
            \/ @ /\ relay \in {"serving", "exited", "stranded"},
        ![w].reported = @ /\ relay \in {"serving", "exited"}]

At(stage) == pass' = [pass EXCEPT !.at = stage, !.existing = 0, !.stopping = 0]

\* To the end of a pass that found the deployment active: no slot to remove.
Continue == At("idle")

Delayed == slot' = [slot EXCEPT !.waiting = TRUE]

-----------------------------------------------------------------------------
(* Health *)

Ensured_Mutant(generation, starting) ==
    health' = [health EXCEPT
        !.generation = generation, !.starting = starting, !.failures = 0]

\* ensureDeploymentHealth keeps the failures and the latch.
Ensured(generation, starting) ==
    health' = [health EXCEPT !.generation = generation, !.starting = starting]

\* The fence of every outcome.  Runs further need the health row to be at their
\* generation.
MayRecord(w) ==
    /\ deployment.status = "active"
    /\ deployment.activeGeneration = workers[w].generation

Reached(failures) == failures >= threshold

\* The failure is counted, and announced when it reaches the threshold and the
\* one before did not.
Counted(generation) ==
    /\ health' =
        [generation |-> generation, starting |-> FALSE,
         failures |-> IF health.failures = MaxFailures
                      THEN MaxFailures ELSE health.failures + 1,
         notified |-> health.notified \/ Reached(health.failures + 1)]
    /\ UNCHANGED policy

\* A success ends the outage, announced if its start was.
Recovered ==
    /\ health' = [health EXCEPT
            !.starting = FALSE, !.failures = 0, !.notified = FALSE]
    /\ policies' = {threshold}
    /\ UNCHANGED threshold

\* Nothing is counted and nothing forgotten.
Deferred ==
    /\ health' = [health EXCEPT !.starting = @ /\ health.failures = 0]
    /\ UNCHANGED policy

\* MarkGenerationStopped: an error stays on show, a clean stop is "stopped".
Stopped(w, error) ==
    /\ MarkGenerationStopped(workers[w].generation)
    /\ health' = IF ~error /\ health.generation = workers[w].generation
                 THEN [health EXCEPT !.starting = FALSE] ELSE health

RecordGenerationFailure(w) ==
    /\ IF MayRecord(w) THEN Counted(deployment.activeGeneration)
       ELSE UNCHANGED <<health, policy>>
    /\ UNCHANGED storeVars

-----------------------------------------------------------------------------
(* Commands, which run in processes of their own *)

\* A deploy command that was built on the current state: the failures so far and
\* the latch are now held against another threshold.
Deploy(artifact, config, state, expiry) ==
    /\ ReplaceDeployment(artifact, config, state, expiry)
    /\ UNCHANGED builds
    /\ threshold' \in Thresholds
    /\ policies' = {threshold'} \cup IF health.failures = 0 THEN {} ELSE policies
    /\ Ensured(0, TRUE)

OtherCommand ==
    \/ PauseDeployment /\ Ensured(0, FALSE)
    \/ /\ \E expiry \in Expiries : ResumeDeployment(expiry)
       /\ Ensured(0, TRUE)
    \/ /\ \E base \in 0..MaxRevision, state \in States : ReplaceState(base, state)
       /\ Ensured(0, deployment.status = "active")
    \/ ClearCheckpoints /\ Ensured(0, FALSE)
    \/ ExpiryPasses /\ UNCHANGED health

OtherProcess ==
    /\ \/ OtherCommand /\ UNCHANGED policy
       \/ \E artifact \in Artifacts, config \in Configs, state \in States,
             expiry \in Expiries :
            Deploy(artifact, config, state, expiry)
    /\ UNCHANGED <<workers, slot, pass>>

-----------------------------------------------------------------------------
(* A pass *)

\* Every pass first ends what is due.
Begin ==
    /\ pass.at = "idle" /\ ~pass.closing
    /\ IF deployment.status = "active" /\ deployment.expiry = "due"
       THEN DeactivateDueDeployments /\ Ensured(0, FALSE)
       ELSE UNCHANGED <<storeVars, health>>
    /\ At("list")
    /\ UNCHANGED <<policy, workers, slot>>

\* The slot is read under the lock.  Between attempts of a failing deployment
\* nothing is done.
List ==
    /\ pass.at = "list" /\ ~pass.closing
    /\ IF deployment.status = "active" /\ deployment.expiry # "due"
       THEN /\ ListRuntimeMetadata
            /\ pass' = [pass EXCEPT !.at = "resolve",
                        !.existing = slot.worker]
       ELSE At("sweep") /\ UNCHANGED storeVars
    /\ UNCHANGED <<health, policy, workers, slot>>

\* The pass leaves the deployment to a later one.
Forget == listed' = None /\ UNCHANGED <<rows, snapshot, builds, ack, history>>

Waits ==
    /\ pass.at = "resolve"
    /\ pass.existing = 0
    /\ slot.waiting
    /\ Continue /\ Forget
    /\ UNCHANGED <<health, policy, workers, slot>>

\* nextStart comes.
BackOffEnds ==
    /\ slot.waiting
    /\ slot' = [slot EXCEPT !.waiting = FALSE]
    /\ UNCHANGED <<storeVars, health, policy, workers, pass>>

StopWorker_Mutant(stage) ==
    /\ UNCHANGED slot
    /\ pass' = [pass EXCEPT !.at = stage, !.existing = 0, !.stopping = slot.worker]

\* stopWorker takes the slot, whatever it holds by now, and tells the worker.
StopWorker(stage) ==
    /\ slot' = NoSlot
    /\ pass' = [pass EXCEPT !.at = stage, !.existing = 0, !.stopping = slot.worker]

SecretsMissing_Mutant ==
    /\ pass.at = "resolve"
    /\ pass.existing # 0 \/ ~slot.waiting
    /\ At("record") /\ UNCHANGED slot
    /\ Forget
    /\ UNCHANGED <<health, policy, workers>>

SecretsMissing ==
    /\ pass.at = "resolve"
    /\ pass.existing # 0 \/ ~slot.waiting
    /\ IF pass.existing # 0
       THEN StopWorker("stopUnresolved")
       ELSE At("record") /\ UNCHANGED slot
    /\ Forget
    /\ UNCHANGED <<health, policy, workers>>

\* RecordDeploymentFailure, in no generation's name, and the back-off.
RecordUnresolved ==
    /\ pass.at = "record"
    /\ IF deployment.status = "active" /\ ~pass.closing
       THEN Counted(0) ELSE UNCHANGED <<health, policy>>
    /\ Delayed /\ Continue
    /\ UNCHANGED <<storeVars, workers>>

SameLaunch(w) ==
    /\ workers[w].generation = listed.activeGeneration
    /\ workers[w].artifact = listed.artifact
    /\ workers[w].configRevision = listed.configRevision

\* Secrets that resolve to other values replace the worker too.
SecretsResolved ==
    /\ pass.at = "resolve"
    /\ \/ /\ pass.existing # 0 /\ SameLaunch(pass.existing)
          /\ Continue /\ Forget
          /\ UNCHANGED slot
       \/ /\ pass.existing # 0
          /\ StopWorker("stopChanged")
          /\ UNCHANGED storeVars
       \/ /\ pass.existing = 0
          /\ ~slot.waiting
          /\ At("read")
          /\ UNCHANGED <<storeVars, slot>>
    /\ UNCHANGED <<health, policy, workers>>

Sweep_Mutant ==
    /\ pass.at = "sweep"
    /\ Continue
    /\ UNCHANGED <<storeVars, health, policy, workers, slot>>

\* The slot of a deployment that is not listed is removed.
Sweep ==
    /\ pass.at = "sweep"
    /\ StopWorker("stopInactive")
    /\ UNCHANGED <<storeVars, health, policy, workers>>

AfterStop ==
    CASE pass.at = "stopUnresolved" -> At("record")
      [] pass.at = "stopChanged" -> At("read")
      [] pass.at = "stopInactive" -> Continue
      [] pass.at = "stopAll" -> At("wait")

Stopping == pass.at \in {"stopUnresolved", "stopChanged", "stopInactive", "stopAll"}

\* stop waits for the process, not for the goroutine that serves it.
StopReturns ==
    /\ Stopping
    /\ \A w \in {pass.stopping} \ {0} : ~Running(w)
    /\ AfterStop
    /\ UNCHANGED <<storeVars, health, policy, workers, slot>>

\* kill closes the reader's stop channel before its pipe: the reader may find
\* it closed and leave without publishing that its read failed.
StopTimesOut ==
    /\ Stopping
    /\ \E w \in {pass.stopping} \ {0}, relay \in {"exited", "stranded"} :
            Running(w) /\ Relay(w, relay)
    /\ AfterStop
    /\ UNCHANGED <<storeVars, health, policy, slot>>

-----------------------------------------------------------------------------
(* Launching *)

LaunchFails == Delayed /\ Continue

\* A row that changed since it was listed waits for the next pass.
Read ==
    /\ pass.at = "read" /\ ~pass.closing
    /\ GetRuntimeDeployment
    /\ IF snapshot' = None THEN Continue ELSE At("launch")
    /\ UNCHANGED <<health, policy, workers, slot>>

Launch ==
    /\ pass.at = "launch" /\ ~pass.closing
    /\ ActivateGeneration
    /\ Ensured(Len(generations'), TRUE)
    /\ workers' = Append(workers,
            [generation |-> Len(generations'), artifact |-> snapshot.artifact,
             configRevision |-> snapshot.configRevision,
             relay |-> "handshake",
             timer |-> FALSE, reported |-> FALSE])
    /\ At("start")
    /\ UNCHANGED <<policy, slot>>

LaunchRefused ==
    /\ pass.at = "launch" /\ ~pass.closing
    /\ ActivationRefused
    /\ LaunchFails
    /\ UNCHANGED <<health, policy, workers>>

New == Len(workers)

NotStarted ==
    /\ Relay(New, "gone")
    /\ At("failed")
    /\ UNCHANGED <<storeVars, health, policy, slot>>

\* The handshake fails, or takes ten seconds, or the daemon is told to close.
HandshakeFails == pass.at = "start" /\ NotStarted

Handshaken ==
    /\ pass.at = "start"
    /\ At("ready")
    /\ UNCHANGED <<storeVars, health, policy, workers, slot>>

MayServe ==
    /\ generations[workers[New].generation].status = "active"
    /\ health.generation = workers[New].generation

\* Readiness is recorded in the generation and the slot given to the worker,
\* unless the generation was fenced while it started.
Ready ==
    /\ pass.at = "ready" /\ ~pass.closing
    /\ MayServe
    /\ health' = [health EXCEPT !.starting = TRUE]
    /\ slot' = [worker |-> New, waiting |-> FALSE]
    /\ Relay(New, "serving")
    /\ Continue
    /\ UNCHANGED <<storeVars, policy>>

NotReady ==
    /\ pass.at = "ready"
    /\ pass.closing \/ ~MayServe
    /\ NotStarted

CountFailedLaunch ==
    /\ pass.at = "failed"
    /\ RecordGenerationFailure(New)
    /\ At("fenced")
    /\ UNCHANGED <<workers, slot>>

RetireFailedLaunch ==
    /\ pass.at = "fenced"
    /\ Stopped(New, TRUE)
    /\ LaunchFails
    /\ UNCHANGED <<policy, workers>>

-----------------------------------------------------------------------------
(* A worker and the goroutine that serves it *)

\* A store error ends serve, and the worker with it.
ServeFails(w) ==
    /\ Relay(w, "uncounted")
    /\ UNCHANGED <<storeVars, health, policy>>

\* The outcome of a callback, which may be read after the process is gone.
RecordRun(w) ==
    /\ Served(w)
    /\ ~workers[w].reported
    /\ IF MayRecord(w) /\ health.generation = workers[w].generation
       THEN /\ UNCHANGED storeVars
            /\ \/ /\ workers[w].artifact \notin Continuous
                  /\ Recovered \/ Counted(workers[w].generation) \/ Deferred
                  /\ UNCHANGED workers
               \/ \* the failure the worker then stops with
                  /\ Counted(workers[w].generation)
                  /\ workers' = [workers EXCEPT ![w].reported = TRUE]
       ELSE ServeFails(w)
    /\ UNCHANGED <<slot, pass>>

\* A minute of a continuous plan, also for a goroutine whose reader left.
MarkGenerationStable(w) ==
    /\ Served(w) \/ workers[w].relay = "stranded"
    /\ workers[w].timer
    /\ IF /\ MayRecord(w)
          /\ health.generation = workers[w].generation
          /\ health.starting
       THEN /\ Recovered
            /\ workers' = [workers EXCEPT ![w].timer = FALSE]
            /\ UNCHANGED storeVars
       ELSE ServeFails(w)
    /\ UNCHANGED <<slot, pass>>

\* A crash, a fenced transaction, a frame that breaks the protocol, or pipes that
\* end before the worker reports that it stopped.
WorkerFails(w) ==
    /\ Served(w)
    /\ ServeFails(w)
    /\ UNCHANGED <<slot, pass>>

\* It says that the failure it stops with was reported, and nothing is counted.
StopsReported(w) ==
    /\ Served(w)
    /\ workers[w].reported
    /\ Relay(w, "erred")
    /\ UNCHANGED <<storeVars, health, policy, slot, pass>>

\* The worker reports that it stopped, asked to or not, and exits.
WorkerStops(w) ==
    /\ Served(w)
    /\ ~workers[w].reported
    /\ Relay(w, "ended")
    /\ UNCHANGED <<storeVars, health, policy, slot, pass>>

WorkerExits(w) ==
    /\ Running(w)
    /\ Relay(w, "exited")
    /\ UNCHANGED <<storeVars, health, policy, slot, pass>>

CountFailure(w) ==
    /\ workers[w].relay = "uncounted"
    /\ RecordGenerationFailure(w)
    /\ Relay(w, "erred")
    /\ UNCHANGED <<slot, pass>>

Owns_MutantAny(w) == TRUE

\* The slot may have been given to another worker by now.
Owns(w) == slot.worker = w

\* The generation is retired and the slot cleared; after an error the next
\* launch waits.
Settle(w) ==
    /\ workers[w].relay \in {"erred", "ended"}
    /\ Stopped(w, workers[w].relay = "erred")
    /\ Relay(w, "gone")
    /\ slot' = IF Owns(w)
               THEN [worker |-> 0, waiting |-> workers[w].relay = "erred"]
               ELSE slot
    /\ UNCHANGED <<policy, pass>>

-----------------------------------------------------------------------------
(* The daemon process *)

Close ==
    /\ pass.at # "down" /\ ~pass.closing
    /\ pass' = [pass EXCEPT !.closing = TRUE]
    /\ UNCHANGED <<storeVars, health, policy, workers, slot>>

\* With its context cancelled no statement of a pass succeeds: run returns, and
\* stopWorkers takes every slot.
StopWorkers ==
    /\ pass.closing
    /\ pass.at \in {"idle", "list", "read", "launch"}
    /\ StopWorker("stopAll")
    /\ listed' = None /\ snapshot' = None
    /\ UNCHANGED <<rows, builds, ack, history, health, policy, workers>>

\* Every goroutine that was added to the daemon's group is done.
Joined == \A w \in 1..Len(workers) : workers[w].relay = "gone"

ProcessEnds ==
    /\ workers' = [w \in 1..Len(workers) |->
            [workers[w] EXCEPT !.relay = "gone", !.timer = FALSE, !.reported = FALSE]]
    /\ slot' = NoSlot
    /\ pass' = [at |-> "down", existing |-> 0, stopping |-> 0, closing |-> FALSE]
    /\ UNCHANGED <<storeVars, health, policy>>

ClosesCleanly == pass.at = "wait" /\ Joined /\ ProcessEnds

\* Workers exit when their pipes end.
Crash == pass.at # "down" /\ ProcessEnds

Start ==
    /\ pass.at = "down"
    /\ RecoverGenerations
    /\ IF deployment.status = "active" THEN Ensured(0, TRUE)
       ELSE UNCHANGED health
    /\ At("idle")
    /\ UNCHANGED <<policy, workers, slot>>

-----------------------------------------------------------------------------

\* A deployment that was just created.
ReconcileInit ==
    /\ \E artifact \in Artifacts, config \in Configs, state \in States,
          expiry \in Expiries :
            deployment = [NoRow EXCEPT
                !.id = 1, !.status = "active", !.artifact = artifact,
                !.config = config, !.configRevision = 1, !.state = state,
                !.destination = 1, !.expiry = expiry]
    /\ generations = <<>> /\ transactions = {} /\ events = {}
    /\ checkpoints = NoCheckpoints
    /\ listed = None /\ snapshot = None /\ ack = None
    /\ builds = [b \in Builders |-> None]
    /\ commits = <<>> /\ fencedThrough = 0
    /\ health = [generation |-> 0, starting |-> TRUE,
                 failures |-> 0, notified |-> FALSE]
    /\ threshold \in Thresholds /\ policies = {threshold}
    /\ workers = <<>>
    /\ slot = NoSlot
    /\ pass = [at |-> "down", existing |-> 0, stopping |-> 0, closing |-> FALSE]

\* What the daemon's main goroutine does next, whatever it finds.
PassStep ==
    \/ Begin \/ List \/ Waits \/ SecretsMissing \/ SecretsResolved
    \/ RecordUnresolved \/ Sweep \/ StopReturns \/ StopTimesOut
    \/ Read \/ Launch \/ LaunchRefused
    \/ HandshakeFails \/ Handshaken \/ Ready \/ NotReady
    \/ CountFailedLaunch \/ RetireFailedLaunch
    \/ StopWorkers \/ ClosesCleanly

\* What a worker does by itself.
WorkerActs(w) ==
    \/ RecordRun(w)
    \/ MarkGenerationStable(w)
    \/ WorkerFails(w)
    \/ StopsReported(w)
    \/ WorkerStops(w)
    \/ WorkerExits(w)

\* What follows once its process, or the goroutine's serving of it, has ended.
Ends(w) ==
    \/ WorkerFails(w) /\ ~Running(w)
    \/ CountFailure(w)
    \/ Settle(w)

ReconcileNext ==
    \/ OtherProcess
    \/ PassStep
    \/ BackOffEnds
    \/ \E w \in 1..Len(workers) : WorkerActs(w) \/ CountFailure(w) \/ Settle(w)
    \/ Close \/ Crash \/ Start

\* Goroutines that can run do, and nextStart comes.  Secrets resolve and workers
\* complete their handshake at times, or nothing could be said of launches.
ReconcileFairness ==
    /\ WF_vars(PassStep)
    /\ SF_vars(SecretsResolved)
    /\ SF_vars(Handshaken)
    /\ WF_vars(BackOffEnds)
    /\ \A w \in 1..MaxGeneration : WF_vars(w \in 1..Len(workers) /\ Ends(w))

ReconcileSpec == ReconcileInit /\ [][ReconcileNext]_vars /\ ReconcileFairness

-----------------------------------------------------------------------------
(* Properties *)

\* Rows, workers, the slot and the main goroutine hold what their types declare:
\* the slot a worker whose goroutine is not done with it.
ReconcileTypeOK ==
    /\ TypeOK
    /\ health \in Health
    /\ threshold \in policies /\ policies \subseteq Thresholds
    /\ workers \in Seq(Worker)
    /\ slot \in Slot
    /\ slot.worker # 0 => workers[slot.worker].relay \notin {"handshake", "gone"}
    /\ pass \in Pass

Current(w) ==
    /\ slot.worker = w
    /\ Served(w)
    /\ MayRecord(w)

\* The latch of the notices is written by separate statements of four functions,
\* for workers, launches and secrets of any generation, and a deploy command sets
\* another threshold under it.  An outage at or above every threshold that the row
\* had since it began has been announced, and one below all of them has not.  As
\* none is below zero, the end of an outage releases the latch: the next one would
\* be silent.  Without a deploy in between, announced means at the threshold.
OutagesAnnounced ==
    /\ health.notified => \E t \in policies : health.failures >= t
    /\ (\A t \in policies : health.failures >= t) => health.notified

\* A run is only recorded if the health row is at the worker's generation, and
\* an error ends the worker: no late outcome of another generation, and no
\* failure recorded without one, moves the row from under a current worker.
HealthFollowsWorker ==
    \A w \in 1..Len(workers) :
        Current(w) => health.generation = workers[w].generation

\* The slot is read, the lock released, and the slot replaced or removed while
\* goroutines clear it: no process is left running that nothing refers to.
NoWorkerForgotten ==
    \A w \in 1..Len(workers) :
        Running(w) =>
            \/ slot.worker = w
            \/ pass.stopping = w

\* A pass that is about to launch, or has taken the slot to stop its worker, finds
\* the slot empty at every step until the launch fills it.
SlotFollowsPass ==
    /\ slot.worker \in 0..Len(workers)
    /\ pass.existing \in 0..Len(workers)
    /\ pass.stopping \in 0..Len(workers)
    /\ ~Stopping => pass.stopping = 0
    /\ pass.at \notin {"idle", "list", "sweep"}
            /\ (pass.at = "resolve" => pass.existing = 0) => slot.worker = 0
    /\ pass.at \in {"start", "ready", "failed", "fenced"} => workers # <<>>

GenerationsIssued ==
    /\ deployment.artifact \in Artifacts
    /\ \A w \in 1..Len(workers) : workers[w].generation \in 1..Len(generations)

\* The invariants above are inductive together with where a pass leaves the slot,
\* and with the fence, which every worker's generation stands behind.
ReconcileInv ==
    /\ ReconcileTypeOK
    /\ FenceConsistent
    /\ GenerationsIssued
    /\ SlotFollowsPass
    /\ OutagesAnnounced
    /\ HealthFollowsWorker
    /\ NoWorkerForgotten

Undisturbed ==
    /\ pass.at # "down" /\ ~pass.closing
    /\ deployment.status = "active" /\ deployment.expiry # "due"

\* A deployment that stays active is given a worker of its current generation
\* (until the bound on generations); the workers of one that stays inactive end.
\* A daemon that is told to close joins its goroutines and does, or one of them
\* waits for a reader that a kill made leave without its result: worker.go:372.
WorkersFollowDeployment ==
    /\ <>[]Undisturbed =>
            \/ []<>(\E w \in 1..Len(workers) : Current(w))
            \/ <>(Len(generations) = MaxGeneration)
    /\ <>[](pass.at # "down" /\ deployment.status # "active") =>
            <>[](\A w \in 1..Len(workers) : ~Running(w))
    /\ pass.closing ~>
            \/ ~pass.closing
            \/ \E w \in 1..Len(workers) : workers[w].relay = "stranded"

=============================================================================
