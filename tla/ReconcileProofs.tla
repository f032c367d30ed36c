--------------------------- MODULE ReconcileProofs ---------------------------
(***************************************************************************)
(* Theorems about Reconcile, for every value of its constants.  What its   *)
(* steps do to the store's rows comes from the lemmas of StoreProofs.      *)
(***************************************************************************)
EXTENDS Reconcile, StoreProofs

-----------------------------------------------------------------------------
(* What the helpers do *)

\* Moving one worker's relay on leaves the launches, and every other worker, as
\* they were.
LEMMA RelayRows ==
    ASSUME workers \in Seq(Worker), NEW w \in 1..Len(workers),
           NEW relay \in {"serving", "exited", "stranded",
                          "uncounted", "erred", "ended", "gone"},
           Relay(w, relay)
    PROVE  /\ workers' \in Seq(Worker)
           /\ Len(workers') = Len(workers)
           /\ workers'[w].relay = relay
           /\ \A v \in 1..Len(workers) :
                workers'[v].generation = workers[v].generation
           /\ \A v \in 1..Len(workers) : v # w => workers'[v] = workers[v]
<1> DEFINE timer == \/ /\ workers[w].relay = "handshake" /\ relay = "serving"
                       /\ workers[w].artifact \in Continuous
                    \/ /\ workers[w].timer
                       /\ relay \in {"serving", "exited", "stranded"}
           reported == workers[w].reported /\ relay \in {"serving", "exited"}
           row == [workers[w] EXCEPT !.relay = relay, !.timer = timer,
                                     !.reported = reported]
<1>1. workers[w] \in Worker
  OBVIOUS
<1>2. timer \in BOOLEAN /\ reported \in BOOLEAN
  OBVIOUS
<1>3. workers' = [workers EXCEPT ![w] = row]
  BY DEF Relay
<1>4. row \in Worker /\ row.relay = relay /\ row.generation = workers[w].generation
  <2> HIDE DEF timer, reported
  <2> QED
    BY <1>1, <1>2 DEF Worker
<1> HIDE DEF row
<1> QED
  BY <1>1, <1>3, <1>4

\* What ReconcileInv says of the health row and its thresholds.
HealthInv ==
    /\ health \in Health
    /\ threshold \in policies /\ policies \subseteq Thresholds
    /\ OutagesAnnounced

\* No threshold is zero, so a row without failures is below all of them.
LEMMA PoliciesPositive ==
    ASSUME HealthInv
    PROVE  /\ health.failures \in Nat /\ health.notified \in BOOLEAN
           /\ MaxFailures \in Nat /\ threshold \in Thresholds
           /\ \A t \in Thresholds : t \in Nat /\ t > 0 /\ t <= MaxFailures
BY ThresholdsAssumption DEF HealthInv, Health

\* A counted failure is announced if it is the first at the threshold.
LEMMA CountedHealth ==
    ASSUME HealthInv, NEW g \in Nat, Counted(g)
    PROVE  HealthInv' /\ health'.generation = g
<1>1. /\ health.failures \in 0..MaxFailures /\ health.notified \in BOOLEAN
      /\ MaxFailures \in Nat /\ threshold \in Thresholds
      /\ \A t \in Thresholds : t \in Nat /\ t > 0 /\ t <= MaxFailures
  BY PoliciesPositive DEF HealthInv, Health
<1>2. PICK n \in 0..MaxFailures :
        /\ n = IF health.failures = MaxFailures THEN MaxFailures
               ELSE health.failures + 1
        /\ n >= health.failures
        /\ \A t \in Thresholds : n >= t <=> health.failures + 1 >= t
  BY <1>1
<1>3. PICK notified \in BOOLEAN :
        notified = (health.notified \/ health.failures + 1 >= threshold)
  BY <1>1
<1>4. health' = [generation |-> g, starting |-> FALSE, failures |-> n,
                 notified |-> notified]
  BY <1>2, <1>3 DEF Counted, Reached
<1>5. /\ health' \in Health /\ health'.generation = g
      /\ health'.failures = n /\ health'.notified = notified
  BY <1>2, <1>4 DEF Health
<1>6. UNCHANGED <<threshold, policies>>
  BY DEF Counted, policy
<1>7. notified => \E t \in policies : n >= t
  <2>1. CASE health.notified
    <3>1. PICK t \in policies : health.failures >= t
      BY <2>1 DEF HealthInv, OutagesAnnounced
    <3>2. t \in Nat
      BY <1>1 DEF HealthInv
    <3> QED
      BY <1>1, <1>2, <3>1, <3>2
  <2>2. CASE health.failures + 1 >= threshold
    BY <1>1, <1>2, <2>2 DEF HealthInv
  <2> QED
    BY <1>3, <2>1, <2>2
<1>8. (\A t \in policies : n >= t) => notified
  BY <1>1, <1>2, <1>3 DEF HealthInv
<1> QED
  BY <1>5, <1>6, <1>7, <1>8 DEF HealthInv, OutagesAnnounced

\* What only moves the row's generation, its display or both keeps count and latch.
LEMMA EnsuredHealth ==
    ASSUME HealthInv, UNCHANGED policy,
           NEW g \in Nat, NEW starting \in BOOLEAN, Ensured(g, starting)
    PROVE  HealthInv' /\ health'.generation = g
<1>1. health' = [health EXCEPT !.generation = g, !.starting = starting]
  BY DEF Ensured
<1>2. /\ health' \in Health /\ health'.generation = g
      /\ health'.failures = health.failures
      /\ health'.notified = health.notified
  BY <1>1 DEF Health, HealthInv
<1> QED
  BY <1>2 DEF HealthInv, OutagesAnnounced, policy

\* Another threshold changes what an outage will be measured by, but neither the
\* failures nor the latch: an outage in progress is then between its thresholds.
LEMMA DeployedHealth ==
    ASSUME HealthInv, NEW artifact, NEW config, NEW state, NEW expiry,
           Deploy(artifact, config, state, expiry)
    PROVE  HealthInv' /\ health'.generation = 0
<1>1. /\ threshold' \in Thresholds /\ Ensured(0, TRUE)
      /\ policies' = {threshold'}
                        \cup IF health.failures = 0 THEN {} ELSE policies
  BY DEF Deploy
<1>2. /\ health' \in Health /\ health'.generation = 0
      /\ health'.failures = health.failures
      /\ health'.notified = health.notified
  BY <1>1 DEF Ensured, Health, HealthInv
<1>3. threshold' \in policies' /\ policies' \subseteq Thresholds
  BY <1>1 DEF HealthInv
<1>4. /\ \A t \in Thresholds : ~(0 >= t)
      /\ threshold \in policies /\ policies \subseteq Thresholds
  BY PoliciesPositive DEF HealthInv
<1>5. OutagesAnnounced'
  <2>1. CASE health.failures = 0
    <3>1. ~health.notified
      BY <1>4, <2>1 DEF HealthInv, OutagesAnnounced
    <3> QED
      BY <1>1, <1>2, <1>4, <2>1, <3>1 DEF OutagesAnnounced
  <2>2. CASE health.failures # 0
    <3>1. policies \subseteq policies'
      BY <1>1, <2>2
    <3> QED
      BY <1>2, <3>1 DEF HealthInv, OutagesAnnounced
  <2> QED
    BY <2>1, <2>2
<1> QED
  BY <1>2, <1>3, <1>5 DEF HealthInv

LEMMA RecoveredHealth ==
    ASSUME HealthInv, Recovered
    PROVE  HealthInv' /\ health'.generation = health.generation
<1>1. ~(0 >= threshold) /\ threshold \in Thresholds /\ 0 \in 0..MaxFailures
  BY PoliciesPositive
<1>2. /\ health' \in Health
      /\ health'.failures = 0 /\ health'.notified = FALSE
      /\ health'.generation = health.generation
  BY <1>1 DEF Recovered, Health, HealthInv
<1>3. threshold' = threshold /\ policies' = {threshold}
  BY DEF Recovered
<1> QED
  BY <1>1, <1>2, <1>3 DEF HealthInv, OutagesAnnounced

LEMMA DeferredHealth ==
    ASSUME HealthInv, Deferred
    PROVE  HealthInv' /\ health'.generation = health.generation
<1> DEFINE starting == health.starting /\ health.failures = 0
<1>1. starting \in BOOLEAN
  BY DEF HealthInv, Health
<1>2. health' = [health EXCEPT !.starting = starting] /\ UNCHANGED policy
  BY DEF Deferred
<1> HIDE DEF starting
<1>3. /\ health' \in Health /\ health'.generation = health.generation
      /\ health'.failures = health.failures
      /\ health'.notified = health.notified
  BY <1>1, <1>2 DEF Health, HealthInv
<1> QED
  BY <1>2, <1>3 DEF HealthInv, OutagesAnnounced, policy

LEMMA StoppedHealth ==
    ASSUME HealthInv, UNCHANGED policy, NEW w, NEW error, Stopped(w, error)
    PROVE  HealthInv' /\ health'.generation = health.generation
<1>1. /\ health' \in Health /\ health'.generation = health.generation
      /\ health'.failures = health.failures
      /\ health'.notified = health.notified
  BY DEF Stopped, Health, HealthInv
<1> QED
  BY <1>1 DEF HealthInv, OutagesAnnounced, policy

LEMMA UntouchedHealth ==
    ASSUME HealthInv, UNCHANGED <<health, policy>>
    PROVE  HealthInv' /\ health'.generation = health.generation
BY DEF HealthInv, OutagesAnnounced, policy

-----------------------------------------------------------------------------
(* The store's rows *)

\* The operations of the store that reconciliation, its workers and the commands
\* beside it use; a pass may also forget what it had read.
Operation ==
    \/ PauseDeployment
    \/ \E expiry \in Expiries : ResumeDeployment(expiry)
    \/ \E base \in 0..MaxRevision, state \in States : ReplaceState(base, state)
    \/ ClearCheckpoints
    \/ ExpiryPasses
    \/ \E artifact \in Artifacts, config \in Configs, state \in States,
          expiry \in Expiries :
            /\ ReplaceDeployment(artifact, config, state, expiry)
            /\ UNCHANGED builds
    \/ DeactivateDueDeployments
    \/ RecoverGenerations
    \/ ListRuntimeMetadata
    \/ GetRuntimeDeployment
    \/ ActivateGeneration
    \/ ActivationRefused
    \/ \E g \in 1..Len(generations) : MarkGenerationStopped(g)
    \/ /\ listed' \in {listed, None} /\ snapshot' \in {snapshot, None}
       /\ UNCHANGED <<rows, builds, history>> /\ ack' \in {ack, None}

\* A deploy keeps the two halves of the fence in agreement.
LEMMA ReplacedRows ==
    ASSUME TypeOK, NEW artifact \in Artifacts, NEW config \in Configs,
           NEW state \in States, NEW expiry \in Expiries,
           ReplaceDeployment(artifact, config, state, expiry), UNCHANGED builds
    PROVE  /\ TypeOK' /\ FenceConsistent'
           /\ Len(generations') = Len(generations)
           /\ deployment'.artifact = artifact
           /\ deployment'.activeGeneration = 0
<1>1. /\ deployment.id \in Nat /\ deployment.configRevision \in Nat
      /\ deployment.stateRevision \in Nat /\ deployment.destination \in Nat
  BY DEF TypeOK, Deployment
<1>2. /\ deployment' \in Deployment
      /\ deployment'.artifact = artifact /\ deployment'.activeGeneration = 0
  BY <1>1, ExpiriesAssumption DEF ReplaceDeployment, Deployment
<1>3. /\ generations' \in Seq(Generation) /\ fencedThrough' \in Nat
      /\ Len(generations') = Len(generations)
  BY RetireAllRows DEF ReplaceDeployment, TypeOK, Fence
<1>4. TypeOK'
  BY <1>2, <1>3 DEF ReplaceDeployment, TypeOK, daemonVars
<1>5. FenceConsistent'
  BY <1>2, RetiredIsConsistent DEF ReplaceDeployment
<1> QED
  BY <1>2, <1>3, <1>4, <1>5

\* None of them removes a generation, the row always runs an artifact, and an
\* activation issues the generation that the row then names.
LEMMA OperationRows ==
    ASSUME TypeOK, FenceConsistent, deployment.artifact \in Artifacts, Operation
    PROVE  /\ TypeOK' /\ FenceConsistent'
           /\ Len(generations') >= Len(generations)
           /\ deployment'.artifact \in Artifacts
           /\ ActivateGeneration =>
                /\ deployment'.activeGeneration = Len(generations')
                /\ Len(generations') = Len(generations) + 1
           /\ \/ ActivateGeneration
              \/ deployment'.activeGeneration = 0
              \/ /\ deployment'.activeGeneration = deployment.activeGeneration
                 /\ deployment'.status = deployment.status
<1>1. TypeOK' /\ FenceConsistent'
  <2>1. CASE /\ listed' \in {listed, None} /\ snapshot' \in {snapshot, None}
             /\ UNCHANGED <<rows, builds, history>> /\ ack' \in {ack, None}
    BY <2>1 DEF TypeOK, FenceConsistent, rows, history
  <2>2. CASE Next
    BY <2>2, FenceStep
  <2>3. ASSUME NEW artifact \in Artifacts, NEW config \in Configs,
               NEW state \in States, NEW expiry \in Expiries,
               ReplaceDeployment(artifact, config, state, expiry),
               UNCHANGED builds
        PROVE  TypeOK' /\ FenceConsistent'
    BY <2>3, ReplacedRows
  <2> QED
    BY <2>1, <2>2, <2>3 DEF Operation, Next, OperatorCommand, DaemonStep
<1>2. /\ deployment \in Deployment
      /\ generations \in Seq(Generation)
      /\ Len(generations) \in Nat
      /\ Len(RetireAll(generations)) = Len(generations)
      /\ \A g \in 1..Len(generations) :
            Len(Retire(generations, g)) = Len(generations)
  BY RetireAllRows, RetireRows DEF TypeOK
<1>3. ASSUME ActivateGeneration
      PROVE  /\ deployment'.activeGeneration = Len(generations')
             /\ Len(generations') = Len(generations) + 1
             /\ deployment'.artifact = deployment.artifact
  <2> DEFINE old == IF deployment.activeGeneration > 0
                    THEN Retire(generations, deployment.activeGeneration)
                    ELSE generations
  <2>1. old \in Seq(Generation) /\ Len(old) = Len(generations)
    <3>1. deployment.activeGeneration > 0 =>
                deployment.activeGeneration \in 1..Len(generations)
      BY <1>2 DEF FenceConsistent, Deployment
    <3> QED
      BY <1>2, <3>1, RetireRows
  <2>2. generations' = Append(old, [status |-> "active", lastSequence |-> 0])
    BY <1>3 DEF ActivateGeneration
  <2>3. Len(generations') = Len(generations) + 1
    BY <2>1, <2>2
  <2>4. deployment' = [deployment EXCEPT !.activeGeneration = Len(generations) + 1]
    BY <1>3 DEF ActivateGeneration
  <2> QED
    BY <1>2, <2>3, <2>4 DEF Deployment
<1> DEFINE NamesNoOther ==
        \/ deployment'.activeGeneration = 0
        \/ /\ deployment'.activeGeneration = deployment.activeGeneration
           /\ deployment'.status = deployment.status
<1>4. ASSUME NEW expiry \in Expiries, ResumeDeployment(expiry)
      PROVE  /\ Len(generations') >= Len(generations)
             /\ deployment'.artifact = deployment.artifact
             /\ NamesNoOther
  BY <1>2, <1>4 DEF ResumeDeployment, Deployment
<1>5. ASSUME NEW base \in 0..MaxRevision, NEW state \in States,
             ReplaceState(base, state)
      PROVE  /\ Len(generations') >= Len(generations)
             /\ deployment'.artifact = deployment.artifact
             /\ NamesNoOther
  BY <1>2, <1>5 DEF ReplaceState, Deployment
<1>6. ASSUME \/ PauseDeployment \/ ClearCheckpoints \/ ExpiryPasses
             \/ DeactivateDueDeployments \/ RecoverGenerations
      PROVE  /\ Len(generations') >= Len(generations)
             /\ deployment'.artifact = deployment.artifact
             /\ NamesNoOther
  <2>1. generations' = RetireAll(generations) \/ generations' = generations
    BY <1>6 DEF PauseDeployment, ClearCheckpoints, ExpiryPasses,
                DeactivateDueDeployments, RecoverGenerations
  <2>2. deployment'.artifact = deployment.artifact /\ NamesNoOther
    BY <1>2, <1>6 DEF PauseDeployment, ClearCheckpoints, ExpiryPasses,
                      DeactivateDueDeployments, RecoverGenerations, Deployment
  <2> QED
    BY <1>2, <2>1, <2>2
<1>7. ASSUME \/ ListRuntimeMetadata \/ GetRuntimeDeployment \/ ActivationRefused
             \/ \E g \in 1..Len(generations) : MarkGenerationStopped(g)
             \/ UNCHANGED rows
      PROVE  /\ Len(generations') >= Len(generations)
             /\ deployment'.artifact = deployment.artifact
             /\ NamesNoOther
  BY <1>2, <1>7
  DEF ListRuntimeMetadata, GetRuntimeDeployment, ActivationRefused,
      MarkGenerationStopped, rows
<1>8. ASSUME NEW artifact \in Artifacts, NEW config \in Configs,
             NEW state \in States, NEW expiry \in Expiries,
             ReplaceDeployment(artifact, config, state, expiry),
             UNCHANGED builds
      PROVE  /\ Len(generations') >= Len(generations)
             /\ deployment'.artifact \in Artifacts
             /\ NamesNoOther
  BY <1>2, <1>8, ReplacedRows
<1> QED
  BY <1>1, <1>2, <1>3, <1>4, <1>5, <1>6, <1>7, <1>8 DEF Operation

-----------------------------------------------------------------------------
(* Workers, the slot and the pass *)

Stages ==
    {"down", "idle", "list", "resolve", "record", "read", "launch",
     "start", "ready", "failed", "fenced", "sweep",
     "stopUnresolved", "stopChanged", "stopInactive", "stopAll", "wait"}

\* What ReconcileInv says of workers, the slot and the pass.
SlotsInv ==
    /\ workers \in Seq(Worker)
    /\ slot \in Slot
    /\ slot.worker # 0 => workers[slot.worker].relay \notin {"handshake", "gone"}
    /\ pass \in Pass
    /\ SlotFollowsPass
    /\ NoWorkerForgotten

\* Nothing but readiness puts a worker in the slot or starts serving one.
NoneReadied ==
    \A w \in 1..Len(workers') :
        slot'.worker = w /\ Served(w)' => slot.worker = w /\ Served(w)

\* No launch is forgotten or changed but in how far its relay is.
LaunchesKept ==
    /\ Len(workers') = Len(workers)
    /\ \A w \in 1..Len(workers) : workers'[w].generation = workers[w].generation

LEMMA AtPass ==
    ASSUME pass \in Pass, NEW stage \in Stages, At(stage)
    PROVE  /\ pass' \in Pass
           /\ pass'.at = stage
           /\ pass'.existing = 0
           /\ pass'.stopping = 0
BY DEF At, Pass, Stages

LEMMA StopWorkerPass ==
    ASSUME pass \in Pass, slot \in Slot, NEW stage \in Stages, StopWorker(stage)
    PROVE  /\ pass' \in Pass
           /\ pass'.at = stage
           /\ pass'.existing = 0
           /\ pass'.stopping = slot.worker
           /\ slot' \in Slot
           /\ slot'.worker = 0
BY DEF StopWorker, NoSlot, Pass, Slot, Stages

LEMMA DelayedSlot ==
    ASSUME slot \in Slot, Delayed
    PROVE  slot' \in Slot /\ slot'.worker = slot.worker
BY DEF Delayed, Slot

\* A pass that goes on to a stage which promises nothing more than the one it
\* leaves, with the worker in the slot where it was.
LEMMA MovesOn ==
    ASSUME SlotsInv, UNCHANGED workers,
           pass' \in Pass,
           slot' \in Slot, slot'.worker = slot.worker,
           pass'.existing \in {0, slot.worker},
           pass'.stopping = 0,
           \A w \in 1..Len(workers) : pass.stopping = w => ~Running(w),
           ~Stopping',
           \/ slot.worker = 0
           \/ pass'.at \in {"idle", "list", "sweep"}
           \/ pass'.at = "resolve" /\ pass'.existing = slot.worker,
           pass'.at \in {"start", "ready", "failed", "fenced"} => workers # <<>>
    PROVE  SlotsInv' /\ NoneReadied
<1>1. SlotFollowsPass'
  BY DEF SlotsInv, SlotFollowsPass, Pass, Slot
<1>2. NoWorkerForgotten'
  BY DEF SlotsInv, NoWorkerForgotten, Running
<1>3. NoneReadied
  BY DEF NoneReadied, Served
<1> QED
  BY <1>1, <1>2, <1>3 DEF SlotsInv

\* The pass takes the slot, and with it answers for the worker that was in it.
LEMMA TakesSlot ==
    ASSUME SlotsInv, UNCHANGED workers, ~Stopping,
           NEW stage \in {"stopUnresolved", "stopChanged", "stopInactive", "stopAll"},
           StopWorker(stage)
    PROVE  SlotsInv' /\ NoneReadied
<1>1. /\ pass' \in Pass /\ slot' \in Slot
      /\ pass'.at = stage /\ pass'.existing = 0 /\ pass'.stopping = slot.worker
      /\ slot'.worker = 0
  BY StopWorkerPass DEF SlotsInv, Stages
<1>2. SlotFollowsPass'
  BY <1>1 DEF SlotsInv, SlotFollowsPass, Stopping
<1>3. NoWorkerForgotten'
  BY <1>1 DEF SlotsInv, SlotFollowsPass, NoWorkerForgotten, Running
<1>4. NoneReadied
  BY <1>1 DEF NoneReadied
<1> QED
  BY <1>1, <1>2, <1>3, <1>4 DEF SlotsInv

\* Steps of others leave the pass where it is.
LEMMA StaysPut ==
    ASSUME SlotsInv, UNCHANGED workers, pass' \in Pass,
           pass'.at = pass.at, pass'.existing = pass.existing,
           pass'.stopping = pass.stopping,
           slot' \in Slot, slot'.worker = slot.worker
    PROVE  SlotsInv' /\ NoneReadied
<1>1. SlotFollowsPass'
  BY DEF SlotsInv, SlotFollowsPass, Stopping
<1>2. NoWorkerForgotten'
  BY DEF SlotsInv, NoWorkerForgotten, Running
<1>3. NoneReadied
  BY DEF NoneReadied, Served
<1> QED
  BY <1>1, <1>2, <1>3 DEF SlotsInv

\* A relay that does not begin to serve runs no worker that did not run, and
\* stays in the slot only while it serves.
LEMMA RelayEndsServing ==
    ASSUME SlotsInv, NEW w \in 1..Len(workers),
           NEW relay \in {"exited", "stranded", "uncounted", "erred", "ended", "gone"},
           Relay(w, relay),
           relay = "exited" => Served(w),
           slot'.worker \in {0, slot.worker},
           relay = "gone" => slot'.worker # w
    PROVE  /\ workers' \in Seq(Worker) /\ LaunchesKept /\ NoneReadied
           /\ workers # <<>> /\ workers' # <<>>
           /\ slot'.worker # 0 =>
                workers'[slot'.worker].relay \notin {"handshake", "gone"}
           /\ \A v \in 1..Len(workers) : Running(v)' => v # w /\ Running(v)
<1>1. /\ workers' \in Seq(Worker)
      /\ Len(workers') = Len(workers)
      /\ workers'[w].relay = relay
      /\ \A v \in 1..Len(workers) : workers'[v].generation = workers[v].generation
      /\ \A v \in 1..Len(workers) : v # w => workers'[v] = workers[v]
  BY RelayRows DEF SlotsInv
<1>2. /\ slot.worker \in 0..Len(workers)
      /\ Len(workers) \in Nat
  BY DEF SlotsInv, SlotFollowsPass
<1>3. workers # <<>> /\ workers' # <<>>
  BY <1>1 DEF SlotsInv
<1>4. slot'.worker # 0 => workers'[slot'.worker].relay \notin {"handshake", "gone"}
  BY <1>1, <1>2 DEF SlotsInv
<1>5. NoneReadied
  <2> SUFFICES ASSUME NEW v \in 1..Len(workers), slot'.worker = v, Served(v)'
               PROVE  slot.worker = v /\ Served(v)
    BY <1>1 DEF NoneReadied
  <2> QED
    BY <1>1 DEF Served
<1>6. \A v \in 1..Len(workers) : Running(v)' => v # w /\ Running(v)
  BY <1>1 DEF Running
<1> QED
  BY <1>1, <1>3, <1>4, <1>5, <1>6 DEF LaunchesKept

\* It leaves its worker in the slot, or frees the slot that its worker held.
LEMMA RelaysOn ==
    ASSUME SlotsInv, NEW w \in 1..Len(workers),
           NEW relay \in {"exited", "stranded", "uncounted", "erred", "ended", "gone"},
           Relay(w, relay),
           relay = "exited" => Served(w),
           pass' = pass,
           slot' \in Slot, slot'.worker \in {0, slot.worker},
           slot'.worker # slot.worker => slot.worker = w,
           relay = "gone" => slot'.worker # w
    PROVE  SlotsInv' /\ NoneReadied /\ LaunchesKept
<1>1. /\ workers' \in Seq(Worker) /\ LaunchesKept /\ NoneReadied
      /\ workers # <<>> /\ workers' # <<>>
      /\ slot'.worker # 0 => workers'[slot'.worker].relay \notin {"handshake", "gone"}
      /\ \A v \in 1..Len(workers) : Running(v)' => v # w /\ Running(v)
  BY RelayEndsServing
<1>2. SlotFollowsPass'
  BY <1>1 DEF SlotsInv, SlotFollowsPass, Stopping, LaunchesKept
<1>3. NoWorkerForgotten'
  BY <1>1 DEF SlotsInv, NoWorkerForgotten, LaunchesKept
<1> QED
  BY <1>1, <1>2, <1>3 DEF SlotsInv

\* The steps of a pass that touch no worker.
LEMMA PassSlots ==
    ASSUME SlotsInv,
           \/ Begin \/ List \/ Waits \/ RecordUnresolved \/ StopReturns
           \/ Read \/ LaunchRefused \/ Handshaken
           \/ CountFailedLaunch \/ RetireFailedLaunch
    PROVE  SlotsInv' /\ NoneReadied /\ UNCHANGED workers
<1> USE DEF Stages
<1>1. /\ pass \in Pass /\ slot \in Slot
      /\ slot.worker \in 0..Len(workers)
      /\ ~Stopping => pass.stopping = 0
      /\ Len(workers) \in Nat
  BY DEF SlotsInv, SlotFollowsPass
<1>2. CASE Begin
  <2>1. At("list") /\ UNCHANGED <<workers, slot>> /\ ~Stopping
    BY <1>2 DEF Begin, Stopping
  <2> QED
    BY <1>1, <2>1, AtPass, MovesOn DEF Stopping
<1>3. CASE List
  <2>1. CASE At("sweep")
    BY <1>1, <1>3, <2>1, AtPass, MovesOn DEF List, Stopping
  <2>2. CASE pass' = [pass EXCEPT !.at = "resolve", !.existing = slot.worker]
    <3>1. /\ pass' \in Pass /\ pass'.at = "resolve"
          /\ pass'.existing = slot.worker /\ pass'.stopping = 0
      BY <1>1, <1>3, <2>2 DEF List, Stopping, Pass, Slot
    <3> QED
      BY <1>1, <1>3, <3>1, MovesOn DEF List, Stopping
  <2> QED
    BY <1>3, <2>1, <2>2 DEF List
<1>4. CASE Waits
  BY <1>1, <1>4, AtPass, MovesOn DEF Waits, Continue, Stopping
<1>5. CASE RecordUnresolved
  BY <1>1, <1>5, AtPass, DelayedSlot, MovesOn DEF RecordUnresolved, Continue, Stopping
<1>6. CASE StopReturns
  <2>1. /\ slot.worker = 0
        /\ \A w \in 1..Len(workers) : pass.stopping = w => ~Running(w)
        /\ UNCHANGED <<workers, slot>>
    BY <1>1, <1>6 DEF StopReturns, Stopping, SlotsInv, SlotFollowsPass
  <2>2. PICK stage \in {"record", "read", "idle", "wait"} : At(stage)
    BY <1>6 DEF StopReturns, Stopping, AfterStop, Continue
  <2> QED
    BY <1>1, <2>1, <2>2, AtPass, MovesOn DEF Stopping
<1>7. CASE Read
  <2>1. /\ slot.worker = 0 /\ ~Stopping /\ UNCHANGED <<workers, slot>>
        /\ At("idle") \/ At("launch")
    BY <1>7 DEF Read, Continue, Stopping, SlotsInv, SlotFollowsPass
  <2> QED
    BY <1>1, <2>1, AtPass, MovesOn DEF Stopping
<1>8. CASE LaunchRefused
  <2>1. slot.worker = 0 /\ ~Stopping /\ UNCHANGED workers /\ Delayed /\ At("idle")
    BY <1>8 DEF LaunchRefused, LaunchFails, Continue, Stopping, SlotsInv, SlotFollowsPass
  <2> QED
    BY <1>1, <2>1, AtPass, DelayedSlot, MovesOn DEF Stopping
<1>9. CASE Handshaken
  <2>1. /\ slot.worker = 0 /\ ~Stopping /\ UNCHANGED <<workers, slot>>
        /\ At("ready") /\ workers # <<>>
    BY <1>9 DEF Handshaken, Stopping, SlotsInv, SlotFollowsPass
  <2> QED
    BY <1>1, <2>1, AtPass, MovesOn DEF Stopping
<1>10. CASE CountFailedLaunch
  <2>1. /\ slot.worker = 0 /\ ~Stopping /\ UNCHANGED <<workers, slot>>
        /\ At("fenced") /\ workers # <<>>
    BY <1>10 DEF CountFailedLaunch, Stopping, SlotsInv, SlotFollowsPass
  <2> QED
    BY <1>1, <2>1, AtPass, MovesOn DEF Stopping
<1>11. CASE RetireFailedLaunch
  <2>1. slot.worker = 0 /\ ~Stopping /\ UNCHANGED workers /\ Delayed /\ At("idle")
    BY <1>11
    DEF RetireFailedLaunch, LaunchFails, Continue, Stopping, SlotsInv, SlotFollowsPass
  <2> QED
    BY <1>1, <2>1, AtPass, DelayedSlot, MovesOn DEF Stopping
<1> QED
  BY <1>2, <1>3, <1>4, <1>5, <1>6, <1>7, <1>8, <1>9, <1>10, <1>11

\* The steps of a pass that take the slot, or find that they need not.
LEMMA TakingSlots ==
    ASSUME SlotsInv, SecretsMissing \/ SecretsResolved \/ Sweep \/ StopWorkers
    PROVE  SlotsInv' /\ NoneReadied /\ UNCHANGED workers
<1>1. /\ pass \in Pass /\ slot \in Slot
      /\ slot.worker \in 0..Len(workers)
      /\ ~Stopping /\ pass.stopping = 0
      /\ UNCHANGED workers
  BY DEF SlotsInv, SlotFollowsPass, Stopping, SecretsMissing, SecretsResolved,
         Sweep, StopWorkers
<1>2. \/ \E stage \in {"stopUnresolved", "stopChanged", "stopInactive", "stopAll"} :
            StopWorker(stage)
      \/ /\ \E stage \in {"record", "read", "idle"} : At(stage)
         /\ slot' = slot
         /\ slot.worker = 0 \/ At("idle")
  BY DEF SecretsMissing, SecretsResolved, Sweep, StopWorkers, Continue,
         SlotsInv, SlotFollowsPass
<1>3. CASE \E stage \in {"stopUnresolved", "stopChanged", "stopInactive", "stopAll"} :
            StopWorker(stage)
  BY <1>1, <1>3, TakesSlot
<1>4. ASSUME NEW stage \in {"record", "read", "idle"}, At(stage), slot' = slot,
             slot.worker = 0 \/ At("idle")
      PROVE  SlotsInv' /\ NoneReadied
  <2>1. /\ pass' \in Pass /\ pass'.at = stage
        /\ pass'.existing = 0 /\ pass'.stopping = 0
        /\ At("idle") => stage = "idle"
    BY <1>1, <1>4, AtPass DEF Stages
  <2> QED
    BY <1>1, <1>4, <2>1, MovesOn DEF Stopping
<1> QED
  BY <1>1, <1>2, <1>3, <1>4

\* Commands, the clock and a request to close.
LEMMA OthersSlots ==
    ASSUME SlotsInv, OtherProcess \/ BackOffEnds \/ Close
    PROVE  SlotsInv' /\ NoneReadied /\ UNCHANGED workers
<1>1. pass \in Pass /\ slot \in Slot
  BY DEF SlotsInv
<1>2. CASE OtherProcess
  BY <1>1, <1>2, StaysPut DEF OtherProcess
<1>3. CASE BackOffEnds
  BY <1>1, <1>3, StaysPut DEF BackOffEnds, Slot
<1>4. CASE Close
  BY <1>1, <1>4, StaysPut DEF Close, Pass
<1> QED
  BY <1>2, <1>3, <1>4

\* What a worker does, and how its end is settled.
LEMMA WorkerSlots ==
    ASSUME SlotsInv, NEW w \in 1..Len(workers),
           WorkerActs(w) \/ CountFailure(w) \/ Settle(w)
    PROVE  SlotsInv' /\ NoneReadied /\ LaunchesKept
<1>1. /\ pass \in Pass /\ slot \in Slot /\ workers \in Seq(Worker)
      /\ slot.worker \in 0..Len(workers)
  BY DEF SlotsInv, SlotFollowsPass
<1>2. ASSUME NEW relay \in {"exited", "stranded", "uncounted", "erred", "ended"},
             Relay(w, relay), relay = "exited" => Served(w),
             UNCHANGED <<slot, pass>>
      PROVE  SlotsInv' /\ NoneReadied /\ LaunchesKept
  BY <1>1, <1>2, RelaysOn
<1>3. CASE UNCHANGED <<workers, slot, pass>>
  BY <1>1, <1>3, StaysPut DEF LaunchesKept
<1> DEFINE Edited(row) ==
        /\ workers' = [workers EXCEPT ![w] = row]
        /\ row \in Worker /\ row.generation = workers[w].generation
        /\ row.relay = workers[w].relay
<1>e. ASSUME NEW row, Edited(row), UNCHANGED <<slot, pass>>
      PROVE  SlotsInv' /\ NoneReadied /\ LaunchesKept
  <2>1. /\ workers' \in Seq(Worker) /\ Len(workers') = Len(workers)
        /\ \A v \in 1..Len(workers) :
              /\ workers'[v].generation = workers[v].generation
              /\ workers'[v].relay = workers[v].relay
    BY <1>1, <1>e
  <2>2. SlotFollowsPass' /\ NoWorkerForgotten'
    BY <1>1, <1>e, <2>1
    DEF SlotsInv, SlotFollowsPass, Stopping, NoWorkerForgotten, Running
  <2>3. NoneReadied /\ LaunchesKept
    BY <1>e, <2>1 DEF NoneReadied, LaunchesKept, Served
  <2> QED
    BY <1>1, <1>e, <2>1, <2>2, <2>3 DEF SlotsInv
<1>r. workers[w] \in Worker
  BY <1>1
<1>4. CASE RecordRun(w)
  <2>1. CASE ServeFails(w)
    BY <1>2, <1>4, <2>1 DEF RecordRun, ServeFails
  <2>2. CASE workers' = [workers EXCEPT ![w].reported = TRUE]
    <3>1. /\ workers' = [workers EXCEPT ![w] = [workers[w] EXCEPT !.reported = TRUE]]
          /\ UNCHANGED <<slot, pass>>
      BY <1>4, <2>2 DEF RecordRun
    <3>2. Edited([workers[w] EXCEPT !.reported = TRUE])
      BY <1>r, <3>1 DEF Worker
    <3> HIDE DEF Edited
    <3> QED
      BY <1>e, <3>1, <3>2
  <2> QED
    BY <1>3, <1>4, <2>1, <2>2 DEF RecordRun
<1>5. CASE MarkGenerationStable(w)
  <2>1. CASE ServeFails(w)
    BY <1>2, <1>5, <2>1 DEF MarkGenerationStable, ServeFails
  <2>2. CASE workers' = [workers EXCEPT ![w].timer = FALSE]
    <3>1. /\ workers' = [workers EXCEPT ![w] = [workers[w] EXCEPT !.timer = FALSE]]
          /\ UNCHANGED <<slot, pass>>
      BY <1>5, <2>2 DEF MarkGenerationStable
    <3>2. Edited([workers[w] EXCEPT !.timer = FALSE])
      BY <1>r, <3>1 DEF Worker
    <3> HIDE DEF Edited
    <3> QED
      BY <1>e, <3>1, <3>2
  <2> QED
    BY <1>5, <2>1, <2>2 DEF MarkGenerationStable
<1>6. CASE WorkerFails(w) \/ StopsReported(w) \/ WorkerStops(w)
  BY <1>2, <1>6 DEF WorkerFails, StopsReported, WorkerStops, ServeFails
<1>7. CASE WorkerExits(w)
  BY <1>2, <1>7 DEF WorkerExits, Served, Running
<1>8. CASE CountFailure(w)
  BY <1>2, <1>8 DEF CountFailure
<1>9. CASE Settle(w)
  <2>1. /\ Relay(w, "gone") /\ pass' = pass
        /\ slot' \in Slot /\ slot'.worker \in {0, slot.worker}
        /\ slot'.worker # slot.worker => slot.worker = w
        /\ slot'.worker # w
    BY <1>1, <1>9 DEF Settle, Owns, Slot
  <2> QED
    BY <1>1, <2>1, RelaysOn
<1> QED
  BY <1>4, <1>5, <1>6, <1>7, <1>8, <1>9 DEF WorkerActs

\* A launch that did not become ready, and a stop that timed out, end the worker
\* that the pass was at.
LEMMA EndingSlots ==
    ASSUME SlotsInv, HandshakeFails \/ NotReady \/ StopTimesOut
    PROVE  SlotsInv' /\ NoneReadied /\ LaunchesKept
<1>1. /\ pass \in Pass /\ slot' = slot /\ slot.worker = 0
      /\ Len(workers) \in Nat
      /\ pass.stopping \in 0..Len(workers)
  BY DEF SlotsInv, SlotFollowsPass, HandshakeFails, NotReady, NotStarted,
         StopTimesOut, Stopping
<1>2. PICK w \in 1..Len(workers), stage \in {"failed", "record", "read", "idle", "wait"},
           relay \in {"exited", "stranded", "gone"} :
        /\ Relay(w, relay) /\ At(stage)
        /\ relay = "exited" => Served(w)
        /\ pass.stopping \in {0, w}
  <2>1. CASE HandshakeFails \/ NotReady
    <3>1. /\ workers # <<>> /\ ~Stopping
          /\ Relay(New, "gone") /\ At("failed")
      BY <2>1 DEF SlotsInv, SlotFollowsPass, HandshakeFails, NotReady, NotStarted,
                  Stopping
    <3>2. New \in 1..Len(workers) /\ pass.stopping = 0
      BY <3>1 DEF New, SlotsInv, SlotFollowsPass
    <3> QED
      BY <3>1, <3>2
  <2>2. CASE StopTimesOut
    <3>1. PICK w \in {pass.stopping} \ {0}, relay \in {"exited", "stranded"} :
            Running(w) /\ Relay(w, relay)
      BY <2>2 DEF StopTimesOut
    <3>2. w \in 1..Len(workers) /\ Served(w)
      BY <1>1, <3>1 DEF Running, Served
    <3>3. PICK stage \in {"record", "read", "idle", "wait"} : At(stage)
      BY <2>2 DEF StopTimesOut, Stopping, AfterStop, Continue
    <3> QED
      BY <3>1, <3>2, <3>3
  <2> QED
    BY <2>1, <2>2
<1>3. /\ workers' \in Seq(Worker) /\ LaunchesKept /\ NoneReadied
      /\ workers # <<>> /\ workers' # <<>>
      /\ slot'.worker # 0 => workers'[slot'.worker].relay \notin {"handshake", "gone"}
      /\ \A v \in 1..Len(workers) : Running(v)' => v # w /\ Running(v)
  BY <1>1, <1>2, RelayEndsServing
<1>4. /\ pass' \in Pass /\ pass'.at = stage
      /\ pass'.existing = 0 /\ pass'.stopping = 0
  BY <1>1, <1>2, AtPass DEF Stages
<1>5. SlotFollowsPass'
  BY <1>1, <1>3, <1>4 DEF SlotFollowsPass, Stopping, LaunchesKept
<1>6. NoWorkerForgotten'
  BY <1>1, <1>2, <1>3 DEF SlotsInv, NoWorkerForgotten, LaunchesKept
<1> QED
  BY <1>1, <1>3, <1>4, <1>5, <1>6 DEF SlotsInv

\* A launch adds a worker that does not run yet.
LEMMA LaunchSlots ==
    ASSUME SlotsInv, TypeOK, TypeOK', deployment.artifact \in Artifacts, Launch
    PROVE  /\ SlotsInv' /\ NoneReadied
           /\ Len(workers') = Len(workers) + 1
           /\ workers'[Len(workers')].generation = Len(generations')
           /\ \A w \in 1..Len(workers) : workers'[w] = workers[w]
<1>1. /\ pass \in Pass /\ slot' = slot /\ slot.worker = 0
      /\ workers \in Seq(Worker)
      /\ pass.stopping = 0 /\ At("start")
  BY DEF SlotsInv, SlotFollowsPass, Launch, Stopping
<1>2. /\ pass' \in Pass /\ pass'.at = "start"
      /\ pass'.existing = 0 /\ pass'.stopping = 0
  BY <1>1, AtPass DEF Stages
<1> DEFINE new == [generation |-> Len(generations'), artifact |-> snapshot.artifact,
                   configRevision |-> snapshot.configRevision,
                   relay |-> "handshake", timer |-> FALSE, reported |-> FALSE]
<1>3. new \in Worker
  <2>1. Len(generations') \in Nat
    BY DEF TypeOK
  <2>2. snapshot \in Snapshot /\ snapshot.artifact = deployment.artifact
    BY DEF Launch, ActivateGeneration, SnapshotCurrent, TypeOK
  <2> QED
    BY <2>1, <2>2 DEF Snapshot, Worker
<1>4. workers' = Append(workers, new)
  BY DEF Launch
<1>5. new.relay = "handshake" /\ new.generation = Len(generations')
  OBVIOUS
<1> HIDE DEF new
<1>6. /\ workers' \in Seq(Worker)
      /\ Len(workers') = Len(workers) + 1
      /\ workers'[Len(workers')] = new
      /\ \A w \in 1..Len(workers) : workers'[w] = workers[w]
      /\ workers' # <<>>
      /\ Len(workers) \in Nat
  BY <1>1, <1>3, <1>4
<1>7. SlotFollowsPass'
  BY <1>1, <1>2, <1>6 DEF SlotFollowsPass, Stopping
<1>8. NoWorkerForgotten'
  <2> SUFFICES ASSUME NEW w \in 1..Len(workers'), Running(w)'
               PROVE  FALSE
    BY DEF NoWorkerForgotten
  <2>1. w \in 1..Len(workers) /\ Running(w)
    BY <1>5, <1>6 DEF Running
  <2> QED
    BY <1>1, <2>1 DEF SlotsInv, NoWorkerForgotten
<1>9. NoneReadied
  BY <1>1 DEF NoneReadied
<1> QED
  BY <1>1, <1>2, <1>5, <1>6, <1>7, <1>8, <1>9 DEF SlotsInv

\* Readiness gives the slot, which is empty, to the worker that was launched.
LEMMA ReadySlots ==
    ASSUME SlotsInv, Ready
    PROVE  SlotsInv' /\ LaunchesKept /\ slot'.worker = New /\ New \in 1..Len(workers)
<1>1. /\ pass \in Pass /\ slot.worker = 0 /\ workers # <<>>
      /\ workers \in Seq(Worker)
      /\ pass.stopping = 0 /\ At("idle")
  BY DEF SlotsInv, SlotFollowsPass, Ready, Continue, Stopping
<1>2. New \in 1..Len(workers) /\ Len(workers) \in Nat
  BY <1>1 DEF New
<1>3. /\ workers' \in Seq(Worker)
      /\ Len(workers') = Len(workers)
      /\ workers'[New].relay = "serving"
      /\ \A v \in 1..Len(workers) : workers'[v].generation = workers[v].generation
      /\ \A v \in 1..Len(workers) : v # New => workers'[v] = workers[v]
  BY <1>1, <1>2, RelayRows DEF Ready
<1>4. slot' \in Slot /\ slot'.worker = New
  BY <1>2 DEF Ready, Slot
<1>5. /\ pass' \in Pass /\ pass'.at = "idle"
      /\ pass'.existing = 0 /\ pass'.stopping = 0
  BY <1>1, AtPass DEF Stages
<1>6. SlotFollowsPass'
  BY <1>2, <1>3, <1>4, <1>5 DEF SlotFollowsPass, Stopping
<1>7. NoWorkerForgotten'
  <2> SUFFICES ASSUME NEW v \in 1..Len(workers), Running(v)', v # New
               PROVE  FALSE
    BY <1>3, <1>4 DEF NoWorkerForgotten
  <2>1. Running(v)
    BY <1>3 DEF Running
  <2> QED
    BY <1>1, <2>1 DEF SlotsInv, NoWorkerForgotten
<1>8. LaunchesKept
  BY <1>3 DEF LaunchesKept
<1> QED
  BY <1>2, <1>3, <1>4, <1>5, <1>6, <1>7, <1>8 DEF SlotsInv

\* Nothing of a daemon outlives its process.
LEMMA ProcessSlots ==
    ASSUME SlotsInv, ClosesCleanly \/ Crash \/ Start
    PROVE  SlotsInv' /\ NoneReadied /\ LaunchesKept
<1>1. CASE ClosesCleanly \/ Crash
  <2>1. ProcessEnds
    BY <1>1 DEF ClosesCleanly, Crash
  <2>2. \A w \in 1..Len(workers) : workers[w] \in Worker
    BY DEF SlotsInv
  <2> DEFINE row(w) == [workers[w] EXCEPT !.relay = "gone", !.timer = FALSE,
                                           !.reported = FALSE]
  <2>3. \A w \in 1..Len(workers) :
            /\ row(w) \in Worker /\ row(w).relay = "gone"
            /\ row(w).generation = workers[w].generation
    BY <2>2 DEF Worker
  <2>4. workers' = [w \in 1..Len(workers) |-> row(w)]
    BY <2>1 DEF ProcessEnds
  <2>5. Len(workers) \in Nat
    BY DEF SlotsInv
  <2> HIDE DEF row
  <2>6. /\ workers' \in Seq(Worker) /\ LaunchesKept
        /\ \A w \in 1..Len(workers') : workers'[w].relay = "gone"
    BY <2>3, <2>4, <2>5 DEF LaunchesKept
  <2>7. /\ slot' \in Slot /\ slot'.worker = 0
        /\ pass' \in Pass /\ pass'.at = "down"
        /\ pass'.existing = 0 /\ pass'.stopping = 0
    BY <2>1 DEF ProcessEnds, NoSlot, Slot, Pass
  <2>8. SlotFollowsPass'
    BY <2>5, <2>6, <2>7 DEF SlotFollowsPass, Stopping, LaunchesKept
  <2>9. NoWorkerForgotten' /\ NoneReadied
    BY <2>6, <2>7 DEF NoWorkerForgotten, NoneReadied, Running
  <2> QED
    BY <2>6, <2>7, <2>8, <2>9 DEF SlotsInv
<1>2. CASE Start
  <2>1. /\ slot.worker = 0 /\ pass.stopping = 0 /\ pass \in Pass
        /\ UNCHANGED <<workers, slot>> /\ At("idle")
    BY <1>2 DEF SlotsInv, SlotFollowsPass, Start, Stopping
  <2>2. /\ pass' \in Pass /\ pass'.at = "idle"
        /\ pass'.existing = 0 /\ pass'.stopping = 0
    BY <2>1, AtPass DEF Stages
  <2>3. \A w \in 1..Len(workers) : pass.stopping = w => ~Running(w)
    BY <2>1
  <2> QED
    BY <2>1, <2>2, <2>3, MovesOn DEF SlotsInv, Stopping, LaunchesKept
<1> QED
  BY <1>1, <1>2

-----------------------------------------------------------------------------
(* What each step does to the store and to the health row *)

\* Every step is an operation of the store, or touches no row.
LEMMA StepOperation ==
    ASSUME SlotsInv, TypeOK, GenerationsIssued, ReconcileNext
    PROVE  Operation
<1>1. CASE UNCHANGED storeVars
  BY <1>1 DEF Operation, storeVars, daemonVars
<1>2. CASE OtherProcess
  BY <1>2 DEF OtherProcess, OtherCommand, Deploy, Operation
<1>3. CASE Begin \/ List \/ Read \/ Launch \/ LaunchRefused \/ Start
  BY <1>1, <1>3 DEF Begin, List, Read, Launch, LaunchRefused, Start, Operation
<1>4. CASE Waits \/ SecretsMissing \/ SecretsResolved \/ StopWorkers
  BY <1>1, <1>4
  DEF Waits, SecretsMissing, SecretsResolved, StopWorkers, Forget, Operation
<1>5. ASSUME NEW w \in 1..Len(workers), NEW error, Stopped(w, error)
      PROVE  Operation
  BY <1>5 DEF Stopped, GenerationsIssued, Operation
<1>6. CASE RetireFailedLaunch
  <2>1. New \in 1..Len(workers)
    BY <1>6 DEF RetireFailedLaunch, New, SlotsInv, SlotFollowsPass
  <2> QED
    BY <1>5, <1>6, <2>1 DEF RetireFailedLaunch
<1>7. ASSUME NEW w \in 1..Len(workers),
             WorkerActs(w) \/ CountFailure(w) \/ Settle(w)
      PROVE  Operation
  <2>1. CASE Settle(w)
    BY <1>5, <2>1 DEF Settle
  <2>2. CASE WorkerActs(w) \/ CountFailure(w)
    BY <1>1, <2>2
    DEF WorkerActs, CountFailure, RecordRun, MarkGenerationStable, WorkerFails,
        StopsReported, WorkerStops, WorkerExits, ServeFails, RecordGenerationFailure
  <2> QED
    BY <1>7, <2>1, <2>2
<1>8. CASE \/ RecordUnresolved \/ Sweep \/ StopReturns \/ StopTimesOut
           \/ HandshakeFails \/ Handshaken \/ Ready \/ NotReady
           \/ CountFailedLaunch \/ ClosesCleanly
           \/ BackOffEnds \/ Close \/ Crash
  BY <1>1, <1>8
  DEF RecordUnresolved, Sweep, StopReturns, StopTimesOut, HandshakeFails,
      Handshaken, Ready, NotReady, NotStarted, CountFailedLaunch,
      RecordGenerationFailure, ClosesCleanly, ProcessEnds, BackOffEnds, Close, Crash
<1> QED
  BY <1>2, <1>3, <1>4, <1>6, <1>7, <1>8 DEF ReconcileNext, PassStep

\* The count and the latch move together, and the row moves to another
\* generation only where no worker of a current generation has the slot.
HealthMoves ==
    /\ HealthInv'
    /\ \/ health'.generation = health.generation
       \/ deployment'.activeGeneration \in {0, health'.generation}
       \/ slot'.worker = 0

LEMMA StepHealth ==
    ASSUME SlotsInv, TypeOK, TypeOK', HealthInv, GenerationsIssued, ReconcileNext
    PROVE  HealthMoves
<1>1. /\ deployment \in Deployment /\ deployment.activeGeneration \in Nat
      /\ Len(generations') \in Nat
      /\ slot \in Slot /\ workers \in Seq(Worker)
      /\ \A w \in 1..Len(workers) : workers[w].generation \in Nat
  <2>1. deployment \in Deployment /\ slot \in Slot /\ workers \in Seq(Worker)
    BY DEF TypeOK, SlotsInv
  <2>2. Len(generations') \in Nat
    BY DEF TypeOK
  <2>3. Len(generations) \in Nat
    BY DEF TypeOK
  <2> QED
    BY <2>1, <2>2, <2>3 DEF Deployment, GenerationsIssued
<1>2. CASE UNCHANGED <<health, policy>>
  BY <1>2, UntouchedHealth DEF HealthMoves
<1>3. ASSUME NEW g \in Nat, NEW starting \in BOOLEAN, Ensured(g, starting),
             UNCHANGED policy,
             \/ deployment'.activeGeneration = 0
             \/ slot'.worker = 0
      PROVE  HealthMoves
  BY <1>3, EnsuredHealth DEF HealthMoves
<1>4. ASSUME NEW w, RecordGenerationFailure(w)
      PROVE  HealthMoves
  <2>1. CASE Counted(deployment.activeGeneration)
    <3>1. deployment' = deployment
      BY <1>4 DEF RecordGenerationFailure, storeVars, rows
    <3> QED
      BY <1>1, <2>1, <3>1, CountedHealth DEF HealthMoves
  <2> QED
    BY <1>2, <1>4, <2>1 DEF RecordGenerationFailure
<1>5. ASSUME OtherCommand, UNCHANGED policy
      PROVE  HealthMoves
  <2>1. CASE PauseDeployment /\ Ensured(0, FALSE)
    BY <1>1, <1>3, <1>5, <2>1 DEF PauseDeployment, Deployment
  <2>2. ASSUME NEW expiry \in Expiries, ResumeDeployment(expiry), Ensured(0, TRUE)
        PROVE  HealthMoves
    BY <1>1, <1>3, <1>5, <2>2 DEF ResumeDeployment, Deployment
  <2>3. ASSUME NEW base \in 0..MaxRevision, NEW state \in States,
               ReplaceState(base, state), Ensured(0, deployment.status = "active")
        PROVE  HealthMoves
    <3> DEFINE starting == deployment.status = "active"
    <3>1. starting \in BOOLEAN /\ Ensured(0, starting)
      BY <2>3
    <3>2. deployment'.activeGeneration = 0
      BY <1>1, <2>3 DEF ReplaceState, Deployment
    <3> HIDE DEF starting
    <3> QED
      BY <1>3, <1>5, <3>1, <3>2
  <2>4. CASE ClearCheckpoints /\ Ensured(0, FALSE)
    BY <1>1, <1>3, <1>5, <2>4 DEF ClearCheckpoints, Deployment
  <2>5. CASE ExpiryPasses /\ UNCHANGED health
    BY <1>2, <1>5, <2>5
  <2> QED
    BY <1>5, <2>1, <2>2, <2>3, <2>4, <2>5 DEF OtherCommand
<1>15. ASSUME NEW artifact \in Artifacts, NEW config \in Configs,
              NEW state \in States, NEW expiry \in Expiries,
              Deploy(artifact, config, state, expiry)
       PROVE  HealthMoves
  <2>1. deployment'.activeGeneration = 0
    BY <1>15 DEF Deploy, ReplaceDeployment
  <2> QED
    BY <1>15, <2>1, DeployedHealth DEF HealthMoves
<1>6. CASE Begin
  BY <1>1, <1>2, <1>3, <1>6 DEF Begin, DeactivateDueDeployments, Deployment
<1>7. CASE RecordUnresolved
  <2>1. slot'.worker = 0
    BY <1>1, <1>7, DelayedSlot DEF RecordUnresolved, SlotsInv, SlotFollowsPass
  <2>2. CASE Counted(0)
    BY <2>1, <2>2, CountedHealth DEF HealthMoves
  <2> QED
    BY <1>2, <1>7, <2>2 DEF RecordUnresolved
<1>8. CASE Launch
  <2>1. slot'.worker = 0
    BY <1>8 DEF Launch, SlotsInv, SlotFollowsPass
  <2> QED
    BY <1>1, <1>3, <1>8, <2>1 DEF Launch
<1>9. CASE Start
  <2>1. slot'.worker = 0
    BY <1>9 DEF Start, SlotsInv, SlotFollowsPass
  <2>2. CASE Ensured(0, TRUE)
    <3>1. 0 \in Nat /\ TRUE \in BOOLEAN
      OBVIOUS
    <3>2. UNCHANGED policy
      BY <1>9 DEF Start
    <3> QED
      BY <1>3, <2>1, <2>2, <3>1, <3>2, Zenon
  <2> QED
    BY <1>2, <1>9, <2>2 DEF Start
<1>10. CASE Ready
  <2>1. /\ health' \in Health /\ health'.generation = health.generation
        /\ health'.failures = health.failures
        /\ health'.notified = health.notified
    BY <1>10 DEF Ready, Health, HealthInv
  <2>2. UNCHANGED <<threshold, policies>>
    BY <1>10 DEF Ready, policy
  <2> QED
    BY <2>1, <2>2 DEF HealthMoves, HealthInv, OutagesAnnounced
<1>11. CASE CountFailedLaunch
  BY <1>4, <1>11 DEF CountFailedLaunch
<1>12. CASE RetireFailedLaunch
  BY <1>12, StoppedHealth DEF RetireFailedLaunch, HealthMoves
<1>13. ASSUME NEW w \in 1..Len(workers),
              WorkerActs(w) \/ CountFailure(w) \/ Settle(w)
       PROVE  HealthMoves
  <2>1. CASE CountFailure(w)
    BY <1>4, <2>1 DEF CountFailure
  <2>2. CASE Settle(w)
    BY <2>2, StoppedHealth DEF Settle, HealthMoves
  <2>3. CASE Recovered
    BY <2>3, RecoveredHealth DEF HealthMoves
  <2>4. CASE Deferred
    BY <2>4, DeferredHealth DEF HealthMoves
  <2>5. CASE /\ Counted(workers[w].generation)
             /\ health.generation = workers[w].generation
    BY <1>1, <2>5, CountedHealth DEF HealthMoves
  <2>6. CASE WorkerActs(w)
    BY <1>2, <2>3, <2>4, <2>5, <2>6
    DEF WorkerActs, RecordRun, MarkGenerationStable, WorkerFails, StopsReported,
        WorkerStops, WorkerExits, ServeFails
  <2> QED
    BY <1>13, <2>1, <2>2, <2>6
<1>14. CASE \/ List \/ Waits \/ SecretsMissing \/ SecretsResolved \/ Sweep
            \/ StopReturns \/ StopTimesOut \/ Read \/ LaunchRefused
            \/ HandshakeFails \/ Handshaken \/ NotReady
            \/ StopWorkers \/ ClosesCleanly \/ BackOffEnds \/ Close \/ Crash
  BY <1>2, <1>14
  DEF List, Waits, SecretsMissing, SecretsResolved, Sweep, StopReturns,
      StopTimesOut, Read, LaunchRefused, HandshakeFails, Handshaken, NotReady,
      NotStarted, StopWorkers, ClosesCleanly, ProcessEnds, BackOffEnds, Close, Crash
<1> QED
  BY <1>5, <1>6, <1>7, <1>8, <1>9, <1>10, <1>11, <1>12, <1>13, <1>14, <1>15
  DEF ReconcileNext, PassStep, OtherProcess

-----------------------------------------------------------------------------
(* The invariant *)

\* Every step but a launch keeps the launches and, but for readiness, makes no
\* worker current.
LEMMA StepSlots ==
    ASSUME ReconcileInv, TypeOK', ReconcileNext
    PROVE  /\ SlotsInv'
           /\ \/ LaunchesKept
              \/ /\ Launch
                 /\ Len(workers') = Len(workers) + 1
                 /\ workers'[Len(workers')].generation = Len(generations')
                 /\ \A w \in 1..Len(workers) : workers'[w] = workers[w]
           /\ \/ NoneReadied
              \/ /\ Ready /\ LaunchesKept
                 /\ slot'.worker = New /\ New \in 1..Len(workers)
<1>1. SlotsInv /\ TypeOK /\ deployment.artifact \in Artifacts
  BY DEF ReconcileInv, ReconcileTypeOK, SlotsInv, GenerationsIssued
<1>2. ASSUME SlotsInv' /\ NoneReadied /\ UNCHANGED workers
      PROVE  SlotsInv' /\ NoneReadied /\ LaunchesKept
  BY <1>2 DEF LaunchesKept
<1>3. CASE \/ Begin \/ List \/ Waits \/ RecordUnresolved \/ StopReturns
           \/ Read \/ LaunchRefused \/ Handshaken
           \/ CountFailedLaunch \/ RetireFailedLaunch
  BY <1>1, <1>2, <1>3, PassSlots
<1>4. CASE SecretsMissing \/ SecretsResolved \/ Sweep \/ StopWorkers
  BY <1>1, <1>2, <1>4, TakingSlots
<1>5. CASE OtherProcess \/ BackOffEnds \/ Close
  BY <1>1, <1>2, <1>5, OthersSlots
<1>6. CASE HandshakeFails \/ NotReady \/ StopTimesOut
  BY <1>1, <1>6, EndingSlots
<1>7. CASE Launch
  BY <1>1, <1>7, LaunchSlots
<1>8. CASE Ready
  BY <1>1, <1>8, ReadySlots
<1>9. CASE ClosesCleanly \/ Crash \/ Start
  BY <1>1, <1>9, ProcessSlots
<1>10. CASE \E w \in 1..Len(workers) : WorkerActs(w) \/ CountFailure(w) \/ Settle(w)
  BY <1>1, <1>10, WorkerSlots
<1> QED
  BY <1>3, <1>4, <1>5, <1>6, <1>7, <1>8, <1>9, <1>10 DEF ReconcileNext, PassStep

\* Every step keeps the invariant.
LEMMA ReconcileInvStep == ReconcileInv /\ [ReconcileNext]_vars => ReconcileInv'
<1> SUFFICES ASSUME ReconcileInv, [ReconcileNext]_vars
             PROVE  ReconcileInv'
  OBVIOUS
<1>1. CASE UNCHANGED vars
  BY <1>1
  DEF vars, storeVars, rows, daemonVars, history, ReconcileInv, ReconcileTypeOK,
      TypeOK, FenceConsistent, GenerationsIssued, SlotFollowsPass, Stopping,
      policy, OutagesAnnounced, HealthFollowsWorker, Current, Served, MayRecord,
      NoWorkerForgotten, Running
<1>2. CASE ReconcileNext
  <2>1. /\ SlotsInv /\ TypeOK /\ FenceConsistent /\ GenerationsIssued
        /\ HealthInv /\ HealthFollowsWorker
        /\ deployment.artifact \in Artifacts
    BY DEF ReconcileInv, ReconcileTypeOK, SlotsInv, HealthInv, GenerationsIssued
  <2>2. Operation
    BY <1>2, <2>1, StepOperation
  <2>3. /\ TypeOK' /\ FenceConsistent'
        /\ Len(generations') >= Len(generations)
        /\ deployment'.artifact \in Artifacts
        /\ ActivateGeneration =>
                /\ deployment'.activeGeneration = Len(generations')
                /\ Len(generations') = Len(generations) + 1
        /\ \/ ActivateGeneration
           \/ deployment'.activeGeneration = 0
           \/ /\ deployment'.activeGeneration = deployment.activeGeneration
              /\ deployment'.status = deployment.status
    BY <2>1, <2>2, OperationRows
  <2>4. /\ SlotsInv'
        /\ \/ LaunchesKept
           \/ /\ Launch
              /\ Len(workers') = Len(workers) + 1
              /\ workers'[Len(workers')].generation = Len(generations')
              /\ \A w \in 1..Len(workers) : workers'[w] = workers[w]
        /\ \/ NoneReadied
           \/ /\ Ready /\ LaunchesKept
              /\ slot'.worker = New /\ New \in 1..Len(workers)
    BY <1>2, <2>3, StepSlots
  <2>5. HealthMoves
    BY <1>2, <2>1, <2>3, StepHealth
  <2>6. Len(generations) \in Nat /\ Len(generations') \in Nat /\ Len(workers) \in Nat
    <3>1. Len(generations) \in Nat
      BY <2>1 DEF TypeOK
    <3>2. Len(generations') \in Nat
      BY <2>3 DEF TypeOK
    <3> QED
      BY <2>1, <3>1, <3>2 DEF SlotsInv
  <2>7. GenerationsIssued'
    <3>1. CASE LaunchesKept
      BY <2>1, <2>3, <2>6, <3>1 DEF GenerationsIssued, LaunchesKept
    <3>2. CASE Launch
      <4>1. Len(generations') = Len(generations) + 1
        BY <2>3, <3>2 DEF Launch
      <4> QED
        BY <2>1, <2>3, <2>4, <2>6, <3>1, <4>1 DEF GenerationsIssued
    <3> QED
      BY <2>4, <3>1, <3>2
  <2>8. HealthFollowsWorker'
    <3> SUFFICES ASSUME NEW w \in 1..Len(workers'), Current(w)'
                 PROVE  health'.generation = workers'[w].generation
      BY DEF HealthFollowsWorker
    <3>1. /\ slot'.worker = w /\ Served(w)'
          /\ deployment'.status = "active"
          /\ deployment'.activeGeneration = workers'[w].generation
          /\ workers'[w].generation # 0
          /\ w # 0
      BY <2>7, <2>6 DEF Current, MayRecord, GenerationsIssued
    <3>2. CASE deployment'.activeGeneration = health'.generation
      BY <3>1, <3>2
    <3>3. CASE health'.generation = health.generation
      <4>1. CASE /\ Ready /\ LaunchesKept
                 /\ slot'.worker = New /\ New \in 1..Len(workers)
        BY <3>1, <3>3, <4>1 DEF Ready, MayServe, LaunchesKept
      <4>2. CASE NoneReadied
        <5>1. slot.worker = w /\ Served(w)
          BY <3>1, <4>2 DEF NoneReadied
        <5>2. w \in 1..Len(workers)
          BY <2>1, <2>6, <5>1 DEF SlotsInv, SlotFollowsPass
        <5>3. ~Launch
          BY <2>1, <3>1, <5>1 DEF Launch, SlotsInv, SlotFollowsPass
        <5>4. workers'[w].generation = workers[w].generation
          BY <2>4, <5>2, <5>3 DEF LaunchesKept
        <5>5. ~ActivateGeneration
          BY <2>1, <2>3, <2>6, <3>1, <5>2, <5>4 DEF GenerationsIssued
        <5>6. MayRecord(w)
          BY <2>3, <3>1, <5>4, <5>5 DEF MayRecord
        <5>7. health.generation = workers[w].generation
          BY <2>1, <5>1, <5>2, <5>6 DEF HealthFollowsWorker, Current
        <5> QED
          BY <3>3, <5>4, <5>7
      <4> QED
        BY <2>4, <4>1, <4>2
    <3> QED
      BY <2>5, <3>1, <3>2, <3>3 DEF HealthMoves
  <2> QED
    BY <2>3, <2>4, <2>5, <2>7, <2>8
    DEF ReconcileInv, ReconcileTypeOK, SlotsInv, HealthMoves, HealthInv
<1> QED
  BY <1>1, <1>2

\* A deployment that was just created has no worker.
LEMMA ReconcileInvInit == ReconcileInit => ReconcileInv
<1> SUFFICES ASSUME ReconcileInit PROVE ReconcileInv
  OBVIOUS
<1>1. PICK artifact \in Artifacts, config \in Configs, state \in States,
           expiry \in Expiries :
        deployment = [NoRow EXCEPT
            !.id = 1, !.status = "active", !.artifact = artifact,
            !.config = config, !.configRevision = 1, !.state = state,
            !.destination = 1, !.expiry = expiry]
  BY DEF ReconcileInit
<1>2. /\ deployment \in Deployment
      /\ deployment.artifact = artifact /\ deployment.activeGeneration = 0
  BY <1>1, ExpiriesAssumption DEF NoRow, Deployment
<1>3. TypeOK
  BY <1>2, NoCheckpointsRows DEF ReconcileInit, TypeOK
<1>4. /\ generations = <<>> /\ workers = <<>>
      /\ health = [generation |-> 0, starting |-> TRUE,
                   failures |-> 0, notified |-> FALSE]
      /\ slot = [worker |-> 0, waiting |-> FALSE]
      /\ pass = [at |-> "down", existing |-> 0, stopping |-> 0, closing |-> FALSE]
  BY DEF ReconcileInit, NoSlot
<1>5. /\ 0 \in 0..MaxFailures /\ ~(0 >= threshold)
      /\ threshold \in Thresholds /\ policies = {threshold}
  BY ThresholdsAssumption DEF ReconcileInit
<1>6. ReconcileTypeOK /\ OutagesAnnounced
  BY <1>3, <1>4, <1>5
  DEF ReconcileTypeOK, Health, Slot, Pass, OutagesAnnounced
<1>7. FenceConsistent /\ GenerationsIssued
  BY <1>2, <1>4 DEF FenceConsistent, GenerationsIssued
<1>8. SlotFollowsPass /\ HealthFollowsWorker /\ NoWorkerForgotten
  BY <1>4
  DEF SlotFollowsPass, Stopping, HealthFollowsWorker, NoWorkerForgotten
<1> QED
  BY <1>6, <1>7, <1>8 DEF ReconcileInv

-----------------------------------------------------------------------------
(* The theorems *)

\* The slot, the pass, the workers, the health row and the fence agree at every
\* step of the daemon's goroutines and of the commands between them.
THEOREM ReconcileInvariant == ReconcileSpec => []ReconcileInv
BY ReconcileInvInit, ReconcileInvStep, PTL DEF ReconcileSpec

\* health.go keeps count and latch when deployments.go changes the threshold, and
\* writes both in separate statements for workers, launches and secrets of any
\* generation: an outage at or above each threshold it was measured by has been
\* announced, one below all of them has not, and its end releases the latch.
THEOREM LatchCorrect == ReconcileSpec => []OutagesAnnounced
<1>1. ReconcileInv => OutagesAnnounced
  BY DEF ReconcileInv
<1> QED
  BY <1>1, ReconcileInvariant, PTL

\* reconcile.go reads the slot, and stops, launches and fails between: from the
\* step that found or made it empty until readiness fills it, it stays empty, and
\* one worker at most is being stopped.
THEOREM SlotCorrect == ReconcileSpec => []SlotFollowsPass
<1>1. ReconcileInv => SlotFollowsPass
  BY DEF ReconcileInv
<1> QED
  BY <1>1, ReconcileInvariant, PTL

\* RecordRun fails for a worker whose generation the health row is not at.  No
\* failure of a launch, a secret or another worker moves the row from under a
\* worker that may commit.
THEOREM HealthCorrect == ReconcileSpec => []HealthFollowsWorker
<1>1. ReconcileInv => HealthFollowsWorker
  BY DEF ReconcileInv
<1> QED
  BY <1>1, ReconcileInvariant, PTL

\* reconcile reads a slot under a lock and replaces or removes it after, while the
\* goroutines of launch clear it: a process that runs always has the slot, or is
\* being stopped.
THEOREM WorkersAccountedFor == ReconcileSpec => []NoWorkerForgotten
<1>1. ReconcileInv => NoWorkerForgotten
  BY DEF ReconcileInv
<1> QED
  BY <1>1, ReconcileInvariant, PTL

=============================================================================
