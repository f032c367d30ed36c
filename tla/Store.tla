-------------------------------- MODULE Store --------------------------------
(***************************************************************************)
(* The durable rows behind one deployment name, and every operation of     *)
(* internal/storage that reads or writes them.                             *)
(*                                                                         *)
(* SQLite admits one writer at a time, so each operation of the Store type *)
(* is one atomic step.  The steps of the daemon, of the workers it relays  *)
(* and of any number of monitord commands interleave freely between them:  *)
(* a value read in one step (a runtime snapshot, a build's base state, the *)
(* active destination) may be stale in the step that uses it.              *)
(*                                                                         *)
(* The health row that some of these operations also write is left out;    *)
(* delivery leases and retries are in Outbox.tla.                          *)
(*                                                                         *)
(* A definition named ..._Mutant is the one after it with a bug a change   *)
(* to the code could introduce; nothing uses it.                           *)
(***************************************************************************)
EXTENDS Naturals, Sequences

CONSTANTS
    States,          \* deployment state documents
    Configs,         \* configuration hashes
    Artifacts,       \* artifact ids
    Sources,         \* checkpoint sources
    CheckpointValues,
    EventIds,        \* source-occurrence ids chosen by a monitor
    EventBodies,     \* message content, without the commit timestamp
    Payloads,        \* what a transaction frame may write
    Expiries,        \* the expiry a deploy or resume may set
    Builders,        \* monitord deploy commands that may run at once
    None,            \* the absence of a value
    MaxDeployments,  \* bound on rows ever created under the name
    MaxRevision,     \* bound on deployments.state_revision
    MaxGeneration    \* bound on deployment_generations.generation

Event == [id : EventIds, body : EventBodies]

CheckpointRows == UNION {[S -> CheckpointValues] : S \in SUBSET Sources}

Payload == [state : States, checkpoints : CheckpointRows, events : SUBSET Event]

ASSUME PayloadsAssumption == Payloads \subseteq Payload

ASSUME BoundsAssumption ==
    /\ MaxDeployments \in Nat
    /\ MaxRevision \in Nat
    /\ MaxGeneration \in Nat

ASSUME ExpiriesAssumption == Expiries \subseteq {"never", "later"}

ASSUME NoneAssumption ==
    None \notin States \cup Nat

VARIABLES
    deployment,    \* the row of table deployments, and the id it was given
    generations,   \* table deployment_generations, indexed by generation
    transactions,  \* table transactions: the ledger of committed frames
    checkpoints,   \* table checkpoints
    events,        \* rows of outbox_events (kind monitor) and the destination
                   \* revision their deliveries are bound to
    listed,        \* the daemon's RuntimeMetadata for the row
    snapshot,      \* the daemon's RuntimeDeployment between read and launch
    builds,        \* what each deploy command read before compiling
    ack,           \* what ApplyTransaction returned, if it was the last step
    commits,       \* history: every frame ever applied, in order
    fencedThrough  \* history: newest generation that existed at the last fence

rows == <<deployment, generations, transactions, checkpoints, events>>
history == <<commits, fencedThrough>>
daemonVars == <<listed, snapshot>>
storeVars == <<rows, daemonVars, builds, ack, history>>

-----------------------------------------------------------------------------
(* Rows *)

Deployment ==
    [id : Nat,
     status : {"none", "active", "inactive", "archived"},
     artifact : Artifacts \cup {None},
     config : Configs \cup {None},
     configRevision : Nat,
     activeGeneration : Nat,
     state : States \cup {None},
     stateRevision : Nat,
     destination : Nat,
     expiry : {"never", "later", "due"}]

Generation ==
    [status : {"active", "retired"}, lastSequence : Nat]

\* The payload hash covers every field, so two frames have the same hash exactly
\* when they are equal.
Frame ==
    [id : Nat, generation : Nat, sequence : Nat, base : Nat, payload : Payload]

LedgerRow == [frame : Frame, result : Nat \ {0}]

EventRow ==
    [event : Event, generation : Nat, sequence : Nat, destination : Nat]

Snapshot ==
    [id : Nat, artifact : Artifacts \cup {None}, configRevision : Nat,
     config : Configs \cup {None}, activeGeneration : Nat,
     state : States \cup {None}, stateRevision : Nat,
     checkpoints : CheckpointRows]

Listing ==
    [id : Nat, artifact : Artifacts \cup {None}, configRevision : Nat,
     activeGeneration : Nat]

Build == [id : Nat, expected : Nat \cup {None}, base : States \cup {None}]

NoRow ==
    [id |-> 0, status |-> "none", artifact |-> None, config |-> None,
     configRevision |-> 0, activeGeneration |-> 0, state |-> None,
     stateRevision |-> 0, destination |-> 0, expiry |-> "never"]

NoCheckpoints == [s \in {} |-> None]

\* UPDATE deployment_generations SET status='retired' WHERE status='active'
RetireAll(gens) ==
    [g \in 1..Len(gens) |-> [gens[g] EXCEPT !.status = "retired"]]

Retire(gens, g) ==
    [gens EXCEPT ![g].status = "retired"]

\* INSERT ... ON CONFLICT DO UPDATE: the rows written replace, the rest remain.
Upsert(old, new) ==
    [s \in DOMAIN old \cup DOMAIN new |->
        IF s \in DOMAIN new THEN new[s] ELSE old[s]]

Fence == fencedThrough' = Len(generations)

-----------------------------------------------------------------------------
(* Deploying *)

Init ==
    /\ deployment = NoRow
    /\ generations = <<>>
    /\ transactions = {}
    /\ checkpoints = NoCheckpoints
    /\ events = {}
    /\ listed = None
    /\ snapshot = None
    /\ builds = [b \in Builders |-> None]
    /\ ack = None
    /\ commits = <<>>
    /\ fencedThrough = 0

\* monitord deploy reads the row by name before it compiles.  The monitor is
\* described with the current state as its base, or none under --reset-state.
StartBuild(b) ==
    /\ builds[b] = None
    /\ deployment.status # "archived"
    /\ \/ /\ deployment.status = "none"
          /\ builds' = [builds EXCEPT ![b] =
                [id |-> 0, expected |-> None, base |-> None]]
       \/ /\ deployment.status # "none"
          /\ \E base \in {deployment.state, None} :
                builds' = [builds EXCEPT ![b] =
                    [id |-> deployment.id,
                     expected |-> deployment.stateRevision, base |-> base]]
    /\ ack' = None
    /\ UNCHANGED <<rows, daemonVars, history>>

NewId_Mutant == IF deployment.id = 0 THEN 1 ELSE deployment.id

\* A random id that was never used before names the new row.
NewId == deployment.id + 1

DeployNew(b, artifact, config, state, expiry) ==
    /\ builds[b] # None
    /\ deployment.status = "none"
    /\ builds[b].expected = None
    /\ deployment.id < MaxDeployments
    /\ deployment' =
            [id |-> NewId, status |-> "active",
             artifact |-> artifact, config |-> config, configRevision |-> 1,
             activeGeneration |-> 0, state |-> state, stateRevision |-> 0,
             destination |-> 1, expiry |-> expiry]
    /\ builds' = [builds EXCEPT ![b] = None]
    /\ fencedThrough' = 0
    /\ ack' = None
    /\ UNCHANGED <<generations, transactions, checkpoints, events, daemonVars,
                   commits>>

BaseCurrent_Mutant(b) == builds[b].expected # None

\* The row is still at the revision that the command read.
BaseCurrent(b) == builds[b].expected = deployment.stateRevision

\* Deploying over a row that exists replaces state and destinations and fences
\* every worker; checkpoints stay.
ReplaceDeployment(artifact, config, state, expiry) ==
    /\ deployment.status \in {"active", "inactive"}
    /\ deployment.stateRevision < MaxRevision
    /\ deployment' =
            [id |-> deployment.id, status |-> "active",
             artifact |-> artifact, config |-> config,
             configRevision |-> IF config = deployment.config
                                THEN deployment.configRevision
                                ELSE deployment.configRevision + 1,
             activeGeneration |-> 0, state |-> state,
             stateRevision |-> deployment.stateRevision + 1,
             destination |-> deployment.destination + 1, expiry |-> expiry]
    /\ generations' = RetireAll(generations)
    /\ Fence
    /\ ack' = None
    /\ UNCHANGED <<transactions, checkpoints, events, daemonVars, commits>>

\* It is a compare-and-set on the row's state revision.
Redeploy(b, artifact, config, state, expiry) ==
    /\ builds[b] # None
    /\ BaseCurrent(b)
    /\ ReplaceDeployment(artifact, config, state, expiry)
    /\ builds' = [builds EXCEPT ![b] = None]

\* ErrStateConflict and ErrInvalidStatus leave every row alone.
DeployRefused(b) ==
    /\ builds[b] # None
    /\ \/ deployment.status = "archived"
       \/ deployment.status = "none" /\ builds[b].expected # None
       \/ deployment.status \in {"active", "inactive"} /\ ~BaseCurrent(b)
    /\ builds' = [builds EXCEPT ![b] = None]
    /\ ack' = None
    /\ UNCHANGED <<rows, daemonVars, history>>

-----------------------------------------------------------------------------
(* Operator commands *)

PauseDeployment ==
    /\ deployment.status = "active"
    /\ deployment' = [deployment EXCEPT
            !.status = "inactive", !.activeGeneration = 0, !.expiry = "never"]
    /\ generations' = RetireAll(generations)
    /\ Fence
    /\ ack' = None
    /\ UNCHANGED <<transactions, checkpoints, events, daemonVars, builds, commits>>

ResumeDeployment(expiry) ==
    /\ deployment.status = "inactive"
    /\ deployment' = [deployment EXCEPT
            !.status = "active", !.activeGeneration = 0, !.expiry = expiry]
    /\ ack' = None
    /\ UNCHANGED <<generations, transactions, checkpoints, events, daemonVars,
                   builds, history>>

ArchiveDeployment ==
    /\ deployment.status = "inactive"
    /\ deployment' = [deployment EXCEPT !.status = "archived", !.expiry = "never"]
    /\ generations' = RetireAll(generations)
    /\ Fence
    /\ ack' = None
    /\ UNCHANGED <<transactions, checkpoints, events, daemonVars, builds, commits>>

\* ON DELETE CASCADE empties the child tables.  Without --force the command
\* first refuses while a delivery is queued, see Outbox.tla.
PurgeDeployment ==
    /\ deployment.status = "archived"
    /\ deployment' = [NoRow EXCEPT !.id = deployment.id]
    /\ generations' = <<>>
    /\ transactions' = {}
    /\ checkpoints' = NoCheckpoints
    /\ events' = {}
    /\ fencedThrough' = 0
    /\ ack' = None
    /\ UNCHANGED <<daemonVars, builds, commits>>

\* monitord state set and state clear: the base revision was read by id.
ReplaceState(base, state) ==
    /\ deployment.status \in {"active", "inactive"}
    /\ base = deployment.stateRevision
    /\ deployment.stateRevision < MaxRevision
    /\ deployment' = [deployment EXCEPT
            !.state = state, !.stateRevision = @ + 1, !.activeGeneration = 0]
    /\ generations' = RetireAll(generations)
    /\ Fence
    /\ ack' = None
    /\ UNCHANGED <<transactions, checkpoints, events, daemonVars, builds, commits>>

ClearCheckpoints ==
    /\ deployment.status = "inactive"
    /\ deployment' = [deployment EXCEPT !.activeGeneration = 0]
    /\ generations' = RetireAll(generations)
    /\ checkpoints' = NoCheckpoints
    /\ Fence
    /\ ack' = None
    /\ UNCHANGED <<transactions, events, daemonVars, builds, commits>>

-----------------------------------------------------------------------------
(* The daemon *)

\* The clock reaches expires_at.
ExpiryPasses ==
    /\ deployment.status = "active"
    /\ deployment.expiry = "later"
    /\ deployment' = [deployment EXCEPT !.expiry = "due"]
    /\ ack' = None
    /\ UNCHANGED <<generations, transactions, checkpoints, events, daemonVars,
                   builds, history>>

DeactivateDueDeployments ==
    /\ deployment.status = "active"
    /\ deployment.expiry = "due"
    /\ deployment' = [deployment EXCEPT !.status = "inactive", !.activeGeneration = 0]
    /\ generations' = RetireAll(generations)
    /\ Fence
    /\ ack' = None
    /\ UNCHANGED <<transactions, checkpoints, events, daemonVars, builds, commits>>

\* A new daemon process holds the lock its predecessor held, so no worker it did
\* not start can be healthy.  What the old process had in memory is gone.
RecoverGenerations ==
    /\ generations' = RetireAll(generations)
    /\ deployment' = [deployment EXCEPT !.activeGeneration =
            IF deployment.status = "active" THEN 0 ELSE @]
    /\ snapshot' = None
    /\ listed' = None
    /\ Fence
    /\ ack' = None
    /\ UNCHANGED <<transactions, checkpoints, events, builds, commits>>

ListRuntimeMetadata ==
    /\ listed = None
    /\ snapshot = None
    /\ deployment.status = "active"
    /\ deployment.expiry # "due"
    /\ listed' =
            [id |-> deployment.id, artifact |-> deployment.artifact,
             configRevision |-> deployment.configRevision,
             activeGeneration |-> deployment.activeGeneration]
    /\ ack' = None
    /\ UNCHANGED <<rows, snapshot, builds, history>>

RuntimeDeployment ==
    [id |-> deployment.id, artifact |-> deployment.artifact,
     config |-> deployment.config,
     configRevision |-> deployment.configRevision,
     activeGeneration |-> deployment.activeGeneration,
     state |-> deployment.state,
     stateRevision |-> deployment.stateRevision,
     checkpoints |-> checkpoints]

\* State, checkpoints and configuration come from one WAL snapshot, whatever the
\* status is by now.  A row that changed since it was listed, or is gone, waits
\* for the next pass: its secrets were resolved for another artifact.
GetRuntimeDeployment ==
    /\ listed # None
    /\ listed' = None
    /\ snapshot' =
            IF /\ deployment.status # "none"
               /\ deployment.id = listed.id
               /\ deployment.artifact = listed.artifact
               /\ deployment.configRevision = listed.configRevision
               /\ deployment.activeGeneration = listed.activeGeneration
            THEN RuntimeDeployment
            ELSE None
    /\ ack' = None
    /\ UNCHANGED <<rows, builds, history>>

SnapshotCurrent_Mutant ==
    /\ snapshot.id = deployment.id
    /\ deployment.status = "active"
    /\ deployment.expiry # "due"
    /\ snapshot.configRevision = deployment.configRevision
    /\ snapshot.artifact = deployment.artifact
    /\ snapshot.activeGeneration = deployment.activeGeneration

SnapshotCurrent ==
    /\ snapshot.id = deployment.id
    /\ deployment.status = "active"
    /\ deployment.expiry # "due"
    /\ snapshot.configRevision = deployment.configRevision
    /\ snapshot.artifact = deployment.artifact
    /\ snapshot.stateRevision = deployment.stateRevision
    /\ snapshot.activeGeneration = deployment.activeGeneration

\* The fence advances before the worker starts.  A generation whose worker has
\* already stopped may still be named by the row; it is retired again.
ActivateGeneration ==
    /\ snapshot # None
    /\ SnapshotCurrent
    /\ Len(generations) < MaxGeneration
    /\ generations' =
            Append(IF deployment.activeGeneration > 0
                   THEN Retire(generations, deployment.activeGeneration)
                   ELSE generations,
                   [status |-> "active", lastSequence |-> 0])
    /\ deployment' = [deployment EXCEPT !.activeGeneration = Len(generations) + 1]
    /\ snapshot' = None
    /\ Fence
    /\ ack' = None
    /\ UNCHANGED <<listed, transactions, checkpoints, events, builds, commits>>

ActivationRefused ==
    /\ snapshot # None
    /\ ~SnapshotCurrent
    /\ snapshot' = None
    /\ ack' = None
    /\ UNCHANGED <<rows, listed, builds, history>>

\* The row's active_generation keeps naming a stopped generation.
MarkGenerationStopped(g) ==
    /\ generations' = Retire(generations, g)
    /\ fencedThrough' = IF g > fencedThrough THEN g ELSE fencedThrough
    /\ ack' = None
    /\ UNCHANGED <<deployment, transactions, checkpoints, events, daemonVars,
                   builds, commits>>

-----------------------------------------------------------------------------
(* Committing *)

Stored(frame) ==
    {t \in transactions : /\ t.frame.id = frame.id
                          /\ t.frame.generation = frame.generation
                          /\ t.frame.sequence = frame.sequence}

\* An event id already used, in the table or in this frame, for other content.
EventConflict(frame) ==
    \E e \in frame.payload.events :
        \/ \E row \in events : row.event.id = e.id /\ row.event # e
        \/ \E f \in frame.payload.events : f.id = e.id /\ f # e

NewEvents_Mutant(frame) == frame.payload.events

\* Events whose id is new.  The others coalesce with the row they repeat.
NewEvents(frame) ==
    {e \in frame.payload.events : \A row \in events : row.event.id # e.id}

Admitted_MutantFence(frame) ==
    /\ frame.id = deployment.id
    /\ frame.generation \in 1..Len(generations)
    /\ frame.sequence = generations[frame.generation].lastSequence + 1
    /\ frame.base = deployment.stateRevision
    /\ ~EventConflict(frame)

Admitted_MutantSequence(frame) ==
    /\ frame.id = deployment.id
    /\ deployment.activeGeneration > 0
    /\ frame.generation = deployment.activeGeneration
    /\ generations[frame.generation].status = "active"
    /\ frame.base = deployment.stateRevision
    /\ ~EventConflict(frame)

\* The frame comes from the generation the row names, which is not retired, is
\* the next of its sequence and was computed from the current state.
Admitted(frame) ==
    /\ frame.id = deployment.id
    /\ deployment.activeGeneration > 0
    /\ frame.generation = deployment.activeGeneration
    /\ generations[frame.generation].status = "active"
    /\ frame.sequence = generations[frame.generation].lastSequence + 1
    /\ frame.base = deployment.stateRevision
    /\ ~EventConflict(frame)

\* destination is the binding revision the relay read before this step.
CommitFrame(frame, destination) ==
    /\ Stored(frame) = {}
    /\ Admitted(frame)
    /\ deployment.stateRevision < MaxRevision
    /\ deployment' = [deployment EXCEPT
            !.state = frame.payload.state, !.stateRevision = @ + 1]
    /\ generations' = [generations EXCEPT
            ![frame.generation].lastSequence = frame.sequence]
    /\ ack' = [frame |-> frame, result |-> deployment.stateRevision + 1]
    /\ transactions' = transactions \cup {ack'}
    /\ checkpoints' = Upsert(checkpoints, frame.payload.checkpoints)
    /\ events' = events \cup
            {[event |-> e, generation |-> frame.generation,
              sequence |-> frame.sequence, destination |-> destination] :
                e \in NewEvents(frame)}
    /\ commits' = Append(commits, ack')
    /\ UNCHANGED <<daemonVars, builds, fencedThrough>>

\* The ledger is consulted before the fence, so the ACK of a generation replaced
\* since is still found.  A different frame under the same key is an error.
ReplayFrame(frame) ==
    /\ \E t \in Stored(frame) : t.frame = frame /\ ack' = t
    /\ UNCHANGED <<rows, daemonVars, builds, history>>

ApplyTransaction(frame, destination) ==
    CommitFrame(frame, destination) \/ ReplayFrame(frame)

-----------------------------------------------------------------------------
(* Retention *)

\* Age is not modelled: any event whose deliveries are terminal may be due.
PruneTerminalOutbox ==
    \E doomed \in SUBSET events \ {{}} :
        /\ events' = events \ doomed
        /\ ack' = None
        /\ UNCHANGED <<deployment, generations, transactions, checkpoints,
                       daemonVars, builds, history>>

Prunable_MutantActive(t) ==
    \A row \in events :
        ~(/\ row.generation = t.frame.generation
          /\ row.sequence = t.frame.sequence)

Prunable_MutantEvents(t) ==
    generations[t.frame.generation].status = "retired"

Prunable(t) ==
    /\ generations[t.frame.generation].status = "retired"
    /\ \A row \in events :
            ~(/\ row.generation = t.frame.generation
              /\ row.sequence = t.frame.sequence)

\* One slice of the sweep.  Seven days in retirement is any time after it.
PruneRetiredTransactions ==
    \E doomed \in SUBSET {t \in transactions : Prunable(t)} \ {{}} :
        /\ transactions' = transactions \ doomed
        /\ ack' = None
        /\ UNCHANGED <<deployment, generations, checkpoints, events, daemonVars,
                       builds, history>>

-----------------------------------------------------------------------------

DeployCommand(b) ==
    \/ StartBuild(b)
    \/ \E artifact \in Artifacts, config \in Configs, state \in States,
          expiry \in Expiries :
            \/ DeployNew(b, artifact, config, state, expiry)
            \/ Redeploy(b, artifact, config, state, expiry)
    \/ DeployRefused(b)

OperatorCommand ==
    \/ PauseDeployment
    \/ \E expiry \in Expiries : ResumeDeployment(expiry)
    \/ ArchiveDeployment
    \/ PurgeDeployment
    \/ \E base \in 0..MaxRevision, state \in States : ReplaceState(base, state)
    \/ ClearCheckpoints

DaemonStep ==
    \/ DeactivateDueDeployments
    \/ RecoverGenerations
    \/ ListRuntimeMetadata
    \/ GetRuntimeDeployment
    \/ ActivateGeneration
    \/ ActivationRefused
    \/ \E g \in 1..Len(generations) : MarkGenerationStopped(g)
    \/ PruneTerminalOutbox
    \/ PruneRetiredTransactions

\* Any frame that the holder of a generation's token can have signed: current or
\* stale, first or repeated, in sequence or not.
Frames ==
    [id : 1..deployment.id, generation : 1..MaxGeneration,
     sequence : 1..MaxRevision, base : 0..MaxRevision, payload : Payloads]

WorkerStep ==
    \E frame \in Frames, destination \in 1..deployment.destination :
        ApplyTransaction(frame, destination)

Next ==
    \/ \E b \in Builders : DeployCommand(b)
    \/ OperatorCommand
    \/ ExpiryPasses
    \/ DaemonStep
    \/ WorkerStep

Spec == Init /\ [][Next]_storeVars

-----------------------------------------------------------------------------
(* Properties *)

\* Every row and every value held in memory has the shape its columns declare.
TypeOK ==
    /\ deployment \in Deployment
    /\ generations \in Seq(Generation)
    /\ transactions \subseteq LedgerRow
    /\ checkpoints \in CheckpointRows
    /\ events \subseteq EventRow
    /\ listed \in Listing \cup {None}
    /\ snapshot \in Snapshot \cup {None}
    /\ builds \in [Builders -> Build \cup {None}]
    /\ ack \in LedgerRow \cup {None}
    /\ commits \in Seq(LedgerRow)
    /\ fencedThrough \in Nat

\* Fencing is kept in two tables by separate statements.  They agree: the row
\* never names a generation older than the newest, and a generation that may
\* still write is the one the row names, of a deployment that is active.
FenceConsistent ==
    /\ deployment.activeGeneration \in {0, Len(generations)}
    /\ \A g \in 1..Len(generations) : generations[g].status = "active" =>
            /\ g = deployment.activeGeneration
            /\ deployment.status = "active"

Precedes(c, d) ==
    \/ c.generation < d.generation
    \/ c.generation = d.generation /\ c.sequence < d.sequence

\* A frame is applied at most once, however often and however late it is sent
\* again: after a restart, a replacement, a pause, or once retention has removed
\* its receipt.  Frames of a row are applied in the order of their generations,
\* each generation's in the order of its sequence, each producing a later
\* revision than the one before.
AppliedOnceInOrder ==
    \A j \in 1..Len(commits) : \A i \in 1..(j - 1) :
        commits[i].frame.id = commits[j].frame.id =>
            /\ Precedes(commits[i].frame, commits[j].frame)
            /\ commits[i].result <= commits[j].frame.base

\* While a generation can still write, every sequence it has used has a receipt,
\* so a worker that lost an ACK always finds it by sending the frame again.
ReceiptsKeptWhileActive ==
    \A g \in 1..Len(generations) : generations[g].status = "active" =>
        \A s \in 1..generations[g].lastSequence :
            \E t \in transactions :
                t.frame.generation = g /\ t.frame.sequence = s

\* Outbox rows and ledger rows are written together and removed by two sweeps
\* that do not coordinate: an event's receipt outlives the event, and was
\* issued to a frame that carried it.
EventsHaveReceipts ==
    \A row \in events : \E t \in transactions :
        /\ t.frame.generation = row.generation
        /\ t.frame.sequence = row.sequence
        /\ row.event \in t.frame.payload.events

\* An event id names one occurrence: whatever frames repeat it, from whatever
\* generations, one row carries it, and never with other content.
EventIdsUnique ==
    \A row, other \in events : row.event.id = other.event.id => row = other

\* An ACK is only ever given for a frame that was applied, and with the revision
\* it was applied at, also when it is a replay for a generation since fenced.
AckedIsApplied ==
    ack # None => \E i \in 1..Len(commits) : commits[i] = ack

\* Once a deploy, pause, archive, state replacement, checkpoint clear, expiry,
\* restart, stop or new activation has fenced the generations that existed, no
\* frame of theirs is applied, and none is applied to an inactive deployment.
NothingAppliedPastFence ==
    [][commits' # commits =>
        /\ commits'[Len(commits')].frame.generation > fencedThrough
        /\ deployment.status = "active"]_storeVars

\* What keeps AppliedOnceInOrder and NothingAppliedPastFence inductive: no frame
\* was applied beyond where the row, its generations and their sequences are
\* now, and a generation that may still write was issued after the last fence.
CommitsBounded ==
    \A i \in 1..Len(commits) :
        /\ commits[i].frame.id <= deployment.id
        /\ commits[i].frame.id = deployment.id /\ deployment.status # "none" =>
            /\ commits[i].result <= deployment.stateRevision
            /\ commits[i].frame.generation \in 1..Len(generations)
            /\ commits[i].frame.sequence
                    <= generations[commits[i].frame.generation].lastSequence

WritersUnfenced ==
    /\ fencedThrough <= Len(generations)
    /\ \A g \in 1..Len(generations) :
            generations[g].status = "active" => g > fencedThrough

\* The ledger is a part of what was applied: retention only shrinks it.
LedgerApplied ==
    \A t \in transactions : \E i \in 1..Len(commits) : commits[i] = t

FenceInv ==
    /\ TypeOK
    /\ FenceConsistent
    /\ CommitsBounded
    /\ WritersUnfenced
    /\ AppliedOnceInOrder
    /\ LedgerApplied
    /\ AckedIsApplied

\* The state a new generation's worker is given is the durable one, and the
\* configuration and artifact it runs are the deployed ones, although they were
\* read in an earlier transaction than the one that activates it.
LaunchedFromCurrentState ==
    [][Len(generations') > Len(generations) =>
        /\ snapshot.state = deployment.state
        /\ snapshot.config = deployment.config
        /\ snapshot.artifact = deployment.artifact]_storeVars

\* checkpoints.go:47: the runtime snapshot reads "state, checkpoints and
\* configuration ... Activation revalidates this snapshot before advancing the
\* fence", so the checkpoints a worker starts with are the durable ones.
LaunchedFromCurrentCheckpoints ==
    [][Len(generations') > Len(generations) =>
        snapshot.checkpoints = checkpoints]_storeVars

Redeployed(b) ==
    /\ builds[b] # None /\ builds'[b] = None
    /\ builds[b].expected # None
    /\ deployment'.destination = deployment.destination + 1

\* A state that was migrated while the monitor compiled replaces the very state
\* it was migrated from, as long as the row is the one the command had read.
BuildReplacesItsBase ==
    [][\A b \in Builders : Redeployed(b) /\ builds[b].id = deployment.id =>
            builds[b].base \in {None, deployment.state}]_storeVars

\* deployments.go:42: "ExpectedStateRevision prevents a build from overwriting
\* state committed while it was compiling", whichever row now has the name.
BuildNeverOverwrites ==
    [][\A b \in Builders : Redeployed(b) =>
            builds[b].base \in {None, deployment.state}]_storeVars

Owner ==
    IF /\ deployment.activeGeneration \in 1..Len(generations)
       /\ generations[deployment.activeGeneration].status = "active"
    THEN deployment.activeGeneration
    ELSE 0

\* The generation whose frame produced the current revision.
Writer ==
    IF /\ Len(commits) > 0
       /\ commits[Len(commits)].frame.id = deployment.id
       /\ commits[Len(commits)].result = deployment.stateRevision
    THEN commits[Len(commits)].frame.generation
    ELSE 0

Register == INSTANCE FencedRegister WITH
    Values <- States, NoValue <- None,
    epoch <- deployment.id, value <- deployment.state,
    revision <- deployment.stateRevision, issued <- Len(generations),
    owner <- Owner, writer <- Writer

\* All of the store's tables and operations together are one fenced register:
\* commits, replays, activations, operator commands, restarts and sweeps each
\* are one of its steps or none.
ImplementsRegister == Register!Spec

=============================================================================
