# A verification development of monitord

monitord runs *monitors*: small Go programs, compiled once per deployment, that
watch a source and emit events. A daemon starts one worker process per
deployment, relays each transaction of the worker into SQLite, and delivers the
events from an outbox. This directory holds TLA+ modules for the parts of it that
are hard to test, the TLC instances that check them, and TLAPS proofs of their safety
properties for every size of instance. Source locations below are relative to the
repository root.

## 1. The system

### Components, their state and their operations

| component | code | state | operations |
|---|---|---|---|
| durable store | `internal/storage` (`schema.sql`, `deployments.go`, `generations.go`, `transactions.go`, `checkpoints.go`, `bindings.go`) | one row per deployment name, its generations (the fence), the ledger of committed frames, source checkpoints, destination bindings | deploy, pause, resume, archive, purge, state set/clear, checkpoint clear, expiry, recover, list, snapshot, activate, stop, apply |
| outbox | `internal/storage/outbox.go`, `internal/daemon/outbox.go`, `delivery.go` | deliveries with status, lease, attempt count and due time; requests in flight | claim, defer, send, mark delivered/failed, retry dead |
| health | `internal/storage/health.go` | failure count, unhealthy latch, health notices | ready, run, stable, failure |
| retention | `internal/storage/retention.go`, `internal/daemon/maintenance.go` | sweep cursors | prune terminal outbox, prune retired ledger rows |
| worker relay | `internal/daemon/worker.go`, `registry.go` | one goroutine, two pipes and a process per worker; slots with back-off | launch, serve, transaction, send, stop, kill |
| coordinator, session | `coordinator.go`, `session.go`, `wire.go`, `protocol.go` | sequence, revision, expected/pending/last ACK; the session's copy of state and checkpoints | commit, resend, receive ACK, accept ACK, stop |
| plan supervisor | `supervisor.go`, `plan.go`, `runtime.go`, `lifecycle.go` | the callback in progress, its commit scope and timers | run callbacks, bound commits, report runs, stop hook |
| reconciliation | `internal/daemon/reconcile.go`, `daemon.go`, locks | worker slots | reconcile, stop workers, shutdown |
| WAL checkpointer | `internal/storage/checkpoint.go` | pressure flag | checkpoint, raise, clear |
| EVM sources | `catalog/quicknode/evm/blocks.go`, `events.go` | progress and recent blocks; replay cursor and journal of live logs | start, head, tick, rollback, read a range, apply, live log, confirm |
| Solana source | `catalog/quicknode/solana/events.go` | cursor, journal of handled pushes | start, page, record, push |
| subscriptions, RPC client, proxies | `catalog/quicknode/*.go`, `catalog/httpx` | connection, admission slots, proxy index | connect, reconnect, admit, rotate |
| command line, build, configuration, secrets, delivery adapters, installation | `internal/cli`, `internal/monitor`, `internal/config`, `internal/secrets`, `internal/delivery`, `infra` | none that outlives a command | files, processes, requests |

### How they interact

```
 operator commands ──────────────┐            outbox worker ── requests ──> destinations
      (own processes)            v                 ^  v
 worker process <── pipes ──> relay ── calls ──> SQLite store <── calls ── reconcile, maintenance
  supervisor, coordinator        (one goroutine        (one writer at a time)
                                  per worker)
```

Commands and the daemon are separate processes that share only the database.
SQLite admits one writer, so a `Store` method is one atomic step; everything
between two methods is a race. Workers share nothing with the daemon but two
pipes.

### What is hard

* **Fencing.** A worker may be slow, orphaned, replaced, paused or resurrected
  from a pipe. The right to write is a *generation* recorded in two tables and
  changed by nine operations.
* **Resending.** A worker resends a frame until it is acknowledged; the ledger
  must recognise it however late it comes, and retention prunes the ledger.
* **Reads used later.** The listing, the runtime snapshot, a build's base state
  and the destination bindings are each read in one transaction and acted on in
  another, seconds later for a build.
* **Names that come back.** Purging and deploying a name again restarts revisions
  and generations under reads and frames of the old row.
* **Delivery.** A destination may accept a message whose answer, settlement or
  daemon is then lost; leases can lapse under a running attempt.
* **Slots and health.** A pass of the daemon reads a worker's slot, releases the
  lock, and acts on what it read, while goroutines of ending workers clear it; and
  the health row is written by workers, launches, secret resolution and commands.
* **Chains that fork.** Sources are woken by pushes that are lost, late, repeated
  or from another branch, read ranges over HTTP, commit one block or log at a
  time, and must correct what a reorganisation undoes.
* **Deadlines against settlement.** Callback timeouts, settlement deadlines, stop
  deadlines and late ACKs race inside a worker, through channels of capacity one.

Every such place is listed with its line in `PROJECT.json` under `hazards`, with
the properties that cover it or the reason why none does.

### What makes each component correct

| component | properties |
|---|---|
| store | the two halves of the fence agree; nothing is applied past a fence; each frame is applied at most once and in order; an ACK is true; receipts last while they may be needed; an event id names one occurrence; launches and builds use what is durable; all of it is one fenced register |
| outbox | a duplicate has a cause; a terminal status is deserved; nothing unsettled is dropped; everything is settled in the end |
| relay and coordinator | a session equals the durable state; frames are refused only for cause; ACKs are never mistaken; events go to the current destinations; every commit settles |
| supervisor | each commit is watched; a callback is given up only for its own commit; no callback after an uncertain commit; a failure is counted, and more than once only when the end of the worker is read without its stopped frame; Stop is called after callbacks |
| health | an outage is announced when it reaches the threshold, and its end when it was announced, also when deploys move the threshold meanwhile; the row stays at the generation of the worker that may write it |
| reconciliation, shutdown | no running worker is forgotten; a deployment that stays active gets a current worker; those of an inactive one end; shutdown ends or a stranded goroutine is to blame |
| block source | what the handler holds is one chain that ends at the checkpoint; what has left the journal is final |
| event source | confirmed logs are exactly those of the final blocks passed; a log handled live is confirmed or handed back |
| Solana source | no update is skipped, and none handled twice unless it was pushed late |
| sources together | once the chain rests, the handler has been given everything |


## 2. Modules

### Store, MCStore, MCStoreSafety, FencedRegister

`Store` models one deployment *name*: at most one row at a time, each given a new
id. Its variables are the tables (`deployment`, `generations`, `transactions`,
`checkpoints`, `events`), the values read earlier that some step will use
(`listed`, `snapshot`, `builds`), what `ApplyTransaction` last returned (`ack`)
and two histories (`commits`, `fencedThrough`). One action is one `Store` method,
guards being its `WHERE` clauses and early returns. Frames are all those the
holder of a token could have signed, in any order and any number of times
(`Frames`): stale, repeated, misnumbered, or carrying an event id used before.

Abstractions: a payload hash is equality of frames; a worker token is the
generation it was issued for; "older than seven days" is "at any time after";
artifacts and configurations are values; an event's deliveries are represented by
the binding revision they were given. The health row is left out.

`FencedRegister` is what the store promises: a value written one revision at a
time by the holder of the newest token or by an operator who revokes it.
`Store!ImplementsRegister` instantiates it with a refinement mapping in which
the value is the row's state, the owner is the active generation, and the writer
is the generation of the last applied frame if that frame produced the current
revision. Replays, reads, sweeps and restarts are its stuttering or `Revoke`.

`MCStore` gives TLC payloads: frames that move progress, that also report one
occurrence with either of two contents, or that only move the state. `MCStoreSafety`
takes a behaviour to be of one of two scenarios: frames of all kinds with one row in
one state and configuration, or rows that come and go with frames that only move the
state.

### Outbox

Deliveries of one deployment, with one attempt each in the running daemon, and a
`network` of requests that outlives it. `ClaimOutbox` takes the `Batch` oldest due
rows and only when all earlier attempts have ended, as `process` does. `Send`,
`Accept`/`Reject` (the destination, external), `Answer`, `GiveUp` and the two
statements of `MarkDeliveryFailed` are separate steps. `LeaseExpires` may happen
to any lease, since it is dated before the claim waits for the writer. Back-off
is the nondeterministic `DueAgain`; the rate limiter is the choice to defer.
`dueRows` is the order of `next_attempt_at` among the rows whose time has come:
settling or putting off a row takes it out, claiming does not. A
claim waits for a lease that nothing carries (`FreshLeases`); four are always
enough for the instance that is run, so the wait bounds nothing there.

### Relay, MCRelay

`Relay` extends `Store` with `workers`: for each worker ever launched its process
(sequence, revision, state, the three ACK fields of `workerCoordinator`), its two
pipes, and its relay with the frame in hand. It replaces the store's arbitrary
frames by those the code produces: `Commit` builds a frame from the session,
`Resend` repeats it, `TakeFrame` reads the bindings, `Relayed` is
`ApplyTransaction` and the ACK, `StoreFails` any error of it, `RelayEnds` the end
of `serve`, `RecordStop` the goroutine in `launch`. A new worker is launched only
when the old process has exited (`reconcile.go:63-70` waits for `stop`), but the
old relay may still be reading what it wrote. A daemon restart ends all pipes.

### Supervisor

One worker process from ready to exit, with its four goroutines: `main`
(`serveWorker`), `plan` (`runPlan`, `runCallback`), `callback`, and the reader of
control frames. Each alternative of each `select` is an action. The channels of
capacity one are Booleans, so coalesced signals are coalesced. A settlement
deadline is named by the commit it belongs to, so that a timer set for an earlier
commit can fire under a later one. A monitor is arbitrary: it may ignore
cancellation, overrun, panic, return any error, or drop the error of its commit.

On the daemon's side, `heard` counts the run frames `serve` has read and `serve` is
how it returned: on the stopped frame, on the end of the pipe, or because it gave up
(a store error, the stable timer after a failed run), which kills the worker in the
same step. The end of a generation that was fenced meanwhile counts nothing in the
code and one here: `FailuresCounted` is about generations that may record failures.

One assumption is made of the scheduler, in `IntervalPasses`: what had reached
the process before an interval began (a lost connection, a stop) is taken before
that interval is over. Without it a monitor that drops its commit's error and
polls every nanosecond could run once more.

### Reconcile

One deployment, its workers and the daemon's main goroutine, over `Store`, whose
operations it uses as they are: `Launch` is `ActivateGeneration` and what
`launch` does with it. `pass` is where `reconcile` is and its local variables;
`slot` is the entry of `Daemon.workers`; `health` is the row of
`deployment_health`. Reading the slot (`List`), resolving secrets, stopping,
reading the snapshot, activating, the handshake, readiness, and the two
statements of a failed launch are separate steps, because other processes and
other goroutines run between them. A worker's `relay` is where the goroutine is
that serves it: a process that exited may still be read, and an error of `serve`
is counted in one step and settled in another. A failure that a worker stops with
is `reported` from its run frame to its stopped frame; between the two the pipe may
end or the stable timer fire, and `serve` then returns another error.

Commands of other processes are the store's own operations with what they do to the
health row. `Deploy` changes artifact, configuration, state, expiry and threshold of
the row and keeps the failures and the latch (`ensureDeploymentHealth`,
`health.go:339-342`); `policies` is a history of the thresholds an outage has met.
It stands for a deploy command whose build read the current state: one that did not
is refused and changes nothing. Commands that make or end the row itself (the first
deploy, archive, purge) are left to `Store`, since a row that is archived is never
listed again, and one that is deployed after a purge has another id and slot.

`StopTimesOut` models `kill`, which closes the reader's stop channel before its
pipe: `publishRead` (`worker.go:368`) may then return without a result, and
`serve` waits for one for ever. The worker is `stranded`. Statements of a pass
that run under the daemon's context fail once it is cancelled; those under
`context.Background()` do not.

The status column has more values than `starting`; no code reads the others back.
Frames, which `Relay` models, are left out here, so a worker's transactions are
the choice to fail.

### Chain, Blocks, EvmEvents, AddressEvents, Sources, MCSources

`Chain` is the provider, external: a block is the sequence of fork labels from
genesis to it, so that it commits to its ancestry as its hash does. The chain grows
or is replaced from some height on, never at or below `FinalHeight`: the
confirmations are the operator's judgement of what is final, and the sources rely
on it.

`Blocks` models `evm.Blocks`. `progress` is the checkpoint; the update of the
handler commits with it, so it is also what the worker holds. `run` is the
`phase` with the arguments of `advance`. `RollbackOrphans` is one turn of its
loop, `FetchBlocks` one turn of `advance`'s with its early returns in order,
`ApplyBlock` one block of a batch, `trim` included. Reads that lead to a commit
depending on nothing else that moves are one step with it; the chain moves between
the reading of a batch and each of its blocks. `view` is a history: the blocks the
handler was given and not taken back.

`EvmEvents` models `evm.Events`: `HandleLive` for pushes, `ReplayRange` for one
range or one orphan of `reconcileOne`, `PassLog` for a log that was confirmed before
a restart, `ConfirmLog` for another and its three checkpoints in one commit,
`EndRange`. `AddressEvents` models
`solana.AddressEvents`, whose chain is the finalized history of one address: it
has no forks, but pages, a cursor that runs ahead in memory, and pushes of
transactions that may not be final, ever.

All pushes may be lost, and a failure may come between any two steps: a source
then starts again from its checkpoints. A deployment has one source, so `Sources`
takes a behaviour to be one of a single source, and one run checks the three.

### Proof modules

`StoreProofs`, about `Store` and the register; `RelayProofs`, which builds on it,
and `SessionProofs` on that; `ReconcileProofs`, also on `StoreProofs`;
`OutboxProofs`; `SupervisorProofs`; `BlocksProofs`, and `SourcesProofs` on it, about
the other two sources. See section 4.

## 3. What TLC checks

All bounds are in the configurations. States are distinct states.

| run | instance | checks |
|---|---|---|
| `StoreSafety` (`MCStoreSafety`) | frames: 1 row, 2 generations, 2 revisions, 1 event id with 2 contents; names: 2 rows under the name, 2 states, 2 configurations, expiries; 740,864 states | `FenceInv`, `AppliedOnceInOrder`, `ReceiptsKeptWhileActive`, `EventsHaveReceipts`, `EventIdsUnique`, `LaunchedFromCurrentState`, `BuildReplacesItsBase`, `ImplementsRegister`, `NothingAppliedPastFence` |
| `StoreLifecycle` (`Reconcile`) | 2 generations, a continuous and a polling artifact, thresholds 1 and 3, expiries, deploys; 2,691,050 states | `SlotFollowsPass`, `OutagesAnnounced`, `HealthFollowsWorker`, `NoWorkerForgotten` |
| `StoreProgress` (`Reconcile`) | the same with one continuous artifact, threshold 1 and failures counted to 1; 173,679 states | `WorkersFollowDeployment` |
| `Outbox` | 2 deliveries, batches of 1, 4 leases, 2 faults; 86,825 states | `TypeOK`, `DuplicatesExplained`, `TerminalIsDeserved`, `NothingDropped`, `EventuallySettled` |
| `RelayDeploys` | 2 workers, pipes of 1, 2 revisions, deploys at any time; 1,056,520 states | `SessionAgrees`, `RefusedForCause`, `AcksExpected`, `BoundToCurrent` |
| `RelayCommands` | 2 workers, pipes of 1, 1 revision, every command, expiry and sweep; 182,315 states | `RelayTypeOK`, `ImplementsStore`, `CommitsSettle` |
| `Sources` | chains up to height 3 of 2 labels, 2 confirmations for blocks and 1 for logs, batches and ranges of 2, pushes of 1 head or 3 logs; 4 transactions in pages of 2, 1 that is dropped; 162,706 states | `SourcesInv`, `BlocksApplyOneChain`, `JournalCoversReorganizations`, `ConfirmedExactly`, `LeftBehindWasLate`, `HistoryNotSkipped`, `HandledTwiceWasOverdue`, `SourcesCatchUp` |
| `Supervisor` | 2 callbacks, 2 commits; 2,515,062 states | `TypeOK`, `CommitsWatched`, `GivenUpForCause`, `NoCallbackAfterUncertain`, `FailuresCounted`, `SettlementBounded` |

Four runs find that the code does not do what its comments and documentation say
(section 5).

Why the bounds are enough. Fencing concerns an old and a new generation; that more
change nothing is proved (section 4). Two revisions let a frame be replayed after
another was applied; two rows let a name come back. A pipe of one already holds a
resend beside the frame in the relay's hand and an ACK on its way, which is what
makes a duplicate ACK cross the next frame. Two commits let a timer of the first
fire under the second; a second callback is what must not follow an uncertain
commit. An expiry that never comes stands for none, so `RelayCommands` lets every
row have one. Two deliveries with a batch of one make the order of claims matter,
and two faults let a crash follow a timeout. Thresholds of one and three, changed by
deploys while up to three failures are counted, put an outage above one and below
the other in both orders, and two generations let an ending worker meet its
successor in the slot. What `WorkersFollowDeployment` says of launches and ends does
not depend on the number of failures, so one is counted where it is checked. Height
three with two confirmations leaves room for a batch of two, a reorganisation of
depth two, one block that leaves the journal, and one confirmation for logs makes
the replay pass blocks while pushes of them are on their way. A page of two over
four transactions, two in one slot, ends a page within a slot. Each property is also
known to be sensitive: for each, a `..._Mutant` definition with a plausible bug in
the code it depends on makes its run fail.

**Deadlock.** `Outbox` and `Supervisor` may stop (everything settled; the process
has exited); the others never do and are checked for it.

**Fairness.** `Store` needs none: its properties are safety. `Outbox` assumes that
the loop, its ticker, clocks and settlements go on, that a request that is sent
is answered or times out, and that a destination which is asked again and again
does not fail transiently for ever; the strong fairness of `Send` says that the
rate limiter, which defers by turns, does not pick on one delivery. `Relay`
assumes that goroutines that can run do, and that a process which was sent an ACK
reads it; nothing is asked of monitors, operators, exits or resends. `Reconcile`
assumes that the main goroutine takes its next step, whatever it finds (weak, on
`PassStep`), that back-off ends, and that the goroutine of an ended worker settles
it; and, as strong fairness, that secrets resolve and handshakes complete now and
then, without which nothing could be said of launches. `Sources` assumes that the
daemon restarts a failed worker, that turns of a loop that do nothing are taken, that
a ticker that fires is taken although pushes
compete with it, and that what is tried again and again (a wake, a turn of the
rollback, a read, a block) is not failed every time. `SourcesCatchUp` is about
chains that come to rest at their greatest height, and asks of the Solana source
that the worker stays up, since it commits by pages. `Supervisor`
assumes that `runPlan` goes on, that deadlines pass, and that the daemon
kills what it asked to stop at the stop deadline (`worker.go:415-417`).

## 4. What is proved

For every value of the constants that satisfies the named assumptions, TLAPS
proves:

| module | theorem | statement |
|---|---|---|
| `StoreProofs` | `FenceInvariant` | `Spec => []FenceInv` |
| | `TypeCorrect` | `Spec => []TypeOK` |
| | `FenceCorrect` | `Spec => []FenceConsistent` |
| | `AppliedOnceCorrect` | `Spec => []AppliedOnceInOrder` |
| | `AcksAreTrue` | `Spec => []AckedIsApplied` |
| | `FencedNeverApply` | `Spec => NothingAppliedPastFence` |
| | `ReceiptsCorrect` | `Spec => []ReceiptsKeptWhileActive` |
| | `EventReceiptsCorrect` | `Spec => []EventsHaveReceipts` |
| | `EventIdsCorrect` | `Spec => []EventIdsUnique` |
| | `LaunchesAreCurrent` | `Spec => LaunchedFromCurrentState` |
| | `BuildsReplaceTheirBase` | `Spec => BuildReplacesItsBase` |
| | `RegisterImplemented` | `Spec => ImplementsRegister` |
| `RelayProofs` | `RelayImplementsStore` | `RelaySpec => ImplementsStore` |
| | `RelayTypeCorrect` | `RelaySpec => []RelayTypeOK` |
| | `BindingsCurrent` | `RelaySpec => BoundToCurrent` |
| `SessionProofs` | `SessionsCorrect` | `RelaySpec => []SessionAgrees` |
| | `RefusalsCorrect` | `RelaySpec => []RefusedForCause` |
| | `AcksCorrect` | `RelaySpec => []AcksExpected` |
| `ReconcileProofs` | `ReconcileInvariant` | `ReconcileSpec => []ReconcileInv` |
| | `LatchCorrect` | `ReconcileSpec => []OutagesAnnounced` |
| | `SlotCorrect` | `ReconcileSpec => []SlotFollowsPass` |
| | `HealthCorrect` | `ReconcileSpec => []HealthFollowsWorker` |
| | `WorkersAccountedFor` | `ReconcileSpec => []NoWorkerForgotten` |
| `OutboxProofs` | `OutboxInvariant` | `Spec => []OutboxInv` |
| | `DuplicatesCorrect` | `Spec => []DuplicatesExplained` |
| | `TerminalCorrect` | `Spec => []TerminalIsDeserved` |
| | `NothingDroppedCorrect` | `Spec => NothingDropped` |
| | `OutboxTypeCorrect` | `Spec => []TypeOK` |
| `SupervisorProofs` | `SupervisorInvariant` | `Spec => []SupervisorInv` |
| | `SupervisorTypeCorrect` | `Spec => []TypeOK` |
| | `WatchCorrect` | `Spec => []CommitsWatched` |
| | `CountCorrect` | `Spec => []FailuresCounted` |
| | `GivenUpCorrect` | `Spec => GivenUpForCause` |
| | `UncertainCorrect` | `Spec => NoCallbackAfterUncertain` |
| `BlocksProofs` | `BlocksInvariant` | `SourcesSpec => []BlocksInv` |
| | `OneChainCorrect` | `SourcesSpec => []BlocksApplyOneChain` |
| | `JournalCorrect` | `SourcesSpec => []JournalCoversReorganizations` |
| `SourcesProofs` | `EventsInvariant` | `SourcesSpec => []EventsInv` |
| | `ConfirmedCorrect` | `SourcesSpec => []ConfirmedExactly` |
| | `LeftBehindCorrect` | `SourcesSpec => []LeftBehindWasLate` |
| | `AddressInvariant` | `SourcesSpec => []AddressInv` |
| | `HistoryCorrect` | `SourcesSpec => []HistoryNotSkipped` |
| | `TwiceCorrect` | `SourcesSpec => []HandledTwiceWasOverdue` |
| | `SourcesInvariant` | `SourcesSpec => []SourcesInv` |

The assumptions are those the modules name. `Store`: payloads have the shape of
payloads, bounds are naturals, expiries are those of the code, and `None` is neither
a state nor a number. `Relay`: pipes hold something, and `None` is no frame.
`Reconcile`: one row (a name deployed again has another id and a slot of its own),
and thresholds that are positive and at most the bound on failures. `Outbox`: a
deployment has finitely many bindings. `Supervisor`: the numbers of callbacks and
commits are bounded. `Chain`, `Blocks` and `EvmEvents`: heights, batches and ranges
are positive, confirmations too, the journal's bound exceeds the confirmations by
two as the code checks, a configured start is a height, and `None` is neither a
label, a block, a progress nor a cursor. `AddressEvents`: transactions are numbered
in the ledger's order of slot and index, transactions that are dropped are not among
them, and `NoSlot` is no cursor. The proofs use no bound on the number of states,
generations, heights, forks, logs or transactions other than that there is one.

**Store.** `FenceInv` is the inductive invariant; TLC checks it in `StoreSafety`. Its
parts and why each is needed:

* `TypeOK` and `FenceConsistent` are inductive only together: activation and
  stopping index `generations` by a number from `deployment`, which is inside the
  table only if the fence is consistent.
* `CommitsBounded` ties the history to the rows: nothing was applied beyond the
  row's id, its revision, its generations or their sequences. With `RowsAdvance`
  (no step takes any of these back, except to purge the row, whose id is never
  used again) the next frame admitted is later than every one before it, which is
  `AppliedOnceInOrder`.
* `LedgerApplied` says that the ledger is part of that history, so a replayed ACK
  is true (`AckedIsApplied`); retention only removes rows and keeps both.
* `WritersUnfenced` says that a generation that may write was issued after the
  last fence. With admission's test it gives `NothingAppliedPastFence`.

The proof has one lemma per group of operations and invariant (`...Type`,
`...Fence`, `...Advances`), a lemma for what a commit does to the rows
(`CommitFrameRows`), and `FenceInvStep` that combines them.

**Ledger and reads.** The three properties of the ledger (`LedgerInv`) are
inductive together and over `FenceInv`: an event's receipt may be swept once its
generation is fenced, never before. What was read earlier is behind the row
(`SnapshotPast`, `BuildsPast`): its revisions are at most the row's, and the
documents are equal where the revisions are, as long as the row is the one that
was read. Activation and deploying compare revisions only; these invariants are
what makes equal revisions mean equal documents.

**Register.** `RowPresent` says that a row has a state and no row has neither
state nor generations. Under the refinement mapping, each operation is then one
step of `FencedRegister` or a stutter: a frame that is applied is a `Write` by the
token's holder, a replayed or refused one nothing. `CommitsBounded` is needed to
tell who wrote last, since that is read off the history at the row's revision.

**Relay.** The relay reads destinations one step before it commits, and frames of
generations long gone arrive late, so that a step of `Relay` is one of `Store`
needs an invariant of both: `WorkersInv` says that every frame in a pipe, in a
relay's hand or waited for was sent by that worker with a sequence and a base
inside the bounds (`SentBy`; the sequence stays at or below the revision, since
each ACK carries the revision after the frame's base), and that what is bound is
bound to the row's destinations for as long as the generation may write
(`FitsIn`). `BindingsHold` says that no step of the store breaks the second:
only a deploy changes destinations, and it fences every generation. With it, every
theorem about `Spec` is one about the protocol.

**Session.** The three properties of the protocol follow from `SessionInv`, which
says how the two ends agree although they only exchange frames and ACKs.
`WireAgrees`: a sequence means one frame, in the pipes and in the ledger, and at
most one frame of an unfenced worker is not applied, the next one, computed from
the row's revision. `SessionAt`: the session is at the row's revision, or one
before it when its last frame is applied. `PipesInOrder`: whatever is in the pipes
is of the commit acknowledged last or of the one that is waited for, the second
behind the first, and an ACK is on its way only if its frame was applied. The
argument for the store's side is that no step but a commit disturbs a worker
(`StepUndisturbed`), and that a commit concerns one worker (`OneWorker`). Whether
the ledger still holds what a resend needs is `ReceiptsKeptWhileActive`, proved
before. Pipes may be of any length in the proof; TLC runs them with one place.

**Reconcile.** `NoWorkerForgotten` and `HealthFollowsWorker` are not inductive:
whether a launch may fill the slot depends on its having been empty since the pass
read it. `SlotFollowsPass` says so for each place the main goroutine can be at,
`GenerationsIssued` that workers carry generations that exist, and `FenceConsistent`
that only the newest may be active; `ReconcileInv` is their conjunction with the
types and the properties. The store's operations are used through the lemmas of
`StoreProofs`. `OutagesAnnounced` says nothing of one threshold alone, since a
deploy may put it above or below the failures without an announcement. It is
inductive with the set of thresholds since the failures were last zero, of which the
current one is a member (`ReconcileTypeOK`): a failure that reaches the current
threshold was announced, one that does not is below a member of the set. The proof
has one lemma per action of the pass, of a worker and of the daemon process, grouped
by what they leave alone.

**Outbox.** Requests outlive the attempts, leases and daemons that made them, so
`DuplicatesExplained` is not inductive. `DeliveryInv` counts all requests of a
delivery, accepted or on their way: all but at most one were abandoned, and that
one belongs to the attempt under way or to a row that will not be claimed again
(`Current`). It holds because the delivery of an attempt stays leased to it or is
deleted: the loop claims only when all its attempts have returned. Neither
fairness nor the freshness of claim ids is used. What an attempt knows of its
destination is kept until it is settled, from which `TerminalIsDeserved` follows.
`TypeOK` also says that a row is due at most once and only while it is owed
(`QueueInv`), for which the queue is a sequence without repetition: that is why
taking out the first occurrence of a row takes the row out.

**Supervisor.** Signals coalesce, so that nothing a goroutine has seen tells it
alone where the others are. `SupervisorInv` relates what they share. Only the last
commit admitted can be in progress (`CommitsInOrder`), which makes a deadline that
has passed, the timer's, comparable with it. `UncertainHeard` is what
`NoCallbackAfterUncertain` needs: after an uncertain commit the plan is told by one
of a failed connection, a fatal error or a stop, and it is never about to run a
callback. `FailuresReported` follows each failed callback from the plan's error to a
run frame, for every place the plan can be at, and `CountInv` on to what `serve` has
read and how it returned (`StoppedAccounts`: what a stopped frame says fits the run
frames sent before it); together they give `FailuresCounted`. `CallbackJoined`, `StopHeard` and `CancelledForCause` say why
a goroutine may have gone on without another. The proof goes through each
alternative of each `select`, by what it writes: control, counters, flags.


**Blocks.** The journal is trimmed against a target while the chain moves, and a
batch is applied after it was read. `BlocksInv` therefore says of the batch
(`BatchContinuesParent`) that it continues the durable parent and that its blocks
at or below what is final at the target are canonical *now*, which
`FinalIsKept` (no step of the chain touches a final prefix) preserves; of the
journal (`JournalEndsView`) that it is the end of the handler's branch
(`ViewIsBranch`), and of the rest of that branch (`UnjournaledIsFinal`) that it is
final. `HeightsSeen` bounds targets by the tallest chain there was, without which
"final at the target" would say nothing. Since blocks are sequences, most of what
is needed are facts about prefixes, stated as lemmas first.

**Events.** `ConfirmedExactly` compares what was confirmed with a concatenation over
the canonical chain, while that chain is replaced, ranges are cut in the middle of a
block, and the cursor is saved with each log. `EventsInv` keeps them apart: what the
cursor has passed since its origin is final (`CursorPlaced`), so that no
reorganisation reaches it; what was confirmed is what the cursor says
(`ConfirmedIsPassed`), where `OnChain` says that a cursor within a block is at a log
of the canonical one. Of the range in hand, `RangeRests` says that its logs are the
end of all there is to confirm up to its last block, which is final, and that
nothing is missing between them and what was confirmed; a range that was read again
after a restart begins with logs that were confirmed before, and these are passed
over. `RangeHasLive` says that a journaled log of the range is behind the cursor or
still to come in it, without which closing the range could strand one:
`LeftBehindWasLate` is inductive only with it. The lemmas on `FlattenSeq` (it is the
last of the partial concatenations, it extends by one block at a time, each log has
one place) are proved once, from the least index at which they would fail.

**Solana.** The cursor in memory runs ahead of the saved one. `AddressInv` says that
all updates behind the one in memory were handled (`PassedIsHandled`), and, which
bounds how often, that what was handled once is in the journal or behind the saved
cursor (`HandledIsRemembered`), so that the history passes over it or never comes to
it; a push that comes later is the exception the property names. `PageStartsAtTip`
keeps the two parts of an interrupted page together. `HistoryOrder` derives, from the
order of neighbours that the code relies on, that cursors pass initial parts of the
history.

Every safety property a passing run checks is stated by one of these theorems. Only
model-checked are the five liveness properties (`EventuallySettled`, `CommitsSettle`,
`WorkersFollowDeployment`, `SettlementBounded`, `SourcesCatchUp`): the installed
provers do neither liveness under fairness nor `ENABLED`. They know nothing of
`SelectSeq` either, and no induction theorem that takes a predicate can be
instantiated; no module uses `RECURSIVE`, and where a fact needs induction it is
proved for the least number at which it fails.

## 5. Where the code and its documentation disagree

* `StoreCheckpointRace`: `checkpoints.go:47-48` says that activation revalidates
  the runtime snapshot; it does not revalidate checkpoints. A pause, a checkpoint
  clear and a resume between snapshot and activation start a worker from the
  checkpoints that were cleared.
* `StoreOverwrite`: `deployments.go:42-43` says that the expected revision keeps a
  build from overwriting state committed while it compiled. It compares a number
  under a name: after a purge and a new deployment the numbers can agree.
* `SupervisorStop`: `lifecycle.go:30-31` says that `Stop` is called only after
  callbacks have stopped. It is also called when the report of an overrun cannot be
  written, and when a stop request is taken while the overrun is being waited for
  (`runtime.go:141-148` does not look at the plan's error).
* `EventsJournal`: `docs/monitors.md:311-312` and `SKILL.md:102` say that live logs
  stay in the journal until the replay confirms them. A log that is pushed after the
  replay has passed its block enters the journal too (`events.go:241` does not
  compare it with the cursor) and nothing takes it out again but a removal.
  `LeftBehindWasLate` shows that only such logs are left.

Seen while modelling, and part of the models without a run of their own:

* `WorkersFollowDeployment` needs its last alternative: after a stop that times out,
  `publishRead` may leave `serve` waiting for ever, and `stopWorkers` with it
  (`worker.go:368`, `registry.go:144`).
* A failure may be counted twice: when the failed run was recorded and the pipe ends
  before the stopped frame is read, or the stable timer of a continuous plan fires in
  between (`worker.go:187-192`; the row is no longer "starting", so
  `MarkGenerationStable` fails), `serve` returns an error that is not
  `workerStoppedError`, and `registry.go:78-82` counts it. A worker that stopped
  cleanly is counted as a failure if an ACK could not be sent to it before
  (`worker.go:233`), and one that nobody asked to stop and that lost its connection is
  too. `FailuresCounted` bounds all of them by one.
* A deploy with another `failure_threshold` keeps the failures and the latch
  (`deployments.go:99-104`): a deployment may be latched below its new threshold, or
  have passed it unannounced until the next failure. `Counted` announces then;
  `OutagesAnnounced` says what is left to rely on.
* A launch that is interrupted by the daemon's shutdown is counted as a failure of
  the deployment.
* A block source whose first block is replaced before another was applied has an
  empty journal: it fails on every start until its checkpoint is cleared
  (`Stranded`, which `BlocksCaughtUp` excepts).
* `docs/monitors.md:341` says that an announced head replaced before HTTP observes it
  is ignored. `advance` first compares the range with the parent (`blocks.go:334`),
  so if the block before was replaced as well the worker fails, and rolls back when
  it is started again.
* `docs/monitors.md:372` calls `BackfillFrom` of the Solana source an inclusive slot.
  The cursor is set to index 0 of the slot below, so later transactions of that slot
  are given too.
* A push that the Solana history has already passed stays in its journal, which
  then takes fewer pushes.

## 6. What is not modelled

Three simplifications of detail, on which no property depends: a commit with a
context of the monitor's own, which carries no callback scope (`coordinator.go:58-64`),
is left out of `AdmitCommit`; a Solana source that finds an empty history starts at 0 in
one step, not after the finalized slot it asks for in a second call
(`solana/events.go:341-360`), its properties being relative to where it started; and
a block source never starts at genesis, whose parent is empty (`blocks.go:230-244`).

Parsing, rendering, RPC decoding, builds, configuration, secrets, inspection
queries and installation: sequential I/O whose state does not outlive a call.
SQLite itself, whose transactions are taken as atomic and durable, with the
checkpointer that truncates its log: it changes no row, and the delay it imposes on
writers is one the models allow anyway. The cursors by which retention pages
through its tables: the models let a sweep visit any row it may delete. The
subscription's reconnection and the RPC client beyond what a source sees of them:
pushes that are lost, and failure. The proxy rotation, one atomic counter. Which
daemon holds the lock on the state directory. Wall-clock durations, which appear as
deadlines that pass in any order the code allows. `PROJECT.json` lists each
component with its status.

## 7. What could follow

**Reconcile with frames**: a worker of `Reconcile` that commits as one of `Relay`
does, so that its health and its transactions are of one behaviour.
