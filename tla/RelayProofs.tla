------------------------------ MODULE RelayProofs ------------------------------
(***************************************************************************)
(* Theorems about Relay: coordinators, pipes and relays, whatever they     *)
(* lose, resend or leave behind, only do to the store what the store is    *)
(* specified for, so what is proved of Store holds of the whole protocol.  *)
(***************************************************************************)
EXTENDS Relay, StoreProofs

-----------------------------------------------------------------------------
(* What the store's steps mean to a worker *)

\* A row that exists has an id and a binding, and only such a row has a ledger.
RowNumbered ==
    /\ deployment.status # "none" =>
        deployment.id >= 1 /\ deployment.destination >= 1
    /\ deployment.status = "none" => transactions = {}

\* While a row exists its generations are only added to, and one that may still
\* write could do so before, and was under the same bindings.
BindingsHold ==
    /\ deployment'.id >= deployment.id
    /\ deployment'.id = deployment.id /\ deployment'.status # "none" =>
        /\ deployment.status # "none"
        /\ Len(generations') >= Len(generations)
        /\ \A g \in 1..Len(generations) : generations'[g].status = "active" =>
                /\ generations[g].status = "active"
                /\ deployment'.destination = deployment.destination

\* A step that leaves the row's identity and bindings alone, and adds no
\* generation, holds them.
LEMMA SameBindings ==
    ASSUME TypeOK, generations' \in {generations, RetireAll(generations)},
           deployment'.id = deployment.id,
           deployment'.destination = deployment.destination,
           (deployment'.status = "none") <=> (deployment.status = "none"),
           transactions' \subseteq transactions, RowNumbered
    PROVE  BindingsHold /\ RowNumbered'
<1>1. deployment.id \in Nat /\ Len(generations) \in Nat
  BY DEF TypeOK, Deployment
<1>2. CASE generations' = generations
  BY <1>1, <1>2 DEF BindingsHold, RowNumbered
<1>3. CASE generations' = RetireAll(generations)
  <2>1. /\ Len(generations') = Len(generations)
        /\ \A g \in 1..Len(generations) : generations'[g].status = "retired"
    BY <1>3, RetireAllRows DEF TypeOK
  <2> QED
    BY <1>1, <2>1 DEF BindingsHold, RowNumbered
<1> QED
  BY <1>2, <1>3

\* Only deploying gives a row other bindings, and it fences every worker.
LEMMA BindingsStep ==
    ASSUME TypeOK, FenceConsistent, RowPresent, RowNumbered, [Next]_storeVars
    PROVE  BindingsHold /\ RowNumbered'
<1>1. /\ deployment \in Deployment /\ deployment.id \in Nat
      /\ deployment.destination \in Nat
      /\ generations \in Seq(Generation) /\ Len(generations) \in Nat
  BY DEF TypeOK, Deployment
<1>2. CASE UNCHANGED <<deployment, generations>> /\ transactions' \subseteq transactions
  BY <1>2, SameBindings
<1>3. ASSUME NEW b \in Builders, DeployCommand(b)
      PROVE  BindingsHold /\ RowNumbered'
  <2>1. ASSUME NEW artifact \in Artifacts, NEW config \in Configs,
               NEW state \in States, NEW expiry \in Expiries,
               DeployNew(b, artifact, config, state, expiry)
        PROVE  BindingsHold /\ RowNumbered'
    <3>1. /\ deployment'.id = deployment.id + 1 /\ deployment'.destination = 1
          /\ deployment'.status = "active"
      BY <2>1 DEF DeployNew, NewId
    <3> QED
      BY <1>1, <3>1 DEF BindingsHold, RowNumbered
  <2>2. ASSUME NEW artifact \in Artifacts, NEW config \in Configs,
               NEW state \in States, NEW expiry \in Expiries,
               Redeploy(b, artifact, config, state, expiry)
        PROVE  BindingsHold /\ RowNumbered'
    <3>1. /\ deployment'.id = deployment.id /\ deployment.status # "none"
          /\ deployment'.status = "active"
          /\ deployment'.destination = deployment.destination + 1
          /\ Len(generations') = Len(generations)
          /\ \A g \in 1..Len(generations) : generations'[g].status = "retired"
      BY <1>1, <2>2, RetireAllRows DEF Redeploy, ReplaceDeployment
    <3> QED
      BY <1>1, <3>1 DEF BindingsHold, RowNumbered
  <2> QED
    BY <1>2, <1>3, <2>1, <2>2 DEF DeployCommand, StartBuild, DeployRefused, rows
<1>4. CASE OperatorCommand
  <2>1. CASE PauseDeployment
    BY <1>1, <2>1, SameBindings DEF PauseDeployment, Deployment
  <2>2. ASSUME NEW expiry \in Expiries, ResumeDeployment(expiry)
        PROVE  BindingsHold /\ RowNumbered'
    BY <1>1, <2>2, SameBindings DEF ResumeDeployment, Deployment
  <2>3. CASE ArchiveDeployment
    BY <1>1, <2>3, SameBindings DEF ArchiveDeployment, Deployment
  <2>4. CASE PurgeDeployment
    BY <1>1, <2>4 DEF PurgeDeployment, NoRow, BindingsHold, RowNumbered
  <2>5. ASSUME NEW base \in 0..MaxRevision, NEW state \in States,
               ReplaceState(base, state)
        PROVE  BindingsHold /\ RowNumbered'
    BY <1>1, <2>5, SameBindings DEF ReplaceState, Deployment
  <2>6. CASE ClearCheckpoints
    BY <1>1, <2>6, SameBindings DEF ClearCheckpoints, Deployment
  <2> QED
    BY <1>4, <2>1, <2>2, <2>3, <2>4, <2>5, <2>6 DEF OperatorCommand
<1>5. CASE ExpiryPasses
  BY <1>1, <1>5, SameBindings DEF ExpiryPasses, Deployment
<1>6. CASE DaemonStep
  <2>1. CASE DeactivateDueDeployments
    BY <1>1, <2>1, SameBindings DEF DeactivateDueDeployments, Deployment
  <2>2. CASE RecoverGenerations
    BY <1>1, <2>2, SameBindings DEF RecoverGenerations, Deployment
  <2>3. CASE ActivateGeneration
    <3>1. /\ deployment'.id = deployment.id
          /\ deployment'.destination = deployment.destination
          /\ deployment'.status = deployment.status
          /\ deployment.status = "active"
          /\ Len(generations') = Len(generations) + 1
          /\ \A g \in 1..Len(generations) : generations'[g].status = "retired"
      BY <1>1, <2>3, ActivateGenerationRows DEF Deployment
    <3> QED
      BY <1>1, <3>1 DEF BindingsHold, RowNumbered
  <2>4. ASSUME NEW g \in 1..Len(generations), MarkGenerationStopped(g)
        PROVE  BindingsHold /\ RowNumbered'
    <3>1. /\ Len(generations') = Len(generations)
          /\ \A h \in 1..Len(generations) : generations'[h].status = "active" =>
                generations[h].status = "active"
      BY <1>1, <2>4, RetireRows DEF MarkGenerationStopped
    <3>2. UNCHANGED <<deployment, transactions>>
      BY <2>4 DEF MarkGenerationStopped
    <3> QED
      BY <1>1, <3>1, <3>2 DEF BindingsHold, RowNumbered, RowPresent
  <2> QED
    BY <1>2, <1>6, <2>1, <2>2, <2>3, <2>4
    DEF DaemonStep, ListRuntimeMetadata, GetRuntimeDeployment, ActivationRefused,
        PruneTerminalOutbox, PruneRetiredTransactions, rows
<1>7. CASE WorkerStep
  <2>1. PICK frame \in Frame, destination \in Nat :
            CommitFrame(frame, destination) \/ ReplayFrame(frame)
    BY <1>7, FramesAreFrames DEF WorkerStep, ApplyTransaction
  <2>2. CASE CommitFrame(frame, destination)
    <3>1. deployment' = [deployment EXCEPT
            !.state = frame.payload.state, !.stateRevision = @ + 1]
      BY <2>2 DEF CommitFrame
    <3>2. deployment'.destination = deployment.destination
      BY <1>1, <3>1 DEF Deployment
    <3> QED
      BY <1>1, <2>2, <3>2, CommitFrameRows DEF BindingsHold, RowNumbered
  <2> QED
    BY <1>2, <2>1, <2>2 DEF ReplayFrame, rows
<1> QED
  BY <1>2, <1>3, <1>4, <1>5, <1>6, <1>7 DEF Next, storeVars, rows

\* Every frame was computed from the revision before the one it produced.
LedgerCounts == \A t \in transactions : t.result = t.frame.base + 1

\* A commit requires it, and nothing rewrites a receipt.
LEMMA CountsStep ==
    ASSUME LedgerCounts, [Next]_storeVars
    PROVE  LedgerCounts'
<1>1. CASE transactions' \subseteq transactions
  BY <1>1 DEF LedgerCounts
<1>2. ASSUME NEW frame, NEW destination, CommitFrame(frame, destination)
      PROVE  LedgerCounts'
  <2>1. transactions' = transactions \cup
            {[frame |-> frame, result |-> deployment.stateRevision + 1]}
    BY <1>2 DEF CommitFrame
  <2>2. frame.base = deployment.stateRevision
    BY <1>2 DEF CommitFrame, Admitted
  <2> QED
    BY <2>1, <2>2 DEF LedgerCounts
<1>3. CASE WorkerStep
  BY <1>1, <1>2, <1>3 DEF WorkerStep, ApplyTransaction, ReplayFrame, rows
<1>4. CASE \E b \in Builders : DeployCommand(b)
  BY <1>1, <1>4
  DEF DeployCommand, StartBuild, DeployNew, Redeploy, ReplaceDeployment, DeployRefused, rows
<1>5. CASE OperatorCommand
  BY <1>1, <1>5
  DEF OperatorCommand, PauseDeployment, ResumeDeployment, ArchiveDeployment,
      PurgeDeployment, ReplaceState, ClearCheckpoints
<1>6. CASE DaemonStep
  BY <1>1, <1>6
  DEF DaemonStep, DeactivateDueDeployments, RecoverGenerations,
      ListRuntimeMetadata, GetRuntimeDeployment, ActivateGeneration,
      ActivationRefused, MarkGenerationStopped, PruneTerminalOutbox,
      PruneRetiredTransactions, rows
<1> QED
  BY <1>1, <1>3, <1>4, <1>5, <1>6 DEF Next, ExpiryPasses, storeVars, rows

\* What a worker and its relay may rely on of the store.
StoreInv ==
    /\ FenceInv
    /\ SnapshotPast
    /\ BuildsPast
    /\ RowPresent
    /\ RowNumbered
    /\ LedgerCounts

\* It holds of an empty store.
LEMMA StoreInvInit == Init => StoreInv
<1>1. Init => SnapshotPast /\ BuildsPast /\ RowNumbered /\ LedgerCounts
  BY DEF Init, NoRow, SnapshotPast, BuildsPast, RowNumbered, LedgerCounts
<1> QED
  BY <1>1, FenceInvInit, InitImplements DEF StoreInv

\* Every step of the store keeps it, and holds the bindings of writers.
LEMMA StoreInvStep ==
    ASSUME StoreInv, [Next]_storeVars
    PROVE  StoreInv' /\ BindingsHold
<1>1. FenceInv'
  BY FenceInvStep DEF StoreInv
<1>2. /\ TypeOK /\ TypeOK' /\ FenceConsistent
  BY <1>1 DEF StoreInv, FenceInv
<1> QED
  BY <1>1, <1>2, ReadsStep, PresenceStep, BindingsStep, CountsStep DEF StoreInv

-----------------------------------------------------------------------------
(* What a worker and its relay hold *)

\* A frame that this worker's process sent, of those the store is specified for.
SentBy(m, frame) ==
    /\ frame \in Frame
    /\ frame.id = m.id
    /\ frame.generation = m.generation
    /\ frame.sequence \in 1..MaxRevision
    /\ frame.base \in 0..MaxRevision
    /\ frame.payload \in Payloads

\* The process counts a sequence for each revision at most, waits for the one
\* frame it sent last, and is told of the revision after the one it was at.
Sound(m) ==
    /\ m \in Worker
    /\ m.generation \in 1..MaxGeneration
    /\ Len(m.frames) <= MaxPipe /\ Len(m.acks) <= MaxPipe
    /\ m.process = "exited" <=> m.state = None
    /\ \A i \in 1..Len(m.frames) : SentBy(m, m.frames[i])
    /\ \A i \in 1..Len(m.acks) : m.acks[i].result = m.acks[i].frame.base + 1
    /\ m.bound # None => SentBy(m, m.bound.frame)
    /\ m.pending # None => SentBy(m, m.pending)
    /\ m.arrived # None =>
        /\ m.pending # None
        /\ m.arrived.frame = m.pending
        /\ m.arrived.result = m.pending.base + 1
    /\ m.process = "running" =>
        IF m.pending = None
        THEN m.sequence <= m.revision
        ELSE m.sequence <= m.revision + 1 /\ m.pending.base = m.revision

\* Its generation was issued, and as long as that generation may write, what its
\* relay binds events to is what they are to be bound to.
FitsIn(m, row, gens) ==
    /\ m.id \in 1..row.id
    /\ m.id = row.id /\ row.status # "none" =>
        /\ m.generation <= Len(gens)
        /\ /\ gens[m.generation].status = "active"
           /\ m.bound # None
           /\ m.bound.frame.payload.events # {}
           => m.bound.destination = row.destination

WorkersInv ==
    /\ workers \in Seq(Worker)
    /\ \A w \in 1..Len(workers) :
        Sound(workers[w]) /\ FitsIn(workers[w], deployment, generations)

\* A step of the store leaves a worker no less fitting.
LEMMA FitsKept ==
    ASSUME TypeOK, TypeOK', BindingsHold, NEW m \in Worker, Sound(m),
           FitsIn(m, deployment, generations)
    PROVE  FitsIn(m, deployment', generations')
<1>1. /\ deployment.id \in Nat /\ deployment'.id \in Nat
      /\ Len(generations) \in Nat /\ Len(generations') \in Nat
      /\ m.id \in Nat
      /\ m.generation \in Nat /\ m.generation >= 1
  <2>1. m.id \in Nat /\ m.generation \in Nat /\ m.generation >= 1
    BY BoundsAssumption DEF Worker, Sound
  <2> QED
    BY <2>1 DEF TypeOK, Deployment
<1>2. m.id \in 1..deployment'.id
  BY <1>1 DEF BindingsHold, FitsIn
<1>3. ASSUME m.id = deployment'.id, deployment'.status # "none"
      PROVE  /\ m.id = deployment.id /\ deployment.status # "none"
             /\ m.generation \in 1..Len(generations)
             /\ m.generation <= Len(generations')
  BY <1>1, <1>3 DEF BindingsHold, FitsIn
<1>4. ASSUME m.id = deployment'.id, deployment'.status # "none",
             generations'[m.generation].status = "active",
             m.bound # None, m.bound.frame.payload.events # {}
      PROVE  m.bound.destination = deployment'.destination
  <2>1. /\ generations[m.generation].status = "active"
        /\ deployment'.destination = deployment.destination
    BY <1>1, <1>3, <1>4 DEF BindingsHold, FitsIn
  <2> QED
    BY <1>1, <1>3, <1>4, <2>1 DEF FitsIn
<1> QED
  BY <1>2, <1>3, <1>4 DEF FitsIn

\* A step that changes what one worker holds keeps the rules if it keeps them
\* for that worker.
LEMMA WorkerReplaced ==
    ASSUME TypeOK, TypeOK', BindingsHold, WorkersInv,
           NEW w \in 1..Len(workers), NEW m, Sound(m),
           workers' = [workers EXCEPT ![w] = m],
           FitsIn(m, deployment', generations')
    PROVE  WorkersInv'
<1>1. m \in Worker /\ workers \in Seq(Worker)
  BY DEF Sound, WorkersInv
<1>2. /\ workers' \in Seq(Worker)
      /\ Len(workers') = Len(workers)
      /\ \A v \in 1..Len(workers) :
            workers'[v] = IF v = w THEN m ELSE workers[v]
  BY <1>1
<1>3. ASSUME NEW v \in 1..Len(workers)
      PROVE  Sound(workers[v]) /\ FitsIn(workers[v], deployment', generations')
  <2>1. workers[v] \in Worker
    BY <1>1
  <2> QED
    BY <2>1, FitsKept DEF WorkersInv
<1> QED
  BY <1>2, <1>3 DEF WorkersInv

\* It does so if it at most lets go of what is bound.
LEMMA WorkerUpdated ==
    ASSUME TypeOK, TypeOK', BindingsHold, WorkersInv,
           NEW w \in 1..Len(workers), NEW m, Sound(m),
           workers' = [workers EXCEPT ![w] = m],
           m.id = workers[w].id, m.generation = workers[w].generation,
           m.bound \in {None, workers[w].bound}
    PROVE  WorkersInv'
<1>1. m \in Worker /\ FitsIn(m, deployment, generations)
  BY DEF WorkersInv, FitsIn, Sound
<1>2. FitsIn(m, deployment', generations')
  BY <1>1, FitsKept
<1> QED
  BY <1>2, WorkerReplaced

\* A step that leaves all the workers alone keeps the rules.
LEMMA WorkersUnchanged ==
    ASSUME TypeOK, TypeOK', BindingsHold, WorkersInv, UNCHANGED workers
    PROVE  WorkersInv'
<1>1. ASSUME NEW v \in 1..Len(workers)
      PROVE  Sound(workers[v]) /\ FitsIn(workers[v], deployment', generations')
  <2>1. workers[v] \in Worker
    BY DEF WorkersInv
  <2> QED
    BY <2>1, FitsKept DEF WorkersInv
<1> QED
  BY <1>1 DEF WorkersInv

\* The same worker, with the same frame bound.
Same(new, m) ==
    new.id = m.id /\ new.generation = m.generation /\ new.bound = m.bound

\* A process that ends leaves only what its relay holds.
LEMMA ExitedIsSound ==
    ASSUME NEW m, Sound(m)
    PROVE  Sound(Exited(m)) /\ Same(Exited(m), m)
<1>1. m \in Worker
  BY DEF Sound
<1>2. /\ Exited(m).id = m.id /\ Exited(m).generation = m.generation
      /\ Exited(m).bound = m.bound /\ Exited(m).frames = m.frames
      /\ Exited(m).process = "exited" /\ Exited(m).state = None
      /\ Exited(m).pending = None /\ Exited(m).arrived = None
      /\ Exited(m).acks = <<>>
      /\ Exited(m) \in Worker
  <2> DEFINE early == [m EXCEPT !.process = "exited", !.sequence = 0,
                                !.revision = 0, !.state = None]
  <2>1. /\ early \in Worker
        /\ early.id = m.id /\ early.generation = m.generation
        /\ early.bound = m.bound /\ early.frames = m.frames
        /\ early.process = "exited" /\ early.state = None
    BY <1>1 DEF Worker
  <2>2. Exited(m) = [early EXCEPT !.pending = None, !.arrived = None,
                                  !.last = None, !.acks = <<>>]
    BY DEF Exited
  <2>3. <<>> \in Seq(LedgerRow)
    OBVIOUS
  <2> HIDE DEF early
  <2> QED
    BY <2>1, <2>2, <2>3 DEF Worker
<1>3. Len(Exited(m).acks) <= MaxPipe
  BY <1>2, PipeAssumption
<1> QED
  BY <1>2, <1>3 DEF Sound, SentBy, Same

-----------------------------------------------------------------------------
(* The process *)

\* What a worker holds after each step of its process.
NextFrame(m, payload) ==
    [id |-> m.id, generation |-> m.generation, sequence |-> m.sequence + 1,
     base |-> m.revision, payload |-> payload]

Committed(m, payload) ==
    [m EXCEPT !.sequence = @ + 1, !.pending = NextFrame(m, payload),
              !.frames = Append(@, NextFrame(m, payload))]

Resent(m) == [m EXCEPT !.frames = Append(@, m.pending)]

GivenUp(m) ==
    [m EXCEPT !.process = "uncertain", !.pending = None, !.arrived = None]

Received(m) ==
    [m EXCEPT !.acks = Tail(@),
              !.arrived = IF Duplicate(m, Head(m.acks)) THEN @ ELSE Head(m.acks)]

Accepted(m) ==
    [m EXCEPT !.revision = m.arrived.result, !.state = Adopted(m),
              !.last = m.arrived, !.pending = None, !.arrived = None]

\* Committing numbers a frame that the store is specified for: fewer sequences
\* are used than revisions reached, and a commit needs a revision to reach.
LEMMA CommitIsSound ==
    ASSUME NEW m, Sound(m), NEW payload \in Payloads,
           m.process = "running", m.pending = None, m.revision < MaxRevision,
           Len(m.frames) < MaxPipe
    PROVE  Sound(Committed(m, payload)) /\ Same(Committed(m, payload), m)
<1> DEFINE frame == NextFrame(m, payload)
           new == Committed(m, payload)
<1>1. /\ m \in Worker /\ m.id \in Nat /\ m.generation \in Nat
      /\ m.sequence \in Nat /\ m.revision \in Nat /\ m.frames \in Seq(Frame)
      /\ m.arrived = None /\ m.sequence <= m.revision
  BY DEF Sound, Worker
<1>2. frame \in Frame
  BY <1>1, PayloadsAssumption DEF Frame, NextFrame
<1>3. SentBy(m, frame) /\ frame.base = m.revision /\ frame # None
  BY <1>1, <1>2, BoundsAssumption, FrameAssumption DEF SentBy, NextFrame
<1> HIDE DEF frame
<1>4. m.sequence + 1 \in Nat /\ Append(m.frames, frame) \in Seq(Frame)
  BY <1>1, <1>2
<1>5. /\ new \in Worker
      /\ new.id = m.id /\ new.generation = m.generation
      /\ new.bound = m.bound /\ new.process = m.process /\ new.state = m.state
      /\ new.acks = m.acks /\ new.arrived = m.arrived /\ new.last = m.last
      /\ new.revision = m.revision /\ new.sequence = m.sequence + 1
      /\ new.pending = frame /\ new.frames = Append(m.frames, frame)
  <2>1. new = [m EXCEPT !.sequence = @ + 1, !.pending = frame,
                        !.frames = Append(@, frame)]
    BY DEF Committed, frame
  <2> QED
    BY <1>1, <1>2, <1>4, <2>1 DEF Worker
<1> HIDE DEF new
<1>6. /\ Len(new.frames) <= MaxPipe
      /\ \A i \in 1..Len(new.frames) : SentBy(m, new.frames[i])
  <2>1. /\ Len(new.frames) = Len(m.frames) + 1 /\ Len(m.frames) \in Nat
        /\ \A i \in 1..Len(m.frames) : new.frames[i] = m.frames[i]
        /\ new.frames[Len(m.frames) + 1] = frame
    BY <1>1, <1>5
  <2> QED
    BY <1>3, <2>1, PipeAssumption DEF Sound
<1>7. Sound(new) /\ Same(new, m)
  BY <1>1, <1>3, <1>5, <1>6 DEF Sound, SentBy, Same
<1> QED
  BY <1>7 DEF new

\* Resending repeats what is waited for.
LEMMA ResendIsSound ==
    ASSUME NEW m, Sound(m), m.pending # None, Len(m.frames) < MaxPipe
    PROVE  Sound(Resent(m)) /\ Same(Resent(m), m)
<1> DEFINE new == Resent(m)
<1>1. m \in Worker /\ m.frames \in Seq(Frame) /\ SentBy(m, m.pending)
  BY DEF Sound, Worker
<1>2. Append(m.frames, m.pending) \in Seq(Frame)
  BY <1>1 DEF SentBy
<1>3. /\ new \in Worker
      /\ new.id = m.id /\ new.generation = m.generation
      /\ new.bound = m.bound /\ new.process = m.process /\ new.state = m.state
      /\ new.acks = m.acks /\ new.arrived = m.arrived
      /\ new.revision = m.revision /\ new.sequence = m.sequence
      /\ new.pending = m.pending /\ new.frames = Append(m.frames, m.pending)
  BY <1>1, <1>2 DEF Worker, Resent
<1> HIDE DEF new
<1>4. /\ Len(new.frames) <= MaxPipe
      /\ \A i \in 1..Len(new.frames) : SentBy(m, new.frames[i])
  <2>1. /\ Len(new.frames) = Len(m.frames) + 1 /\ Len(m.frames) \in Nat
        /\ \A i \in 1..Len(m.frames) : new.frames[i] = m.frames[i]
        /\ new.frames[Len(m.frames) + 1] = m.pending
    BY <1>1, <1>3
  <2> QED
    BY <1>1, <2>1, PipeAssumption DEF Sound
<1>5. Sound(new) /\ Same(new, m)
  BY <1>3, <1>4 DEF Sound, SentBy, Same
<1> QED
  BY <1>5 DEF new

\* A process that gave up on a commit waits for nothing and sends nothing more.
LEMMA GiveUpIsSound ==
    ASSUME NEW m, Sound(m), m.process = "running"
    PROVE  Sound(GivenUp(m)) /\ Same(GivenUp(m), m)
<1> DEFINE new == GivenUp(m)
<1>1. m \in Worker
  BY DEF Sound
<1>2. /\ new \in Worker
      /\ new.id = m.id /\ new.generation = m.generation
      /\ new.bound = m.bound /\ new.process = "uncertain" /\ new.state = m.state
      /\ new.acks = m.acks /\ new.arrived = None /\ new.pending = None
      /\ new.frames = m.frames
  BY <1>1 DEF Worker, GivenUp
<1> QED
  BY <1>2 DEF Sound, SentBy, Same

\* An ACK is taken only when it is of the commit that is waited for.
LEMMA ReceiveIsSound ==
    ASSUME NEW m, Sound(m), m.acks # <<>>, Fault(m, Head(m.acks)) = "none"
    PROVE  Sound(Received(m)) /\ Same(Received(m), m)
<1> DEFINE new == Received(m)
           given == Head(m.acks)
           arrived == IF Duplicate(m, given) THEN m.arrived ELSE given
<1>1. m \in Worker /\ m.acks \in Seq(LedgerRow)
  BY DEF Sound, Worker
<1>2. /\ given \in LedgerRow /\ Tail(m.acks) \in Seq(LedgerRow)
      /\ given = m.acks[1] /\ Len(Tail(m.acks)) = Len(m.acks) - 1
      /\ Len(m.acks) \in Nat /\ Len(m.acks) >= 1
      /\ \A i \in 1..Len(Tail(m.acks)) :
            Tail(m.acks)[i] = m.acks[i + 1] /\ i + 1 \in 1..Len(m.acks)
  BY <1>1
<1>3. arrived \in LedgerRow \cup {None}
  BY <1>1, <1>2 DEF Worker
<1>4. ~Duplicate(m, given) =>
        /\ m.pending # None
        /\ given.frame = m.pending
        /\ given.result = given.frame.base + 1
  BY <1>2 DEF Fault, SameIdentity, Sound
<1> HIDE DEF given, arrived
<1>5. new = [m EXCEPT !.acks = Tail(@), !.arrived = arrived]
  BY DEF given, arrived, Received
<1>6. /\ new \in Worker
      /\ new.id = m.id /\ new.generation = m.generation
      /\ new.bound = m.bound /\ new.process = m.process /\ new.state = m.state
      /\ new.acks = Tail(m.acks) /\ new.arrived = arrived
      /\ new.revision = m.revision /\ new.sequence = m.sequence
      /\ new.pending = m.pending /\ new.frames = m.frames
  BY <1>1, <1>2, <1>3, <1>5 DEF Worker
<1>7. /\ Len(new.acks) <= MaxPipe
      /\ \A i \in 1..Len(new.acks) :
            new.acks[i].result = new.acks[i].frame.base + 1
  BY <1>2, <1>6, PipeAssumption DEF Sound
<1>8. new.arrived # None =>
        /\ new.pending # None
        /\ new.arrived.frame = new.pending
        /\ new.arrived.result = new.pending.base + 1
  BY <1>4, <1>6 DEF arrived, Sound
<1> QED
  BY <1>6, <1>7, <1>8 DEF Sound, SentBy, Same

\* The revision that the ACK carries is the one after the frame's base.
LEMMA AcceptIsSound ==
    ASSUME NEW m, Sound(m), m.process = "running", m.arrived # None
    PROVE  Sound(Accepted(m)) /\ Same(Accepted(m), m)
<1> DEFINE new == Accepted(m)
<1>1. /\ m \in Worker /\ m.arrived \in LedgerRow
      /\ m.sequence \in Nat /\ m.revision \in Nat
      /\ m.pending # None /\ SentBy(m, m.pending)
      /\ m.arrived.result = m.pending.base + 1
      /\ m.pending.base = m.revision /\ m.sequence <= m.revision + 1
  BY DEF Sound, Worker
<1>2. m.arrived.result \in Nat /\ m.sequence <= m.arrived.result
  BY <1>1 DEF LedgerRow
<1>3. Adopted(m) \in States /\ Adopted(m) # None
  BY <1>1, PayloadsAssumption, NoneAssumption DEF SentBy, Payload, Adopted
<1>4. /\ new \in Worker
      /\ new.id = m.id /\ new.generation = m.generation
      /\ new.bound = m.bound /\ new.process = m.process /\ new.state = Adopted(m)
      /\ new.acks = m.acks /\ new.arrived = None /\ new.pending = None
      /\ new.revision = m.arrived.result /\ new.sequence = m.sequence
      /\ new.frames = m.frames
  BY <1>1, <1>2, <1>3 DEF Worker, Accepted
<1> QED
  BY <1>1, <1>2, <1>3, <1>4 DEF Sound, SentBy, Same

\* What a step of its process may leave of a worker.
ProcessOutcome(m, new) ==
    \/ /\ m.process = "running" /\ m.pending = None
       /\ m.revision < MaxRevision /\ Len(m.frames) < MaxPipe
       /\ \E payload \in Payloads : new = Committed(m, payload)
    \/ /\ m.process = "running" /\ m.pending # None /\ Len(m.frames) < MaxPipe
       /\ new = Resent(m)
    \/ m.process = "running" /\ new = GivenUp(m)
    \/ /\ m.acks # <<>> /\ Fault(m, Head(m.acks)) = "none"
       /\ new = Received(m)
    \/ m.process = "running" /\ m.arrived # None /\ new = Accepted(m)
    \/ new = Exited(m)

\* Each of its steps changes one worker so, and nothing of the store.
LEMMA ProcessShape ==
    ASSUME workers \in Seq(Worker), NEW w \in 1..Len(workers), WorkerProcess(w)
    PROVE  /\ UNCHANGED storeVars
           /\ \E new : /\ workers' = [workers EXCEPT ![w] = new]
                       /\ ProcessOutcome(workers[w], new)
<1> DEFINE m == workers[w]
<1>1. UNCHANGED storeVars
  BY DEF WorkerProcess, Commit, Resend, GiveUpCommit, ReceiveAck, AcceptAck,
         WorkerExits
<1>2. m \in Worker
  OBVIOUS
<1> SUFFICES \E new : /\ workers' = [workers EXCEPT ![w] = new]
                      /\ ProcessOutcome(m, new)
  BY <1>1
<1>3. ASSUME NEW payload \in Payloads, Commit(w, payload)
      PROVE  /\ workers' = [workers EXCEPT ![w] = Committed(m, payload)]
             /\ ProcessOutcome(m, Committed(m, payload))
  <2>1. workers' = [workers EXCEPT ![w] = Committed(m, payload)]
    BY <1>2, <1>3 DEF Commit, CommitRevision, Committed, NextFrame
  <2> QED
    BY <1>3, <2>1 DEF Commit, ProcessOutcome
<1>4. CASE Resend(w)
  <2>1. workers' = [workers EXCEPT ![w] = Resent(m)]
    BY <1>2, <1>4 DEF Resend, Resent
  <2> QED
    BY <1>4, <2>1 DEF Resend, ProcessOutcome
<1>5. CASE GiveUpCommit(w)
  <2>1. workers' = [workers EXCEPT ![w] = GivenUp(m)]
    BY <1>2, <1>5 DEF GiveUpCommit, GivenUp
  <2> QED
    BY <1>5, <2>1 DEF GiveUpCommit, ProcessOutcome
<1>6. CASE ReceiveAck(w)
  <2>1. CASE Fault(m, Head(m.acks)) # "none"
    <3>1. workers' = [workers EXCEPT ![w] = Exited(m)]
      BY <1>2, <1>6, <2>1 DEF ReceiveAck
    <3> QED
      BY <3>1 DEF ProcessOutcome
  <2>2. CASE Fault(m, Head(m.acks)) = "none"
    <3>1. workers' = [workers EXCEPT ![w] = Received(m)]
      BY <1>2, <1>6, <2>2 DEF ReceiveAck, Received
    <3> QED
      BY <1>6, <2>2, <3>1 DEF ReceiveAck, ProcessOutcome
  <2> QED
    BY <2>1, <2>2
<1>7. CASE AcceptAck(w)
  <2>1. workers' = [workers EXCEPT ![w] = Accepted(m)]
    BY <1>2, <1>7 DEF AcceptAck, Accepted
  <2> QED
    BY <1>7, <2>1 DEF AcceptAck, ProcessOutcome
<1>8. CASE WorkerExits(w)
  <2>1. workers' = [workers EXCEPT ![w] = Exited(m)]
    BY <1>8 DEF WorkerExits
  <2> QED
    BY <2>1 DEF ProcessOutcome
<1> QED
  BY <1>3, <1>4, <1>5, <1>6, <1>7, <1>8 DEF WorkerProcess

\* So each step of a process keeps the rules.
LEMMA ProcessStep ==
    ASSUME StoreInv, WorkersInv, NEW w \in 1..Len(workers), WorkerProcess(w)
    PROVE  UNCHANGED storeVars /\ WorkersInv'
<1>1. workers \in Seq(Worker) /\ Sound(workers[w])
  BY DEF WorkersInv
<1>2. UNCHANGED storeVars
  BY <1>1, ProcessShape
<1>3. TypeOK /\ TypeOK' /\ BindingsHold
  BY <1>2, StoreInvStep DEF StoreInv, FenceInv
<1>4. PICK new : /\ workers' = [workers EXCEPT ![w] = new]
                 /\ ProcessOutcome(workers[w], new)
  BY <1>1, ProcessShape
<1>5. Sound(new) /\ Same(new, workers[w])
  BY <1>1, <1>4, CommitIsSound, ResendIsSound, GiveUpIsSound, ReceiveIsSound,
     AcceptIsSound, ExitedIsSound
  DEF ProcessOutcome
<1> QED
  BY <1>2, <1>3, <1>4, <1>5, WorkerUpdated DEF Same

-----------------------------------------------------------------------------
(* The relay *)

\* A frame of a worker is one that the store is specified for.
LEMMA SentIsSpecified ==
    ASSUME TypeOK, NEW m \in Worker, m.generation \in 1..MaxGeneration,
           FitsIn(m, deployment, generations), NEW frame, SentBy(m, frame)
    PROVE  frame \in Frames
<1>1. /\ frame.id \in 1..deployment.id
      /\ frame.generation \in 1..MaxGeneration
  BY DEF FitsIn, SentBy
<1> QED
  BY <1>1 DEF SentBy, Frame, Frames

\* What a relay does with the frame that it has bound is a step of the store: a
\* frame that is admitted is bound to the row's destinations or has no events.
LEMMA RelayedIsWorkerStep ==
    ASSUME StoreInv, WorkersInv, NEW w \in 1..Len(workers),
           workers[w].bound # None,
           ApplyTransaction(workers[w].bound.frame, workers[w].bound.destination)
    PROVE  /\ WorkerStep
           /\ events' # events => \A row \in events' \ events :
                row.destination = deployment.destination
<1> DEFINE m == workers[w]
           frame == m.bound.frame
           bound == m.bound.destination
<1>1. /\ TypeOK /\ FenceConsistent /\ RowNumbered
      /\ deployment.destination \in Nat
      /\ m \in Worker /\ Sound(m) /\ FitsIn(m, deployment, generations)
  BY DEF StoreInv, FenceInv, TypeOK, Deployment, WorkersInv
<1>2. SentBy(m, frame) /\ frame \in Frame /\ frame \in Frames
  BY <1>1, SentIsSpecified DEF Sound, SentBy
<1> HIDE DEF frame, bound
<1>3. CASE CommitFrame(frame, bound)
  <2>1. /\ deployment.status = "active"
        /\ generations[frame.generation].status = "active"
        /\ frame.id = deployment.id
        /\ deployment.destination \in 1..deployment.destination
    <3>1. deployment.status = "active"
          /\ generations[frame.generation].status = "active"
      BY <1>1, <1>2, <1>3, CommitFrameRows
    <3>2. frame.id = deployment.id
      BY <1>3 DEF CommitFrame, Admitted
    <3> QED
      BY <1>1, <3>1, <3>2 DEF RowNumbered
  <2>2. frame.payload.events # {} => bound = deployment.destination
    BY <1>1, <1>2, <2>1 DEF FitsIn, SentBy, frame, bound
  <2>3. events' = events \cup
            {[event |-> e, generation |-> frame.generation,
              sequence |-> frame.sequence,
              destination |-> deployment.destination] : e \in NewEvents(frame)}
    <3>1. CASE frame.payload.events = {}
      <4>1. NewEvents(frame) = {}
        BY <3>1 DEF NewEvents
      <4> QED
        BY <1>3, <4>1 DEF CommitFrame
    <3>2. CASE frame.payload.events # {}
      BY <1>3, <2>2, <3>2 DEF CommitFrame
    <3> QED
      BY <3>1, <3>2
  <2>4. CommitFrame(frame, deployment.destination)
    BY <1>3, <2>3 DEF CommitFrame
  <2>5. WorkerStep
    BY <1>2, <2>1, <2>4 DEF WorkerStep, ApplyTransaction
  <2> QED
    BY <2>3, <2>5
<1>4. CASE ReplayFrame(frame)
  <2>1. transactions # {} /\ events' = events
    BY <1>4 DEF ReplayFrame, Stored, rows
  <2>2. 1 \in 1..deployment.destination
    BY <1>1, <2>1 DEF RowNumbered
  <2>3. WorkerStep
    BY <1>2, <1>4, <2>2 DEF WorkerStep, ApplyTransaction
  <2> QED
    BY <2>1, <2>3
<1> QED
  BY <1>3, <1>4 DEF ApplyTransaction, frame, bound

\* The ACK that a relay passes on is a receipt.
LEMMA AckIsReceipt ==
    ASSUME StoreInv', NEW frame, NEW destination,
           ApplyTransaction(frame, destination)
    PROVE  ack' \in LedgerRow /\ ack'.result = ack'.frame.base + 1
<1>1. ack' \in transactions'
  BY DEF ApplyTransaction, CommitFrame, ReplayFrame, Stored, rows
<1> QED
  BY <1>1 DEF StoreInv, FenceInv, TypeOK, LedgerCounts

\* What a relay leaves of its worker when it passes an ACK on, or cannot.
Acked(m, given) == [m EXCEPT !.bound = None, !.acks = Append(@, given)]

Draining(m) == [m EXCEPT !.bound = None, !.relay = "draining"]

\* A receipt passed on is one more ACK for the process.
LEMMA AckedIsSound ==
    ASSUME NEW m, Sound(m), m.process # "exited", Len(m.acks) < MaxPipe,
           NEW given \in LedgerRow, given.result = given.frame.base + 1
    PROVE  /\ Sound(Acked(m, given))
           /\ Acked(m, given).id = m.id
           /\ Acked(m, given).generation = m.generation
           /\ Acked(m, given).bound = None
<1> DEFINE new == Acked(m, given)
<1>1. /\ m \in Worker /\ m.acks \in Seq(LedgerRow)
      /\ Append(m.acks, given) \in Seq(LedgerRow)
  BY DEF Sound, Worker
<1>2. /\ new \in Worker
      /\ new.id = m.id /\ new.generation = m.generation
      /\ new.bound = None /\ new.process = m.process /\ new.state = m.state
      /\ new.acks = Append(m.acks, given) /\ new.arrived = m.arrived
      /\ new.revision = m.revision /\ new.sequence = m.sequence
      /\ new.pending = m.pending /\ new.frames = m.frames
  BY <1>1 DEF Worker, Acked
<1> HIDE DEF new
<1>3. /\ Len(new.acks) <= MaxPipe
      /\ \A i \in 1..Len(new.acks) :
            new.acks[i].result = new.acks[i].frame.base + 1
  <2>1. /\ Len(new.acks) = Len(m.acks) + 1 /\ Len(m.acks) \in Nat
        /\ \A i \in 1..Len(m.acks) : new.acks[i] = m.acks[i]
        /\ new.acks[Len(m.acks) + 1] = given
    BY <1>1, <1>2
  <2>2. \A i \in 1..Len(m.acks) : m.acks[i].result = m.acks[i].frame.base + 1
    BY DEF Sound
  <2>3. ASSUME NEW i \in 1..Len(new.acks)
        PROVE  new.acks[i].result = new.acks[i].frame.base + 1
    <3>1. CASE i \in 1..Len(m.acks)
      BY <2>1, <2>2, <3>1
    <3>2. CASE i = Len(m.acks) + 1
      BY <2>1, <3>2
    <3> QED
      BY <2>1, <3>1, <3>2
  <2> QED
    BY <2>1, <2>3, PipeAssumption
<1>4. Sound(new)
  BY <1>2, <1>3 DEF Sound, SentBy
<1> QED
  BY <1>2, <1>4 DEF new

\* A relay that cannot pass it on lets go of the frame.
LEMMA DrainingIsSound ==
    ASSUME NEW m, Sound(m)
    PROVE  /\ Sound(Draining(m))
           /\ Draining(m).id = m.id
           /\ Draining(m).generation = m.generation
           /\ Draining(m).bound = None
<1> DEFINE new == Draining(m)
<1>1. m \in Worker
  BY DEF Sound
<1>2. /\ new \in Worker
      /\ new.id = m.id /\ new.generation = m.generation
      /\ new.bound = None /\ new.process = m.process /\ new.state = m.state
      /\ new.acks = m.acks /\ new.arrived = m.arrived
      /\ new.revision = m.revision /\ new.sequence = m.sequence
      /\ new.pending = m.pending /\ new.frames = m.frames
  BY <1>1 DEF Worker, Draining
<1> QED
  BY <1>2 DEF Sound, SentBy

\* What is left of a worker whose process was ended for its relay.
Ended(m) == [Exited(m) EXCEPT !.relay = "ended", !.frames = <<>>]

Gone(m, relay) ==
    [Exited(m) EXCEPT !.bound = None, !.frames = <<>>, !.relay = relay]

\* However it was ended, it waits for nothing and nothing of it is unread.
LEMMA EndedIsSound ==
    ASSUME NEW m, Sound(m), NEW relay \in {"ended", "stopped"},
           NEW new \in {Ended(m), Gone(m, relay)}
    PROVE  /\ Sound(new)
           /\ new.id = m.id /\ new.generation = m.generation
           /\ new.bound \in {None, m.bound}
<1>1. /\ Sound(Exited(m)) /\ Same(Exited(m), m) /\ Exited(m) \in Worker
  BY ExitedIsSound DEF Sound
<1> DEFINE left == Exited(m)
<1> HIDE DEF left
<1>2. /\ <<>> \in Seq(Frame) /\ Len(<<>>) <= MaxPipe
  BY PipeAssumption
<1>3. /\ new \in Worker
      /\ new.id = left.id /\ new.generation = left.generation
      /\ new.bound \in {None, left.bound}
      /\ new.process = left.process /\ new.state = left.state
      /\ new.acks = left.acks /\ new.arrived = left.arrived
      /\ new.revision = left.revision /\ new.sequence = left.sequence
      /\ new.pending = left.pending /\ new.frames = <<>>
  <2>1. left \in Worker
    BY <1>1 DEF left
  <2>2. CASE new = [left EXCEPT !.relay = "ended", !.frames = <<>>]
    BY <1>2, <2>1, <2>2 DEF Worker
  <2>3. CASE new = [left EXCEPT !.bound = None, !.frames = <<>>, !.relay = relay]
    BY <1>2, <2>1, <2>3 DEF Worker
  <2> QED
    BY <2>2, <2>3 DEF left, Ended, Gone
<1>4. Sound(new)
  <2>1. Sound(left)
    BY <1>1 DEF left
  <2> QED
    BY <1>2, <1>3, <2>1 DEF Sound, SentBy
<1> QED
  BY <1>1, <1>3, <1>4 DEF left, Same

\* What a relay holds that has taken a frame, and one that is recorded.
Taken(m) ==
    [m EXCEPT !.frames = Tail(@),
              !.bound = [frame |-> Head(m.frames),
                         destination |-> Bindings(Head(m.frames))]]

Recorded(m) == [m EXCEPT !.relay = "stopped"]

\* Recording that it stopped changes nothing of what it holds.
LEMMA RecordedIsSound ==
    ASSUME NEW m, Sound(m)
    PROVE  Sound(Recorded(m)) /\ Same(Recorded(m), m)
<1> DEFINE new == Recorded(m)
<1>1. m \in Worker
  BY DEF Sound
<1>2. /\ new \in Worker
      /\ new.id = m.id /\ new.generation = m.generation
      /\ new.bound = m.bound /\ new.process = m.process /\ new.state = m.state
      /\ new.acks = m.acks /\ new.arrived = m.arrived
      /\ new.revision = m.revision /\ new.sequence = m.sequence
      /\ new.pending = m.pending /\ new.frames = m.frames
  BY <1>1 DEF Worker, Recorded
<1> QED
  BY <1>2 DEF Sound, SentBy, Same

\* The bindings that are read with a frame are the row's, if the row is there.
LEMMA TakenIsSound ==
    ASSUME TypeOK, NEW m, Sound(m), FitsIn(m, deployment, generations),
           m.frames # <<>>
    PROVE  Sound(Taken(m)) /\ FitsIn(Taken(m), deployment, generations)
<1> DEFINE new == Taken(m)
           frame == Head(m.frames)
           bound == [frame |-> frame, destination |-> Bindings(frame)]
<1>1. m \in Worker /\ m.frames \in Seq(Frame) /\ deployment.destination \in Nat
  BY DEF Sound, Worker, TypeOK, Deployment
<1>2. /\ frame \in Frame /\ frame = m.frames[1] /\ 1 \in 1..Len(m.frames)
      /\ Tail(m.frames) \in Seq(Frame)
      /\ Len(Tail(m.frames)) <= Len(m.frames) /\ Len(m.frames) \in Nat
      /\ \A i \in 1..Len(Tail(m.frames)) :
            Tail(m.frames)[i] = m.frames[i + 1] /\ i + 1 \in 1..Len(m.frames)
  BY <1>1
<1>3. SentBy(m, frame)
  BY <1>2 DEF Sound
<1> HIDE DEF frame
<1>4. bound \in Bound /\ bound.frame = frame
  BY <1>1, <1>2 DEF Bound, Bindings
<1> HIDE DEF bound
<1>5. /\ new \in Worker
      /\ new.id = m.id /\ new.generation = m.generation
      /\ new.bound = bound /\ new.process = m.process /\ new.state = m.state
      /\ new.acks = m.acks /\ new.arrived = m.arrived
      /\ new.revision = m.revision /\ new.sequence = m.sequence
      /\ new.pending = m.pending /\ new.frames = Tail(m.frames)
  <2>1. new = [m EXCEPT !.frames = Tail(@), !.bound = bound]
    BY DEF Taken, bound, frame
  <2> QED
    BY <1>1, <1>2, <1>4, <2>1 DEF Worker
<1> HIDE DEF new
<1>6. /\ Len(new.frames) <= MaxPipe
      /\ \A i \in 1..Len(new.frames) : SentBy(m, new.frames[i])
  BY <1>2, <1>5, PipeAssumption DEF Sound
<1>7. Sound(new)
  BY <1>3, <1>4, <1>5, <1>6 DEF Sound, SentBy
<1>8. m.id = deployment.id /\ deployment.status # "none" /\ frame.payload.events # {}
        => bound.destination = deployment.destination
  BY <1>3 DEF bound, Bindings, SentBy
<1>9. FitsIn(new, deployment, generations)
  BY <1>4, <1>5, <1>8 DEF FitsIn
<1> QED
  BY <1>7, <1>9 DEF new

\* What a step of its relay may leave of a worker.
RelayOutcome(m, new) ==
    \/ /\ UNCHANGED storeVars
       /\ m.bound = None /\ m.frames # <<>>
       /\ new = Taken(m)
    \/ /\ m.bound # None
       /\ ApplyTransaction(m.bound.frame, m.bound.destination)
       /\ \/ /\ m.process # "exited" /\ Len(m.acks) < MaxPipe
             /\ new = Acked(m, ack')
          \/ new = Draining(m)
    \/ /\ UNCHANGED storeVars
       /\ new \in {Ended(m), Gone(m, "ended")}
    \/ /\ \/ UNCHANGED storeVars
          \/ \E g \in 1..Len(generations) : MarkGenerationStopped(g)
       /\ new = Recorded(m)

\* Each of its steps changes one worker so.
LEMMA RelayShape ==
    ASSUME workers \in Seq(Worker), NEW w \in 1..Len(workers), RelayOf(w)
    PROVE  \E new : /\ workers' = [workers EXCEPT ![w] = new]
                    /\ RelayOutcome(workers[w], new)
<1> DEFINE m == workers[w]
<1>1. m \in Worker
  OBVIOUS
<1>2. CASE TakeFrame(w)
  <2>1. workers' = [workers EXCEPT ![w] = Taken(m)]
    BY <1>1, <1>2 DEF TakeFrame, Taken
  <2> QED
    BY <1>2, <2>1 DEF TakeFrame, RelayOutcome
<1>3. CASE Relayed(w)
  <2>1. CASE /\ Alive(w) /\ Len(m.acks) < MaxPipe
             /\ workers' = [workers EXCEPT
                    ![w].bound = None, ![w].acks = Append(@, ack')]
    <3>1. workers' = [workers EXCEPT ![w] = Acked(m, ack')]
      BY <1>1, <2>1 DEF Acked
    <3>2. RelayOutcome(m, Acked(m, ack'))
      BY <1>3, <2>1 DEF Relayed, Alive, RelayOutcome
    <3> QED
      BY <3>1, <3>2
  <2>2. CASE workers' = [workers EXCEPT
                ![w].bound = None, ![w].relay = "draining"]
    <3>1. workers' = [workers EXCEPT ![w] = Draining(m)]
      BY <1>1, <2>2 DEF Draining
    <3>2. RelayOutcome(m, Draining(m))
      BY <1>3 DEF Relayed, RelayOutcome
    <3> QED
      BY <3>1, <3>2
  <2> QED
    BY <1>3, <2>1, <2>2 DEF Relayed
<1>4. CASE StoreFails(w)
  <2>1. workers' = [workers EXCEPT ![w] = Gone(m, "ended")]
    BY <1>1, <1>4 DEF StoreFails, Gone
  <2> QED
    BY <1>4, <2>1 DEF StoreFails, RelayOutcome
<1>5. CASE RelayEnds(w)
  <2>1. workers' = [workers EXCEPT ![w] = Ended(m)]
    BY <1>1, <1>5 DEF RelayEnds, Ended
  <2> QED
    BY <1>5, <2>1 DEF RelayEnds, RelayOutcome
<1>6. CASE RecordStop(w)
  <2>1. workers' = [workers EXCEPT ![w] = Recorded(m)]
    BY <1>1, <1>6 DEF RecordStop, Recorded
  <2> QED
    BY <1>6, <2>1 DEF RecordStop, RelayOutcome
<1> QED
  BY <1>2, <1>3, <1>4, <1>5, <1>6 DEF RelayOf

\* So each step of a relay is a step of the store, or none, and keeps the rules.
LEMMA RelayStep ==
    ASSUME StoreInv, WorkersInv, NEW w \in 1..Len(workers), RelayOf(w)
    PROVE  [Next]_storeVars /\ WorkersInv'
<1> DEFINE m == workers[w]
<1>1. /\ workers \in Seq(Worker) /\ Sound(m)
      /\ FitsIn(m, deployment, generations) /\ TypeOK
  BY DEF WorkersInv, StoreInv, FenceInv
<1>2. PICK new : /\ workers' = [workers EXCEPT ![w] = new]
                 /\ RelayOutcome(m, new)
  BY <1>1, RelayShape
<1>3. [Next]_storeVars
  BY <1>2, RelayedIsWorkerStep DEF RelayOutcome, Next, DaemonStep
<1>4. StoreInv' /\ TypeOK' /\ BindingsHold
  BY <1>3, StoreInvStep DEF StoreInv, FenceInv
<1>5. CASE UNCHANGED storeVars /\ m.frames # <<>> /\ new = Taken(m)
  <2>1. Sound(new) /\ FitsIn(new, deployment, generations)
    BY <1>1, <1>5, TakenIsSound
  <2>2. FitsIn(new, deployment', generations')
    BY <1>5, <2>1 DEF storeVars, rows
  <2> QED
    BY <1>1, <1>2, <1>3, <1>4, <2>1, <2>2, WorkerReplaced
<1>6. ASSUME Sound(new), new.id = m.id, new.generation = m.generation,
             new.bound \in {None, m.bound}
      PROVE  [Next]_storeVars /\ WorkersInv'
  BY <1>1, <1>2, <1>3, <1>4, <1>6, WorkerUpdated
<1>7. CASE /\ m.bound # None
           /\ ApplyTransaction(m.bound.frame, m.bound.destination)
           /\ m.process # "exited" /\ Len(m.acks) < MaxPipe
           /\ new = Acked(m, ack')
  <2>1. ack' \in LedgerRow /\ ack'.result = ack'.frame.base + 1
    BY <1>4, <1>7, AckIsReceipt
  <2>2. /\ Sound(new) /\ new.id = m.id
        /\ new.generation = m.generation /\ new.bound = None
    BY <1>1, <1>7, <2>1, AckedIsSound
  <2> QED
    BY <1>6, <2>2
<1>8. CASE new = Draining(m)
  BY <1>1, <1>6, <1>8, DrainingIsSound
<1>9. CASE new \in {Ended(m), Gone(m, "ended")}
  BY <1>1, <1>6, <1>9, EndedIsSound
<1>10. CASE new = Recorded(m)
  BY <1>1, <1>6, <1>10, RecordedIsSound DEF Same
<1> QED
  BY <1>2, <1>5, <1>7, <1>8, <1>9, <1>10 DEF RelayOutcome

-----------------------------------------------------------------------------
(* The daemon *)

\* The snapshot that is activated is of the row as it is.
LEMMA SnapshotIsRow ==
    ASSUME StoreInv, ActivateGeneration
    PROVE  /\ snapshot.id = deployment.id
           /\ snapshot.id \in Nat /\ snapshot.id >= 1
           /\ snapshot.state = deployment.state /\ snapshot.state \in States
           /\ snapshot.stateRevision = deployment.stateRevision
           /\ snapshot.stateRevision \in Nat
<1>1. snapshot # None /\ SnapshotCurrent
  BY DEF ActivateGeneration
<1>2. /\ deployment.status # "none" /\ snapshot.id = deployment.id
      /\ snapshot.stateRevision = deployment.stateRevision
  BY <1>1 DEF SnapshotCurrent
<1>3. snapshot.state = deployment.state /\ snapshot.state \in States
  BY <1>1, <1>2 DEF StoreInv, SnapshotPast, RowPresent
<1>4. deployment.id \in Nat /\ deployment.stateRevision \in Nat
  BY DEF StoreInv, FenceInv, TypeOK, Deployment
<1> QED
  BY <1>2, <1>3, <1>4 DEF StoreInv, RowNumbered

\* The worker that is launched from it.
Launched ==
    [id |-> snapshot.id, generation |-> Len(generations) + 1,
     process |-> "running", sequence |-> 0,
     revision |-> snapshot.stateRevision, state |-> snapshot.state,
     pending |-> None, arrived |-> None, last |-> None,
     frames |-> <<>>, acks |-> <<>>,
     relay |-> "serving", bound |-> None]

\* A worker is launched with the row's state, under a generation just issued.
LEMMA LaunchStep ==
    ASSUME StoreInv, WorkersInv, Launch
    PROVE  Next /\ WorkersInv'
<1>1. Next /\ ActivateGeneration
  BY DEF Launch, Next, DaemonStep
<1>2. TypeOK /\ FenceConsistent /\ TypeOK' /\ BindingsHold
  BY <1>1, StoreInvStep DEF StoreInv, FenceInv
<1> DEFINE m == Launched
<1>3. workers' = Append(workers, m)
  BY DEF Launch, Launched
<1>4. /\ Len(generations) < MaxGeneration
      /\ deployment'.id = deployment.id
      /\ Len(generations') = Len(generations) + 1 /\ Len(generations) \in Nat
  BY <1>1, <1>2, ActivateGenerationRows
  DEF ActivateGeneration, TypeOK, Deployment
<1>5. /\ snapshot.id = deployment.id /\ snapshot.id \in Nat /\ snapshot.id >= 1
      /\ snapshot.state \in States /\ snapshot.stateRevision \in Nat
  BY <1>1, SnapshotIsRow
<1>6. /\ m \in Worker
      /\ m.id = snapshot.id /\ m.generation = Len(generations) + 1
      /\ m.process = "running" /\ m.state = snapshot.state /\ m.sequence = 0
      /\ m.revision = snapshot.stateRevision
      /\ m.pending = None /\ m.arrived = None /\ m.bound = None
      /\ m.frames = <<>> /\ m.acks = <<>>
  BY <1>4, <1>5 DEF Worker, Launched
<1> HIDE DEF m
<1>7. Sound(m)
  <2>1. m.generation \in 1..MaxGeneration
    BY <1>4, <1>6, BoundsAssumption
  <2>2. Len(m.frames) = 0 /\ Len(m.acks) = 0 /\ MaxPipe >= 0
    BY <1>6, PipeAssumption
  <2>3. m.state # None
    BY <1>5, <1>6, NoneAssumption
  <2> QED
    BY <1>5, <1>6, <2>1, <2>2, <2>3 DEF Sound
<1>8. FitsIn(m, deployment', generations')
  BY <1>4, <1>5, <1>6 DEF FitsIn
<1>9. ASSUME NEW v \in 1..Len(workers)
      PROVE  Sound(workers[v]) /\ FitsIn(workers[v], deployment', generations')
  <2>1. workers[v] \in Worker
    BY DEF WorkersInv
  <2> QED
    BY <1>2, <2>1, FitsKept DEF WorkersInv
<1>10. /\ workers' \in Seq(Worker)
       /\ \A v \in 1..Len(workers') :
            \/ workers'[v] = m
            \/ v \in 1..Len(workers) /\ workers'[v] = workers[v]
  BY <1>3, <1>6 DEF WorkersInv
<1> QED
  BY <1>1, <1>7, <1>8, <1>9, <1>10 DEF WorkersInv

\* What a restart leaves of the workers is that they were.
LEMMA RestartStep ==
    ASSUME StoreInv, WorkersInv, DaemonRestarts
    PROVE  Next /\ WorkersInv'
<1>1. Next
  BY DEF DaemonRestarts, Next, DaemonStep
<1>2. TypeOK /\ TypeOK' /\ BindingsHold
  BY <1>1, StoreInvStep DEF StoreInv, FenceInv
<1>3. workers \in Seq(Worker) /\ Len(workers) \in Nat
  BY DEF WorkersInv
<1>4. workers' = [v \in 1..Len(workers) |-> Gone(workers[v], "stopped")]
  BY DEF DaemonRestarts, Gone
<1>5. ASSUME NEW v \in 1..Len(workers)
      PROVE  /\ Gone(workers[v], "stopped") \in Worker
             /\ Sound(Gone(workers[v], "stopped"))
             /\ FitsIn(Gone(workers[v], "stopped"), deployment', generations')
  <2> DEFINE m == workers[v]
             new == Gone(m, "stopped")
  <2>1. Sound(m) /\ FitsIn(m, deployment, generations)
    BY DEF WorkersInv
  <2>2. /\ Sound(new) /\ new.id = m.id /\ new.generation = m.generation
        /\ new.bound \in {None, m.bound}
    BY <2>1, EndedIsSound
  <2> HIDE DEF m, new
  <2>3. new \in Worker /\ FitsIn(new, deployment, generations)
    BY <2>1, <2>2 DEF FitsIn, Sound
  <2>4. FitsIn(new, deployment', generations')
    BY <1>2, <2>2, <2>3, FitsKept
  <2> QED
    BY <2>2, <2>3, <2>4 DEF m, new
<1>6. /\ workers' \in Seq(Worker) /\ Len(workers') = Len(workers)
      /\ \A v \in 1..Len(workers) : workers'[v] = Gone(workers[v], "stopped")
  <2>1. workers' \in [1..Len(workers) -> Worker]
    BY <1>4, <1>5
  <2>2. workers' \in Seq(Worker)
    BY <1>3, <2>1
  <2> QED
    BY <1>3, <1>4, <2>1, <2>2
<1> QED
  BY <1>1, <1>5, <1>6 DEF WorkersInv

-----------------------------------------------------------------------------
(* Theorems *)

RelayInv == StoreInv /\ WorkersInv

\* What happens beside the protocol is a step of the store.
LEMMA ElsewhereStep == Elsewhere => Next /\ UNCHANGED workers
<1> SUFFICES ASSUME Elsewhere
             PROVE  Next
  BY DEF Elsewhere
<1>1. CASE \E b \in Builders : DeployCommand(b)
  BY <1>1 DEF Next
<1>2. CASE OperatorCommand
  BY <1>2 DEF Next
<1>3. CASE ExpiryPasses
  BY <1>3 DEF Next
<1>4. CASE \/ ListRuntimeMetadata \/ GetRuntimeDeployment \/ ActivationRefused
           \/ DeactivateDueDeployments \/ PruneTerminalOutbox
           \/ PruneRetiredTransactions
  BY <1>4 DEF Next, DaemonStep
<1> QED
  BY <1>1, <1>2, <1>3, <1>4 DEF Elsewhere

\* Nothing was launched at first.
LEMMA RelayInvInit == RelayInit => RelayInv
<1> SUFFICES ASSUME RelayInit
             PROVE  RelayInv
  OBVIOUS
<1>1. Init /\ workers = <<>>
  BY DEF RelayInit
<1>2. workers \in Seq(Worker) /\ Len(workers) = 0
  BY <1>1
<1> QED
  BY <1>1, <1>2, StoreInvInit DEF RelayInv, WorkersInv

\* Each step of the protocol is a step of the store, and keeps the rules.
LEMMA RelayInvStep ==
    RelayInv /\ [RelayNext]_relayVars => [Next]_storeVars /\ RelayInv'
<1> SUFFICES ASSUME RelayInv, [RelayNext]_relayVars
             PROVE  [Next]_storeVars /\ RelayInv'
  OBVIOUS
<1>1. StoreInv /\ WorkersInv
  BY DEF RelayInv
<1>2. [Next]_storeVars /\ WorkersInv'
  <2>1. CASE Launch
    BY <1>1, <2>1, LaunchStep
  <2>2. CASE DaemonRestarts
    BY <1>1, <2>2, RestartStep
  <2>3. ASSUME NEW w \in 1..Len(workers), WorkerProcess(w)
        PROVE  [Next]_storeVars /\ WorkersInv'
    BY <1>1, <2>3, ProcessStep
  <2>4. ASSUME NEW w \in 1..Len(workers), RelayOf(w)
        PROVE  [Next]_storeVars /\ WorkersInv'
    BY <1>1, <2>4, RelayStep
  <2>5. CASE [Next]_storeVars /\ UNCHANGED workers
    <3>1. TypeOK /\ TypeOK' /\ BindingsHold
      BY <1>1, <2>5, StoreInvStep DEF StoreInv, FenceInv
    <3> QED
      BY <1>1, <2>5, <3>1, WorkersUnchanged
  <2>6. CASE Elsewhere \/ UNCHANGED relayVars
    BY <2>5, <2>6, ElsewhereStep DEF relayVars
  <2> QED
    BY <2>1, <2>2, <2>3, <2>4, <2>6 DEF RelayNext
<1>3. StoreInv'
  BY <1>1, <1>2, StoreInvStep
<1> QED
  BY <1>2, <1>3 DEF RelayInv

\* Only a relay that has a frame bound adds events.
LEMMA EventsOfRelay ==
    ASSUME RelayInv, [RelayNext]_relayVars
    PROVE  \A row \in events' \ events : row.destination = deployment.destination
<1>1. StoreInv /\ WorkersInv
  BY DEF RelayInv
<1>2. CASE events' \subseteq events
  BY <1>2
<1>3. CASE Launch \/ DaemonRestarts
  BY <1>2, <1>3 DEF Launch, ActivateGeneration, DaemonRestarts, RecoverGenerations
<1>4. ASSUME NEW w \in 1..Len(workers), WorkerProcess(w)
      PROVE  events' \subseteq events
  BY <1>1, <1>4, ProcessStep DEF storeVars, rows
<1>5. ASSUME NEW w \in 1..Len(workers), RelayOf(w)
      PROVE  \A row \in events' \ events : row.destination = deployment.destination
  <2>1. CASE Relayed(w)
    BY <1>1, <2>1, RelayedIsWorkerStep DEF Relayed
  <2>2. CASE TakeFrame(w) \/ StoreFails(w) \/ RelayEnds(w) \/ RecordStop(w)
    BY <2>2
    DEF TakeFrame, StoreFails, RelayEnds, RecordStop, MarkGenerationStopped,
        storeVars, rows
  <2> QED
    BY <1>5, <2>1, <2>2 DEF RelayOf
<1>6. CASE Elsewhere
  <2>1. CASE \E b \in Builders : DeployCommand(b)
    BY <1>2, <2>1
    DEF DeployCommand, StartBuild, DeployNew, Redeploy, ReplaceDeployment, DeployRefused, rows
  <2>2. CASE OperatorCommand
    BY <1>2, <2>2
    DEF OperatorCommand, PauseDeployment, ResumeDeployment, ArchiveDeployment,
        PurgeDeployment, ReplaceState, ClearCheckpoints
  <2> QED
    BY <1>2, <1>6, <2>1, <2>2
    DEF Elsewhere, ListRuntimeMetadata, GetRuntimeDeployment, ActivationRefused,
        ExpiryPasses, DeactivateDueDeployments, PruneTerminalOutbox,
        PruneRetiredTransactions, rows
<1> QED
  BY <1>2, <1>3, <1>4, <1>5, <1>6 DEF RelayNext, relayVars, storeVars, rows

\* RelayTypeOK: coordinators, pipes and relays hold what their types declare.
THEOREM RelayTypeCorrect == RelaySpec => []RelayTypeOK
<1>1. RelayInv => RelayTypeOK
  BY DEF RelayInv, WorkersInv, Sound, RelayTypeOK
<1> QED
  BY <1>1, RelayInvInit, RelayInvStep, PTL DEF RelaySpec

\* ImplementsStore: the protocol does nothing to the store but what Store has
\* workers, commands and the daemon do, so each theorem of Store holds of it.
THEOREM RelayImplementsStore == RelaySpec => ImplementsStore
<1>1. RelayInit => Init
  BY DEF RelayInit
<1> QED
  BY <1>1, RelayInvInit, RelayInvStep, PTL DEF RelaySpec, Spec, ImplementsStore

\* BoundToCurrent: destinations read one step before the commit are still those
\* of the row when it commits, because a deploy fences the generation.
THEOREM BindingsCurrent == RelaySpec => BoundToCurrent
<1>1. RelayInv /\ [RelayNext]_relayVars =>
        [\A row \in events' \ events :
            row.destination = deployment.destination]_relayVars
  BY EventsOfRelay
<1> QED
  BY <1>1, RelayInvInit, RelayInvStep, PTL DEF RelaySpec, BoundToCurrent

=============================================================================
