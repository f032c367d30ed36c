----------------------------- MODULE StoreProofs -----------------------------
(***************************************************************************)
(* Theorems about Store, for every value of its constants: types, counters *)
(* and commits, fences and sequences; what the store keeps, forgets and    *)
(* reads under retention; and the fenced register that all of it           *)
(* implements.                                                             *)
(***************************************************************************)
EXTENDS Store, TLAPS

-----------------------------------------------------------------------------
(* What the helpers on rows return *)

\* Retiring every generation keeps the table's shape, its length and the
\* sequence each generation had reached.
LEMMA RetireAllRows ==
    ASSUME NEW gens \in Seq(Generation)
    PROVE  /\ RetireAll(gens) \in Seq(Generation)
           /\ Len(RetireAll(gens)) = Len(gens)
           /\ \A g \in 1..Len(gens) :
                /\ RetireAll(gens)[g].status = "retired"
                /\ RetireAll(gens)[g].lastSequence = gens[g].lastSequence
<1>1. \A g \in 1..Len(gens) : gens[g] \in Generation
  OBVIOUS
<1>2. \A g \in 1..Len(gens) :
        /\ RetireAll(gens)[g] \in Generation
        /\ RetireAll(gens)[g].status = "retired"
        /\ RetireAll(gens)[g].lastSequence = gens[g].lastSequence
  BY <1>1 DEF RetireAll, Generation
<1>3. RetireAll(gens) \in [1..Len(gens) -> Generation]
  BY <1>2 DEF RetireAll
<1>4. Len(gens) \in Nat
  OBVIOUS
<1> QED
  BY <1>2, <1>3, <1>4

\* Retiring one generation leaves the others as they were.
LEMMA RetireRows ==
    ASSUME NEW gens \in Seq(Generation), NEW g \in 1..Len(gens)
    PROVE  /\ Retire(gens, g) \in Seq(Generation)
           /\ Len(Retire(gens, g)) = Len(gens)
           /\ \A h \in 1..Len(gens) :
                /\ Retire(gens, g)[h].status =
                        IF h = g THEN "retired" ELSE gens[h].status
                /\ Retire(gens, g)[h].lastSequence = gens[h].lastSequence
<1>1. \A h \in 1..Len(gens) : gens[h] \in Generation
  OBVIOUS
<1>2. \A h \in 1..Len(gens) :
        /\ Retire(gens, g)[h] \in Generation
        /\ Retire(gens, g)[h].status =
                IF h = g THEN "retired" ELSE gens[h].status
        /\ Retire(gens, g)[h].lastSequence = gens[h].lastSequence
  BY <1>1 DEF Retire, Generation
<1>3. Retire(gens, g) \in Seq(Generation) /\ Len(Retire(gens, g)) = Len(gens)
  BY <1>1, <1>2 DEF Retire
<1> QED
  BY <1>2, <1>3

\* Merging checkpoint writes into checkpoint rows gives checkpoint rows.
LEMMA UpsertRows ==
    ASSUME NEW old \in CheckpointRows, NEW new \in CheckpointRows
    PROVE  Upsert(old, new) \in CheckpointRows
<1>1. PICK S \in SUBSET Sources : old \in [S -> CheckpointValues]
  BY DEF CheckpointRows
<1>2. PICK T \in SUBSET Sources : new \in [T -> CheckpointValues]
  BY DEF CheckpointRows
<1>3. Upsert(old, new) \in [S \cup T -> CheckpointValues]
  BY <1>1, <1>2 DEF Upsert
<1>4. S \cup T \in SUBSET Sources
  OBVIOUS
<1> QED
  BY <1>3, <1>4 DEF CheckpointRows

\* An empty checkpoint table is a checkpoint table.
LEMMA NoCheckpointsRows == NoCheckpoints \in CheckpointRows
<1>1. NoCheckpoints \in [{} -> CheckpointValues]
  BY DEF NoCheckpoints
<1> QED
  BY <1>1 DEF CheckpointRows

\* Advancing the sequence of one generation leaves every status as it was.
LEMMA AdvanceRows ==
    ASSUME NEW gens \in Seq(Generation), NEW g \in 1..Len(gens), NEW n \in Nat,
           NEW new, new = [gens EXCEPT ![g].lastSequence = n]
    PROVE  /\ new \in Seq(Generation)
           /\ Len(new) = Len(gens)
           /\ \A h \in 1..Len(gens) :
                /\ new[h].status = gens[h].status
                /\ new[h].lastSequence = IF h = g THEN n ELSE gens[h].lastSequence
<1>1. \A h \in 1..Len(gens) : gens[h] \in Generation
  OBVIOUS
<1>2. \A h \in 1..Len(gens) :
        /\ new[h] \in Generation
        /\ new[h].status = gens[h].status
        /\ new[h].lastSequence = IF h = g THEN n ELSE gens[h].lastSequence
  BY <1>1 DEF Generation
<1>3. new \in Seq(Generation) /\ Len(new) = Len(gens)
  BY <1>1, <1>2
<1> QED
  BY <1>2, <1>3

\* Every frame a worker can send is a frame.
LEMMA FramesAreFrames ==
    TypeOK => Frames \subseteq Frame
BY PayloadsAssumption, BoundsAssumption DEF TypeOK, Deployment, Frames, Frame

-----------------------------------------------------------------------------
(* Types *)

\* Tables that are empty have the declared shapes.
LEMMA InitType == Init => TypeOK
<1> SUFFICES ASSUME Init PROVE TypeOK
  OBVIOUS
<1>1. deployment \in Deployment
  BY DEF Init, Deployment, NoRow
<1>2. checkpoints \in CheckpointRows
  BY NoCheckpointsRows DEF Init
<1> QED
  BY <1>1, <1>2 DEF Init, TypeOK

\* A deploy command, at any of its steps, keeps the shape of every row.
LEMMA DeployCommandType ==
    ASSUME TypeOK, NEW b \in Builders, DeployCommand(b)
    PROVE  TypeOK'
<1>1. CASE StartBuild(b)
  <2>1. \/ builds' = [builds EXCEPT ![b] =
                [id |-> 0, expected |-> None, base |-> None]]
        \/ \E base \in {deployment.state, None} :
                builds' = [builds EXCEPT ![b] =
                    [id |-> deployment.id,
                     expected |-> deployment.stateRevision, base |-> base]]
    BY <1>1 DEF StartBuild
  <2>2. builds' \in [Builders -> Build \cup {None}]
    BY <2>1 DEF TypeOK, Build, Deployment
  <2> QED
    BY <1>1, <2>2 DEF StartBuild, TypeOK, rows, daemonVars, history
<1>2. ASSUME NEW artifact \in Artifacts, NEW config \in Configs,
             NEW state \in States, NEW expiry \in Expiries,
             DeployNew(b, artifact, config, state, expiry)
      PROVE  TypeOK'
  <2>1. deployment' \in Deployment
    BY <1>2, ExpiriesAssumption DEF DeployNew, NewId, TypeOK, Deployment
  <2> QED
    BY <1>2, <2>1 DEF DeployNew, TypeOK, daemonVars
<1>3. ASSUME NEW artifact \in Artifacts, NEW config \in Configs,
             NEW state \in States, NEW expiry \in Expiries,
             Redeploy(b, artifact, config, state, expiry)
      PROVE  TypeOK'
  <2>1. deployment' \in Deployment
    <3>1. /\ deployment.id \in Nat /\ deployment.configRevision \in Nat
          /\ deployment.stateRevision \in Nat /\ deployment.destination \in Nat
      BY DEF TypeOK, Deployment
    <3> QED
      BY <1>3, <3>1, ExpiriesAssumption DEF Redeploy, ReplaceDeployment, Deployment
  <2>2. generations' \in Seq(Generation) /\ fencedThrough' \in Nat
    BY <1>3, RetireAllRows DEF Redeploy, ReplaceDeployment, TypeOK, Fence
  <2> QED
    BY <1>3, <2>1, <2>2 DEF Redeploy, ReplaceDeployment, TypeOK, daemonVars
<1>4. CASE DeployRefused(b)
  BY <1>4 DEF DeployRefused, TypeOK, rows, daemonVars, history
<1> QED
  BY <1>1, <1>2, <1>3, <1>4 DEF DeployCommand

\* So does each operator command.
LEMMA OperatorCommandType ==
    ASSUME TypeOK, OperatorCommand
    PROVE  TypeOK'
<1>1. /\ deployment \in Deployment
      /\ RetireAll(generations) \in Seq(Generation)
      /\ Len(generations) \in Nat
  BY RetireAllRows DEF TypeOK
<1>2. CASE PauseDeployment
  <2>1. deployment' \in Deployment
    BY <1>1, <1>2 DEF PauseDeployment, Deployment
  <2> QED
    BY <1>1, <1>2, <2>1 DEF PauseDeployment, TypeOK, Fence, daemonVars
<1>3. ASSUME NEW expiry \in Expiries, ResumeDeployment(expiry)
      PROVE  TypeOK'
  <2>1. deployment' \in Deployment
    BY <1>1, <1>3, ExpiriesAssumption DEF ResumeDeployment, Deployment
  <2> QED
    BY <1>3, <2>1 DEF ResumeDeployment, TypeOK, daemonVars, history
<1>4. CASE ArchiveDeployment
  <2>1. deployment' \in Deployment
    BY <1>1, <1>4 DEF ArchiveDeployment, Deployment
  <2> QED
    BY <1>1, <1>4, <2>1 DEF ArchiveDeployment, TypeOK, Fence, daemonVars
<1>5. CASE PurgeDeployment
  <2>1. deployment' \in Deployment
    BY <1>1, <1>5 DEF PurgeDeployment, NoRow, Deployment
  <2> QED
    BY <1>5, <2>1, NoCheckpointsRows DEF PurgeDeployment, TypeOK, daemonVars
<1>6. ASSUME NEW base \in 0..MaxRevision, NEW state \in States,
             ReplaceState(base, state)
      PROVE  TypeOK'
  <2>1. deployment' \in Deployment
    <3>1. PICK n \in Nat : n = deployment.stateRevision + 1
      BY <1>1 DEF Deployment
    <3>2. deployment' = [deployment EXCEPT
            !.state = state, !.stateRevision = n, !.activeGeneration = 0]
      BY <1>6, <3>1 DEF ReplaceState
    <3> QED
      BY <1>1, <3>2 DEF Deployment
  <2> QED
    BY <1>1, <1>6, <2>1 DEF ReplaceState, TypeOK, Fence, daemonVars
<1>7. CASE ClearCheckpoints
  <2>1. deployment' \in Deployment
    BY <1>1, <1>7 DEF ClearCheckpoints, Deployment
  <2> QED
    BY <1>1, <1>7, <2>1, NoCheckpointsRows
    DEF ClearCheckpoints, TypeOK, Fence, daemonVars
<1> QED
  BY <1>2, <1>3, <1>4, <1>5, <1>6, <1>7 DEF OperatorCommand

\* So does each step of the daemon; activation and stopping index generations
\* that the fence shows to exist.
LEMMA DaemonStepType ==
    ASSUME TypeOK, FenceConsistent, DaemonStep
    PROVE  TypeOK'
<1>1. /\ deployment \in Deployment
      /\ generations \in Seq(Generation)
      /\ RetireAll(generations) \in Seq(Generation)
      /\ Len(generations) \in Nat
  BY RetireAllRows DEF TypeOK
<1>2. CASE DeactivateDueDeployments
  <2>1. deployment' \in Deployment
    BY <1>1, <1>2 DEF DeactivateDueDeployments, Deployment
  <2> QED
    BY <1>1, <1>2, <2>1 DEF DeactivateDueDeployments, TypeOK, Fence, daemonVars
<1>3. CASE RecoverGenerations
  <2>1. deployment' \in Deployment
    BY <1>1, <1>3 DEF RecoverGenerations, Deployment
  <2> QED
    BY <1>1, <1>3, <2>1 DEF RecoverGenerations, TypeOK, Fence
<1>4. CASE ListRuntimeMetadata
  <2>1. listed' \in Listing
    BY <1>1, <1>4 DEF ListRuntimeMetadata, Listing, Deployment
  <2> QED
    BY <1>4, <2>1 DEF ListRuntimeMetadata, TypeOK, rows, history
<1>5. CASE GetRuntimeDeployment
  <2>1. RuntimeDeployment \in Snapshot
    BY <1>1 DEF RuntimeDeployment, Snapshot, Deployment, TypeOK
  <2> QED
    BY <1>5, <2>1 DEF GetRuntimeDeployment, TypeOK, rows, history
<1>6. CASE ActivateGeneration
  <2> DEFINE old == IF deployment.activeGeneration > 0
                    THEN Retire(generations, deployment.activeGeneration)
                    ELSE generations
             new == [status |-> "active", lastSequence |-> 0]
  <2>1. old \in Seq(Generation)
    <3>1. deployment.activeGeneration > 0 =>
                deployment.activeGeneration \in 1..Len(generations)
      BY <1>1 DEF FenceConsistent, Deployment
    <3> QED
      BY <1>1, <3>1, RetireRows
  <2>2. new \in Generation
    BY DEF Generation
  <2>3. generations' \in Seq(Generation)
    BY <1>6, <2>1, <2>2 DEF ActivateGeneration
  <2>4. deployment' = [deployment EXCEPT !.activeGeneration = Len(generations) + 1]
    BY <1>6 DEF ActivateGeneration
  <2>5. deployment' \in Deployment
    BY <1>1, <2>4 DEF Deployment
  <2> QED
    BY <1>1, <1>6, <2>3, <2>5 DEF ActivateGeneration, TypeOK, Fence
<1>7. CASE ActivationRefused
  BY <1>7 DEF ActivationRefused, TypeOK, rows, history
<1>8. ASSUME NEW g \in 1..Len(generations), MarkGenerationStopped(g)
      PROVE  TypeOK'
  <2>1. generations' \in Seq(Generation) /\ fencedThrough' \in Nat
    BY <1>1, <1>8, RetireRows DEF MarkGenerationStopped, TypeOK
  <2> QED
    BY <1>8, <2>1 DEF MarkGenerationStopped, TypeOK, daemonVars
<1>9. CASE PruneTerminalOutbox
  BY <1>9 DEF PruneTerminalOutbox, TypeOK, daemonVars, history
<1>10. CASE PruneRetiredTransactions
  BY <1>10 DEF PruneRetiredTransactions, TypeOK, daemonVars, history
<1> QED
  BY <1>2, <1>3, <1>4, <1>5, <1>6, <1>7, <1>8, <1>9, <1>10 DEF DaemonStep

\* A worker's step either applies the frame, and then every fence check passed,
\* or finds it in the ledger and changes nothing.
LEMMA WorkerStepType ==
    ASSUME TypeOK, FenceConsistent, WorkerStep
    PROVE  TypeOK'
<1>1. PICK frame \in Frames, destination \in 1..deployment.destination :
            ApplyTransaction(frame, destination)
  BY DEF WorkerStep
<1>2. /\ deployment \in Deployment
      /\ generations \in Seq(Generation)
      /\ frame \in Frame
      /\ frame.payload \in Payload
      /\ destination \in Nat
  BY FramesAreFrames DEF TypeOK, Frame, Deployment
<1>3. CASE CommitFrame(frame, destination)
  <2>1. frame.generation \in 1..Len(generations) /\ frame.sequence \in Nat
    BY <1>2, <1>3 DEF CommitFrame, Admitted, FenceConsistent, Deployment, Frame
  <2>2. generations' \in Seq(Generation)
    BY <1>2, <1>3, <2>1, AdvanceRows DEF CommitFrame
  <2>3. deployment' \in Deployment
    <3>1. PICK n \in Nat : n = deployment.stateRevision + 1
      BY <1>2 DEF Deployment
    <3>2. deployment' = [deployment EXCEPT
            !.state = frame.payload.state, !.stateRevision = n]
      BY <1>3, <3>1 DEF CommitFrame
    <3>3. frame.payload.state \in States
      BY <1>2 DEF Payload
    <3> QED
      BY <1>2, <3>2, <3>3 DEF Deployment
  <2>4. ack' \in LedgerRow
    BY <1>2, <1>3 DEF CommitFrame, LedgerRow, Deployment
  <2>5. checkpoints' \in CheckpointRows
    BY <1>2, <1>3, UpsertRows DEF CommitFrame, TypeOK, Payload
  <2>6. events' \subseteq EventRow
    <3>1. NewEvents(frame) \subseteq Event
      BY <1>2 DEF NewEvents, Payload
    <3>2. \A e \in NewEvents(frame) :
            [event |-> e, generation |-> frame.generation,
             sequence |-> frame.sequence, destination |-> destination] \in EventRow
      BY <1>2, <3>1 DEF EventRow, Frame
    <3> QED
      BY <1>3, <3>2 DEF CommitFrame, TypeOK
  <2>7. transactions' \subseteq LedgerRow /\ commits' \in Seq(LedgerRow)
    BY <1>3, <2>4 DEF CommitFrame, TypeOK
  <2> QED
    BY <1>3, <2>2, <2>3, <2>4, <2>5, <2>6, <2>7
    DEF CommitFrame, TypeOK, daemonVars
<1>4. CASE ReplayFrame(frame)
  BY <1>4 DEF ReplayFrame, Stored, TypeOK, rows, daemonVars, history
<1> QED
  BY <1>1, <1>3, <1>4 DEF ApplyTransaction

-----------------------------------------------------------------------------
(* Fencing *)

\* What a step that retires every generation leaves behind satisfies the fence
\* rules, whatever else it does to the row.
LEMMA RetiredIsConsistent ==
    ASSUME TypeOK, generations' = RetireAll(generations),
           deployment'.activeGeneration \in {0, Len(generations)}
    PROVE  FenceConsistent'
<1>1. /\ Len(generations') = Len(generations)
      /\ \A g \in 1..Len(generations) : generations'[g].status = "retired"
  BY RetireAllRows DEF TypeOK
<1> QED
  BY <1>1 DEF FenceConsistent

\* A step that touches neither half of the fence keeps the halves in agreement.
LEMMA UnchangedIsConsistent ==
    ASSUME FenceConsistent, UNCHANGED <<deployment, generations>>
    PROVE  FenceConsistent'
BY DEF FenceConsistent

\* A deploy retires what may write in the step that replaces the row.
LEMMA DeployCommandFence ==
    ASSUME TypeOK, FenceConsistent, NEW b \in Builders, DeployCommand(b)
    PROVE  FenceConsistent'
<1>1. CASE StartBuild(b) \/ DeployRefused(b)
  BY <1>1, UnchangedIsConsistent DEF StartBuild, DeployRefused, rows
<1>2. ASSUME NEW artifact \in Artifacts, NEW config \in Configs,
             NEW state \in States, NEW expiry \in Expiries,
             DeployNew(b, artifact, config, state, expiry)
      PROVE  FenceConsistent'
  BY <1>2 DEF DeployNew, FenceConsistent
<1>3. ASSUME NEW artifact \in Artifacts, NEW config \in Configs,
             NEW state \in States, NEW expiry \in Expiries,
             Redeploy(b, artifact, config, state, expiry)
      PROVE  FenceConsistent'
  BY <1>3, RetiredIsConsistent DEF Redeploy, ReplaceDeployment
<1> QED
  BY <1>1, <1>2, <1>3 DEF DeployCommand

\* Each operator command that clears the row's generation retires it too.
LEMMA OperatorCommandFence ==
    ASSUME TypeOK, FenceConsistent, OperatorCommand
    PROVE  FenceConsistent'
<1>1. deployment \in Deployment
  BY DEF TypeOK
<1>2. CASE PauseDeployment
  <2>1. deployment'.activeGeneration = 0
    BY <1>1, <1>2 DEF PauseDeployment, Deployment
  <2> QED
    BY <1>2, <2>1, RetiredIsConsistent DEF PauseDeployment
<1>3. ASSUME NEW expiry \in Expiries, ResumeDeployment(expiry)
      PROVE  FenceConsistent'
  <2>1. deployment'.activeGeneration = 0
    BY <1>1, <1>3 DEF ResumeDeployment, Deployment
  <2> QED
    BY <1>3, <2>1 DEF ResumeDeployment, FenceConsistent
<1>4. CASE ArchiveDeployment
  <2>1. deployment'.activeGeneration = deployment.activeGeneration
    BY <1>1, <1>4 DEF ArchiveDeployment, Deployment
  <2> QED
    BY <1>4, <2>1, RetiredIsConsistent DEF ArchiveDeployment, FenceConsistent
<1>5. CASE PurgeDeployment
  <2>1. deployment'.activeGeneration = 0 /\ Len(generations') = 0
    BY <1>5 DEF PurgeDeployment, NoRow
  <2> QED
    BY <2>1 DEF FenceConsistent
<1>6. ASSUME NEW base \in 0..MaxRevision, NEW state \in States,
             ReplaceState(base, state)
      PROVE  FenceConsistent'
  <2>1. deployment'.activeGeneration = 0
    BY <1>1, <1>6 DEF ReplaceState, Deployment
  <2> QED
    BY <1>6, <2>1, RetiredIsConsistent DEF ReplaceState
<1>7. CASE ClearCheckpoints
  <2>1. deployment'.activeGeneration = 0
    BY <1>1, <1>7 DEF ClearCheckpoints, Deployment
  <2> QED
    BY <1>7, <2>1, RetiredIsConsistent DEF ClearCheckpoints
<1> QED
  BY <1>2, <1>3, <1>4, <1>5, <1>6, <1>7 DEF OperatorCommand

\* An activation retires the generation the row names before it adds its own,
\* and the row names every generation that is not retired.
LEMMA ActivateGenerationRows ==
    ASSUME TypeOK, FenceConsistent, ActivateGeneration
    PROVE  /\ Len(generations') = Len(generations) + 1
           /\ generations'[Len(generations')].status = "active"
           /\ generations'[Len(generations')].lastSequence = 0
           /\ \A g \in 1..Len(generations) :
                /\ generations'[g].status = "retired"
                /\ generations'[g].lastSequence = generations[g].lastSequence
           /\ deployment' = [deployment EXCEPT
                !.activeGeneration = Len(generations) + 1]
           /\ deployment.status = "active"
<1> DEFINE named == deployment.activeGeneration
           old == IF named > 0 THEN Retire(generations, named) ELSE generations
           new == [status |-> "active", lastSequence |-> 0]
<1>1. generations \in Seq(Generation) /\ named \in Nat
  BY DEF TypeOK, Deployment
<1>2. named > 0 => named \in 1..Len(generations)
  BY <1>1 DEF FenceConsistent
<1>3. old \in Seq(Generation) /\ Len(old) = Len(generations)
  BY <1>1, <1>2, RetireRows
<1>4. \A g \in 1..Len(generations) :
        /\ old[g].status = "retired"
        /\ old[g].lastSequence = generations[g].lastSequence
  <2> TAKE g \in 1..Len(generations)
  <2>1. generations[g] \in Generation
    BY <1>1
  <2>2. generations[g].status = "retired" \/ g = named
    BY <2>1 DEF FenceConsistent, Generation
  <2> QED
    BY <1>1, <1>2, <2>2, RetireRows
<1>5. generations' = Append(old, new)
  BY DEF ActivateGeneration
<1> HIDE DEF old
<1>6. /\ Len(generations') = Len(generations) + 1
      /\ generations'[Len(generations) + 1] = new
      /\ \A g \in 1..Len(generations) : generations'[g] = old[g]
  BY <1>1, <1>3, <1>5
<1> QED
  BY <1>4, <1>6 DEF ActivateGeneration, SnapshotCurrent

\* Expiry, recovery, activation and stopping move both halves together.
LEMMA DaemonStepFence ==
    ASSUME TypeOK, FenceConsistent, DaemonStep
    PROVE  FenceConsistent'
<1>1. deployment \in Deployment /\ generations \in Seq(Generation)
  BY DEF TypeOK
<1>2. CASE DeactivateDueDeployments
  <2>1. deployment'.activeGeneration = 0
    BY <1>1, <1>2 DEF DeactivateDueDeployments, Deployment
  <2> QED
    BY <1>2, <2>1, RetiredIsConsistent DEF DeactivateDueDeployments
<1>3. CASE RecoverGenerations
  <2>1. deployment'.activeGeneration \in {0, deployment.activeGeneration}
    BY <1>1, <1>3 DEF RecoverGenerations, Deployment
  <2> QED
    BY <1>3, <2>1, RetiredIsConsistent DEF RecoverGenerations, FenceConsistent
<1>4. CASE ListRuntimeMetadata \/ GetRuntimeDeployment \/ ActivationRefused
  BY <1>4, UnchangedIsConsistent
  DEF ListRuntimeMetadata, GetRuntimeDeployment, ActivationRefused, rows
<1>5. CASE ActivateGeneration
  <2>1. /\ deployment'.activeGeneration = Len(generations) + 1
        /\ deployment'.status = "active"
    BY <1>1, <1>5, ActivateGenerationRows DEF Deployment
  <2>2. \A g \in 1..Len(generations') :
            generations'[g].status = "active" => g = Len(generations')
    BY <1>1, <1>5, ActivateGenerationRows
  <2> QED
    BY <1>1, <1>5, <2>1, <2>2, ActivateGenerationRows DEF FenceConsistent
<1>6. ASSUME NEW g \in 1..Len(generations), MarkGenerationStopped(g)
      PROVE  FenceConsistent'
  BY <1>1, <1>6, RetireRows DEF MarkGenerationStopped, FenceConsistent
<1>7. CASE PruneTerminalOutbox \/ PruneRetiredTransactions
  BY <1>7, UnchangedIsConsistent DEF PruneTerminalOutbox, PruneRetiredTransactions
<1> QED
  BY <1>2, <1>3, <1>4, <1>5, <1>6, <1>7 DEF DaemonStep

\* A commit comes from the newest generation, which is not retired, and moves
\* the row's revision and that generation's sequence by one.
LEMMA CommitFrameRows ==
    ASSUME TypeOK, FenceConsistent,
           NEW frame \in Frame, NEW destination, CommitFrame(frame, destination)
    PROVE  /\ frame.generation = Len(generations)
           /\ frame.generation \in 1..Len(generations)
           /\ deployment.activeGeneration = frame.generation
           /\ generations[frame.generation].status = "active"
           /\ deployment.status = "active"
           /\ Len(generations') = Len(generations)
           /\ \A g \in 1..Len(generations) :
                /\ generations'[g].status = generations[g].status
                /\ generations'[g].lastSequence =
                        IF g = frame.generation THEN frame.sequence
                        ELSE generations[g].lastSequence
           /\ deployment'.id = deployment.id
           /\ deployment'.status = deployment.status
           /\ deployment'.activeGeneration = deployment.activeGeneration
           /\ deployment'.state = frame.payload.state
           /\ deployment'.stateRevision = deployment.stateRevision + 1
<1>1. generations \in Seq(Generation) /\ deployment \in Deployment
  BY DEF TypeOK
<1>2. /\ frame.generation = Len(generations)
      /\ frame.generation \in 1..Len(generations)
      /\ deployment.activeGeneration = frame.generation
      /\ generations[frame.generation].status = "active"
      /\ deployment.status = "active"
  BY <1>1 DEF CommitFrame, Admitted, FenceConsistent, Deployment, Frame
<1>3. /\ Len(generations') = Len(generations)
      /\ \A g \in 1..Len(generations) :
            /\ generations'[g].status = generations[g].status
            /\ generations'[g].lastSequence =
                    IF g = frame.generation THEN frame.sequence
                    ELSE generations[g].lastSequence
  BY <1>1, <1>2, AdvanceRows DEF CommitFrame, Frame
<1>4. deployment' = [deployment EXCEPT
            !.state = frame.payload.state, !.stateRevision = @ + 1]
  BY DEF CommitFrame
<1>5. /\ deployment'.id = deployment.id
      /\ deployment'.status = deployment.status
      /\ deployment'.activeGeneration = deployment.activeGeneration
      /\ deployment'.state = frame.payload.state
      /\ deployment'.stateRevision = deployment.stateRevision + 1
  BY <1>1, <1>4 DEF Deployment
<1> QED
  BY <1>2, <1>3, <1>5

\* A frame moves a sequence and a revision, never the fence.
LEMMA WorkerStepFence ==
    ASSUME TypeOK, FenceConsistent, WorkerStep
    PROVE  FenceConsistent'
<1>1. PICK frame \in Frame, destination \in Nat :
            CommitFrame(frame, destination) \/ ReplayFrame(frame)
  BY FramesAreFrames DEF WorkerStep, ApplyTransaction
<1>2. CASE CommitFrame(frame, destination)
  BY <1>2, CommitFrameRows DEF FenceConsistent
<1>3. CASE ReplayFrame(frame)
  BY <1>3, UnchangedIsConsistent DEF ReplayFrame, rows
<1> QED
  BY <1>1, <1>2, <1>3

\* The types and the fence rules are preserved together: a sequence of
\* generations stays one only while the row names none that was never issued.
LEMMA FenceStep ==
    ASSUME TypeOK, FenceConsistent, [Next]_storeVars
    PROVE  TypeOK' /\ FenceConsistent'
<1>1. CASE UNCHANGED storeVars
  BY <1>1 DEF storeVars, rows, daemonVars, history, TypeOK, FenceConsistent
<1>2. CASE ExpiryPasses
  <2>1. deployment' \in Deployment
    BY <1>2 DEF ExpiryPasses, TypeOK, Deployment
  <2>2. /\ deployment'.activeGeneration = deployment.activeGeneration
        /\ deployment'.status = deployment.status
    BY <1>2 DEF ExpiryPasses, TypeOK, Deployment
  <2> QED
    BY <1>2, <2>1, <2>2
    DEF ExpiryPasses, TypeOK, FenceConsistent, daemonVars, history
<1>3. CASE \E b \in Builders : DeployCommand(b)
  BY <1>3, DeployCommandType, DeployCommandFence
<1>4. CASE OperatorCommand
  BY <1>4, OperatorCommandType, OperatorCommandFence
<1>5. CASE DaemonStep
  BY <1>5, DaemonStepType, DaemonStepFence
<1>6. CASE WorkerStep
  BY <1>6, WorkerStepType, WorkerStepFence
<1> QED
  BY <1>1, <1>2, <1>3, <1>4, <1>5, <1>6 DEF Next

\* No generation exists at first, so none may write.
LEMMA InitFence == Init => FenceConsistent
BY DEF Init, NoRow, FenceConsistent

-----------------------------------------------------------------------------
(* What was applied *)

\* No step but a commit adds to what was applied, and a commit passed the fence.
LEMMA CommitStep ==
    ASSUME TypeOK, [Next]_storeVars
    PROVE  \/ commits' = commits
           \/ \E frame \in Frame, destination \in Nat :
                CommitFrame(frame, destination)
<1>1. CASE UNCHANGED storeVars
  BY <1>1 DEF storeVars, history
<1>2. CASE \E b \in Builders : DeployCommand(b)
  BY <1>2
  DEF DeployCommand, StartBuild, DeployNew, Redeploy, ReplaceDeployment, DeployRefused, history
<1>3. CASE OperatorCommand
  BY <1>3
  DEF OperatorCommand, PauseDeployment, ResumeDeployment, ArchiveDeployment,
      PurgeDeployment, ReplaceState, ClearCheckpoints, history
<1>4. CASE ExpiryPasses
  BY <1>4 DEF ExpiryPasses, history
<1>5. CASE DaemonStep
  BY <1>5
  DEF DaemonStep, DeactivateDueDeployments, RecoverGenerations,
      ListRuntimeMetadata, GetRuntimeDeployment, ActivateGeneration,
      ActivationRefused, MarkGenerationStopped, PruneTerminalOutbox,
      PruneRetiredTransactions, history
<1>6. CASE WorkerStep
  BY <1>6, FramesAreFrames DEF WorkerStep, ApplyTransaction, ReplayFrame, history
<1> QED
  BY <1>1, <1>2, <1>3, <1>4, <1>5, <1>6 DEF Next

\* The row never goes back: it is created anew under another id, purged, or its
\* revision, its generations and their sequences only grow.
RowsAdvance ==
    \/ deployment'.id = deployment.id + 1
    \/ deployment'.id = deployment.id /\ deployment'.status = "none"
    \/ /\ deployment'.id = deployment.id
       /\ deployment.status # "none"
       /\ deployment'.stateRevision >= deployment.stateRevision
       /\ Len(generations') >= Len(generations)
       /\ \A g \in 1..Len(generations) :
            generations'[g].lastSequence >= generations[g].lastSequence

\* A step that leaves the row and its generations alone moves neither backwards.
LEMMA UnchangedAdvances ==
    ASSUME TypeOK, UNCHANGED deployment, UNCHANGED generations
    PROVE  RowsAdvance
<1>1. /\ deployment \in Deployment
      /\ \A g \in 1..Len(generations) : generations[g] \in Generation
      /\ Len(generations) \in Nat
  BY DEF TypeOK
<1> QED
  BY <1>1 DEF RowsAdvance, Deployment, Generation

\* A step that only retires generations advances the row if it keeps the id.
LEMMA RetiredAdvances ==
    ASSUME TypeOK, generations' = RetireAll(generations),
           deployment'.id = deployment.id, deployment.status # "none",
           deployment'.stateRevision >= deployment.stateRevision
    PROVE  RowsAdvance
<1>1. /\ generations \in Seq(Generation)
      /\ \A g \in 1..Len(generations) : generations[g] \in Generation
      /\ Len(generations) \in Nat
  BY DEF TypeOK
<1> QED
  BY <1>1, RetireAllRows DEF RowsAdvance, Generation

\* A deploy adds a row with a new id or advances the one that exists.
LEMMA DeployCommandAdvances ==
    ASSUME TypeOK, NEW b \in Builders, DeployCommand(b)
    PROVE  RowsAdvance
<1>1. CASE StartBuild(b) \/ DeployRefused(b)
  BY <1>1, UnchangedAdvances DEF StartBuild, DeployRefused, rows
<1>2. ASSUME NEW artifact \in Artifacts, NEW config \in Configs,
             NEW state \in States, NEW expiry \in Expiries,
             DeployNew(b, artifact, config, state, expiry)
      PROVE  RowsAdvance
  BY <1>2 DEF DeployNew, NewId, RowsAdvance
<1>3. ASSUME NEW artifact \in Artifacts, NEW config \in Configs,
             NEW state \in States, NEW expiry \in Expiries,
             Redeploy(b, artifact, config, state, expiry)
      PROVE  RowsAdvance
  <2>1. deployment.stateRevision \in Nat
    BY DEF TypeOK, Deployment
  <2>2. /\ deployment'.id = deployment.id
        /\ deployment.status # "none"
        /\ deployment'.stateRevision = deployment.stateRevision + 1
    BY <1>3 DEF Redeploy, ReplaceDeployment
  <2> QED
    BY <1>3, <2>1, <2>2, RetiredAdvances DEF Redeploy, ReplaceDeployment
<1> QED
  BY <1>1, <1>2, <1>3 DEF DeployCommand

\* No operator command takes a row's revision or a sequence back; a purge takes
\* the row itself away and keeps its id from being used again.
LEMMA OperatorCommandAdvances ==
    ASSUME TypeOK, OperatorCommand
    PROVE  RowsAdvance
<1>1. /\ deployment \in Deployment
      /\ deployment.stateRevision \in Nat
      /\ deployment.stateRevision >= deployment.stateRevision
  BY DEF TypeOK, Deployment
<1>2. CASE PauseDeployment
  <2>1. deployment'.id = deployment.id
        /\ deployment'.stateRevision = deployment.stateRevision
    BY <1>1, <1>2 DEF PauseDeployment, Deployment
  <2> QED
    BY <1>1, <1>2, <2>1, RetiredAdvances DEF PauseDeployment
<1>3. ASSUME NEW expiry \in Expiries, ResumeDeployment(expiry)
      PROVE  RowsAdvance
  <2>1. deployment'.id = deployment.id
        /\ deployment'.stateRevision = deployment.stateRevision
    BY <1>1, <1>3 DEF ResumeDeployment, Deployment
  <2>2. /\ \A g \in 1..Len(generations) : generations[g] \in Generation
        /\ Len(generations) \in Nat
    BY DEF TypeOK
  <2> QED
    BY <1>1, <1>3, <2>1, <2>2 DEF ResumeDeployment, RowsAdvance, Generation
<1>4. CASE ArchiveDeployment
  <2>1. deployment'.id = deployment.id
        /\ deployment'.stateRevision = deployment.stateRevision
    BY <1>1, <1>4 DEF ArchiveDeployment, Deployment
  <2> QED
    BY <1>1, <1>4, <2>1, RetiredAdvances DEF ArchiveDeployment
<1>5. CASE PurgeDeployment
  <2>1. deployment'.id = deployment.id /\ deployment'.status = "none"
    BY <1>5 DEF PurgeDeployment, NoRow
  <2> QED
    BY <2>1 DEF RowsAdvance
<1>6. ASSUME NEW base \in 0..MaxRevision, NEW state \in States,
             ReplaceState(base, state)
      PROVE  RowsAdvance
  <2>1. deployment'.id = deployment.id
        /\ deployment'.stateRevision = deployment.stateRevision + 1
    BY <1>1, <1>6 DEF ReplaceState, Deployment
  <2> QED
    BY <1>1, <1>6, <2>1, RetiredAdvances DEF ReplaceState
<1>7. CASE ClearCheckpoints
  <2>1. deployment'.id = deployment.id
        /\ deployment'.stateRevision = deployment.stateRevision
    BY <1>1, <1>7 DEF ClearCheckpoints, Deployment
  <2> QED
    BY <1>1, <1>7, <2>1, RetiredAdvances DEF ClearCheckpoints
<1> QED
  BY <1>2, <1>3, <1>4, <1>5, <1>6, <1>7 DEF OperatorCommand

\* No step of the daemon takes a revision, a generation or a sequence back.
LEMMA DaemonStepAdvances ==
    ASSUME TypeOK, FenceConsistent, DaemonStep
    PROVE  RowsAdvance
<1>1. /\ deployment \in Deployment
      /\ deployment.stateRevision \in Nat
      /\ deployment.stateRevision >= deployment.stateRevision
      /\ generations \in Seq(Generation)
      /\ \A g \in 1..Len(generations) :
            generations[g].lastSequence >= generations[g].lastSequence
      /\ Len(generations) >= Len(generations)
  <2>1. deployment \in Deployment /\ deployment.stateRevision \in Nat
    BY DEF TypeOK, Deployment
  <2>2. /\ generations \in Seq(Generation)
        /\ Len(generations) \in Nat
        /\ \A g \in 1..Len(generations) : generations[g] \in Generation
    BY DEF TypeOK
  <2> QED
    BY <2>1, <2>2 DEF Generation
<1>2. CASE DeactivateDueDeployments
  <2>1. deployment'.id = deployment.id
        /\ deployment'.stateRevision = deployment.stateRevision
    BY <1>1, <1>2 DEF DeactivateDueDeployments, Deployment
  <2> QED
    BY <1>1, <1>2, <2>1, RetiredAdvances DEF DeactivateDueDeployments
<1>3. CASE RecoverGenerations
  <2>1. /\ deployment'.id = deployment.id
        /\ deployment'.stateRevision = deployment.stateRevision
        /\ deployment'.status = deployment.status
    BY <1>1, <1>3 DEF RecoverGenerations, Deployment
  <2>2. CASE deployment.status = "none"
    BY <2>1, <2>2 DEF RowsAdvance
  <2>3. CASE deployment.status # "none"
    BY <1>1, <1>3, <2>1, <2>3, RetiredAdvances DEF RecoverGenerations
  <2> QED
    BY <2>2, <2>3
<1>4. CASE ListRuntimeMetadata \/ GetRuntimeDeployment \/ ActivationRefused
  BY <1>4, UnchangedAdvances
  DEF ListRuntimeMetadata, GetRuntimeDeployment, ActivationRefused, rows
<1>5. CASE ActivateGeneration
  <2>1. deployment'.id = deployment.id
        /\ deployment'.stateRevision = deployment.stateRevision
    BY <1>1, <1>5, ActivateGenerationRows DEF Deployment
  <2> QED
    BY <1>1, <1>5, <2>1, ActivateGenerationRows DEF RowsAdvance
<1>6. ASSUME NEW g \in 1..Len(generations), MarkGenerationStopped(g)
      PROVE  RowsAdvance
  <2>1. UNCHANGED deployment
    BY <1>6 DEF MarkGenerationStopped
  <2>2. /\ Len(generations') = Len(generations)
        /\ \A h \in 1..Len(generations) :
            generations'[h].lastSequence = generations[h].lastSequence
    BY <1>1, <1>6, RetireRows DEF MarkGenerationStopped
  <2>3. deployment.status = "none" \/ deployment.status # "none"
    OBVIOUS
  <2> QED
    BY <1>1, <2>1, <2>2, <2>3 DEF RowsAdvance
<1>7. CASE PruneTerminalOutbox \/ PruneRetiredTransactions
  BY <1>7, UnchangedAdvances DEF PruneTerminalOutbox, PruneRetiredTransactions
<1> QED
  BY <1>2, <1>3, <1>4, <1>5, <1>6, <1>7 DEF DaemonStep

\* Every step but a commit advances the row.
LEMMA StepAdvances ==
    ASSUME TypeOK, FenceConsistent, [Next]_storeVars
    PROVE  \/ RowsAdvance
           \/ \E frame \in Frame, destination \in Nat :
                CommitFrame(frame, destination)
<1>1. CASE UNCHANGED storeVars
  BY <1>1, UnchangedAdvances DEF storeVars, rows
<1>2. CASE ExpiryPasses
  <2>1. /\ deployment'.id = deployment.id
        /\ deployment'.stateRevision = deployment.stateRevision
        /\ deployment.status # "none"
    BY <1>2 DEF ExpiryPasses, TypeOK, Deployment
  <2>2. /\ \A g \in 1..Len(generations) : generations[g] \in Generation
        /\ Len(generations) \in Nat /\ deployment.stateRevision \in Nat
    BY DEF TypeOK, Deployment
  <2> QED
    BY <1>2, <2>1, <2>2 DEF ExpiryPasses, RowsAdvance, Generation
<1>3. CASE WorkerStep
  <2>1. PICK frame \in Frame, destination \in Nat :
            CommitFrame(frame, destination) \/ ReplayFrame(frame)
    BY <1>3, FramesAreFrames DEF WorkerStep, ApplyTransaction
  <2> QED
    BY <2>1, UnchangedAdvances DEF ReplayFrame, rows
<1> QED
  BY <1>1, <1>2, <1>3, DeployCommandAdvances, OperatorCommandAdvances,
     DaemonStepAdvances DEF Next

\* The bound on what was applied moves with the row.
LEMMA AdvanceKeepsBounds ==
    ASSUME TypeOK, TypeOK', CommitsBounded, RowsAdvance, commits' = commits
    PROVE  CommitsBounded'
<1> SUFFICES ASSUME NEW i \in 1..Len(commits)
             PROVE  /\ commits[i].frame.id <= deployment'.id
                    /\ /\ commits[i].frame.id = deployment'.id
                       /\ deployment'.status # "none"
                       => /\ commits[i].result <= deployment'.stateRevision
                          /\ commits[i].frame.generation \in 1..Len(generations')
                          /\ commits[i].frame.sequence <=
                                generations'[commits[i].frame.generation].lastSequence
  BY DEF CommitsBounded
<1> DEFINE c == commits[i]
           g == commits[i].frame.generation
<1>1. /\ c.frame.id \in Nat /\ g \in Nat /\ c.frame.sequence \in Nat
      /\ c.result \in Nat
  <2>1. c \in LedgerRow
    BY DEF TypeOK
  <2> QED
    BY <2>1 DEF LedgerRow, Frame
<1>2. /\ deployment.id \in Nat /\ deployment'.id \in Nat
      /\ deployment.stateRevision \in Nat /\ deployment'.stateRevision \in Nat
      /\ Len(generations) \in Nat /\ Len(generations') \in Nat
  BY DEF TypeOK, Deployment
<1>3. /\ c.frame.id <= deployment.id
      /\ c.frame.id = deployment.id /\ deployment.status # "none" =>
            /\ c.result <= deployment.stateRevision
            /\ g \in 1..Len(generations)
            /\ c.frame.sequence <= generations[g].lastSequence
  BY DEF CommitsBounded
<1>4. CASE deployment'.id = deployment.id + 1
  BY <1>1, <1>2, <1>3, <1>4
<1>5. CASE deployment'.id = deployment.id /\ deployment'.status = "none"
  BY <1>3, <1>5
<1>6. CASE /\ deployment'.id = deployment.id
           /\ deployment.status # "none"
           /\ deployment'.stateRevision >= deployment.stateRevision
           /\ Len(generations') >= Len(generations)
           /\ \A h \in 1..Len(generations) :
                generations'[h].lastSequence >= generations[h].lastSequence
  <2>1. c.frame.id <= deployment'.id
    BY <1>3, <1>6
  <2>2. ASSUME c.frame.id = deployment'.id
        PROVE  /\ c.result <= deployment'.stateRevision
               /\ g \in 1..Len(generations')
               /\ c.frame.sequence <= generations'[g].lastSequence
    <3>1. /\ c.result <= deployment.stateRevision
          /\ g \in 1..Len(generations)
          /\ c.frame.sequence <= generations[g].lastSequence
      BY <1>3, <1>6, <2>2
    <3>2. generations[g].lastSequence \in Nat /\ generations'[g].lastSequence \in Nat
      <4>1. generations[g] \in Generation /\ generations'[g] \in Generation
        BY <1>2, <1>6, <3>1 DEF TypeOK
      <4> QED
        BY <4>1 DEF Generation
    <3>3. generations'[g].lastSequence >= generations[g].lastSequence
      BY <1>6, <3>1
    <3>4. c.frame.sequence <= generations'[g].lastSequence
      BY <1>1, <3>1, <3>2, <3>3
    <3>5. c.result <= deployment'.stateRevision
      BY <1>1, <1>2, <1>6, <3>1
    <3>6. g \in 1..Len(generations')
      BY <1>1, <1>2, <1>6, <3>1
    <3> QED
      BY <3>4, <3>5, <3>6
  <2> QED
    BY <2>1, <2>2
<1> QED
  BY <1>4, <1>5, <1>6 DEF RowsAdvance

\* A commit is the newest thing applied, and extends the bound to itself.
LEMMA CommitKeepsBounds ==
    ASSUME TypeOK, FenceConsistent, CommitsBounded,
           NEW frame \in Frame, NEW destination, CommitFrame(frame, destination)
    PROVE  /\ commits' = Append(commits, [frame |-> frame,
                                          result |-> deployment.stateRevision + 1])
           /\ \A i \in 1..Len(commits) : commits[i].frame.id = frame.id =>
                /\ Precedes(commits[i].frame, frame)
                /\ commits[i].result <= frame.base
           /\ CommitsBounded'
<1> DEFINE new == [frame |-> frame, result |-> deployment.stateRevision + 1]
<1>1. /\ commits \in Seq(LedgerRow)
      /\ \A i \in 1..Len(commits) : commits[i] \in LedgerRow
      /\ Len(commits) \in Nat
      /\ deployment.id \in Nat /\ deployment.stateRevision \in Nat
      /\ frame.id \in Nat /\ frame.generation \in Nat /\ frame.sequence \in Nat
  BY DEF TypeOK, Deployment, Frame
<1>2. /\ commits' = Append(commits, new)
      /\ frame.id = deployment.id
      /\ frame.base = deployment.stateRevision
      /\ frame.sequence = generations[frame.generation].lastSequence + 1
  BY DEF CommitFrame, Admitted
<1>3. generations[frame.generation].lastSequence \in Nat
  <2>1. generations[frame.generation] \in Generation
    BY CommitFrameRows DEF TypeOK
  <2> QED
    BY <2>1 DEF Generation
<1>4. ASSUME NEW i \in 1..Len(commits)
      PROVE  /\ commits[i].frame.id <= deployment.id
             /\ commits[i].frame.id = frame.id =>
                  /\ commits[i].result <= deployment.stateRevision
                  /\ commits[i].frame.generation \in 1..Len(generations)
                  /\ commits[i].frame.sequence
                        <= generations[commits[i].frame.generation].lastSequence
                  /\ Precedes(commits[i].frame, frame)
  <2>1. commits[i].frame.generation \in Nat /\ commits[i].frame.sequence \in Nat
    BY <1>1 DEF LedgerRow, Frame
  <2>2. /\ commits[i].frame.id <= deployment.id
        /\ commits[i].frame.id = frame.id =>
             /\ commits[i].result <= deployment.stateRevision
             /\ commits[i].frame.generation \in 1..Len(generations)
             /\ commits[i].frame.sequence
                    <= generations[commits[i].frame.generation].lastSequence
    BY <1>2, CommitFrameRows DEF CommitsBounded
  <2>3. frame.generation = Len(generations) /\ Len(generations) \in Nat
    BY CommitFrameRows DEF TypeOK
  <2>4. ASSUME commits[i].frame.id = frame.id
        PROVE  Precedes(commits[i].frame, frame)
    <3>1. commits[i].frame.generation <= frame.generation
      BY <2>2, <2>3, <2>4
    <3>2. CASE commits[i].frame.generation = frame.generation
      <4>1. commits[i].frame.sequence <= generations[frame.generation].lastSequence
        BY <2>2, <2>4, <3>2
      <4> QED
        BY <1>2, <1>3, <2>1, <3>2, <4>1 DEF Precedes
    <3> QED
      BY <1>1, <2>1, <3>1, <3>2 DEF Precedes
  <2> QED
    BY <2>2, <2>4
<1>5. ASSUME NEW i \in 1..Len(commits')
      PROVE  /\ commits'[i].frame.id <= deployment'.id
             /\ commits'[i].frame.id = deployment'.id =>
                  /\ commits'[i].result <= deployment'.stateRevision
                  /\ commits'[i].frame.generation \in 1..Len(generations')
                  /\ commits'[i].frame.sequence
                        <= generations'[commits'[i].frame.generation].lastSequence
  <2>1. CASE i \in 1..Len(commits)
    <3>1. commits'[i] = commits[i]
      BY <1>1, <1>2, <2>1
    <3>2. /\ commits[i].result \in Nat
          /\ commits[i].frame.sequence \in Nat
      BY <1>1, <2>1 DEF LedgerRow, Frame
    <3>3. commits[i].frame.id = frame.id =>
            commits[i].frame.sequence
                <= generations'[commits[i].frame.generation].lastSequence
      <4>1. SUFFICES ASSUME commits[i].frame.id = frame.id
                     PROVE  commits[i].frame.sequence
                        <= generations'[commits[i].frame.generation].lastSequence
        OBVIOUS
      <4> DEFINE g == commits[i].frame.generation
      <4>2. /\ g \in 1..Len(generations)
            /\ commits[i].frame.sequence <= generations[g].lastSequence
        BY <1>4, <2>1, <4>1
      <4>3. generations'[g].lastSequence =
                IF g = frame.generation THEN frame.sequence
                ELSE generations[g].lastSequence
        BY <4>2, CommitFrameRows
      <4>4. commits[i].frame.sequence <= generations'[g].lastSequence
        <5> HIDE DEF g
        <5>1. CASE g = frame.generation
          BY <1>2, <1>3, <3>2, <4>2, <4>3, <5>1
        <5>2. CASE g # frame.generation
          BY <4>2, <4>3, <5>2
        <5> QED
          BY <5>1, <5>2
      <4> QED
        BY <4>4
    <3> QED
      BY <1>1, <1>2, <1>4, <2>1, <3>1, <3>2, <3>3, CommitFrameRows
  <2>2. CASE i = Len(commits) + 1
    <3>1. commits'[i] = new
      BY <1>1, <1>2, <2>2
    <3> QED
      BY <1>1, <1>2, <3>1, CommitFrameRows
  <2> QED
    BY <1>1, <1>2, <2>1, <2>2
<1>6. CommitsBounded'
  BY <1>5 DEF CommitsBounded
<1> QED
  BY <1>2, <1>4, <1>6

\* Applying in order: what a commit adds comes after all that its row has.
LEMMA OrderStep ==
    ASSUME TypeOK, TypeOK', FenceConsistent, CommitsBounded, AppliedOnceInOrder,
           [Next]_storeVars
    PROVE  CommitsBounded' /\ AppliedOnceInOrder'
<1>1. ASSUME NEW frame \in Frame, NEW destination, CommitFrame(frame, destination)
      PROVE  CommitsBounded' /\ AppliedOnceInOrder'
  <2>1. ASSUME NEW j \in 1..Len(commits'), NEW i \in 1..(j - 1),
               commits'[i].frame.id = commits'[j].frame.id
        PROVE  /\ Precedes(commits'[i].frame, commits'[j].frame)
               /\ commits'[i].result <= commits'[j].frame.base
    <3>1. commits \in Seq(LedgerRow) /\ Len(commits) \in Nat
      BY DEF TypeOK
    <3>0. PICK new : new.frame = frame /\ commits' = Append(commits, new)
      BY <1>1 DEF CommitFrame
    <3>2. /\ Len(commits') = Len(commits) + 1
          /\ commits'[Len(commits) + 1].frame = frame
          /\ \A k \in 1..Len(commits) : commits'[k] = commits[k]
      BY <3>0, <3>1
    <3>3. i \in 1..Len(commits)
      BY <3>1, <3>2
    <3>4. CASE j \in 1..Len(commits)
      BY <2>1, <3>2, <3>3, <3>4 DEF AppliedOnceInOrder
    <3>5. CASE j = Len(commits) + 1
      BY <1>1, <2>1, <3>2, <3>3, <3>5, CommitKeepsBounds
    <3> QED
      BY <3>1, <3>2, <3>4, <3>5
  <2>2. AppliedOnceInOrder'
    BY <2>1 DEF AppliedOnceInOrder
  <2> QED
    BY <1>1, <2>2, CommitKeepsBounds
<1>2. ASSUME ~\E frame \in Frame, destination \in Nat :
                CommitFrame(frame, destination)
      PROVE  CommitsBounded' /\ AppliedOnceInOrder'
  <2>1. commits' = commits /\ RowsAdvance
    BY <1>2, CommitStep, StepAdvances
  <2>2. AppliedOnceInOrder'
    BY <2>1 DEF AppliedOnceInOrder
  <2> QED
    BY <2>1, <2>2, AdvanceKeepsBounds
<1> QED
  BY <1>1, <1>2

-----------------------------------------------------------------------------
(* Nothing passes a fence *)

\* Once all generations are retired, none of those fenced may write.
LEMMA RetiredAreUnfenced ==
    ASSUME TypeOK, generations' = RetireAll(generations), Fence
    PROVE  WritersUnfenced'
<1>1. /\ Len(generations') = Len(generations)
      /\ Len(generations) \in Nat
      /\ \A g \in 1..Len(generations) : generations'[g].status = "retired"
  BY RetireAllRows DEF TypeOK
<1> QED
  BY <1>1 DEF WritersUnfenced, Fence

\* Every operation that retires generations fences all that there are, and an
\* activation issues the next number after fencing the ones before it.
LEMMA UnfencedStep ==
    ASSUME TypeOK, FenceConsistent, WritersUnfenced, [Next]_storeVars
    PROVE  WritersUnfenced'
<1>1. /\ generations \in Seq(Generation)
      /\ Len(generations) \in Nat
      /\ fencedThrough \in Nat
  BY DEF TypeOK
<1>2. CASE UNCHANGED <<generations, fencedThrough>>
  BY <1>2 DEF WritersUnfenced
<1>3. CASE generations' = RetireAll(generations) /\ Fence
  BY <1>3, RetiredAreUnfenced
<1>4. ASSUME NEW b \in Builders, DeployCommand(b)
      PROVE  WritersUnfenced'
  <2>1. ASSUME NEW artifact \in Artifacts, NEW config \in Configs,
               NEW state \in States, NEW expiry \in Expiries,
               DeployNew(b, artifact, config, state, expiry)
        PROVE  WritersUnfenced'
    BY <1>1, <2>1 DEF DeployNew, WritersUnfenced
  <2> QED
    BY <1>2, <1>3, <1>4, <2>1
    DEF DeployCommand, StartBuild, Redeploy, ReplaceDeployment, DeployRefused, rows, history
<1>5. CASE OperatorCommand
  <2>1. CASE PurgeDeployment
    BY <2>1 DEF PurgeDeployment, WritersUnfenced
  <2> QED
    BY <1>2, <1>3, <1>5, <2>1
    DEF OperatorCommand, PauseDeployment, ResumeDeployment, ArchiveDeployment,
        ReplaceState, ClearCheckpoints, history
<1>6. CASE ExpiryPasses
  BY <1>2, <1>6 DEF ExpiryPasses, history
<1>7. CASE DaemonStep
  <2>1. CASE ActivateGeneration
    <3>1. fencedThrough' = Len(generations)
      BY <2>1 DEF ActivateGeneration, Fence
    <3>2. \A g \in 1..Len(generations') :
            generations'[g].status = "active" => g = Len(generations) + 1
      BY <1>1, <2>1, ActivateGenerationRows
    <3> QED
      BY <1>1, <2>1, <3>1, <3>2, ActivateGenerationRows DEF WritersUnfenced
  <2>2. ASSUME NEW g \in 1..Len(generations), MarkGenerationStopped(g)
        PROVE  WritersUnfenced'
    <3>1. /\ Len(generations') = Len(generations)
          /\ \A h \in 1..Len(generations) :
                generations'[h].status =
                    IF h = g THEN "retired" ELSE generations[h].status
      BY <1>1, <2>2, RetireRows DEF MarkGenerationStopped
    <3>2. fencedThrough' = IF g > fencedThrough THEN g ELSE fencedThrough
      BY <2>2 DEF MarkGenerationStopped
    <3>3. ASSUME NEW h \in 1..Len(generations), generations'[h].status = "active"
          PROVE  h > fencedThrough'
      <4>1. h # g /\ generations[h].status = "active"
        BY <3>1, <3>3
      <4>2. h = Len(generations) /\ h > fencedThrough
        BY <4>1, <1>1 DEF FenceConsistent, WritersUnfenced
      <4> QED
        BY <1>1, <3>2, <4>1, <4>2
    <3> QED
      BY <1>1, <3>1, <3>2, <3>3 DEF WritersUnfenced
  <2> QED
    BY <1>2, <1>3, <1>7, <2>1, <2>2
    DEF DaemonStep, DeactivateDueDeployments, RecoverGenerations,
        ListRuntimeMetadata, GetRuntimeDeployment, ActivationRefused,
        PruneTerminalOutbox, PruneRetiredTransactions, rows, history
<1>8. CASE WorkerStep
  <2>1. PICK frame \in Frame, destination \in Nat :
            CommitFrame(frame, destination) \/ ReplayFrame(frame)
    BY <1>8, FramesAreFrames DEF WorkerStep, ApplyTransaction
  <2>2. CASE CommitFrame(frame, destination)
    <3>1. UNCHANGED fencedThrough
      BY <2>2 DEF CommitFrame
    <3> QED
      BY <2>2, <3>1, CommitFrameRows DEF WritersUnfenced
  <2> QED
    BY <1>2, <2>1, <2>2 DEF ReplayFrame, rows, history
<1> QED
  BY <1>2, <1>4, <1>5, <1>6, <1>7, <1>8 DEF Next, storeVars, rows, history

-----------------------------------------------------------------------------
(* What an ACK says *)

\* The ledger grows only with what is applied, and shrinks only by retention.
LEMMA LedgerStep ==
    ASSUME TypeOK, LedgerApplied, AckedIsApplied, [Next]_storeVars
    PROVE  LedgerApplied' /\ AckedIsApplied'
<1>1. ASSUME NEW frame \in Frame, NEW destination, CommitFrame(frame, destination)
      PROVE  LedgerApplied' /\ AckedIsApplied'
  <2>1. /\ commits' = Append(commits, ack')
        /\ transactions' = transactions \cup {ack'}
    BY <1>1 DEF CommitFrame
  <2>2. /\ Len(commits) \in Nat
        /\ Len(commits') = Len(commits) + 1
        /\ commits'[Len(commits) + 1] = ack'
        /\ \A i \in 1..Len(commits) : commits'[i] = commits[i]
    BY <2>1 DEF TypeOK
  <2>3. Len(commits) + 1 \in 1..Len(commits')
    BY <2>2
  <2>4. \A i \in 1..Len(commits) : i \in 1..Len(commits')
    BY <2>2
  <2> QED
    BY <2>1, <2>2, <2>3, <2>4 DEF LedgerApplied, AckedIsApplied
<1>2. ASSUME NEW frame, ReplayFrame(frame)
      PROVE  LedgerApplied' /\ AckedIsApplied'
  BY <1>2 DEF ReplayFrame, Stored, LedgerApplied, AckedIsApplied, rows, history
<1>3. CASE commits' = commits /\ transactions' \subseteq transactions /\ ack' = None
  BY <1>3 DEF LedgerApplied, AckedIsApplied
<1>4. CASE UNCHANGED <<commits, transactions, ack>>
  BY <1>4 DEF LedgerApplied, AckedIsApplied
<1>5. CASE \E b \in Builders : DeployCommand(b)
  BY <1>3, <1>5
  DEF DeployCommand, StartBuild, DeployNew, Redeploy, ReplaceDeployment, DeployRefused, rows, history
<1>6. CASE OperatorCommand
  BY <1>3, <1>6
  DEF OperatorCommand, PauseDeployment, ResumeDeployment, ArchiveDeployment,
      PurgeDeployment, ReplaceState, ClearCheckpoints, history
<1>7. CASE ExpiryPasses
  BY <1>3, <1>7 DEF ExpiryPasses, history
<1>8. CASE DaemonStep
  BY <1>3, <1>8
  DEF DaemonStep, DeactivateDueDeployments, RecoverGenerations,
      ListRuntimeMetadata, GetRuntimeDeployment, ActivateGeneration,
      ActivationRefused, MarkGenerationStopped, PruneTerminalOutbox,
      PruneRetiredTransactions, rows, history
<1>9. CASE WorkerStep
  BY <1>1, <1>2, <1>9, FramesAreFrames DEF WorkerStep, ApplyTransaction
<1> QED
  BY <1>4, <1>5, <1>6, <1>7, <1>8, <1>9 DEF Next, storeVars, rows, history

-----------------------------------------------------------------------------
(* Theorems: fences and commits *)

\* The inductive invariant holds of an empty store.
LEMMA FenceInvInit == Init => FenceInv
<1>1. Init => /\ CommitsBounded /\ WritersUnfenced /\ AppliedOnceInOrder
              /\ LedgerApplied /\ AckedIsApplied
  BY DEF Init, CommitsBounded, WritersUnfenced, AppliedOnceInOrder,
         LedgerApplied, AckedIsApplied
<1> QED
  BY <1>1, InitType, InitFence DEF FenceInv

\* Every step of the store keeps the inductive invariant: each conjunct by its
\* own lemma, from the conjuncts it rests on.
LEMMA FenceInvStep == FenceInv /\ [Next]_storeVars => FenceInv'
<1> SUFFICES ASSUME FenceInv, [Next]_storeVars
             PROVE  FenceInv'
  OBVIOUS
<1>1. TypeOK' /\ FenceConsistent'
  BY FenceStep DEF FenceInv
<1>2. CommitsBounded' /\ AppliedOnceInOrder'
  BY <1>1, OrderStep DEF FenceInv
<1>3. WritersUnfenced'
  BY UnfencedStep DEF FenceInv
<1>4. LedgerApplied' /\ AckedIsApplied'
  BY LedgerStep DEF FenceInv
<1> QED
  BY <1>1, <1>2, <1>3, <1>4 DEF FenceInv

\* The inductive invariant of the store: the shape of its rows, the agreement of
\* the tables that keep the fence, the bounds on what was applied and issued,
\* and what the applied frames and the ACKs given for them then satisfy.
THEOREM FenceInvariant == Spec => []FenceInv
BY FenceInvInit, FenceInvStep, PTL DEF Spec

\* Every operation of the store keeps every row and every value the daemon and
\* the commands hold in memory in the shape its columns declare.
THEOREM TypeCorrect == Spec => []TypeOK
<1>1. FenceInv => TypeOK
  BY DEF FenceInv
<1> QED
  BY <1>1, FenceInvariant, PTL

\* deployments.active_generation and deployment_generations.status are written
\* by separate statements of a dozen operations.  They always agree: at most one
\* generation may write, the one the row of an active deployment names.
THEOREM FenceCorrect == Spec => []FenceConsistent
<1>1. FenceInv => FenceConsistent
  BY DEF FenceInv
<1> QED
  BY <1>1, FenceInvariant, PTL

\* No frame is applied twice, and those of one row are applied in the order of
\* their generations and sequences: resending after a lost ACK, relaying for a
\* replaced worker and pruning receipts never repeat or reorder an effect.
THEOREM AppliedOnceCorrect == Spec => []AppliedOnceInOrder
<1>1. FenceInv => AppliedOnceInOrder
  BY DEF FenceInv
<1> QED
  BY <1>1, FenceInvariant, PTL

\* A worker is never told that a frame was committed, or at which revision,
\* unless that very frame was applied at that revision.
THEOREM AcksAreTrue == Spec => []AckedIsApplied
<1>1. FenceInv => AckedIsApplied
  BY DEF FenceInv
<1> QED
  BY <1>1, FenceInvariant, PTL

\* A generation that an operator, a deploy, an expiry, a restart, a stop or a
\* newer activation has fenced never applies anything again, and an inactive
\* deployment is never written by a worker.
THEOREM FencedNeverApply == Spec => NothingAppliedPastFence
<1> DEFINE Fenced == commits' # commits =>
                        /\ commits'[Len(commits')].frame.generation > fencedThrough
                        /\ deployment.status = "active"
<1>1. FenceInv /\ [Next]_storeVars => [Fenced]_storeVars
  <2> SUFFICES ASSUME FenceInv, [Next]_storeVars, commits' # commits
               PROVE  /\ commits'[Len(commits')].frame.generation > fencedThrough
                      /\ deployment.status = "active"
    OBVIOUS
  <2>1. TypeOK /\ FenceConsistent /\ WritersUnfenced
    BY DEF FenceInv
  <2>2. PICK frame \in Frame, destination \in Nat : CommitFrame(frame, destination)
    BY <2>1, CommitStep
  <2>3. PICK new : new.frame = frame /\ commits' = Append(commits, new)
    BY <2>2 DEF CommitFrame
  <2>4. commits'[Len(commits')].frame = frame
    BY <2>1, <2>3 DEF TypeOK
  <2>5. frame.generation > fencedThrough /\ deployment.status = "active"
    BY <2>1, <2>2, CommitFrameRows DEF WritersUnfenced
  <2> QED
    BY <2>4, <2>5
<1> QED
  BY <1>1, FenceInvariant, PTL DEF Spec, NothingAppliedPastFence


-----------------------------------------------------------------------------
(* Receipts and events *)

\* What the ledger and the outbox owe each other and the workers.
LedgerInv ==
    /\ ReceiptsKeptWhileActive
    /\ EventsHaveReceipts
    /\ EventIdsUnique

\* A step that leaves both tables alone, and no generation active that was not
\* or at another sequence, leaves nothing owed.
LEMMA TablesKept ==
    ASSUME TypeOK, LedgerInv, UNCHANGED <<transactions, events>>,
           \A g \in 1..Len(generations') : generations'[g].status = "active" =>
                \/ generations'[g].lastSequence = 0
                \/ /\ g \in 1..Len(generations)
                   /\ generations[g].status = "active"
                   /\ generations'[g].lastSequence = generations[g].lastSequence
    PROVE  LedgerInv'
<1>1. EventsHaveReceipts' /\ EventIdsUnique'
  BY DEF LedgerInv, EventsHaveReceipts, EventIdsUnique
<1>2. ReceiptsKeptWhileActive'
  BY DEF LedgerInv, ReceiptsKeptWhileActive
<1> QED
  BY <1>1, <1>2 DEF LedgerInv

\* In particular one that leaves the generations alone or retires them all.
LEMMA TablesKeptRetired ==
    ASSUME TypeOK, LedgerInv, UNCHANGED <<transactions, events>>,
           generations' \in {generations, RetireAll(generations)}
    PROVE  LedgerInv'
<1>1. generations \in Seq(Generation)
  BY DEF TypeOK
<1>2. CASE generations' = generations
  BY <1>2, TablesKept
<1>3. CASE generations' = RetireAll(generations)
  <2>1. \A g \in 1..Len(generations') : generations'[g].status # "active"
    BY <1>1, <1>3, RetireAllRows
  <2> QED
    BY <2>1, TablesKept
<1> QED
  BY <1>2, <1>3

\* A commit writes its receipt with its events, each under an id that is new.
LEMMA CommitKeepsLedger ==
    ASSUME TypeOK, FenceConsistent, LedgerInv,
           NEW frame \in Frame, NEW destination, CommitFrame(frame, destination)
    PROVE  LedgerInv'
<1> DEFINE fresh == {[event |-> e, generation |-> frame.generation,
                      sequence |-> frame.sequence, destination |-> destination] :
                        e \in NewEvents(frame)}
<1>1. PICK receipt : /\ receipt.frame = frame
                     /\ transactions' = transactions \cup {receipt}
  BY DEF CommitFrame
<1>2. events' = events \cup fresh
  BY DEF CommitFrame
<1>3. frame.sequence = generations[frame.generation].lastSequence + 1
  BY DEF CommitFrame, Admitted
<1>4. generations[frame.generation].lastSequence \in Nat
  <2>1. generations[frame.generation] \in Generation
    BY CommitFrameRows DEF TypeOK
  <2> QED
    BY <2>1 DEF Generation
<1>5. ReceiptsKeptWhileActive'
  <2> SUFFICES ASSUME NEW g \in 1..Len(generations'),
                      generations'[g].status = "active",
                      NEW s \in 1..generations'[g].lastSequence
               PROVE  \E t \in transactions' :
                        t.frame.generation = g /\ t.frame.sequence = s
    BY DEF ReceiptsKeptWhileActive
  <2>1. /\ g \in 1..Len(generations)
        /\ generations[g].status = "active"
        /\ generations'[g].lastSequence =
                IF g = frame.generation THEN frame.sequence
                ELSE generations[g].lastSequence
    BY CommitFrameRows
  <2>2. CASE s \in 1..generations[g].lastSequence
    BY <1>1, <2>1, <2>2 DEF LedgerInv, ReceiptsKeptWhileActive
  <2>3. CASE s \notin 1..generations[g].lastSequence
    <3>1. g = frame.generation /\ s = frame.sequence
      BY <1>3, <1>4, <2>1, <2>3
    <3> QED
      BY <1>1, <3>1
  <2> QED
    BY <2>2, <2>3
<1>6. EventsHaveReceipts'
  <2> SUFFICES ASSUME NEW row \in events'
               PROVE  \E t \in transactions' :
                        /\ t.frame.generation = row.generation
                        /\ t.frame.sequence = row.sequence
                        /\ row.event \in t.frame.payload.events
    BY DEF EventsHaveReceipts
  <2>1. CASE row \in events
    BY <1>1, <2>1 DEF LedgerInv, EventsHaveReceipts
  <2>2. CASE row \in fresh
    BY <1>1, <2>2 DEF NewEvents
  <2> QED
    BY <1>2, <2>1, <2>2
<1>7. EventIdsUnique'
  <2> SUFFICES ASSUME NEW row \in events', NEW other \in events',
                      row.event.id = other.event.id
               PROVE  row = other
    BY DEF EventIdsUnique
  <2>1. ASSUME NEW old \in events, NEW new \in fresh
        PROVE  old.event.id # new.event.id
    BY <2>1 DEF NewEvents
  <2>2. CASE row \in events /\ other \in events
    BY <2>2 DEF LedgerInv, EventIdsUnique
  <2>3. CASE row \in fresh /\ other \in fresh
    <3>1. ~EventConflict(frame)
      BY DEF CommitFrame, Admitted
    <3>2. \A e, f \in NewEvents(frame) : e.id = f.id => e = f
      BY <3>1 DEF EventConflict, NewEvents
    <3> QED
      BY <2>3, <3>2
  <2> QED
    BY <1>2, <2>1, <2>2, <2>3
<1> QED
  BY <1>5, <1>6, <1>7 DEF LedgerInv

\* A sweep of the outbox forgets events, never a receipt.
LEMMA OutboxSweepKeepsLedger ==
    ASSUME LedgerInv, PruneTerminalOutbox
    PROVE  LedgerInv'
<1>1. /\ events' \subseteq events
      /\ UNCHANGED <<generations, transactions>>
  BY DEF PruneTerminalOutbox
<1> QED
  BY <1>1 DEF LedgerInv, ReceiptsKeptWhileActive, EventsHaveReceipts, EventIdsUnique

\* A sweep of the ledger forgets receipts that no event and no active
\* generation needs.
LEMMA LedgerSweepKeepsLedger ==
    ASSUME LedgerInv, PruneRetiredTransactions
    PROVE  LedgerInv'
<1>1. /\ UNCHANGED <<generations, events>>
      /\ \A t \in transactions : t \notin transactions' => Prunable(t)
  BY DEF PruneRetiredTransactions
<1>2. ReceiptsKeptWhileActive'
  BY <1>1 DEF LedgerInv, ReceiptsKeptWhileActive, Prunable
<1>3. EventsHaveReceipts'
  BY <1>1 DEF LedgerInv, EventsHaveReceipts, Prunable
<1>4. EventIdsUnique'
  BY <1>1 DEF LedgerInv, EventIdsUnique
<1> QED
  BY <1>2, <1>3, <1>4 DEF LedgerInv

\* No step leaves a worker without a receipt or an event without its own.
LEMMA LedgerInvStep ==
    ASSUME TypeOK, FenceConsistent, LedgerInv, [Next]_storeVars
    PROVE  LedgerInv'
<1>1. CASE UNCHANGED storeVars
  BY <1>1, TablesKeptRetired DEF storeVars, rows
<1>2. ASSUME NEW b \in Builders, DeployCommand(b)
      PROVE  LedgerInv'
  BY <1>2, TablesKeptRetired
  DEF DeployCommand, StartBuild, DeployNew, Redeploy, ReplaceDeployment, DeployRefused, rows
<1>3. CASE OperatorCommand
  <2>1. CASE PurgeDeployment
    BY <2>1 DEF PurgeDeployment, LedgerInv, ReceiptsKeptWhileActive,
                EventsHaveReceipts, EventIdsUnique
  <2> QED
    BY <1>3, <2>1, TablesKeptRetired
    DEF OperatorCommand, PauseDeployment, ResumeDeployment, ArchiveDeployment,
        ReplaceState, ClearCheckpoints
<1>4. CASE ExpiryPasses
  BY <1>4, TablesKeptRetired DEF ExpiryPasses
<1>5. CASE DaemonStep
  <2>1. CASE ActivateGeneration
    <3>1. UNCHANGED <<transactions, events>>
      BY <2>1 DEF ActivateGeneration
    <3>2. \A g \in 1..Len(generations') : generations'[g].status = "active" =>
                generations'[g].lastSequence = 0
      BY <2>1, ActivateGenerationRows DEF TypeOK
    <3> QED
      BY <3>1, <3>2, TablesKept
  <2>2. ASSUME NEW g \in 1..Len(generations), MarkGenerationStopped(g)
        PROVE  LedgerInv'
    <3>1. generations \in Seq(Generation) /\ generations' = Retire(generations, g)
      BY <2>2 DEF MarkGenerationStopped, TypeOK
    <3>2. \A h \in 1..Len(generations') : generations'[h].status = "active" =>
            /\ h \in 1..Len(generations)
            /\ generations[h].status = "active"
            /\ generations'[h].lastSequence = generations[h].lastSequence
      BY <3>1, RetireRows
    <3> QED
      BY <2>2, <3>2, TablesKept DEF MarkGenerationStopped
  <2> QED
    BY <1>5, <2>1, <2>2, TablesKeptRetired, OutboxSweepKeepsLedger,
       LedgerSweepKeepsLedger
    DEF DaemonStep, DeactivateDueDeployments, RecoverGenerations,
        ListRuntimeMetadata, GetRuntimeDeployment, ActivationRefused, rows
<1>6. CASE WorkerStep
  <2>1. PICK frame \in Frame, destination \in Nat :
            CommitFrame(frame, destination) \/ ReplayFrame(frame)
    BY <1>6, FramesAreFrames DEF WorkerStep, ApplyTransaction
  <2> QED
    BY <2>1, CommitKeepsLedger, TablesKeptRetired DEF ReplayFrame, rows
<1> QED
  BY <1>1, <1>2, <1>3, <1>4, <1>5, <1>6 DEF Next

\* An empty ledger owes nothing.
LEMMA LedgerInvInit == Init => LedgerInv
BY DEF Init, LedgerInv, ReceiptsKeptWhileActive, EventsHaveReceipts, EventIdsUnique

\* The ledger rules hold throughout, beside the fence they rest on.
LEMMA LedgerInvariant == Spec => [](FenceInv /\ LedgerInv)
<1>1. FenceInv /\ LedgerInv /\ [Next]_storeVars => LedgerInv'
  BY LedgerInvStep DEF FenceInv
<1> QED
  BY <1>1, LedgerInvInit, FenceInvInit, FenceInvStep, PTL DEF Spec

-----------------------------------------------------------------------------
(* What was read before it is used *)

\* The row never takes a revision back, and at one revision of one row there is
\* one state and one configuration.
DocumentsAdvance ==
    \/ deployment' = deployment
    \/ deployment'.id = deployment.id + 1
    \/ deployment'.id = deployment.id /\ deployment'.status = "none"
    \/ /\ deployment'.id = deployment.id
       /\ deployment.status # "none"
       /\ deployment'.stateRevision >= deployment.stateRevision
       /\ deployment'.stateRevision = deployment.stateRevision =>
            deployment'.state = deployment.state
       /\ deployment'.configRevision >= deployment.configRevision
       /\ deployment'.configRevision = deployment.configRevision =>
            deployment'.config = deployment.config

\* A read of the deployment with an id and a revision is not ahead of the row,
\* and agrees with it if the row has not moved since.
SnapshotPast ==
    snapshot # None =>
        /\ snapshot.id <= deployment.id
        /\ snapshot.id = deployment.id /\ deployment.status # "none" =>
            /\ snapshot.stateRevision <= deployment.stateRevision
            /\ snapshot.stateRevision = deployment.stateRevision =>
                    snapshot.state = deployment.state
            /\ snapshot.configRevision <= deployment.configRevision
            /\ snapshot.configRevision = deployment.configRevision =>
                    snapshot.config = deployment.config

BuildsPast ==
    \A b \in Builders : builds[b] # None /\ builds[b].expected # None =>
        /\ builds[b].id <= deployment.id
        /\ builds[b].id = deployment.id /\ deployment.status # "none" =>
            /\ builds[b].expected <= deployment.stateRevision
            /\ builds[b].expected = deployment.stateRevision =>
                    builds[b].base \in {None, deployment.state}

\* Every step moves the row's documents only forwards.
LEMMA StepAdvancesDocuments ==
    ASSUME TypeOK, FenceConsistent, [Next]_storeVars
    PROVE  DocumentsAdvance
<1>1. /\ deployment \in Deployment
      /\ deployment.id \in Nat
      /\ deployment.stateRevision \in Nat
      /\ deployment.configRevision \in Nat
      /\ deployment.destination \in Nat
  BY DEF TypeOK, Deployment
<1>2. CASE deployment' = deployment
  BY <1>2 DEF DocumentsAdvance
<1>3. ASSUME NEW b \in Builders, DeployCommand(b)
      PROVE  DocumentsAdvance
  <2>1. ASSUME NEW artifact \in Artifacts, NEW config \in Configs,
               NEW state \in States, NEW expiry \in Expiries,
               DeployNew(b, artifact, config, state, expiry)
        PROVE  DocumentsAdvance
    BY <2>1 DEF DeployNew, NewId, DocumentsAdvance
  <2>2. ASSUME NEW artifact \in Artifacts, NEW config \in Configs,
               NEW state \in States, NEW expiry \in Expiries,
               Redeploy(b, artifact, config, state, expiry)
        PROVE  DocumentsAdvance
    <3>1. /\ deployment'.id = deployment.id
          /\ deployment.status # "none"
          /\ deployment'.stateRevision = deployment.stateRevision + 1
          /\ deployment'.config = config
          /\ deployment'.configRevision =
                IF config = deployment.config THEN deployment.configRevision
                ELSE deployment.configRevision + 1
      BY <2>2 DEF Redeploy, ReplaceDeployment
    <3> QED
      BY <1>1, <3>1 DEF DocumentsAdvance
  <2> QED
    BY <1>2, <1>3, <2>1, <2>2 DEF DeployCommand, StartBuild, DeployRefused, rows
<1>4. CASE OperatorCommand
  <2>1. CASE PurgeDeployment
    BY <2>1 DEF PurgeDeployment, NoRow, DocumentsAdvance
  <2>2. ASSUME NEW base \in 0..MaxRevision, NEW state \in States,
               ReplaceState(base, state)
        PROVE  DocumentsAdvance
    <3>1. /\ deployment'.id = deployment.id
          /\ deployment.status # "none"
          /\ deployment'.stateRevision = deployment.stateRevision + 1
          /\ deployment'.config = deployment.config
          /\ deployment'.configRevision = deployment.configRevision
      BY <1>1, <2>2 DEF ReplaceState, Deployment
    <3> QED
      BY <1>1, <3>1 DEF DocumentsAdvance
  <2>3. CASE PauseDeployment
    BY <1>1, <2>3 DEF PauseDeployment, Deployment, DocumentsAdvance
  <2>4. ASSUME NEW expiry \in Expiries, ResumeDeployment(expiry)
        PROVE  DocumentsAdvance
    BY <1>1, <2>4 DEF ResumeDeployment, Deployment, DocumentsAdvance
  <2>5. CASE ArchiveDeployment
    BY <1>1, <2>5 DEF ArchiveDeployment, Deployment, DocumentsAdvance
  <2>6. CASE ClearCheckpoints
    BY <1>1, <2>6 DEF ClearCheckpoints, Deployment, DocumentsAdvance
  <2> QED
    BY <1>4, <2>1, <2>2, <2>3, <2>4, <2>5, <2>6 DEF OperatorCommand
<1>5. CASE ExpiryPasses
  BY <1>1, <1>5 DEF ExpiryPasses, Deployment, DocumentsAdvance
<1>6. CASE DaemonStep
  <2>1. CASE DeactivateDueDeployments
    BY <1>1, <2>1 DEF DeactivateDueDeployments, Deployment, DocumentsAdvance
  <2>2. CASE RecoverGenerations
    <3>1. CASE deployment.status = "none"
      BY <1>1, <2>2, <3>1 DEF RecoverGenerations, Deployment, DocumentsAdvance
    <3>2. CASE deployment.status # "none"
      BY <1>1, <2>2, <3>2 DEF RecoverGenerations, Deployment, DocumentsAdvance
    <3> QED
      BY <3>1, <3>2
  <2>3. CASE ActivateGeneration
    BY <1>1, <2>3, ActivateGenerationRows DEF Deployment, DocumentsAdvance
  <2> QED
    BY <1>2, <1>6, <2>1, <2>2, <2>3
    DEF DaemonStep, ListRuntimeMetadata, GetRuntimeDeployment, ActivationRefused,
        MarkGenerationStopped, PruneTerminalOutbox, PruneRetiredTransactions, rows
<1>7. CASE WorkerStep
  <2>1. PICK frame \in Frame, destination \in Nat :
            CommitFrame(frame, destination) \/ ReplayFrame(frame)
    BY <1>7, FramesAreFrames DEF WorkerStep, ApplyTransaction
  <2>2. CASE CommitFrame(frame, destination)
    <3>1. deployment' = [deployment EXCEPT
            !.state = frame.payload.state, !.stateRevision = @ + 1]
      BY <2>2 DEF CommitFrame
    <3>2. deployment.status # "none"
      BY <2>2, CommitFrameRows
    <3> QED
      BY <1>1, <3>1, <3>2 DEF Deployment, DocumentsAdvance
  <2> QED
    BY <1>2, <2>1, <2>2 DEF ReplayFrame, rows
<1> QED
  BY <1>2, <1>3, <1>4, <1>5, <1>6, <1>7 DEF Next, storeVars, rows

\* A step may forget what a command had read, or read the row anew.
BuildRead(b) ==
    \/ builds'[b] = builds[b]
    \/ builds'[b] = None
    \/ builds'[b].expected = None
    \/ /\ deployment' = deployment
       /\ builds'[b].id = deployment.id
       /\ builds'[b].expected = deployment.stateRevision
       /\ builds'[b].base \in {None, deployment.state}

SnapshotRead ==
    \/ snapshot' \in {snapshot, None}
    \/ snapshot' = RuntimeDeployment /\ deployment' = deployment

\* What the daemon and the commands hold is replaced only by what the row says
\* at that moment, and forgotten otherwise.
LEMMA StepReads ==
    ASSUME TypeOK, [Next]_storeVars
    PROVE  SnapshotRead /\ \A b \in Builders : BuildRead(b)
<1>1. builds \in [Builders -> Build \cup {None}]
  BY DEF TypeOK
<1>2. CASE UNCHANGED builds /\ snapshot' \in {snapshot, None}
  BY <1>2 DEF SnapshotRead, BuildRead
<1>3. ASSUME NEW b \in Builders, DeployCommand(b)
      PROVE  SnapshotRead /\ \A c \in Builders : BuildRead(c)
  <2>1. CASE StartBuild(b)
    <3>1. ASSUME builds' = [builds EXCEPT ![b] =
                    [id |-> 0, expected |-> None, base |-> None]]
          PROVE  \A c \in Builders : BuildRead(c)
      BY <1>1, <3>1 DEF BuildRead
    <3>2. ASSUME NEW base \in {deployment.state, None},
                 builds' = [builds EXCEPT ![b] =
                    [id |-> deployment.id,
                     expected |-> deployment.stateRevision, base |-> base]]
          PROVE  \A c \in Builders : BuildRead(c)
      <4>1. deployment' = deployment
        BY <2>1 DEF StartBuild, rows
      <4> QED
        BY <1>1, <3>2, <4>1 DEF BuildRead
    <3>3. SnapshotRead
      BY <2>1 DEF StartBuild, SnapshotRead, daemonVars
    <3> QED
      BY <2>1, <3>1, <3>2, <3>3 DEF StartBuild
  <2>2. CASE builds' = [builds EXCEPT ![b] = None] /\ UNCHANGED snapshot
    BY <1>1, <2>2 DEF SnapshotRead, BuildRead
  <2> QED
    BY <1>3, <2>1, <2>2
    DEF DeployCommand, DeployNew, Redeploy, ReplaceDeployment, DeployRefused, daemonVars
<1>4. CASE OperatorCommand
  BY <1>2, <1>4
  DEF OperatorCommand, PauseDeployment, ResumeDeployment, ArchiveDeployment,
      PurgeDeployment, ReplaceState, ClearCheckpoints, daemonVars
<1>5. CASE ExpiryPasses
  BY <1>2, <1>5 DEF ExpiryPasses, daemonVars
<1>6. CASE DaemonStep
  <2>1. CASE GetRuntimeDeployment
    <3>1. /\ UNCHANGED <<deployment, builds>>
          /\ snapshot' \in {None, RuntimeDeployment}
      BY <2>1 DEF GetRuntimeDeployment, rows
    <3> QED
      BY <3>1 DEF SnapshotRead, BuildRead
  <2> QED
    BY <1>2, <1>6, <2>1
    DEF DaemonStep, DeactivateDueDeployments, RecoverGenerations,
        ListRuntimeMetadata, ActivateGeneration, ActivationRefused,
        MarkGenerationStopped, PruneTerminalOutbox, PruneRetiredTransactions,
        daemonVars
<1>7. CASE WorkerStep
  BY <1>2, <1>7 DEF WorkerStep, ApplyTransaction, CommitFrame, ReplayFrame, daemonVars
<1> QED
  BY <1>2, <1>3, <1>4, <1>5, <1>6, <1>7 DEF Next, storeVars, daemonVars

\* What has been read stays behind the row, which only moves forwards.
LEMMA ReadsStep ==
    ASSUME TypeOK, TypeOK', FenceConsistent, SnapshotPast, BuildsPast,
           [Next]_storeVars
    PROVE  SnapshotPast' /\ BuildsPast'
<1>1. /\ deployment.id \in Nat /\ deployment'.id \in Nat
      /\ deployment.stateRevision \in Nat /\ deployment'.stateRevision \in Nat
      /\ deployment.configRevision \in Nat /\ deployment'.configRevision \in Nat
  BY DEF TypeOK, Deployment
<1>2. DocumentsAdvance /\ SnapshotRead /\ \A b \in Builders : BuildRead(b)
  BY StepAdvancesDocuments, StepReads
<1>3. SnapshotPast'
  <2>1. CASE snapshot' = None
    BY <2>1 DEF SnapshotPast
  <2>2. CASE snapshot' = snapshot /\ snapshot # None
    <3>1. /\ snapshot.id \in Nat /\ snapshot.stateRevision \in Nat
          /\ snapshot.configRevision \in Nat
      BY <2>2 DEF TypeOK, Snapshot
    <3> QED
      BY <1>1, <1>2, <2>2, <3>1 DEF SnapshotPast, DocumentsAdvance
  <2>3. CASE snapshot' = RuntimeDeployment /\ deployment' = deployment
    <3>1. /\ snapshot'.id = deployment'.id
          /\ snapshot'.stateRevision = deployment'.stateRevision
          /\ snapshot'.state = deployment'.state
          /\ snapshot'.configRevision = deployment'.configRevision
          /\ snapshot'.config = deployment'.config
      BY <2>3 DEF RuntimeDeployment
    <3> QED
      BY <1>1, <3>1 DEF SnapshotPast
  <2> QED
    BY <1>2, <2>1, <2>2, <2>3 DEF SnapshotRead
<1>4. ASSUME NEW b \in Builders, builds'[b] # None, builds'[b].expected # None
      PROVE  /\ builds'[b].id <= deployment'.id
             /\ builds'[b].id = deployment'.id /\ deployment'.status # "none" =>
                /\ builds'[b].expected <= deployment'.stateRevision
                /\ builds'[b].expected = deployment'.stateRevision =>
                        builds'[b].base \in {None, deployment'.state}
  <2>1. CASE builds'[b] = builds[b]
    <3>1. builds[b].id \in Nat /\ builds[b].expected \in Nat
      <4>1. builds[b] \in Build
        BY <1>4, <2>1 DEF TypeOK
      <4> QED
        BY <1>4, <2>1, <4>1 DEF Build
    <3>2. /\ builds[b].id <= deployment.id
          /\ builds[b].id = deployment.id /\ deployment.status # "none" =>
                /\ builds[b].expected <= deployment.stateRevision
                /\ builds[b].expected = deployment.stateRevision =>
                        builds[b].base \in {None, deployment.state}
      BY <1>4, <2>1 DEF BuildsPast
    <3> QED
      BY <1>1, <1>2, <2>1, <3>1, <3>2 DEF DocumentsAdvance
  <2>2. CASE /\ deployment' = deployment
             /\ builds'[b].id = deployment.id
             /\ builds'[b].expected = deployment.stateRevision
             /\ builds'[b].base \in {None, deployment.state}
    BY <1>1, <2>2
  <2> QED
    BY <1>2, <1>4, <2>1, <2>2 DEF BuildRead
<1>5. BuildsPast'
  BY <1>4 DEF BuildsPast
<1> QED
  BY <1>3, <1>5

-----------------------------------------------------------------------------
(* Theorems: receipts, events and reads *)

\* What the daemon and the commands hold is behind the row or agrees with it, in
\* every reachable state.
LEMMA ReadsInvariant == Spec => [](FenceInv /\ SnapshotPast /\ BuildsPast)
<1>1. Init => SnapshotPast /\ BuildsPast
  BY DEF Init, SnapshotPast, BuildsPast
<1>2. FenceInv /\ FenceInv' /\ SnapshotPast /\ BuildsPast /\ [Next]_storeVars
        => SnapshotPast' /\ BuildsPast'
  BY ReadsStep DEF FenceInv
<1> QED
  BY <1>1, <1>2, FenceInvInit, FenceInvStep, PTL DEF Spec

\* A worker of a generation that can still write finds the ACK it lost: retention
\* never removes a receipt of such a generation, whatever it has used.
THEOREM ReceiptsCorrect == Spec => []ReceiptsKeptWhileActive
<1>1. LedgerInv => ReceiptsKeptWhileActive
  BY DEF LedgerInv
<1> QED
  BY <1>1, LedgerInvariant, PTL

\* The two sweeps of retention do not coordinate, and yet no event outlives the
\* receipt of the frame that carried it.
THEOREM EventReceiptsCorrect == Spec => []EventsHaveReceipts
<1>1. LedgerInv => EventsHaveReceipts
  BY DEF LedgerInv
<1> QED
  BY <1>1, LedgerInvariant, PTL

\* However often and from whichever generation an event id is committed, one row
\* carries it.
THEOREM EventIdsCorrect == Spec => []EventIdsUnique
<1>1. LedgerInv => EventIdsUnique
  BY DEF LedgerInv
<1> QED
  BY <1>1, LedgerInvariant, PTL

\* Only an activation adds a generation.
LEMMA OnlyActivationAdds ==
    ASSUME TypeOK, FenceConsistent, [Next]_storeVars,
           Len(generations') > Len(generations)
    PROVE  ActivateGeneration
<1>1. generations \in Seq(Generation) /\ Len(generations) \in Nat
  BY DEF TypeOK
<1>2. CASE generations' = generations \/ generations' = RetireAll(generations)
  BY <1>1, <1>2, RetireAllRows
<1>3. CASE OperatorCommand
  <2>1. CASE PurgeDeployment
    BY <1>1, <2>1 DEF PurgeDeployment
  <2> QED
    BY <1>2, <1>3, <2>1
    DEF OperatorCommand, PauseDeployment, ResumeDeployment, ArchiveDeployment,
        ReplaceState, ClearCheckpoints
<1>4. ASSUME NEW g \in 1..Len(generations), MarkGenerationStopped(g)
      PROVE  ActivateGeneration
  BY <1>1, <1>4, RetireRows DEF MarkGenerationStopped
<1>5. CASE WorkerStep
  <2>1. PICK frame \in Frame, destination \in Nat :
            CommitFrame(frame, destination) \/ ReplayFrame(frame)
    BY <1>5, FramesAreFrames DEF WorkerStep, ApplyTransaction
  <2> QED
    BY <1>1, <1>2, <2>1, CommitFrameRows DEF ReplayFrame, rows
<1> QED
  BY <1>2, <1>3, <1>4, <1>5
  DEF Next, DeployCommand, StartBuild, DeployNew, Redeploy, ReplaceDeployment, DeployRefused,
      ExpiryPasses, DaemonStep, DeactivateDueDeployments, RecoverGenerations,
      ListRuntimeMetadata, GetRuntimeDeployment, ActivationRefused,
      PruneTerminalOutbox, PruneRetiredTransactions, storeVars, rows

\* A worker starts from the durable state and the deployed configuration and
\* artifact, although the daemon read them in an earlier transaction than the
\* one that lets the worker write.
THEOREM LaunchesAreCurrent == Spec => LaunchedFromCurrentState
<1> DEFINE Current == Len(generations') > Len(generations) =>
                        /\ snapshot.state = deployment.state
                        /\ snapshot.config = deployment.config
                        /\ snapshot.artifact = deployment.artifact
<1>1. FenceInv /\ SnapshotPast /\ [Next]_storeVars => [Current]_storeVars
  <2> SUFFICES ASSUME FenceInv, SnapshotPast, [Next]_storeVars,
                      Len(generations') > Len(generations)
               PROVE  /\ snapshot.state = deployment.state
                      /\ snapshot.config = deployment.config
                      /\ snapshot.artifact = deployment.artifact
    OBVIOUS
  <2>1. ActivateGeneration
    BY OnlyActivationAdds DEF FenceInv
  <2> QED
    BY <2>1 DEF ActivateGeneration, SnapshotCurrent, SnapshotPast
<1> QED
  BY <1>1, ReadsInvariant, PTL DEF Spec, LaunchedFromCurrentState

\* Only a deploy command's own step takes away what it had read.
LEMMA OnlyDeploysForget ==
    ASSUME [Next]_storeVars, NEW b \in Builders, builds'[b] # builds[b]
    PROVE  \E c \in Builders : DeployCommand(c)
<1>1. builds' # builds
  OBVIOUS
<1> QED
  BY <1>1
  DEF Next, OperatorCommand, PauseDeployment, ResumeDeployment, ArchiveDeployment,
      PurgeDeployment, ReplaceState, ClearCheckpoints, ExpiryPasses, DaemonStep,
      DeactivateDueDeployments, RecoverGenerations, ListRuntimeMetadata,
      GetRuntimeDeployment, ActivateGeneration, ActivationRefused,
      MarkGenerationStopped, PruneTerminalOutbox, PruneRetiredTransactions,
      WorkerStep, ApplyTransaction, CommitFrame, ReplayFrame, storeVars

\* A state that a deploy command migrated while it compiled replaces the very
\* state it was migrated from, unless another row has taken the name.
THEOREM BuildsReplaceTheirBase == Spec => BuildReplacesItsBase
<1> DEFINE Replaces == \A b \in Builders :
                        Redeployed(b) /\ builds[b].id = deployment.id =>
                            builds[b].base \in {None, deployment.state}
<1>1. FenceInv /\ BuildsPast /\ [Next]_storeVars => [Replaces]_storeVars
  <2> SUFFICES ASSUME FenceInv, BuildsPast, [Next]_storeVars,
                      NEW b \in Builders, Redeployed(b),
                      builds[b].id = deployment.id
               PROVE  builds[b].base \in {None, deployment.state}
    OBVIOUS
  <2>1. /\ builds \in [Builders -> Build \cup {None}]
        /\ deployment \in Deployment
        /\ deployment.destination \in Nat
    BY DEF FenceInv, TypeOK, Deployment
  <2>2. /\ builds[b] # None /\ builds'[b] = None
        /\ builds[b].expected # None
        /\ deployment'.destination = deployment.destination + 1
    BY DEF Redeployed
  <2>3. PICK c \in Builders : DeployCommand(c)
    BY <2>2, OnlyDeploysForget
  <2>4. PICK artifact \in Artifacts, config \in Configs, state \in States,
             expiry \in Expiries :
                \/ DeployNew(c, artifact, config, state, expiry)
                \/ Redeploy(c, artifact, config, state, expiry)
    <3>1. deployment' # deployment
      BY <2>1, <2>2
    <3> QED
      BY <2>3, <3>1 DEF DeployCommand, StartBuild, DeployRefused, rows
  <2>5. c = b
    <3>1. builds' = [builds EXCEPT ![c] = None]
      BY <2>4 DEF DeployNew, Redeploy, ReplaceDeployment
    <3> QED
      BY <2>1, <2>2, <3>1
  <2>6. builds[b].expected = deployment.stateRevision /\ deployment.status # "none"
    BY <2>2, <2>4, <2>5 DEF DeployNew, Redeploy, ReplaceDeployment, BaseCurrent
  <2> QED
    BY <2>2, <2>6 DEF BuildsPast
<1> QED
  BY <1>1, ReadsInvariant, PTL DEF Spec, BuildReplacesItsBase

-----------------------------------------------------------------------------
(* The fenced register *)

\* A row that exists has a state; without one there are no generations either.
RowPresent ==
    /\ deployment.status = "none" =>
        /\ deployment.state = None
        /\ deployment.stateRevision = 0
        /\ Len(generations) = 0
    /\ deployment.status # "none" => deployment.state \in States

-----------------------------------------------------------------------------
(* What the steps do to the row *)

\* A step that keeps the row's presence and its documents keeps the rule.
LEMMA PresenceKept ==
    ASSUME TypeOK, RowPresent,
           generations' \in {generations, RetireAll(generations)},
           deployment'.state = deployment.state,
           deployment'.stateRevision = deployment.stateRevision,
           (deployment'.status = "none") <=> (deployment.status = "none")
    PROVE  RowPresent'
<1>1. Len(generations') = Len(generations)
  BY RetireAllRows DEF TypeOK
<1> QED
  BY <1>1 DEF RowPresent

\* The steps that touch neither documents nor presence, and retire all or none.
Quiet ==
    /\ generations' \in {generations, RetireAll(generations)}
    /\ commits' = commits
    /\ deployment'.id = deployment.id
    /\ deployment'.state = deployment.state
    /\ deployment'.stateRevision = deployment.stateRevision
    /\ (deployment'.status = "none") <=> (deployment.status = "none")

\* Every step is quiet or one of the six that are not.
LEMMA QuietOrNot ==
    ASSUME TypeOK, FenceConsistent, [Next]_storeVars
    PROVE  \/ Quiet /\ generations' = RetireAll(generations)
           \/ Quiet /\ generations' = generations
                    /\ deployment'.activeGeneration = deployment.activeGeneration
           \/ Quiet /\ generations' = generations /\ deployment.status = "inactive"
           \/ \E b \in Builders, artifact \in Artifacts, config \in Configs,
                 state \in States, expiry \in Expiries :
                    \/ DeployNew(b, artifact, config, state, expiry)
                    \/ Redeploy(b, artifact, config, state, expiry)
           \/ PurgeDeployment
           \/ \E base \in 0..MaxRevision, state \in States : ReplaceState(base, state)
           \/ ActivateGeneration
           \/ \E g \in 1..Len(generations) : MarkGenerationStopped(g)
           \/ \E frame \in Frame, destination \in Nat :
                CommitFrame(frame, destination)
<1>1. deployment \in Deployment
  BY DEF TypeOK
<1>2. CASE UNCHANGED <<deployment, generations, commits>>
  BY <1>2 DEF Quiet
<1>3. CASE \E b \in Builders : DeployCommand(b)
  BY <1>2, <1>3 DEF DeployCommand, StartBuild, DeployRefused, rows, history
<1>4. CASE OperatorCommand
  <2>1. CASE PauseDeployment
    BY <1>1, <2>1 DEF PauseDeployment, Deployment, Quiet
  <2>2. ASSUME NEW expiry \in Expiries, ResumeDeployment(expiry)
        PROVE  Quiet /\ generations' = generations
                     /\ deployment.status = "inactive"
    BY <1>1, <2>2 DEF ResumeDeployment, Deployment, Quiet, history
  <2>3. CASE ArchiveDeployment
    BY <1>1, <2>3 DEF ArchiveDeployment, Deployment, Quiet
  <2>4. CASE ClearCheckpoints
    BY <1>1, <2>4 DEF ClearCheckpoints, Deployment, Quiet
  <2> QED
    BY <1>4, <2>1, <2>2, <2>3, <2>4 DEF OperatorCommand
<1>5. CASE ExpiryPasses
  BY <1>1, <1>5 DEF ExpiryPasses, Deployment, Quiet, history
<1>6. CASE DaemonStep
  <2>1. CASE DeactivateDueDeployments
    BY <1>1, <2>1 DEF DeactivateDueDeployments, Deployment, Quiet
  <2>2. CASE RecoverGenerations
    BY <1>1, <2>2 DEF RecoverGenerations, Deployment, Quiet
  <2> QED
    BY <1>2, <1>6, <2>1, <2>2
    DEF DaemonStep, ListRuntimeMetadata, GetRuntimeDeployment, ActivationRefused,
        PruneTerminalOutbox, PruneRetiredTransactions, rows, history
<1>7. CASE WorkerStep
  BY <1>2, <1>7, FramesAreFrames
  DEF WorkerStep, ApplyTransaction, ReplayFrame, rows, history
<1> QED
  BY <1>2, <1>3, <1>4, <1>5, <1>6, <1>7 DEF Next, storeVars, rows, history

\* Rows are added with a state, removed with all they had, and changed between.
LEMMA PresenceStep ==
    ASSUME TypeOK, FenceConsistent, RowPresent, [Next]_storeVars
    PROVE  RowPresent'
<1>1. deployment \in Deployment /\ Len(generations) \in Nat
  BY DEF TypeOK
<1>2. CASE Quiet
  BY <1>2, PresenceKept DEF Quiet
<1>3. ASSUME NEW b \in Builders, NEW artifact \in Artifacts,
             NEW config \in Configs, NEW state \in States, NEW expiry \in Expiries,
             \/ DeployNew(b, artifact, config, state, expiry)
             \/ Redeploy(b, artifact, config, state, expiry)
      PROVE  RowPresent'
  BY <1>3 DEF DeployNew, Redeploy, ReplaceDeployment, RowPresent
<1>4. CASE PurgeDeployment
  BY <1>4 DEF PurgeDeployment, NoRow, RowPresent
<1>5. ASSUME NEW base \in 0..MaxRevision, NEW state \in States,
             ReplaceState(base, state)
      PROVE  RowPresent'
  <2>1. deployment'.status # "none" /\ deployment'.state = state
    BY <1>1, <1>5 DEF ReplaceState, Deployment
  <2> QED
    BY <2>1 DEF RowPresent
<1>6. CASE ActivateGeneration
  <2>1. deployment'.status = "active" /\ deployment'.state = deployment.state
    BY <1>1, <1>6, ActivateGenerationRows DEF Deployment
  <2> QED
    BY <1>6, <2>1, ActivateGenerationRows DEF RowPresent
<1>7. ASSUME NEW g \in 1..Len(generations), MarkGenerationStopped(g)
      PROVE  RowPresent'
  BY <1>7 DEF MarkGenerationStopped, Retire, RowPresent
<1>8. ASSUME NEW frame \in Frame, NEW destination, CommitFrame(frame, destination)
      PROVE  RowPresent'
  BY <1>8, CommitFrameRows DEF RowPresent, Frame, Payload
<1> QED
  BY <1>2, <1>3, <1>4, <1>5, <1>6, <1>7, <1>8, QuietOrNot

-----------------------------------------------------------------------------
(* What the steps do to the token and to its last writer *)

\* With no generation active nobody holds the token.
LEMMA NoOwner ==
    ASSUME \A g \in 1..Len(generations) : generations[g].status # "active"
    PROVE  Owner = 0
BY DEF Owner

\* Retiring every generation takes it from whoever held it.
LEMMA RetiredTakesToken ==
    ASSUME TypeOK, generations' = RetireAll(generations)
    PROVE  Owner' = 0 /\ Len(generations') = Len(generations)
BY RetireAllRows DEF TypeOK, Owner

\* Whoever wrote before, an operator wrote a revision that no frame produced.
LEMMA OperatorWrote ==
    ASSUME TypeOK, CommitsBounded, commits' = commits,
           \/ deployment'.id = deployment.id + 1
           \/ deployment'.stateRevision = 0
           \/ /\ deployment'.id = deployment.id
              /\ deployment.status # "none"
              /\ deployment'.stateRevision = deployment.stateRevision + 1
    PROVE  Writer' = 0
<1>1. /\ deployment.id \in Nat /\ deployment.stateRevision \in Nat
      /\ commits \in Seq(LedgerRow) /\ Len(commits) \in Nat
  BY DEF TypeOK, Deployment
<1> SUFFICES ASSUME Len(commits) > 0,
                    commits[Len(commits)].frame.id = deployment'.id,
                    commits[Len(commits)].result = deployment'.stateRevision
             PROVE  FALSE
  BY DEF Writer
<1>2. commits[Len(commits)] \in LedgerRow /\ Len(commits) \in 1..Len(commits)
  BY <1>1
<1>3. /\ commits[Len(commits)].frame.id \in Nat
      /\ commits[Len(commits)].result \in Nat \ {0}
  BY <1>2 DEF LedgerRow, Frame
<1> QED
  BY <1>1, <1>2, <1>3 DEF CommitsBounded

-----------------------------------------------------------------------------
(* Each step is one of the register's, or none *)

\* Deploying a new name creates the register, deploying over it overwrites.
LEMMA DeployImplements ==
    ASSUME FenceInv, RowPresent,
           NEW b \in Builders, NEW artifact \in Artifacts, NEW config \in Configs,
           NEW state \in States, NEW expiry \in Expiries,
           \/ DeployNew(b, artifact, config, state, expiry)
           \/ Redeploy(b, artifact, config, state, expiry)
    PROVE  Register!Create \/ Register!Overwrite
<1>1. /\ TypeOK /\ FenceConsistent /\ CommitsBounded
      /\ deployment.id \in Nat /\ deployment.stateRevision \in Nat
  BY DEF FenceInv, TypeOK, Deployment
<1>2. CASE DeployNew(b, artifact, config, state, expiry)
  <2>1. /\ deployment'.id = deployment.id + 1
        /\ deployment'.state = state
        /\ deployment'.stateRevision = 0
        /\ deployment.status = "none"
        /\ UNCHANGED <<generations, commits>>
    BY <1>2 DEF DeployNew, NewId
  <2>2. Owner' = 0 /\ Len(generations') = 0
    BY <2>1 DEF RowPresent, Owner
  <2>3. Writer' = 0
    BY <1>1, <2>1, OperatorWrote
  <2> QED
    BY <2>1, <2>2, <2>3 DEF Register!Create, RowPresent
<1>3. CASE Redeploy(b, artifact, config, state, expiry)
  <2>1. /\ deployment'.id = deployment.id
        /\ deployment'.state = state
        /\ deployment'.stateRevision = deployment.stateRevision + 1
        /\ deployment.status # "none"
        /\ generations' = RetireAll(generations)
        /\ commits' = commits
    BY <1>3 DEF Redeploy, ReplaceDeployment
  <2>2. Owner' = 0 /\ Len(generations') = Len(generations)
    BY <1>1, <2>1, RetiredTakesToken
  <2>3. Writer' = 0
    BY <1>1, <2>1, OperatorWrote
  <2>4. deployment.state # None
    BY <2>1, NoneAssumption DEF RowPresent
  <2> QED
    BY <2>1, <2>2, <2>3, <2>4 DEF Register!Overwrite
<1> QED
  BY <1>2, <1>3

\* Purging destroys it; an archived deployment has no token holder.
LEMMA PurgeImplements ==
    ASSUME FenceInv, PurgeDeployment
    PROVE  Register!Destroy
<1>1. /\ TypeOK /\ FenceConsistent /\ CommitsBounded
      /\ deployment.status = "archived"
      /\ deployment' = [NoRow EXCEPT !.id = deployment.id]
      /\ generations' = <<>>
      /\ commits' = commits
  BY DEF FenceInv, PurgeDeployment
<1>2. /\ deployment'.id = deployment.id
      /\ deployment'.state = None
      /\ deployment'.stateRevision = 0
      /\ Len(generations') = 0
  BY <1>1 DEF NoRow
<1>3. Owner = 0 /\ Owner' = 0
  BY <1>1, <1>2 DEF FenceConsistent, Owner
<1>4. Writer' = 0
  BY <1>1, <1>2, OperatorWrote
<1> QED
  BY <1>2, <1>3, <1>4 DEF Register!Destroy

\* monitord state set and state clear overwrite it.
LEMMA ReplaceImplements ==
    ASSUME FenceInv, RowPresent, NEW base, NEW state \in States,
           ReplaceState(base, state)
    PROVE  Register!Overwrite
<1>1. TypeOK /\ CommitsBounded /\ deployment \in Deployment
  BY DEF FenceInv, TypeOK
<1>2. /\ deployment'.id = deployment.id
      /\ deployment'.state = state
      /\ deployment'.stateRevision = deployment.stateRevision + 1
      /\ deployment.status # "none"
      /\ generations' = RetireAll(generations)
      /\ commits' = commits
  BY <1>1 DEF ReplaceState, Deployment
<1>3. Owner' = 0 /\ Len(generations') = Len(generations)
  BY <1>1, <1>2, RetiredTakesToken
<1>4. Writer' = 0
  BY <1>1, <1>2, OperatorWrote
<1>5. deployment.state # None
  BY <1>2, NoneAssumption DEF RowPresent
<1> QED
  BY <1>2, <1>3, <1>4, <1>5 DEF Register!Overwrite

\* An activation grants the next token.
LEMMA ActivateImplements ==
    ASSUME FenceInv, RowPresent, ActivateGeneration
    PROVE  Register!Grant
<1>1. /\ TypeOK /\ FenceConsistent /\ deployment \in Deployment
      /\ Len(generations) \in Nat /\ commits' = commits
  BY DEF FenceInv, TypeOK, ActivateGeneration
<1>2. /\ deployment'.id = deployment.id
      /\ deployment'.state = deployment.state
      /\ deployment'.stateRevision = deployment.stateRevision
      /\ deployment'.activeGeneration = Len(generations) + 1
      /\ deployment.status = "active"
  BY <1>1, ActivateGenerationRows DEF Deployment
<1>3. /\ Len(generations') = Len(generations) + 1
      /\ generations'[Len(generations')].status = "active"
  BY <1>1, ActivateGenerationRows
<1>4. Owner' = Len(generations) + 1
  BY <1>1, <1>2, <1>3 DEF Owner
<1>5. Writer' = Writer
  BY <1>1, <1>2 DEF Writer
<1>6. deployment.state # None
  BY <1>2, NoneAssumption DEF RowPresent
<1> QED
  BY <1>2, <1>3, <1>4, <1>5, <1>6 DEF Register!Grant

\* Stopping the holder revokes its token, stopping another generation nothing.
LEMMA StopImplements ==
    ASSUME FenceInv, NEW g \in 1..Len(generations), MarkGenerationStopped(g)
    PROVE  Register!Revoke \/ UNCHANGED Register!registerVars
<1>1. /\ TypeOK /\ FenceConsistent
      /\ UNCHANGED <<deployment, commits>>
      /\ generations' = Retire(generations, g)
      /\ generations \in Seq(Generation)
  BY DEF FenceInv, MarkGenerationStopped, TypeOK
<1>2. /\ Len(generations') = Len(generations)
      /\ \A h \in 1..Len(generations) :
            generations'[h].status =
                IF h = g THEN "retired" ELSE generations[h].status
  BY <1>1, RetireRows
<1>3. Owner' \in {0, Owner}
  BY <1>1, <1>2 DEF Owner
<1>4. Writer' = Writer
  BY <1>1 DEF Writer
<1> QED
  BY <1>1, <1>2, <1>3, <1>4 DEF Register!Revoke, Register!registerVars

\* A commit is a write by the holder of the token.
LEMMA CommitImplements ==
    ASSUME FenceInv, NEW frame \in Frame, NEW destination,
           CommitFrame(frame, destination)
    PROVE  Register!Write
<1>1. /\ TypeOK /\ FenceConsistent /\ CommitsBounded
      /\ deployment.stateRevision \in Nat
      /\ commits \in Seq(LedgerRow) /\ Len(commits) \in Nat
      /\ frame.payload.state \in States
      /\ frame.generation \in Nat
  BY DEF FenceInv, TypeOK, Deployment, Frame, Payload
<1>2. /\ commits' = Append(commits, [frame |-> frame,
                                     result |-> deployment.stateRevision + 1])
      /\ frame.id = deployment.id
  BY <1>1, CommitKeepsBounds DEF CommitFrame, Admitted
<1>3. /\ Len(commits') = Len(commits) + 1
      /\ commits'[Len(commits')].frame = frame
      /\ commits'[Len(commits')].result = deployment.stateRevision + 1
  BY <1>1, <1>2
<1>4. Owner = frame.generation /\ Owner' = frame.generation /\ Owner # 0
  BY <1>1, CommitFrameRows DEF Owner
<1>5. Writer' = frame.generation
  BY <1>1, <1>2, <1>3, CommitFrameRows DEF Writer
<1> QED
  BY <1>1, <1>4, <1>5, CommitFrameRows DEF Register!Write

\* Whatever else the store does takes the token away or changes nothing.
LEMMA QuietImplements ==
    ASSUME FenceInv, Quiet,
           \/ generations' = RetireAll(generations)
           \/ /\ generations' = generations
              /\ deployment'.activeGeneration = deployment.activeGeneration
           \/ generations' = generations /\ deployment.status = "inactive"
    PROVE  Register!Revoke \/ UNCHANGED Register!registerVars
<1>1. TypeOK /\ FenceConsistent
  BY DEF FenceInv
<1>2. Writer' = Writer
  BY DEF Quiet, Writer
<1>3. CASE generations' = RetireAll(generations)
  <2>1. Owner' = 0 /\ Len(generations') = Len(generations)
    BY <1>1, <1>3, RetiredTakesToken
  <2> QED
    BY <1>2, <2>1 DEF Quiet, Register!Revoke
<1>4. CASE /\ generations' = generations
           /\ deployment'.activeGeneration = deployment.activeGeneration
  <2>1. Owner' = Owner
    BY <1>4 DEF Owner
  <2> QED
    BY <1>2, <1>4, <2>1 DEF Quiet, Register!registerVars
<1>5. CASE generations' = generations /\ deployment.status = "inactive"
  <2>1. \A g \in 1..Len(generations) : generations[g].status # "active"
    BY <1>1, <1>5 DEF FenceConsistent
  <2>2. Owner' = 0
    BY <1>5, <2>1 DEF Owner
  <2> QED
    BY <1>2, <1>5, <2>2 DEF Quiet, Register!Revoke
<1> QED
  BY <1>3, <1>4, <1>5

-----------------------------------------------------------------------------

\* An empty store is a register that was never created.
LEMMA InitImplements == Init => Register!Init /\ RowPresent
<1> SUFFICES ASSUME Init PROVE Register!Init /\ RowPresent
  OBVIOUS
<1>1. Owner = 0 /\ Writer = 0
  BY DEF Init, NoRow, Owner, Writer
<1> QED
  BY <1>1 DEF Init, NoRow, RowPresent, Register!Init

\* A row exists exactly while it has a state, in every reachable state.
LEMMA PresenceInvariant == Spec => [](FenceInv /\ RowPresent)
<1>1. FenceInv /\ RowPresent /\ [Next]_storeVars => RowPresent'
  BY PresenceStep DEF FenceInv
<1> QED
  BY <1>1, InitImplements, FenceInvInit, FenceInvStep, PTL DEF Spec

\* All of the store's tables and operations together are one fenced register: a
\* deployment's state changes one revision at a time, by the frame of the one
\* generation that holds the token or by an operator's command that takes the
\* token away, whatever is resent, restarted, swept or refused in between.
THEOREM RegisterImplemented == Spec => ImplementsRegister
<1>1. FenceInv /\ RowPresent /\ [Next]_storeVars
        => [Register!Next]_(Register!registerVars)
  <2> SUFFICES ASSUME FenceInv, RowPresent, [Next]_storeVars
               PROVE  Register!Next \/ UNCHANGED Register!registerVars
    OBVIOUS
  <2>1. TypeOK /\ FenceConsistent
    BY DEF FenceInv
  <2> QED
    BY <2>1, QuietOrNot, QuietImplements, DeployImplements, PurgeImplements,
       ReplaceImplements, ActivateImplements, StopImplements, CommitImplements
    DEF Register!Next
<1> QED
  BY <1>1, InitImplements, PresenceInvariant, PTL
  DEF Spec, ImplementsRegister, Register!Spec

=============================================================================
