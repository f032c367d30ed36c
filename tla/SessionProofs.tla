----------------------------- MODULE SessionProofs -----------------------------
(***************************************************************************)
(* Theorems about the two ends of the worker protocol: what a session      *)
(* holds, what the pipes carry and what the ledger says agree, in every    *)
(* order of resends, replays, ACKs, restarts and sweeps.                   *)
(***************************************************************************)
EXTENDS RelayProofs

-----------------------------------------------------------------------------
(* The invariant *)

\* The frames that a worker's relay has read or will read.
InHand(m) ==
    {m.frames[i] : i \in 1..Len(m.frames)}
        \cup (IF m.bound = None THEN {} ELSE {m.bound.frame})

\* Those, and the one that its process may still send again.
Sent(m) == InHand(m) \cup (IF m.pending = None THEN {} ELSE {m.pending})

\* The frames whose ACKs are on their way.
Answered(m) == {m.acks[i].frame : i \in 1..Len(m.acks)}

Last(m) == IF m.last = None THEN {} ELSE {m.last.frame}

\* A receipt of one of its frames.
Own(m, t) == t.frame.id = m.id /\ t.frame.generation = m.generation

\* Its generation may write.
Writes(m, row, gens) ==
    /\ m.id = row.id
    /\ row.activeGeneration = m.generation
    /\ gens[m.generation].status = "active"

\* A sequence means one frame, on the wire and in the ledger, and at most one
\* frame of an unfenced worker is not applied: the next, at the row's revision.
WireAgrees(m, row, gens, ledger) ==
    /\ \A f, h \in Sent(m) : f.sequence = h.sequence => f = h
    /\ \A f \in Sent(m) : \A t \in ledger :
            Own(m, t) /\ t.frame.sequence = f.sequence => t.frame = f
    /\ Writes(m, row, gens) => \A f \in Sent(m) :
            \/ f.sequence <= gens[m.generation].lastSequence
            \/ /\ f.sequence = gens[m.generation].lastSequence + 1
               /\ f.base = row.stateRevision

\* The session is at the row's revision, or one before it when its commit is
\* applied and the ACK is still to come.
SessionAt(m, row, gens, ledger) ==
    m.process = "running" =>
        /\ \A t \in ledger : Own(m, t) => t.frame.sequence <= m.sequence
        /\ \A f \in InHand(m) \cup Answered(m) : f.sequence <= m.sequence
        /\ m.pending # None => m.pending.sequence = m.sequence
        /\ Writes(m, row, gens) =>
            /\ gens[m.generation].lastSequence <= m.sequence
            /\ m.pending = None => gens[m.generation].lastSequence = m.sequence
            /\ IF m.pending # None /\ gens[m.generation].lastSequence = m.sequence
               THEN /\ row.stateRevision = m.revision + 1
                    /\ row.state = m.pending.payload.state
               ELSE /\ row.stateRevision = m.revision
                    /\ row.state = m.state

\* What is in the pipes is of the commit acknowledged last or of the one that is
\* waited for, the second behind the first, and is answered once it is applied.
PipesInOrder(m, row, gens) ==
    m.process = "running" =>
        /\ m.last # None => m.last.result = m.last.frame.base + 1
        /\ InHand(m) \cup Answered(m) \subseteq Last(m) \cup {m.pending}
        /\ m.arrived # None => Answered(m) \subseteq {m.pending}
        /\ m.arrived # None \/ m.pending \in Answered(m) =>
            /\ InHand(m) \subseteq {m.pending}
            /\ Writes(m, row, gens) =>
                m.sequence <= gens[m.generation].lastSequence
        /\ \A i, j \in 1..Len(m.acks) :
            i < j /\ m.acks[i].frame = m.pending => m.acks[j].frame = m.pending
        /\ m.bound # None /\ m.bound.frame = m.pending =>
            \A j \in 1..Len(m.frames) : m.frames[j] = m.pending
        /\ \A i, j \in 1..Len(m.frames) :
            i < j /\ m.frames[i] = m.pending => m.frames[j] = m.pending

Agrees(m, row, gens, ledger) ==
    /\ WireAgrees(m, row, gens, ledger)
    /\ SessionAt(m, row, gens, ledger)
    /\ PipesInOrder(m, row, gens)

\* A generation has one worker.
OneWorker ==
    \A v, w \in 1..Len(workers) :
        /\ workers[v].id = workers[w].id
        /\ workers[v].generation = workers[w].generation
        => v = w

\* The ledger is of the row that is there.
LedgerOfRow == \A t \in transactions : t.frame.id = deployment.id

AllAgree ==
    /\ OneWorker
    /\ \A w \in 1..Len(workers) :
        Agrees(workers[w], deployment, generations, transactions)

SessionInv ==
    /\ RelayInv
    /\ LedgerInv
    /\ LedgerOfRow
    /\ AllAgree

-----------------------------------------------------------------------------
(* What the store does to a worker that it does not hear of *)

\* A purge empties the ledger, so the id that follows has none of it.
LEMMA LedgerOfRowStep ==
    ASSUME StoreInv, LedgerOfRow, [Next]_storeVars
    PROVE  LedgerOfRow'
<1>1. deployment \in Deployment /\ RowNumbered
  BY DEF StoreInv, FenceInv, TypeOK
<1>2. CASE transactions' \subseteq transactions /\ deployment'.id = deployment.id
  BY <1>2 DEF LedgerOfRow
<1>3. CASE transactions' = {}
  BY <1>3 DEF LedgerOfRow
<1>4. ASSUME NEW b \in Builders, DeployCommand(b)
      PROVE  LedgerOfRow'
  <2>1. ASSUME NEW artifact \in Artifacts, NEW config \in Configs,
               NEW state \in States, NEW expiry \in Expiries,
               DeployNew(b, artifact, config, state, expiry)
        PROVE  LedgerOfRow'
    BY <1>1, <1>3, <2>1 DEF DeployNew, RowNumbered
  <2> QED
    BY <1>2, <1>4, <2>1
    DEF DeployCommand, StartBuild, Redeploy, ReplaceDeployment, DeployRefused, rows
<1>5. CASE OperatorCommand
  <2>1. CASE PurgeDeployment
    BY <1>3, <2>1 DEF PurgeDeployment
  <2> QED
    BY <1>1, <1>2, <1>5, <2>1
    DEF OperatorCommand, PauseDeployment, ResumeDeployment, ArchiveDeployment,
        ReplaceState, ClearCheckpoints, Deployment
<1>6. CASE ExpiryPasses \/ DaemonStep
  BY <1>1, <1>2, <1>6
  DEF ExpiryPasses, DaemonStep, DeactivateDueDeployments, RecoverGenerations,
      ListRuntimeMetadata, GetRuntimeDeployment, ActivateGeneration,
      ActivationRefused, MarkGenerationStopped, PruneTerminalOutbox,
      PruneRetiredTransactions, Deployment, rows
<1>7. ASSUME NEW frame, NEW destination, CommitFrame(frame, destination)
      PROVE  LedgerOfRow'
  <2>1. /\ transactions' = transactions \cup
                {[frame |-> frame, result |-> deployment.stateRevision + 1]}
        /\ frame.id = deployment.id
        /\ deployment' = [deployment EXCEPT
                !.state = frame.payload.state, !.stateRevision = @ + 1]
    BY <1>7 DEF CommitFrame, Admitted
  <2>2. deployment'.id = deployment.id
    BY <1>1, <2>1 DEF Deployment
  <2> QED
    BY <2>1, <2>2 DEF LedgerOfRow
<1>8. CASE WorkerStep
  BY <1>2, <1>7, <1>8 DEF WorkerStep, ApplyTransaction, ReplayFrame, rows
<1> QED
  BY <1>2, <1>4, <1>5, <1>6, <1>8 DEF Next, storeVars, rows

\* What is in the ledger was applied, so its generations and sequences exist.
LEMMA LedgerWithinRow ==
    ASSUME StoreInv, LedgerOfRow, NEW t \in transactions
    PROVE  /\ t.frame.generation \in 1..Len(generations)
           /\ t.frame.sequence <= generations[t.frame.generation].lastSequence
<1>1. PICK i \in 1..Len(commits) : commits[i] = t
  BY DEF StoreInv, FenceInv, LedgerApplied
<1>2. deployment.status # "none" /\ t.frame.id = deployment.id
  BY DEF StoreInv, RowNumbered, LedgerOfRow
<1> QED
  BY <1>1, <1>2 DEF StoreInv, FenceInv, CommitsBounded

\* The worker may write after the step only if it could before, to a row that
\* the step left alone, and no receipt of its frames was added.
Undisturbed(m) ==
    /\ Writes(m, deployment', generations') =>
        /\ Writes(m, deployment, generations)
        /\ deployment'.state = deployment.state
        /\ deployment'.stateRevision = deployment.stateRevision
        /\ generations'[m.generation].lastSequence =
                generations[m.generation].lastSequence
    /\ \A t \in transactions' : Own(m, t) => t \in transactions

\* Then what it, the pipes and the store hold agree as before.
LEMMA UndisturbedAgrees ==
    ASSUME NEW m, Agrees(m, deployment, generations, transactions), Undisturbed(m)
    PROVE  Agrees(m, deployment', generations', transactions')
<1>1. WireAgrees(m, deployment', generations', transactions')
  BY DEF Agrees, WireAgrees, Undisturbed
<1>2. SessionAt(m, deployment', generations', transactions')
  BY DEF Agrees, SessionAt, Undisturbed
<1>3. PipesInOrder(m, deployment', generations')
  BY DEF Agrees, PipesInOrder, Undisturbed
<1> QED
  BY <1>1, <1>2, <1>3 DEF Agrees

\* A step that fences every generation, or leaves the row and what its writers
\* are at alone, disturbs no worker.
LEMMA FencedIsUndisturbed ==
    ASSUME StoreInv, StoreInv', BindingsHold,
           NEW m \in Worker, Sound(m), FitsIn(m, deployment, generations),
           transactions' \subseteq transactions,
           \/ \A g \in 1..Len(generations) : generations'[g].status = "retired"
           \/ deployment'.activeGeneration = 0
           \/ deployment'.id # deployment.id
           \/ /\ deployment'.state = deployment.state
              /\ deployment'.stateRevision = deployment.stateRevision
              /\ \A g \in 1..Len(generations) :
                    generations'[g].lastSequence = generations[g].lastSequence
    PROVE  Undisturbed(m)
<1>1. /\ m.generation \in 1..MaxGeneration /\ MaxGeneration \in Nat
      /\ m.id \in 1..deployment.id
      /\ deployment.id \in Nat /\ deployment'.id \in Nat
      /\ Len(generations') \in Nat /\ Len(generations) \in Nat
  BY BoundsAssumption DEF Sound, FitsIn, StoreInv, FenceInv, TypeOK, Deployment
<1> SUFFICES ASSUME Writes(m, deployment', generations')
             PROVE  /\ Writes(m, deployment, generations)
                    /\ deployment'.state = deployment.state
                    /\ deployment'.stateRevision = deployment.stateRevision
                    /\ generations'[m.generation].lastSequence =
                            generations[m.generation].lastSequence
  BY DEF Undisturbed
<1>2. /\ m.id = deployment'.id /\ deployment'.activeGeneration = m.generation
      /\ generations'[m.generation].status = "active"
  BY DEF Writes
<1>3. m.generation \in 1..Len(generations') /\ deployment'.status = "active"
  <2>1. m.generation = Len(generations')
    BY <1>1, <1>2 DEF StoreInv, FenceInv, FenceConsistent
  <2>2. m.generation \in 1..Len(generations')
    BY <1>1, <2>1
  <2> QED
    BY <1>2, <2>2 DEF StoreInv, FenceInv, FenceConsistent
<1>4. m.id = deployment.id /\ deployment.status # "none"
  BY <1>1, <1>2, <1>3 DEF BindingsHold
<1>5. m.generation \in 1..Len(generations)
  BY <1>1, <1>4 DEF FitsIn
<1>6. generations[m.generation].status = "active"
  BY <1>2, <1>3, <1>4, <1>5 DEF BindingsHold
<1>7. deployment.activeGeneration = m.generation
  BY <1>5, <1>6 DEF StoreInv, FenceInv, FenceConsistent
<1> QED
  BY <1>1, <1>2, <1>4, <1>5, <1>6, <1>7 DEF Writes

\* So no step but a commit disturbs a worker.
LEMMA StepUndisturbed ==
    ASSUME StoreInv, [Next]_storeVars, commits' = commits,
           NEW m \in Worker, Sound(m), FitsIn(m, deployment, generations)
    PROVE  Undisturbed(m)
<1>1. /\ StoreInv' /\ BindingsHold /\ TypeOK
      /\ deployment \in Deployment /\ deployment.id \in Nat
      /\ generations \in Seq(Generation) /\ Len(generations) \in Nat
  BY StoreInvStep DEF StoreInv, FenceInv, TypeOK, Deployment
<1>2. ASSUME transactions' \subseteq transactions,
             \A g \in 1..Len(generations) : generations'[g].status = "retired"
      PROVE  Undisturbed(m)
  BY <1>1, <1>2, FencedIsUndisturbed
<1>3. ASSUME transactions' \subseteq transactions, deployment'.activeGeneration = 0
      PROVE  Undisturbed(m)
  BY <1>1, <1>3, FencedIsUndisturbed
<1>4. ASSUME transactions' \subseteq transactions, generations' = generations,
             deployment'.state = deployment.state,
             deployment'.stateRevision = deployment.stateRevision
      PROVE  Undisturbed(m)
  BY <1>1, <1>4, FencedIsUndisturbed
<1>5. CASE generations' = RetireAll(generations) /\ transactions' \subseteq transactions
  BY <1>1, <1>2, <1>5, RetireAllRows
<1>6. ASSUME NEW b \in Builders, DeployCommand(b)
      PROVE  Undisturbed(m)
  <2>1. ASSUME NEW artifact \in Artifacts, NEW config \in Configs,
               NEW state \in States, NEW expiry \in Expiries,
               DeployNew(b, artifact, config, state, expiry)
        PROVE  Undisturbed(m)
    BY <1>3, <2>1 DEF DeployNew
  <2> QED
    BY <1>4, <1>5, <1>6, <2>1
    DEF DeployCommand, StartBuild, Redeploy, ReplaceDeployment, DeployRefused, rows
<1>7. CASE OperatorCommand
  <2>1. ASSUME NEW expiry \in Expiries, ResumeDeployment(expiry)
        PROVE  Undisturbed(m)
    <3>1. deployment'.activeGeneration = 0 /\ transactions' = transactions
      BY <1>1, <2>1 DEF ResumeDeployment, Deployment
    <3> QED
      BY <1>3, <3>1
  <2>2. CASE PurgeDeployment
    <3>1. deployment'.activeGeneration = 0 /\ transactions' = {}
      BY <2>2 DEF PurgeDeployment, NoRow
    <3> QED
      BY <1>3, <3>1
  <2> QED
    BY <1>5, <1>7, <2>1, <2>2
    DEF OperatorCommand, PauseDeployment, ArchiveDeployment, ReplaceState,
        ClearCheckpoints
<1>8. CASE ExpiryPasses
  BY <1>1, <1>4, <1>8 DEF ExpiryPasses, Deployment
<1>9. CASE DaemonStep
  <2>1. CASE ActivateGeneration
    <3>1. transactions' = transactions
      BY <2>1 DEF ActivateGeneration
    <3>2. \A g \in 1..Len(generations) : generations'[g].status = "retired"
      BY <1>1, <2>1, ActivateGenerationRows DEF StoreInv, FenceInv
    <3> QED
      BY <1>2, <3>1, <3>2
  <2>2. ASSUME NEW g \in 1..Len(generations), MarkGenerationStopped(g)
        PROVE  Undisturbed(m)
    <3>1. UNCHANGED <<deployment, transactions>>
      BY <2>2 DEF MarkGenerationStopped
    <3>2. \A h \in 1..Len(generations) :
            generations'[h].lastSequence = generations[h].lastSequence
      BY <1>1, <2>2, RetireRows DEF MarkGenerationStopped
    <3> QED
      BY <1>1, <3>1, <3>2, FencedIsUndisturbed
  <2> QED
    BY <1>4, <1>5, <1>9, <2>1, <2>2
    DEF DaemonStep, DeactivateDueDeployments, RecoverGenerations,
        ListRuntimeMetadata, GetRuntimeDeployment, ActivationRefused,
        PruneTerminalOutbox, PruneRetiredTransactions, rows
<1>10. CASE WorkerStep
  <2>1. ASSUME NEW frame, NEW destination, CommitFrame(frame, destination)
        PROVE  FALSE
    <3>1. commits' = Append(commits, ack') /\ commits \in Seq(LedgerRow)
      BY <2>1 DEF CommitFrame, StoreInv, FenceInv, TypeOK
    <3>2. Len(commits') = Len(commits) + 1 /\ Len(commits) \in Nat
      BY <3>1
    <3> QED
      BY <3>2
  <2> QED
    BY <1>4, <1>10, <2>1 DEF WorkerStep, ApplyTransaction, ReplayFrame, rows
<1> QED
  BY <1>4, <1>6, <1>7, <1>8, <1>9, <1>10 DEF Next, storeVars, rows

\* And a commit disturbs the worker that sent the frame, and no other.
LEMMA CommitUndisturbed ==
    ASSUME StoreInv, NEW frame \in Frame, NEW destination,
           CommitFrame(frame, destination),
           NEW m, m.id # frame.id \/ m.generation # frame.generation
    PROVE  Undisturbed(m)
<1>1. /\ deployment'.activeGeneration = frame.generation
      /\ deployment'.id = deployment.id
  BY CommitFrameRows DEF StoreInv, FenceInv
<1>2. /\ frame.id = deployment.id
      /\ transactions' = transactions \cup
            {[frame |-> frame, result |-> deployment.stateRevision + 1]}
  BY DEF CommitFrame, Admitted
<1> QED
  BY <1>1, <1>2 DEF Undisturbed, Writes, Own

-----------------------------------------------------------------------------
(* The process *)

\* What is sent, answered and written has the types that it needs below.
LEMMA WireTypes ==
    ASSUME StoreInv, NEW m, Sound(m)
    PROVE  /\ m \in Worker
           /\ m.sequence \in Nat /\ m.revision \in Nat
           /\ m.frames \in Seq(Frame) /\ Len(m.frames) \in Nat
           /\ m.acks \in Seq(LedgerRow) /\ Len(m.acks) \in Nat
           /\ \A f \in Sent(m) : SentBy(m, f) /\ f \in Frame /\ f # None
           /\ InHand(m) \subseteq Sent(m)
           /\ \A f \in Answered(m) : f \in Frame /\ f # None
           /\ \A f \in Last(m) : f \in Frame /\ f # None
           /\ \A f \in Frame : f.sequence \in Nat /\ f.base \in Nat
           /\ \A t \in transactions : t.frame \in Frame
           /\ Writes(m, deployment, generations) =>
                /\ m.generation \in 1..Len(generations)
                /\ generations[m.generation].lastSequence \in Nat
                /\ deployment.stateRevision \in Nat
<1>1. /\ m \in Worker
      /\ m.sequence \in Nat /\ m.revision \in Nat
      /\ m.frames \in Seq(Frame) /\ Len(m.frames) \in Nat
      /\ m.acks \in Seq(LedgerRow) /\ Len(m.acks) \in Nat
      /\ m.last \in LedgerRow \cup {None}
  BY DEF Sound, Worker
<1>2. \A f \in Sent(m) : SentBy(m, f) /\ f \in Frame /\ f # None
  BY FrameAssumption DEF Sound, Sent, InHand, SentBy
<1>3. \A f \in Answered(m) \cup Last(m) : f \in Frame /\ f # None
  <2>1. \A row \in LedgerRow : row.frame \in Frame /\ row.frame # None
    BY FrameAssumption DEF LedgerRow
  <2> QED
    BY <1>1, <2>1 DEF Answered, Last
<1>4. /\ \A f \in Frame : f.sequence \in Nat /\ f.base \in Nat
      /\ \A t \in transactions : t.frame \in Frame
  BY DEF Frame, LedgerRow, StoreInv, FenceInv, TypeOK
<1>5. ASSUME Writes(m, deployment, generations)
      PROVE  /\ m.generation \in 1..Len(generations)
             /\ generations[m.generation].lastSequence \in Nat
             /\ deployment.stateRevision \in Nat
  <2>1. /\ deployment.activeGeneration \in {0, Len(generations)}
        /\ generations \in Seq(Generation) /\ Len(generations) \in Nat
        /\ deployment.stateRevision \in Nat
    BY DEF StoreInv, FenceInv, FenceConsistent, TypeOK, Deployment
  <2>2. m.generation >= 1 /\ m.generation \in Nat
    BY BoundsAssumption DEF Sound
  <2>3. m.generation \in 1..Len(generations)
    BY <1>5, <2>1, <2>2 DEF Writes
  <2>4. generations[m.generation] \in Generation
    BY <2>1, <2>3
  <2> QED
    BY <2>1, <2>3, <2>4 DEF Generation
<1> QED
  BY <1>1, <1>2, <1>3, <1>4, <1>5 DEF Sent

\* A frame that is new to the wire is the next of its sequence, at the row's
\* revision if its generation may write.
LEMMA CommitAgrees ==
    ASSUME StoreInv, NEW m, Sound(m),
           Agrees(m, deployment, generations, transactions),
           NEW payload \in Payloads, m.process = "running", m.pending = None
    PROVE  Agrees(Committed(m, payload), deployment, generations, transactions)
<1> DEFINE frame == NextFrame(m, payload)
           new == Committed(m, payload)
<1>1. /\ m \in Worker /\ m.sequence \in Nat /\ m.arrived = None
      /\ m.frames \in Seq(Frame)
  BY WireTypes DEF Sound
<1>2. frame.sequence = m.sequence + 1 /\ frame.base = m.revision
  BY DEF NextFrame
<1>3. frame # None
  <2>1. frame \in Frame
    BY <1>1, PayloadsAssumption DEF Frame, NextFrame, Worker
  <2> QED
    BY <2>1, FrameAssumption
<1> HIDE DEF frame
<1>4. /\ new.id = m.id /\ new.generation = m.generation
      /\ new.bound = m.bound /\ new.process = m.process /\ new.state = m.state
      /\ new.acks = m.acks /\ new.arrived = None /\ new.last = m.last
      /\ new.revision = m.revision /\ new.sequence = m.sequence + 1
      /\ new.pending = frame /\ new.frames = Append(m.frames, frame)
  BY <1>1 DEF Worker, Committed, frame
<1> HIDE DEF new
<1>5. /\ Len(m.frames) \in Nat /\ Len(new.frames) = Len(m.frames) + 1
      /\ \A i \in 1..Len(m.frames) : new.frames[i] = m.frames[i]
      /\ new.frames[Len(m.frames) + 1] = frame
  BY <1>1, <1>4
<1>6. /\ InHand(new) = InHand(m) \cup {frame}
      /\ Sent(m) = InHand(m) /\ Sent(new) = InHand(m) \cup {frame}
      /\ Answered(new) = Answered(m) /\ Last(new) = Last(m)
  <2>1. {new.frames[i] : i \in 1..Len(new.frames)} =
            {m.frames[i] : i \in 1..Len(m.frames)} \cup {frame}
    BY <1>5
  <2>2. InHand(new) = InHand(m) \cup {frame}
    BY <1>4, <2>1 DEF InHand
  <2> QED
    BY <1>3, <1>4, <2>2 DEF Sent, Answered, Last
<1>7. \A f \in InHand(m) \cup Answered(m) :
            f \in Frame /\ f # None /\ f.sequence \in Nat /\ f.sequence <= m.sequence
  BY WireTypes DEF Agrees, SessionAt
<1>8. frame \notin InHand(m) \cup Answered(m)
  BY <1>1, <1>2, <1>7
<1>9. \A t \in transactions : Own(m, t) =>
            t.frame.sequence \in Nat /\ t.frame.sequence <= m.sequence
  BY WireTypes DEF Agrees, SessionAt
<1>10. Writes(m, deployment, generations) =>
        /\ generations[m.generation].lastSequence = m.sequence
        /\ deployment.stateRevision = m.revision
        /\ deployment.state = m.state
  BY DEF Agrees, SessionAt
<1>11. /\ \A t : Own(new, t) <=> Own(m, t)
       /\ Writes(new, deployment, generations) <=> Writes(m, deployment, generations)
  BY <1>4 DEF Own, Writes
<1>12. WireAgrees(new, deployment, generations, transactions)
  <2>1. \A f, h \in Sent(new) : f.sequence = h.sequence => f = h
    BY <1>1, <1>2, <1>6, <1>7 DEF Agrees, WireAgrees
  <2>2. \A f \in Sent(new) : \A t \in transactions :
            Own(new, t) /\ t.frame.sequence = f.sequence => t.frame = f
    BY <1>1, <1>2, <1>6, <1>9, <1>11 DEF Agrees, WireAgrees
  <2>3. Writes(new, deployment, generations) => \A f \in Sent(new) :
            \/ f.sequence <= generations[new.generation].lastSequence
            \/ /\ f.sequence = generations[new.generation].lastSequence + 1
               /\ f.base = deployment.stateRevision
    BY <1>2, <1>4, <1>6, <1>10, <1>11 DEF Agrees, WireAgrees
  <2> QED
    BY <2>1, <2>2, <2>3 DEF WireAgrees
<1>13. SessionAt(new, deployment, generations, transactions)
  <2>1. \A t \in transactions : Own(new, t) => t.frame.sequence <= new.sequence
    BY <1>1, <1>4, <1>9, <1>11
  <2>2. \A f \in InHand(new) \cup Answered(new) : f.sequence <= new.sequence
    BY <1>1, <1>2, <1>4, <1>6, <1>7
  <2> QED
    BY <1>1, <1>2, <1>3, <1>4, <1>10, <1>11, <2>1, <2>2 DEF SessionAt
<1>14. PipesInOrder(new, deployment, generations)
  <2>1. /\ m.last # None => m.last.result = m.last.frame.base + 1
        /\ InHand(m) \cup Answered(m) \subseteq Last(m)
    BY <1>7 DEF Agrees, PipesInOrder
  <2>2. m.bound # None => m.bound.frame \in InHand(m)
    BY DEF InHand
  <2>3. \A i \in 1..Len(m.acks) : m.acks[i].frame \in Answered(m)
    BY DEF Answered
  <2>4. \A i \in 1..Len(m.frames) : m.frames[i] \in InHand(m)
    BY DEF InHand
  <2> QED
    BY <1>4, <1>5, <1>6, <1>8, <2>1, <2>2, <2>3, <2>4 DEF PipesInOrder
<1> QED
  BY <1>12, <1>13, <1>14 DEF Agrees, new

\* A frame that is sent again is behind every other.
LEMMA ResendAgrees ==
    ASSUME StoreInv, NEW m, Sound(m),
           Agrees(m, deployment, generations, transactions),
           m.process = "running", m.pending # None
    PROVE  Agrees(Resent(m), deployment, generations, transactions)
<1> DEFINE new == Resent(m)
<1>1. /\ m \in Worker /\ m.frames \in Seq(Frame) /\ m.pending \in Sent(m)
      /\ m.sequence \in Nat /\ m.pending \in Frame
  BY WireTypes DEF Sent
<1>2. /\ new.id = m.id /\ new.generation = m.generation
      /\ new.bound = m.bound /\ new.process = m.process /\ new.state = m.state
      /\ new.acks = m.acks /\ new.arrived = m.arrived /\ new.last = m.last
      /\ new.revision = m.revision /\ new.sequence = m.sequence
      /\ new.pending = m.pending /\ new.frames = Append(m.frames, m.pending)
  BY <1>1 DEF Worker, Resent
<1> HIDE DEF new
<1>3. /\ Len(m.frames) \in Nat /\ Len(new.frames) = Len(m.frames) + 1
      /\ \A i \in 1..Len(m.frames) : new.frames[i] = m.frames[i]
      /\ new.frames[Len(m.frames) + 1] = m.pending
  BY <1>1, <1>2
<1>4. /\ InHand(new) = InHand(m) \cup {m.pending} /\ Sent(new) = Sent(m)
      /\ Answered(new) = Answered(m) /\ Last(new) = Last(m)
  <2>1. {new.frames[i] : i \in 1..Len(new.frames)} =
            {m.frames[i] : i \in 1..Len(m.frames)} \cup {m.pending}
    BY <1>3
  <2>2. InHand(new) = InHand(m) \cup {m.pending}
    BY <1>2, <2>1 DEF InHand
  <2> QED
    BY <1>2, <2>2 DEF Sent, Answered, Last
<1>5. /\ \A t : Own(new, t) <=> Own(m, t)
      /\ Writes(new, deployment, generations) <=> Writes(m, deployment, generations)
  BY <1>2 DEF Own, Writes
<1>6. WireAgrees(new, deployment, generations, transactions)
  BY <1>2, <1>4, <1>5 DEF Agrees, WireAgrees
<1>7. SessionAt(new, deployment, generations, transactions)
  <2>1. \A f \in InHand(new) \cup Answered(new) : f.sequence <= new.sequence
    BY <1>1, <1>2, <1>4 DEF Agrees, SessionAt
  <2> QED
    BY <1>2, <1>5, <2>1 DEF Agrees, SessionAt
<1>8. PipesInOrder(new, deployment, generations)
  <2>1. \A i, j \in 1..Len(new.frames) :
            i < j /\ new.frames[i] = m.pending => new.frames[j] = m.pending
    BY <1>3 DEF Agrees, PipesInOrder
  <2> QED
    BY <1>2, <1>3, <1>4, <1>5, <2>1 DEF Agrees, PipesInOrder
<1> QED
  BY <1>6, <1>7, <1>8 DEF Agrees, new

\* Once the process is not running, only what is left of the frames counts.
LEMMA LessAgrees ==
    ASSUME NEW row, NEW gens, NEW ledger, NEW m, Agrees(m, row, gens, ledger),
           NEW new, new.id = m.id, new.generation = m.generation,
           Sent(new) \subseteq Sent(m), new.process # "running"
    PROVE  Agrees(new, row, gens, ledger)
<1>1. /\ \A t : Own(new, t) <=> Own(m, t)
      /\ Writes(new, row, gens) <=> Writes(m, row, gens)
  BY DEF Own, Writes
<1>2. WireAgrees(new, row, gens, ledger)
  BY <1>1 DEF Agrees, WireAgrees
<1> QED
  BY <1>2 DEF Agrees, SessionAt, PipesInOrder

\* A relay that lets go of a frame, or does nothing to them, leaves the process
\* as it is.
LEMMA DroppedAgrees ==
    ASSUME NEW row, NEW gens, NEW ledger, NEW m, Agrees(m, row, gens, ledger),
           NEW new, new.id = m.id, new.generation = m.generation,
           new.bound \in {None, m.bound}, new.frames = m.frames,
           new.process = m.process, new.state = m.state,
           new.sequence = m.sequence, new.revision = m.revision,
           new.pending = m.pending, new.arrived = m.arrived,
           new.last = m.last, new.acks = m.acks
    PROVE  Agrees(new, row, gens, ledger)
<1>1. /\ \A t : Own(new, t) <=> Own(m, t)
      /\ Writes(new, row, gens) <=> Writes(m, row, gens)
      /\ InHand(new) \subseteq InHand(m) /\ Sent(new) \subseteq Sent(m)
      /\ Answered(new) = Answered(m) /\ Last(new) = Last(m)
  BY DEF Own, Writes, InHand, Sent, Answered, Last
<1>2. WireAgrees(new, row, gens, ledger)
  BY <1>1 DEF Agrees, WireAgrees
<1>3. SessionAt(new, row, gens, ledger)
  BY <1>1 DEF Agrees, SessionAt
<1>4. PipesInOrder(new, row, gens)
  BY <1>1 DEF Agrees, PipesInOrder
<1> QED
  BY <1>2, <1>3, <1>4 DEF Agrees

\* A row of the ledger is its frame and the revision after the frame's base.
LEMMA SameReceipt ==
    ASSUME NEW a \in LedgerRow, NEW b \in LedgerRow, a.frame = b.frame,
           a.result = a.frame.base + 1, b.result = b.frame.base + 1
    PROVE  a = b
BY DEF LedgerRow

\* The next ACK is of the commit acknowledged last, or of the one waited for.
LEMMA NextAck ==
    ASSUME StoreInv, NEW m, Sound(m),
           Agrees(m, deployment, generations, transactions),
           m.process = "running", m.acks # <<>>
    PROVE  \/ Duplicate(m, Head(m.acks))
           \/ /\ m.pending # None /\ Head(m.acks).frame = m.pending
              /\ m.arrived \in {None, Head(m.acks)}
<1> DEFINE given == Head(m.acks)
<1>1. /\ given = m.acks[1] /\ 1 \in 1..Len(m.acks) /\ given \in LedgerRow
      /\ m.last \in LedgerRow \cup {None} /\ m.arrived \in LedgerRow \cup {None}
  BY WireTypes DEF Worker
<1>2. /\ given.frame \in Answered(m) /\ given.frame # None
      /\ given.result = given.frame.base + 1
  <2>1. given.frame \in Answered(m)
    BY <1>1 DEF Answered
  <2>2. given.frame # None
    BY <2>1, WireTypes
  <2>3. given.result = given.frame.base + 1
    BY <1>1 DEF Sound
  <2> QED
    BY <2>1, <2>2, <2>3
<1> HIDE DEF given
<1>3. given.frame \in Last(m) \cup {m.pending}
  BY <1>2 DEF Agrees, PipesInOrder
<1>4. CASE given.frame \in Last(m)
  <2>1. /\ m.last # None /\ m.last.frame = given.frame
        /\ m.last.result = m.last.frame.base + 1
    BY <1>4 DEF Last, Agrees, PipesInOrder
  <2> QED
    BY <1>1, <1>2, <2>1, SameReceipt DEF Duplicate, given
<1>5. CASE given.frame = m.pending
  <2>1. m.arrived # None =>
            /\ m.arrived.frame = given.frame
            /\ m.arrived.result = m.arrived.frame.base + 1
    BY <1>5 DEF Sound
  <2>2. m.arrived \in {None, given}
    BY <1>1, <1>2, <2>1, SameReceipt
  <2> QED
    BY <1>2, <1>5, <2>2 DEF given
<1> QED
  BY <1>3, <1>4, <1>5

\* Taking it moves what is waited for one step along the way back.
LEMMA ReceiveAgrees ==
    ASSUME StoreInv, NEW m, Sound(m),
           Agrees(m, deployment, generations, transactions),
           m.process = "running", m.acks # <<>>
    PROVE  Agrees(Received(m), deployment, generations, transactions)
<1> DEFINE new == Received(m)
           given == Head(m.acks)
           arrived == IF Duplicate(m, given) THEN m.arrived ELSE given
<1>1. /\ m \in Worker /\ Tail(m.acks) \in Seq(LedgerRow)
      /\ given = m.acks[1] /\ Len(Tail(m.acks)) = Len(m.acks) - 1
      /\ Len(m.acks) \in Nat /\ Len(m.acks) >= 1
      /\ \A i \in 1..Len(Tail(m.acks)) :
            Tail(m.acks)[i] = m.acks[i + 1] /\ i + 1 \in 1..Len(m.acks)
  BY WireTypes
<1>2. Duplicate(m, given) \/ given.frame = m.pending
  BY NextAck
<1> HIDE DEF given
<1>3. new = [m EXCEPT !.acks = Tail(@), !.arrived = arrived]
  BY DEF given, Received
<1>4. /\ new.id = m.id /\ new.generation = m.generation
      /\ new.bound = m.bound /\ new.process = m.process /\ new.state = m.state
      /\ new.acks = Tail(m.acks) /\ new.arrived = arrived /\ new.last = m.last
      /\ new.revision = m.revision /\ new.sequence = m.sequence
      /\ new.pending = m.pending /\ new.frames = m.frames
  BY <1>1, <1>3 DEF Worker
<1> HIDE DEF new, arrived
<1>5. /\ InHand(new) = InHand(m) /\ Sent(new) = Sent(m)
      /\ Answered(new) \subseteq Answered(m) /\ Last(new) = Last(m)
      /\ given.frame \in Answered(m)
  BY <1>1, <1>4 DEF InHand, Sent, Answered, Last
<1>6. /\ \A t : Own(new, t) <=> Own(m, t)
      /\ Writes(new, deployment, generations) <=> Writes(m, deployment, generations)
  BY <1>4 DEF Own, Writes
<1>7. WireAgrees(new, deployment, generations, transactions)
  BY <1>4, <1>5, <1>6 DEF Agrees, WireAgrees
<1>8. SessionAt(new, deployment, generations, transactions)
  BY <1>4, <1>5, <1>6 DEF Agrees, SessionAt
<1>9. PipesInOrder(new, deployment, generations)
  <2>1. \A i, j \in 1..Len(new.acks) :
            i < j /\ new.acks[i].frame = m.pending => new.acks[j].frame = m.pending
    <3> SUFFICES ASSUME NEW i \in 1..Len(new.acks), NEW j \in 1..Len(new.acks),
                        i < j, new.acks[i].frame = m.pending
                 PROVE  new.acks[j].frame = m.pending
      OBVIOUS
    <3>1. /\ new.acks[i] = m.acks[i + 1] /\ new.acks[j] = m.acks[j + 1]
          /\ i + 1 \in 1..Len(m.acks) /\ j + 1 \in 1..Len(m.acks) /\ i + 1 < j + 1
      BY <1>1, <1>4
    <3> QED
      BY <3>1 DEF Agrees, PipesInOrder
  <2>2. new.arrived # None =>
            Answered(new) \subseteq {m.pending} /\ m.pending \in Answered(m) \cup
                (IF m.arrived = None THEN {} ELSE {m.pending})
    <3>1. CASE Duplicate(m, given)
      BY <1>4, <1>5, <3>1 DEF arrived, Agrees, PipesInOrder
    <3>2. CASE ~Duplicate(m, given)
      <4>1. given.frame = m.pending
        BY <1>2, <3>2
      <4>2. \A i \in 1..Len(new.acks) : new.acks[i].frame = m.pending
        <5> SUFFICES ASSUME NEW i \in 1..Len(new.acks)
                     PROVE  new.acks[i].frame = m.pending
          OBVIOUS
        <5>1. /\ new.acks[i] = m.acks[i + 1] /\ i + 1 \in 1..Len(m.acks)
              /\ 1 \in 1..Len(m.acks) /\ 1 < i + 1
          BY <1>1, <1>4
        <5> QED
          BY <1>1, <4>1, <5>1 DEF Agrees, PipesInOrder
      <4> QED
        BY <1>5, <4>1, <4>2 DEF Answered
    <3> QED
      BY <3>1, <3>2
  <2> QED
    BY <1>4, <1>5, <1>6, <2>1, <2>2 DEF Agrees, PipesInOrder
<1> QED
  BY <1>7, <1>8, <1>9 DEF Agrees, new

\* What the process waited for is applied by the time that it is told.
LEMMA AcceptAgrees ==
    ASSUME StoreInv, NEW m, Sound(m),
           Agrees(m, deployment, generations, transactions),
           m.process = "running", m.arrived # None
    PROVE  Agrees(Accepted(m), deployment, generations, transactions)
<1> DEFINE new == Accepted(m)
<1>1. /\ m \in Worker /\ m.pending # None
      /\ m.arrived.frame = m.pending /\ m.arrived.result = m.revision + 1
      /\ m.arrived.result = m.arrived.frame.base + 1
      /\ m.sequence \in Nat /\ m.revision \in Nat
  BY WireTypes DEF Sound
<1>2. /\ new.id = m.id /\ new.generation = m.generation
      /\ new.bound = m.bound /\ new.process = m.process
      /\ new.state = m.pending.payload.state
      /\ new.acks = m.acks /\ new.arrived = None /\ new.last = m.arrived
      /\ new.revision = m.revision + 1 /\ new.sequence = m.sequence
      /\ new.pending = None /\ new.frames = m.frames
  BY <1>1 DEF Worker, Accepted, Adopted
<1> HIDE DEF new
<1>3. /\ InHand(new) = InHand(m) /\ Sent(new) \subseteq Sent(m)
      /\ Answered(new) = Answered(m) /\ Last(new) = {m.pending}
  BY <1>1, <1>2 DEF InHand, Sent, Answered, Last
<1>4. /\ \A t : Own(new, t) <=> Own(m, t)
      /\ Writes(new, deployment, generations) <=> Writes(m, deployment, generations)
  BY <1>2 DEF Own, Writes
<1>5. /\ InHand(m) \subseteq {m.pending} /\ Answered(m) \subseteq {m.pending}
      /\ Writes(m, deployment, generations) =>
            m.sequence <= generations[m.generation].lastSequence
  BY DEF Agrees, PipesInOrder
<1>6. WireAgrees(new, deployment, generations, transactions)
  BY <1>2, <1>3, <1>4 DEF Agrees, WireAgrees
<1>7. SessionAt(new, deployment, generations, transactions)
  <2>1. Writes(m, deployment, generations) =>
            /\ generations[m.generation].lastSequence = m.sequence
            /\ deployment.stateRevision = m.revision + 1
            /\ deployment.state = m.pending.payload.state
    BY <1>1, <1>5, WireTypes DEF Agrees, SessionAt
  <2>2. /\ \A t \in transactions : Own(new, t) => t.frame.sequence <= new.sequence
        /\ \A f \in InHand(new) \cup Answered(new) : f.sequence <= new.sequence
    BY <1>2, <1>3, <1>4 DEF Agrees, SessionAt
  <2> QED
    BY <1>1, <1>2, <1>4, <2>1, <2>2 DEF SessionAt
<1>8. PipesInOrder(new, deployment, generations)
  <2>1. \A i \in 1..Len(new.acks) : new.acks[i].frame # None
    BY <1>2, WireTypes DEF Answered
  <2>2. \A i \in 1..Len(new.frames) : new.frames[i] # None
    BY <1>2, WireTypes DEF Sent, InHand
  <2>3. new.bound # None => new.bound.frame # None
    BY <1>2, WireTypes DEF Sent, InHand
  <2>4. None \notin Answered(new)
    BY <2>1 DEF Answered
  <2> QED
    BY <1>1, <1>2, <1>3, <1>5, <2>1, <2>2, <2>3, <2>4 DEF PipesInOrder
<1> QED
  BY <1>6, <1>7, <1>8 DEF Agrees, new

\* So each step of a process keeps the agreement.
LEMMA ProcessAgrees ==
    ASSUME StoreInv, NEW m, Sound(m),
           Agrees(m, deployment, generations, transactions),
           NEW new, ProcessOutcome(m, new)
    PROVE  Agrees(new, deployment, generations, transactions)
<1>1. m \in Worker
  BY DEF Sound
<1>2. CASE new = GivenUp(m)
  <2>1. /\ new.id = m.id /\ new.generation = m.generation
        /\ new.process # "running" /\ new.pending = None
        /\ new.frames = m.frames /\ new.bound = m.bound
    BY <1>1, <1>2 DEF Worker, GivenUp
  <2> QED
    BY <2>1, LessAgrees DEF Sent, InHand
<1>3. CASE new = Exited(m)
  <2>1. /\ new.id = m.id /\ new.generation = m.generation
        /\ new.process # "running" /\ new.pending = None
        /\ new.frames = m.frames /\ new.bound = m.bound
    BY <1>1, <1>3 DEF Worker, Exited
  <2> QED
    BY <2>1, LessAgrees DEF Sent, InHand
<1>4. CASE m.process # "running" /\ new = Received(m)
  <2>1. /\ new.id = m.id /\ new.generation = m.generation
        /\ new.process # "running" /\ new.pending = m.pending
        /\ new.frames = m.frames /\ new.bound = m.bound
    BY <1>1, <1>4 DEF Worker, Received
  <2> QED
    BY <2>1, LessAgrees DEF Sent, InHand
<1> QED
  BY <1>2, <1>3, <1>4, CommitAgrees, ResendAgrees, ReceiveAgrees, AcceptAgrees
  DEF ProcessOutcome

-----------------------------------------------------------------------------
(* The relay *)

\* A frame that is taken is still in the relay's hand, before the rest.
LEMMA TakenAgrees ==
    ASSUME NEW row, NEW gens, NEW ledger, NEW m, Sound(m),
           Agrees(m, row, gens, ledger), m.bound = None, m.frames # <<>>
    PROVE  Agrees(Taken(m), row, gens, ledger)
<1> DEFINE new == Taken(m)
           frame == Head(m.frames)
<1>1. /\ m \in Worker /\ frame \in Frame /\ frame = m.frames[1]
      /\ Len(Tail(m.frames)) = Len(m.frames) - 1
      /\ Len(m.frames) \in Nat /\ Len(m.frames) >= 1
      /\ \A i \in 1..Len(Tail(m.frames)) :
            Tail(m.frames)[i] = m.frames[i + 1] /\ i + 1 \in 1..Len(m.frames)
  <2>1. m \in Worker /\ m.frames \in Seq(Frame)
    BY DEF Sound, Worker
  <2> QED
    BY <2>1
<1>2. /\ new.id = m.id /\ new.generation = m.generation
      /\ new.bound = [frame |-> frame, destination |-> Bindings(frame)]
      /\ new.process = m.process /\ new.state = m.state
      /\ new.acks = m.acks /\ new.arrived = m.arrived /\ new.last = m.last
      /\ new.revision = m.revision /\ new.sequence = m.sequence
      /\ new.pending = m.pending /\ new.frames = Tail(m.frames)
  BY <1>1 DEF Worker, Taken
<1>3. new.bound.frame = frame
  BY <1>2
<1> HIDE DEF new, frame
<1>4. /\ InHand(new) \subseteq InHand(m) /\ Sent(new) \subseteq Sent(m)
      /\ Answered(new) = Answered(m) /\ Last(new) = Last(m)
  <2>1. /\ frame \in {m.frames[i] : i \in 1..Len(m.frames)}
        /\ \A i \in 1..Len(new.frames) :
                new.frames[i] \in {m.frames[j] : j \in 1..Len(m.frames)}
    BY <1>1, <1>2
  <2>2. InHand(new) \subseteq InHand(m)
    BY <1>3, <2>1 DEF InHand
  <2> QED
    BY <1>2, <2>2 DEF Sent, Answered, Last
<1>5. /\ \A t : Own(new, t) <=> Own(m, t)
      /\ Writes(new, row, gens) <=> Writes(m, row, gens)
  BY <1>2 DEF Own, Writes
<1>6. WireAgrees(new, row, gens, ledger)
  BY <1>2, <1>4, <1>5 DEF Agrees, WireAgrees
<1>7. SessionAt(new, row, gens, ledger)
  BY <1>2, <1>4, <1>5 DEF Agrees, SessionAt
<1>8. PipesInOrder(new, row, gens)
  <2> SUFFICES ASSUME m.process = "running"
               PROVE  PipesInOrder(new, row, gens)
    BY <1>2 DEF PipesInOrder
  <2>1. ASSUME NEW i \in 1..Len(new.frames)
        PROVE  /\ new.frames[i] = m.frames[i + 1]
               /\ i + 1 \in 1..Len(m.frames) /\ 1 \in 1..Len(m.frames)
               /\ 1 < i + 1
    BY <1>1, <1>2
  <2>2. frame = m.pending =>
            \A i \in 1..Len(new.frames) : new.frames[i] = m.pending
    BY <1>1, <2>1 DEF Agrees, PipesInOrder
  <2>3. \A i, j \in 1..Len(new.frames) :
            i < j /\ new.frames[i] = m.pending => new.frames[j] = m.pending
    <3> SUFFICES ASSUME NEW i \in 1..Len(new.frames), NEW j \in 1..Len(new.frames),
                        i < j, new.frames[i] = m.pending
                 PROVE  new.frames[j] = m.pending
      OBVIOUS
    <3>1. i + 1 < j + 1
      BY <1>1, <1>2
    <3> QED
      BY <2>1, <3>1 DEF Agrees, PipesInOrder
  <2> QED
    BY <1>2, <1>3, <1>4, <1>5, <2>2, <2>3 DEF Agrees, PipesInOrder
<1> QED
  BY <1>6, <1>7, <1>8 DEF Agrees, new

\* The frame that is admitted is the one that its process waits for, if it does:
\* what went before is applied, and nothing can have been sent after it.
LEMMA AppliedAgrees ==
    ASSUME StoreInv, NEW m, Sound(m),
           Agrees(m, deployment, generations, transactions),
           m.bound # None, NEW destination,
           CommitFrame(m.bound.frame, destination)
    PROVE  /\ Agrees(m, deployment', generations', transactions')
           /\ generations'[m.generation].lastSequence = m.bound.frame.sequence
<1> DEFINE frame == m.bound.frame
           last == generations[m.generation].lastSequence
<1>1. /\ frame \in InHand(m) /\ frame \in Sent(m) /\ frame \in Frame
      /\ frame.id = m.id /\ frame.generation = m.generation
      /\ frame.sequence \in Nat /\ frame.base \in Nat
  <2>1. frame \in InHand(m) /\ frame \in Sent(m)
    BY DEF InHand, Sent
  <2> QED
    BY <2>1, WireTypes DEF SentBy
<1> HIDE DEF frame
<1>2. /\ deployment'.id = deployment.id
      /\ deployment'.activeGeneration = deployment.activeGeneration
      /\ deployment'.state = frame.payload.state
      /\ deployment'.stateRevision = deployment.stateRevision + 1
      /\ generations'[m.generation].status = "active"
      /\ generations[m.generation].status = "active"
      /\ generations'[m.generation].lastSequence = frame.sequence
  BY <1>1, CommitFrameRows DEF StoreInv, FenceInv, frame
<1>3. /\ frame.sequence = last + 1 /\ frame.base = deployment.stateRevision
      /\ m.id = deployment.id /\ deployment.activeGeneration = m.generation
      /\ transactions' = transactions \cup
            {[frame |-> frame, result |-> deployment.stateRevision + 1]}
  BY <1>1 DEF CommitFrame, Admitted, frame
<1>4. /\ Writes(m, deployment, generations)
      /\ Writes(m, deployment', generations')
  BY <1>2, <1>3 DEF Writes
<1>5. last \in Nat /\ deployment.stateRevision \in Nat /\ m.sequence \in Nat
  BY <1>4, WireTypes
<1>6. \A t \in transactions' : t \in transactions \/ t.frame = frame
  BY <1>3
<1>7. WireAgrees(m, deployment', generations', transactions')
  <2>1. \A f \in Sent(m) : \A t \in transactions' :
            Own(m, t) /\ t.frame.sequence = f.sequence => t.frame = f
    BY <1>1, <1>6 DEF Agrees, WireAgrees
  <2>2. \A f \in Sent(m) : f.sequence <= generations'[m.generation].lastSequence
    BY <1>2, <1>3, <1>4, <1>5, WireTypes DEF Agrees, WireAgrees
  <2> QED
    BY <2>1, <2>2 DEF Agrees, WireAgrees
<1>8. SessionAt(m, deployment', generations', transactions')
  <2> SUFFICES ASSUME m.process = "running"
               PROVE  SessionAt(m, deployment', generations', transactions')
    BY DEF SessionAt
  <2>1. frame.sequence <= m.sequence /\ last <= m.sequence
    BY <1>1, <1>4 DEF Agrees, SessionAt
  <2>2. m.pending # None
    BY <1>3, <1>4, <1>5, <2>1 DEF Agrees, SessionAt
  <2>3. m.pending \in Sent(m) /\ m.pending.sequence = m.sequence
    BY <2>2 DEF Sent, Agrees, SessionAt
  <2>4. m.sequence = frame.sequence
    BY <1>3, <1>4, <1>5, <2>1, <2>3 DEF Agrees, WireAgrees
  <2>5. frame = m.pending
    BY <1>1, <2>3, <2>4 DEF Agrees, WireAgrees
  <2>6. deployment.stateRevision = m.revision
    BY <1>3, <1>4, <1>5, <2>1, <2>4 DEF Agrees, SessionAt
  <2>7. \A t \in transactions' : Own(m, t) => t.frame.sequence <= m.sequence
    BY <1>6, <2>1 DEF Agrees, SessionAt
  <2> QED
    BY <1>2, <1>5, <2>2, <2>4, <2>5, <2>6, <2>7 DEF Agrees, SessionAt
<1>9. PipesInOrder(m, deployment', generations')
  <2>1. ASSUME m.sequence <= last
        PROVE  m.sequence <= generations'[m.generation].lastSequence
    BY <1>2, <1>3, <1>5, <2>1
  <2> QED
    BY <1>4, <2>1 DEF Agrees, PipesInOrder
<1> QED
  BY <1>2, <1>7, <1>8, <1>9 DEF Agrees, frame

\* The ACK of the frame in hand is behind every other.
LEMMA AckedAgrees ==
    ASSUME NEW row, NEW gens, NEW ledger, NEW m, Sound(m),
           Agrees(m, row, gens, ledger), m.bound # None,
           NEW given \in LedgerRow, given.frame = m.bound.frame,
           Writes(m, row, gens) =>
                m.bound.frame.sequence <= gens[m.generation].lastSequence
    PROVE  Agrees(Acked(m, given), row, gens, ledger)
<1> DEFINE new == Acked(m, given)
<1>1. m \in Worker /\ m.acks \in Seq(LedgerRow)
  BY DEF Sound, Worker
<1>2. /\ new.id = m.id /\ new.generation = m.generation
      /\ new.bound = None /\ new.process = m.process /\ new.state = m.state
      /\ new.acks = Append(m.acks, given) /\ new.arrived = m.arrived
      /\ new.revision = m.revision /\ new.sequence = m.sequence
      /\ new.pending = m.pending /\ new.frames = m.frames /\ new.last = m.last
  BY <1>1 DEF Worker, Acked
<1> HIDE DEF new
<1>3. /\ Len(m.acks) \in Nat /\ Len(new.acks) = Len(m.acks) + 1
      /\ \A i \in 1..Len(m.acks) : new.acks[i] = m.acks[i]
      /\ new.acks[Len(m.acks) + 1] = given
  BY <1>1, <1>2
<1>4. /\ InHand(new) \subseteq InHand(m) /\ Sent(new) \subseteq Sent(m)
      /\ Last(new) = Last(m) /\ given.frame \in InHand(m)
      /\ Answered(new) = Answered(m) \cup {given.frame}
  <2>1. Answered(new) = Answered(m) \cup {given.frame}
    BY <1>3 DEF Answered
  <2> QED
    BY <1>2, <2>1 DEF InHand, Sent, Last
<1>5. /\ \A t : Own(new, t) <=> Own(m, t)
      /\ Writes(new, row, gens) <=> Writes(m, row, gens)
  BY <1>2 DEF Own, Writes
<1>6. WireAgrees(new, row, gens, ledger)
  BY <1>2, <1>4, <1>5 DEF Agrees, WireAgrees
<1>7. SessionAt(new, row, gens, ledger)
  BY <1>2, <1>4, <1>5 DEF Agrees, SessionAt
<1>8. PipesInOrder(new, row, gens)
  <2> SUFFICES ASSUME m.process = "running"
               PROVE  PipesInOrder(new, row, gens)
    BY <1>2 DEF PipesInOrder
  <2>1. given.frame = m.pending =>
            /\ InHand(new) \subseteq {m.pending}
            /\ Writes(m, row, gens) => m.sequence <= gens[m.generation].lastSequence
    <3> SUFFICES ASSUME given.frame = m.pending
                 PROVE  /\ InHand(new) \subseteq {m.pending}
                        /\ Writes(m, row, gens) =>
                            m.sequence <= gens[m.generation].lastSequence
      OBVIOUS
    <3>1. m.pending # None
      <4>1. given.frame # None
        BY FrameAssumption DEF LedgerRow
      <4> QED
        BY <4>1
    <3>2. m.pending.sequence = m.sequence
      BY <3>1 DEF Agrees, SessionAt
    <3>3. \A j \in 1..Len(m.frames) : m.frames[j] = m.pending
      BY DEF Agrees, PipesInOrder
    <3>4. InHand(new) \subseteq {m.pending}
      BY <1>2, <3>3 DEF InHand
    <3> QED
      BY <3>2, <3>4
  <2>2. m.arrived # None \/ m.pending \in Answered(m) => given.frame = m.pending
    BY <1>4 DEF Agrees, PipesInOrder
  <2>3. \A i, j \in 1..Len(new.acks) :
            i < j /\ new.acks[i].frame = m.pending => new.acks[j].frame = m.pending
    <3> SUFFICES ASSUME NEW i \in 1..Len(new.acks), NEW j \in 1..Len(new.acks),
                        i < j, new.acks[i].frame = m.pending
                 PROVE  new.acks[j].frame = m.pending
      OBVIOUS
    <3>1. i \in 1..Len(m.acks) /\ new.acks[i] = m.acks[i]
      BY <1>3
    <3>2. CASE j \in 1..Len(m.acks)
      BY <1>3, <3>1, <3>2 DEF Agrees, PipesInOrder
    <3>3. CASE j = Len(m.acks) + 1
      <4>1. m.pending \in Answered(m)
        BY <3>1 DEF Answered
      <4> QED
        BY <1>3, <2>2, <3>3, <4>1
    <3> QED
      BY <1>3, <3>2, <3>3
  <2> QED
    BY <1>2, <1>4, <1>5, <2>1, <2>2, <2>3 DEF Agrees, PipesInOrder
<1> QED
  BY <1>6, <1>7, <1>8 DEF Agrees, new

\* What a worker holds that its process and its relay have left.
LEMMA LeftAgrees ==
    ASSUME NEW row, NEW gens, NEW ledger, NEW m, Sound(m),
           Agrees(m, row, gens, ledger),
           NEW relay, NEW new \in {Ended(m), Gone(m, relay)}
    PROVE  Agrees(new, row, gens, ledger)
<1>1. /\ new.id = m.id /\ new.generation = m.generation
      /\ new.process = "exited" /\ new.pending = None
      /\ new.frames = <<>> /\ new.bound \in {None, m.bound}
  <2>1. m \in Worker
    BY DEF Sound
  <2>2. CASE new = Ended(m)
    BY <2>1, <2>2 DEF Worker, Ended, Exited
  <2>3. CASE new = Gone(m, relay)
    BY <2>1, <2>3 DEF Worker, Gone, Exited
  <2> QED
    BY <2>2, <2>3
<1>2. Sent(new) \subseteq Sent(m)
  BY <1>1 DEF Sent, InHand
<1> QED
  BY <1>1, <1>2, LessAgrees

-----------------------------------------------------------------------------
(* All of them *)

\* A step that changes one worker and disturbs no other keeps the agreement if
\* it keeps that worker's.
LEMMA OneReplacedAgrees ==
    ASSUME AllAgree, workers \in Seq(Worker), NEW w \in 1..Len(workers),
           NEW new, new \in Worker, workers' = [workers EXCEPT ![w] = new],
           new.id = workers[w].id, new.generation = workers[w].generation,
           Agrees(new, deployment', generations', transactions'),
           \A v \in 1..Len(workers) : v # w => Undisturbed(workers[v])
    PROVE  AllAgree'
<1>1. /\ Len(workers') = Len(workers)
      /\ \A v \in 1..Len(workers) :
            workers'[v] = IF v = w THEN new ELSE workers[v]
  OBVIOUS
<1>2. OneWorker'
  BY <1>1 DEF AllAgree, OneWorker
<1>3. ASSUME NEW v \in 1..Len(workers), v # w
      PROVE  Agrees(workers[v], deployment', generations', transactions')
  BY <1>3, UndisturbedAgrees DEF AllAgree
<1> QED
  BY <1>1, <1>2, <1>3 DEF AllAgree

\* Steps of a process do.
LEMMA ProcessKeepsAgreement ==
    ASSUME RelayInv, AllAgree, NEW w \in 1..Len(workers), WorkerProcess(w)
    PROVE  AllAgree'
<1>1. /\ StoreInv /\ workers \in Seq(Worker) /\ Sound(workers[w])
      /\ Agrees(workers[w], deployment, generations, transactions)
  BY DEF RelayInv, WorkersInv, AllAgree
<1>2. UNCHANGED <<deployment, generations, transactions>>
  BY <1>1, ProcessShape DEF storeVars, rows
<1>3. PICK new : /\ workers' = [workers EXCEPT ![w] = new]
                 /\ ProcessOutcome(workers[w], new)
  BY <1>1, ProcessShape
<1>4. Sound(new) /\ Same(new, workers[w])
  BY <1>1, <1>3, CommitIsSound, ResendIsSound, GiveUpIsSound, ReceiveIsSound,
     AcceptIsSound, ExitedIsSound
  DEF ProcessOutcome
<1>5. Agrees(new, deployment', generations', transactions')
  BY <1>1, <1>2, <1>3, ProcessAgrees
<1>6. \A v \in 1..Len(workers) : Undisturbed(workers[v])
  BY <1>2 DEF Undisturbed
<1> QED
  BY <1>1, <1>3, <1>4, <1>5, <1>6, OneReplacedAgrees DEF Sound, Same

\* So do those of a relay: the store applies a frame of one worker only.
LEMMA RelayKeepsAgreement ==
    ASSUME RelayInv, LedgerOfRow, AllAgree, NEW w \in 1..Len(workers), RelayOf(w)
    PROVE  AllAgree'
<1> DEFINE m == workers[w]
<1>1. /\ StoreInv /\ WorkersInv /\ workers \in Seq(Worker)
      /\ m \in Worker /\ Sound(m)
      /\ Agrees(m, deployment, generations, transactions)
  BY DEF RelayInv, WorkersInv, AllAgree
<1>2. [Next]_storeVars /\ StoreInv'
  BY <1>1, RelayStep, StoreInvStep
<1>3. PICK new : /\ workers' = [workers EXCEPT ![w] = new]
                 /\ RelayOutcome(m, new)
  BY <1>1, RelayShape
<1>4. ASSUME new \in Worker, new.id = m.id, new.generation = m.generation,
             Agrees(new, deployment', generations', transactions'),
             \A v \in 1..Len(workers) : v # w => Undisturbed(workers[v])
      PROVE  AllAgree'
  BY <1>1, <1>3, <1>4, OneReplacedAgrees
<1>5. ASSUME commits' = commits
      PROVE  \A v \in 1..Len(workers) : Undisturbed(workers[v])
  <2>1. \A v \in 1..Len(workers) : workers[v] \in Worker
    BY <1>1
  <2> QED
    BY <1>1, <1>2, <1>5, <2>1, StepUndisturbed DEF WorkersInv
<1>6. CASE UNCHANGED storeVars /\ m.bound = None /\ m.frames # <<>> /\ new = Taken(m)
  <2>1. new \in Worker /\ new.id = m.id /\ new.generation = m.generation
    <3>1. Sound(new)
      BY <1>1, <1>6, TakenIsSound DEF StoreInv, FenceInv, WorkersInv
    <3> QED
      BY <1>1, <1>6, <3>1 DEF Sound, Taken, Worker
  <2>2. Agrees(new, deployment, generations, transactions)
    BY <1>1, <1>6, TakenAgrees
  <2>3. commits' = commits /\ UNCHANGED <<deployment, generations, transactions>>
    BY <1>6 DEF storeVars, rows, history
  <2> QED
    BY <1>4, <1>5, <2>1, <2>2, <2>3
<1>7. CASE /\ m.bound # None
           /\ ApplyTransaction(m.bound.frame, m.bound.destination)
           /\ \/ /\ m.process # "exited" /\ Len(m.acks) < MaxPipe
                 /\ new = Acked(m, ack')
              \/ new = Draining(m)
  <2> DEFINE frame == m.bound.frame
  <2>1. /\ frame \in Frame /\ frame.id = m.id /\ frame.generation = m.generation
    BY <1>1, <1>7 DEF Sound, SentBy
  <2>2. /\ Agrees(m, deployment', generations', transactions')
        /\ Writes(m, deployment', generations') =>
                frame.sequence <= generations'[m.generation].lastSequence
        /\ \A v \in 1..Len(workers) : v # w => Undisturbed(workers[v])
        /\ ack'.frame = frame
    <3>1. CASE CommitFrame(frame, m.bound.destination)
      <4>1. /\ Agrees(m, deployment', generations', transactions')
            /\ generations'[m.generation].lastSequence = frame.sequence
        BY <1>1, <1>7, <3>1, AppliedAgrees
      <4>2. frame.sequence \in Nat
        BY <2>1 DEF Frame
      <4>3. ASSUME NEW v \in 1..Len(workers), v # w
            PROVE  Undisturbed(workers[v])
        <5>1. workers[v].id # frame.id \/ workers[v].generation # frame.generation
          BY <2>1, <4>3 DEF AllAgree, OneWorker
        <5> QED
          BY <1>1, <2>1, <3>1, <5>1, CommitUndisturbed
      <4>4. ack'.frame = frame
        BY <3>1 DEF CommitFrame
      <4> QED
        BY <4>1, <4>2, <4>3, <4>4
    <3>2. CASE ReplayFrame(frame)
      <4>1. UNCHANGED <<deployment, generations, transactions, commits>>
        BY <3>2 DEF ReplayFrame, rows, history
      <4>2. PICK t \in transactions : t.frame = frame /\ ack' = t
        BY <3>2 DEF ReplayFrame, Stored
      <4>3. frame.sequence <= generations[m.generation].lastSequence
        BY <1>1, <2>1, <4>2, LedgerWithinRow
      <4> QED
        BY <1>1, <1>5, <4>1, <4>2, <4>3
    <3> QED
      BY <1>7, <3>1, <3>2 DEF ApplyTransaction
  <2>3. CASE new = Draining(m)
    <3>1. /\ new \in Worker /\ new.id = m.id /\ new.generation = m.generation
          /\ new.bound = None /\ new.frames = m.frames
          /\ new.process = m.process /\ new.state = m.state
          /\ new.sequence = m.sequence /\ new.revision = m.revision
          /\ new.pending = m.pending /\ new.arrived = m.arrived
          /\ new.last = m.last /\ new.acks = m.acks
      BY <1>1, <2>3 DEF Draining, Worker
    <3>2. Agrees(new, deployment', generations', transactions')
      BY <2>2, <3>1, DroppedAgrees
    <3> QED
      BY <1>4, <2>2, <3>1, <3>2
  <2>4. CASE /\ m.process # "exited" /\ Len(m.acks) < MaxPipe
             /\ new = Acked(m, ack')
    <3>1. ack' \in LedgerRow /\ ack'.result = ack'.frame.base + 1
      BY <1>2, <1>7, AckIsReceipt
    <3>2. Sound(new) /\ new.id = m.id /\ new.generation = m.generation
      BY <1>1, <2>4, <3>1, AckedIsSound
    <3>3. Agrees(new, deployment', generations', transactions')
      BY <1>1, <1>7, <2>2, <2>4, <3>1, AckedAgrees
    <3> QED
      BY <1>4, <2>2, <3>2, <3>3 DEF Sound
  <2> QED
    BY <1>7, <2>3, <2>4
<1>8. CASE UNCHANGED storeVars /\ new \in {Ended(m), Gone(m, "ended")}
  <2>1. Sound(new) /\ new.id = m.id /\ new.generation = m.generation
    BY <1>1, <1>8, EndedIsSound
  <2>2. commits' = commits /\ UNCHANGED <<deployment, generations, transactions>>
    BY <1>8 DEF storeVars, rows, history
  <2>3. Agrees(new, deployment, generations, transactions)
    BY <1>1, <1>8, LeftAgrees
  <2> QED
    BY <1>4, <1>5, <2>1, <2>2, <2>3 DEF Sound
<1>9. CASE /\ \/ UNCHANGED storeVars
              \/ \E g \in 1..Len(generations) : MarkGenerationStopped(g)
           /\ new = Recorded(m)
  <2>1. commits' = commits
    BY <1>9 DEF storeVars, history, MarkGenerationStopped
  <2>2. Agrees(m, deployment', generations', transactions')
    BY <1>1, <1>5, <2>1, UndisturbedAgrees
  <2>3. /\ new \in Worker /\ new.id = m.id /\ new.generation = m.generation
        /\ new.bound = m.bound /\ new.frames = m.frames
        /\ new.process = m.process /\ new.state = m.state
        /\ new.sequence = m.sequence /\ new.revision = m.revision
        /\ new.pending = m.pending /\ new.arrived = m.arrived
        /\ new.last = m.last /\ new.acks = m.acks
    BY <1>1, <1>9 DEF Recorded, Worker
  <2>4. Agrees(new, deployment', generations', transactions')
    BY <2>2, <2>3, DroppedAgrees
  <2> QED
    BY <1>4, <1>5, <2>1, <2>3, <2>4
<1> QED
  BY <1>3, <1>6, <1>7, <1>8, <1>9 DEF RelayOutcome

\* A launch adds a worker of another generation than any before, at the row's
\* state, whose generation has no receipts.
LEMMA LaunchKeepsAgreement ==
    ASSUME RelayInv, LedgerOfRow, AllAgree, Launch
    PROVE  AllAgree'
<1>1. /\ StoreInv /\ WorkersInv /\ workers \in Seq(Worker)
      /\ TypeOK /\ FenceConsistent /\ Len(generations) \in Nat
  BY DEF RelayInv, WorkersInv, StoreInv, FenceInv, TypeOK
<1>2. ActivateGeneration /\ [Next]_storeVars /\ commits' = commits
  BY DEF Launch, ActivateGeneration, Next, DaemonStep
<1> DEFINE m == Launched
<1>3. workers' = Append(workers, m)
  BY DEF Launch, Launched
<1>4. /\ m.id = deployment.id /\ m.generation = Len(generations) + 1
      /\ m.process = "running" /\ m.state = deployment.state /\ m.sequence = 0
      /\ m.revision = deployment.stateRevision
      /\ m.pending = None /\ m.arrived = None /\ m.bound = None /\ m.last = None
      /\ m.frames = <<>> /\ m.acks = <<>>
  BY <1>1, <1>2, SnapshotIsRow DEF Launched
<1> HIDE DEF m
<1>5. /\ generations'[Len(generations) + 1].lastSequence = 0
      /\ deployment'.state = deployment.state
      /\ deployment'.stateRevision = deployment.stateRevision
      /\ deployment.status = "active" /\ transactions' = transactions
  BY <1>1, <1>2, ActivateGenerationRows DEF TypeOK, Deployment, ActivateGeneration
<1>6. Agrees(m, deployment', generations', transactions')
  <2>1. InHand(m) = {} /\ Sent(m) = {} /\ Answered(m) = {} /\ Last(m) = {}
    <3>1. Len(m.frames) = 0 /\ Len(m.acks) = 0
      BY <1>4
    <3> QED
      BY <1>4, <3>1 DEF InHand, Sent, Answered, Last
  <2>2. \A t \in transactions' : ~Own(m, t)
    BY <1>1, <1>4, <1>5, LedgerWithinRow DEF Own
  <2>3. WireAgrees(m, deployment', generations', transactions')
    BY <2>1 DEF WireAgrees
  <2>4. SessionAt(m, deployment', generations', transactions')
    BY <1>4, <1>5, <2>1, <2>2 DEF SessionAt
  <2>5. PipesInOrder(m, deployment', generations')
    BY <1>4, <2>1 DEF PipesInOrder
  <2> QED
    BY <2>3, <2>4, <2>5 DEF Agrees
<1>7. ASSUME NEW v \in 1..Len(workers)
      PROVE  /\ Agrees(workers[v], deployment', generations', transactions')
             /\ workers[v].id # m.id \/ workers[v].generation # m.generation
  <2>1. /\ workers[v] \in Worker /\ Sound(workers[v])
        /\ FitsIn(workers[v], deployment, generations)
        /\ Agrees(workers[v], deployment, generations, transactions)
    BY <1>1 DEF WorkersInv, AllAgree
  <2>2. Agrees(workers[v], deployment', generations', transactions')
    BY <1>1, <1>2, <2>1, StepUndisturbed, UndisturbedAgrees
  <2>3. workers[v].id = deployment.id =>
            /\ workers[v].generation <= Len(generations)
            /\ workers[v].generation \in Nat
    BY <1>5, <2>1 DEF FitsIn, Worker
  <2> QED
    BY <1>1, <1>4, <2>2, <2>3
<1>8. /\ Len(workers) \in Nat /\ Len(workers') = Len(workers) + 1
      /\ \A v \in 1..Len(workers) : workers'[v] = workers[v]
      /\ workers'[Len(workers) + 1] = m
  BY <1>1, <1>3
<1>9. OneWorker'
  BY <1>7, <1>8 DEF AllAgree, OneWorker
<1>10. ASSUME NEW v \in 1..Len(workers')
       PROVE  Agrees(workers'[v], deployment', generations', transactions')
  <2>1. CASE v \in 1..Len(workers)
    BY <1>7, <1>8, <2>1
  <2>2. CASE v = Len(workers) + 1
    BY <1>6, <1>8, <2>2
  <2> QED
    BY <1>8, <2>1, <2>2
<1> QED
  BY <1>9, <1>10 DEF AllAgree

\* A restart leaves nothing that could disagree.
LEMMA RestartKeepsAgreement ==
    ASSUME RelayInv, AllAgree, DaemonRestarts
    PROVE  AllAgree'
<1>1. StoreInv /\ WorkersInv /\ workers \in Seq(Worker) /\ Len(workers) \in Nat
  BY DEF RelayInv, WorkersInv
<1>2. [Next]_storeVars /\ commits' = commits
  BY DEF DaemonRestarts, RecoverGenerations, Next, DaemonStep
<1>3. workers' = [v \in 1..Len(workers) |-> Gone(workers[v], "stopped")]
  BY DEF DaemonRestarts, Gone
<1>4. ASSUME NEW v \in 1..Len(workers)
      PROVE  /\ Agrees(Gone(workers[v], "stopped"),
                       deployment', generations', transactions')
             /\ Gone(workers[v], "stopped").id = workers[v].id
             /\ Gone(workers[v], "stopped").generation = workers[v].generation
  <2>1. /\ workers[v] \in Worker /\ Sound(workers[v])
        /\ FitsIn(workers[v], deployment, generations)
        /\ Agrees(workers[v], deployment, generations, transactions)
    BY <1>1 DEF WorkersInv, AllAgree
  <2>2. Agrees(workers[v], deployment', generations', transactions')
    BY <1>1, <1>2, <2>1, StepUndisturbed, UndisturbedAgrees
  <2> QED
    BY <2>1, <2>2, LeftAgrees, EndedIsSound
<1>5. /\ Len(workers') = Len(workers)
      /\ \A v \in 1..Len(workers) : workers'[v] = Gone(workers[v], "stopped")
  BY <1>1, <1>3
<1>6. OneWorker'
  BY <1>4, <1>5 DEF AllAgree, OneWorker
<1> QED
  BY <1>4, <1>5, <1>6 DEF AllAgree

\* A step of the rest of the system leaves every worker as it was.
LEMMA ElsewhereKeepsAgreement ==
    ASSUME RelayInv, AllAgree, Elsewhere \/ UNCHANGED relayVars
    PROVE  AllAgree'
<1>1. StoreInv /\ WorkersInv /\ workers \in Seq(Worker)
  BY DEF RelayInv, WorkersInv
<1>2. [Next]_storeVars /\ UNCHANGED workers
  BY ElsewhereStep DEF relayVars
<1>3. commits' = commits
  <2>1. CASE \E b \in Builders : DeployCommand(b)
    BY <2>1
    DEF DeployCommand, StartBuild, DeployNew, Redeploy, ReplaceDeployment, DeployRefused, history
  <2>2. CASE OperatorCommand
    BY <2>2
    DEF OperatorCommand, PauseDeployment, ResumeDeployment, ArchiveDeployment,
        PurgeDeployment, ReplaceState, ClearCheckpoints, history
  <2> QED
    BY <2>1, <2>2
    DEF Elsewhere, ListRuntimeMetadata, GetRuntimeDeployment, ActivationRefused,
        ExpiryPasses, DeactivateDueDeployments, PruneTerminalOutbox,
        PruneRetiredTransactions, relayVars, storeVars, history
<1>4. ASSUME NEW v \in 1..Len(workers)
      PROVE  Agrees(workers[v], deployment', generations', transactions')
  <2>1. workers[v] \in Worker
    BY <1>1
  <2> QED
    BY <1>1, <1>2, <1>3, <2>1, StepUndisturbed, UndisturbedAgrees
    DEF WorkersInv, AllAgree
<1> QED
  BY <1>2, <1>4 DEF AllAgree, OneWorker

-----------------------------------------------------------------------------
(* Theorems *)

\* Nothing is there to disagree at first.
LEMMA SessionInvInit == RelayInit => SessionInv
<1> SUFFICES ASSUME RelayInit
             PROVE  SessionInv
  OBVIOUS
<1>1. Init /\ workers = <<>>
  BY DEF RelayInit
<1>2. transactions = {} /\ Len(workers) = 0
  BY <1>1 DEF Init
<1> QED
  BY <1>1, <1>2, RelayInvInit, LedgerInvInit
  DEF SessionInv, LedgerOfRow, AllAgree, OneWorker

\* Every step of the protocol keeps the agreement.
LEMMA SessionInvStep == SessionInv /\ [RelayNext]_relayVars => SessionInv'
<1> SUFFICES ASSUME SessionInv, [RelayNext]_relayVars
             PROVE  SessionInv'
  OBVIOUS
<1>1. /\ RelayInv /\ LedgerInv /\ LedgerOfRow /\ AllAgree
      /\ StoreInv /\ TypeOK /\ FenceConsistent
  BY DEF SessionInv, RelayInv, StoreInv, FenceInv
<1>2. [Next]_storeVars /\ RelayInv'
  BY <1>1, RelayInvStep
<1>3. LedgerInv' /\ LedgerOfRow'
  BY <1>1, <1>2, LedgerInvStep, LedgerOfRowStep
<1>4. AllAgree'
  BY <1>1, ProcessKeepsAgreement, RelayKeepsAgreement, LaunchKeepsAgreement,
     RestartKeepsAgreement, ElsewhereKeepsAgreement
  DEF RelayNext
<1> QED
  BY <1>2, <1>3, <1>4 DEF SessionInv

\* A worker that may write has a receipt for every frame it sent but the next.
LEMMA SentIsStored ==
    ASSUME SessionInv, NEW w \in 1..Len(workers), Unfenced(w),
           NEW f \in Sent(workers[w]),
           f.sequence <= generations[workers[w].generation].lastSequence
    PROVE  \E t \in transactions :
                /\ t.frame = f
                /\ t.frame.id = f.id /\ t.frame.generation = f.generation
<1> DEFINE m == workers[w]
<1>1. /\ StoreInv /\ Sound(m) /\ Writes(m, deployment, generations)
      /\ WireAgrees(m, deployment, generations, transactions)
  BY DEF SessionInv, RelayInv, WorkersInv, AllAgree, Agrees, Unfenced, Writes
<1>2. /\ m.generation \in 1..Len(generations)
      /\ generations[m.generation].lastSequence \in Nat
      /\ SentBy(m, f) /\ f.sequence \in Nat
  BY <1>1, WireTypes
<1>3. f.sequence \in 1..generations[m.generation].lastSequence
  BY <1>2, BoundsAssumption DEF SentBy
<1>4. PICK t \in transactions :
            t.frame.generation = m.generation /\ t.frame.sequence = f.sequence
  BY <1>1, <1>2, <1>3 DEF SessionInv, LedgerInv, ReceiptsKeptWhileActive, Writes
<1>5. Own(m, t)
  BY <1>1, <1>4 DEF Own, Writes, SessionInv, LedgerOfRow
<1>6. t.frame = f
  BY <1>1, <1>4, <1>5 DEF WireAgrees
<1> QED
  BY <1>6

\* SessionAgrees: what callbacks read from their session is the durable state,
\* although session and store only exchange frames and ACKs.
THEOREM SessionsCorrect == RelaySpec => []SessionAgrees
<1>1. SessionInv => SessionAgrees
  <2> SUFFICES ASSUME SessionInv, NEW w \in 1..Len(workers), Unfenced(w),
                      workers[w].process = "running"
               PROVE  IF InFlight(w)
                      THEN /\ deployment.stateRevision = workers[w].revision + 1
                           /\ deployment.state = workers[w].pending.payload.state
                      ELSE /\ deployment.stateRevision = workers[w].revision
                           /\ deployment.state = workers[w].state
    BY DEF SessionAgrees
  <2> DEFINE m == workers[w]
             last == generations[m.generation].lastSequence
  <2>1. /\ StoreInv /\ Sound(m) /\ LedgerOfRow
        /\ SessionAt(m, deployment, generations, transactions)
        /\ Writes(m, deployment, generations)
    BY DEF SessionInv, RelayInv, WorkersInv, AllAgree, Agrees, Unfenced, Writes
  <2>2. last \in Nat /\ m.sequence \in Nat /\ last <= m.sequence
    BY <2>1, WireTypes DEF SessionAt
  <2>3. ASSUME m.pending # None, last = m.sequence
        PROVE  InFlight(w)
    <3>1. m.pending \in Sent(m) /\ m.pending.sequence <= last
      BY <2>1, <2>2, <2>3 DEF Sent, SessionAt
    <3> QED
      BY <3>1, SentIsStored DEF InFlight
  <2>4. ASSUME InFlight(w)
        PROVE  m.pending # None /\ last = m.sequence
    <3>1. PICK t \in transactions : t.frame = m.pending
      BY <2>4 DEF InFlight
    <3>2. m.pending # None
      BY <2>1, <3>1, WireTypes, FrameAssumption
    <3>3. t.frame.generation = m.generation /\ t.frame.sequence = m.sequence
      BY <2>1, <3>1, <3>2 DEF Sound, SentBy, SessionAt
    <3>4. m.sequence <= last
      BY <2>1, <3>3, LedgerWithinRow
    <3> QED
      BY <2>2, <3>2, <3>4
  <2> QED
    BY <2>1, <2>3, <2>4 DEF SessionAt
<1> QED
  BY <1>1, SessionInvInit, SessionInvStep, PTL DEF RelaySpec

\* RefusedForCause: no order of resends, restarts and sweeps shows the store a
\* gap, a stale revision or another payload.
THEOREM RefusalsCorrect == RelaySpec => []RefusedForCause
<1>1. SessionInv => RefusedForCause
  <2> SUFFICES ASSUME SessionInv, NEW w \in 1..Len(workers),
                      workers[w].bound # None,
                      \A t \in Stored(workers[w].bound.frame) :
                            t.frame # workers[w].bound.frame
               PROVE  Refusal(workers[w].bound.frame) \in {"none", "fenced", "event"}
    BY DEF RefusedForCause
  <2> DEFINE m == workers[w]
             frame == m.bound.frame
  <2>1. /\ StoreInv /\ Sound(m)
        /\ WireAgrees(m, deployment, generations, transactions)
    BY DEF SessionInv, RelayInv, WorkersInv, AllAgree, Agrees
  <2>2. /\ frame \in Sent(m) /\ frame.id = m.id
        /\ frame.generation = m.generation
    BY <2>1 DEF Sent, InHand, Sound, SentBy
  <2>3. ~\E t \in Stored(frame) : t.frame # frame
    BY <2>1, <2>2 DEF WireAgrees, Stored, Own
  <2>4. ASSUME Unfenced(w)
        PROVE  /\ frame.sequence = generations[frame.generation].lastSequence + 1
               /\ frame.base = deployment.stateRevision
    <3>1. Writes(m, deployment, generations)
      BY <2>4 DEF Unfenced, Writes
    <3>2. ~(frame.sequence <= generations[m.generation].lastSequence)
      BY <2>2, <2>4, SentIsStored DEF Stored
    <3> QED
      BY <2>1, <2>2, <3>1, <3>2 DEF WireAgrees
  <2>5. CASE Unfenced(w)
    BY <2>3, <2>4, <2>5 DEF Refusal
  <2>6. CASE ~Unfenced(w)
    BY <2>2, <2>3, <2>6 DEF Refusal, Unfenced
  <2> QED
    BY <2>5, <2>6
<1> QED
  BY <1>1, SessionInvInit, SessionInvStep, PTL DEF RelaySpec

\* AcksExpected: a worker that still waits for its commits never takes an ACK
\* for a violation of the protocol.
THEOREM AcksCorrect == RelaySpec => []AcksExpected
<1>1. SessionInv => AcksExpected
  <2> SUFFICES ASSUME SessionInv, NEW w \in 1..Len(workers),
                      workers[w].process = "running", workers[w].acks # <<>>
               PROVE  Fault(workers[w], Head(workers[w].acks)) = "none"
    BY DEF AcksExpected
  <2>1. /\ StoreInv /\ Sound(workers[w])
        /\ Agrees(workers[w], deployment, generations, transactions)
    BY DEF SessionInv, RelayInv, WorkersInv, AllAgree
  <2> QED
    BY <2>1, NextAck DEF Fault, SameIdentity
<1> QED
  BY <1>1, SessionInvInit, SessionInvStep, PTL DEF RelaySpec

=============================================================================
