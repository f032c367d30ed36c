-------------------------------- MODULE Relay --------------------------------
(***************************************************************************)
(* The worker protocol over the store: the coordinator inside each worker  *)
(* process (coordinator.go, session.go), the daemon's relay of it          *)
(* (internal/daemon/worker.go, registry.go) and the two pipes between      *)
(* them.  Every other operation of Store interleaves with it.              *)
(*                                                                         *)
(* A process commits one frame at a time, resends it until it is           *)
(* acknowledged, and may exit or be killed at any moment.  Its relay may   *)
(* still be reading what the process wrote, and frames of a generation     *)
(* long replaced reach the store late.                                     *)
(*                                                                         *)
(* A definition named ..._Mutant is the one after it with a bug a change   *)
(* to the code could introduce; nothing uses it.                           *)
(***************************************************************************)
EXTENDS Store

CONSTANTS
    MaxPipe,  \* bound on the frames, and on the ACKs, a pipe holds
    Others    \* bound: what else runs, of "deploy", "command", "expiry", "sweep"

ASSUME PipeAssumption == MaxPipe \in Nat \ {0}

ASSUME FrameAssumption == None \notin Frame

VARIABLE workers  \* every worker ever launched, with its relay, in order

relayVars == <<storeVars, workers>>

\* A frame that is taken from the pipe, with the bindings read for it.
Bound == [frame : Frame, destination : Nat]

Worker ==
    [id : Nat, generation : Nat,
     \* the process: workerCoordinator and Session
     process : {"running", "uncertain", "exited"},
     sequence : Nat, revision : Nat, state : States \cup {None},
     pending : Frame \cup {None},      \* expectedAck
     arrived : LedgerRow \cup {None},  \* pendingAck
     last : LedgerRow \cup {None},     \* lastAck
     \* the pipes
     frames : Seq(Frame), acks : Seq(LedgerRow),
     \* the relay: worker.serve and the goroutine around it
     relay : {"serving", "draining", "ended", "stopped"},
     bound : Bound \cup {None}]

RelayInit ==
    /\ Init
    /\ workers = <<>>

Alive(w) == workers[w].process # "exited"

\* The process is gone and its memory with it.  What it wrote may still be read.
Exited(worker) ==
    [worker EXCEPT !.process = "exited", !.sequence = 0, !.revision = 0,
                   !.state = None, !.pending = None, !.arrived = None,
                   !.last = None, !.acks = <<>>]

-----------------------------------------------------------------------------
(* Launching *)

\* The process is given the snapshot that was activated.  The worker before it
\* was stopped or killed first; what that one wrote may still be in its relay.
Launch ==
    /\ ActivateGeneration
    /\ \A w \in 1..Len(workers) : workers[w].id = snapshot.id => ~Alive(w)
    /\ workers' = Append(workers,
            [id |-> snapshot.id, generation |-> Len(generations) + 1,
             process |-> "running", sequence |-> 0,
             revision |-> snapshot.stateRevision, state |-> snapshot.state,
             pending |-> None, arrived |-> None, last |-> None,
             frames |-> <<>>, acks |-> <<>>,
             relay |-> "serving", bound |-> None])

\* The pipes end with the daemon: no process of it commits any more.
DaemonRestarts ==
    /\ RecoverGenerations
    /\ workers' = [w \in 1..Len(workers) |->
            [Exited(workers[w]) EXCEPT
                !.bound = None, !.frames = <<>>, !.relay = "stopped"]]

-----------------------------------------------------------------------------
(* The worker process *)

CommitRevision_Mutant(worker) == worker.sequence

\* BaseStateRevision is the revision of the last ACK.
CommitRevision(worker) == worker.revision

Commit(w, payload) ==
    LET frame ==
            [id |-> workers[w].id, generation |-> workers[w].generation,
             sequence |-> workers[w].sequence + 1,
             base |-> CommitRevision(workers[w]), payload |-> payload]
    IN  /\ workers[w].process = "running"
        /\ workers[w].pending = None
        /\ workers[w].revision < MaxRevision
        /\ Len(workers[w].frames) < MaxPipe
        /\ workers' = [workers EXCEPT
                ![w].sequence = @ + 1,
                ![w].pending = frame,
                ![w].frames = Append(@, frame)]
        /\ UNCHANGED storeVars

\* Every two seconds.
Resend(w) ==
    /\ workers[w].process = "running"
    /\ workers[w].pending # None
    /\ Len(workers[w].frames) < MaxPipe
    /\ workers' = [workers EXCEPT ![w].frames = Append(@, workers[w].pending)]
    /\ UNCHANGED storeVars

\* The stop deadline passes, or a write fails, before the ACK arrives: the
\* callback fails and the plan runs no other.
GiveUpCommit(w) ==
    /\ workers[w].process = "running"
    /\ workers[w].pending # None
    /\ workers' = [workers EXCEPT
            ![w].process = "uncertain", ![w].pending = None, ![w].arrived = None]
    /\ UNCHANGED storeVars

SameIdentity(frame, given) == given.frame = frame

Duplicate_Mutant(worker, given) == FALSE

\* The last ACK again, answering a resend that crossed it.
Duplicate(worker, given) == worker.last = given

\* What is wrong with an ACK that readControl receives.
Fault(worker, given) ==
    IF Duplicate(worker, given) THEN "none"
    ELSE IF worker.pending = None THEN "unsolicited"
    ELSE IF ~SameIdentity(worker.pending, given) THEN "mismatch"
    ELSE IF worker.arrived \notin {None, given} THEN "conflict"
    ELSE "none"

ReceiveAck(w) ==
    LET worker == workers[w]
        given == Head(worker.acks)
    IN  /\ Alive(w)
        /\ worker.acks # <<>>
        /\ workers' = [workers EXCEPT ![w] =
                IF Fault(worker, given) # "none"
                THEN Exited(worker)
                ELSE [worker EXCEPT
                        !.acks = Tail(worker.acks),
                        !.arrived = IF Duplicate(worker, given)
                                    THEN worker.arrived ELSE given]]
        /\ UNCHANGED storeVars

Adopted_MutantBase(worker) == worker.state

Adopted_MutantFrame(worker) == worker.pending.payload

\* What the session holds once its commit is acknowledged.
Adopted(worker) == worker.pending.payload.state

\* Commit wakes and takes the ACK; the session adopts the state it proposed.
AcceptAck(w) ==
    /\ workers[w].process = "running"
    /\ workers[w].arrived # None
    /\ workers' = [workers EXCEPT
            ![w].revision = workers[w].arrived.result,
            ![w].state = Adopted(workers[w]),
            ![w].last = workers[w].arrived,
            ![w].pending = None,
            ![w].arrived = None]
    /\ UNCHANGED storeVars

\* A stop, a crash, a kill, or a plan that ended.
WorkerExits(w) ==
    /\ Alive(w)
    /\ workers' = [workers EXCEPT ![w] = Exited(@)]
    /\ UNCHANGED storeVars

-----------------------------------------------------------------------------
(* The relay *)

Bindings_MutantOldest(frame) == IF frame.payload.events # {} THEN 1 ELSE 0

Bindings_MutantNone(frame) ==
    IF frame.payload.events = {} THEN deployment.destination ELSE 0

\* A frame with events is bound to the destinations of now, if the deployment is
\* still there.
Bindings(frame) ==
    IF /\ frame.payload.events # {}
       /\ deployment.id = frame.id
       /\ deployment.status # "none"
    THEN deployment.destination
    ELSE 0

TakeFrame(w) ==
    /\ workers[w].relay = "serving"
    /\ workers[w].bound = None
    /\ workers[w].frames # <<>>
    /\ LET frame == Head(workers[w].frames)
       IN  workers' = [workers EXCEPT
                ![w].frames = Tail(@),
                ![w].bound = [frame |-> frame, destination |-> Bindings(frame)]]
    /\ UNCHANGED storeVars

\* The frame is applied or found applied.  The ACK may not be sent: the process
\* is gone, or does not read.  Then the relay only waits for the process to end.
Relayed(w) ==
    /\ workers[w].relay = "serving"
    /\ workers[w].bound # None
    /\ ApplyTransaction(workers[w].bound.frame, workers[w].bound.destination)
    /\ \/ /\ Alive(w)
          /\ Len(workers[w].acks) < MaxPipe
          /\ workers' = [workers EXCEPT
                ![w].bound = None, ![w].acks = Append(@, ack')]
       \/ workers' = [workers EXCEPT
                ![w].bound = None, ![w].relay = "draining"]

\* Why ApplyTransaction returns an error, in the order it looks.
Refusal(frame) ==
    IF \E t \in Stored(frame) : t.frame # frame THEN "payload"
    ELSE IF \/ frame.id # deployment.id
            \/ deployment.activeGeneration = 0
            \/ frame.generation # deployment.activeGeneration
            \/ generations[frame.generation].status # "active" THEN "fenced"
    ELSE IF frame.sequence # generations[frame.generation].lastSequence + 1
         THEN "sequence"
    ELSE IF frame.base # deployment.stateRevision THEN "state"
    ELSE IF EventConflict(frame) THEN "event"
    ELSE "none"

\* Any error of the store ends the worker: a frame it refuses, or a lock, a disk
\* or a read of the bindings that fails.
StoreFails(w) ==
    /\ workers[w].relay = "serving"
    /\ workers[w].bound # None
    /\ workers' = [workers EXCEPT ![w] =
            [Exited(@) EXCEPT
                !.bound = None, !.frames = <<>>, !.relay = "ended"]]
    /\ UNCHANGED storeVars

MayEnd_Mutant(w) == workers[w].relay \in {"serving", "draining"} /\ ~Alive(w)

\* The process is gone, or the relay has waited a second for it to go.
MayEnd(w) ==
    \/ workers[w].relay = "draining"
    \/ workers[w].relay = "serving" /\ ~Alive(w)

\* serve returns and kills what is left.  A process that exited by itself had
\* closed its pipe: a kill discards what is unread.
RelayEnds(w) ==
    /\ MayEnd(w)
    /\ workers[w].bound = None
    /\ workers' = [workers EXCEPT ![w] =
            [Exited(@) EXCEPT !.relay = "ended", !.frames = <<>>]]
    /\ UNCHANGED storeVars

\* The goroutine around serve retires the generation, if there still is one.
RecordStop(w) ==
    /\ workers[w].relay = "ended"
    /\ workers' = [workers EXCEPT ![w].relay = "stopped"]
    /\ \/ /\ deployment.id = workers[w].id
          /\ workers[w].generation \in 1..Len(generations)
          /\ MarkGenerationStopped(workers[w].generation)
       \/ /\ \/ deployment.id # workers[w].id
             \/ workers[w].generation \notin 1..Len(generations)
          /\ UNCHANGED storeVars

-----------------------------------------------------------------------------

WorkerProcess(w) ==
    \/ \E payload \in Payloads : Commit(w, payload)
    \/ Resend(w)
    \/ GiveUpCommit(w)
    \/ ReceiveAck(w)
    \/ AcceptAck(w)
    \/ WorkerExits(w)

RelayOf(w) ==
    \/ TakeFrame(w)
    \/ Relayed(w)
    \/ StoreFails(w)
    \/ RelayEnds(w)
    \/ RecordStop(w)

Elsewhere ==
    /\ \/ ListRuntimeMetadata
       \/ GetRuntimeDeployment
       \/ ActivationRefused
       \/ /\ "deploy" \in Others \/ deployment.status = "none"
          /\ \E b \in Builders : DeployCommand(b)
       \/ "command" \in Others /\ OperatorCommand
       \/ "expiry" \in Others /\ (ExpiryPasses \/ DeactivateDueDeployments)
       \/ "sweep" \in Others /\ (PruneTerminalOutbox \/ PruneRetiredTransactions)
    /\ UNCHANGED workers

RelayNext ==
    \/ Launch
    \/ DaemonRestarts
    \/ \E w \in 1..Len(workers) : WorkerProcess(w) \/ RelayOf(w)
    \/ Elsewhere

\* Goroutines that can run do; a process that was sent an ACK reads it.  No
\* fairness is asked of monitors, of operators or of exits.
RelayFairness ==
    \A w \in 1..(MaxDeployments * MaxGeneration) :
        /\ WF_relayVars(w \in 1..Len(workers) /\ ReceiveAck(w))
        /\ WF_relayVars(w \in 1..Len(workers) /\ AcceptAck(w))
        /\ WF_relayVars(w \in 1..Len(workers) /\ RelayOf(w))

RelaySpec == RelayInit /\ [][RelayNext]_relayVars /\ RelayFairness

-----------------------------------------------------------------------------
(* Properties *)

\* Coordinators, pipes and relays hold what their types declare.
RelayTypeOK ==
    /\ workers \in Seq(Worker)
    /\ \A w \in 1..Len(workers) :
            /\ Len(workers[w].frames) <= MaxPipe
            /\ Len(workers[w].acks) <= MaxPipe
            /\ workers[w].process = "exited" <=> workers[w].state = None

Unfenced(w) ==
    /\ workers[w].id = deployment.id
    /\ deployment.activeGeneration = workers[w].generation
    /\ generations[workers[w].generation].status = "active"

InFlight(w) ==
    \E t \in transactions : t.frame = workers[w].pending

\* What callbacks of an unfenced generation read from their session is the
\* durable state at the durable revision, although the two only ever exchange
\* frames and ACKs.  Between a commit and its ACK the store is exactly one
\* revision ahead, at the state the session proposed.
SessionAgrees ==
    \A w \in 1..Len(workers) :
        Unfenced(w) /\ workers[w].process = "running" =>
            IF InFlight(w)
            THEN /\ deployment.stateRevision = workers[w].revision + 1
                 /\ deployment.state = workers[w].pending.payload.state
            ELSE /\ deployment.stateRevision = workers[w].revision
                 /\ deployment.state = workers[w].state

\* A frame is only ever refused because its generation was fenced or because it
\* reuses an event id for other content: no order of resends, ACKs, restarts
\* and sweeps makes the store see a gap, a stale revision or another payload.
RefusedForCause ==
    \A w \in 1..Len(workers) : workers[w].bound # None =>
        LET frame == workers[w].bound.frame
        IN  (\A t \in Stored(frame) : t.frame # frame) =>
                Refusal(frame) \in {"none", "fenced", "event"}

\* A worker that still waits for its commits never takes an ACK for a protocol
\* violation, however resends and replays cross: coordinator.go:190.
AcksExpected ==
    \A w \in 1..Len(workers) :
        workers[w].process = "running" /\ workers[w].acks # <<>> =>
            Fault(workers[w], Head(workers[w].acks)) = "none"

\* Destinations are read one step before the transaction that binds deliveries
\* to them, and a deploy may replace them in between.  Every event committed is
\* bound to the destinations that are current when it is committed.
BoundToCurrent ==
    [][\A row \in events' \ events :
            row.destination = deployment.destination]_relayVars

\* The frames that coordinators and relays produce are among those the store is
\* specified for, so each of its theorems is one of the whole protocol.
ImplementsStore == Spec

\* registry.go:74: "A daemon-side persistence or protocol failure can strand a
\* worker waiting for an acknowledgement that will never arrive."  It does not:
\* every commit is acknowledged or its worker comes to an end.
CommitsSettle ==
    \A w \in 1..(MaxDeployments * MaxGeneration) :
        (w \in 1..Len(workers) /\ workers[w].pending # None /\ Alive(w))
            ~> (w \in 1..Len(workers) /\ (workers[w].pending = None \/ ~Alive(w)))

=============================================================================
