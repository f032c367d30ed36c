-------------------------------- MODULE Outbox --------------------------------
(***************************************************************************)
(* Delivering the outbox: internal/storage/outbox.go and the sequential    *)
(* loop of internal/daemon/outbox.go over the deliveries of one            *)
(* deployment.                                                             *)
(*                                                                         *)
(* Sending is the only step that is not transactional.  A request may be   *)
(* accepted with its answer lost, may be accepted long after the daemon    *)
(* gave up on it, and survives the daemon that sent it; a settlement may   *)
(* fail.  The store only promises that what was never settled is sent      *)
(* again.                                                                  *)
(*                                                                         *)
(* A definition named ..._Mutant is the one after it with a bug a change   *)
(* to the code could introduce; nothing uses it.                           *)
(***************************************************************************)
EXTENDS Naturals, FiniteSets, Sequences, SequencesExt

CONSTANTS
    Events,        \* outbox_events of the deployment, monitor and health
    Destinations,  \* its destination bindings
    Batch,         \* outboxBatch
    MaxLeases,     \* bound on claim ids remembered anywhere at one time
    MaxFaults      \* bound on crashes, timeouts, failed settlements and retries
                   \* an operator orders

ASSUME BatchAssumption == Batch \in Nat \ {0}

ASSUME DestinationsAssumption == IsFiniteSet(Destinations)

ASSUME LeasesAssumption == MaxLeases \in Nat /\ MaxFaults \in Nat

VARIABLES
    row,         \* table outbox_deliveries
    dueRows,     \* rows with next_attempt_at in the past, the oldest first
    deployment,  \* the deployment's row: "present", "archived", or how it went
    attempt,     \* sendOne of the running daemon, for each delivery
    network,     \* requests on their way to a destination
    accepted,    \* history: how often the destination accepted the delivery
    rejected,    \* history: deliveries that failed permanently
    abandoned,   \* history: attempts of a delivery whose outcome was not settled
    faults

outboxVars == <<row, dueRows, deployment, attempt, network, accepted, rejected,
                abandoned, faults>>

Deliveries == Events \X Destinations

Leases == 1..MaxLeases

Row ==
    [status : {"none", "pending", "sending", "delivered", "dead", "gone"},
     lease : Leases \cup {0}, expired : BOOLEAN]

\* "answered" is an accepted request whose answer is on its way back;
\* "retrying" and "burying" are between the two statements of
\* MarkDeliveryFailed.
Attempt ==
    [phase : {"none", "claimed", "sent", "answered", "ok", "transient",
              "permanent", "retrying", "burying"},
     lease : Leases \cup {0}]

Queued == {d \in Deliveries : row[d].status \in {"pending", "sending"}}

NoAttempt == [phase |-> "none", lease |-> 0]

Init ==
    /\ row = [d \in Deliveries |->
                [status |-> "none", lease |-> 0, expired |-> FALSE]]
    /\ dueRows = <<>>
    /\ deployment = "present"
    /\ attempt = [d \in Deliveries |-> NoAttempt]
    /\ network = {}
    /\ accepted = [d \in Deliveries |-> 0]
    /\ rejected = {}
    /\ abandoned = [d \in Deliveries |-> 0]
    /\ faults = 0

history == <<accepted, rejected, abandoned>>
externalVars == <<network, history, faults>>

Fault ==
    /\ faults < MaxFaults
    /\ faults' = faults + 1

Without(d) == RemoveFirst(dueRows, d)

-----------------------------------------------------------------------------
(* The store, as others use it *)

\* The transaction that commits an event inserts a delivery for each binding.
InsertOutboxEvent(e) ==
    /\ deployment = "present"
    /\ \A dest \in Destinations : row[<<e, dest>>].status = "none"
    /\ row' = [d \in Deliveries |->
            IF d[1] = e THEN [row[d] EXCEPT !.status = "pending"] ELSE row[d]]
    /\ dueRows' = dueRows \o SetToSeq({e} \X Destinations)
    /\ UNCHANGED <<deployment, attempt, externalVars>>

\* The clock passes next_attempt_at of a delivery that was put off.
DueAgain(d) ==
    /\ row[d].status = "pending"
    /\ d \notin ToSet(dueRows)
    /\ dueRows' = Append(dueRows, d)
    /\ UNCHANGED <<row, deployment, attempt, externalVars>>

\* The clock passes lease_expires_at.  A lease is dated before the claim waits
\* for the writer, so it may run out under an attempt that keeps its own limits.
LeaseExpires(d) ==
    /\ row[d].status = "sending"
    /\ ~row[d].expired
    /\ row' = [row EXCEPT ![d].expired = TRUE]
    /\ UNCHANGED <<dueRows, deployment, attempt, externalVars>>

RetryDeadDelivery(d) ==
    /\ row[d].status = "dead"
    /\ Fault
    /\ row' = [row EXCEPT ![d].status = "pending"]
    /\ dueRows' = Append(dueRows, d)
    /\ UNCHANGED <<deployment, attempt, network, history>>

ArchiveDeployment ==
    /\ deployment = "present"
    /\ deployment' = "archived"
    /\ UNCHANGED <<row, dueRows, attempt, externalVars>>

DeleteRows(gone) ==
    row' = [d \in Deliveries |->
                IF d \in gone
                THEN [status |-> "gone", lease |-> 0, expired |-> FALSE]
                ELSE row[d]]

PurgeDeploymentSafe(force) ==
    /\ deployment = "archived"
    /\ force \/ Queued = {}
    /\ deployment' = IF force THEN "forced" ELSE "purged"
    /\ DeleteRows(Deliveries)
    /\ dueRows' = <<>>
    /\ UNCHANGED <<attempt, externalVars>>

TerminalOutbox_Mutant(e) ==
    \A dest \in Destinations :
        row[<<e, dest>>].status \in {"delivered", "dead", "sending"}

\* Only an event with no delivery left to make may be pruned.
TerminalOutbox(e) ==
    \A dest \in Destinations : row[<<e, dest>>].status \in {"delivered", "dead"}

\* Age is not modelled: an event may outlive its retention at any time.  None of
\* its rows is due.
PruneTerminalOutbox(e) ==
    /\ TerminalOutbox(e)
    /\ DeleteRows({e} \X Destinations)
    /\ UNCHANGED <<dueRows, deployment, attempt, externalVars>>

-----------------------------------------------------------------------------
(* Claiming *)

\* A claim id is random: none that a row, an attempt or a request still carries.
FreshLeases ==
    {lease \in Leases :
        /\ \A d \in Deliveries : row[d].lease # lease /\ attempt[d].lease # lease
        /\ \A request \in network : request[2] # lease}

Claimable_Mutant(d) == row[d].status = "pending"

Claimable(d) ==
    \/ row[d].status = "pending"
    \/ row[d].status = "sending" /\ row[d].expired

\* ORDER BY next_attempt_at LIMIT, over positions in dueRows
Oldest(eligible) ==
    {i \in eligible : Cardinality({j \in eligible : j < i}) < Batch}

\* The loop claims again only when every attempt of its last claim has returned.
ClaimOutbox ==
    LET claimable == {i \in DOMAIN dueRows : Claimable(dueRows[i])}
        claimed == {dueRows[i] : i \in Oldest(claimable)}
        lease == CHOOSE fresh \in FreshLeases : TRUE
    IN  /\ claimed # {} /\ FreshLeases # {}
        /\ \A d \in Deliveries : attempt[d].phase = "none"
        /\ row' = [d \in Deliveries |->
                IF d \in claimed
                THEN [status |-> "sending", lease |-> lease, expired |-> FALSE]
                ELSE row[d]]
        /\ attempt' = [d \in Deliveries |->
                IF d \in claimed
                THEN [phase |-> "claimed", lease |-> lease]
                ELSE attempt[d]]
        /\ UNCHANGED <<dueRows, deployment, externalVars>>

-----------------------------------------------------------------------------
(* One attempt *)

Held_Mutant(d) ==
    /\ row[d].status = "sending"
    /\ row[d].lease = attempt[d].lease
    /\ ~row[d].expired

\* WHERE status='sending' AND lease_owner=?
Held(d) ==
    /\ row[d].status = "sending"
    /\ row[d].lease = attempt[d].lease

Becomes(d, phase) == attempt' = [attempt EXCEPT ![d].phase = phase]

Returns(d) == attempt' = [attempt EXCEPT ![d] = NoAttempt]

\* The rate limiter has no token: the lease is given back.
DeferDelivery(d) ==
    /\ attempt[d].phase = "claimed"
    /\ IF Held(d)
       THEN /\ row' = [row EXCEPT ![d] =
                    [status |-> "pending", lease |-> 0, expired |-> FALSE]]
            /\ dueRows' = Without(d)
       ELSE UNCHANGED <<row, dueRows>>
    /\ Returns(d)
    /\ UNCHANGED <<deployment, externalVars>>

Send(d) ==
    /\ attempt[d].phase = "claimed"
    /\ Becomes(d, "sent")
    /\ network' = network \cup {<<d, attempt[d].lease>>}
    /\ UNCHANGED <<row, dueRows, deployment, history, faults>>

\* The destination accepts a request, of this attempt or of one given up on.
Accept(d, lease) ==
    /\ <<d, lease>> \in network
    /\ network' = network \ {<<d, lease>>}
    /\ accepted' = [accepted EXCEPT ![d] = @ + 1]
    /\ IF attempt[d] = [phase |-> "sent", lease |-> lease]
       THEN Becomes(d, "answered")
       ELSE UNCHANGED attempt
    /\ UNCHANGED <<row, dueRows, deployment, rejected, abandoned, faults>>

\* A request that is lost or refused; a binding or message that cannot be used
\* fails permanently without one.
Reject(d, lease, outcome) ==
    /\ <<d, lease>> \in network
    /\ network' = network \ {<<d, lease>>}
    /\ IF attempt[d] = [phase |-> "sent", lease |-> lease]
       THEN /\ Becomes(d, outcome)
            /\ rejected' = IF outcome = "permanent" THEN rejected \cup {d}
                                                    ELSE rejected
       ELSE UNCHANGED <<attempt, rejected>>
    /\ UNCHANGED <<row, dueRows, deployment, accepted, abandoned, faults>>

Answer(d) ==
    /\ attempt[d].phase = "answered"
    /\ Becomes(d, "ok")
    /\ UNCHANGED <<row, dueRows, deployment, externalVars>>

TimeoutOutcome_MutantUnknown == "timeout"

TimeoutOutcome_Mutant == "ok"

\* An error without a class of its own is retried.
TimeoutOutcome == "transient"

\* deliveryAttemptTimeout, or a cancelled loop, while a request is outstanding.
GiveUp(d) ==
    /\ attempt[d].phase \in {"sent", "answered"}
    /\ Fault
    /\ Becomes(d, TimeoutOutcome)
    /\ abandoned' = [abandoned EXCEPT ![d] = @ + 1]
    /\ UNCHANGED <<row, dueRows, deployment, network, accepted, rejected>>

\* A lost lease is reported and otherwise ignored.
MarkDelivered(d) ==
    /\ attempt[d].phase = "ok"
    /\ IF Held(d)
       THEN /\ row' = [row EXCEPT ![d] =
                    [status |-> "delivered", lease |-> 0, expired |-> FALSE]]
            /\ dueRows' = Without(d)
       ELSE UNCHANGED <<row, dueRows>>
    /\ Returns(d)
    /\ UNCHANGED <<deployment, externalVars>>

\* MarkDeliveryFailed reads the attempt count outside the statement that uses it.
ReadAttempts(d) ==
    /\ attempt[d].phase \in {"transient", "permanent"}
    /\ IF Held(d)
       THEN Becomes(d, IF attempt[d].phase = "permanent" THEN "burying"
                                                         ELSE "retrying")
       ELSE Returns(d)
    /\ UNCHANGED <<row, dueRows, deployment, externalVars>>

MarkDeliveryFailed(d) ==
    /\ attempt[d].phase \in {"retrying", "burying"}
    /\ IF Held(d)
       THEN /\ row' = [row EXCEPT ![d] =
                    [status |-> IF attempt[d].phase = "burying"
                                THEN "dead" ELSE "pending",
                     lease |-> 0, expired |-> FALSE]]
            /\ dueRows' = Without(d)
       ELSE UNCHANGED <<row, dueRows>>
    /\ Returns(d)
    /\ UNCHANGED <<deployment, externalVars>>

\* The store does not answer within five seconds, and the lease stays.
SettlementFails(d) ==
    /\ attempt[d].phase \in {"ok", "transient", "permanent", "retrying", "burying"}
    /\ Fault
    /\ Returns(d)
    /\ abandoned' = IF attempt[d].phase = "ok"
                    THEN [abandoned EXCEPT ![d] = @ + 1]
                    ELSE abandoned
    /\ UNCHANGED <<row, dueRows, deployment, network, accepted, rejected>>

\* A new daemon finds the leases of the old one, and requests still on their way.
CrashAndRestart ==
    /\ Fault
    /\ attempt' = [d \in Deliveries |-> NoAttempt]
    /\ abandoned' = [d \in Deliveries |->
            IF attempt[d].phase \in {"sent", "answered", "ok"}
            THEN abandoned[d] + 1 ELSE abandoned[d]]
    /\ UNCHANGED <<row, dueRows, deployment, network, accepted, rejected>>

-----------------------------------------------------------------------------

Settle(d) == MarkDelivered(d) \/ ReadAttempts(d) \/ MarkDeliveryFailed(d)

Next ==
    \/ \E e \in Events : InsertOutboxEvent(e) \/ PruneTerminalOutbox(e)
    \/ \E d \in Deliveries :
            \/ DueAgain(d) \/ LeaseExpires(d) \/ RetryDeadDelivery(d)
            \/ DeferDelivery(d) \/ Send(d) \/ Answer(d) \/ GiveUp(d)
            \/ Settle(d) \/ SettlementFails(d)
            \/ \E lease \in Leases :
                    \/ Accept(d, lease)
                    \/ \E outcome \in {"transient", "permanent"} :
                            Reject(d, lease, outcome)
    \/ ClaimOutbox
    \/ ArchiveDeployment
    \/ \E force \in BOOLEAN : PurgeDeploymentSafe(force)
    \/ CrashAndRestart

\* Time passes, the loop goes on, the limiter admits a delivery in the end and a
\* destination that is asked again and again answers in the end.
Fairness ==
    /\ WF_outboxVars(ClaimOutbox)
    /\ \A d \in Deliveries :
        /\ WF_outboxVars(DueAgain(d))
        /\ WF_outboxVars(LeaseExpires(d))
        /\ WF_outboxVars(Answer(d))
        /\ WF_outboxVars(Settle(d))
        /\ SF_outboxVars(Send(d))
        /\ WF_outboxVars(\E lease \in Leases : \E outcome \in {"transient", "permanent"} :
                Accept(d, lease) \/ Reject(d, lease, outcome))
        /\ SF_outboxVars(\E lease \in Leases :
                Accept(d, lease) \/ Reject(d, lease, "permanent"))

Spec == Init /\ [][Next]_outboxVars /\ Fairness

-----------------------------------------------------------------------------
(* Properties *)

\* What the columns and the daemon's memory hold; and a row is due at most once,
\* and only while it is owed.
TypeOK ==
    /\ row \in [Deliveries -> Row]
    /\ dueRows \in Seq(Deliveries) /\ IsInjective(dueRows)
    /\ ToSet(dueRows) \subseteq Queued
    /\ deployment \in {"present", "archived", "purged", "forced"}
    /\ attempt \in [Deliveries -> Attempt]
    /\ network \subseteq Deliveries \X Leases
    /\ accepted \in [Deliveries -> Nat]
    /\ rejected \subseteq Deliveries
    /\ abandoned \in [Deliveries -> Nat]
    /\ faults \in 0..MaxFaults

\* A destination sees a delivery again only because an earlier attempt was given
\* up on, or its settlement or its daemon was lost: never because the loop
\* overtook a lease or forgot what it had settled.
DuplicatesExplained ==
    \A d \in Deliveries : accepted[d] <= 1 + abandoned[d]

\* A row is marked delivered only if the destination did accept it, and dead only
\* if an attempt failed in a way that no retry can mend.
TerminalIsDeserved ==
    \A d \in Deliveries :
        /\ row[d].status = "delivered" => accepted[d] > 0
        /\ row[d].status = "dead" => d \in rejected

\* What was committed to the outbox is dropped before it was settled only by a
\* purge that was told to: retention and a safe purge never overtake a lease.
NothingDropped ==
    [][\A d \in Deliveries :
            d \in Queued /\ row'[d].status = "gone" => deployment' = "forced"]_outboxVars

\* Whatever is due, leased to a dead daemon or put off is settled in the end,
\* also while older deliveries keep failing.
EventuallySettled ==
    \A d \in Deliveries : d \in Queued ~> d \notin Queued

===============================================================================
