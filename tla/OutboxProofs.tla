----------------------------- MODULE OutboxProofs -----------------------------
(***************************************************************************)
(* Theorems about Outbox: a destination is asked again only for a reason,  *)
(* a delivery ends as it deserves, and nothing owed is dropped unasked.    *)
(* None needs fairness, nor that claim ids are fresh.                      *)
(***************************************************************************)
EXTENDS Outbox, FiniteSetTheorems, TLAPS

-----------------------------------------------------------------------------
(* The invariant *)

\* The part of TypeOK that the other theorems need.
TablesTyped ==
    /\ row \in [Deliveries -> Row]
    /\ attempt \in [Deliveries -> Attempt]
    /\ accepted \in [Deliveries -> Nat]
    /\ abandoned \in [Deliveries -> Nat]

\* Requests of a delivery that may still be accepted.
Outstanding(d) == {lease \in Leases : <<d, lease>> \in network}

\* The one request that nobody has given up on: of an attempt under way, or the
\* last of a row that will not be claimed again.
Current(d) ==
    IF \/ attempt[d].phase \in {"sent", "answered", "ok"}
       \/ attempt[d].phase = "none" /\ row[d].status \in {"delivered", "gone"}
    THEN 1 ELSE 0

\* The loop never overtakes itself: the delivery of an attempt is leased to it,
\* though perhaps for too long, until it is settled or deleted.  What the attempt
\* knows about the destination is so before and after the store is told.  Every
\* request but the current one, accepted or on its way, was abandoned.
DeliveryInv(d) ==
    /\ attempt[d].phase # "none" => Held(d) \/ row[d].status = "gone"
    /\ attempt[d].phase \in {"answered", "ok"} \/ row[d].status = "delivered"
            => accepted[d] > 0
    /\ attempt[d].phase \in {"permanent", "burying"} \/ row[d].status = "dead"
            => d \in rejected
    /\ accepted[d] + Cardinality(Outstanding(d)) <= abandoned[d] + Current(d)

OutboxInv ==
    /\ TablesTyped
    /\ \A d \in Deliveries : DeliveryInv(d)

-----------------------------------------------------------------------------
(* Requests on their way *)

LEMMA OutstandingFinite ==
    ASSUME NEW d
    PROVE  /\ IsFiniteSet(Outstanding(d))
           /\ Cardinality(Outstanding(d)) \in Nat
           /\ Cardinality(Outstanding(d)') \in Nat
<1>1. IsFiniteSet(1..MaxLeases)
  BY LeasesAssumption, FS_Interval
<1>2. /\ Outstanding(d) \in SUBSET (1..MaxLeases)
      /\ Outstanding(d)' \in SUBSET (1..MaxLeases)
  BY DEF Outstanding, Leases
<1> QED
  BY <1>1, <1>2, FS_Subset, FS_CardinalityType

\* Sending adds at most one, of that delivery only.
LEMMA SendOutstanding ==
    ASSUME NEW d, NEW lease, network' = network \cup {<<d, lease>>}
    PROVE  /\ Cardinality(Outstanding(d)') <= Cardinality(Outstanding(d)) + 1
           /\ \A other : other # d => Outstanding(other)' = Outstanding(other)
<1>1. \A other : other # d => Outstanding(other)' = Outstanding(other)
  BY DEF Outstanding
<1>2. CASE lease \in Leases
  <2>1. Outstanding(d)' = Outstanding(d) \cup {lease}
    BY <1>2 DEF Outstanding
  <2>2. Cardinality(Outstanding(d)') =
            IF lease \in Outstanding(d) THEN Cardinality(Outstanding(d))
                                        ELSE Cardinality(Outstanding(d)) + 1
    BY <2>1, OutstandingFinite, FS_AddElement
  <2> QED
    BY <1>1, <2>2, OutstandingFinite
<1>3. CASE lease \notin Leases
  <2>1. Outstanding(d)' = Outstanding(d)
    BY <1>3 DEF Outstanding
  <2> QED
    BY <1>1, <2>1, OutstandingFinite
<1> QED
  BY <1>2, <1>3

\* A request that arrives is one less.
LEMMA ArriveOutstanding ==
    ASSUME NEW d, NEW lease \in Leases, <<d, lease>> \in network,
           network' = network \ {<<d, lease>>}
    PROVE  /\ Cardinality(Outstanding(d)') = Cardinality(Outstanding(d)) - 1
           /\ \A other : other # d => Outstanding(other)' = Outstanding(other)
<1>1. \A other : other # d => Outstanding(other)' = Outstanding(other)
  BY DEF Outstanding
<1>2. Outstanding(d)' = Outstanding(d) \ {lease} /\ lease \in Outstanding(d)
  BY DEF Outstanding
<1> QED
  BY <1>1, <1>2, OutstandingFinite, FS_RemoveElement

LEMMA SameOutstanding ==
    ASSUME UNCHANGED network
    PROVE  \A d : Outstanding(d)' = Outstanding(d)
  BY DEF Outstanding

\* A step that leaves a delivery alone leaves its part of the invariant alone.
LEMMA Undisturbed ==
    ASSUME NEW d \in Deliveries, DeliveryInv(d),
           row'[d] = row[d], attempt'[d] = attempt[d],
           accepted'[d] = accepted[d], abandoned'[d] = abandoned[d],
           Outstanding(d)' = Outstanding(d), rejected \subseteq rejected'
    PROVE  DeliveryInv(d)'
  BY DEF DeliveryInv, Current, Held

-----------------------------------------------------------------------------
(* Steps of the store, the clock and the operator *)

LEMMA StoreSteps ==
    ASSUME OutboxInv, UNCHANGED <<attempt, network, history>>,
           \/ \E e \in Events : InsertOutboxEvent(e) \/ PruneTerminalOutbox(e)
           \/ \E d \in Deliveries :
                DueAgain(d) \/ LeaseExpires(d) \/ RetryDeadDelivery(d)
           \/ ArchiveDeployment
           \/ \E force \in BOOLEAN : PurgeDeploymentSafe(force)
    PROVE  OutboxInv'
<1>1. TablesTyped /\ \A d \in Deliveries : DeliveryInv(d)
  BY DEF OutboxInv
<1>2. /\ UNCHANGED <<attempt, network, accepted, rejected, abandoned>>
      /\ \A d : Outstanding(d)' = Outstanding(d)
  BY SameOutstanding DEF history
<1>3. ASSUME NEW e \in Events, InsertOutboxEvent(e)
      PROVE  OutboxInv'
  <2>1. row' \in [Deliveries -> Row]
    BY <1>1, <1>3 DEF InsertOutboxEvent, TablesTyped, Row
  <2>2. ASSUME NEW d \in Deliveries
        PROVE  DeliveryInv(d)'
    <3>1. CASE d[1] = e
      <4>1. row[d].status = "none" /\ row'[d].status = "pending"
        <5>1. d = <<e, d[2]>> /\ d[2] \in Destinations
          BY <3>1 DEF Deliveries
        <5> QED
          BY <1>1, <1>3, <3>1, <5>1 DEF InsertOutboxEvent, TablesTyped, Row
      <4>2. attempt[d].phase = "none"
        BY <1>1, <4>1 DEF DeliveryInv, Held
      <4> QED
        BY <1>1, <1>2, <4>1, <4>2 DEF DeliveryInv, Current
    <3>2. CASE d[1] # e
      <4>1. row'[d] = row[d]
        BY <1>3, <3>2 DEF InsertOutboxEvent
      <4> QED
        BY <1>1, <1>2, <4>1, Undisturbed
    <3> QED
      BY <3>1, <3>2
  <2> QED
    BY <1>1, <1>2, <2>1, <2>2 DEF OutboxInv, TablesTyped
<1>4. ASSUME NEW gone, DeleteRows(gone)
      PROVE  OutboxInv'
  <2>1. row' \in [Deliveries -> Row]
    BY <1>1, <1>4 DEF DeleteRows, TablesTyped, Row
  <2>2. ASSUME NEW d \in Deliveries
        PROVE  DeliveryInv(d)'
    <3>1. CASE d \in gone
      <4>1. row'[d].status = "gone"
        BY <1>4, <3>1 DEF DeleteRows
      <4>2. /\ Current(d) \in 0..1 /\ Current(d)' \in 0..1
            /\ Current(d) <= Current(d)'
        BY <1>2, <4>1 DEF Current
      <4>3. accepted[d] \in Nat /\ abandoned[d] \in Nat
        BY <1>1 DEF TablesTyped
      <4> QED
        BY <1>1, <1>2, <4>1, <4>2, <4>3, OutstandingFinite DEF DeliveryInv
    <3>2. CASE d \notin gone
      <4>1. row'[d] = row[d]
        BY <1>4, <3>2 DEF DeleteRows
      <4> QED
        BY <1>1, <1>2, <4>1, Undisturbed
    <3> QED
      BY <3>1, <3>2
  <2> QED
    BY <1>1, <1>2, <2>1, <2>2 DEF OutboxInv, TablesTyped
<1>5. ASSUME NEW d \in Deliveries, LeaseExpires(d)
      PROVE  OutboxInv'
  <2>1. /\ row' \in [Deliveries -> Row]
        /\ \A other \in Deliveries : /\ row'[other].status = row[other].status
                                     /\ row'[other].lease = row[other].lease
    BY <1>1, <1>5 DEF LeaseExpires, TablesTyped, Row
  <2>2. \A other \in Deliveries : DeliveryInv(other)'
    BY <1>1, <1>2, <2>1 DEF DeliveryInv, Current, Held
  <2> QED
    BY <1>1, <1>2, <2>1, <2>2 DEF OutboxInv, TablesTyped
<1>6. ASSUME NEW d \in Deliveries, RetryDeadDelivery(d)
      PROVE  OutboxInv'
  <2>1. /\ row' \in [Deliveries -> Row]
        /\ row[d].status = "dead" /\ row'[d].status = "pending"
        /\ \A other \in Deliveries \ {d} : row'[other] = row[other]
    BY <1>1, <1>6 DEF RetryDeadDelivery, TablesTyped, Row
  <2>2. DeliveryInv(d)'
    BY <1>1, <1>2, <2>1 DEF DeliveryInv, Current, Held
  <2>3. \A other \in Deliveries \ {d} : DeliveryInv(other)'
    BY <1>1, <1>2, <2>1, Undisturbed
  <2> QED
    BY <1>1, <1>2, <2>1, <2>2, <2>3 DEF OutboxInv, TablesTyped
<1>7. CASE UNCHANGED row
  <2>1. \A d \in Deliveries : DeliveryInv(d)'
    BY <1>1, <1>2, <1>7, Undisturbed
  <2> QED
    BY <1>1, <1>2, <1>7, <2>1 DEF OutboxInv, TablesTyped
<1> QED
  BY <1>3, <1>4, <1>5, <1>6, <1>7 DEF PruneTerminalOutbox, PurgeDeploymentSafe,
     DueAgain, ArchiveDeployment

-----------------------------------------------------------------------------
(* Claiming *)

\* Only what no attempt holds is claimed, so what is claimed has no current
\* request.
LEMMA ClaimSteps ==
    ASSUME OutboxInv, ClaimOutbox
    PROVE  OutboxInv'
<1> DEFINE claimable == {i \in DOMAIN dueRows : Claimable(dueRows[i])}
           claimed == {dueRows[i] : i \in Oldest(claimable)}
           lease == CHOOSE fresh \in FreshLeases : TRUE
<1>1. TablesTyped /\ \A d \in Deliveries : DeliveryInv(d)
  BY DEF OutboxInv
<1>2. /\ \A d \in Deliveries : attempt[d].phase = "none"
      /\ row' = [d \in Deliveries |->
            IF d \in claimed
            THEN [status |-> "sending", lease |-> lease, expired |-> FALSE]
            ELSE row[d]]
      /\ attempt' = [d \in Deliveries |->
            IF d \in claimed THEN [phase |-> "claimed", lease |-> lease]
                             ELSE attempt[d]]
      /\ FreshLeases # {}
      /\ UNCHANGED <<network, accepted, rejected, abandoned>>
  BY DEF ClaimOutbox, externalVars, history
<1>3. lease \in Leases
  BY <1>2 DEF FreshLeases
<1>4. \A d \in claimed : row[d].status \in {"pending", "sending"}
  BY DEF Oldest, Claimable
<1>5. \A d : Outstanding(d)' = Outstanding(d)
  BY <1>2, SameOutstanding
<1> HIDE DEF claimable, claimed, lease
<1>6. TablesTyped'
  <2>1. row' \in [Deliveries -> Row]
    BY <1>1, <1>2, <1>3 DEF TablesTyped, Row
  <2>2. attempt' \in [Deliveries -> Attempt]
    BY <1>1, <1>2, <1>3 DEF TablesTyped, Attempt
  <2> QED
    BY <1>1, <1>2, <2>1, <2>2 DEF TablesTyped
<1>7. ASSUME NEW d \in Deliveries
      PROVE  DeliveryInv(d)'
  <2>1. CASE d \in claimed
    <3>1. /\ row'[d] = [status |-> "sending", lease |-> lease, expired |-> FALSE]
          /\ attempt'[d] = [phase |-> "claimed", lease |-> lease]
      BY <1>2, <2>1
    <3>2. Current(d) = 0 /\ Current(d)' = 0
      BY <1>2, <1>4, <2>1, <3>1 DEF Current
    <3> QED
      BY <1>1, <1>2, <1>5, <3>1, <3>2 DEF DeliveryInv, Held
  <2>2. CASE d \notin claimed
    <3>1. row'[d] = row[d] /\ attempt'[d] = attempt[d]
      BY <1>2, <2>2
    <3> QED
      BY <1>1, <1>2, <1>5, <3>1, Undisturbed
  <2> QED
    BY <2>1, <2>2
<1> QED
  BY <1>6, <1>7 DEF OutboxInv

-----------------------------------------------------------------------------
(* One attempt *)

\* A step of one delivery only has to keep that delivery's part.
LEMMA OneDelivery ==
    ASSUME OutboxInv, NEW d \in Deliveries, TablesTyped', DeliveryInv(d)',
           rejected \subseteq rejected',
           \A other \in Deliveries \ {d} :
                /\ row'[other] = row[other] /\ attempt'[other] = attempt[other]
                /\ accepted'[other] = accepted[other]
                /\ abandoned'[other] = abandoned[other]
                /\ Outstanding(other)' = Outstanding(other)
    PROVE  OutboxInv'
  BY Undisturbed DEF OutboxInv

\* The attempt of one delivery moves on or returns, and is counted if abandoned.
AttemptMoves(d) ==
    /\ attempt' \in [Deliveries -> Attempt]
    /\ abandoned' \in [Deliveries -> Nat]
    /\ attempt'[d].phase # "none" => attempt'[d].lease = attempt[d].lease
    /\ abandoned'[d] >= abandoned[d]
    /\ \A other \in Deliveries \ {d} : /\ attempt'[other] = attempt[other]
                                       /\ abandoned'[other] = abandoned[other]

\* A current request is given up only if that is counted.
LEMMA PhaseSteps ==
    ASSUME OutboxInv, NEW d \in Deliveries, AttemptMoves(d),
           UNCHANGED <<row, network, accepted, rejected>>,
           attempt[d].phase # "none",
           attempt'[d].phase \in {"none", "ok", "transient", "retrying", "burying"},
           attempt'[d].phase = "ok" => attempt[d].phase = "answered",
           attempt'[d].phase = "burying" => attempt[d].phase = "permanent",
           \/ attempt[d].phase \notin {"sent", "answered", "ok"}
           \/ attempt'[d].phase = "ok"
           \/ abandoned'[d] > abandoned[d]
    PROVE  OutboxInv'
<1>1. TablesTyped /\ DeliveryInv(d)
  BY DEF OutboxInv
<1>2. TablesTyped'
  BY <1>1 DEF TablesTyped, AttemptMoves
<1>3. \A other : Outstanding(other)' = Outstanding(other)
  BY SameOutstanding
<1>4. /\ accepted[d] \in Nat /\ abandoned[d] \in Nat /\ abandoned'[d] \in Nat
      /\ Cardinality(Outstanding(d)) \in Nat
  BY <1>1, <1>2, OutstandingFinite DEF TablesTyped
<1>5. accepted'[d] + Cardinality(Outstanding(d)') <= abandoned'[d] + Current(d)'
  BY <1>1, <1>3, <1>4 DEF DeliveryInv, Current, AttemptMoves
<1>6. attempt'[d].phase # "none" => Held(d)' \/ row'[d].status = "gone"
  BY <1>1 DEF DeliveryInv, Held, AttemptMoves
<1>7. DeliveryInv(d)'
  BY <1>1, <1>5, <1>6 DEF DeliveryInv
<1> QED
  BY <1>1, <1>2, <1>3, <1>7, OneDelivery DEF TablesTyped, AttemptMoves

\* A settlement writes the row its attempt holds; one that was deleted stays so.
LEMMA SettleSteps ==
    ASSUME OutboxInv, NEW d \in Deliveries,
           UNCHANGED <<network, accepted, rejected, abandoned>>, Returns(d),
           NEW status \in {"pending", "delivered", "dead"},
           status = "delivered" => attempt[d].phase = "ok",
           status = "pending" => attempt[d].phase \in {"claimed", "retrying"},
           status = "dead" => attempt[d].phase = "burying",
           IF Held(d)
           THEN row' = [row EXCEPT ![d] =
                    [status |-> status, lease |-> 0, expired |-> FALSE]]
           ELSE UNCHANGED row
    PROVE  OutboxInv'
<1>1. TablesTyped /\ DeliveryInv(d)
  BY DEF OutboxInv
<1>2. /\ attempt' \in [Deliveries -> Attempt]
      /\ attempt'[d].phase = "none"
      /\ \A other \in Deliveries \ {d} : attempt'[other] = attempt[other]
  BY <1>1 DEF TablesTyped, Returns, NoAttempt, Attempt
<1>3. /\ row' \in [Deliveries -> Row]
      /\ \A other \in Deliveries \ {d} : row'[other] = row[other]
      /\ Held(d) => row'[d].status = status
      /\ ~Held(d) => row'[d].status = row[d].status
  <2>1. [status |-> status, lease |-> 0, expired |-> FALSE] \in Row
    BY DEF Row
  <2>2. CASE Held(d)
    <3>1. row' = [row EXCEPT ![d] =
                    [status |-> status, lease |-> 0, expired |-> FALSE]]
      BY <2>2
    <3> QED
      BY <1>1, <2>1, <2>2, <3>1 DEF TablesTyped
  <2>3. CASE ~Held(d)
    <3>1. row' = row
      BY <2>3
    <3> QED
      BY <1>1, <2>3, <3>1 DEF TablesTyped
  <2> QED
    BY <2>2, <2>3
<1>4. TablesTyped'
  BY <1>1, <1>2, <1>3 DEF TablesTyped
<1>5. \A other : Outstanding(other)' = Outstanding(other)
  BY SameOutstanding
<1>6. /\ accepted[d] \in Nat /\ abandoned[d] \in Nat
      /\ Cardinality(Outstanding(d)) \in Nat
  BY <1>1, OutstandingFinite DEF TablesTyped
<1>7. DeliveryInv(d)'
  <2>1. CASE Held(d)
    BY <1>1, <1>2, <1>3, <1>5, <1>6, <2>1 DEF DeliveryInv, Current, Held
  <2>2. CASE ~Held(d)
    <3>1. row[d].status = "gone" /\ row'[d].status = "gone"
      BY <1>1, <1>3, <2>2 DEF DeliveryInv
    <3> QED
      BY <1>1, <1>2, <1>5, <1>6, <3>1 DEF DeliveryInv, Current
  <2> QED
    BY <2>1, <2>2
<1> QED
  BY <1>2, <1>3, <1>4, <1>5, <1>7, OneDelivery

LEMMA AttemptSteps ==
    ASSUME OutboxInv, NEW d \in Deliveries,
           \/ DeferDelivery(d) \/ Answer(d) \/ GiveUp(d) \/ Settle(d)
           \/ SettlementFails(d)
    PROVE  OutboxInv'
<1>1. TablesTyped
  BY DEF OutboxInv
<1>2. ASSUME NEW phase \in {"ok", "transient", "retrying", "burying"},
             Becomes(d, phase)
      PROVE  /\ attempt' \in [Deliveries -> Attempt]
             /\ attempt'[d].phase = phase
             /\ attempt'[d].lease = attempt[d].lease
             /\ \A other \in Deliveries \ {d} : attempt'[other] = attempt[other]
  BY <1>1, <1>2 DEF TablesTyped, Becomes, Attempt
<1>3. ASSUME Returns(d)
      PROVE  /\ attempt' \in [Deliveries -> Attempt]
             /\ attempt'[d].phase = "none"
             /\ \A other \in Deliveries \ {d} : attempt'[other] = attempt[other]
  BY <1>1, <1>3 DEF TablesTyped, Returns, NoAttempt, Attempt
<1>4. CASE DeferDelivery(d)
  BY <1>4, SettleSteps DEF DeferDelivery, externalVars, history
<1>5. CASE Answer(d)
  <2>1. AttemptMoves(d) /\ attempt'[d].phase = "ok"
    BY <1>1, <1>2, <1>5
       DEF Answer, AttemptMoves, TablesTyped, externalVars, history
  <2> QED
    BY <1>5, <2>1, PhaseSteps DEF Answer, externalVars, history
<1>6. CASE GiveUp(d)
  <2>1. /\ AttemptMoves(d)
        /\ attempt'[d].phase = "transient" /\ abandoned'[d] > abandoned[d]
    BY <1>1, <1>2, <1>6 DEF GiveUp, TimeoutOutcome, AttemptMoves, TablesTyped
  <2> QED
    BY <1>6, <2>1, PhaseSteps DEF GiveUp
<1>7. CASE MarkDelivered(d)
  BY <1>7, SettleSteps DEF MarkDelivered, externalVars, history
<1>8. CASE ReadAttempts(d)
  <2>1. /\ AttemptMoves(d)
        /\ attempt'[d].phase \in {"none", "retrying", "burying"}
        /\ attempt'[d].phase = "burying" => attempt[d].phase = "permanent"
    BY <1>1, <1>2, <1>3, <1>8
       DEF ReadAttempts, AttemptMoves, TablesTyped, externalVars, history
  <2> QED
    BY <1>8, <2>1, PhaseSteps DEF ReadAttempts, externalVars, history
<1>9. CASE MarkDeliveryFailed(d)
  <2>1. CASE attempt[d].phase = "burying"
    BY <1>9, <2>1, SettleSteps DEF MarkDeliveryFailed, externalVars, history
  <2>2. CASE attempt[d].phase = "retrying"
    BY <1>9, <2>2, SettleSteps DEF MarkDeliveryFailed, externalVars, history
  <2> QED
    BY <1>9, <2>1, <2>2 DEF MarkDeliveryFailed
<1>10. CASE SettlementFails(d)
  <2>1. /\ AttemptMoves(d) /\ attempt'[d].phase = "none"
        /\ attempt[d].phase = "ok" => abandoned'[d] > abandoned[d]
    BY <1>1, <1>3, <1>10 DEF SettlementFails, AttemptMoves, TablesTyped
  <2> QED
    BY <1>10, <2>1, PhaseSteps DEF SettlementFails
<1> QED
  BY <1>4, <1>5, <1>6, <1>7, <1>8, <1>9, <1>10 DEF Settle

\* The daemon dies with every attempt it had under way.
LEMMA CrashSteps ==
    ASSUME OutboxInv, CrashAndRestart
    PROVE  OutboxInv'
<1>1. TablesTyped /\ \A d \in Deliveries : DeliveryInv(d)
  BY DEF OutboxInv
<1>2. TablesTyped'
  BY <1>1 DEF CrashAndRestart, TablesTyped, NoAttempt, Attempt
<1>3. ASSUME NEW d \in Deliveries
      PROVE  DeliveryInv(d)'
  <2>1. /\ attempt'[d].phase = "none"
        /\ abandoned'[d] = IF attempt[d].phase \in {"sent", "answered", "ok"}
                           THEN abandoned[d] + 1 ELSE abandoned[d]
        /\ UNCHANGED <<row, network, accepted, rejected>>
    BY DEF CrashAndRestart, NoAttempt
  <2>2. Outstanding(d)' = Outstanding(d)
    BY <2>1, SameOutstanding
  <2>3. /\ accepted[d] \in Nat /\ abandoned[d] \in Nat
        /\ Cardinality(Outstanding(d)) \in Nat
    BY <1>1, OutstandingFinite DEF TablesTyped
  <2> QED
    BY <1>1, <2>1, <2>2, <2>3 DEF DeliveryInv, Current
<1> QED
  BY <1>2, <1>3 DEF OutboxInv

-----------------------------------------------------------------------------
(* The network *)

LEMMA NetworkSteps ==
    ASSUME OutboxInv, NEW d \in Deliveries,
           \/ Send(d)
           \/ \E lease \in Leases :
                \/ Accept(d, lease)
                \/ \E outcome \in {"transient", "permanent"} :
                        Reject(d, lease, outcome)
    PROVE  OutboxInv'
<1>1. /\ TablesTyped /\ DeliveryInv(d)
      /\ accepted[d] \in Nat /\ abandoned[d] \in Nat
      /\ Cardinality(Outstanding(d)) \in Nat
      /\ Cardinality(Outstanding(d)') \in Nat
  BY OutstandingFinite DEF OutboxInv, TablesTyped
<1>2. ASSUME NEW phase \in {"sent", "answered", "transient", "permanent"},
             Becomes(d, phase)
      PROVE  /\ attempt' \in [Deliveries -> Attempt]
             /\ attempt'[d].phase = phase
             /\ attempt'[d].lease = attempt[d].lease
             /\ \A other \in Deliveries \ {d} : attempt'[other] = attempt[other]
  BY <1>1, <1>2 DEF TablesTyped, Becomes, Attempt
<1>3. CASE Send(d)
  <2>1. /\ attempt' \in [Deliveries -> Attempt]
        /\ attempt[d].phase = "claimed" /\ attempt'[d].phase = "sent"
        /\ attempt'[d].lease = attempt[d].lease
        /\ \A other \in Deliveries \ {d} : attempt'[other] = attempt[other]
        /\ UNCHANGED <<row, accepted, rejected, abandoned>>
    BY <1>2, <1>3 DEF Send, history
  <2>2. /\ Cardinality(Outstanding(d)') <= Cardinality(Outstanding(d)) + 1
        /\ \A other : other # d => Outstanding(other)' = Outstanding(other)
    BY <1>3, SendOutstanding DEF Send
  <2>3. TablesTyped'
    BY <1>1, <2>1 DEF TablesTyped
  <2>4. DeliveryInv(d)'
    <3>1. Current(d)' = 1
      BY <2>1 DEF Current
    <3>2. Current(d) = 0
      BY <2>1 DEF Current
    <3> QED
      BY <1>1, <2>1, <2>2, <3>1, <3>2 DEF DeliveryInv, Held
  <2> QED
    BY <2>1, <2>2, <2>3, <2>4, OneDelivery
<1>4. ASSUME NEW lease \in Leases, Accept(d, lease)
      PROVE  OutboxInv'
  <2>1. /\ Cardinality(Outstanding(d)') = Cardinality(Outstanding(d)) - 1
        /\ \A other : other # d => Outstanding(other)' = Outstanding(other)
    BY <1>4, ArriveOutstanding DEF Accept
  <2>2. /\ accepted' \in [Deliveries -> Nat]
        /\ accepted'[d] = accepted[d] + 1
        /\ \A other \in Deliveries \ {d} : accepted'[other] = accepted[other]
        /\ UNCHANGED <<row, rejected, abandoned>>
    BY <1>1, <1>4 DEF Accept, TablesTyped
  <2>3. \/ UNCHANGED attempt
        \/ /\ attempt[d].phase = "sent" /\ attempt'[d].phase = "answered"
           /\ attempt'[d].lease = attempt[d].lease
           /\ attempt' \in [Deliveries -> Attempt]
           /\ \A other \in Deliveries \ {d} : attempt'[other] = attempt[other]
    BY <1>2, <1>4 DEF Accept
  <2>4. TablesTyped'
    BY <1>1, <2>2, <2>3 DEF TablesTyped
  <2>5. DeliveryInv(d)'
    <3>1. Current(d)' = Current(d)
      BY <2>2, <2>3 DEF Current
    <3> QED
      BY <1>1, <2>1, <2>2, <2>3, <3>1 DEF DeliveryInv, Held
  <2> QED
    BY <2>1, <2>2, <2>3, <2>4, <2>5, OneDelivery
<1>5. ASSUME NEW lease \in Leases, NEW outcome \in {"transient", "permanent"},
             Reject(d, lease, outcome)
      PROVE  OutboxInv'
  <2>1. /\ Cardinality(Outstanding(d)') = Cardinality(Outstanding(d)) - 1
        /\ \A other : other # d => Outstanding(other)' = Outstanding(other)
    BY <1>5, ArriveOutstanding DEF Reject
  <2>2. UNCHANGED <<row, accepted, abandoned>> /\ rejected \subseteq rejected'
    BY <1>5 DEF Reject
  <2>3. \/ UNCHANGED attempt
        \/ /\ attempt[d].phase = "sent" /\ attempt'[d].phase = outcome
           /\ outcome = "permanent" => d \in rejected'
           /\ attempt'[d].lease = attempt[d].lease
           /\ attempt' \in [Deliveries -> Attempt]
           /\ \A other \in Deliveries \ {d} : attempt'[other] = attempt[other]
    BY <1>2, <1>5 DEF Reject
  <2>4. TablesTyped'
    BY <1>1, <2>2, <2>3 DEF TablesTyped
  <2>5. DeliveryInv(d)'
    <3>1. CASE UNCHANGED attempt
      <4>1. Current(d)' = Current(d)
        BY <2>2, <3>1 DEF Current
      <4>2. accepted'[d] + Cardinality(Outstanding(d)') <= abandoned'[d] + Current(d)'
        BY <1>1, <2>1, <2>2, <4>1 DEF DeliveryInv, Current
      <4> QED
        BY <1>1, <2>2, <3>1, <4>2 DEF DeliveryInv, Held
    <3>2. CASE ~UNCHANGED attempt
      <4>1. Current(d) <= Current(d)' + 1 /\ Current(d) \in 0..1 /\ Current(d)' \in 0..1
        BY DEF Current
      <4> QED
        BY <1>1, <2>1, <2>2, <2>3, <3>2, <4>1 DEF DeliveryInv, Held
    <3> QED
      BY <3>1, <3>2
  <2> QED
    BY <2>1, <2>2, <2>3, <2>4, <2>5, OneDelivery
<1> QED
  BY <1>3, <1>4, <1>5

-----------------------------------------------------------------------------
(* Theorems *)

LEMMA OutboxInvInit == Init => OutboxInv
<1> SUFFICES ASSUME Init
             PROVE  OutboxInv
  OBVIOUS
<1>1. TablesTyped
  BY DEF Init, TablesTyped, Row, Attempt, NoAttempt
<1>2. ASSUME NEW d \in Deliveries
      PROVE  DeliveryInv(d)
  <2>1. Outstanding(d) = {}
    BY DEF Init, Outstanding
  <2>2. Cardinality(Outstanding(d)) = 0
    BY <2>1, FS_EmptySet
  <2> QED
    BY <2>2 DEF Init, DeliveryInv, Current, NoAttempt
<1> QED
  BY <1>1, <1>2 DEF OutboxInv

LEMMA OutboxInvStep == OutboxInv /\ [Next]_outboxVars => OutboxInv'
<1> SUFFICES ASSUME OutboxInv, [Next]_outboxVars
             PROVE  OutboxInv'
  OBVIOUS
<1>1. CASE \/ \E e \in Events : InsertOutboxEvent(e) \/ PruneTerminalOutbox(e)
           \/ \E d \in Deliveries :
                DueAgain(d) \/ LeaseExpires(d) \/ RetryDeadDelivery(d)
           \/ ArchiveDeployment
           \/ \E force \in BOOLEAN : PurgeDeploymentSafe(force)
  <2>1. UNCHANGED <<attempt, network, history>>
    BY <1>1 DEF InsertOutboxEvent, PruneTerminalOutbox, DueAgain, LeaseExpires,
       RetryDeadDelivery, ArchiveDeployment, PurgeDeploymentSafe, externalVars
  <2> QED
    BY <1>1, <2>1, StoreSteps
<1>2. CASE \E d \in Deliveries :
            \/ DeferDelivery(d) \/ Answer(d) \/ GiveUp(d) \/ Settle(d)
            \/ SettlementFails(d)
  BY <1>2, AttemptSteps
<1>3. CASE \E d \in Deliveries :
            \/ Send(d)
            \/ \E lease \in Leases :
                \/ Accept(d, lease)
                \/ \E outcome \in {"transient", "permanent"} :
                        Reject(d, lease, outcome)
  BY <1>3, NetworkSteps
<1>4. CASE ClaimOutbox
  BY <1>4, ClaimSteps
<1>5. CASE CrashAndRestart
  BY <1>5, CrashSteps
<1>6. CASE UNCHANGED outboxVars
  <2>1. UNCHANGED <<row, attempt, network, accepted, rejected, abandoned>>
    BY <1>6 DEF outboxVars
  <2>2. \A d : Outstanding(d)' = Outstanding(d)
    BY <2>1, SameOutstanding
  <2> QED
    BY <2>1, <2>2, Undisturbed DEF OutboxInv, TablesTyped
<1> QED
  BY <1>1, <1>2, <1>3, <1>4, <1>5, <1>6 DEF Next

\* The invariant holds in every reachable state.
THEOREM OutboxInvariant == Spec => []OutboxInv
<1> QED
  BY OutboxInvInit, OutboxInvStep, PTL DEF Spec

\* outbox.go: a delivery is repeated only after an attempt that was given up on,
\* or whose settlement or daemon was lost.
THEOREM DuplicatesCorrect == Spec => []DuplicatesExplained
<1>1. OutboxInv => DuplicatesExplained
  <2> SUFFICES ASSUME OutboxInv, NEW d \in Deliveries
               PROVE  accepted[d] <= 1 + abandoned[d]
    BY DEF DuplicatesExplained
  <2>1. /\ accepted[d] \in Nat /\ abandoned[d] \in Nat
        /\ Cardinality(Outstanding(d)) \in Nat
        /\ accepted[d] + Cardinality(Outstanding(d)) <= abandoned[d] + Current(d)
    BY OutstandingFinite DEF OutboxInv, TablesTyped, DeliveryInv
  <2>2. Current(d) \in 0..1
    BY DEF Current
  <2> QED
    BY <2>1, <2>2
<1> QED
  BY <1>1, OutboxInvariant, PTL

\* MarkDelivered and MarkDeliveryFailed: what a row ends as is what happened.
THEOREM TerminalCorrect == Spec => []TerminalIsDeserved
<1>1. OutboxInv => TerminalIsDeserved
  BY DEF OutboxInv, DeliveryInv, TerminalIsDeserved
<1> QED
  BY <1>1, OutboxInvariant, PTL

\* A step that deletes a delivery still owed is a forced purge.
LEMMA OnlyForceDrops ==
    ASSUME OutboxInv, [Next]_outboxVars, NEW d \in Queued, row'[d].status = "gone"
    PROVE  deployment' = "forced"
<1>1. /\ d \in Deliveries /\ TablesTyped
      /\ row[d].status \in {"pending", "sending"}
  BY DEF Queued, OutboxInv
<1>2. ASSUME NEW gone, DeleteRows(gone)
      PROVE  d \in gone
  BY <1>1, <1>2 DEF DeleteRows
<1>3. ASSUME NEW e \in Events
      PROVE  ~PruneTerminalOutbox(e)
  <2> SUFFICES ASSUME PruneTerminalOutbox(e)
               PROVE  FALSE
    OBVIOUS
  <2>1. PICK dest \in Destinations : d = <<e, dest>>
    BY <1>2 DEF PruneTerminalOutbox
  <2> QED
    BY <1>1, <2>1 DEF PruneTerminalOutbox, TerminalOutbox
<1>4. ASSUME NEW force \in BOOLEAN, PurgeDeploymentSafe(force)
      PROVE  deployment' = "forced"
  BY <1>4 DEF PurgeDeploymentSafe
<1>5. ASSUME NEW e \in Events, InsertOutboxEvent(e)
      PROVE  FALSE
  BY <1>1, <1>5 DEF InsertOutboxEvent, TablesTyped, Row
<1>6. ASSUME NEW other \in Deliveries, LeaseExpires(other) \/ RetryDeadDelivery(other)
      PROVE  FALSE
  BY <1>1, <1>6 DEF TablesTyped, Row, LeaseExpires, RetryDeadDelivery
<1>7. ASSUME NEW other \in Deliveries,
             DeferDelivery(other) \/ MarkDelivered(other) \/ MarkDeliveryFailed(other)
      PROVE  FALSE
  <2>1. \/ UNCHANGED row
        \/ \E status \in {"pending", "delivered", "dead"} :
                row' = [row EXCEPT ![other] =
                            [status |-> status, lease |-> 0, expired |-> FALSE]]
    BY <1>7 DEF DeferDelivery, MarkDelivered, MarkDeliveryFailed
  <2> QED
    BY <1>1, <2>1 DEF TablesTyped
<1>8. ASSUME ClaimOutbox
      PROVE  FALSE
  BY <1>1, <1>8 DEF ClaimOutbox
<1>9. ~UNCHANGED row
  BY <1>1
<1> QED
  BY <1>3, <1>4, <1>5, <1>6, <1>7, <1>8, <1>9
     DEF Next, Settle, DueAgain, Send, Accept, Reject, Answer, GiveUp, ReadAttempts,
         SettlementFails, ArchiveDeployment, CrashAndRestart, outboxVars

\* retention.go and deployments.go: sweeps and safe purges drop nothing owed.
THEOREM NothingDroppedCorrect == Spec => NothingDropped
<1>1. OutboxInv /\ [Next]_outboxVars =>
        [\A d \in Deliveries :
            d \in Queued /\ row'[d].status = "gone" => deployment' = "forced"]_outboxVars
  BY OnlyForceDrops
<1> QED
  BY <1>1, OutboxInvariant, PTL DEF Spec, NothingDropped

-----------------------------------------------------------------------------
(* The queue of rows that are due *)

\* A sequence of deliveries without repetition.
Queue(s) == s \in Seq(Deliveries) /\ IsInjective(s)

LEMMA QueueElements ==
    ASSUME NEW s \in Seq(Deliveries)
    PROVE  /\ Len(s) \in Nat /\ DOMAIN s = 1..Len(s)
           /\ \A d : d \in ToSet(s) <=> \E i \in 1..Len(s) : s[i] = d
  BY DEF ToSet

LEMMA RemoveFromQueue ==
    ASSUME NEW s, Queue(s), NEW d
    PROVE  /\ Queue(RemoveFirst(s, d))
           /\ ToSet(RemoveFirst(s, d)) \subseteq ToSet(s) \ {d}
<1>1. s \in Seq(Deliveries) /\ \A i, j \in 1..Len(s) : s[i] = s[j] => i = j
  BY DEF Queue, IsInjective
<1>2. CASE \E i \in 1..Len(s) : s[i] = d
  <2>1. PICK i \in 1..Len(s) : s[i] = d
    BY <1>2
  <2>2. {k \in 1..Len(s) : s[k] = d} = {i}
    BY <1>1, <2>1
  <2>3. Min({i}) = i
    BY DEF Min
  <2>4. RemoveFirst(s, d) = SubSeq(s, 1, i - 1) \o SubSeq(s, i + 1, Len(s))
    BY <1>2, <2>2, <2>3 DEF RemoveFirst, SelectInSeq, RemoveAt
  <2> DEFINE t == SubSeq(s, 1, i - 1) \o SubSeq(s, i + 1, Len(s))
  <2>5. /\ t \in Seq(Deliveries) /\ Len(t) = Len(s) - 1
        /\ DOMAIN t = 1..Len(t)
        /\ \A k \in 1..Len(t) : t[k] = IF k < i THEN s[k] ELSE s[k + 1]
    <3> DEFINE a == SubSeq(s, 1, i - 1)
               b == SubSeq(s, i + 1, Len(s))
    <3>0. Len(s) \in Nat /\ i \in 1..Len(s) /\ \A k \in 1..Len(s) : s[k] \in Deliveries
      BY <1>1, <2>1
    <3>1. /\ a \in Seq(Deliveries) /\ Len(a) = i - 1
          /\ \A k \in 1..(i - 1) : a[k] = s[k]
      <4>1. i - 1 \in 0..Len(s)
        BY <3>0
      <4> QED
        BY <1>1, <3>0, <4>1
    <3>2. /\ b \in Seq(Deliveries) /\ Len(b) = Len(s) - i
          /\ \A k \in 1..(Len(s) - i) : b[k] = s[i + k]
      <4>1. /\ i + 1 \in 1..(Len(s) + 1) /\ Len(s) \in (i + 1) - 1..Len(s)
            /\ \A k \in 1..(Len(s) - i) : (i + 1) + k - 1 = i + k
        BY <3>0
      <4>2. b \in Seq(Deliveries)
        BY <1>1, <3>0, <4>1
      <4>3. Len(b) = Len(s) - i
        BY <1>1, <3>0, <4>1
      <4>4. ASSUME NEW k \in 1..(Len(s) - i)
            PROVE  b[k] = s[i + k]
        BY <1>1, <3>0, <4>1
      <4> QED
        BY <4>2, <4>3, <4>4
    <3> HIDE DEF a, b
    <3>3. /\ a \o b \in Seq(Deliveries) /\ Len(a \o b) = Len(a) + Len(b)
          /\ \A k \in 1..(Len(a) + Len(b)) :
                (a \o b)[k] = IF k <= Len(a) THEN a[k] ELSE b[k - Len(a)]
      <4>1. a \in Seq(Deliveries) /\ b \in Seq(Deliveries)
        BY <3>1, <3>2
      <4> QED
        BY <4>1
    <3>4. Len(s) \in Nat /\ i \in 1..Len(s)
      BY <1>1, <2>1
    <3>5. Len(a \o b) = Len(s) - 1 /\ DOMAIN (a \o b) = 1..Len(a \o b)
      <4>1. Len(a) = i - 1 /\ Len(b) = Len(s) - i /\ Len(a \o b) = Len(a) + Len(b)
        BY <3>1, <3>2, <3>3
      <4>2. Len(a \o b) = Len(s) - 1
        BY <3>4, <4>1
      <4> QED
        BY <3>3, <4>2, QueueElements
    <3>6. ASSUME NEW k \in 1..(Len(s) - 1)
          PROVE  (a \o b)[k] = IF k < i THEN s[k] ELSE s[k + 1]
      <4>1. CASE k < i
        BY <3>1, <3>2, <3>3, <3>4, <4>1
      <4>2. CASE k >= i
        <5>1. k - (i - 1) \in 1..(Len(s) - i) /\ i + (k - (i - 1)) = k + 1
          BY <3>4, <4>2
        <5>2. (a \o b)[k] = b[k - (i - 1)]
          BY <3>1, <3>2, <3>3, <3>4, <4>2
        <5> QED
          BY <3>2, <3>4, <4>2, <5>1, <5>2
      <4>3. k < i \/ k >= i
        BY <3>4
      <4> QED
        BY <4>1, <4>2, <4>3
    <3> QED
      BY <3>3, <3>5, <3>6 DEF a, b
  <2> HIDE DEF t
  <2>6. \A k, l \in 1..Len(t) : t[k] = t[l] => k = l
    BY <1>1, <2>1, <2>5
  <2>7. \A k \in 1..Len(t) : t[k] \in ToSet(s) \ {d}
    <3>1. ASSUME NEW k \in 1..Len(t)
          PROVE  \E l \in 1..Len(s) : l # i /\ t[k] = s[l]
      <4>1. k \in 1..Len(s) /\ k + 1 \in 1..Len(s) /\ k + 1 > k
        BY <1>1, <2>5
      <4> QED
        BY <2>1, <2>5, <4>1
    <3>2. \A l \in 1..Len(s) : l # i => s[l] # d
      BY <1>1, <2>1
    <3> QED
      BY <1>1, <3>1, <3>2, QueueElements
  <2>8. Queue(t)
    BY <2>5, <2>6 DEF Queue, IsInjective
  <2>9. ToSet(t) \subseteq ToSet(s) \ {d}
    BY <2>5, <2>7, QueueElements
  <2> QED
    BY <2>4, <2>8, <2>9 DEF t
<1>3. CASE ~\E i \in 1..Len(s) : s[i] = d
  <2>1. RemoveFirst(s, d) = s
    BY <1>3 DEF RemoveFirst
  <2> QED
    BY <1>1, <1>3, <2>1 DEF Queue, ToSet
<1> QED
  BY <1>2, <1>3

LEMMA JoinQueues ==
    ASSUME NEW s, NEW t, Queue(s), Queue(t), ToSet(s) \cap ToSet(t) = {}
    PROVE  /\ Queue(s \o t)
           /\ ToSet(s \o t) = ToSet(s) \cup ToSet(t)
<1>1. /\ s \in Seq(Deliveries) /\ \A i, j \in 1..Len(s) : s[i] = s[j] => i = j
      /\ t \in Seq(Deliveries) /\ \A i, j \in 1..Len(t) : t[i] = t[j] => i = j
  BY DEF Queue, IsInjective
<1>2. /\ s \o t \in Seq(Deliveries) /\ Len(s \o t) = Len(s) + Len(t)
      /\ \A i \in 1..Len(s \o t) : (s \o t)[i] = IF i <= Len(s) THEN s[i]
                                                 ELSE t[i - Len(s)]
  BY <1>1
<1>3. \A i \in 1..Len(s), j \in 1..Len(t) : s[i] # t[j]
  BY <1>1 DEF ToSet
<1> DEFINE u == s \o t
<1>4. /\ u \in Seq(Deliveries) /\ Len(u) = Len(s) + Len(t)
      /\ DOMAIN s = 1..Len(s) /\ DOMAIN t = 1..Len(t) /\ DOMAIN u = 1..Len(u)
      /\ Len(s) \in Nat /\ Len(t) \in Nat
      /\ \A i \in 1..Len(s) : u[i] = s[i]
      /\ \A i \in 1..Len(t) : u[Len(s) + i] = t[i]
      /\ \A i \in 1..Len(u) : i \in 1..Len(s) \/ \E j \in 1..Len(t) : i = Len(s) + j
  <2>1. \A i \in 1..Len(u) : i > Len(s) => i - Len(s) \in 1..Len(t) /\ i = Len(s) + (i - Len(s))
    BY <1>1, <1>2
  <2> QED
    BY <1>1, <1>2, <2>1
<1> HIDE DEF u
<1>5. ASSUME NEW i \in 1..Len(u), NEW j \in 1..Len(u), u[i] = u[j]
      PROVE  i = j
  <2>1. CASE i \in 1..Len(s) /\ j \in 1..Len(s)
    <3>1. s[i] = s[j]
      BY <1>4, <1>5, <2>1
    <3> QED
      BY <1>1, <2>1, <3>1
  <2>2. CASE i \notin 1..Len(s) /\ j \notin 1..Len(s)
    <3>1. PICK k \in 1..Len(t), l \in 1..Len(t) : i = Len(s) + k /\ j = Len(s) + l
      BY <1>4, <2>2
    <3>2. t[k] = t[l]
      BY <1>4, <1>5, <3>1
    <3> QED
      BY <1>1, <3>1, <3>2
  <2>3. CASE i \in 1..Len(s) /\ j \notin 1..Len(s)
    BY <1>3, <1>4, <1>5, <2>3
  <2>4. CASE i \notin 1..Len(s) /\ j \in 1..Len(s)
    BY <1>3, <1>4, <1>5, <2>4
  <2> QED
    BY <2>1, <2>2, <2>3, <2>4
<1>6. ToSet(u) = ToSet(s) \cup ToSet(t)
  <2>1. ASSUME NEW i \in 1..Len(u)
        PROVE  u[i] \in ToSet(s) \cup ToSet(t)
    BY <1>4 DEF ToSet
  <2>2. ASSUME NEW i \in 1..Len(s)
        PROVE  s[i] \in ToSet(u)
    <3>1. i \in 1..Len(u) /\ u[i] = s[i]
      BY <1>4
    <3> QED
      BY <1>4, <3>1 DEF ToSet
  <2>3. ASSUME NEW i \in 1..Len(t)
        PROVE  t[i] \in ToSet(u)
    <3>1. Len(s) + i \in 1..Len(u) /\ u[Len(s) + i] = t[i]
      BY <1>4
    <3> QED
      BY <1>4, <3>1 DEF ToSet
  <2>4. \A d \in ToSet(u) : d \in ToSet(s) \cup ToSet(t)
    BY <1>4, <2>1, QueueElements
  <2>5. \A d \in ToSet(s) \cup ToSet(t) : d \in ToSet(u)
    BY <1>1, <2>2, <2>3, QueueElements
  <2> QED
    BY <2>4, <2>5
<1> QED
  BY <1>4, <1>5, <1>6 DEF u, Queue, IsInjective

LEMMA AppendToQueue ==
    ASSUME NEW s, Queue(s), NEW d \in Deliveries, d \notin ToSet(s)
    PROVE  /\ Queue(Append(s, d))
           /\ ToSet(Append(s, d)) = ToSet(s) \cup {d}
<1>1. /\ Queue(<<d>>) /\ ToSet(<<d>>) = {d}
  BY DEF Queue, IsInjective, ToSet
<1>2. Append(s, d) = s \o <<d>>
  BY DEF Queue
<1> QED
  BY <1>1, <1>2, JoinQueues

\* The rows an event is given, in some order.
LEMMA RowsQueue ==
    ASSUME NEW e \in Events
    PROVE  /\ Queue(SetToSeq({e} \X Destinations))
           /\ ToSet(SetToSeq({e} \X Destinations)) \subseteq {e} \X Destinations
<1> DEFINE S == {e} \X Destinations
<1>1. IsFiniteSet(S)
  BY DestinationsAssumption, FS_Singleton, FS_Product
<1>2. S \subseteq Deliveries
  BY DEF Deliveries
<1> HIDE DEF S
<1>3. Cardinality(S) \in Nat /\ ExistsBijection(1..Cardinality(S), S)
  BY <1>1, FS_CardinalityType
<1>4. \E f \in [1..Cardinality(S) -> S] : IsInjective(f)
  BY <1>3 DEF ExistsBijection, Bijection, Injection, IsInjective
<1>5. SetToSeq(S) \in [1..Cardinality(S) -> S] /\ IsInjective(SetToSeq(S))
  BY <1>4 DEF SetToSeq
<1>6. SetToSeq(S) \in Seq(Deliveries)
  BY <1>2, <1>3, <1>5
<1> QED
  BY <1>5, <1>6 DEF S, Queue, ToSet

-----------------------------------------------------------------------------
(* Types *)

\* Every row that is due is owed, and is due once.
QueueInv == Queue(dueRows) /\ ToSet(dueRows) \subseteq Queued

RestTyped ==
    /\ deployment \in {"present", "archived", "purged", "forced"}
    /\ network \subseteq Deliveries \X Leases
    /\ rejected \subseteq Deliveries
    /\ faults \in 0..MaxFaults

\* A settlement takes the row it writes out of the queue, and writes no other.
LEMMA SettledLeavesQueue ==
    ASSUME TablesTyped, TablesTyped', QueueInv, NEW d \in Deliveries,
           DeferDelivery(d) \/ MarkDelivered(d) \/ MarkDeliveryFailed(d)
    PROVE  QueueInv'
<1>1. CASE UNCHANGED <<row, dueRows>>
  BY <1>1 DEF QueueInv, Queued
<1>2. CASE dueRows' = RemoveFirst(dueRows, d)
           /\ \E new : row' = [row EXCEPT ![d] = new]
  <2>1. Queue(dueRows') /\ ToSet(dueRows') \subseteq ToSet(dueRows) \ {d}
    BY <1>2, RemoveFromQueue DEF QueueInv
  <2>2. \A other \in Deliveries \ {d} : row'[other] = row[other]
    BY <1>2 DEF TablesTyped
  <2>3. ToSet(dueRows') \subseteq Queued'
    BY <2>1, <2>2 DEF QueueInv, Queued
  <2> QED
    BY <2>1, <2>3 DEF QueueInv, Queue
<1> QED
  BY <1>1, <1>2 DEF DeferDelivery, MarkDelivered, MarkDeliveryFailed, Without

LEMMA QueueStep ==
    ASSUME OutboxInv, OutboxInv', QueueInv, [Next]_outboxVars
    PROVE  QueueInv'
<1>1. TablesTyped /\ TablesTyped'
  BY DEF OutboxInv
<1>2. Queue(dueRows) /\ ToSet(dueRows) \subseteq Queued
  BY DEF QueueInv
<1>3. ASSUME UNCHANGED dueRows, \A d \in ToSet(dueRows) : d \in Queued'
      PROVE  QueueInv'
  BY <1>2, <1>3 DEF QueueInv, Queue
<1>4. ASSUME NEW e \in Events, InsertOutboxEvent(e)
      PROVE  QueueInv'
  <2>1. /\ dueRows' = dueRows \o SetToSeq({e} \X Destinations)
        /\ \A dest \in Destinations : row[<<e, dest>>].status = "none"
        /\ row' = [d \in Deliveries |->
                IF d[1] = e THEN [row[d] EXCEPT !.status = "pending"] ELSE row[d]]
    BY <1>4 DEF InsertOutboxEvent
  <2>2. \A d \in {e} \X Destinations :
            d \in Deliveries /\ row[d].status = "none" /\ row'[d].status = "pending"
    <3>1. ASSUME NEW dest \in Destinations
          PROVE  /\ <<e, dest>> \in Deliveries
                 /\ row[<<e, dest>>].status = "none"
                 /\ row'[<<e, dest>>].status = "pending"
      BY <1>1, <2>1 DEF Deliveries, TablesTyped, Row
    <3> QED
      BY <3>1
  <2>3. ASSUME NEW d \in Queued
        PROVE  d \in Queued' /\ d \notin {e} \X Destinations
    <3>1. d \notin {e} \X Destinations
      BY <2>2 DEF Queued
    <3>2. d[1] # e
      BY <3>1 DEF Queued, Deliveries
    <3> QED
      BY <2>1, <3>1, <3>2 DEF Queued
  <2>4. /\ Queue(SetToSeq({e} \X Destinations))
        /\ ToSet(SetToSeq({e} \X Destinations)) \subseteq {e} \X Destinations
    BY RowsQueue
  <2>5. ToSet(dueRows) \cap ToSet(SetToSeq({e} \X Destinations)) = {}
    BY <1>2, <2>3, <2>4
  <2>6. /\ Queue(dueRows')
        /\ ToSet(dueRows') = ToSet(dueRows) \cup ToSet(SetToSeq({e} \X Destinations))
    BY <1>2, <2>1, <2>4, <2>5, JoinQueues
  <2>7. \A d \in {e} \X Destinations : d \in Queued'
    BY <2>2 DEF Queued
  <2>8. ToSet(dueRows') \subseteq Queued'
    BY <1>2, <2>3, <2>4, <2>6, <2>7
  <2> QED
    BY <2>6, <2>8 DEF QueueInv, Queue
<1>5. ASSUME NEW d \in Deliveries, DueAgain(d) \/ RetryDeadDelivery(d)
      PROVE  QueueInv'
  <2>1. /\ dueRows' = Append(dueRows, d) /\ d \notin ToSet(dueRows)
        /\ row'[d].status = "pending"
        /\ \A other \in Deliveries \ {d} : row'[other] = row[other]
    BY <1>1, <1>2, <1>5 DEF DueAgain, RetryDeadDelivery, TablesTyped, Row, Queued
  <2>2. Queue(dueRows') /\ ToSet(dueRows') = ToSet(dueRows) \cup {d}
    BY <1>2, <2>1, AppendToQueue
  <2>3. ToSet(dueRows') \subseteq Queued'
    BY <1>2, <2>1, <2>2 DEF Queued
  <2> QED
    BY <2>2, <2>3 DEF QueueInv, Queue
<1>6. ASSUME NEW d \in Deliveries, LeaseExpires(d)
      PROVE  QueueInv'
  <2>1. \A other \in Deliveries : row'[other].status = row[other].status
    BY <1>1, <1>6 DEF LeaseExpires, TablesTyped, Row
  <2>2. \A other \in ToSet(dueRows) : other \in Queued'
    BY <1>2, <2>1 DEF Queued
  <2> QED
    BY <1>3, <1>6, <2>2 DEF LeaseExpires
<1>7. ASSUME NEW e \in Events, PruneTerminalOutbox(e)
      PROVE  QueueInv'
  <2>1. /\ UNCHANGED dueRows
        /\ \A dest \in Destinations : row[<<e, dest>>].status \in {"delivered", "dead"}
        /\ DeleteRows({e} \X Destinations)
    BY <1>7 DEF PruneTerminalOutbox, TerminalOutbox
  <2>2. \A d \in {e} \X Destinations : row[d].status \in {"delivered", "dead"}
    BY <2>1
  <2>3. \A d \in Queued : d \notin {e} \X Destinations
    BY <2>2 DEF Queued
  <2>4. \A d \in Queued : d \in Queued'
    BY <2>1, <2>3 DEF Queued, DeleteRows
  <2> QED
    BY <1>2, <1>3, <2>1, <2>4
<1>8. ASSUME NEW force \in BOOLEAN, PurgeDeploymentSafe(force)
      PROVE  QueueInv'
  <2>1. dueRows' = <<>>
    BY <1>8 DEF PurgeDeploymentSafe
  <2> QED
    BY <2>1 DEF QueueInv, Queue, IsInjective, ToSet
<1>9. ASSUME ClaimOutbox
      PROVE  QueueInv'
  <2>1. \A d \in Queued : row'[d] = row[d] \/ row'[d].status = "sending"
    BY <1>1, <1>9 DEF ClaimOutbox, Queued
  <2>2. \A d \in Queued : d \in Queued'
    BY <2>1 DEF Queued
  <2> QED
    BY <1>2, <1>3, <1>9, <2>2 DEF ClaimOutbox
<1>10. CASE UNCHANGED <<row, dueRows>>
  BY <1>2, <1>3, <1>10 DEF Queued
<1> QED
  BY <1>1, <1>4, <1>5, <1>6, <1>7, <1>8, <1>9, <1>10, SettledLeavesQueue
     DEF Next, Settle, Send, Accept, Reject, Answer, GiveUp, ReadAttempts,
         SettlementFails, ArchiveDeployment, CrashAndRestart, outboxVars

\* An attempt keeps its claim as long as it lasts.
Leased == \A d \in Deliveries : attempt[d].phase # "none" => attempt[d].lease \in Leases

LEMMA LeasedStep ==
    ASSUME TablesTyped, Leased, [Next]_outboxVars
    PROVE  Leased'
<1>1. attempt \in [Deliveries -> Attempt]
  BY DEF TablesTyped
<1>2. ASSUME NEW d \in Deliveries, NEW phase, Becomes(d, phase),
             attempt[d].phase # "none"
      PROVE  Leased'
  <2>1. /\ attempt'[d].lease = attempt[d].lease
        /\ \A other \in Deliveries \ {d} : attempt'[other] = attempt[other]
    BY <1>1, <1>2 DEF Becomes, Attempt
  <2> QED
    BY <1>2, <2>1 DEF Leased
<1>3. ASSUME NEW d \in Deliveries, Returns(d)
      PROVE  Leased'
  <2>1. /\ attempt'[d].phase = "none"
        /\ \A other \in Deliveries \ {d} : attempt'[other] = attempt[other]
    BY <1>1, <1>3 DEF Returns, NoAttempt
  <2> QED
    BY <2>1 DEF Leased
<1>4. CASE UNCHANGED attempt
  BY <1>4 DEF Leased
<1>5. CASE ClaimOutbox
  <2> DEFINE lease == CHOOSE fresh \in FreshLeases : TRUE
  <2>1. lease \in Leases
    BY <1>5 DEF ClaimOutbox, FreshLeases
  <2>2. \A d \in Deliveries :
            attempt'[d] = attempt[d] \/ attempt'[d] = [phase |-> "claimed", lease |-> lease]
    BY <1>5 DEF ClaimOutbox
  <2> HIDE DEF lease
  <2> QED
    BY <2>1, <2>2 DEF Leased
<1>6. CASE CrashAndRestart
  BY <1>6 DEF CrashAndRestart, NoAttempt, Leased
<1>7. ASSUME NEW d \in Deliveries,
             \/ DeferDelivery(d) \/ Send(d) \/ Answer(d) \/ GiveUp(d) \/ Settle(d)
             \/ SettlementFails(d)
      PROVE  Leased'
  BY <1>2, <1>3, <1>7 DEF DeferDelivery, Send, Answer, GiveUp, Settle, MarkDelivered,
     ReadAttempts, MarkDeliveryFailed, SettlementFails
<1>8. ASSUME NEW d \in Deliveries, NEW lease \in Leases,
             \/ Accept(d, lease)
             \/ \E outcome \in {"transient", "permanent"} : Reject(d, lease, outcome)
      PROVE  Leased'
  <2>1. CASE attempt[d] = [phase |-> "sent", lease |-> lease]
    <3>1. attempt[d].phase # "none"
      BY <2>1
    <3> QED
      BY <1>2, <1>8, <2>1, <3>1 DEF Accept, Reject
  <2>2. CASE attempt[d] # [phase |-> "sent", lease |-> lease]
    BY <1>4, <1>8, <2>2 DEF Accept, Reject
  <2> QED
    BY <2>1, <2>2
<1> QED
  BY <1>4, <1>5, <1>6, <1>7, <1>8 DEF Next, InsertOutboxEvent, PruneTerminalOutbox,
     DueAgain, LeaseExpires, RetryDeadDelivery, ArchiveDeployment,
     PurgeDeploymentSafe, outboxVars

LEMMA RestStep ==
    ASSUME TablesTyped, RestTyped, Leased, [Next]_outboxVars
    PROVE  RestTyped'
<1>1. /\ deployment \in {"present", "archived", "purged", "forced"}
      /\ network \subseteq Deliveries \X Leases
      /\ rejected \subseteq Deliveries
      /\ faults \in 0..MaxFaults /\ MaxFaults \in Nat
  BY LeasesAssumption DEF RestTyped
<1>2. Fault => faults' \in 0..MaxFaults
  BY <1>1 DEF Fault
<1>3. CASE UNCHANGED <<deployment, network, rejected, faults>>
  BY <1>3 DEF RestTyped
<1>4. ASSUME NEW d \in Deliveries, Send(d)
      PROVE  RestTyped'
  <2>1. attempt[d].lease \in Leases
    BY <1>4 DEF Leased, Send
  <2> QED
    BY <1>1, <1>4, <2>1 DEF Send, RestTyped, history
<1>5. ASSUME NEW d \in Deliveries, NEW lease \in Leases,
             \/ Accept(d, lease)
             \/ \E outcome \in {"transient", "permanent"} : Reject(d, lease, outcome)
      PROVE  RestTyped'
  BY <1>1, <1>5 DEF Accept, Reject, RestTyped
<1>6. ASSUME Fault, UNCHANGED <<deployment, network, rejected>>
      PROVE  RestTyped'
  BY <1>1, <1>2, <1>6 DEF RestTyped
<1>7. ASSUME UNCHANGED <<network, rejected, faults>>,
             deployment' \in {"archived", "purged", "forced"}
      PROVE  RestTyped'
  BY <1>1, <1>7 DEF RestTyped
<1>8. CASE \/ CrashAndRestart
           \/ \E d \in Deliveries :
                RetryDeadDelivery(d) \/ GiveUp(d) \/ SettlementFails(d)
  BY <1>6, <1>8 DEF CrashAndRestart, RetryDeadDelivery, GiveUp, SettlementFails, history
<1>9. CASE \/ ArchiveDeployment
           \/ \E force \in BOOLEAN : PurgeDeploymentSafe(force)
  BY <1>7, <1>9 DEF ArchiveDeployment, PurgeDeploymentSafe, externalVars, history
<1>10. CASE \/ ClaimOutbox \/ UNCHANGED outboxVars
            \/ \E e \in Events : InsertOutboxEvent(e) \/ PruneTerminalOutbox(e)
            \/ \E d \in Deliveries :
                \/ DueAgain(d) \/ LeaseExpires(d) \/ DeferDelivery(d) \/ Answer(d)
                \/ Settle(d)
  BY <1>3, <1>10 DEF ClaimOutbox, InsertOutboxEvent, PruneTerminalOutbox, DueAgain,
     LeaseExpires, DeferDelivery, Answer, Settle, MarkDelivered, ReadAttempts,
     MarkDeliveryFailed, externalVars, history, outboxVars
<1> QED
  BY <1>4, <1>5, <1>8, <1>9, <1>10 DEF Next

\* Between them the parts say what TypeOK says.
TypeInv == TablesTyped /\ QueueInv /\ RestTyped /\ Leased

LEMMA TypeInvInit == Init => TypeInv
<1> SUFFICES ASSUME Init
             PROVE  TypeInv
  OBVIOUS
<1>1. TablesTyped
  BY OutboxInvInit DEF OutboxInv
<1>2. QueueInv
  BY DEF Init, QueueInv, Queue, IsInjective, ToSet
<1>3. RestTyped /\ Leased
  BY LeasesAssumption DEF Init, RestTyped, Leased, NoAttempt
<1> QED
  BY <1>1, <1>2, <1>3 DEF TypeInv

\* outbox.go: what the tables and the loop hold, and a row that is due is owed.
THEOREM OutboxTypeCorrect == Spec => []TypeOK
<1>1. OutboxInv /\ OutboxInv' /\ TypeInv /\ [Next]_outboxVars => TypeInv'
  BY QueueStep, RestStep, LeasedStep DEF TypeInv, OutboxInv
<1>2. TypeInv => TypeOK
  BY DEF TypeInv, TablesTyped, QueueInv, Queue, RestTyped, TypeOK
<1> QED
  BY <1>1, <1>2, TypeInvInit, OutboxInvariant, PTL DEF Spec
===============================================================================
