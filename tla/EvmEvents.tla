----------------------------- MODULE EvmEvents ------------------------------
(* evm.Events (catalog/quicknode/evm/events.go): logs that match a filter, given
   to the handler as soon as they are pushed and once more, confirmed, by a
   replay of ranges of final blocks.

   Two checkpoints: the cursor of the replay, which moves log by log inside a
   block, and a journal of the logs handled live.  Each commit holds the
   handler's update with the checkpoints it changes, so a running worker's copies
   are the durable ones.  The replay reads only blocks that are final, so its
   reads and the commit they lead to are one step. *)
EXTENDS Chain, FiniteSets, SequencesExt

CONSTANTS
    Rich,           \* labels of blocks that hold two matching logs; others hold one
    EventsConfirmations,    \* choices of Events.Confirmations
    EventsFrom,     \* choices of Events.BackfillFrom: block numbers, or None
    BackfillRange,  \* Events.BackfillRange: blocks replayed by one request
    MaxLive,        \* maxLiveLogs
    MaxFeed         \* capacity of the log channel (256 in subscription.go)

\* Where the replay is: eventsCursor.
Cursor == [next : Nat, block : AllBlocks \cup {None}, log : Nat,
           parent : AllBlocks \cup {None}]

ASSUME EventsAssumption ==
    /\ None \notin Cursor
    /\ Rich \subseteq Forks
    /\ EventsConfirmations \subseteq Nat \ {0}
    /\ EventsFrom \subseteq (1..MaxHeight) \cup {None}
    /\ BackfillRange \in Nat \ {0}
    /\ MaxLive \in Nat /\ MaxFeed \in Nat

VARIABLES
    cursor,         \* checkpoint: where the replay is, or None
    live,           \* checkpoint: the logs handled live, not confirmed or removed
    feed,           \* pushed logs and removals on their way
    lane,           \* where run is: "none" (not deployed), "down", "loop", "range"
    range,          \* the answer to eth_getLogs not yet handled: [to, logs], or None
    origin,         \* history: the first block of the replay, or None
    confirmed,      \* history: the logs handled with Confirmed, in order
    late            \* history: the logs of live that the replay had passed already

eventsVars == <<chainVars, cursor, live, feed, lane, range, origin, confirmed, late>>


-----------------------------------------------------------------------------
(* The provider *)

LogsOf(block) ==
    IF block = <<>> THEN <<>>
    ELSE [i \in 1..(IF Last(block) \in Rich THEN 2 ELSE 1) |-> [block |-> block, index |-> i]]

LogsOfBlocks(from, to) ==
    FlattenSeq([n \in 1..(IF to < from THEN 0 ELSE to - from + 1) |->
                    LogsOf(BlockByNumber(from + n - 1))])

Pushes(logs, removed) ==
    [i \in 1..Len(logs) |-> [log |-> logs[i], removed |-> removed]]

\* What eth_subscribe pushes as the chain moves: the logs of blocks that were
\* canonical come back removed, then those of the new block follow.
Pushed ==
    LET orphans == {n \in 1..Len(chain) : n > Len(chain') \/ chain[n] # chain'[n]}
        first == IF orphans = {} THEN Len(chain) + 1
                 ELSE CHOOSE n \in orphans : \A m \in orphans : n <= m
    IN  Pushes(LogsOfBlocks(first, Len(chain)), TRUE)
            \o Pushes(LogsOf(chain'), FALSE)

EventsChainStep ==
    /\ lane # "none"
    /\ ChainStep
    /\ \/ /\ lane # "down" /\ Len(feed) + Len(Pushed) <= MaxFeed
          /\ feed' = feed \o Pushed
       \/ UNCHANGED feed
    /\ UNCHANGED <<cursor, live, lane, range, origin, confirmed, late>>

-----------------------------------------------------------------------------

EventsInit ==
    /\ ChainInit(EventsConfirmations)
    /\ cursor = None /\ live = {} /\ feed = <<>> /\ lane = "down" /\ range = None
    /\ origin = None /\ confirmed = <<>> /\ late = {}

\* What the module's variables are when another source is deployed.
EventsAbsent ==
    /\ cursor = None /\ live = {} /\ feed = <<>> /\ lane = "none" /\ range = None
    /\ origin = None /\ confirmed = <<>> /\ late = {}

\* The durable cursor, or a fresh one at the confirmed edge or at BackfillFrom.
LoadCursor ==
    IF cursor # None
    THEN /\ cursor.block = None <=> cursor.log = 0
         /\ UNCHANGED <<cursor, origin>>
    ELSE \E from \in EventsFrom :
            LET edge == IF BlockNumber >= confirmations
                        THEN BlockNumber - confirmations + 1 ELSE 0
                next == IF from = None THEN edge ELSE from
            IN  /\ cursor' = [next |-> next, block |-> None, log |-> 0, parent |-> None]
                /\ origin' = next

\* A journal above its bound would keep every worker from starting.
LoadLive == Cardinality(live) <= MaxLive /\ UNCHANGED live

\* run up to its loop: subscribe, then load the checkpoints.
EventsStarts ==
    /\ lane = "down"
    /\ feed' = <<>>
    /\ lane' = "loop"
    /\ LoadCursor
    /\ LoadLive
    /\ UNCHANGED <<chainVars, range, confirmed, late>>

EventsStop ==
    /\ lane' = "down" /\ feed' = <<>> /\ range' = None

Reconciled_Mutant(c, log) ==
    \/ Number(log.block) < c.next
    \/ Number(log.block) = c.next /\ c.block = log.block

\* The replay has handled the log.
Reconciled(c, log) ==
    \/ Number(log.block) < c.next
    \/ Number(log.block) = c.next /\ c.block = log.block /\ log.index < c.log

\* The next log of the range was handled before a restart.
Passing == lane = "range" /\ range.logs # <<>> /\ Reconciled(cursor, Head(range.logs))

\* A connection, a read, a commit or the process fails: run returns, and the
\* daemon starts another worker from the checkpoints.  Passing over logs does
\* nothing that can fail, and a process that dies at it might as well have before.
EventsFails ==
    /\ lane \notin {"none", "down"}
    /\ ~Passing
    /\ EventsStop
    /\ UNCHANGED <<chainVars, cursor, live, origin, confirmed, late>>

\* A pushed log is handled and journaled, once.  A full journal is a failure.
\* Nothing compares the log with the cursor.
HandleLog(log) ==
    IF log \in live
    THEN /\ feed' = Tail(feed)
         /\ UNCHANGED <<live, late, lane, range>>
    ELSE IF Cardinality(live) = MaxLive
    THEN EventsStop /\ UNCHANGED <<live, late>>
    ELSE /\ feed' = Tail(feed)
         /\ live' = live \cup {log}
         /\ late' = late \cup {l \in {log} : Reconciled(cursor, l)}
         /\ UNCHANGED <<lane, range>>

\* A removal is handled if its log is in the journal, and leaves it.
HandleRemoved(log) ==
    /\ feed' = Tail(feed)
    /\ live' = live \ {log}
    /\ late' = late \ {log}
    /\ UNCHANGED <<lane, range>>

\* The loop handles up to 64 pushes before it reconciles; as a push may arrive
\* just after the channel was found empty, either may come first.
HandleLive ==
    /\ lane = "loop"
    /\ feed # <<>>
    /\ IF Head(feed).removed THEN HandleRemoved(Head(feed).log) ELSE HandleLog(Head(feed).log)
    /\ UNCHANGED <<chainVars, cursor, origin, confirmed>>

\* The block or the parent the cursor names is still canonical.
BoundaryHolds ==
    IF cursor.block # None
    THEN BlockByNumber(cursor.next) = cursor.block
    ELSE cursor.parent # None => BlockByNumber(cursor.next - 1) = cursor.parent

Orphans_Mutant(logs, to) == {}

\* Journaled logs of the range that the replay does not have.
Orphans(logs, to) ==
    {l \in live : Number(l.block) \in cursor.next..to /\ l \notin {logs[i] : i \in 1..Len(logs)}}

\* reconcileOne up to its loop: one range, or one orphan handed back.  (A log that
\* is missing from the answer although its block is canonical is a failure, as is
\* any other wrong answer.)
ReplayRange ==
    /\ lane = "loop"
    /\ BlockNumber >= confirmations
    /\ cursor.next <= BlockNumber - confirmations
    /\ LET edge == BlockNumber - confirmations
           to == IF edge - cursor.next < BackfillRange THEN edge
                 ELSE cursor.next + BackfillRange - 1
           logs == LogsOfBlocks(cursor.next, to)
       IN IF ~BoundaryHolds
          THEN EventsStop /\ UNCHANGED <<live, late>>
          ELSE IF Orphans(logs, to) # {}
          THEN /\ \E log \in Orphans(logs, to) : live' = live \ {log} /\ late' = late \ {log}
               /\ UNCHANGED <<feed, lane, range>>
          ELSE /\ range' = [to |-> to, logs |-> logs]
               /\ lane' = "range"
               /\ UNCHANGED <<live, late, feed>>
    /\ UNCHANGED <<chainVars, cursor, origin, confirmed>>

\* A turn of the loop over the logs of the range that has nothing to do.
PassLog ==
    /\ Passing
    /\ range' = [range EXCEPT !.logs = Tail(@)]
    /\ UNCHANGED <<chainVars, cursor, live, feed, lane, origin, confirmed, late>>

\* One log of the range that was not handled before.  The update, the cursor and
\* the journal without the log are one commit.
ConfirmLog ==
    /\ lane = "range" /\ range.logs # <<>> /\ ~Passing
    /\ range' = [range EXCEPT !.logs = Tail(@)]
    /\ LET log == Head(range.logs) IN
        /\ cursor' = [cursor EXCEPT !.next = Number(log.block),
                                    !.block = log.block, !.log = log.index + 1]
        /\ live' = live \ {log} /\ late' = late \ {log}
        /\ confirmed' = Append(confirmed, log)
    /\ UNCHANGED <<chainVars, feed, lane, origin>>

EndRange ==
    /\ lane = "range"
    /\ range.logs = <<>>
    /\ cursor' = [next |-> range.to + 1, block |-> None, log |-> 0,
                  parent |-> BlockByNumber(range.to)]
    /\ range' = None
    /\ lane' = "loop"
    /\ UNCHANGED <<chainVars, live, feed, origin, confirmed, late>>

EventsNext ==
    \/ EventsChainStep
    \/ EventsStarts
    \/ EventsFails
    \/ HandleLive
    \/ ReplayRange
    \/ PassLog
    \/ ConfirmLog
    \/ EndRange

EventsSpec == EventsInit /\ [][EventsNext]_eventsVars

-----------------------------------------------------------------------------
(* Properties *)

EventsTypeOK ==
    /\ ChainTypeOK
    /\ cursor \in Cursor \cup {None}
    /\ lane \in {"none", "down", "loop", "range"}
    /\ Cardinality(live) <= MaxLive /\ late \subseteq live
    /\ Len(feed) <= MaxFeed
    /\ range # None => lane = "range"

\* Wherever the replay was cut, the confirmed logs are exactly those of the final
\* blocks it has passed: each once, in order, none skipped.
ConfirmedExactly ==
    cursor # None =>
        confirmed = LogsOfBlocks(origin, cursor.next - 1)
            \o (IF cursor.block = None THEN <<>>
                ELSE SubSeq(LogsOf(cursor.block), 1, cursor.log - 1))

\* What was handled live is confirmed or handed back when the replay passes its
\* block, connected or not; only a log that was pushed after that is left.
LeftBehindWasLate ==
    cursor # None => \A log \in live : Reconciled(cursor, log) => log \in late

\* docs/monitors.md:311: "`Events` journals matching live logs until the
\* confirmation boundary", so the journal holds nothing the replay has passed.
JournaledUntilBoundary ==
    cursor # None => \A log \in live : ~Reconciled(cursor, log)

\* Every final log has been confirmed.
EventsCaughtUp ==
    lane # "none" => cursor # None /\ cursor.next + confirmations > BlockNumber
=============================================================================
