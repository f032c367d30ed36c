------------------------------ MODULE Sources -------------------------------
(* The three managed sources of catalog/quicknode.  A deployment runs one of
   them, so a behaviour is one of a single source and the others are absent. *)
EXTENDS Blocks, EvmEvents, AddressEvents

\* The variables of Blocks that are not the chain's, and those of EvmEvents.
blocksOwn == <<progress, heads, phase, target, announcement, batch, view>>
eventsOwn == <<cursor, live, feed, lane, range, origin, confirmed, late>>

sourceVars == <<chainVars, blocksOwn, eventsOwn, addressVars>>

SourcesInit ==
    \/ BlocksInit /\ EventsAbsent /\ AddressAbsent
    \/ EventsInit /\ BlocksAbsent /\ AddressAbsent
    \/ ChainInit(BlocksConfirmations) /\ AddressInit /\ BlocksAbsent /\ EventsAbsent

SourcesNext ==
    \/ BlocksNext /\ UNCHANGED <<eventsOwn, addressVars>>
    \/ EventsNext /\ UNCHANGED <<blocksOwn, addressVars>>
    \/ AddressNext /\ UNCHANGED <<chainVars, blocksOwn, eventsOwn>>

\* The steps of each source in order of what they wait for.
Restart ==
    \/ BlocksStarts /\ UNCHANGED <<eventsOwn, addressVars>>
    \/ EventsStarts /\ UNCHANGED <<blocksOwn, addressVars>>
    \/ AddressStarts /\ UNCHANGED <<chainVars, blocksOwn, eventsOwn>>

Wake ==
    \/ BlocksTick /\ UNCHANGED <<eventsOwn, addressVars>>
    \/ ReplayRange /\ UNCHANGED <<blocksOwn, addressVars>>
    \/ AddressTick /\ UNCHANGED <<chainVars, blocksOwn, eventsOwn>>

Advance ==
    \/ RollbackOrphans /\ UNCHANGED <<eventsOwn, addressVars>>
    \/ ConfirmLog /\ UNCHANGED <<blocksOwn, addressVars>>

Read ==
    \/ FetchBlocks /\ UNCHANGED <<eventsOwn, addressVars>>
    \/ EndRange /\ UNCHANGED <<blocksOwn, addressVars>>

Apply == ApplyBlock /\ UNCHANGED <<eventsOwn, addressVars>>

Paging ==
    /\ FetchPage \/ HandleRecord \/ EndPage
    /\ UNCHANGED <<chainVars, blocksOwn, eventsOwn>>

Pass == PassLog /\ UNCHANGED <<blocksOwn, addressVars>>

\* The daemon restarts a failed worker.  A ticker that fires is taken although
\* pushes compete with it, and what is tried again and again, where each attempt
\* may fail, is not failed for ever.  As only one source exists, fairness of a
\* step of each is fairness of that source's step.  Of the Solana source's pages,
\* and of logs that are passed over, no more is asked than that they do not wait.
SourcesFairness ==
    /\ WF_sourceVars(Restart)
    /\ WF_sourceVars(HandleLive /\ UNCHANGED <<blocksOwn, addressVars>>)
    /\ WF_sourceVars(Paging)
    /\ WF_sourceVars(Pass)
    /\ SF_sourceVars(Wake)
    /\ SF_sourceVars(Advance)
    /\ SF_sourceVars(Read)
    /\ SF_sourceVars(Apply)

SourcesSpec == SourcesInit /\ [][SourcesNext]_sourceVars /\ SourcesFairness

\* Every source's checkpoints and queues have the shape and the bounds its code
\* gives them, and the blocks that were applied stand behind their journal.
SourcesInv == BlocksInv /\ EventsTypeOK /\ AddressTypeOK

CaughtUp == BlocksCaughtUp /\ EventsCaughtUp /\ AddressCaughtUp

\* What a source is for: once the chain rests at its height, the handler has been
\* given everything in the end, although heads, logs and transactions that were
\* pushed got lost.  The EVM sources may fail for ever, as long as each step is
\* tried again; the Solana source commits by pages and must stay up.
SourcesCatchUp ==
    (/\ <>[][FALSE]_chain
     /\ <>[](BlockNumber = tallest /\ stage # "down")) => <>[]CaughtUp
=============================================================================
