------------------------------- MODULE Blocks -------------------------------
(* evm.Blocks (catalog/quicknode/evm/blocks.go): one canonical sequence of
   blocks, woken by announced heads and by a ticker, read over HTTP.

   The handler's update and the progress checkpoint are one transaction, so the
   durable progress is also the running worker's: a commit whose fate is unknown
   ends the worker.  Reads and the commit they lead to are one step wherever the
   commit depends on nothing else that moves.  Of what RPC and decoding can do
   wrong only the failure is kept (BlocksFails). *)
EXTENDS Chain, SequencesExt

CONSTANTS
    BlocksConfirmations,    \* choices of Blocks.Confirmations
    BackfillFroms,  \* choices of Blocks.BackfillFrom: block numbers, or None
    ReplayBatch,    \* Blocks.ReplayBatch: blocks read by one HTTP batch
    MaxRecent,      \* Blocks.MaxRecentBlocks
    MaxHeads        \* capacity of the head channel (256 in subscription.go)

\* The durable progress and the journal it carries.
Progress == [parent : AllBlocks, recent : Seq(AllBlocks)]

ASSUME NoProgressAssumption == None \notin Progress

ASSUME BlocksAssumption ==
    /\ BackfillFroms \subseteq (1..MaxHeight) \cup {None}
    /\ ReplayBatch \in Nat \ {0}
    /\ BlocksConfirmations \subseteq Nat \ {0}
    /\ MaxRecent \in Nat
    /\ \A depth \in BlocksConfirmations : depth + 2 <= MaxRecent
    /\ MaxHeads \in Nat

VARIABLES
    progress,       \* checkpoint: the last applied block and the journal, or None
    heads,          \* announced heads on their way
    phase,          \* where run is: "none" (not deployed), "down", "select",
                    \* "rollback", "fetch", "apply"
    target,         \* argument of advance: the height to reach
    announcement,   \* argument of advance: the announced head, or None
    batch,          \* blocks read and not yet applied
    view            \* history: the blocks the handler was given and not taken back

NextBlock == Number(progress.parent) + 1

-----------------------------------------------------------------------------

BlocksInit ==
    /\ ChainInit(BlocksConfirmations)
    /\ progress = None
    /\ heads = <<>>
    /\ phase = "down"
    /\ target = 0
    /\ announcement = None
    /\ batch = <<>>
    /\ view = <<>>

\* What the module's variables are when another source is deployed.
BlocksAbsent ==
    /\ progress = None /\ heads = <<>> /\ phase = "none" /\ target = 0
    /\ announcement = None /\ batch = <<>> /\ view = <<>>

\* The provider's chain moves, and pushes its new head or loses it.  The channel
\* is read by the worker alone; when it is full the provider's socket waits.
BlocksChainStep ==
    /\ phase # "none"
    /\ ChainStep
    /\ \/ /\ phase # "down" /\ Len(heads) < MaxHeads
          /\ heads' = Append(heads, chain')
       \/ UNCHANGED heads
    /\ UNCHANGED <<progress, phase, target, announcement, batch, view>>

\* validateBlockProgress: a saved journal is bounded and has no gaps, and the
\* progress follows it.  A worker that finds another never starts.
ValidProgress ==
    /\ Len(progress.recent) <= MaxRecent
    /\ \A i \in 2..Len(progress.recent) :
            progress.recent[i - 1] = ParentHash(progress.recent[i])
    /\ progress.recent # <<>> => progress.parent = Last(progress.recent)

\* The durable progress, or a fresh one at the head or at BackfillFrom.
LoadProgress ==
    IF progress # None
    THEN ValidProgress /\ UNCHANGED progress
    ELSE \E from \in BackfillFroms :
            LET start == IF from = None THEN BlockNumber ELSE from IN
            /\ Available(start)
            /\ progress' = [parent |-> BlockByNumber(start - 1), recent |-> <<>>]

\* run up to its loop: subscribe, load the progress, advance to the head.
BlocksStarts ==
    /\ phase = "down"
    /\ heads' = <<>>
    /\ LoadProgress
    /\ phase' = "rollback"
    /\ target' = BlockNumber
    /\ UNCHANGED <<chainVars, announcement, batch, view>>

\* A connection, a read, a commit or the process fails: run returns, and the
\* daemon starts another worker from the checkpoint.
BlocksFails ==
    /\ phase \notin {"none", "down"}
    /\ phase' = "down"
    /\ heads' = <<>> /\ target' = 0 /\ announcement' = None /\ batch' = <<>>
    /\ UNCHANGED <<chainVars, progress, view>>

Return ==
    /\ phase' = "select"
    /\ target' = 0 /\ announcement' = None /\ batch' = <<>>

Fail ==
    /\ phase' = "down"
    /\ target' = 0 /\ announcement' = None /\ batch' = <<>>

\* The announced head extends what was applied: nothing can be orphaned.
KnownExtension(head) ==
    Number(head) = NextBlock /\ ParentHash(head) = progress.parent

TakeHead ==
    /\ phase = "select"
    /\ heads # <<>>
    /\ heads' = Tail(heads)
    /\ announcement' = Head(heads)
    /\ target' = Number(Head(heads))
    /\ phase' = IF KnownExtension(Head(heads)) THEN "fetch" ELSE "rollback"
    /\ UNCHANGED <<chainVars, progress, batch, view>>

BlocksTick ==
    /\ phase = "select"
    /\ target' = BlockNumber
    /\ phase' = "rollback"
    /\ UNCHANGED <<chainVars, progress, heads, announcement, batch, view>>

RollbackOrphans_Mutant ==
    /\ phase = "rollback"
    /\ IF IsCanonical(progress.parent)
       THEN /\ phase' = "fetch"
            /\ UNCHANGED <<progress, target, announcement, batch, view>>
       ELSE /\ Return
            /\ UNCHANGED <<progress, view>>
    /\ UNCHANGED <<chainVars, heads>>

\* The handler is given the block back.  One that is not its newest would remain.
Undone(block) == IF view # <<>> /\ Last(view) = block THEN Front(view) ELSE view

\* One turn of the loop of rollbackOrphans: the newest applied block is still
\* canonical, or is taken back, or cannot be.
RollbackOrphans ==
    /\ phase = "rollback"
    /\ IF IsCanonical(progress.parent)
       THEN /\ phase' = "fetch"
            /\ UNCHANGED <<progress, target, announcement, batch, view>>
       ELSE IF \/ ~Available(Number(progress.parent))
               \/ progress.recent = <<>>
               \/ Last(progress.recent) # progress.parent
       THEN Fail /\ UNCHANGED <<progress, view>>
       ELSE LET last == Last(progress.recent) IN
            /\ progress' = [parent |-> ParentHash(last), recent |-> Front(progress.recent)]
            /\ view' = Undone(last)
            /\ UNCHANGED <<phase, target, announcement, batch>>
    /\ UNCHANGED <<chainVars, heads>>

To == IF target - NextBlock < ReplayBatch THEN target ELSE NextBlock + ReplayBatch - 1

FollowsProgress_Mutant(first) == TRUE

FollowsProgress(first) == ParentHash(first) = progress.parent

\* One turn of advance's outer loop.  A range that is not yet available, or whose
\* announced end was replaced, waits for the next wake; one that does not extend
\* what was applied is a failure, and the next start rolls back.
FetchBlocks ==
    /\ phase = "fetch"
    /\ IF NextBlock > target \/ ~Available(To)
       THEN Return
       ELSE IF ~FollowsProgress(BlockByNumber(NextBlock))
       THEN Fail
       ELSE IF announcement # None /\ To = Number(announcement)
                                   /\ BlockByNumber(To) # announcement
       THEN Return
       ELSE /\ batch' = [i \in 1..(To - NextBlock + 1) |-> BlockByNumber(NextBlock + i - 1)]
            /\ phase' = "apply"
            /\ UNCHANGED <<target, announcement>>
    /\ UNCHANGED <<chainVars, progress, heads, view>>

Replaceable_Mutant(recent) ==
    {i \in 1..Len(recent) : Number(recent[i]) + confirmations > target + 1}

\* The journal's blocks that are not final at the target.
Replaceable(recent) ==
    {i \in 1..Len(recent) : Number(recent[i]) + confirmations > target}

\* trim cuts what comes before the first of them.
Trimmed(recent) ==
    IF Replaceable(recent) = {} THEN <<>>
    ELSE SubSeq(recent, Min(Replaceable(recent)), Len(recent))

\* Handle is given the block, and its update commits with the progress.
ApplyBlock ==
    /\ phase = "apply"
    /\ LET block == Head(batch)
           recent == Trimmed(Append(progress.recent, block))
       IN IF Len(recent) > MaxRecent
          THEN Fail /\ UNCHANGED <<progress, view>>
          ELSE /\ progress' = [parent |-> block, recent |-> recent]
               /\ view' = Append(view, block)
               /\ batch' = Tail(batch)
               /\ phase' = IF Len(batch) = 1 THEN "fetch" ELSE "apply"
               /\ UNCHANGED <<target, announcement>>
    /\ UNCHANGED <<chainVars, heads>>

\* Handle found a receipt missing: the rest of the batch waits for another wake.
ReceiptUnavailable ==
    /\ phase = "apply"
    /\ Return
    /\ UNCHANGED <<chainVars, progress, heads, view>>

BlocksNext ==
    \/ BlocksChainStep
    \/ BlocksStarts
    \/ BlocksFails
    \/ TakeHead
    \/ BlocksTick
    \/ RollbackOrphans
    \/ FetchBlocks
    \/ ApplyBlock
    \/ ReceiptUnavailable

-----------------------------------------------------------------------------
(* Properties *)

BlocksTypeOK ==
    /\ ChainTypeOK
    /\ progress \in Progress \cup {None}
    /\ heads \in Seq(AllBlocks) /\ Len(heads) <= MaxHeads
    /\ phase \in {"none", "down", "select", "rollback", "fetch", "apply"}
    /\ target \in 0..MaxHeight
    /\ announcement \in AllBlocks \cup {None}
    /\ batch \in Seq(AllBlocks)
    /\ view \in Seq(AllBlocks)

\* Whatever heads arrive, late, twice, out of order or from a fork, and wherever
\* the worker dies, the blocks the handler was given and not taken back are one
\* chain without gaps that ends where the durable progress says.
BlocksApplyOneChain ==
    view # <<>> =>
        /\ Last(view) = progress.parent
        /\ \A i \in 2..Len(view) : view[i - 1] = ParentHash(view[i])

\* The block before the first one applied, which is not journaled.
AtStart == view = <<>>

\* A reorganisation within the confirmations can be rolled back: what has left
\* the journal is final.  (Only before the first block was applied, or once the
\* first was rolled back again, may the journal be empty on an orphan.)
JournalCoversReorganizations ==
    \A i \in 1..Len(view) :
        view[i] \in {progress.recent[j] : j \in 1..Len(progress.recent)} \/ IsCanonical(view[i])

\* What keeps the two inductive.  What the handler holds is a branch that ends at
\* the durable parent,
ViewIsBranch ==
    progress # None =>
        /\ Len(view) <= Number(progress.parent)
        /\ \A i \in 1..Len(view) :
                view[i] = SubSeq(progress.parent, 1, Number(progress.parent) - Len(view) + i)

\* of which the journal is the end,
Unjournaled == Len(view) - Len(progress.recent)

JournalEndsView ==
    progress # None =>
        /\ Len(progress.recent) <= Len(view)
        /\ \A j \in 1..Len(progress.recent) : progress.recent[j] = view[Unjournaled + j]

\* and the rest is final.
UnjournaledIsFinal ==
    progress # None =>
        \A i \in 1..Unjournaled : Number(view[i]) <= FinalHeight /\ IsCanonical(view[i])

\* A batch continues the parent, and what is final at its target is canonical,
\* although the chain may have moved since it was read.
BatchContinuesParent ==
    phase = "apply" =>
        /\ batch # <<>>
        /\ Number(Last(batch)) = Number(progress.parent) + Len(batch)
        /\ progress.parent = SubSeq(Last(batch), 1, Number(progress.parent))
        /\ \A i \in 1..Len(batch) :
                batch[i] = SubSeq(Last(batch), 1, Number(progress.parent) + i)
        /\ \A m \in 0..Number(Last(batch)) : m + confirmations <= target =>
                m <= Len(chain) /\ SubSeq(Last(batch), 1, m) = SubSeq(chain, 1, m)

\* No announced or wanted height is above any the chain ever had.
HeightsSeen ==
    /\ target <= tallest
    /\ \A i \in 1..Len(heads) : Number(heads[i]) <= tallest

BlocksInv ==
    /\ BlocksTypeOK
    /\ progress = None => phase \in {"none", "down"} /\ view = <<>>
    /\ HeightsSeen
    /\ ViewIsBranch
    /\ JournalEndsView
    /\ UnjournaledIsFinal
    /\ BatchContinuesParent

\* Nothing to roll back to: fails on every start until an operator clears the
\* checkpoint.
Stranded == progress # None /\ progress.recent = <<>> /\ ~IsCanonical(progress.parent)

\* The handler has been given all of the chain; or the worker was started on a
\* block that was then replaced.
BlocksCaughtUp ==
    phase # "none" =>
        progress # None /\ (progress.parent = chain \/ (Stranded /\ AtStart))
=============================================================================
