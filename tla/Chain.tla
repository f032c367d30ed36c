------------------------------- MODULE Chain -------------------------------
(* The blockchain and the provider that serves it, as the catalog sources use
   them (catalog/quicknode/evm).  External: nothing here is monitord's code
   except the form of its answers.

   A block is the sequence of fork labels from genesis to it, so a block commits
   to its ancestry as its hash does: its number is its length, its parent its
   front, and genesis is <<>>. *)
EXTENDS Naturals, Sequences

CONSTANTS
    Forks,          \* labels of competing blocks of one height
    MaxHeight,      \* bound on the height of the chain
    None            \* an absent value

AllBlocks == UNION {[1..n -> Forks] : n \in 0..MaxHeight}

ASSUME ChainAssumption ==
    /\ MaxHeight \in Nat \ {0}
    /\ None \notin Forks \cup AllBlocks

VARIABLES
    chain,          \* the provider's canonical chain, its newest block
    tallest,        \* the greatest height it ever had
    confirmations   \* the depth at which the operator takes a block for final

chainVars == <<chain, tallest, confirmations>>

Number(block) == Len(block)
ParentHash(block) == SubSeq(block, 1, Len(block) - 1)
Extends(block, ancestor) ==
    /\ Len(ancestor) <= Len(block)
    /\ SubSeq(block, 1, Len(ancestor)) = ancestor

\* What eth_blockNumber and eth_getBlockByNumber answer.
BlockNumber == Len(chain)
Available(n) == n <= Len(chain)
BlockByNumber(n) == SubSeq(chain, 1, n)
IsCanonical(block) == Extends(chain, block)

\* Blocks at this height and below are never replaced.  What "final" means is
\* the operator's choice; the sources rely on it.
FinalHeight == IF tallest > confirmations THEN tallest - confirmations ELSE 0

ChainInit(depths) ==
    /\ confirmations \in depths
    /\ chain \in [1..1 -> Forks]
    /\ tallest = 1

Extend ==
    /\ Len(chain) < MaxHeight
    /\ \E fork \in Forks : chain' = Append(chain, fork)
    /\ tallest' = IF Len(chain') > tallest THEN Len(chain') ELSE tallest
    /\ UNCHANGED confirmations

\* Another branch becomes canonical from some height on.  It may still be
\* shorter than the one it replaces.
Reorganize ==
    /\ \E n \in (FinalHeight + 1)..Len(chain), fork \in Forks :
        /\ fork # chain[n]
        /\ chain' = Append(SubSeq(chain, 1, n - 1), fork)
    /\ UNCHANGED <<tallest, confirmations>>

ChainStep == Extend \/ Reorganize

ChainTypeOK ==
    /\ chain \in AllBlocks \ {<<>>}
    /\ tallest \in Len(chain)..MaxHeight
    /\ confirmations \in Nat \ {0}
=============================================================================
