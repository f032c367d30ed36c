----------------------------- MODULE BlocksProofs -----------------------------
(***************************************************************************)
(* Theorems about evm.Blocks (Blocks.tla) among the sources, for every     *)
(* value of the constants.  Blocks are the sequences of fork labels that   *)
(* lead to them, so most of what is needed is about prefixes.              *)
(***************************************************************************)
EXTENDS Sources, SequenceTheorems, WellFoundedInduction, TLAPS

-----------------------------------------------------------------------------
(* Sequences and minima *)

\* A prefix has the length asked for and the elements of its sequence.
LEMMA Prefix ==
    ASSUME NEW S, NEW s \in Seq(S), NEW n \in 0..Len(s)
    PROVE  /\ SubSeq(s, 1, n) \in Seq(S)
           /\ Len(SubSeq(s, 1, n)) = n
           /\ \A i \in 1..n : SubSeq(s, 1, n)[i] = s[i]
<1>1. Len(s) \in Nat /\ \A i \in 1..n : s[i] \in S
  OBVIOUS
<1> QED
  BY <1>1, SubSeqProperties

\* A prefix of a prefix is a prefix.
LEMMA PrefixOfPrefix ==
    ASSUME NEW S, NEW s \in Seq(S), NEW n \in 0..Len(s), NEW m \in 0..n
    PROVE  SubSeq(SubSeq(s, 1, n), 1, m) = SubSeq(s, 1, m)
<1>1. Len(s) \in Nat
  OBVIOUS
<1> DEFINE p == SubSeq(s, 1, n)
           q == SubSeq(p, 1, m)
           r == SubSeq(s, 1, m)
<1>2. p \in Seq(S) /\ Len(p) = n /\ \A i \in 1..n : p[i] = s[i]
  BY Prefix
<1> HIDE DEF p
<1>3. q \in Seq(S) /\ Len(q) = m /\ \A i \in 1..m : q[i] = p[i]
  BY <1>2, Prefix
<1>4. r \in Seq(S) /\ Len(r) = m /\ \A i \in 1..m : r[i] = s[i]
  BY <1>1, Prefix
<1> HIDE DEF q, r
<1>5. q = r
  BY <1>2, <1>3, <1>4, SeqEqual
<1> QED
  BY <1>5 DEF p, q, r

\* Appending keeps the prefixes there were.
LEMMA PrefixOfAppend ==
    ASSUME NEW S, NEW s \in Seq(S), NEW e \in S, NEW m \in 0..Len(s)
    PROVE  SubSeq(Append(s, e), 1, m) = SubSeq(s, 1, m)
<1> DEFINE a == Append(s, e)
           q == SubSeq(a, 1, m)
           r == SubSeq(s, 1, m)
<1>1. /\ a \in Seq(S) /\ Len(a) = Len(s) + 1 /\ Len(s) \in Nat
      /\ \A i \in 1..Len(s) : a[i] = s[i]
  BY AppendProperties
<1> HIDE DEF a
<1>2. q \in Seq(S) /\ Len(q) = m /\ \A i \in 1..m : q[i] = a[i]
  BY <1>1, Prefix
<1>3. r \in Seq(S) /\ Len(r) = m /\ \A i \in 1..m : r[i] = s[i]
  BY Prefix
<1> HIDE DEF q, r
<1>4. \A i \in 1..m : q[i] = r[i]
  BY <1>1, <1>2, <1>3
<1>5. q = r
  BY <1>2, <1>3, <1>4, SeqEqual
<1> QED
  BY <1>5 DEF a, q, r

\* A set of numbers that is not empty has a least one.
LEMMA LeastOf ==
    ASSUME NEW S, S \subseteq Nat, S # {}
    PROVE  Min(S) \in S /\ \A n \in S : Min(S) <= n
<1> DEFINE Less == {ss \in Nat \X Nat : ss[1] < ss[2]}
<1>1. IsWellFoundedOn(Less, Nat)
  BY NatLessThanWellFounded DEF OpToRel
<1> HIDE DEF Less
<1>2. PICK x \in S : \A y \in S : ~(<<y, x>> \in Less)
  BY <1>1, WFMin
<1>3. ASSUME NEW y \in S
      PROVE  x <= y
  <2>1. x \in Nat /\ y \in Nat /\ <<y, x>> \in Nat \X Nat
    OBVIOUS
  <2>2. ~(y < x)
    BY <1>2, <2>1 DEF Less
  <2> QED
    BY <2>1, <2>2
<1> QED
  BY <1>3 DEF Min

-----------------------------------------------------------------------------
(* Blocks and the chain *)

\* Blocks are the sequences of labels up to the bound on heights.
LEMMA BlockIsSequence ==
    ASSUME NEW block
    PROVE  block \in AllBlocks <=> block \in Seq(Forks) /\ Len(block) <= MaxHeight
<1>1. ASSUME block \in AllBlocks
      PROVE  block \in Seq(Forks) /\ Len(block) <= MaxHeight
  <2>1. PICK n \in 0..MaxHeight : block \in [1..n -> Forks]
    BY <1>1 DEF AllBlocks
  <2>2. n \in Nat
    BY ChainAssumption
  <2> QED
    BY <2>1, <2>2
<1>2. ASSUME block \in Seq(Forks), Len(block) <= MaxHeight
      PROVE  block \in AllBlocks
  <2>1. block \in [1..Len(block) -> Forks] /\ Len(block) \in 0..MaxHeight
    BY <1>2, ChainAssumption
  <2> QED
    BY <2>1 DEF AllBlocks
<1> QED
  BY <1>1, <1>2

\* What a prefix of a block is: a block, its length, and a prefix of what it is
\* itself a prefix of.
LEMMA Ancestors ==
    ASSUME NEW block \in AllBlocks, NEW n \in 0..Len(block)
    PROVE  /\ SubSeq(block, 1, n) \in AllBlocks
           /\ Len(SubSeq(block, 1, n)) = n
           /\ n = Len(block) => SubSeq(block, 1, n) = block
           /\ \A m \in 0..n : SubSeq(SubSeq(block, 1, n), 1, m) = SubSeq(block, 1, m)
<1>1. block \in Seq(Forks) /\ Len(block) <= MaxHeight /\ Len(block) \in Nat
  BY BlockIsSequence
<1>2. SubSeq(block, 1, n) \in Seq(Forks) /\ Len(SubSeq(block, 1, n)) = n
  BY <1>1, Prefix
<1>3. SubSeq(block, 1, n) \in AllBlocks
  <2>1. n <= MaxHeight
    BY <1>1, ChainAssumption
  <2> QED
    BY <1>2, <2>1, BlockIsSequence
<1>4. n = Len(block) => SubSeq(block, 1, n) = block
  BY <1>1, SubSeqFull
<1>5. \A m \in 0..n : SubSeq(SubSeq(block, 1, n), 1, m) = SubSeq(block, 1, m)
  BY <1>1, PrefixOfPrefix
<1> QED
  BY <1>2, <1>3, <1>4, <1>5

\* The numbers of blocks are numbers.
LEMMA Numbers ==
    ASSUME NEW block \in AllBlocks
    PROVE  Len(block) \in Nat
BY BlockIsSequence

LEMMA ChainNumbers ==
    ASSUME ChainTypeOK
    PROVE  /\ chain \in AllBlocks /\ chain \in Seq(Forks)
           /\ Len(chain) \in Nat /\ Len(chain) > 0
           /\ Len(chain) <= MaxHeight /\ MaxHeight \in Nat
           /\ tallest \in Nat /\ Len(chain) <= tallest /\ tallest <= MaxHeight
           /\ confirmations \in Nat /\ confirmations > 0
           /\ FinalHeight \in Nat
           /\ \A m \in Nat : m + confirmations <= tallest => m <= FinalHeight
<1>1. chain \in AllBlocks /\ chain # <<>> /\ MaxHeight \in Nat
  BY ChainAssumption DEF ChainTypeOK
<1>2. /\ chain \in Seq(Forks) /\ Len(chain) \in Nat /\ Len(chain) > 0
      /\ Len(chain) <= MaxHeight
  <2>1. chain \in Seq(Forks) /\ Len(chain) <= MaxHeight
    BY <1>1, BlockIsSequence
  <2> QED
    BY <1>1, <2>1, EmptySeq
<1>3. /\ tallest \in Nat /\ Len(chain) <= tallest /\ tallest <= MaxHeight
      /\ confirmations \in Nat /\ confirmations > 0
  BY <1>1, <1>2 DEF ChainTypeOK
<1>4. FinalHeight \in Nat /\ \A m \in Nat : m + confirmations <= tallest => m <= FinalHeight
  BY <1>3 DEF FinalHeight
<1> QED
  BY <1>1, <1>2, <1>3, <1>4

\* The chain grows or is replaced above what is final.
LEMMA FinalIsKept ==
    ASSUME ChainTypeOK, ChainStep
    PROVE  /\ ChainTypeOK'
           /\ confirmations' = confirmations
           /\ tallest' \in Nat /\ tallest' >= tallest
           /\ FinalHeight' \in Nat /\ FinalHeight' >= FinalHeight
           /\ \A m \in 0..FinalHeight : m <= Len(chain) =>
                m <= Len(chain') /\ SubSeq(chain', 1, m) = SubSeq(chain, 1, m)
<1>1. /\ chain \in Seq(Forks)
      /\ Len(chain) \in Nat /\ Len(chain) > 0
      /\ Len(chain) <= MaxHeight /\ MaxHeight \in Nat
      /\ tallest \in Nat /\ Len(chain) <= tallest /\ tallest <= MaxHeight
      /\ confirmations \in Nat /\ confirmations > 0
      /\ FinalHeight \in Nat
  BY ChainNumbers
<1>2. CASE Extend
  <2>1. PICK fork \in Forks : chain' = Append(chain, fork)
    BY <1>2 DEF Extend
  <2>2. /\ chain' \in Seq(Forks) /\ Len(chain') = Len(chain) + 1
        /\ chain' # <<>> /\ Len(chain') <= MaxHeight
    BY <1>1, <1>2, <2>1, AppendProperties DEF Extend
  <2>3. /\ tallest' \in Nat /\ tallest' >= tallest
        /\ Len(chain') <= tallest' /\ tallest' <= MaxHeight
        /\ confirmations' = confirmations
    BY <1>1, <1>2, <2>2 DEF Extend
  <2>4. ChainTypeOK'
    <3>1. chain' \in AllBlocks
      BY <2>2, BlockIsSequence
    <3> QED
      BY <1>1, <2>2, <2>3, <3>1 DEF ChainTypeOK
  <2>5. FinalHeight' \in Nat /\ FinalHeight' >= FinalHeight
    <3>1. /\ tallest \in Nat /\ confirmations \in Nat
          /\ tallest' \in Nat /\ tallest' >= tallest
      BY <1>1, <2>3
    <3>2. FinalHeight' = IF tallest' > confirmations THEN tallest' - confirmations ELSE 0
      BY <2>3 DEF FinalHeight
    <3> QED
      BY <3>1, <3>2 DEF FinalHeight
  <2>6. \A m \in 0..FinalHeight : m <= Len(chain) =>
            m <= Len(chain') /\ SubSeq(chain', 1, m) = SubSeq(chain, 1, m)
    BY <1>1, <2>1, <2>2, PrefixOfAppend
  <2> QED
    BY <2>3, <2>4, <2>5, <2>6
<1>3. CASE Reorganize
  <2>1. PICK n \in (FinalHeight + 1)..Len(chain), fork \in Forks :
            chain' = Append(SubSeq(chain, 1, n - 1), fork)
    BY <1>3 DEF Reorganize
  <2> DEFINE p == SubSeq(chain, 1, n - 1)
  <2>2. n \in Nat /\ n - 1 \in 0..Len(chain) /\ n - 1 >= FinalHeight /\ n <= Len(chain)
    BY <1>1, <2>1
  <2>3. p \in Seq(Forks) /\ Len(p) = n - 1
    BY <1>1, <2>2, Prefix
  <2>4. \A m \in 0..(n - 1) : SubSeq(p, 1, m) = SubSeq(chain, 1, m)
    BY <1>1, <2>2, PrefixOfPrefix
  <2>5. chain' = Append(p, fork)
    BY <2>1
  <2> HIDE DEF p
  <2>6. chain' \in Seq(Forks) /\ Len(chain') = n /\ chain' # <<>>
    BY <2>2, <2>3, <2>5, AppendProperties
  <2>7. tallest' = tallest /\ confirmations' = confirmations
    BY <1>3 DEF Reorganize
  <2>8. ChainTypeOK'
    <3>1. chain' \in AllBlocks
      BY <1>1, <2>2, <2>6, BlockIsSequence
    <3> QED
      BY <1>1, <2>2, <2>6, <2>7, <3>1 DEF ChainTypeOK
  <2>9. FinalHeight' = FinalHeight
    BY <2>7 DEF FinalHeight
  <2>10. ASSUME NEW m \in 0..FinalHeight
         PROVE  m <= Len(chain') /\ SubSeq(chain', 1, m) = SubSeq(chain, 1, m)
    <3>1. m \in 0..Len(p) /\ m \in 0..(n - 1) /\ m <= n
      BY <1>1, <2>2, <2>3
    <3>2. SubSeq(chain', 1, m) = SubSeq(p, 1, m)
      BY <2>3, <2>5, <3>1, PrefixOfAppend
    <3> QED
      BY <2>4, <2>6, <3>1, <3>2
  <2> QED
    BY <1>1, <2>6, <2>7, <2>8, <2>9, <2>10
<1> QED
  BY <1>2, <1>3 DEF ChainStep

-----------------------------------------------------------------------------
(* The steps *)

\* What a source that has progress holds.
LEMMA ProgressFacts ==
    ASSUME BlocksInv, progress # None
    PROVE  /\ progress \in Progress
           /\ progress.parent \in AllBlocks /\ Len(progress.parent) \in Nat
           /\ progress.recent \in Seq(AllBlocks) /\ Len(progress.recent) \in Nat
           /\ view \in Seq(AllBlocks) /\ Len(view) \in Nat
           /\ Len(progress.recent) <= Len(view)
           /\ Len(view) <= Len(progress.parent)
           /\ Unjournaled \in 0..Len(view)
           /\ \A i \in 1..Len(view) : view[i] \in AllBlocks /\ Len(view[i]) \in Nat
<1>1. /\ progress \in Progress /\ view \in Seq(AllBlocks) /\ Len(view) \in Nat
      /\ \A i \in 1..Len(view) : view[i] \in AllBlocks
  BY DEF BlocksInv, BlocksTypeOK
<1>2. /\ progress.parent \in AllBlocks /\ progress.recent \in Seq(AllBlocks)
      /\ Len(progress.recent) \in Nat
  BY <1>1 DEF Progress
<1>3. Len(progress.parent) \in Nat /\ \A i \in 1..Len(view) : Len(view[i]) \in Nat
  BY <1>1, <1>2, Numbers
<1>4. Len(progress.recent) <= Len(view) /\ Len(view) <= Len(progress.parent)
  BY DEF BlocksInv, JournalEndsView, ViewIsBranch, Number
<1>5. Unjournaled \in 0..Len(view)
  BY <1>1, <1>2, <1>4 DEF Unjournaled
<1> QED
  BY <1>1, <1>2, <1>3, <1>4, <1>5

\* The chain moves under a source that stands still: what is final stays
\* canonical, and nothing else is said of the chain.
LEMMA ChainMoves ==
    ASSUME BlocksInv, ChainStep,
           UNCHANGED <<progress, phase, target, announcement, batch, view>>,
           heads' \in Seq(AllBlocks), Len(heads') <= MaxHeads,
           \A i \in 1..Len(heads') : Len(heads'[i]) <= tallest'
    PROVE  BlocksInv'
<1>1. /\ ChainTypeOK' /\ confirmations' = confirmations
      /\ tallest' >= tallest /\ FinalHeight' >= FinalHeight
      /\ \A m \in 0..FinalHeight : m <= Len(chain) =>
            m <= Len(chain') /\ SubSeq(chain', 1, m) = SubSeq(chain, 1, m)
  BY FinalIsKept DEF BlocksInv, BlocksTypeOK
<1>2. /\ tallest \in Nat /\ tallest' \in Nat
      /\ FinalHeight \in Nat /\ FinalHeight' \in Nat
      /\ confirmations \in Nat
      /\ \A m \in Nat : m + confirmations <= tallest => m <= FinalHeight
  <2>1. tallest \in Nat /\ FinalHeight \in Nat /\ confirmations \in Nat
    BY ChainNumbers DEF BlocksInv, BlocksTypeOK
  <2>2. tallest' \in Nat /\ FinalHeight' \in Nat
    BY FinalIsKept DEF BlocksInv, BlocksTypeOK
  <2> QED
    BY <2>1, <2>2, ChainNumbers DEF BlocksInv, BlocksTypeOK
<1>3. target \in Nat /\ target <= tallest
  <2>1. target \in 0..MaxHeight /\ target <= tallest
    BY DEF BlocksInv, BlocksTypeOK, HeightsSeen
  <2> QED
    BY <2>1, ChainAssumption
<1>4. BlocksTypeOK'
  BY <1>1 DEF BlocksInv, BlocksTypeOK, Progress
<1>5. HeightsSeen'
  BY <1>1, <1>2, <1>3 DEF HeightsSeen, Number
<1>6. ViewIsBranch' /\ JournalEndsView'
  BY DEF BlocksInv, ViewIsBranch, JournalEndsView, Unjournaled, Number
<1>7. UnjournaledIsFinal'
  <2> SUFFICES ASSUME progress # None, NEW i \in 1..Unjournaled
               PROVE  (Number(view[i]) <= FinalHeight /\ IsCanonical(view[i]))'
    BY DEF UnjournaledIsFinal, Unjournaled
  <2>1. i \in 1..Len(view) /\ Len(view[i]) \in Nat
    BY ProgressFacts
  <2>2. /\ Len(view[i]) <= FinalHeight
        /\ Len(view[i]) <= Len(chain) /\ SubSeq(chain, 1, Len(view[i])) = view[i]
    BY DEF BlocksInv, UnjournaledIsFinal, Number, IsCanonical, Extends
  <2>3. Len(view[i]) \in 0..FinalHeight /\ Len(view[i]) <= FinalHeight'
    BY <1>1, <1>2, <2>1, <2>2
  <2> QED
    BY <1>1, <2>2, <2>3 DEF Number, IsCanonical, Extends
<1>8. BatchContinuesParent'
  <2> SUFFICES ASSUME phase = "apply"
               PROVE  BatchContinuesParent'
    BY DEF BatchContinuesParent
  <2> DEFINE last == Last(batch)
  <2>1. BatchContinuesParent
    BY DEF BlocksInv
  <2>2. Len(last) \in Nat
    <3>1. batch \in Seq(AllBlocks) /\ batch # <<>>
      BY <2>1 DEF BatchContinuesParent, BlocksInv, BlocksTypeOK
    <3>2. last \in AllBlocks
      BY <3>1 DEF Last
    <3> QED
      BY <3>2, Numbers
  <2>3. ASSUME NEW m \in 0..Len(last), m + confirmations <= target
        PROVE  m <= Len(chain') /\ SubSeq(last, 1, m) = SubSeq(chain', 1, m)
    <3>1. m \in Nat
      BY <2>2
    <3>2. m + confirmations <= tallest
      BY <1>2, <1>3, <2>3, <3>1
    <3>3. m \in 0..FinalHeight
      BY <1>2, <3>1, <3>2
    <3>4. m <= Len(chain) /\ SubSeq(last, 1, m) = SubSeq(chain, 1, m)
      BY <2>1, <2>3 DEF BatchContinuesParent, Number
    <3> QED
      BY <1>1, <3>3, <3>4
  <2> QED
    BY <1>1, <2>1, <2>3 DEF BatchContinuesParent, Number, Last
<1> QED
  BY <1>4, <1>5, <1>6, <1>7, <1>8 DEF BlocksInv

\* Tails and fronts keep the elements they keep.
LEMMA TailOf ==
    ASSUME NEW S, NEW s \in Seq(S), s # <<>>
    PROVE  /\ Len(s) \in Nat /\ Len(s) > 0
           /\ Head(s) \in S /\ Head(s) = s[1]
           /\ Tail(s) \in Seq(S) /\ Len(Tail(s)) = Len(s) - 1
           /\ \A i \in 1..(Len(s) - 1) : Tail(s)[i] = s[i + 1]
           /\ Last(s) = s[Len(s)] /\ Last(s) \in S
BY HeadTailProperties, EmptySeq DEF Last

LEMMA FrontOf ==
    ASSUME NEW S, NEW s \in Seq(S), s # <<>>
    PROVE  /\ Front(s) \in Seq(S) /\ Len(Front(s)) = Len(s) - 1
           /\ \A i \in 1..(Len(s) - 1) : Front(s)[i] = s[i]
<1>1. Len(s) \in Nat /\ Len(s) > 0
  BY EmptySeq
<1>2. Len(s) - 1 \in 0..Len(s)
  BY <1>1
<1> QED
  BY <1>2, Prefix DEF Front

\* A source that neither applies nor takes back anything: it may start, fail, be
\* woken, or return to waiting.
LEMMA Waits ==
    ASSUME BlocksInv, UNCHANGED <<chainVars, progress, view>>,
           phase' \in {"down", "select", "rollback", "fetch"},
           progress = None => phase' = "down",
           heads' \in Seq(AllBlocks), Len(heads') <= MaxHeads,
           \A i \in 1..Len(heads') : Len(heads'[i]) <= tallest,
           target' \in 0..MaxHeight, target' <= tallest,
           announcement' \in AllBlocks \cup {None},
           batch' \in Seq(AllBlocks)
    PROVE  BlocksInv'
<1>1. BlocksTypeOK'
  BY DEF BlocksInv, BlocksTypeOK, ChainTypeOK, chainVars, Progress
<1>2. HeightsSeen'
  BY DEF HeightsSeen, Number, chainVars
<1>3. ViewIsBranch' /\ JournalEndsView' /\ UnjournaledIsFinal'
  BY DEF BlocksInv, ViewIsBranch, JournalEndsView, UnjournaledIsFinal, Unjournaled, Number,
         IsCanonical, Extends, FinalHeight, chainVars
<1>4. BatchContinuesParent'
  BY DEF BatchContinuesParent
<1> QED
  BY <1>1, <1>2, <1>3, <1>4 DEF BlocksInv

\* What was said of every source that waits.
LEMMA Waiting ==
    ASSUME BlocksInv
    PROVE  /\ heads \in Seq(AllBlocks) /\ Len(heads) <= MaxHeads
           /\ \A i \in 1..Len(heads) : Len(heads[i]) <= tallest
           /\ target \in 0..MaxHeight /\ target <= tallest
           /\ announcement \in AllBlocks \cup {None}
           /\ batch \in Seq(AllBlocks)
           /\ phase \notin {"none", "down"} => progress # None
           /\ <<>> \in Seq(AllBlocks) /\ Len(<<>>) <= MaxHeads
           /\ 0 \in 0..MaxHeight /\ 0 <= tallest
           /\ Len(chain) \in 0..MaxHeight /\ Len(chain) <= tallest
<1>1. ChainTypeOK
  BY DEF BlocksInv, BlocksTypeOK
<1>2. MaxHeads \in Nat
  BY BlocksAssumption
<1>3. /\ Len(chain) \in Nat /\ MaxHeight \in Nat /\ tallest \in Nat
      /\ Len(chain) <= MaxHeight /\ Len(chain) <= tallest
  BY <1>1, ChainNumbers
<1> QED
  BY <1>2, <1>3 DEF BlocksInv, BlocksTypeOK, HeightsSeen, Number

\* Heads announced or lost while the chain moves.
LEMMA BlocksChainStepKeeps ==
    ASSUME BlocksInv, BlocksChainStep
    PROVE  BlocksInv'
<1>1. /\ ChainStep
      /\ UNCHANGED <<progress, phase, target, announcement, batch, view>>
  BY DEF BlocksChainStep
<1>2. /\ ChainTypeOK /\ tallest \in Nat /\ tallest' \in Nat /\ tallest <= tallest'
      /\ chain' \in AllBlocks /\ Len(chain') <= tallest'
  <2>1. ChainTypeOK /\ tallest \in Nat
    BY ChainNumbers DEF BlocksInv, BlocksTypeOK
  <2>2. ChainTypeOK' /\ tallest' \in Nat /\ tallest' >= tallest
    BY <1>1, <2>1, FinalIsKept
  <2>3. chain' \in AllBlocks /\ tallest' \in Len(chain')..MaxHeight
    BY <2>2 DEF ChainTypeOK
  <2>4. Len(chain') \in Nat
    BY <2>3, Numbers
  <2> QED
    BY <2>1, <2>2, <2>3, <2>4, ChainAssumption
<1>3. /\ heads \in Seq(AllBlocks) /\ Len(heads) <= MaxHeads /\ Len(heads) \in Nat
      /\ \A i \in 1..Len(heads) : heads[i] \in AllBlocks
      /\ \A i \in 1..Len(heads) : Len(heads[i]) <= tallest
  BY Waiting
<1>4. \A i \in 1..Len(heads) : Len(heads[i]) <= tallest'
  <2> SUFFICES ASSUME NEW i \in 1..Len(heads)
               PROVE  Len(heads[i]) <= tallest'
    OBVIOUS
  <2>1. Len(heads[i]) \in Nat /\ Len(heads[i]) <= tallest
    BY <1>3, Numbers
  <2> QED
    BY <1>2, <2>1
<1>5. CASE UNCHANGED heads
  <2>1. \A i \in 1..Len(heads') : Len(heads'[i]) <= tallest'
    BY <1>4, <1>5
  <2> QED
    BY <1>1, <1>3, <1>5, <2>1, ChainMoves
<1>6. CASE Len(heads) < MaxHeads /\ heads' = Append(heads, chain')
  <2>1. /\ heads' \in Seq(AllBlocks) /\ Len(heads') = Len(heads) + 1
        /\ \A i \in 1..Len(heads) : heads'[i] = heads[i]
        /\ heads'[Len(heads) + 1] = chain'
    BY <1>2, <1>3, <1>6, AppendProperties
  <2>2. Len(heads') <= MaxHeads
    BY <1>3, <1>6, <2>1, BlocksAssumption
  <2>3. ASSUME NEW i \in 1..Len(heads')
        PROVE  Len(heads'[i]) <= tallest'
    <3>1. i \in 1..Len(heads) \/ i = Len(heads) + 1
      BY <1>3, <2>1
    <3> QED
      BY <1>2, <1>4, <2>1, <3>1
  <2> QED
    BY <1>1, <2>1, <2>2, <2>3, ChainMoves
<1> QED
  BY <1>5, <1>6 DEF BlocksChainStep

\* A start from a checkpoint, or from a fresh one that nothing was applied after.
LEMMA BlocksStartsKeeps ==
    ASSUME BlocksInv, BlocksStarts
    PROVE  BlocksInv'
<1>1. /\ phase' = "rollback" /\ heads' = <<>> /\ target' = Len(chain)
      /\ UNCHANGED <<chainVars, announcement, batch, view>>
  BY DEF BlocksStarts, BlockNumber
<1>2. CASE progress # None
  <2>1. UNCHANGED progress
    BY <1>2 DEF BlocksStarts, LoadProgress
  <2>2. \A i \in 1..Len(heads') : Len(heads'[i]) <= tallest
    BY <1>1
  <2> QED
    BY <1>1, <1>2, <2>1, <2>2, Waiting, Waits
<1>3. CASE progress = None
  <2>1. view = <<>>
    BY <1>3 DEF BlocksInv
  <2>2. ChainTypeOK
    BY DEF BlocksInv, BlocksTypeOK
  <2>3. PICK start \in Nat :
            /\ start >= 1 /\ start <= Len(chain)
            /\ progress' = [parent |-> SubSeq(chain, 1, start - 1), recent |-> <<>>]
    <3>1. PICK from \in BackfillFroms :
              LET start == IF from = None THEN BlockNumber ELSE from IN
              /\ Available(start)
              /\ progress' = [parent |-> BlockByNumber(start - 1), recent |-> <<>>]
      BY <1>3 DEF BlocksStarts, LoadProgress
    <3>2. from \in 1..MaxHeight \/ from = None
      BY BlocksAssumption
    <3>3. /\ Len(chain) \in Nat /\ Len(chain) > 0 /\ MaxHeight \in Nat
      BY <2>2, ChainNumbers
    <3> DEFINE begin == IF from = None THEN BlockNumber ELSE from
    <3>4. /\ begin <= Len(chain)
          /\ progress' = [parent |-> SubSeq(chain, 1, begin - 1), recent |-> <<>>]
      BY <3>1 DEF Available, BlockByNumber
    <3>5. begin \in Nat /\ begin >= 1
      BY <3>2, <3>3 DEF BlockNumber
    <3> HIDE DEF begin
    <3> QED
      BY <3>4, <3>5
  <2>4. /\ progress' \in Progress
        /\ progress'.recent = <<>> /\ progress'.parent \in AllBlocks
        /\ Len(progress'.parent) \in Nat
    <3>1. chain \in AllBlocks /\ Len(chain) \in Nat
      BY <2>2, ChainNumbers
    <3>2. start - 1 \in 0..Len(chain)
      BY <2>3, <3>1
    <3>3. SubSeq(chain, 1, start - 1) \in AllBlocks
      BY <3>1, <3>2, Ancestors
    <3> QED
      BY <2>3, <3>3, Numbers DEF Progress
  <2>5. BlocksTypeOK'
    <3>1. heads' \in Seq(AllBlocks) /\ Len(heads') <= MaxHeads /\ target' \in 0..MaxHeight
      BY <1>1, Waiting
    <3> QED
      BY <1>1, <2>4, <3>1 DEF BlocksInv, BlocksTypeOK, ChainTypeOK, chainVars
  <2>6. HeightsSeen'
    BY <1>1, Waiting DEF HeightsSeen, chainVars
  <2>7. Len(view') = 0 /\ Len(progress'.recent) = 0 /\ Unjournaled' = 0
    BY <1>1, <2>1, <2>4 DEF Unjournaled
  <2>8. ViewIsBranch' /\ JournalEndsView' /\ UnjournaledIsFinal'
    BY <2>4, <2>7 DEF ViewIsBranch, JournalEndsView, UnjournaledIsFinal, Number
  <2>9. BatchContinuesParent'
    BY <1>1 DEF BatchContinuesParent
  <2>10. progress' # None
    BY <2>4, NoProgressAssumption
  <2> QED
    BY <2>5, <2>6, <2>8, <2>9, <2>10 DEF BlocksInv
<1> QED
  BY <1>2, <1>3

\* Whatever was under way is dropped.
LEMMA BlocksFailsKeeps ==
    ASSUME BlocksInv, BlocksFails
    PROVE  BlocksInv'
<1>1. /\ phase' = "down" /\ heads' = <<>> /\ target' = 0 /\ announcement' = None
      /\ batch' = <<>>
      /\ UNCHANGED <<chainVars, progress, view>>
  BY DEF BlocksFails
<1> QED
  BY <1>1, Waiting, Waits

\* A head, or the ticker, gives a height the chain has had.
LEMMA BlocksWakeKeeps ==
    ASSUME BlocksInv, TakeHead \/ BlocksTick
    PROVE  BlocksInv'
<1>1. CASE TakeHead
  <2>1. /\ phase = "select" /\ heads # <<>> /\ heads' = Tail(heads)
        /\ announcement' = Head(heads) /\ target' = Len(Head(heads))
        /\ phase' \in {"fetch", "rollback"}
        /\ UNCHANGED <<chainVars, progress, batch, view>>
    BY <1>1 DEF TakeHead, Number
  <2>2. heads \in Seq(AllBlocks)
    BY Waiting
  <2>3. /\ Len(heads) \in Nat /\ Len(heads) > 0
        /\ Head(heads) \in AllBlocks /\ Head(heads) = heads[1]
        /\ heads' \in Seq(AllBlocks) /\ Len(heads') = Len(heads) - 1
        /\ \A i \in 1..(Len(heads) - 1) : heads'[i] = heads[i + 1]
    BY <2>1, <2>2, TailOf
  <2>4. Len(heads') <= MaxHeads
    BY <2>3, Waiting, BlocksAssumption
  <2>5. ASSUME NEW i \in 1..Len(heads')
        PROVE  Len(heads'[i]) <= tallest
    <3>1. i + 1 \in 1..Len(heads) /\ i \in 1..(Len(heads) - 1)
      BY <2>3
    <3> QED
      BY <2>3, <3>1, Waiting
  <2>6. target' \in 0..MaxHeight /\ target' <= tallest
    <3>1. Len(Head(heads)) \in Nat /\ Len(Head(heads)) <= MaxHeight
      BY <2>3, BlockIsSequence, Numbers
    <3>2. 1 \in 1..Len(heads)
      BY <2>3
    <3>3. Len(heads[1]) <= tallest
      BY <3>2, Waiting
    <3> QED
      BY <2>1, <2>3, <3>1, <3>3, ChainAssumption
  <2>7. progress # None /\ batch \in Seq(AllBlocks)
    BY <2>1, Waiting
  <2> QED
    BY <2>1, <2>3, <2>4, <2>5, <2>6, <2>7, Waits
<1>2. CASE BlocksTick
  <2>1. /\ phase = "select" /\ target' = Len(chain) /\ phase' = "rollback"
        /\ UNCHANGED <<chainVars, progress, heads, announcement, batch, view>>
    BY <1>2 DEF BlocksTick, BlockNumber
  <2> QED
    BY <2>1, Waiting, Waits
<1> QED
  BY <1>1, <1>2

\* The newest block is given back: the handler's branch, the journal and the
\* parent lose their last block together.
LEMMA RollbackKeeps ==
    ASSUME BlocksInv, RollbackOrphans
    PROVE  BlocksInv'
<1>1. phase = "rollback" /\ progress # None /\ UNCHANGED <<chainVars, heads>>
  BY Waiting DEF RollbackOrphans
<1>2. CASE IsCanonical(progress.parent)
  <2>1. /\ phase' = "fetch"
        /\ UNCHANGED <<chainVars, heads, progress, target, announcement, batch, view>>
    BY <1>2 DEF RollbackOrphans
  <2> QED
    BY <1>1, <2>1, Waiting, Waits
<1>3. CASE /\ ~IsCanonical(progress.parent)
           /\ \/ ~Available(Number(progress.parent))
              \/ progress.recent = <<>>
              \/ Last(progress.recent) # progress.parent
  <2>1. /\ phase' = "down" /\ target' = 0 /\ announcement' = None /\ batch' = <<>>
        /\ UNCHANGED <<chainVars, heads, progress, view>>
    BY <1>3 DEF RollbackOrphans, Fail
  <2> QED
    BY <1>1, <2>1, Waiting, Waits
<1>4. CASE /\ ~IsCanonical(progress.parent)
           /\ Available(Number(progress.parent))
           /\ progress.recent # <<>>
           /\ Last(progress.recent) = progress.parent
  <2> DEFINE parent == progress.parent
             recent == progress.recent
             p == Len(parent)
             n == Len(recent)
             k == Len(view)
  <2>1. /\ parent \in AllBlocks /\ p \in Nat /\ recent \in Seq(AllBlocks) /\ n \in Nat
        /\ view \in Seq(AllBlocks) /\ k \in Nat
        /\ n <= k /\ k <= p /\ Unjournaled = k - n
    BY <1>1, ProgressFacts DEF Unjournaled
  <2>2. /\ \A i \in 1..k : view[i] = SubSeq(parent, 1, p - k + i)
        /\ \A j \in 1..n : recent[j] = view[k - n + j]
    BY <1>1, <2>1 DEF BlocksInv, ViewIsBranch, JournalEndsView, Number
  <2>3. n > 0 /\ recent[n] = parent
    BY <1>4, <2>1, TailOf
  <2>4. view # <<>> /\ Last(view) = parent /\ k > 0
    <3>1. n \in 1..n /\ k - n + n = k
      BY <2>1, <2>3
    <3>2. view[k] = parent
      BY <2>2, <2>3, <3>1
    <3> QED
      BY <2>1, <2>3, <3>2 DEF Last
  <2>5. /\ phase' = phase
        /\ progress' = [parent |-> SubSeq(parent, 1, p - 1), recent |-> Front(recent)]
        /\ view' = Front(view)
        /\ UNCHANGED <<target, announcement, batch>>
    <3>1. /\ progress' = [parent |-> ParentHash(Last(recent)), recent |-> Front(recent)]
          /\ view' = Undone(Last(recent))
          /\ UNCHANGED <<phase, target, announcement, batch>>
      BY <1>4 DEF RollbackOrphans
    <3> QED
      BY <1>4, <2>4, <3>1 DEF Undone, ParentHash
  <2>6. /\ view' \in Seq(AllBlocks) /\ Len(view') = k - 1
        /\ \A i \in 1..(k - 1) : view'[i] = view[i]
        /\ Front(recent) \in Seq(AllBlocks) /\ Len(Front(recent)) = n - 1
        /\ \A j \in 1..(n - 1) : Front(recent)[j] = recent[j]
    BY <1>4, <2>1, <2>4, <2>5, FrontOf
  <2>7. /\ p - 1 \in 0..p
        /\ SubSeq(parent, 1, p - 1) \in AllBlocks
        /\ Len(SubSeq(parent, 1, p - 1)) = p - 1
        /\ \A m \in 0..(p - 1) : SubSeq(SubSeq(parent, 1, p - 1), 1, m) = SubSeq(parent, 1, m)
    <3>1. p - 1 \in 0..Len(parent)
      BY <2>1, <2>4
    <3> QED
      BY <2>1, <3>1, Ancestors
  <2>8. /\ progress'.parent = SubSeq(parent, 1, p - 1) /\ progress'.recent = Front(recent)
        /\ progress' \in Progress
    BY <2>5, <2>6, <2>7 DEF Progress
  <2>9. Len(progress'.parent) = p - 1 /\ Len(progress'.recent) = n - 1 /\ Len(view') = k - 1
    BY <2>6, <2>7, <2>8
  <2>10. BlocksTypeOK'
    BY <1>1, <2>5, <2>6, <2>8 DEF BlocksInv, BlocksTypeOK, ChainTypeOK, chainVars
  <2>11. HeightsSeen'
    BY <1>1, <2>5 DEF BlocksInv, HeightsSeen, chainVars
  <2>12. ViewIsBranch'
    <3>1. ASSUME NEW i \in 1..(k - 1)
          PROVE  view'[i] = SubSeq(progress'.parent, 1, (p - 1) - (k - 1) + i)
      <4>1. /\ i \in 1..k /\ p - k + i \in 0..(p - 1)
            /\ (p - 1) - (k - 1) + i = p - k + i
        BY <2>1, <2>4
      <4>2. view'[i] = SubSeq(parent, 1, p - k + i)
        BY <2>2, <2>6, <4>1
      <4>3. SubSeq(progress'.parent, 1, p - k + i) = SubSeq(parent, 1, p - k + i)
        BY <2>7, <2>8, <4>1
      <4> QED
        BY <4>1, <4>2, <4>3
    <3>2. k - 1 <= p - 1
      BY <2>1
    <3> QED
      BY <2>9, <3>1, <3>2 DEF ViewIsBranch, Number
  <2>13. Unjournaled' = k - n
    BY <2>1, <2>9 DEF Unjournaled
  <2>14. JournalEndsView'
    <3>1. ASSUME NEW j \in 1..(n - 1)
          PROVE  progress'.recent[j] = view'[k - n + j]
      <4>1. j \in 1..n /\ k - n + j \in 1..(k - 1)
        BY <2>1, <2>3
      <4> QED
        BY <2>2, <2>6, <2>8, <4>1
    <3>2. n - 1 <= k - 1
      BY <2>1
    <3> QED
      BY <2>9, <2>13, <3>1, <3>2 DEF JournalEndsView
  <2>15. UnjournaledIsFinal'
    <3>1. ASSUME NEW i \in 1..(k - n)
          PROVE  (Number(view[i]) <= FinalHeight /\ IsCanonical(view[i]))'
      <4>1. i \in 1..(k - 1)
        BY <2>1, <2>3
      <4>2. Number(view[i]) <= FinalHeight /\ IsCanonical(view[i])
        BY <1>1, <2>1 DEF BlocksInv, UnjournaledIsFinal
      <4> QED
        BY <1>1, <2>6, <4>1, <4>2 DEF Number, IsCanonical, Extends, FinalHeight, chainVars
    <3> QED
      BY <2>13, <3>1 DEF UnjournaledIsFinal
  <2>16. BatchContinuesParent' /\ progress' # None
    BY <1>1, <2>5, <2>8, NoProgressAssumption DEF BatchContinuesParent
  <2> QED
    BY <2>10, <2>11, <2>12, <2>14, <2>15, <2>16 DEF BlocksInv
<1> QED
  BY <1>2, <1>3, <1>4

\* A batch is read from one chain and continues the parent.
LEMMA FetchKeeps ==
    ASSUME BlocksInv, FetchBlocks
    PROVE  BlocksInv'
<1>1. phase = "fetch" /\ progress # None /\ UNCHANGED <<chainVars, progress, heads, view>>
  BY Waiting DEF FetchBlocks
<1>2. CASE Return
  <2>1. /\ phase' = "select" /\ target' = 0 /\ announcement' = None /\ batch' = <<>>
    BY <1>2 DEF Return
  <2> QED
    BY <1>1, <2>1, Waiting, Waits
<1>3. CASE Fail
  <2>1. /\ phase' = "down" /\ target' = 0 /\ announcement' = None /\ batch' = <<>>
    BY <1>3 DEF Fail
  <2> QED
    BY <1>1, <2>1, Waiting, Waits
<1>4. CASE ~Return /\ ~Fail
  <2> DEFINE parent == progress.parent
             p == Len(parent)
             to == To
             n == to - p
             FromChain(i) == SubSeq(chain, 1, p + i)
  <2>1. /\ phase' = "apply" /\ UNCHANGED <<target, announcement>>
        /\ ~(NextBlock > target) /\ Available(To) /\ FollowsProgress(BlockByNumber(NextBlock))
        /\ batch' = [i \in 1..(To - NextBlock + 1) |-> BlockByNumber(NextBlock + i - 1)]
    BY <1>4 DEF FetchBlocks
  <2>2. ChainTypeOK /\ parent \in AllBlocks /\ p \in Nat
    BY <1>1, ProgressFacts DEF BlocksInv, BlocksTypeOK
  <2>3. /\ chain \in AllBlocks /\ chain \in Seq(Forks) /\ Len(chain) \in Nat
        /\ MaxHeight \in Nat /\ confirmations \in Nat /\ target \in Nat
    <3>1. target \in 0..MaxHeight
      BY Waiting
    <3> QED
      BY <2>2, <3>1, ChainNumbers
  <2>4. NextBlock = p + 1
    BY DEF NextBlock, Number
  <2>5. to \in Nat /\ p + 1 <= to /\ to <= target /\ to <= Len(chain)
    <3>1. ReplayBatch \in Nat /\ ReplayBatch > 0
      BY BlocksAssumption
    <3>2. to <= Len(chain) /\ p + 1 <= target
      BY <2>1, <2>2, <2>3, <2>4 DEF Available
    <3>3. to = IF target - (p + 1) < ReplayBatch THEN target ELSE p + 1 + ReplayBatch - 1
      BY <2>4 DEF To
    <3> QED
      BY <2>2, <2>3, <3>1, <3>2, <3>3
  <2>6. n \in Nat /\ n >= 1 /\ p + n = to
    BY <2>2, <2>5
  <2>7. batch' = [i \in 1..n |-> FromChain(i)]
    <3>1. To - NextBlock + 1 = n /\ \A i \in 1..n : NextBlock + i - 1 = p + i
      BY <2>2, <2>4, <2>5
    <3> QED
      BY <2>1, <3>1 DEF BlockByNumber
  <2> HIDE DEF to, n
  <2>8. \A i \in 1..n : p + i \in 0..Len(chain) /\ p + i \in 0..to
    BY <2>2, <2>3, <2>5, <2>6
  <2>9. \A i \in 1..n : FromChain(i) \in AllBlocks
    BY <2>3, <2>8, Ancestors
  <2>10. batch' \in Seq(AllBlocks) /\ Len(batch') = n /\ \A i \in 1..n : batch'[i] = FromChain(i)
    BY <2>6, <2>7, <2>9
  <2>11. Last(batch') = SubSeq(chain, 1, to) /\ batch' # <<>>
    BY <2>6, <2>10 DEF Last
  <2>12. /\ to \in 0..Len(chain) /\ Len(SubSeq(chain, 1, to)) = to
         /\ \A m \in 0..to : SubSeq(SubSeq(chain, 1, to), 1, m) = SubSeq(chain, 1, m)
    <3>1. to \in 0..Len(chain)
      BY <2>3, <2>5
    <3> QED
      BY <2>3, <3>1, Ancestors
  <2>13. parent = SubSeq(SubSeq(chain, 1, to), 1, p)
    <3> DEFINE next == SubSeq(chain, 1, p + 1)
    <3>1. parent = SubSeq(next, 1, Len(next) - 1)
      BY <2>1, <2>4 DEF FollowsProgress, ParentHash, BlockByNumber
    <3>2. p + 1 \in 0..Len(chain) /\ p \in 0..(p + 1) /\ p \in 0..to /\ p + 1 - 1 = p
      BY <2>2, <2>3, <2>5
    <3>3. Len(next) = p + 1 /\ SubSeq(next, 1, p) = SubSeq(chain, 1, p)
      BY <2>3, <3>2, Ancestors
    <3> QED
      BY <2>12, <3>1, <3>2, <3>3
  <2>14. \A i \in 1..n : batch'[i] = SubSeq(SubSeq(chain, 1, to), 1, p + i)
    BY <2>8, <2>10, <2>12
  <2>15. \A m \in 0..to : m <= Len(chain)
    BY <2>3, <2>5
  <2>16. BatchContinuesParent'
    BY <1>1, <2>6, <2>10, <2>11, <2>12, <2>13, <2>14, <2>15
    DEF BatchContinuesParent, Number, chainVars
  <2>17. BlocksTypeOK'
    BY <1>1, <2>1, <2>10 DEF BlocksInv, BlocksTypeOK, ChainTypeOK, Progress, chainVars
  <2>18. HeightsSeen'
    BY <1>1, <2>1 DEF BlocksInv, HeightsSeen, chainVars
  <2>19. ViewIsBranch' /\ JournalEndsView' /\ UnjournaledIsFinal'
    BY <1>1 DEF BlocksInv, ViewIsBranch, JournalEndsView, UnjournaledIsFinal, Unjournaled,
                Number, IsCanonical, Extends, FinalHeight, chainVars
  <2> QED
    BY <1>1, <2>16, <2>17, <2>18, <2>19 DEF BlocksInv
<1> QED
  BY <1>2, <1>3, <1>4

\* What trim cuts is the final beginning of the journal.
LEMMA TrimmedOf ==
    ASSUME NEW r \in Seq(AllBlocks), target \in Nat, confirmations \in Nat
    PROVE  \E d \in 0..Len(r) :
              /\ Trimmed(r) \in Seq(AllBlocks) /\ Len(Trimmed(r)) = Len(r) - d
              /\ \A j \in 1..(Len(r) - d) : Trimmed(r)[j] = r[d + j]
              /\ \A i \in 1..d : Len(r[i]) + confirmations <= target
<1> DEFINE n == Len(r)
<1>1. n \in Nat /\ \A i \in 1..n : r[i] \in AllBlocks
  OBVIOUS
<1>2. \A i \in 1..n : Len(r[i]) \in Nat
  BY <1>1, Numbers
<1>3. \A i \in 1..n : i \notin Replaceable(r) => Len(r[i]) + confirmations <= target
  BY <1>2 DEF Replaceable, Number
<1>4. CASE Replaceable(r) = {}
  <2>1. Trimmed(r) = <<>> /\ <<>> \in Seq(AllBlocks) /\ Len(<<>>) = 0
    BY <1>4 DEF Trimmed
  <2>2. n \in 0..n /\ n - n = 0 /\ \A j \in 1..0 : FALSE
    BY <1>1
  <2>3. \A i \in 1..n : Len(r[i]) + confirmations <= target
    BY <1>3, <1>4
  <2> QED
    BY <2>1, <2>2, <2>3
<1>5. CASE Replaceable(r) # {}
  <2> DEFINE least == Min(Replaceable(r))
             d == least - 1
             t == Trimmed(r)
  <2>1. Replaceable(r) \subseteq 1..n /\ Replaceable(r) \subseteq Nat
    BY <1>1 DEF Replaceable
  <2>2. least \in Replaceable(r) /\ \A i \in Replaceable(r) : least <= i
    BY <1>5, <2>1, LeastOf
  <2>3. t = SubSeq(r, least, n)
    BY <1>5 DEF Trimmed
  <2>4. least \in 1..n
    BY <2>1, <2>2
  <2> HIDE DEF least, t
  <2>5. /\ t \in Seq(AllBlocks) /\ Len(t) = n - least + 1
        /\ \A j \in 1..(n - least + 1) : t[j] = r[least + j - 1]
    <3>1. least \in Int /\ n \in Int /\ least <= n
      BY <1>1, <2>4
    <3>2. \A i \in least..n : r[i] \in AllBlocks
      BY <1>1, <2>4
    <3> QED
      BY <2>3, <3>1, <3>2, SubSeqProperties
  <2>6. ASSUME NEW i \in 1..d
        PROVE  Len(r[i]) + confirmations <= target
    <3>1. i \in 1..n /\ ~(least <= i)
      BY <1>1, <2>4
    <3> QED
      BY <1>3, <2>2, <3>1
  <2>7. d \in 0..n /\ n - least + 1 = n - d
    BY <1>1, <2>4
  <2>8. \A j \in 1..(n - d) : least + j - 1 = d + j
    BY <1>1, <2>4
  <2>9. \A j \in 1..(n - d) : t[j] = r[d + j]
    BY <2>5, <2>7, <2>8
  <2> HIDE DEF d
  <2> QED
    BY <2>5, <2>6, <2>7, <2>9 DEF t
<1> QED
  BY <1>4, <1>5

\* The next block of the batch joins the branch, the journal and the parent, and
\* what leaves the journal is final: it was so at the height the batch was read for.
LEMMA ApplyKeeps ==
    ASSUME BlocksInv, ApplyBlock
    PROVE  BlocksInv'
<1> DEFINE block == Head(batch)
           joined == Append(progress.recent, block)
           recent == Trimmed(joined)
<1>1. phase = "apply" /\ progress # None /\ UNCHANGED <<chainVars, heads>>
  BY Waiting DEF ApplyBlock
<1>2. CASE Len(recent) > MaxRecent
  <2>1. /\ phase' = "down" /\ target' = 0 /\ announcement' = None /\ batch' = <<>>
        /\ UNCHANGED <<progress, view>>
    BY <1>2 DEF ApplyBlock, Fail
  <2> QED
    BY <1>1, <2>1, Waiting, Waits
<1>3. CASE ~(Len(recent) > MaxRecent)
  <2> DEFINE parent == progress.parent
             p == Len(parent)
             n == Len(progress.recent)
             k == Len(view)
             last == Last(batch)
             q == Len(batch)
  <2>1. /\ progress' = [parent |-> block, recent |-> recent]
        /\ view' = Append(view, block)
        /\ batch' = Tail(batch)
        /\ phase' = IF q = 1 THEN "fetch" ELSE "apply"
        /\ UNCHANGED <<target, announcement>>
    BY <1>3 DEF ApplyBlock
  <2>2. /\ parent \in AllBlocks /\ p \in Nat
        /\ progress.recent \in Seq(AllBlocks) /\ n \in Nat
        /\ view \in Seq(AllBlocks) /\ k \in Nat
        /\ n <= k /\ k <= p /\ Unjournaled = k - n
        /\ \A i \in 1..k : view[i] = SubSeq(parent, 1, p - k + i)
        /\ \A j \in 1..n : progress.recent[j] = view[k - n + j]
    BY <1>1, ProgressFacts DEF Unjournaled, BlocksInv, ViewIsBranch, JournalEndsView, Number
  <2>3. /\ batch # <<>> /\ Len(last) = p + q /\ parent = SubSeq(last, 1, p)
        /\ \A i \in 1..q : batch[i] = SubSeq(last, 1, p + i)
        /\ \A m \in 0..Len(last) : m + confirmations <= target =>
              m <= Len(chain) /\ SubSeq(last, 1, m) = SubSeq(chain, 1, m)
    BY <1>1 DEF BlocksInv, BatchContinuesParent, Number
  <2>4. /\ q \in Nat /\ q > 0 /\ block \in AllBlocks /\ block = batch[1]
        /\ batch' \in Seq(AllBlocks) /\ Len(batch') = q - 1
        /\ \A i \in 1..(q - 1) : batch'[i] = batch[i + 1]
        /\ last = batch[q] /\ last \in AllBlocks
    <3>1. batch \in Seq(AllBlocks)
      BY Waiting
    <3> QED
      BY <2>1, <2>3, <3>1, TailOf
  <2>5. /\ tallest \in Nat /\ confirmations \in Nat /\ target \in Nat /\ target <= tallest
        /\ Len(chain) \in Nat /\ FinalHeight \in Nat
        /\ \A m \in Nat : m + confirmations <= tallest => m <= FinalHeight
    <3>1. ChainTypeOK /\ target \in 0..MaxHeight /\ target <= tallest
      BY Waiting DEF BlocksInv, BlocksTypeOK
    <3> QED
      BY <3>1, ChainNumbers
  <2> HIDE DEF block, last, p, n, k, q
  <2>6. /\ p + 1 \in 0..Len(last) /\ block = SubSeq(last, 1, p + 1) /\ Len(block) = p + 1
        /\ \A m \in 0..(p + 1) : SubSeq(block, 1, m) = SubSeq(last, 1, m)
    <3>1. p + 1 \in 0..Len(last) /\ 1 \in 1..q
      BY <2>2, <2>3, <2>4
    <3>2. block = SubSeq(last, 1, p + 1)
      BY <2>3, <2>4, <3>1
    <3> QED
      BY <2>4, <3>1, <3>2, Ancestors
  <2>7. parent = SubSeq(block, 1, p) /\ \A m \in 0..p : SubSeq(parent, 1, m) = SubSeq(last, 1, m)
    <3>1. p \in 0..(p + 1) /\ p \in 0..Len(last)
      BY <2>2, <2>3, <2>4
    <3>2. parent = SubSeq(block, 1, p)
      BY <2>3, <2>6, <3>1
    <3>3. \A m \in 0..p : SubSeq(SubSeq(last, 1, p), 1, m) = SubSeq(last, 1, m)
      BY <2>4, <3>1, Ancestors
    <3> QED
      BY <2>3, <3>2, <3>3
  <2>8. /\ joined \in Seq(AllBlocks) /\ Len(joined) = n + 1
        /\ \A j \in 1..n : joined[j] = progress.recent[j]
        /\ joined[n + 1] = block
    BY <2>2, <2>4, AppendProperties DEF n
  <2>9. /\ view' \in Seq(AllBlocks) /\ Len(view') = k + 1
        /\ \A i \in 1..k : view'[i] = view[i]
        /\ view'[k + 1] = block
    BY <2>1, <2>2, <2>4, AppendProperties DEF k
  <2> HIDE DEF joined, recent
  <2>10. PICK d \in 0..Len(joined) :
            /\ recent \in Seq(AllBlocks) /\ Len(recent) = Len(joined) - d
            /\ \A j \in 1..(Len(joined) - d) : recent[j] = joined[d + j]
            /\ \A i \in 1..d : Len(joined[i]) + confirmations <= target
    BY <2>5, <2>8, TrimmedOf DEF recent
  <2>cut. /\ d \in 0..(n + 1) /\ Len(recent) = n + 1 - d
          /\ \A j \in 1..(n + 1 - d) : recent[j] = joined[d + j]
    <3>1. n \in Nat /\ Len(joined) = n + 1
      BY <2>2, <2>8
    <3> QED
      BY <2>10, <3>1
  <2>sizes. p \in Nat /\ n \in Nat /\ k \in Nat /\ n <= k /\ k <= p /\ d \in 0..(n + 1)
    BY <2>2, <2>cut
  <2>11. /\ progress'.parent = block /\ progress'.recent = recent /\ progress' \in Progress
         /\ Len(progress'.parent) = p + 1 /\ Len(progress'.recent) = n + 1 - d
    BY <2>1, <2>4, <2>6, <2>10, <2>cut DEF Progress
  <2>12. \A i \in 1..(k + 1) : view'[i] = SubSeq(last, 1, p - k + i)
    <3> SUFFICES ASSUME NEW i \in 1..(k + 1)
                 PROVE  view'[i] = SubSeq(last, 1, p - k + i)
      OBVIOUS
    <3>1. CASE i = k + 1
      <4>1. p - k + i = p + 1
        BY <2>sizes, <3>1
      <4>2. view'[i] = block
        BY <2>9, <3>1
      <4>3. block = SubSeq(last, 1, p + 1)
        BY <2>6
      <4> QED
        BY <4>1, <4>2, <4>3, Zenon
    <3>2. CASE i # k + 1
      <4>1. i \in 1..k /\ p - k + i \in 0..p
        BY <2>sizes, <3>2
      <4> QED
        BY <2>2, <2>7, <2>9, <4>1
    <3> QED
      BY <3>1, <3>2
  <2>13. \A j \in 1..(n + 1) : joined[j] = view'[k - n + j]
    <3> SUFFICES ASSUME NEW j \in 1..(n + 1)
                 PROVE  joined[j] = view'[k - n + j]
      OBVIOUS
    <3>1. CASE j = n + 1
      <4>1. k - n + j = k + 1
        BY <2>sizes, <3>1
      <4>2. joined[j] = block
        BY <2>8, <3>1
      <4> QED
        BY <2>9, <4>1, <4>2
    <3>2. CASE j # n + 1
      <4>1. j \in 1..n /\ k - n + j \in 1..k
        BY <2>sizes, <3>2
      <4> QED
        BY <2>2, <2>8, <2>9, <4>1
    <3> QED
      BY <3>1, <3>2
  <2>14. BlocksTypeOK'
    BY <1>1, <2>1, <2>4, <2>9, <2>11
    DEF BlocksInv, BlocksTypeOK, ChainTypeOK, chainVars
  <2>15. HeightsSeen'
    BY <1>1, <2>1 DEF BlocksInv, HeightsSeen, chainVars
  <2>16. ViewIsBranch'
    <3>1. ASSUME NEW i \in 1..(k + 1)
          PROVE  view'[i] = SubSeq(progress'.parent, 1, (p + 1) - (k + 1) + i)
      <4>1. (p + 1) - (k + 1) + i = p - k + i /\ p - k + i \in 0..(p + 1)
        BY <2>sizes
      <4> QED
        BY <2>6, <2>11, <2>12, <4>1
    <3>2. k + 1 <= p + 1
      BY <2>sizes
    <3> QED
      BY <2>9, <2>11, <3>1, <3>2 DEF ViewIsBranch, Number
  <2>17. Unjournaled' = k - n + d
    <3>1. Unjournaled' = (k + 1) - (n + 1 - d)
      BY <2>9, <2>11 DEF Unjournaled
    <3> QED
      BY <2>sizes, <3>1
  <2>18. JournalEndsView'
    <3>1. ASSUME NEW j \in 1..(n + 1 - d)
          PROVE  progress'.recent[j] = view'[k - n + d + j]
      <4>1. d + j \in 1..(n + 1) /\ k - n + (d + j) = k - n + d + j
        BY <2>sizes
      <4> QED
        BY <2>cut, <2>11, <2>13, <4>1
    <3>2. n + 1 - d <= k + 1
      BY <2>sizes
    <3> QED
      BY <2>9, <2>11, <2>17, <3>1, <3>2 DEF JournalEndsView
  <2>19. UnjournaledIsFinal'
    <3>1. ASSUME NEW i \in 1..(k - n + d)
          PROVE  (Number(view[i]) <= FinalHeight /\ IsCanonical(view[i]))'
      <4>1. CASE i <= k - n
        <5>1. i \in 1..(k - n) /\ i \in 1..k
          BY <2>sizes, <4>1
        <5>2. Number(view[i]) <= FinalHeight /\ IsCanonical(view[i])
          BY <1>1, <2>2, <5>1 DEF BlocksInv, UnjournaledIsFinal
        <5> QED
          BY <1>1, <2>9, <5>1, <5>2 DEF Number, IsCanonical, Extends, FinalHeight, chainVars
      <4>2. CASE ~(i <= k - n)
        <5> DEFINE e == i - (k - n)
                   m == p - k + i
        <5>1. /\ e \in 1..d /\ e \in 1..(n + 1) /\ k - n + e = i
              /\ i \in 1..(k + 1) /\ m \in 0..(p + 1) /\ m \in Nat
          <6>1. i \in Int /\ i > k - n /\ i <= k - n + d /\ d <= n + 1 /\ d \in Nat
            BY <2>sizes, <4>2
          <6> QED
            BY <2>sizes, <6>1
        <5> HIDE DEF e
        <5>2. view'[i] = joined[e] /\ view'[i] = SubSeq(last, 1, m)
          BY <2>12, <2>13, <5>1
        <5> HIDE DEF m
        <5>3. m \in 0..Len(last)
          <6>1. Len(last) \in Nat
            BY <2>4, Numbers
          <6> QED
            BY <2>2, <2>6, <5>1, <6>1
        <5>4. Len(view'[i]) = m
          BY <2>4, <5>2, <5>3, Ancestors
        <5>5. m + confirmations <= target
          BY <2>10, <5>1, <5>2, <5>4
        <5>6. m <= FinalHeight
          <6>1. m + confirmations <= tallest
            BY <2>5, <5>1, <5>5
          <6> QED
            BY <2>5, <5>1, <6>1
        <5>7. m <= Len(chain) /\ SubSeq(chain, 1, m) = view'[i]
          BY <2>3, <5>2, <5>3, <5>5
        <5> QED
          BY <1>1, <5>4, <5>6, <5>7 DEF Number, IsCanonical, Extends, FinalHeight, chainVars
      <4> QED
        BY <4>1, <4>2
    <3> QED
      BY <2>17, <3>1 DEF UnjournaledIsFinal
  <2>20. BatchContinuesParent'
    <3> SUFFICES ASSUME q # 1
                 PROVE  BatchContinuesParent'
      BY <2>1 DEF BatchContinuesParent
    <3>1. q - 1 \in Nat /\ q - 1 > 0
      BY <2>4
    <3>2. batch' # <<>> /\ Last(batch') = last
      <4>1. batch' # <<>> /\ q - 1 \in 1..(q - 1) /\ q - 1 + 1 = q
        BY <2>4, <3>1
      <4> QED
        BY <2>4, <4>1 DEF Last
    <3>3. Len(last) = (p + 1) + (q - 1)
      BY <2>2, <2>3, <2>4
    <3>4. ASSUME NEW i \in 1..(q - 1)
          PROVE  batch'[i] = SubSeq(last, 1, (p + 1) + i)
      <4>1. i + 1 \in 1..q /\ p + (i + 1) = (p + 1) + i
        BY <2>2, <2>4
      <4>2. batch'[i] = batch[i + 1]
        BY <2>4
      <4>3. batch[i + 1] = SubSeq(last, 1, p + (i + 1))
        BY <2>3, <4>1
      <4> QED
        BY <4>1, <4>2, <4>3
    <3> QED
      BY <1>1, <2>1, <2>3, <2>4, <2>6, <2>11, <3>2, <3>3, <3>4
      DEF BatchContinuesParent, Number, chainVars
  <2>21. progress' # None
    BY <2>11, NoProgressAssumption
  <2> QED
    BY <2>14, <2>15, <2>16, <2>18, <2>19, <2>20, <2>21 DEF BlocksInv
<1> QED
  BY <1>2, <1>3

\* Whatever the source does.
LEMMA BlocksNextKeeps ==
    ASSUME BlocksInv, BlocksNext
    PROVE  BlocksInv'
<1>1. ASSUME ReceiptUnavailable
      PROVE  BlocksInv'
  <2>1. /\ phase = "apply" /\ phase' = "select"
        /\ target' = 0 /\ announcement' = None /\ batch' = <<>>
        /\ UNCHANGED <<chainVars, progress, heads, view>>
    BY <1>1 DEF ReceiptUnavailable, Return
  <2> QED
    BY <2>1, Waiting, Waits
<1> QED
  BY <1>1, BlocksChainStepKeeps, BlocksStartsKeeps, BlocksFailsKeeps, BlocksWakeKeeps,
     RollbackKeeps, FetchKeeps, ApplyKeeps DEF BlocksNext

\* Nothing of the source moves.
LEMMA BlocksStill ==
    ASSUME BlocksInv, UNCHANGED <<chainVars, blocksOwn>>
    PROVE  BlocksInv'
BY DEF BlocksInv, BlocksTypeOK, ChainTypeOK, Progress, HeightsSeen, ViewIsBranch,
       JournalEndsView, UnjournaledIsFinal, Unjournaled, BatchContinuesParent, Number,
       IsCanonical, Extends, FinalHeight, chainVars, blocksOwn

\* The first block, and nothing applied.
LEMMA BlocksInvInit ==
    ASSUME SourcesInit
    PROVE  BlocksInv
<1>1. ChainTypeOK /\ FinalHeight \in Nat
  <2>1. /\ confirmations \in BlocksConfirmations \/ confirmations \in EventsConfirmations
        /\ chain \in [1..1 -> Forks] /\ tallest = 1
    BY DEF SourcesInit, BlocksInit, EventsInit, ChainInit
  <2>2. confirmations \in Nat \ {0} /\ MaxHeight \in Nat /\ MaxHeight >= 1
    <3>1. confirmations \in Nat \ {0}
      BY <2>1, BlocksAssumption, EventsAssumption
    <3>2. MaxHeight \in Nat /\ MaxHeight >= 1
      BY ChainAssumption
    <3> QED
      BY <3>1, <3>2
  <2>3. chain \in Seq(Forks) /\ Len(chain) = 1 /\ chain # <<>>
    <3>1. chain \in Seq(Forks)
      BY <2>1, SeqDef
    <3>2. DOMAIN chain = 1..1 /\ DOMAIN chain = 1..Len(chain) /\ Len(chain) \in Nat
      BY <2>1, <3>1, LenProperties
    <3>3. Len(chain) = 1
      BY <3>2
    <3> QED
      BY <3>1, <3>3, EmptySeq
  <2>4. chain \in AllBlocks
    BY <2>2, <2>3, BlockIsSequence
  <2>5. ChainTypeOK
    BY <2>1, <2>2, <2>3, <2>4 DEF ChainTypeOK
  <2> QED
    BY <2>5, ChainNumbers
<1>2. /\ progress = None /\ heads = <<>> /\ phase \in {"none", "down"} /\ target = 0
      /\ announcement = None /\ batch = <<>> /\ view = <<>>
  BY DEF SourcesInit, BlocksInit, BlocksAbsent
<1>3. BlocksTypeOK
  <2>1. MaxHeads \in Nat /\ MaxHeight \in Nat
    BY BlocksAssumption, ChainAssumption
  <2> QED
    BY <1>1, <1>2, <2>1 DEF BlocksTypeOK
<1>4. HeightsSeen
  <2>1. tallest \in Nat
    BY <1>1, ChainNumbers
  <2> QED
    BY <1>2, <2>1 DEF HeightsSeen
<1> QED
  BY <1>1, <1>2, <1>3, <1>4
  DEF BlocksInv, ViewIsBranch, JournalEndsView, UnjournaledIsFinal, BatchContinuesParent

\* The invariant gives the two properties.
LEMMA OneChain ==
    ASSUME BlocksInv
    PROVE  BlocksApplyOneChain
<1> SUFFICES ASSUME view # <<>>
             PROVE  /\ Last(view) = progress.parent
                    /\ \A i \in 2..Len(view) : view[i - 1] = ParentHash(view[i])
  BY DEF BlocksApplyOneChain
<1> DEFINE parent == progress.parent
           p == Len(parent)
           k == Len(view)
<1>1. progress # None
  BY DEF BlocksInv
<1>2. /\ parent \in AllBlocks /\ p \in Nat /\ view \in Seq(AllBlocks) /\ k \in Nat /\ k <= p
      /\ \A i \in 1..k : view[i] = SubSeq(parent, 1, p - k + i)
  BY <1>1, ProgressFacts DEF BlocksInv, ViewIsBranch, Number
<1>3. p \in Nat /\ k \in Nat /\ k <= p /\ k > 0
  BY <1>2, TailOf
<1>4. Last(view) = parent
  <2>1. k \in 1..k /\ p - k + k = p /\ p \in 0..p
    BY <1>3
  <2>2. view[k] = SubSeq(parent, 1, p)
    BY <1>2, <2>1
  <2>3. SubSeq(parent, 1, p) = parent
    BY <1>2, <2>1, Ancestors
  <2> QED
    BY <2>2, <2>3 DEF Last
<1>5. ASSUME NEW i \in 2..k
      PROVE  view[i - 1] = ParentHash(view[i])
  <2> DEFINE m == p - k + i
  <2>1. /\ i \in 1..k /\ i - 1 \in 1..k /\ p - k + (i - 1) = m - 1
        /\ m \in 0..p /\ m - 1 \in 0..m /\ m - 1 \in Nat
    BY <1>3
  <2>2. view[i] = SubSeq(parent, 1, m) /\ view[i - 1] = SubSeq(parent, 1, m - 1)
    <3>1. view[i] = SubSeq(parent, 1, m)
      BY <1>2, <2>1
    <3>2. view[i - 1] = SubSeq(parent, 1, p - k + (i - 1))
      BY <1>2, <2>1
    <3> QED
      BY <2>1, <3>1, <3>2
  <2> HIDE DEF m
  <2>3. /\ Len(SubSeq(parent, 1, m)) = m
        /\ SubSeq(SubSeq(parent, 1, m), 1, m - 1) = SubSeq(parent, 1, m - 1)
    BY <1>2, <2>1, Ancestors
  <2> QED
    BY <2>2, <2>3 DEF ParentHash
<1> QED
  BY <1>4, <1>5

LEMMA JournalCovers ==
    ASSUME BlocksInv
    PROVE  JournalCoversReorganizations
<1> SUFFICES ASSUME NEW i \in 1..Len(view)
             PROVE  \/ view[i] \in {progress.recent[j] : j \in 1..Len(progress.recent)}
                    \/ IsCanonical(view[i])
  BY DEF JournalCoversReorganizations
<1> DEFINE n == Len(progress.recent)
           k == Len(view)
<1>1. progress # None
  <2>1. view # <<>>
    BY EmptySeq
  <2> QED
    BY <2>1 DEF BlocksInv
<1>2. /\ n \in Nat /\ k \in Nat /\ n <= k /\ Unjournaled = k - n
      /\ \A j \in 1..n : progress.recent[j] = view[k - n + j]
  BY <1>1, ProgressFacts DEF BlocksInv, JournalEndsView, Unjournaled
<1>3. CASE i <= k - n
  <2>1. i \in 1..Unjournaled
    BY <1>2, <1>3
  <2> QED
    BY <1>1, <2>1 DEF BlocksInv, UnjournaledIsFinal
<1>4. CASE ~(i <= k - n)
  <2> DEFINE j == i - (k - n)
  <2>1. j \in 1..n /\ k - n + j = i
    <3>1. n \in Nat /\ k \in Nat /\ n <= k /\ i \in 1..k /\ ~(i <= k - n)
      BY <1>2, <1>4
    <3> HIDE DEF n, k
    <3>2. i \in Nat
      BY <3>1
    <3> QED
      BY <3>1, <3>2
  <2>2. progress.recent[j] = view[i]
    BY <1>2, <2>1
  <2> QED
    BY <2>1, <2>2
<1> QED
  BY <1>3, <1>4

-----------------------------------------------------------------------------
(* Theorems *)

\* What a step of any source keeps.
LEMMA SourcesStepKeeps ==
    ASSUME BlocksInv, [SourcesNext]_sourceVars
    PROVE  BlocksInv'
<1>1. CASE BlocksNext
  BY <1>1, BlocksNextKeeps
<1>2. CASE EventsNext /\ UNCHANGED blocksOwn
  <2>1. CASE EventsChainStep
    <3>1. ChainStep
      BY <2>1 DEF EventsChainStep
    <3>2. UNCHANGED <<progress, heads, phase, target, announcement, batch, view>>
      BY <1>2 DEF blocksOwn
    <3>3. /\ tallest \in Nat /\ tallest' \in Nat /\ tallest <= tallest'
      BY <3>1, FinalIsKept, ChainNumbers DEF BlocksInv, BlocksTypeOK
    <3>4. /\ heads \in Seq(AllBlocks) /\ Len(heads) <= MaxHeads
          /\ \A i \in 1..Len(heads) : heads[i] \in AllBlocks /\ Len(heads[i]) <= tallest
      BY Waiting
    <3>5. \A i \in 1..Len(heads) : Len(heads[i]) \in Nat /\ Len(heads[i]) <= tallest
      BY <3>4, Numbers
    <3>6. \A i \in 1..Len(heads') : Len(heads'[i]) <= tallest'
      BY <3>2, <3>3, <3>5
    <3> QED
      BY <3>1, <3>2, <3>4, <3>6, ChainMoves
  <2>2. CASE UNCHANGED chainVars
    BY <1>2, <2>2, BlocksStill
  <2> QED
    BY <1>2, <2>1, <2>2
    DEF EventsNext, EventsStarts, EventsFails, HandleLive, ReplayRange, PassLog, ConfirmLog,
        EndRange
<1>3. CASE UNCHANGED <<chainVars, blocksOwn>>
  BY <1>3, BlocksStill
<1> QED
  BY <1>1, <1>2, <1>3 DEF SourcesNext, sourceVars

\* The blocks that were applied stand behind their journal: the handler holds a
\* branch that ends at the durable parent, the journal is its end, and what has
\* left the journal is final (applyBlock, trim and rollbackOrphans in blocks.go).
THEOREM BlocksInvariant == SourcesSpec => []BlocksInv
<1>1. SourcesInit => BlocksInv
  BY BlocksInvInit
<1>2. BlocksInv /\ [SourcesNext]_sourceVars => BlocksInv'
  BY SourcesStepKeeps
<1> QED
  BY <1>1, <1>2, PTL DEF SourcesSpec

\* The blocks the handler of evm.Blocks was given and not taken back are one chain
\* without gaps that ends where the checkpoint says, whatever heads arrive and
\* wherever the worker fails (blocks.go, advance).
THEOREM OneChainCorrect == SourcesSpec => []BlocksApplyOneChain
<1>1. BlocksInv => BlocksApplyOneChain
  BY OneChain
<1> QED
  BY <1>1, BlocksInvariant, PTL

\* What trim dropped from the journal is canonical for good, so that every
\* reorganisation that can happen can be rolled back (blocks.go, trim).
THEOREM JournalCorrect == SourcesSpec => []JournalCoversReorganizations
<1>1. BlocksInv => JournalCoversReorganizations
  BY JournalCovers
<1> QED
  BY <1>1, BlocksInvariant, PTL

=============================================================================
