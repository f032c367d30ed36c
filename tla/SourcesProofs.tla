----------------------------- MODULE SourcesProofs -----------------------------
(***************************************************************************)
(* Theorems about solana.AddressEvents (AddressEvents.tla) and evm.Events  *)
(* (EvmEvents.tla) among the sources, for every value of the constants.    *)
(* Those about evm.Events need what concatenating the logs of a range of   *)
(* blocks yields, and where in the whole a cursor stands.                  *)
(***************************************************************************)
EXTENDS BlocksProofs, FiniteSetTheorems

-----------------------------------------------------------------------------
(* The Solana history *)

\* The ledger's order of two transactions.
Before(t, u) ==
    \/ SlotOf[t] < SlotOf[u]
    \/ SlotOf[t] = SlotOf[u] /\ IndexOf[t] < IndexOf[u]

\* Transactions are numbered in the ledger's order, not only from one to the next.
LEMMA HistoryOrder ==
    ASSUME NEW t \in Finalizable, NEW u \in Finalizable, t < u
    PROVE  Before(t, u)
<1> USE DEF Finalizable
<1>1. /\ MaxTx \in Nat
      /\ \A n \in 1..MaxTx : SlotOf[n] \in Nat /\ IndexOf[n] \in Nat
      /\ \A n \in 2..MaxTx : Before(n - 1, n)
  BY AddressAssumption DEF Before
<1> DEFINE S == {n \in 1..MaxTx : t < n /\ ~Before(t, n)}
<1>2. SUFFICES ASSUME S # {}
               PROVE  FALSE
  BY <1>1
<1>3. Min(S) \in S /\ \A n \in S : Min(S) <= n
  BY <1>1, <1>2, LeastOf
<1>4. PICK m \in S : \A n \in S : m <= n
  BY <1>3
<1>5. m \in 2..MaxTx /\ m - 1 \in 1..MaxTx /\ t <= m - 1
  BY <1>1, <1>4
<1>6. m - 1 \notin S
  BY <1>1, <1>4, <1>5
<1>7. t = m - 1 \/ Before(t, m - 1)
  BY <1>1, <1>5, <1>6
<1>8. Before(t, m)
  BY <1>1, <1>5, <1>7 DEF Before
<1> QED
  BY <1>4, <1>8

\* A slot has a first record at or after it.
LEMMA FirstRecord ==
    ASSUME NEW slot \in Nat
    PROVE  /\ FromSlot(slot) \in 1..(MaxTx + 1)
           /\ \A t \in Finalizable : t < FromSlot(slot) => SlotOf[t] < slot
<1> USE DEF Finalizable
<1>1. MaxTx \in Nat /\ \A n \in 1..MaxTx : SlotOf[n] \in Nat
  BY AddressAssumption
<1> DEFINE S == {n \in 1..(MaxTx + 1) : n <= MaxTx => SlotOf[n] >= slot}
<1>2. S \subseteq Nat /\ MaxTx + 1 \in S
  BY <1>1
<1>3. Min(S) \in S /\ \A n \in S : Min(S) <= n
  BY <1>2, LeastOf
<1>4. PICK m \in S : \A n \in S : m <= n
  BY <1>3
<1>5. \A t \in Finalizable : t < m => SlotOf[t] < slot
  <2> SUFFICES ASSUME NEW t \in 1..MaxTx, t < m
               PROVE  SlotOf[t] < slot
    OBVIOUS
  <2>1. t \notin S
    BY <1>1, <1>4
  <2> QED
    BY <1>1, <2>1
<1>6. \E n \in 1..(MaxTx + 1) :
        /\ \A t \in Finalizable : t < n => SlotOf[t] < slot
        /\ n <= MaxTx => SlotOf[n] >= slot
  BY <1>4, <1>5
<1> QED
  BY <1>6 DEF FromSlot

\* A cursor at a transaction has passed it and those before it, and what a cursor
\* has passed is an initial part of the history.
LEMMA CursorPasses ==
    ASSUME NEW t \in Finalizable, NEW u \in Finalizable
    PROVE  /\ CursorAt(t) \in AddressCursor
           /\ Beyond(u, CursorAt(t)) <=> t < u
           /\ \A c \in AddressCursor : t <= u /\ ~Beyond(u, c) => ~Beyond(t, c)
<1>1. /\ t \in Nat /\ u \in Nat
      /\ SlotOf[t] \in Nat /\ IndexOf[t] \in Nat
      /\ SlotOf[u] \in Nat /\ IndexOf[u] \in Nat
  BY AddressAssumption DEF Finalizable
<1>2. (t < u => Before(t, u)) /\ (u < t => Before(u, t))
  BY HistoryOrder
<1>3. CursorAt(t) \in AddressCursor
  BY <1>1 DEF CursorAt, AddressCursor
<1>4. Beyond(u, CursorAt(t)) <=> t < u
  BY <1>1, <1>2 DEF Beyond, CursorAt, Before
<1>5. ASSUME NEW c \in AddressCursor, t <= u, ~Beyond(u, c)
      PROVE  ~Beyond(t, c)
  <2>1. c.slot \in Nat /\ c.index \in Nat
    BY DEF AddressCursor
  <2> QED
    BY <1>1, <1>2, <1>5, <2>1 DEF Beyond, Before
<1> QED
  BY <1>3, <1>4, <1>5

-----------------------------------------------------------------------------
(* The invariant of the Solana source *)

Page == [from : 1..(MaxTx + 1), todo : Seq(Finalizable), full : BOOLEAN, dirty : BOOLEAN]

\* AddressTypeOK with the shapes of what it leaves out.
AddressShape ==
    /\ AddressTypeOK
    /\ IsFiniteSet(journal)
    /\ pushes \in Seq(Transactions)
    /\ {saved, tip, first} \subseteq AddressCursor \cup {NoSlot}
    /\ page \in Page

\* The rest of a page is what comes before the next one.
PageInOrder ==
    /\ stage # "page" => page.todo = <<>>
    /\ Len(page.todo) < page.from
    /\ \A i \in 1..Len(page.todo) : page.todo[i] = page.from - Len(page.todo) + i - 1

\* The cursor in memory is never behind the saved one, and both come with the
\* first.
CursorsInOrder ==
    /\ saved = NoSlot => stage \in {"none", "down"}
    /\ saved # NoSlot =>
        /\ tip # NoSlot /\ first # NoSlot
        /\ \A t \in Finalizable : ~Beyond(t, saved) => ~Beyond(t, tip)

\* Reading starts where the cursor is: nothing between is left out.
PageStartsAtTip ==
    stage \in {"fetch", "page"} =>
        \A t \in Finalizable : t < page.from - Len(page.todo) => ~Beyond(t, tip)

\* What the journal has was handled, so that the history may pass over it,
JournaledIsHandled == \A t \in journal \cap Updating : handled[t] >= 1

\* as it has over all that the cursor in memory has passed.
PassedIsHandled ==
    saved # NoSlot =>
        \A t \in Updating \cap Finalizable :
            Beyond(t, first) /\ ~Beyond(t, tip) => handled[t] >= 1

\* Of what was handled once the journal or the saved cursor knows.
HandledIsRemembered ==
    \A t \in (Updating \cap Finalizable) \ overdue :
        /\ handled[t] <= 1
        /\ handled[t] = 1 => t \in journal \/ (saved # NoSlot /\ ~Beyond(t, saved))

AddressInv ==
    /\ AddressShape
    /\ PageInOrder
    /\ CursorsInOrder
    /\ PageStartsAtTip
    /\ JournaledIsHandled
    /\ PassedIsHandled
    /\ HandledIsRemembered

\* What the constants are.
LEMMA AddressFacts ==
    /\ MaxTx \in Nat /\ PageSize \in Nat /\ PageSize > 0
    /\ MaxJournal \in Nat /\ MaxPushes \in Nat
    /\ Finalizable \subseteq Transactions /\ Transactions \subseteq Nat
    /\ Updating \subseteq Matching /\ Matching \subseteq Transactions
    /\ NoSlot \notin AddressCursor
    /\ AddressFrom \subseteq Nat \cup {NoSlot} /\ NoSlot \notin Nat
BY AddressAssumption DEF Finalizable, Transactions

LEMMA AddressInvInit ==
    ASSUME SourcesInit
    PROVE  AddressInv
<1>1. /\ final = 0 /\ saved = NoSlot /\ tip = NoSlot /\ first = NoSlot
      /\ journal = {} /\ pushes = <<>> /\ stage \in {"none", "down"} /\ page = NoPage
      /\ handled = [t \in Transactions |-> 0] /\ overdue = {}
  BY DEF SourcesInit, AddressInit, AddressAbsent
<1>2. IsFiniteSet(journal) /\ Cardinality(journal) = 0
  BY <1>1, FS_EmptySet
<1>3. page.from = 1 /\ page.todo = <<>> /\ page \in Page
  BY <1>1, AddressFacts DEF NoPage, Page
<1>4. AddressShape
  BY <1>1, <1>2, <1>3, AddressFacts DEF AddressShape, AddressTypeOK
<1>5. PageInOrder /\ PageStartsAtTip
  BY <1>1, <1>3 DEF PageInOrder, PageStartsAtTip
<1>6. CursorsInOrder /\ JournaledIsHandled /\ PassedIsHandled
  BY <1>1 DEF CursorsInOrder, JournaledIsHandled, PassedIsHandled
<1>7. HandledIsRemembered
  BY <1>1, AddressFacts DEF HandledIsRemembered
<1> QED
  BY <1>4, <1>5, <1>6, <1>7 DEF AddressInv

LEMMA AddressStill ==
    ASSUME AddressInv, UNCHANGED addressVars
    PROVE  AddressInv'
BY DEF addressVars, AddressInv, AddressShape, AddressTypeOK, PageInOrder, CursorsInOrder,
       PageStartsAtTip, JournaledIsHandled, PassedIsHandled, HandledIsRemembered, Beyond

\* The history grows, and transactions are pushed.
LEMMA AddressArrivalKeeps ==
    ASSUME AddressInv, Finalize \/ Push
    PROVE  AddressInv'
<1> USE AddressFacts
<1>1. /\ UNCHANGED <<saved, journal, tip, stage, page, first, handled, overdue>>
      /\ stage # "none"
  BY DEF Finalize, Push
<1>2. final' \in 0..MaxTx
  BY DEF Finalize, Push, AddressInv, AddressShape, AddressTypeOK
<1>3. pushes' \in Seq(Transactions) /\ Len(pushes') <= MaxPushes
  <2>1. pushes \in Seq(Transactions) /\ Len(pushes) <= MaxPushes /\ Len(pushes) \in Nat
    BY DEF AddressInv, AddressShape, AddressTypeOK
  <2> QED
    BY <2>1, AppendProperties DEF Finalize, Push
<1>4. AddressShape'
  BY <1>1, <1>2, <1>3 DEF AddressInv, AddressShape, AddressTypeOK
<1> QED
  BY <1>1, <1>4 DEF AddressInv, PageInOrder, CursorsInOrder, PageStartsAtTip,
     JournaledIsHandled, PassedIsHandled, HandledIsRemembered, Beyond

\* Reading starts over from a cursor.
LEMMA AddressReads ==
    ASSUME AddressInv, NEW c \in AddressCursor, CatchUpFrom(c), tip' = c
    PROVE  /\ page' \in Page
           /\ PageInOrder'
           /\ PageStartsAtTip'
<1> USE AddressFacts
<1>1. c.slot \in Nat /\ c.index \in Nat
  BY DEF AddressCursor
<1>2. /\ page' = [from |-> FromSlot(c.slot), todo |-> <<>>, full |-> FALSE, dirty |-> FALSE]
      /\ stage' = "fetch"
  BY DEF CatchUpFrom, NoPage
<1>3. /\ page' \in Page
      /\ page'.from \in 1..(MaxTx + 1)
      /\ \A t \in Finalizable : t < page'.from => SlotOf[t] < c.slot
  <2>1. /\ FromSlot(c.slot) \in 1..(MaxTx + 1)
        /\ \A t \in Finalizable : t < FromSlot(c.slot) => SlotOf[t] < c.slot
    BY <1>1, FirstRecord
  <2> QED
    BY <1>2, <2>1 DEF Page
<1>4. PageInOrder'
  BY <1>2, <1>3 DEF PageInOrder
<1>5. PageStartsAtTip'
  <2>1. \A t \in Finalizable : SlotOf[t] < c.slot => ~Beyond(t, c)
    BY <1>1, AddressAssumption DEF Beyond, Finalizable
  <2> QED
    BY <1>2, <1>3, <2>1 DEF PageStartsAtTip, Beyond
<1> QED
  BY <1>3, <1>4, <1>5

\* A worker starts from the saved cursor, which is its first if there was none.
LEMMA AddressStartsKeeps ==
    ASSUME AddressInv, AddressStarts
    PROVE  AddressInv'
<1> USE AddressFacts
<1>1. /\ stage = "down" /\ stage' = "fetch" /\ tip' = saved'
      /\ CatchUpFrom(saved')
      /\ UNCHANGED <<final, journal, pushes, handled, overdue>>
  BY DEF AddressStarts, LoadJournal, CatchUpFrom
<1>2. /\ saved' \in AddressCursor /\ first' \in AddressCursor
      /\ saved # NoSlot => saved' = saved /\ first' = first
      /\ saved = NoSlot => first' = saved'
  <2>1. CASE saved # NoSlot
    BY <2>1 DEF AddressStarts, AddressInv, AddressShape, CursorsInOrder
  <2>2. CASE saved = NoSlot
    <3>1. PICK from \in AddressFrom : saved' = StartCursor(from) /\ first' = saved'
      BY <2>2 DEF AddressStarts
    <3>2. StartCursor(from) \in AddressCursor
      <4>1. CASE from = NoSlot /\ final # 0
        <5>1. final \in Finalizable
          BY <4>1 DEF AddressInv, AddressShape, AddressTypeOK, Finalizable
        <5> QED
          BY <4>1, <5>1, CursorPasses DEF StartCursor
      <4>2. CASE from = NoSlot /\ final = 0
        BY <4>2 DEF StartCursor, AddressCursor
      <4>3. CASE from # NoSlot
        BY <4>3 DEF StartCursor, AddressCursor
      <4> QED
        BY <4>1, <4>2, <4>3
    <3> QED
      BY <2>2, <3>1, <3>2
  <2> QED
    BY <2>1, <2>2
<1>3. page' \in Page /\ PageInOrder' /\ PageStartsAtTip'
  BY <1>1, <1>2, AddressReads
<1>4. AddressShape'
  BY <1>1, <1>2, <1>3 DEF AddressInv, AddressShape, AddressTypeOK
<1>5. CursorsInOrder'
  BY <1>1, <1>2 DEF CursorsInOrder, Beyond
<1>6. JournaledIsHandled'
  BY <1>1 DEF AddressInv, JournaledIsHandled
<1>7. PassedIsHandled'
  <2>1. CASE saved # NoSlot
    BY <1>1, <1>2, <2>1 DEF AddressInv, PassedIsHandled, CursorsInOrder, Beyond
  <2>2. CASE saved = NoSlot
    BY <1>1, <1>2, <2>2 DEF PassedIsHandled, Beyond
  <2> QED
    BY <2>1, <2>2
<1>8. HandledIsRemembered'
  BY <1>1, <1>2 DEF AddressInv, HandledIsRemembered, Beyond
<1> QED
  BY <1>3, <1>4, <1>5, <1>6, <1>7, <1>8 DEF AddressInv

\* A worker that fails forgets what its cursor passed in memory.
LEMMA AddressFailsKeeps ==
    ASSUME AddressInv, AddressFails
    PROVE  AddressInv'
<1> USE AddressFacts
<1>1. /\ stage' = "down" /\ pushes' = <<>> /\ page' = NoPage /\ tip' = saved
      /\ UNCHANGED <<final, saved, journal, first, handled, overdue>>
  BY DEF AddressFails
<1>2. page'.from = 1 /\ page'.todo = <<>> /\ page' \in Page
  BY <1>1 DEF NoPage, Page
<1>3. AddressShape'
  BY <1>1, <1>2 DEF AddressInv, AddressShape, AddressTypeOK
<1>4. PageInOrder' /\ PageStartsAtTip'
  BY <1>1, <1>2 DEF PageInOrder, PageStartsAtTip
<1>5. CursorsInOrder'
  BY <1>1 DEF AddressInv, CursorsInOrder, Beyond
<1>6. PassedIsHandled'
  BY <1>1 DEF AddressInv, CursorsInOrder, PassedIsHandled, Beyond
<1>7. JournaledIsHandled' /\ HandledIsRemembered'
  BY <1>1 DEF AddressInv, JournaledIsHandled, HandledIsRemembered, Beyond
<1> QED
  BY <1>3, <1>4, <1>5, <1>6, <1>7 DEF AddressInv

\* The ticker, a fetched page, and the end of one.
LEMMA AddressPagesKeep ==
    ASSUME AddressInv, AddressTick \/ FetchPage \/ EndPage
    PROVE  AddressInv'
<1> USE AddressFacts
<1>1. UNCHANGED <<final, journal, tip, pushes, first, handled, overdue>>
  BY DEF AddressTick, FetchPage, EndPage
<1>2. /\ stage \in {"select", "fetch", "page"} /\ saved \in AddressCursor
      /\ tip \in AddressCursor
      /\ stage' \in {"select", "fetch", "page"} /\ saved' \in {saved, tip}
  BY DEF AddressTick, FetchPage, EndPage, CatchUpFrom, AddressInv, AddressShape, CursorsInOrder
<1>3. /\ page' \in Page
      /\ PageInOrder' /\ PageStartsAtTip'
  <2>1. CASE AddressTick
    BY <1>1, <1>2, <2>1, AddressReads DEF AddressTick
  <2>2. CASE FetchPage
    <3> DEFINE last == IF page.from + PageSize - 1 < final THEN page.from + PageSize - 1
                       ELSE final
               size == IF last < page.from THEN 0 ELSE last - page.from + 1
    <3>1. /\ page' = [from |-> page.from + size,
                      todo |-> [i \in 1..size |-> page.from + i - 1],
                      full |-> size = PageSize, dirty |-> FALSE]
          /\ stage = "fetch" /\ stage' = "page"
      BY <2>2 DEF FetchPage
    <3>2. /\ page.from \in Nat /\ page.from >= 1 /\ page.from <= MaxTx + 1
          /\ final \in Nat /\ final <= MaxTx
      BY DEF AddressInv, AddressShape, AddressTypeOK, Page
    <3>3. /\ size \in Nat /\ page.from + size <= MaxTx + 1
      BY <3>2
    <3> HIDE DEF size
    <3>4. /\ page'.from = page.from + size
          /\ page'.todo = [i \in 1..size |-> page.from + i - 1]
          /\ stage' = "page"
      BY <3>1
    <3>5. page'.todo \in Seq(Finalizable) /\ Len(page'.todo) = size
      <4>1. \A i \in 1..size : page.from + i - 1 \in Finalizable
        BY <3>2, <3>3 DEF Finalizable
      <4> QED
        BY <3>3, <3>4, <4>1
    <3>6. PageInOrder'
      BY <3>2, <3>3, <3>4, <3>5 DEF PageInOrder
    <3>7. PageStartsAtTip'
      <4>1. Len(page.todo) \in Nat
        BY DEF AddressInv, PageInOrder
      <4>2. \A t \in Finalizable : t < page.from - Len(page.todo) => ~Beyond(t, tip)
        BY <3>1 DEF AddressInv, PageStartsAtTip
      <4>3. page.todo = <<>>
        BY <3>1 DEF AddressInv, PageInOrder
      <4> QED
        BY <1>1, <3>2, <3>3, <3>4, <3>5, <4>1, <4>2, <4>3 DEF PageStartsAtTip, Beyond
    <3>8. page' \in Page
      BY <3>1, <3>2, <3>3, <3>4, <3>5 DEF Page
    <3> QED
      BY <3>6, <3>7, <3>8
  <2>3. CASE EndPage
    <3>1. /\ page' = IF page.full THEN page ELSE NoPage
          /\ stage' = IF page.full THEN "fetch" ELSE "select"
          /\ stage = "page" /\ page.todo = <<>>
      BY <2>3 DEF EndPage
    <3>2. CASE page.full
      BY <1>1, <3>1, <3>2 DEF AddressInv, AddressShape, PageInOrder, PageStartsAtTip, Beyond
    <3>3. CASE ~page.full
      BY <1>1, <3>1, <3>3 DEF PageInOrder, PageStartsAtTip, NoPage, Page
    <3> QED
      BY <3>2, <3>3
  <2> QED
    BY <2>1, <2>2, <2>3
<1>4. AddressShape'
  BY <1>1, <1>2, <1>3 DEF AddressInv, AddressShape, AddressTypeOK
<1>5. CursorsInOrder'
  BY <1>1, <1>2 DEF AddressInv, CursorsInOrder, Beyond
<1>6. JournaledIsHandled' /\ PassedIsHandled'
  BY <1>1, <1>2 DEF AddressInv, JournaledIsHandled, PassedIsHandled, Beyond
<1>7. HandledIsRemembered'
  BY <1>1, <1>2 DEF AddressInv, CursorsInOrder, HandledIsRemembered, Beyond
<1> QED
  BY <1>3, <1>4, <1>5, <1>6, <1>7 DEF AddressInv

\* A record of the history: passed already, handled when it was pushed, handled
\* now, or of no interest.
LEMMA HandleRecordKeeps ==
    ASSUME AddressInv, HandleRecord
    PROVE  AddressInv'
<1> USE AddressFacts
<1> DEFINE t == Head(page.todo)
<1>1. /\ stage = "page" /\ stage' = "page" /\ page.todo # <<>>
      /\ UNCHANGED <<final, pushes, first, overdue>>
      /\ page'.from = page.from /\ page'.todo = Tail(page.todo)
      /\ page' \in Page
  <2>1. page \in Page /\ page.todo \in Seq(Finalizable)
    BY DEF AddressInv, AddressShape, Page
  <2>2. page.todo # <<>>
    BY DEF HandleRecord
  <2>3. Tail(page.todo) \in Seq(Finalizable)
    BY <2>1, <2>2, TailOf
  <2>4. \/ page' = [page EXCEPT !.todo = Tail(page.todo)]
        \/ \E b \in BOOLEAN : page' = [page EXCEPT !.todo = Tail(page.todo), !.dirty = b]
    BY DEF HandleRecord
  <2>5. /\ page'.from = page.from /\ page'.todo = Tail(page.todo)
        /\ page' \in Page
    BY <2>1, <2>3, <2>4 DEF Page
  <2> QED
    BY <2>2, <2>5 DEF HandleRecord
<1>2. /\ t \in Finalizable /\ t = page.from - Len(page.todo)
      /\ page.from \in 1..(MaxTx + 1)
      /\ Len(page.todo) \in Nat /\ Len(page.todo) > 0
      /\ page'.todo \in Seq(Finalizable) /\ Len(page'.todo) = Len(page.todo) - 1
      /\ \A i \in 1..(Len(page.todo) - 1) : page'.todo[i] = page.todo[i + 1]
  <2>1. /\ page.todo \in Seq(Finalizable)
        /\ \A i \in 1..Len(page.todo) : page.todo[i] = page.from - Len(page.todo) + i - 1
        /\ page.from \in 1..(MaxTx + 1)
    BY <1>1 DEF AddressInv, AddressShape, PageInOrder, Page
  <2>2. /\ Len(page.todo) \in Nat /\ Len(page.todo) > 0
        /\ Head(page.todo) \in Finalizable /\ Head(page.todo) = page.todo[1]
        /\ Tail(page.todo) \in Seq(Finalizable)
        /\ Len(Tail(page.todo)) = Len(page.todo) - 1
        /\ \A i \in 1..(Len(page.todo) - 1) : Tail(page.todo)[i] = page.todo[i + 1]
    BY <1>1, <2>1, TailOf
  <2> QED
    BY <1>1, <2>1, <2>2
<1> HIDE DEF t
<1>3. PageInOrder'
  <2>1. \A i \in 1..Len(page.todo) : page.todo[i] = page.from - Len(page.todo) + i - 1
    BY DEF AddressInv, PageInOrder
  <2>2. Len(page.todo) < page.from
    BY DEF AddressInv, PageInOrder
  <2>3. \A i \in 1..(Len(page.todo) - 1) :
            page'.todo[i] = page.from - (Len(page.todo) - 1) + i - 1
    BY <1>2, <2>1
  <2> QED
    BY <1>1, <1>2, <2>2, <2>3 DEF PageInOrder
<1>4. \A u \in Finalizable : u < t => ~Beyond(u, tip)
  BY <1>1, <1>2 DEF AddressInv, PageStartsAtTip
<1>5. saved \in AddressCursor /\ tip \in AddressCursor /\ first \in AddressCursor
  BY <1>1 DEF AddressInv, AddressShape, CursorsInOrder
<1>6. t \in Nat /\ \A u \in Finalizable : u \in Nat
  BY <1>2 DEF Finalizable
<1>7. CASE ~Beyond(t, tip)
  <2>1. UNCHANGED <<saved, journal, tip, handled>>
    BY <1>7 DEF HandleRecord, t
  <2>2. AddressShape'
    BY <1>1, <1>2, <2>1 DEF AddressInv, AddressShape, AddressTypeOK
  <2>3. PageStartsAtTip'
    <3>1. \A u \in Finalizable : u < t + 1 => ~Beyond(u, tip)
      BY <1>4, <1>6, <1>7
    <3> QED
      BY <1>1, <1>2, <1>6, <2>1, <3>1 DEF PageStartsAtTip, Beyond
  <2> QED
    BY <1>1, <1>3, <2>1, <2>2, <2>3 DEF AddressInv, CursorsInOrder, JournaledIsHandled,
       PassedIsHandled, HandledIsRemembered, Beyond
<1>8. CASE Beyond(t, tip)
  <2>1. /\ tip' = CursorAt(t) /\ journal' = journal \ {t}
        /\ handled' = IF NeedsHandling(t) THEN [handled EXCEPT ![t] = @ + 1] ELSE handled
        /\ NeedsHandling(t) \/ t \in journal => saved' = CursorAt(t)
        /\ saved' \in {saved, CursorAt(t)}
    BY <1>8 DEF HandleRecord, t
  <2>2. /\ CursorAt(t) \in AddressCursor
        /\ \A u \in Finalizable : Beyond(u, CursorAt(t)) <=> t < u
    BY <1>2, CursorPasses
  <2>3. \A u \in Finalizable : ~Beyond(u, tip) => u < t
    <3> SUFFICES ASSUME NEW u \in Finalizable, ~Beyond(u, tip), ~(u < t)
                 PROVE  FALSE
      OBVIOUS
    <3>1. t <= u
      BY <1>6
    <3> QED
      BY <1>2, <1>5, <1>8, <3>1, CursorPasses
  <2>4. handled \in [Transactions -> Nat] /\ t \in Transactions
    BY <1>2 DEF AddressInv, AddressShape, AddressTypeOK
  <2>5. /\ handled' \in [Transactions -> Nat]
        /\ \A u \in Transactions : u # t => handled'[u] = handled[u]
        /\ handled'[t] = IF NeedsHandling(t) THEN handled[t] + 1 ELSE handled[t]
    BY <2>1, <2>4
  <2>6. AddressShape'
    <3>1. IsFiniteSet(journal) /\ Cardinality(journal) <= MaxJournal
      BY DEF AddressInv, AddressShape, AddressTypeOK
    <3>2. IsFiniteSet(journal') /\ Cardinality(journal') <= MaxJournal
      <4>1. journal' \subseteq journal
        BY <2>1
      <4>2. IsFiniteSet(journal') /\ Cardinality(journal') <= Cardinality(journal)
        BY <3>1, <4>1, FS_Subset
      <4>3. Cardinality(journal) \in Nat /\ Cardinality(journal') \in Nat
        BY <3>1, <4>2, FS_CardinalityType
      <4> QED
        BY <3>1, <4>2, <4>3
    <3> QED
      BY <1>1, <1>2, <2>1, <2>2, <2>5, <3>2 DEF AddressInv, AddressShape, AddressTypeOK
  <2>7. PageStartsAtTip'
    <3>1. \A u \in Finalizable : u < t + 1 => ~Beyond(u, CursorAt(t))
      BY <1>6, <2>2
    <3> QED
      BY <1>1, <1>2, <1>6, <2>1, <3>1 DEF PageStartsAtTip, Beyond
  <2>8. \A u \in Finalizable : ~Beyond(u, saved) => u < t
    BY <1>5, <2>3 DEF AddressInv, CursorsInOrder
  <2>9. CursorsInOrder'
    <3>1. \A u \in Finalizable : ~Beyond(u, saved) => ~Beyond(u, CursorAt(t))
      BY <1>6, <2>2, <2>8
    <3> QED
      BY <1>1, <1>5, <2>1, <2>2, <3>1 DEF CursorsInOrder, Beyond
  <2>10. JournaledIsHandled'
    BY <2>1, <2>4, <2>5, AddressFacts DEF AddressInv, JournaledIsHandled
  <2>11. PassedIsHandled'
    <3> SUFFICES ASSUME NEW u \in Updating \cap Finalizable, Beyond(u, first), u <= t
                 PROVE  handled'[u] >= 1
      BY <1>1, <1>6, <2>1, <2>2 DEF PassedIsHandled, Beyond
    <3>1. CASE u = t
      <4>1. CASE t \in journal
        BY <2>4, <2>5, <3>1, <4>1 DEF AddressInv, JournaledIsHandled, NeedsHandling
      <4>2. CASE t \notin journal
        BY <2>4, <2>5, <3>1, <4>2 DEF NeedsHandling
      <4> QED
        BY <4>1, <4>2
    <3>2. CASE u # t
      <4>1. u < t /\ ~Beyond(u, tip)
        BY <1>4, <1>6, <3>2
      <4>2. handled[u] >= 1
        BY <1>5, <4>1 DEF AddressInv, PassedIsHandled
      <4> QED
        BY <2>5, <3>2, <4>2
    <3> QED
      BY <3>1, <3>2
  <2>12. HandledIsRemembered'
    <3> SUFFICES ASSUME NEW u \in (Updating \cap Finalizable) \ overdue
                 PROVE  /\ handled'[u] <= 1
                        /\ handled'[u] = 1 => u \in journal' \/ ~Beyond(u, saved')
      BY <1>1, <1>5, <2>1, <2>2 DEF HandledIsRemembered, Beyond
    <3>1. /\ handled[u] \in Nat /\ handled[u] <= 1
          /\ handled[u] = 1 => u \in journal \/ ~Beyond(u, saved)
      BY <2>4 DEF AddressInv, HandledIsRemembered
    <3>2. CASE u = t
      <4>1. Beyond(t, saved)
        BY <1>2, <1>6, <2>8
      <4>2. ~Beyond(t, CursorAt(t))
        BY <1>2, <1>6, <2>2
      <4>3. CASE t \in journal
        BY <2>1, <2>4, <2>5, <3>1, <3>2, <4>2, <4>3 DEF NeedsHandling
      <4>4. CASE t \notin journal
        BY <2>1, <2>4, <2>5, <3>1, <3>2, <4>1, <4>2, <4>4 DEF NeedsHandling
      <4> QED
        BY <4>3, <4>4
    <3>3. CASE u # t
      <4>1. handled'[u] = handled[u] /\ (u \in journal => u \in journal')
        BY <2>1, <2>5, <3>3
      <4>2. ~Beyond(u, saved) => ~Beyond(u, saved')
        BY <1>6, <2>1, <2>2, <2>8
      <4> QED
        BY <3>1, <4>1, <4>2
    <3> QED
      BY <3>2, <3>3
  <2> QED
    BY <1>3, <2>6, <2>7, <2>9, <2>10, <2>11, <2>12 DEF AddressInv
<1> QED
  BY <1>7, <1>8

\* A push: handled and journaled, or left to the history.
LEMMA HandlePushKeeps ==
    ASSUME AddressInv, HandlePush
    PROVE  AddressInv'
<1> USE AddressFacts
<1> DEFINE t == Head(pushes)
<1>1. /\ stage = "select" /\ pushes # <<>> /\ pushes' = Tail(pushes)
      /\ UNCHANGED <<final, saved, tip, stage, page, first>>
  BY DEF HandlePush
<1>2. /\ t \in Transactions /\ pushes' \in Seq(Transactions)
      /\ Len(pushes') <= MaxPushes
  <2>1. pushes \in Seq(Transactions) /\ Len(pushes) <= MaxPushes
    BY DEF AddressInv, AddressShape, AddressTypeOK
  <2>2. /\ Len(pushes) \in Nat /\ Len(pushes) > 0
        /\ Head(pushes) \in Transactions
        /\ Tail(pushes) \in Seq(Transactions) /\ Len(Tail(pushes)) = Len(pushes) - 1
    BY <1>1, <2>1, TailOf
  <2> QED
    BY <1>1, <2>1, <2>2
<1>3. handled \in [Transactions -> Nat] /\ saved # NoSlot
  BY <1>1 DEF AddressInv, AddressShape, AddressTypeOK, CursorsInOrder
<1>4. PageInOrder' /\ CursorsInOrder' /\ PageStartsAtTip'
  BY <1>1 DEF AddressInv, PageInOrder, CursorsInOrder, PageStartsAtTip, Beyond
<1> HIDE DEF t
<1>5. CASE UNCHANGED <<journal, handled, overdue>>
  <2>1. AddressShape'
    BY <1>1, <1>2, <1>5 DEF AddressInv, AddressShape, AddressTypeOK
  <2> QED
    BY <1>1, <1>4, <1>5, <2>1 DEF AddressInv, JournaledIsHandled, PassedIsHandled,
       HandledIsRemembered, Beyond
<1>6. CASE ~UNCHANGED <<journal, handled, overdue>>
  <2>1. /\ t \notin journal /\ t \in Matching /\ ~JournalFull
        /\ journal' = journal \cup {t}
        /\ handled' = IF t \in Updating THEN [handled EXCEPT ![t] = @ + 1] ELSE handled
        /\ overdue' = overdue \cup {s \in {t} \cap Finalizable : ~Beyond(s, tip)}
    BY <1>6 DEF HandlePush, t
  <2>2. /\ handled' \in [Transactions -> Nat]
        /\ \A u \in Transactions : u # t => handled'[u] = handled[u]
        /\ handled'[t] = IF t \in Updating THEN handled[t] + 1 ELSE handled[t]
    BY <1>2, <1>3, <2>1
  <2>3. AddressShape'
    <3>1. IsFiniteSet(journal) /\ Cardinality(journal) \in Nat /\ Cardinality(journal) < MaxJournal
      <4>1. IsFiniteSet(journal)
        BY DEF AddressInv, AddressShape
      <4>2. Cardinality(journal) \in Nat
        BY <4>1, FS_CardinalityType
      <4> QED
        BY <2>1, <4>1, <4>2 DEF JournalFull
    <3>2. IsFiniteSet(journal') /\ Cardinality(journal') = Cardinality(journal) + 1
      BY <2>1, <3>1, FS_AddElement
    <3>3. Cardinality(journal') <= MaxJournal
      BY <3>1, <3>2
    <3> QED
      BY <1>1, <1>2, <2>1, <2>2, <3>2, <3>3 DEF AddressInv, AddressShape, AddressTypeOK
  <2>4. \A u \in Transactions : handled[u] \in Nat /\ handled'[u] >= handled[u]
    BY <1>2, <1>3, <2>2
  <2>5. JournaledIsHandled'
    <3> SUFFICES ASSUME NEW u \in journal' \cap Updating
                 PROVE  handled'[u] >= 1
      BY DEF JournaledIsHandled
    <3>1. u \in Transactions
      OBVIOUS
    <3> QED
      BY <1>3, <2>1, <2>2, <3>1 DEF AddressInv, JournaledIsHandled
  <2>6. PassedIsHandled'
    <3> SUFFICES ASSUME NEW u \in Updating \cap Finalizable, Beyond(u, first), ~Beyond(u, tip)
                 PROVE  handled'[u] >= 1
      BY <1>1 DEF PassedIsHandled, Beyond
    <3>1. handled[u] >= 1
      BY <1>3 DEF AddressInv, PassedIsHandled
    <3>2. handled[u] \in Nat /\ handled'[u] \in Nat /\ handled'[u] >= handled[u]
      BY <2>2, <2>4
    <3> QED
      BY <3>1, <3>2
  <2>7. HandledIsRemembered'
    <3> SUFFICES ASSUME NEW u \in (Updating \cap Finalizable) \ overdue'
                 PROVE  /\ handled'[u] <= 1
                        /\ handled'[u] = 1 => u \in journal' \/ ~Beyond(u, saved)
      BY <1>1, <1>3 DEF HandledIsRemembered, Beyond
    <3>1. /\ handled[u] \in Nat /\ handled[u] <= 1
          /\ handled[u] = 1 => u \in journal \/ ~Beyond(u, saved)
      BY <1>3, <2>1 DEF AddressInv, HandledIsRemembered
    <3>2. CASE u = t
      <4>1. Beyond(t, tip)
        BY <2>1, <3>2
      <4>2. Beyond(t, saved)
        BY <1>3, <3>2, <4>1 DEF AddressInv, CursorsInOrder
      <4>3. handled[t] = 0
        BY <2>1, <3>1, <3>2, <4>2
      <4> QED
        BY <2>1, <2>2, <3>2, <4>3
    <3>3. CASE u # t
      BY <2>1, <2>2, <3>1, <3>3
    <3> QED
      BY <3>2, <3>3
  <2> QED
    BY <1>4, <2>3, <2>5, <2>6, <2>7 DEF AddressInv
<1> QED
  BY <1>5, <1>6

\* What a step of any source keeps.
LEMMA AddressStepKeeps ==
    ASSUME AddressInv, [SourcesNext]_sourceVars
    PROVE  AddressInv'
<1>1. CASE AddressNext
  BY <1>1, AddressArrivalKeeps, AddressStartsKeeps, AddressFailsKeeps, AddressPagesKeep,
     HandleRecordKeeps, HandlePushKeeps DEF AddressNext
<1>2. CASE UNCHANGED addressVars
  BY <1>2, AddressStill
<1> QED
  BY <1>1, <1>2 DEF SourcesNext, sourceVars

\* What the checkpoint of solana.AddressEvents, its cursor in memory, its journal
\* and the page in hand say of each other (events.go, catchUp and handleRecord).
THEOREM AddressInvariant == SourcesSpec => []AddressInv
<1>1. SourcesInit => AddressInv
  BY AddressInvInit
<1>2. AddressInv /\ [SourcesNext]_sourceVars => AddressInv'
  BY AddressStepKeeps
<1> QED
  BY <1>1, <1>2, PTL DEF SourcesSpec

\* Every update of the finalized history up to the saved cursor was committed,
\* wherever the worker was cut (events.go, handleRecord and catchUp).
THEOREM HistoryCorrect == SourcesSpec => []HistoryNotSkipped
<1>1. AddressInv => HistoryNotSkipped
  <2> SUFFICES ASSUME AddressInv, NEW t \in Updating \cap 1..final, saved # NoSlot,
                      Beyond(t, first), ~Beyond(t, saved)
               PROVE  handled[t] >= 1
    BY DEF HistoryNotSkipped
  <2>1. t \in Finalizable
    BY AddressFacts DEF AddressInv, AddressShape, AddressTypeOK, Finalizable
  <2> QED
    BY <2>1 DEF AddressInv, CursorsInOrder, PassedIsHandled
<1> QED
  BY <1>1, AddressInvariant, PTL

\* Only a push that came when the history had passed its transaction is handled a
\* second time (events.go, handleNotification).
THEOREM TwiceCorrect == SourcesSpec => []HandledTwiceWasOverdue
<1>1. AddressInv => HandledTwiceWasOverdue
  <2> SUFFICES ASSUME AddressInv, NEW t \in Updating \cap Finalizable, handled[t] >= 2,
                      t \notin overdue
               PROVE  FALSE
    BY DEF HandledTwiceWasOverdue
  <2>1. handled[t] \in Nat
    BY AddressFacts DEF AddressInv, AddressShape, AddressTypeOK
  <2>2. handled[t] <= 1
    BY DEF AddressInv, HandledIsRemembered
  <2> QED
    BY <2>1, <2>2
<1> QED
  BY <1>1, AddressInvariant, PTL

-----------------------------------------------------------------------------
(* Concatenating a sequence of sequences *)


\* The partial concatenations of a sequence of sequences.
Partial(f, ss) ==
    f = [i \in 1..Len(ss) |-> IF i = 1 THEN ss[i] ELSE f[i - 1] \o ss[i]]

LEMMA FlattenIs ==
    ASSUME NEW ss
    PROVE  FlattenSeq(ss) = IF Len(ss) = 0 THEN ss ELSE (CHOOSE f : Partial(f, ss))[Len(ss)]
BY DEF FlattenSeq, Partial

\* There are partial concatenations.
LEMMA PartialExists ==
    ASSUME NEW S, NEW ss \in Seq(Seq(S))
    PROVE  \E f : Partial(f, ss)
<1> DEFINE Good(n, f) == /\ f \in [1..n -> Seq(S)]
                         /\ \A i \in 1..n : f[i] = IF i = 1 THEN ss[i] ELSE f[i - 1] \o ss[i]
           Bad == {n \in 0..Len(ss) : ~(\E f : Good(n, f))}
<1>1. Len(ss) \in Nat /\ \A i \in 1..Len(ss) : ss[i] \in Seq(S)
  OBVIOUS
<1>2. Bad = {}
  <2> SUFFICES ASSUME Bad # {}
               PROVE  FALSE
    OBVIOUS
  <2>1. Bad \subseteq Nat
    BY <1>1
  <2>2. PICK m \in Bad : \A n \in Bad : m <= n
    BY <2>1, LeastOf
  <2>3. m \in 0..Len(ss) /\ m \in Nat
    BY <1>1, <2>2
  <2>4. m # 0
    <3> DEFINE z == [i \in 1..0 |-> ss]
    <3>1. z \in [1..0 -> Seq(S)] /\ 1..0 = {}
      OBVIOUS
    <3> HIDE DEF z
    <3>2. Good(0, z)
      BY <3>1
    <3>3. \E f : Good(0, f)
      BY <3>2
    <3>4. ~(\E f : Good(m, f))
      BY <2>2
    <3> HIDE DEF Good
    <3> QED
      BY <3>3, <3>4
  <2>5. m - 1 \in 0..Len(ss) /\ m - 1 \notin Bad
    <3>1. m - 1 \in 0..Len(ss) /\ ~(m <= m - 1)
      BY <1>1, <2>3, <2>4
    <3> HIDE DEF Bad
    <3> QED
      BY <2>2, <3>1
  <2>6. PICK f : Good(m - 1, f)
    <3> HIDE DEF Good
    <3> QED
      BY <2>5
  <2> DEFINE e == IF m = 1 THEN ss[m] ELSE f[m - 1] \o ss[m]
             g == [i \in 1..m |-> IF i = m THEN e ELSE f[i]]
  <2>7. e \in Seq(S)
    <3>1. ss[m] \in Seq(S)
      BY <1>1, <2>3, <2>4
    <3>2. m # 1 => f[m - 1] \in Seq(S)
      BY <2>3, <2>4, <2>6
    <3> QED
      BY <3>1, <3>2, ConcatProperties
  <2>8. Good(m, g)
    <3>1. g \in [1..m -> Seq(S)]
      BY <2>3, <2>6, <2>7
    <3>2. ASSUME NEW i \in 1..m
          PROVE  g[i] = IF i = 1 THEN ss[i] ELSE g[i - 1] \o ss[i]
      <4>1. CASE i = m
        <5>1. g[i] = e
          BY <4>1
        <5>2. i # 1 => i - 1 \in 1..m /\ i - 1 # m /\ g[i - 1] = f[i - 1]
          BY <2>3, <4>1
        <5>3. g[m] = IF m = 1 THEN ss[m] ELSE g[m - 1] \o ss[m]
          BY <4>1, <5>1, <5>2
        <5> HIDE DEF g
        <5> QED
          BY <4>1, <5>3
      <4>2. CASE i # m
        <5>1. i \in 1..(m - 1) /\ (i # 1 => i - 1 \in 1..(m - 1))
          BY <2>3, <4>2
        <5>2. g[i] = f[i] /\ (i # 1 => g[i - 1] = f[i - 1])
          <6>1. i \in 1..m /\ (i # 1 => i - 1 \in 1..m /\ i - 1 # m)
            BY <2>3, <4>2, <5>1
          <6> QED
            BY <4>2, <6>1
        <5>3. f[i] = IF i = 1 THEN ss[i] ELSE f[i - 1] \o ss[i]
          BY <2>6, <5>1
        <5> HIDE DEF g
        <5> QED
          BY <5>2, <5>3
      <4> QED
        BY <4>1, <4>2
    <3> HIDE DEF g
    <3> QED
      BY <3>1, <3>2
  <2> QED
    BY <2>2, <2>8
<1>3. Len(ss) \notin Bad
  BY <1>2
<1>4. PICK f : Good(Len(ss), f)
  BY <1>1, <1>3
<1>5. Partial(f, ss)
  BY <1>1, <1>4 DEF Partial
<1> QED
  BY <1>5

\* What they are.
LEMMA PartialOf ==
    ASSUME NEW S, NEW ss \in Seq(Seq(S)), NEW f, Partial(f, ss)
    PROVE  \A i \in 1..Len(ss) : /\ f[i] \in Seq(S)
                                 /\ f[i] = IF i = 1 THEN ss[i] ELSE f[i - 1] \o ss[i]
<1>1. Len(ss) \in Nat /\ \A i \in 1..Len(ss) : ss[i] \in Seq(S)
  OBVIOUS
<1>2. \A i \in 1..Len(ss) : f[i] = IF i = 1 THEN ss[i] ELSE f[i - 1] \o ss[i]
  BY DEF Partial
<1> DEFINE Bad == {i \in 1..Len(ss) : f[i] \notin Seq(S)}
<1>3. Bad = {}
  <2> SUFFICES ASSUME Bad # {}
               PROVE  FALSE
    OBVIOUS
  <2>1. Bad \subseteq Nat
    BY <1>1
  <2>2. PICK m \in Bad : \A n \in Bad : m <= n
    BY <2>1, LeastOf
  <2>3. CASE m = 1
    BY <1>1, <1>2, <2>2, <2>3
  <2>4. CASE m # 1
    <3>1. m - 1 \in 1..Len(ss) /\ m - 1 \notin Bad
      BY <1>1, <2>2, <2>4
    <3>2. f[m - 1] \in Seq(S) /\ ss[m] \in Seq(S) /\ f[m] = f[m - 1] \o ss[m]
      BY <1>1, <1>2, <2>2, <2>4, <3>1
    <3> QED
      BY <2>2, <3>2, ConcatProperties
  <2> QED
    BY <2>3, <2>4
<1> QED
  BY <1>2, <1>3

\* Appending a sequence leaves the partial concatenations before it.
LEMMA PartialAgrees ==
    ASSUME NEW S, NEW ss \in Seq(Seq(S)), NEW t \in Seq(S),
           NEW f, Partial(f, ss), NEW g, Partial(g, Append(ss, t))
    PROVE  \A i \in 1..Len(ss) : g[i] = f[i]
<1> DEFINE tt == Append(ss, t)
<1>1. /\ Len(ss) \in Nat /\ tt \in Seq(Seq(S)) /\ Len(tt) = Len(ss) + 1
      /\ \A i \in 1..Len(ss) : tt[i] = ss[i]
  BY AppendProperties
<1>2. Partial(g, tt)
  OBVIOUS
<1> HIDE DEF tt
<1>3. \A i \in 1..Len(ss) : /\ f[i] = IF i = 1 THEN ss[i] ELSE f[i - 1] \o ss[i]
                            /\ g[i] = IF i = 1 THEN ss[i] ELSE g[i - 1] \o ss[i]
  <2>1. \A i \in 1..Len(ss) : i \in 1..Len(tt)
    BY <1>1
  <2>2. \A i \in 1..Len(tt) : g[i] = IF i = 1 THEN tt[i] ELSE g[i - 1] \o tt[i]
    BY <1>2 DEF Partial
  <2>3. \A i \in 1..Len(ss) : f[i] = IF i = 1 THEN ss[i] ELSE f[i - 1] \o ss[i]
    BY PartialOf
  <2>4. \A i \in 1..Len(ss) : tt[i] = ss[i]
    BY <1>1
  <2> QED
    BY <2>1, <2>2, <2>3, <2>4
<1> DEFINE Bad == {i \in 1..Len(ss) : g[i] # f[i]}
<1>4. Bad = {}
  <2> SUFFICES ASSUME Bad # {}
               PROVE  FALSE
    OBVIOUS
  <2>1. Bad \subseteq Nat
    BY <1>1
  <2>2. PICK m \in Bad : \A n \in Bad : m <= n
    BY <2>1, LeastOf
  <2>3. CASE m = 1
    BY <1>3, <2>2, <2>3
  <2>4. CASE m # 1
    <3>1. m - 1 \in 1..Len(ss) /\ m - 1 \notin Bad
      BY <1>1, <2>2, <2>4
    <3>2. g[m - 1] = f[m - 1] /\ m \in 1..Len(ss)
      BY <2>2, <3>1
    <3>3. f[m] = f[m - 1] \o ss[m] /\ g[m] = g[m - 1] \o ss[m]
      BY <1>3, <2>4, <3>2
    <3> QED
      BY <2>2, <3>2, <3>3
  <2> QED
    BY <2>3, <2>4
<1> QED
  BY <1>4

\* FlattenSeq concatenates the sequences of a sequence in order.
LEMMA Flatten ==
    ASSUME NEW S, NEW ss \in Seq(Seq(S)), NEW t \in Seq(S)
    PROVE  /\ FlattenSeq(ss) \in Seq(S)
           /\ FlattenSeq(Append(ss, t)) = FlattenSeq(ss) \o t
<1> DEFINE tt == Append(ss, t)
           f == CHOOSE x : Partial(x, ss)
           g == CHOOSE x : Partial(x, tt)
<1>1. /\ Len(ss) \in Nat /\ tt \in Seq(Seq(S)) /\ Len(tt) = Len(ss) + 1
      /\ tt[Len(ss) + 1] = t
      /\ \A i \in 1..Len(ss) : ss[i] \in Seq(S)
  BY AppendProperties
<1>2. Partial(f, ss)
  <2>1. \E x : Partial(x, ss)
    BY PartialExists
  <2> QED
    BY <2>1
<1>3. Partial(g, tt)
  <2>1. \E x : Partial(x, tt)
    BY <1>1, PartialExists
  <2> QED
    BY <2>1
<1>4. FlattenSeq(ss) = IF Len(ss) = 0 THEN ss ELSE f[Len(ss)]
  BY FlattenIs
<1>5. FlattenSeq(tt) = g[Len(ss) + 1]
  <2>1. FlattenSeq(tt) = IF Len(tt) = 0 THEN tt ELSE g[Len(tt)]
    BY FlattenIs
  <2>2. Len(tt) # 0 /\ Len(tt) = Len(ss) + 1
    BY <1>1
  <2> HIDE DEF tt, g
  <2> QED
    BY <2>1, <2>2
<1>6. \A i \in 1..Len(ss) : g[i] = f[i]
  BY <1>2, <1>3, PartialAgrees
<1> HIDE DEF f, g, tt
<1>7. FlattenSeq(ss) \in Seq(S)
  <2>1. CASE Len(ss) = 0
    <3>1. ss = <<>>
      BY <2>1, EmptySeq
    <3> QED
      BY <1>4, <2>1, <3>1
  <2>2. CASE Len(ss) # 0
    <3>1. Len(ss) \in 1..Len(ss)
      BY <1>1, <2>2
    <3> QED
      BY <1>2, <1>4, <2>2, <3>1, PartialOf
  <2> QED
    BY <2>1, <2>2
<1>8. g[Len(ss) + 1] = IF Len(ss) + 1 = 1 THEN t ELSE g[Len(ss)] \o t
  <2>1. Len(ss) + 1 \in 1..Len(tt) /\ Len(ss) + 1 - 1 = Len(ss)
    BY <1>1
  <2>2. \A i \in 1..Len(tt) : g[i] = IF i = 1 THEN tt[i] ELSE g[i - 1] \o tt[i]
    BY <1>1, <1>3, PartialOf
  <2> QED
    BY <1>1, <2>1, <2>2
<1>9. FlattenSeq(tt) = FlattenSeq(ss) \o t
  <2>1. CASE Len(ss) = 0
    <3>1. FlattenSeq(ss) = <<>>
      BY <1>4, <2>1, EmptySeq
    <3>2. FlattenSeq(tt) = t
      BY <1>5, <1>8, <2>1
    <3> QED
      BY <3>1, <3>2, ConcatEmptySeq
  <2>2. CASE Len(ss) # 0
    <3>1. Len(ss) \in 1..Len(ss) /\ Len(ss) + 1 # 1
      BY <1>1, <2>2
    <3> QED
      BY <1>4, <1>5, <1>6, <1>8, <2>2, <3>1
  <2> QED
    BY <2>1, <2>2
<1> QED
  BY <1>7, <1>9 DEF tt

-----------------------------------------------------------------------------
(* The logs of a range of blocks *)

\* What holds of a number and of the one after each it holds of, up to a bound,
\* holds of the bound.
LEMMA Ascend ==
    ASSUME NEW S, NEW a \in Nat, NEW b \in Nat, a <= b, a \in S,
           \A n \in a..(b - 1) : n \in S => n + 1 \in S
    PROVE  b \in S
<1> DEFINE Bad == {n \in a..b : n \notin S}
<1> SUFFICES ASSUME b \notin S
             PROVE  FALSE
  OBVIOUS
<1>1. Bad \subseteq Nat /\ b \in Bad
  OBVIOUS
<1>2. PICK m \in Bad : \A n \in Bad : m <= n
  BY <1>1, LeastOf
<1>3. m \in a..b /\ m \notin S /\ m # a
  BY <1>2
<1>4. m - 1 \in a..(b - 1) /\ ~(m <= m - 1)
  BY <1>3
<1>5. m - 1 \in S
  BY <1>2, <1>4
<1>6. m - 1 + 1 \in S /\ m - 1 + 1 = m
  BY <1>3, <1>4, <1>5
<1> QED
  BY <1>3, <1>6

Log == [block : AllBlocks, index : Nat]

\* LogsOfBlocks on a chain, for the blocks from a up to but not n.
LogsOn(ch, a, n) ==
    FlattenSeq([m \in 1..(IF n - 1 < a THEN 0 ELSE n - 1 - a + 1) |->
                    LogsOf(SubSeq(ch, 1, a + m - 1))])

LEMMA LogsOfBlock ==
    ASSUME NEW block \in AllBlocks
    PROVE  /\ LogsOf(block) \in Seq(Log)
           /\ Len(LogsOf(block)) \in Nat
           /\ \A i \in 1..Len(LogsOf(block)) : LogsOf(block)[i] = [block |-> block, index |-> i]
<1>1. CASE block = <<>>
  BY <1>1 DEF LogsOf
<1>2. CASE block # <<>>
  <2> DEFINE k == IF Last(block) \in Rich THEN 2 ELSE 1
  <2>1. LogsOf(block) = [i \in 1..k |-> [block |-> block, index |-> i]] /\ k \in Nat
    BY <1>2 DEF LogsOf
  <2> HIDE DEF k
  <2>2. \A i \in 1..k : [block |-> block, index |-> i] \in Log
    BY <2>1 DEF Log
  <2> QED
    BY <2>1, <2>2
<1> QED
  BY <1>1, <1>2

\* Without blocks there are none, and each block adds its own at the end.
LEMMA LogsOnStep ==
    ASSUME NEW ch \in AllBlocks, NEW a \in Nat, NEW n \in Nat, a <= n
    PROVE  /\ LogsOn(ch, a, a) = <<>>
           /\ n <= Len(ch) + 1 => LogsOn(ch, a, n) \in Seq(Log)
           /\ n <= Len(ch) =>
                LogsOn(ch, a, n + 1) = LogsOn(ch, a, n) \o LogsOf(SubSeq(ch, 1, n))
<1> DEFINE Answers(k) == [m \in 1..k |-> LogsOf(SubSeq(ch, 1, a + m - 1))]
<1>1. Len(ch) \in Nat
  BY Numbers
<1>2. \A m \in 0..Len(ch) : LogsOf(SubSeq(ch, 1, m)) \in Seq(Log)
  BY Ancestors, LogsOfBlock
<1>3. ASSUME NEW k \in Nat, a + k <= Len(ch) + 1
      PROVE  Answers(k) \in Seq(Seq(Log)) /\ Len(Answers(k)) = k
  <2>1. \A m \in 1..k : LogsOf(SubSeq(ch, 1, a + m - 1)) \in Seq(Log)
    <3> SUFFICES ASSUME NEW m \in 1..k
                 PROVE  LogsOf(SubSeq(ch, 1, a + m - 1)) \in Seq(Log)
      OBVIOUS
    <3>1. a + m - 1 \in 0..Len(ch)
      BY <1>1, <1>3
    <3> QED
      BY <1>2, <3>1
  <2> QED
    BY <2>1
<1>4. ASSUME NEW m \in Nat, a <= m
      PROVE  LogsOn(ch, a, m) = FlattenSeq(Answers(m - a))
  <2>1. (IF m - 1 < a THEN 0 ELSE m - 1 - a + 1) = m - a
    BY <1>4
  <2> QED
    BY <2>1 DEF LogsOn
<1>5. LogsOn(ch, a, a) = <<>>
  <2>1. LogsOn(ch, a, a) = FlattenSeq(Answers(0))
    <3> HIDE DEF Answers
    <3>1. LogsOn(ch, a, a) = FlattenSeq(Answers(a - a))
      BY <1>4
    <3>2. a - a = 0
      OBVIOUS
    <3> QED
      BY <3>1, <3>2
  <2>2. Len(Answers(0)) = 0 /\ Answers(0) = <<>>
    OBVIOUS
  <2> HIDE DEF Answers
  <2>3. FlattenSeq(Answers(0)) = Answers(0)
    BY <2>2, FlattenIs
  <2> QED
    BY <2>1, <2>2, <2>3
<1>6. ASSUME n <= Len(ch) + 1
      PROVE  LogsOn(ch, a, n) \in Seq(Log)
  <2> DEFINE k == n - a
  <2>1. k \in Nat /\ a + k <= Len(ch) + 1
    BY <1>6
  <2> HIDE DEF Answers, k
  <2>2. Answers(k) \in Seq(Seq(Log))
    BY <1>3, <2>1
  <2>3. FlattenSeq(Answers(k)) \in Seq(Log)
    <3>1. <<>> \in Seq(Log)
      OBVIOUS
    <3> QED
      BY <2>2, <3>1, Flatten
  <2> QED
    BY <1>4, <2>3 DEF k
<1>7. ASSUME n <= Len(ch)
      PROVE  LogsOn(ch, a, n + 1) = LogsOn(ch, a, n) \o LogsOf(SubSeq(ch, 1, n))
  <2> DEFINE k == n - a
             t == LogsOf(SubSeq(ch, 1, n))
  <2>1. /\ k \in Nat /\ a + k = n /\ a + (k + 1) <= Len(ch) + 1
        /\ a + k <= Len(ch) + 1 /\ (n + 1) - a = k + 1
        /\ n \in 0..Len(ch)
    BY <1>1, <1>7
  <2> HIDE DEF k
  <2>2. /\ Answers(k) \in Seq(Seq(Log)) /\ Len(Answers(k)) = k
        /\ Answers(k + 1) \in Seq(Seq(Log)) /\ Len(Answers(k + 1)) = k + 1
    <3>1. k + 1 \in Nat
      BY <2>1
    <3> QED
      BY <1>3, <2>1, <3>1
  <2>3. t \in Seq(Log)
    BY <1>2, <2>1
  <2>4. Answers(k + 1) = Append(Answers(k), t)
    <3>1. /\ Append(Answers(k), t) \in Seq(Seq(Log))
          /\ Len(Append(Answers(k), t)) = k + 1
          /\ \A i \in 1..k : Append(Answers(k), t)[i] = Answers(k)[i]
          /\ Append(Answers(k), t)[k + 1] = t
      <4> HIDE DEF Answers, t
      <4> QED
        BY <2>2, <2>3, AppendProperties
    <3>2. \A i \in 1..k : Answers(k + 1)[i] = Answers(k)[i]
      BY <2>1
    <3>3. Answers(k + 1)[k + 1] = t
      <4>1. k + 1 \in 1..(k + 1) /\ a + (k + 1) - 1 = n
        BY <2>1
      <4> QED
        BY <4>1
    <3>4. \A i \in 1..(k + 1) : Answers(k + 1)[i] = Append(Answers(k), t)[i]
      <4> HIDE DEF Answers, t
      <4> QED
        BY <2>1, <3>1, <3>2, <3>3
    <3> HIDE DEF Answers, t
    <3> QED
      BY <2>2, <3>1, <3>4, SeqEqual
  <2> HIDE DEF Answers, t
  <2>5. FlattenSeq(Answers(k + 1)) = FlattenSeq(Answers(k)) \o t
    BY <2>2, <2>3, <2>4, Flatten
  <2>6. LogsOn(ch, a, n + 1) = FlattenSeq(Answers(k + 1))
    BY <1>4, <2>1
  <2>7. LogsOn(ch, a, n) = FlattenSeq(Answers(k))
    BY <1>4 DEF k
  <2> QED
    BY <2>5, <2>6, <2>7 DEF t
<1> QED
  BY <1>5, <1>6, <1>7

\* Concatenation is associative.
LEMMA Reassociate ==
    ASSUME NEW S, NEW x \in Seq(S), NEW y \in Seq(S), NEW z \in Seq(S)
    PROVE  (x \o y) \o z = x \o (y \o z)
BY ConcatAssociative

\* A range can be cut in two anywhere.
LEMMA LogsOnSplit ==
    ASSUME NEW ch \in AllBlocks, NEW a \in Nat, NEW n \in Nat, NEW to \in Nat,
           a <= n, n <= to, to <= Len(ch) + 1
    PROVE  LogsOn(ch, a, to) = LogsOn(ch, a, n) \o LogsOn(ch, n, to)
<1> DEFINE S == {k \in Nat : LogsOn(ch, a, k) = LogsOn(ch, a, n) \o LogsOn(ch, n, k)}
<1>1. Len(ch) \in Nat
  BY Numbers
<1>2. LogsOn(ch, a, n) \in Seq(Log)
  <2>1. n <= Len(ch) + 1
    BY <1>1
  <2> QED
    BY <2>1, LogsOnStep
<1>3. n \in S
  <2>1. LogsOn(ch, n, n) = <<>>
    BY LogsOnStep
  <2> QED
    BY <1>2, <2>1, ConcatEmptySeq
<1>4. ASSUME NEW k \in n..(to - 1), k \in S
      PROVE  k + 1 \in S
  <2> DEFINE t == LogsOf(SubSeq(ch, 1, k))
  <2>1. /\ k \in Nat /\ k + 1 \in Nat /\ a <= k /\ n <= k
        /\ k <= Len(ch) /\ k <= Len(ch) + 1 /\ k \in 0..Len(ch)
    BY <1>1
  <2>2. LogsOn(ch, a, k + 1) = LogsOn(ch, a, k) \o t
    BY <2>1, LogsOnStep
  <2>3. LogsOn(ch, n, k + 1) = LogsOn(ch, n, k) \o t /\ LogsOn(ch, n, k) \in Seq(Log)
    BY <2>1, LogsOnStep
  <2>4. t \in Seq(Log)
    <3>1. SubSeq(ch, 1, k) \in AllBlocks
      BY <2>1, Ancestors
    <3> QED
      BY <3>1, LogsOfBlock
  <2>5. LogsOn(ch, a, k) = LogsOn(ch, a, n) \o LogsOn(ch, n, k)
    BY <1>4
  <2> HIDE DEF t
  <2>6. (LogsOn(ch, a, n) \o LogsOn(ch, n, k)) \o t
            = LogsOn(ch, a, n) \o (LogsOn(ch, n, k) \o t)
    <3> DEFINE x == LogsOn(ch, a, n)
               y == LogsOn(ch, n, k)
    <3>1. x \in Seq(Log) /\ y \in Seq(Log) /\ t \in Seq(Log)
      BY <1>2, <2>3, <2>4
    <3> HIDE DEF x, y
    <3>2. (x \o y) \o t = x \o (y \o t)
      BY <3>1, Reassociate
    <3> QED
      BY <3>2 DEF x, y
  <2>7. LogsOn(ch, a, k + 1) = LogsOn(ch, a, n) \o LogsOn(ch, n, k + 1)
    BY <2>2, <2>3, <2>5, <2>6
  <2> QED
    BY <2>1, <2>7
<1> HIDE DEF S
<1>5. to \in S
  BY <1>3, <1>4, Ascend
<1> QED
  BY <1>5 DEF S

\* What comes first in a longer range is the shorter one.
LEMMA LogsOnPrefix ==
    ASSUME NEW ch \in AllBlocks, NEW a \in Nat, NEW n \in Nat, NEW to \in Nat,
           a <= n, n <= to, to <= Len(ch) + 1
    PROVE  /\ LogsOn(ch, a, n) \in Seq(Log) /\ LogsOn(ch, a, to) \in Seq(Log)
           /\ LogsOn(ch, n, to) \in Seq(Log)
           /\ Len(LogsOn(ch, a, n)) \in Nat /\ Len(LogsOn(ch, a, to)) \in Nat
           /\ Len(LogsOn(ch, n, to)) \in Nat
           /\ Len(LogsOn(ch, a, to)) = Len(LogsOn(ch, a, n)) + Len(LogsOn(ch, n, to))
           /\ \A i \in 1..Len(LogsOn(ch, a, n)) : LogsOn(ch, a, to)[i] = LogsOn(ch, a, n)[i]
           /\ \A i \in 1..Len(LogsOn(ch, n, to)) :
                LogsOn(ch, a, to)[Len(LogsOn(ch, a, n)) + i] = LogsOn(ch, n, to)[i]
<1> DEFINE x == LogsOn(ch, a, n)
           y == LogsOn(ch, n, to)
           z == LogsOn(ch, a, to)
<1>1. z = x \o y
  BY LogsOnSplit
<1>2. x \in Seq(Log) /\ y \in Seq(Log) /\ z \in Seq(Log)
  <2>1. Len(ch) \in Nat
    BY Numbers
  <2>2. n <= Len(ch) + 1 /\ a <= to
    BY <2>1
  <2> QED
    BY <2>2, LogsOnStep
<1> HIDE DEF x, y, z
<1>3. /\ Len(x) \in Nat /\ Len(y) \in Nat /\ Len(z) = Len(x) + Len(y)
      /\ \A i \in 1..Len(x) : z[i] = x[i]
      /\ \A i \in 1..Len(y) : z[Len(x) + i] = y[i]
  <2>1. Len(x) \in Nat /\ Len(y) \in Nat
    BY <1>2
  <2>2. /\ Len(x \o y) = Len(x) + Len(y)
        /\ \A i \in 1..(Len(x) + Len(y)) :
                (x \o y)[i] = IF i <= Len(x) THEN x[i] ELSE y[i - Len(x)]
    BY <1>2, ConcatProperties
  <2>3. \A i \in 1..Len(x) : z[i] = x[i]
    BY <1>1, <2>1, <2>2
  <2>4. ASSUME NEW i \in 1..Len(y)
        PROVE  z[Len(x) + i] = y[i]
    <3>1. Len(x) + i \in 1..(Len(x) + Len(y)) /\ ~(Len(x) + i <= Len(x))
          /\ Len(x) + i - Len(x) = i
      BY <2>1
    <3> QED
      BY <1>1, <2>2, <3>1
  <2> QED
    BY <1>1, <2>1, <2>2, <2>3, <2>4
<1> QED
  BY <1>2, <1>3 DEF x, y, z

\* The p-th log of a range is one of a block, after those of the blocks before it.
Placed(ch, a, m, p) ==
    \E n \in a..(m - 1) : \E i \in 1..Len(LogsOf(SubSeq(ch, 1, n))) :
        /\ p = Len(LogsOn(ch, a, n)) + i
        /\ LogsOn(ch, a, m)[p] = [block |-> SubSeq(ch, 1, n), index |-> i]

LEMMA LogsOnPlaces ==
    ASSUME NEW ch \in AllBlocks, NEW a \in Nat, NEW to \in Nat, a <= to,
           to <= Len(ch) + 1, NEW k \in 1..Len(LogsOn(ch, a, to))
    PROVE  Placed(ch, a, to, k)
<1> DEFINE S == {m \in Nat : \A p \in 1..Len(LogsOn(ch, a, m)) : Placed(ch, a, m, p)}
<1>1. Len(ch) \in Nat
  BY Numbers
<1>2. a \in S
  <2>1. LogsOn(ch, a, a) = <<>>
    BY LogsOnStep
  <2>2. 1..Len(LogsOn(ch, a, a)) = {}
    BY <2>1
  <2> QED
    BY <2>2
<1>3. ASSUME NEW m \in a..(to - 1), m \in S
      PROVE  m + 1 \in S
  <2> DEFINE t == LogsOf(SubSeq(ch, 1, m))
             x == LogsOn(ch, a, m)
             z == LogsOn(ch, a, m + 1)
  <2>1. /\ m \in Nat /\ m + 1 \in Nat /\ a <= m /\ m \in 0..Len(ch)
        /\ m <= Len(ch) /\ m <= Len(ch) + 1
    BY <1>1
  <2>2. z = x \o t /\ x \in Seq(Log)
    BY <2>1, LogsOnStep
  <2>3. /\ t \in Seq(Log) /\ Len(t) \in Nat
        /\ \A i \in 1..Len(t) : t[i] = [block |-> SubSeq(ch, 1, m), index |-> i]
    <3>1. SubSeq(ch, 1, m) \in AllBlocks
      BY <2>1, Ancestors
    <3> QED
      BY <3>1, LogsOfBlock
  <2>4. ASSUME NEW p \in 1..Len(z)
        PROVE  Placed(ch, a, m + 1, p)
    <3>1. /\ Len(x) \in Nat
          /\ Len(z) = Len(x) + Len(t)
          /\ z[p] = IF p <= Len(x) THEN x[p] ELSE t[p - Len(x)]
      <4> HIDE DEF x, t, z
      <4>1. Len(x) \in Nat
        BY <2>2
      <4>2. /\ Len(x \o t) = Len(x) + Len(t)
            /\ \A i \in 1..(Len(x) + Len(t)) :
                    (x \o t)[i] = IF i <= Len(x) THEN x[i] ELSE t[i - Len(x)]
        BY <2>2, <2>3, ConcatProperties
      <4> QED
        BY <2>2, <4>1, <4>2
    <3>2. CASE p <= Len(x)
      <4>1. p \in 1..Len(x) /\ z[p] = x[p]
        BY <3>1, <3>2
      <4>2. Placed(ch, a, m, p)
        BY <1>3, <4>1
      <4>3. PICK n \in a..(m - 1) : \E i \in 1..Len(LogsOf(SubSeq(ch, 1, n))) :
                    /\ p = Len(LogsOn(ch, a, n)) + i
                    /\ x[p] = [block |-> SubSeq(ch, 1, n), index |-> i]
        BY <4>2 DEF Placed
      <4>4. n \in a..(m + 1 - 1)
        BY <2>1
      <4> QED
        BY <4>1, <4>3, <4>4 DEF Placed
    <3>3. CASE ~(p <= Len(x))
      <4>1. p - Len(x) \in 1..Len(t) /\ p = Len(x) + (p - Len(x)) /\ m \in a..(m + 1 - 1)
        BY <2>1, <2>3, <3>1, <3>3
      <4>2. z[p] = [block |-> SubSeq(ch, 1, m), index |-> p - Len(x)]
        BY <2>3, <3>1, <3>3, <4>1
      <4>3. \E i \in 1..Len(t) :
                /\ p = Len(x) + i
                /\ z[p] = [block |-> SubSeq(ch, 1, m), index |-> i]
        BY <4>1, <4>2
      <4>4. m \in a..(m + 1 - 1)
        BY <4>1
      <4> QED
        BY <4>3, <4>4 DEF Placed
    <3> QED
      BY <3>2, <3>3
  <2> QED
    BY <2>1, <2>4
<1> HIDE DEF S
<1>4. to \in S
  BY <1>2, <1>3, Ascend
<1> QED
  BY <1>4 DEF S

-----------------------------------------------------------------------------
(* What a cursor of the replay has passed *)

\* The cursor lies on the chain, at or after a.
OnChain(ch, a, c) ==
    /\ c \in Cursor
    /\ a \in Nat /\ a <= c.next
    /\ c.block # None =>
        /\ c.next <= Len(ch)
        /\ c.block = SubSeq(ch, 1, c.next)
        /\ c.log \in 1..(Len(LogsOf(c.block)) + 1)

\* The logs the replay has handled from a on.
UpTo(ch, a, c) ==
    LogsOn(ch, a, c.next)
        \o (IF c.block = None THEN <<>> ELSE SubSeq(LogsOf(c.block), 1, c.log - 1))

\* They come first in any range that ends later.
LEMMA UpToIs ==
    ASSUME NEW ch \in AllBlocks, NEW a, NEW c, OnChain(ch, a, c),
           NEW to \in Nat, c.next <= to, to <= Len(ch)
    PROVE  /\ UpTo(ch, a, c) \in Seq(Log) /\ Len(UpTo(ch, a, c)) \in Nat
           /\ Len(UpTo(ch, a, c)) =
                Len(LogsOn(ch, a, c.next)) + (IF c.block = None THEN 0 ELSE c.log - 1)
           /\ LogsOn(ch, a, to + 1) \in Seq(Log) /\ Len(LogsOn(ch, a, to + 1)) \in Nat
           /\ Len(UpTo(ch, a, c)) <= Len(LogsOn(ch, a, to + 1))
           /\ \A i \in 1..Len(UpTo(ch, a, c)) : UpTo(ch, a, c)[i] = LogsOn(ch, a, to + 1)[i]
<1> DEFINE n == c.next
           x == LogsOn(ch, a, n)
           z == LogsOn(ch, a, to + 1)
<1>1. /\ a \in Nat /\ n \in Nat /\ a <= n /\ n <= to /\ to + 1 \in Nat
      /\ Len(ch) \in Nat /\ to + 1 <= Len(ch) + 1 /\ n <= to + 1
      /\ n + 1 \in Nat /\ a <= n + 1 /\ n + 1 <= to + 1
      /\ n \in 0..Len(ch) /\ n <= Len(ch)
  <2>1. Len(ch) \in Nat
    BY Numbers
  <2>2. n \in Nat
    BY DEF OnChain, Cursor
  <2> QED
    BY <2>1, <2>2 DEF OnChain
<1> HIDE DEF n
<1>2. /\ x \in Seq(Log) /\ z \in Seq(Log) /\ Len(x) \in Nat /\ Len(z) \in Nat
      /\ Len(x) <= Len(z) /\ \A i \in 1..Len(x) : z[i] = x[i]
  <2>1. /\ x \in Seq(Log) /\ z \in Seq(Log) /\ Len(x) \in Nat /\ Len(z) \in Nat
        /\ Len(LogsOn(ch, n, to + 1)) \in Nat
        /\ Len(z) = Len(x) + Len(LogsOn(ch, n, to + 1))
        /\ \A i \in 1..Len(x) : z[i] = x[i]
    BY <1>1, LogsOnPrefix
  <2> HIDE DEF x, z
  <2> QED
    BY <2>1
<1>3. CASE c.block = None
  <2>1. UpTo(ch, a, c) = x
    <3>1. UpTo(ch, a, c) = x \o <<>>
      BY <1>3 DEF UpTo, n
    <3> HIDE DEF x
    <3> QED
      BY <1>2, <3>1, ConcatEmptySeq
  <2> HIDE DEF x, z
  <2> QED
    BY <1>2, <1>3, <2>1 DEF x, z, n
<1>4. CASE c.block # None
  <2> DEFINE logs == LogsOf(SubSeq(ch, 1, n))
             part == SubSeq(logs, 1, c.log - 1)
             y == LogsOn(ch, a, n + 1)
  <2>1. /\ UpTo(ch, a, c) = x \o part
        /\ c.log \in 1..(Len(logs) + 1)
    BY <1>4 DEF UpTo, OnChain, n
  <2>2. logs \in Seq(Log) /\ Len(logs) \in Nat
    <3>1. SubSeq(ch, 1, n) \in AllBlocks
      BY <1>1, Ancestors
    <3> QED
      BY <3>1, LogsOfBlock
  <2> HIDE DEF logs
  <2>3. /\ part \in Seq(Log) /\ Len(part) = c.log - 1 /\ c.log - 1 \in 0..Len(logs)
        /\ \A i \in 1..(c.log - 1) : part[i] = logs[i]
    <3>1. c.log - 1 \in 0..Len(logs)
      BY <2>1, <2>2
    <3> QED
      BY <2>2, <3>1, Prefix
  <2>4. y = x \o logs
    BY <1>1, LogsOnStep DEF logs
  <2>5. /\ y \in Seq(Log) /\ Len(y) \in Nat /\ Len(y) <= Len(z)
        /\ \A i \in 1..Len(y) : z[i] = y[i]
    <3>1. /\ y \in Seq(Log) /\ z \in Seq(Log) /\ Len(y) \in Nat /\ Len(z) \in Nat
          /\ Len(LogsOn(ch, n + 1, to + 1)) \in Nat
          /\ Len(z) = Len(y) + Len(LogsOn(ch, n + 1, to + 1))
          /\ \A i \in 1..Len(y) : z[i] = y[i]
      BY <1>1, LogsOnPrefix
    <3> HIDE DEF y, z
    <3> QED
      BY <3>1
  <2> HIDE DEF x, y, z, part
  <2> DEFINE u == x \o part
  <2>6. /\ u \in Seq(Log) /\ Len(u) = Len(x) + (c.log - 1)
        /\ \A i \in 1..(Len(x) + (c.log - 1)) :
                u[i] = IF i <= Len(x) THEN x[i] ELSE part[i - Len(x)]
    <3>1. /\ u \in Seq(Log) /\ Len(u) = Len(x) + Len(part)
          /\ \A i \in 1..(Len(x) + Len(part)) :
                u[i] = IF i <= Len(x) THEN x[i] ELSE part[i - Len(x)]
      BY <1>2, <2>3, ConcatProperties
    <3> QED
      BY <2>3, <3>1
  <2>7. /\ Len(y) = Len(x) + Len(logs)
        /\ \A i \in 1..(Len(x) + Len(logs)) :
                y[i] = IF i <= Len(x) THEN x[i] ELSE logs[i - Len(x)]
    BY <1>2, <2>2, <2>4, ConcatProperties
  <2> HIDE DEF u
  <2>8. Len(u) \in Nat /\ Len(u) <= Len(z) /\ Len(u) <= Len(y)
    BY <1>2, <2>2, <2>3, <2>5, <2>6, <2>7
  <2>9. ASSUME NEW i \in 1..Len(u)
        PROVE  u[i] = z[i]
    <3>1. i \in 1..(Len(x) + (c.log - 1)) /\ i \in 1..(Len(x) + Len(logs)) /\ i \in 1..Len(y)
      BY <1>2, <2>2, <2>3, <2>5, <2>6, <2>7, <2>8
    <3>2. u[i] = y[i]
      <4>1. CASE i <= Len(x)
        BY <2>6, <2>7, <3>1, <4>1
      <4>2. CASE ~(i <= Len(x))
        <5>1. i - Len(x) \in 1..(c.log - 1)
          BY <1>2, <2>2, <2>3, <3>1, <4>2
        <5>2. part[i - Len(x)] = logs[i - Len(x)]
          BY <2>3, <5>1
        <5> QED
          BY <2>6, <2>7, <3>1, <4>2, <5>2
      <4> QED
        BY <4>1, <4>2
    <3> QED
      BY <2>5, <3>1, <3>2
  <2> QED
    BY <1>2, <1>4, <2>1, <2>6, <2>8, <2>9 DEF u, x, z, n
<1> QED
  BY <1>3, <1>4

\* How a block adds to the number of logs.
LEMMA LogsOnLength ==
    ASSUME NEW ch \in AllBlocks, NEW a \in Nat, NEW n \in Nat, a <= n, n <= Len(ch)
    PROVE  /\ Len(LogsOn(ch, a, n)) \in Nat /\ Len(LogsOn(ch, a, n + 1)) \in Nat
           /\ Len(LogsOf(SubSeq(ch, 1, n))) \in Nat
           /\ Len(LogsOn(ch, a, n + 1)) = Len(LogsOn(ch, a, n)) + Len(LogsOf(SubSeq(ch, 1, n)))
<1>1. Len(ch) \in Nat /\ n <= Len(ch) + 1 /\ n \in 0..Len(ch)
  <2>1. Len(ch) \in Nat
    BY Numbers
  <2> QED
    BY <2>1
<1>2. LogsOn(ch, a, n + 1) = LogsOn(ch, a, n) \o LogsOf(SubSeq(ch, 1, n))
  BY LogsOnStep
<1>3. LogsOn(ch, a, n) \in Seq(Log)
  BY <1>1, LogsOnStep
<1>4. LogsOf(SubSeq(ch, 1, n)) \in Seq(Log)
  BY <1>1, Ancestors, LogsOfBlock
<1> QED
  BY <1>2, <1>3, <1>4, ConcatProperties

\* Longer ranges have no fewer.
LEMMA LogsOnGrows ==
    ASSUME NEW ch \in AllBlocks, NEW a \in Nat, NEW n \in Nat, NEW to \in Nat,
           a <= n, n <= to, to <= Len(ch) + 1
    PROVE  /\ Len(LogsOn(ch, a, n)) \in Nat /\ Len(LogsOn(ch, a, to)) \in Nat
           /\ Len(LogsOn(ch, a, n)) <= Len(LogsOn(ch, a, to))
<1>1. /\ Len(LogsOn(ch, a, n)) \in Nat /\ Len(LogsOn(ch, a, to)) \in Nat
      /\ Len(LogsOn(ch, n, to)) \in Nat
      /\ Len(LogsOn(ch, a, to)) = Len(LogsOn(ch, a, n)) + Len(LogsOn(ch, n, to))
  BY LogsOnPrefix
<1> QED
  BY <1>1

\* The logs of a range that the replay knows it has handled are those it has.
LEMMA ReconciledIsPassed ==
    ASSUME NEW ch \in AllBlocks, NEW a, NEW c, OnChain(ch, a, c),
           NEW to \in Nat, c.next <= to, to <= Len(ch),
           NEW k \in 1..Len(LogsOn(ch, a, to + 1))
    PROVE  Reconciled(c, LogsOn(ch, a, to + 1)[k]) <=> k <= Len(UpTo(ch, a, c))
<1> DEFINE next == c.next
           end == to + 1
           z == LogsOn(ch, a, end)
           d == IF c.block = None THEN 0 ELSE c.log - 1
           before == Len(LogsOn(ch, a, next))
           size == Len(LogsOf(SubSeq(ch, 1, next)))
<1>1. /\ a \in Nat /\ next \in Nat /\ a <= next /\ next <= to
      /\ Len(ch) \in Nat /\ end \in Nat /\ end <= Len(ch) + 1 /\ a <= end
      /\ next <= Len(ch) /\ next <= end /\ next + 1 \in Nat /\ a <= next + 1
      /\ next \in 0..Len(ch) /\ end - 1 = to
  <2>1. Len(ch) \in Nat
    BY Numbers
  <2>2. c.next \in Nat
    BY DEF OnChain, Cursor
  <2> QED
    BY <2>1, <2>2 DEF OnChain
<1> HIDE DEF next, end
<1>2. PICK n \in a..to : \E i \in 1..Len(LogsOf(SubSeq(ch, 1, n))) :
            /\ k = Len(LogsOn(ch, a, n)) + i
            /\ z[k] = [block |-> SubSeq(ch, 1, n), index |-> i]
  <2>1. k \in 1..Len(LogsOn(ch, a, end))
    BY DEF end
  <2>2. Placed(ch, a, end, k)
    BY <1>1, <2>1, LogsOnPlaces
  <2> QED
    BY <1>1, <2>2 DEF Placed
<1> DEFINE start == Len(LogsOn(ch, a, n))
           block == SubSeq(ch, 1, n)
           count == Len(LogsOf(block))
<1>3. PICK i \in 1..count : k = start + i /\ z[k] = [block |-> block, index |-> i]
  <2> HIDE DEF z
  <2> QED
    BY <1>2
<1>4. /\ n \in Nat /\ n \in 0..Len(ch) /\ n <= Len(ch) /\ a <= n
      /\ block \in AllBlocks /\ Len(block) = n
      /\ count \in Nat /\ i \in Nat /\ i >= 1 /\ i <= count
  <2>1. n \in 0..Len(ch) /\ n \in Nat /\ n <= Len(ch) /\ a <= n
    BY <1>1, <1>2
  <2>2. block \in AllBlocks /\ Len(block) = n
    BY <2>1, Ancestors
  <2> HIDE DEF block
  <2>3. count \in Nat
    BY <2>2, LogsOfBlock
  <2> QED
    BY <1>3, <2>1, <2>2, <2>3
<1>5. start \in Nat /\ Len(LogsOn(ch, a, n + 1)) = start + count
  BY <1>1, <1>4, LogsOnLength
<1>6. before \in Nat /\ size \in Nat /\ Len(LogsOn(ch, a, next + 1)) = before + size
  BY <1>1, LogsOnLength
<1> HIDE DEF z
<1>7. Reconciled(c, z[k]) <=> n < next \/ (n = next /\ c.block = block /\ i < c.log)
  <2>1. z[k].block = block /\ z[k].index = i /\ Len(block) = n
    BY <1>3, <1>4
  <2> HIDE DEF block
  <2> QED
    BY <2>1 DEF Reconciled, Number, next
<1>8. Len(UpTo(ch, a, c)) = before + d
  <2>1. c.next <= to
    OBVIOUS
  <2> QED
    BY <2>1, UpToIs DEF next
<1>9. /\ d \in Nat /\ d <= size
      /\ c.block = None => d = 0
      /\ c.block # None => c.block = SubSeq(ch, 1, next) /\ c.log \in Nat /\ d = c.log - 1
  <2>1. CASE c.block = None
    BY <1>6, <2>1
  <2>2. CASE c.block # None
    <3>1. c.block = SubSeq(ch, 1, next) /\ c.log \in 1..(size + 1)
      BY <2>2 DEF OnChain, next
    <3> HIDE DEF size
    <3>2. c.log - 1 \in Nat /\ c.log - 1 <= size /\ c.log \in Nat
      BY <1>6, <3>1
    <3> QED
      BY <2>2, <3>1, <3>2
  <2> QED
    BY <2>1, <2>2
<1>10. /\ n < next => start + count <= before
       /\ next < n => before + size <= start
  <2>1. ASSUME n < next
        PROVE  start + count <= before
    <3>1. n + 1 \in Nat /\ a <= n + 1 /\ n + 1 <= next /\ next <= Len(ch) + 1
      BY <1>1, <1>4, <2>1
    <3>2. Len(LogsOn(ch, a, n + 1)) <= Len(LogsOn(ch, a, next))
      BY <1>1, <3>1, LogsOnGrows
    <3> QED
      BY <1>5, <3>2
  <2>2. ASSUME next < n
        PROVE  before + size <= start
    <3>1. next + 1 <= n /\ n <= Len(ch) + 1
      BY <1>1, <1>4, <2>2
    <3>2. Len(LogsOn(ch, a, next + 1)) <= Len(LogsOn(ch, a, n))
      BY <1>1, <1>4, <3>1, LogsOnGrows
    <3> QED
      BY <1>6, <3>2
  <2> QED
    BY <2>1, <2>2
<1>11. n = next => start = before /\ block = SubSeq(ch, 1, next)
  OBVIOUS
<1>12. None # block
  <2> HIDE DEF block
  <2> QED
    BY <1>4, ChainAssumption
<1> HIDE DEF start, block, count, before, size, d
<1>13. Reconciled(c, z[k]) <=> k <= before + d
  <2>1. CASE n < next
    <3>1. k = start + i /\ start + count <= before
      BY <1>3, <1>10, <2>1
    <3>2. start \in Nat /\ count \in Nat /\ i \in Nat /\ i <= count
      BY <1>4, <1>5
    <3>3. before \in Nat /\ d \in Nat
      BY <1>6, <1>9
    <3>4. k <= before + d
      BY <3>1, <3>2, <3>3
    <3> QED
      BY <1>7, <2>1, <3>4
  <2>2. CASE next < n
    <3>1. k = start + i /\ before + size <= start
      BY <1>3, <1>10, <2>2
    <3>2. start \in Nat /\ i \in Nat /\ i >= 1
      BY <1>4, <1>5
    <3>3. before \in Nat /\ size \in Nat /\ d \in Nat /\ d <= size
      BY <1>6, <1>9
    <3>4. ~(k <= before + d)
      BY <3>1, <3>2, <3>3
    <3>5. ~(n < next) /\ n # next
      BY <1>1, <1>4, <2>2
    <3> QED
      BY <1>7, <3>4, <3>5
  <2>3. CASE n = next /\ c.block = None
    BY <1>3, <1>4, <1>6, <1>7, <1>9, <1>11, <1>12, <2>3
  <2>4. CASE n = next /\ c.block # None
    <3>1. Reconciled(c, z[k]) <=> i < c.log
      <4>1. ~(n < next)
        BY <1>1, <1>4, <2>4
      <4>2. c.block = block
        BY <1>9, <1>11, <2>4
      <4> QED
        BY <1>7, <2>4, <4>1, <4>2
    <3>2. k = before + i /\ d = c.log - 1 /\ c.log \in Nat
      BY <1>3, <1>9, <1>11, <2>4
    <3>3. i < c.log <=> k <= before + d
      BY <1>4, <1>6, <3>2
    <3> QED
      BY <3>1, <3>3
  <2> QED
    BY <1>1, <1>4, <2>1, <2>2, <2>3, <2>4
<1> QED
  BY <1>8, <1>13 DEF z, end


-----------------------------------------------------------------------------
(* The invariant of evm.Events *)

\* The block at this height is final and there.
Settled(m) == m \in Nat /\ m <= FinalHeight /\ m <= Len(chain)

\* EventsTypeOK with the shapes of what it leaves out.
EventsShape ==
    /\ EventsTypeOK
    /\ IsFiniteSet(live) /\ live \subseteq Log
    /\ feed \in Seq([log : Log, removed : BOOLEAN])
    /\ confirmed \in Seq(Log)
    /\ lane = "range" => range \in [to : Nat, logs : Seq(Log)]

\* Nothing happens before there is a cursor.
CursorFirst ==
    cursor = None => lane \in {"none", "down"} /\ live = {} /\ confirmed = <<>>

\* What the cursor has passed since its origin is final.
CursorPlaced ==
    cursor # None =>
        /\ OnChain(chain, origin, cursor)
        /\ cursor.next = origin \/ Settled(cursor.next - 1)
        /\ cursor.block # None => Settled(cursor.next)

\* What was confirmed is what the cursor says.
ConfirmedIsPassed ==
    cursor # None => confirmed = UpTo(chain, origin, cursor)

\* A sequence is the end of another.
EndOf(s, all) ==
    /\ Len(s) <= Len(all)
    /\ \A i \in 1..Len(s) : s[i] = all[Len(all) - Len(s) + i]

\* The rest of a range is the end of what there is to confirm, and no log is
\* missing between what was confirmed and that rest.
RangeRests ==
    lane = "range" =>
        /\ cursor.next <= range.to /\ Settled(range.to)
        /\ EndOf(range.logs, LogsOn(chain, origin, range.to + 1))
        /\ Len(confirmed) + Len(range.logs) >= Len(LogsOn(chain, origin, range.to + 1))

\* Journaled logs of the range are behind the cursor or still to come.
RangeHasLive ==
    lane = "range" =>
        \A log \in live : Number(log.block) <= range.to =>
            Reconciled(cursor, log) \/ \E i \in 1..Len(range.logs) : range.logs[i] = log

EventsInv ==
    /\ EventsShape
    /\ CursorFirst
    /\ CursorPlaced
    /\ ConfirmedIsPassed
    /\ RangeRests
    /\ RangeHasLive
    /\ LeftBehindWasLate

LEMMA EventsFacts ==
    /\ BackfillRange \in Nat /\ BackfillRange > 0
    /\ MaxLive \in Nat /\ MaxFeed \in Nat
    /\ None \notin AllBlocks /\ None \notin Cursor
    /\ EventsFrom \subseteq (1..MaxHeight) \cup {None}
    /\ MaxHeight \in Nat
BY EventsAssumption, ChainAssumption

LEMMA EventsInvInit ==
    ASSUME SourcesInit
    PROVE  EventsInv
<1>1. ChainTypeOK
  BY BlocksInvInit DEF BlocksInv, BlocksTypeOK
<1>2. /\ cursor = None /\ live = {} /\ feed = <<>> /\ lane \in {"none", "down"} /\ range = None
      /\ confirmed = <<>> /\ late = {}
  BY DEF SourcesInit, EventsInit, EventsAbsent
<1>3. IsFiniteSet(live) /\ Cardinality(live) = 0
  BY <1>2, FS_EmptySet
<1>4. EventsShape
  BY <1>1, <1>2, <1>3, EventsFacts DEF EventsShape, EventsTypeOK
<1> QED
  BY <1>2, <1>4 DEF EventsInv, CursorFirst, CursorPlaced, ConfirmedIsPassed, RangeRests,
     RangeHasLive, LeftBehindWasLate

LEMMA EventsStill ==
    ASSUME EventsInv, UNCHANGED <<chainVars, eventsOwn>>
    PROVE  EventsInv'
BY DEF chainVars, eventsOwn, EventsInv, EventsShape, EventsTypeOK, ChainTypeOK, CursorFirst,
       CursorPlaced, ConfirmedIsPassed, RangeRests, RangeHasLive, LeftBehindWasLate, Settled,
       FinalHeight, Reconciled, Number

\* Logs depend on the blocks of the range only.
LEMMA LogsOnKept ==
    ASSUME NEW ch \in AllBlocks, NEW other \in AllBlocks, NEW a \in Nat, NEW n \in Nat, a <= n,
           a = n \/ \A m \in 0..(n - 1) : SubSeq(other, 1, m) = SubSeq(ch, 1, m)
    PROVE  LogsOn(other, a, n) = LogsOn(ch, a, n)
<1>1. CASE a = n
  BY <1>1, LogsOnStep
<1>2. CASE a # n
  <2>1. \A m \in 1..(IF n - 1 < a THEN 0 ELSE n - 1 - a + 1) :
            SubSeq(other, 1, a + m - 1) = SubSeq(ch, 1, a + m - 1)
    BY <1>2
  <2>2. [m \in 1..(IF n - 1 < a THEN 0 ELSE n - 1 - a + 1) |-> LogsOf(SubSeq(other, 1, a + m - 1))]
        = [m \in 1..(IF n - 1 < a THEN 0 ELSE n - 1 - a + 1) |-> LogsOf(SubSeq(ch, 1, a + m - 1))]
    BY <2>1
  <2> QED
    BY <2>2 DEF LogsOn
<1> QED
  BY <1>1, <1>2

\* What was settled stays so, and so do the blocks up to it.
LEMMA SettledStays ==
    ASSUME ChainTypeOK, ChainStep, NEW m \in Nat, Settled(m)
    PROVE  /\ m <= FinalHeight' /\ m <= Len(chain')
           /\ \A k \in 0..m : SubSeq(chain', 1, k) = SubSeq(chain, 1, k)
<1>1. FinalHeight \in Nat /\ Len(chain) \in Nat
  BY ChainNumbers
<1>2. /\ FinalHeight' \in Nat /\ FinalHeight' >= FinalHeight
      /\ \A k \in 0..FinalHeight : k <= Len(chain) =>
            k <= Len(chain') /\ SubSeq(chain', 1, k) = SubSeq(chain, 1, k)
  BY FinalIsKept
<1>3. m <= FinalHeight /\ m <= Len(chain) /\ m \in 0..FinalHeight
  BY <1>1 DEF Settled
<1>4. ASSUME NEW k \in 0..m
      PROVE  SubSeq(chain', 1, k) = SubSeq(chain, 1, k)
  <2>1. k \in 0..FinalHeight /\ k <= Len(chain)
    BY <1>1, <1>3
  <2> QED
    BY <1>2, <2>1
<1>5. m <= FinalHeight'
  BY <1>1, <1>2, <1>3
<1> QED
  BY <1>2, <1>3, <1>4, <1>5

\* The chain moves, and pushes are added or lost.
LEMMA EventsChainMoves ==
    ASSUME EventsInv, ChainStep, UNCHANGED <<cursor, live, lane, range, origin, confirmed, late>>,
           feed' \in Seq([log : Log, removed : BOOLEAN]), Len(feed') <= MaxFeed
    PROVE  EventsInv'
<1>1. ChainTypeOK /\ ChainTypeOK'
  BY FinalIsKept DEF EventsInv, EventsShape, EventsTypeOK
<1>2. chain \in AllBlocks /\ chain' \in AllBlocks
  BY <1>1 DEF ChainTypeOK
<1>3. EventsShape'
  BY <1>1 DEF EventsInv, EventsShape, EventsTypeOK
<1>4. CursorFirst'
  BY DEF EventsInv, CursorFirst
<1>5. ASSUME cursor # None
      PROVE  /\ cursor.next \in Nat /\ origin \in Nat /\ origin <= cursor.next
             /\ LogsOn(chain', origin, cursor.next) = LogsOn(chain, origin, cursor.next)
             /\ OnChain(chain', origin, cursor)
             /\ cursor.next = origin
                    \/ (cursor.next - 1 \in Nat /\ cursor.next - 1 <= FinalHeight'
                            /\ cursor.next - 1 <= Len(chain'))
             /\ cursor.block # None =>
                    cursor.next <= FinalHeight' /\ cursor.next <= Len(chain')
  <2>1. /\ cursor.next \in Nat /\ origin \in Nat /\ origin <= cursor.next
        /\ OnChain(chain, origin, cursor)
        /\ cursor.next = origin \/ Settled(cursor.next - 1)
        /\ cursor.block # None => Settled(cursor.next)
    BY <1>5 DEF EventsInv, CursorPlaced, OnChain, Cursor
  <2>2. cursor.next # origin =>
            /\ cursor.next - 1 \in Nat
            /\ cursor.next - 1 <= FinalHeight' /\ cursor.next - 1 <= Len(chain')
            /\ \A k \in 0..(cursor.next - 1) : SubSeq(chain', 1, k) = SubSeq(chain, 1, k)
    <3> SUFFICES ASSUME cursor.next # origin
                 PROVE  /\ cursor.next - 1 \in Nat
                        /\ cursor.next - 1 <= FinalHeight' /\ cursor.next - 1 <= Len(chain')
                        /\ \A k \in 0..(cursor.next - 1) :
                                SubSeq(chain', 1, k) = SubSeq(chain, 1, k)
      OBVIOUS
    <3> DEFINE m == cursor.next - 1
    <3>1. m \in Nat /\ Settled(m)
      BY <2>1 DEF Settled
    <3> HIDE DEF m
    <3>2. /\ m <= FinalHeight' /\ m <= Len(chain')
          /\ \A k \in 0..m : SubSeq(chain', 1, k) = SubSeq(chain, 1, k)
      BY <1>1, <3>1, SettledStays
    <3> QED
      BY <3>1, <3>2 DEF m
  <2>3. LogsOn(chain', origin, cursor.next) = LogsOn(chain, origin, cursor.next)
    BY <1>2, <2>1, <2>2, LogsOnKept
  <2>4. ASSUME cursor.block # None
        PROVE  /\ cursor.next <= FinalHeight' /\ cursor.next <= Len(chain')
               /\ SubSeq(chain', 1, cursor.next) = SubSeq(chain, 1, cursor.next)
    <3> DEFINE m == cursor.next
    <3>1. m \in Nat /\ Settled(m) /\ m \in 0..m
      BY <2>1, <2>4
    <3> HIDE DEF m
    <3>2. /\ m <= FinalHeight' /\ m <= Len(chain')
          /\ SubSeq(chain', 1, m) = SubSeq(chain, 1, m)
      BY <1>1, <3>1, SettledStays
    <3> QED
      BY <3>2 DEF m
  <2>5. OnChain(chain', origin, cursor)
    BY <2>1, <2>4 DEF OnChain
  <2> QED
    BY <2>1, <2>2, <2>3, <2>4, <2>5
<1>6. CursorPlaced'
  BY <1>5 DEF CursorPlaced, Settled
<1>7. ConfirmedIsPassed'
  BY <1>5 DEF EventsInv, ConfirmedIsPassed, UpTo
<1>8. RangeRests'
  <2> SUFFICES ASSUME lane = "range"
               PROVE  RangeRests'
    BY DEF RangeRests
  <2> DEFINE m == range.to
  <2>1. /\ cursor # None /\ m \in Nat /\ Settled(m) /\ cursor.next <= m
        /\ EndOf(range.logs, LogsOn(chain, origin, m + 1))
        /\ Len(confirmed) + Len(range.logs) >= Len(LogsOn(chain, origin, m + 1))
    BY DEF EventsInv, EventsShape, CursorFirst, RangeRests, Settled
  <2>2. origin \in Nat /\ origin <= m + 1
    BY <1>5, <2>1
  <2> HIDE DEF m
  <2>3. /\ m <= FinalHeight' /\ m <= Len(chain')
        /\ \A k \in 0..m : SubSeq(chain', 1, k) = SubSeq(chain, 1, k)
    BY <1>1, <2>1, SettledStays
  <2>4. LogsOn(chain', origin, m + 1) = LogsOn(chain, origin, m + 1)
    <3> DEFINE n == m + 1
    <3>1. n \in Nat /\ origin <= n /\ n - 1 = m
      BY <2>1, <2>2
    <3> HIDE DEF n
    <3>2. LogsOn(chain', origin, n) = LogsOn(chain, origin, n)
      BY <1>2, <2>2, <2>3, <3>1, LogsOnKept
    <3> QED
      BY <3>2 DEF n
  <2> QED
    BY <2>1, <2>3, <2>4 DEF RangeRests, Settled, m
<1>9. RangeHasLive' /\ LeftBehindWasLate'
  BY DEF EventsInv, RangeHasLive, LeftBehindWasLate, Reconciled, Number
<1> QED
  BY <1>3, <1>4, <1>6, <1>7, <1>8, <1>9 DEF EventsInv

\* What a move of the chain pushes.
LEMMA PushedTyped ==
    ASSUME ChainTypeOK, ChainStep
    PROVE  Pushed \in Seq([log : Log, removed : BOOLEAN])
<1> DEFINE Notification == [log : Log, removed : BOOLEAN]
           orphans == {n \in 1..Len(chain) : n > Len(chain') \/ chain[n] # chain'[n]}
           least == IF orphans = {} THEN Len(chain) + 1
                    ELSE CHOOSE n \in orphans : \A m \in orphans : n <= m
           end == Len(chain) + 1
           gone == LogsOfBlocks(least, Len(chain))
           new == LogsOf(chain')
<1>1. chain \in AllBlocks /\ chain' \in AllBlocks /\ Len(chain) \in Nat
  BY ChainNumbers, FinalIsKept DEF ChainTypeOK
<1>2. least \in Nat /\ least <= end
  <2>1. CASE orphans = {}
    BY <1>1, <2>1
  <2>2. CASE orphans # {}
    <3>1. orphans \subseteq Nat /\ \A n \in orphans : n \in Nat /\ n <= end
      BY <1>1
    <3>2. \E n \in orphans : \A m \in orphans : n <= m
      BY <2>2, <3>1, LeastOf
    <3> HIDE DEF orphans, end
    <3>3. least \in orphans
      BY <2>2, <3>2
    <3> HIDE DEF least
    <3> QED
      BY <3>1, <3>3
  <2> QED
    BY <2>1, <2>2
<1> HIDE DEF least
<1>3. gone \in Seq(Log)
  <2>1. end - 1 = Len(chain) /\ end \in Nat /\ end <= Len(chain) + 1
    BY <1>1
  <2> HIDE DEF end
  <2>2. LogsOfBlocks(least, end - 1) = LogsOn(chain, least, end)
    BY DEF LogsOfBlocks, LogsOn, BlockByNumber
  <2>3. LogsOn(chain, least, end) \in Seq(Log)
    BY <1>1, <1>2, <2>1, LogsOnStep
  <2> QED
    BY <2>1, <2>2, <2>3
<1>4. new \in Seq(Log)
  BY <1>1, LogsOfBlock
<1> HIDE DEF gone, new
<1>5. \A s \in Seq(Log), b \in BOOLEAN : Pushes(s, b) \in Seq(Notification)
  <2> SUFFICES ASSUME NEW s \in Seq(Log), NEW b \in BOOLEAN
               PROVE  Pushes(s, b) \in Seq(Notification)
    OBVIOUS
  <2>1. Len(s) \in Nat /\ \A i \in 1..Len(s) : [log |-> s[i], removed |-> b] \in Notification
    OBVIOUS
  <2> HIDE DEF Notification
  <2> QED
    BY <2>1 DEF Pushes
<1> HIDE DEF Notification
<1>6. Pushes(gone, TRUE) \o Pushes(new, FALSE) \in Seq(Notification)
  <2>1. Pushes(gone, TRUE) \in Seq(Notification) /\ Pushes(new, FALSE) \in Seq(Notification)
    BY <1>3, <1>4, <1>5
  <2> QED
    BY <2>1, ConcatProperties
<1> QED
  BY <1>6 DEF Pushed, gone, new, least, orphans, Notification

\* The provider's chain moves under the source.
LEMMA EventsChainStepKeeps ==
    ASSUME EventsInv, EventsChainStep
    PROVE  EventsInv'
<1> DEFINE Notification == [log : Log, removed : BOOLEAN]
<1>1. ChainStep /\ UNCHANGED <<cursor, live, lane, range, origin, confirmed, late>>
  BY DEF EventsChainStep
<1>2. ChainTypeOK /\ feed \in Seq(Notification) /\ Len(feed) <= MaxFeed
  BY DEF EventsInv, EventsShape, EventsTypeOK
<1>3. feed' \in Seq(Notification) /\ Len(feed') <= MaxFeed
  <2> HIDE DEF Notification
  <2>1. CASE feed' = feed
    BY <1>2, <2>1
  <2>2. CASE Len(feed) + Len(Pushed) <= MaxFeed /\ feed' = feed \o Pushed
    <3>1. Pushed \in Seq(Notification)
      BY <1>1, <1>2, PushedTyped DEF Notification
    <3> DEFINE pushed == Pushed
    <3>2. pushed \in Seq(Notification) /\ feed' = feed \o pushed
      BY <2>2, <3>1
    <3>3. Len(feed) + Len(pushed) <= MaxFeed
      BY <2>2
    <3> HIDE DEF pushed
    <3>4. /\ feed \o pushed \in Seq(Notification)
          /\ Len(feed \o pushed) = Len(feed) + Len(pushed)
      BY <1>2, <3>2, ConcatProperties
    <3> QED
      BY <3>2, <3>3, <3>4
  <2> QED
    BY <2>1, <2>2 DEF EventsChainStep
<1> QED
  BY <1>1, <1>3, EventsChainMoves

\* The replay starts from its checkpoint, or a fresh one that nothing was confirmed
\* before.
LEMMA EventsStartsKeeps ==
    ASSUME EventsInv, EventsStarts
    PROVE  EventsInv'
<1>1. /\ lane' = "loop" /\ feed' = <<>> /\ lane = "down"
      /\ UNCHANGED <<chainVars, chain, tallest, confirmations, range, live, confirmed, late>>
  BY DEF EventsStarts, LoadLive, chainVars
<1>2. range' = None
  BY <1>1 DEF EventsInv, EventsShape, EventsTypeOK
<1>3. ChainTypeOK /\ ChainTypeOK'
  BY <1>1 DEF EventsInv, EventsShape, EventsTypeOK, ChainTypeOK
<1>4. CASE cursor # None
  <2>1. UNCHANGED <<cursor, origin>>
    BY <1>4 DEF EventsStarts, LoadCursor
  <2> QED
    BY <1>1, <1>2, <1>3, <1>4, <2>1, EventsFacts
    DEF EventsInv, EventsShape, EventsTypeOK, CursorFirst, CursorPlaced, ConfirmedIsPassed,
        RangeRests, RangeHasLive, LeftBehindWasLate, Settled, FinalHeight, Reconciled, Number
<1>5. CASE cursor = None
  <2>1. PICK from \in EventsFrom :
            LET edge == IF BlockNumber >= confirmations
                        THEN BlockNumber - confirmations + 1 ELSE 0
                next == IF from = None THEN edge ELSE from
            IN  /\ cursor' = [next |-> next, block |-> None, log |-> 0, parent |-> None]
                /\ origin' = next
    BY <1>5 DEF EventsStarts, LoadCursor
  <2> DEFINE edge == IF BlockNumber >= confirmations
                     THEN BlockNumber - confirmations + 1 ELSE 0
             start == IF from = None THEN edge ELSE from
  <2>2. start \in Nat
    <3>1. BlockNumber \in Nat /\ confirmations \in Nat
      BY <1>3, ChainNumbers DEF BlockNumber
    <3>2. edge \in Nat
      BY <3>1
    <3> HIDE DEF edge
    <3> QED
      BY <3>2, EventsFacts
  <2>3. /\ cursor' = [next |-> start, block |-> None, log |-> 0, parent |-> None]
        /\ origin' = start
    BY <2>1
  <2> HIDE DEF start, edge
  <2>4. /\ cursor' \in Cursor /\ cursor' # None /\ cursor'.next = start
        /\ cursor'.block = None
    BY <2>2, <2>3, EventsFacts DEF Cursor
  <2>5. live = {} /\ confirmed = <<>>
    BY <1>5 DEF EventsInv, CursorFirst
  <2>6. EventsShape'
    BY <1>1, <1>2, <1>3, <2>4, EventsFacts DEF EventsInv, EventsShape, EventsTypeOK
  <2>7. CursorFirst' /\ RangeRests' /\ RangeHasLive' /\ LeftBehindWasLate'
    BY <1>1, <2>4, <2>5 DEF CursorFirst, RangeRests, RangeHasLive, LeftBehindWasLate
  <2>8. CursorPlaced'
    BY <2>2, <2>3, <2>4 DEF CursorPlaced, OnChain
  <2>9. ConfirmedIsPassed'
    <3>1. chain' \in AllBlocks
      BY <1>3 DEF ChainTypeOK
    <3>2. LogsOn(chain', start, start) = <<>>
      BY <2>2, <3>1, LogsOnStep
    <3>3. UpTo(chain', origin', cursor') = LogsOn(chain', start, start) \o <<>>
      BY <2>3, <2>4 DEF UpTo
    <3>4. <<>> \o <<>> = <<>>
      BY ConcatEmptySeq
    <3> QED
      BY <1>1, <2>5, <3>2, <3>3, <3>4 DEF ConfirmedIsPassed
  <2> QED
    BY <2>6, <2>7, <2>8, <2>9 DEF EventsInv
<1> QED
  BY <1>4, <1>5

\* A source that is between ranges, whatever it did to the journal.
LEMMA BetweenRanges ==
    ASSUME EventsInv, UNCHANGED <<chainVars, cursor, origin, confirmed>>,
           lane' \in {"none", "down", "loop"}, range' = None,
           feed' \in Seq([log : Log, removed : BOOLEAN]), Len(feed') <= MaxFeed,
           IsFiniteSet(live'), live' \subseteq Log, Cardinality(live') <= MaxLive,
           late' \subseteq live',
           cursor = None => lane' \in {"none", "down"} /\ live' = {},
           cursor # None => \A log \in live' : Reconciled(cursor, log) => log \in late'
    PROVE  EventsInv'
<1>1. EventsShape'
  BY DEF chainVars, EventsInv, EventsShape, EventsTypeOK, ChainTypeOK
<1>2. CursorFirst'
  BY DEF EventsInv, CursorFirst
<1>3. CursorPlaced' /\ ConfirmedIsPassed'
  BY DEF chainVars, EventsInv, CursorPlaced, ConfirmedIsPassed, Settled, FinalHeight
<1>4. RangeRests' /\ RangeHasLive'
  BY DEF RangeRests, RangeHasLive
<1>5. LeftBehindWasLate'
  BY DEF LeftBehindWasLate
<1> QED
  BY <1>1, <1>2, <1>3, <1>4, <1>5 DEF EventsInv

\* A part of the journal.
LEMMA JournalShrinks ==
    ASSUME EventsInv, NEW logs \in SUBSET live
    PROVE  /\ IsFiniteSet(logs) /\ logs \subseteq Log /\ Cardinality(logs) <= MaxLive
           /\ IsFiniteSet(live) /\ live \subseteq Log
           /\ Cardinality(live) \in Nat /\ Cardinality(live) <= MaxLive
<1>1. IsFiniteSet(live) /\ live \subseteq Log /\ Cardinality(live) <= MaxLive
  BY DEF EventsInv, EventsShape, EventsTypeOK
<1>2. /\ IsFiniteSet(logs) /\ Cardinality(logs) <= Cardinality(live)
      /\ Cardinality(logs) \in Nat /\ Cardinality(live) \in Nat
  BY <1>1, FS_Subset, FS_CardinalityType
<1> QED
  BY <1>1, <1>2, EventsFacts

\* The source stops where it is.
LEMMA EventsStopKeeps ==
    ASSUME EventsInv, EventsStop, UNCHANGED <<chainVars, cursor, live, origin, confirmed, late>>
    PROVE  EventsInv'
<1>1. lane' = "down" /\ range' = None /\ feed' = <<>>
  BY DEF EventsStop
<1>2. late \subseteq live /\ (cursor = None => live = {})
  BY DEF EventsInv, EventsShape, EventsTypeOK, CursorFirst
<1>3. cursor # None => \A log \in live : Reconciled(cursor, log) => log \in late
  BY DEF EventsInv, LeftBehindWasLate
<1>4. IsFiniteSet(live') /\ live' \subseteq Log /\ Cardinality(live') <= MaxLive
  BY JournalShrinks
<1>5. feed' \in Seq([log : Log, removed : BOOLEAN]) /\ Len(feed') <= MaxFeed
  BY <1>1, EventsFacts
<1> QED
  BY <1>1, <1>2, <1>3, <1>4, <1>5, BetweenRanges

\* A pushed log or removal is handled.
LEMMA HandleLiveKeeps ==
    ASSUME EventsInv, HandleLive
    PROVE  EventsInv'
<1> DEFINE Notification == [log : Log, removed : BOOLEAN]
           log == Head(feed).log
<1>1. /\ lane = "loop" /\ feed # <<>> /\ cursor # None /\ range = None
      /\ UNCHANGED <<chainVars, cursor, origin, confirmed>>
  BY DEF HandleLive, EventsInv, EventsShape, EventsTypeOK, CursorFirst
<1>2. feed \in Seq(Notification) /\ Len(feed) <= MaxFeed
  BY DEF EventsInv, EventsShape, EventsTypeOK
<1>3. /\ Head(feed) \in Notification /\ Len(feed) \in Nat
      /\ Tail(feed) \in Seq(Notification) /\ Len(Tail(feed)) = Len(feed) - 1
  <2> HIDE DEF Notification
  <2> QED
    BY <1>1, <1>2, TailOf
<1>4. log \in Log /\ Len(Tail(feed)) <= MaxFeed
  BY <1>2, <1>3, EventsFacts
<1>5. late \subseteq live /\ \A l \in live : Reconciled(cursor, l) => l \in late
  BY <1>1 DEF EventsInv, EventsShape, EventsTypeOK, LeftBehindWasLate
<1>6. CASE HandleRemoved(log)
  <2>1. /\ feed' = Tail(feed) /\ live' = live \ {log} /\ late' = late \ {log}
        /\ lane' = "loop" /\ range' = None
    BY <1>1, <1>6 DEF HandleRemoved
  <2> HIDE DEF log
  <2>2. IsFiniteSet(live') /\ live' \subseteq Log /\ Cardinality(live') <= MaxLive
    <3>1. live \ {log} \in SUBSET live
      OBVIOUS
    <3> QED
      BY <2>1, <3>1, JournalShrinks
  <2>3. late' \subseteq live' /\ \A l \in live' : Reconciled(cursor, l) => l \in late'
    BY <1>5, <2>1
  <2> QED
    BY <1>1, <1>3, <1>4, <2>1, <2>2, <2>3, BetweenRanges
<1>7. CASE HandleLog(log)
  <2>1. CASE log \in live
    <3>1. feed' = Tail(feed) /\ UNCHANGED <<live, late, lane, range>>
      BY <1>7, <2>1 DEF HandleLog
    <3>2. IsFiniteSet(live') /\ live' \subseteq Log /\ Cardinality(live') <= MaxLive
      BY <3>1, JournalShrinks
    <3> QED
      BY <1>1, <1>3, <1>4, <1>5, <3>1, <3>2, BetweenRanges
  <2>2. CASE log \notin live /\ Cardinality(live) = MaxLive
    <3>1. EventsStop /\ UNCHANGED <<live, late>>
      BY <1>7, <2>2 DEF HandleLog
    <3> QED
      BY <1>1, <3>1, EventsStopKeeps
  <2>3. CASE log \notin live /\ Cardinality(live) # MaxLive
    <3>1. /\ feed' = Tail(feed) /\ live' = live \cup {log}
          /\ late' = late \cup {l \in {log} : Reconciled(cursor, l)}
          /\ lane' = "loop" /\ range' = None
      BY <1>1, <1>7, <2>3 DEF HandleLog
    <3> HIDE DEF log
    <3>2. IsFiniteSet(live') /\ live' \subseteq Log /\ Cardinality(live') <= MaxLive
      <4>1. /\ IsFiniteSet(live) /\ live \subseteq Log
            /\ Cardinality(live) \in Nat /\ Cardinality(live) <= MaxLive
        BY JournalShrinks
      <4>2. /\ IsFiniteSet(live \cup {log})
            /\ Cardinality(live \cup {log}) = Cardinality(live) + 1
        BY <2>3, <4>1, FS_AddElement
      <4>3. Cardinality(live) + 1 <= MaxLive
        BY <2>3, <4>1, EventsFacts
      <4> QED
        BY <1>4, <3>1, <4>1, <4>2, <4>3
    <3>3. late' \subseteq live' /\ \A l \in live' : Reconciled(cursor, l) => l \in late'
      BY <1>5, <3>1
    <3> QED
      BY <1>1, <1>3, <1>4, <3>1, <3>2, <3>3, BetweenRanges
  <2> QED
    BY <2>1, <2>2, <2>3
<1> QED
  BY <1>6, <1>7 DEF HandleLive

\* The logs of blocks are those of a range that ends after the last one.
LEMMA RangeLogs ==
    ASSUME NEW a \in Nat, NEW to \in Nat
    PROVE  LogsOfBlocks(a, to) = LogsOn(chain, a, to + 1)
<1> DEFINE end == to + 1
<1>1. end - 1 = to
  OBVIOUS
<1> HIDE DEF end
<1>2. LogsOfBlocks(a, end - 1) = LogsOn(chain, a, end)
  BY DEF LogsOfBlocks, LogsOn, BlockByNumber
<1> QED
  BY <1>1, <1>2 DEF end

\* A range is asked for, or an orphan handed back first.
LEMMA ReplayRangeKeeps ==
    ASSUME EventsInv, ReplayRange
    PROVE  EventsInv'
<1> DEFINE edge == BlockNumber - confirmations
           to == IF edge - cursor.next < BackfillRange THEN edge
                 ELSE cursor.next + BackfillRange - 1
           logs == LogsOfBlocks(cursor.next, to)
<1>1. /\ lane = "loop" /\ cursor # None /\ range = None
      /\ UNCHANGED <<chainVars, cursor, origin, confirmed>>
      /\ BlockNumber >= confirmations /\ cursor.next <= edge
  BY DEF ReplayRange, EventsInv, EventsShape, EventsTypeOK, CursorFirst
<1>2. /\ feed \in Seq([log : Log, removed : BOOLEAN]) /\ Len(feed) <= MaxFeed
      /\ late \subseteq live /\ \A l \in live : Reconciled(cursor, l) => l \in late
      /\ live \subseteq Log /\ ChainTypeOK
  BY <1>1 DEF EventsInv, EventsShape, EventsTypeOK, LeftBehindWasLate
<1>3. CASE ~BoundaryHolds
  <2>1. EventsStop /\ UNCHANGED <<live, late>>
    BY <1>3 DEF ReplayRange
  <2> QED
    BY <1>1, <2>1, EventsStopKeeps
<1>4. CASE BoundaryHolds /\ Orphans(logs, to) # {}
  <2>1. /\ \E log \in Orphans(logs, to) : live' = live \ {log} /\ late' = late \ {log}
        /\ UNCHANGED <<feed, lane, range>>
    BY <1>4 DEF ReplayRange
  <2> HIDE DEF logs, to
  <2>2. PICK log \in Orphans(logs, to) : live' = live \ {log} /\ late' = late \ {log}
    BY <2>1
  <2>3. IsFiniteSet(live') /\ live' \subseteq Log /\ Cardinality(live') <= MaxLive
    <3>1. live \ {log} \in SUBSET live
      OBVIOUS
    <3> QED
      BY <2>2, <3>1, JournalShrinks
  <2>4. late' \subseteq live' /\ \A l \in live' : Reconciled(cursor, l) => l \in late'
    BY <1>2, <2>2
  <2> QED
    BY <1>1, <1>2, <2>1, <2>3, <2>4, BetweenRanges
<1>5. CASE BoundaryHolds /\ Orphans(logs, to) = {}
  <2>1. /\ range' = [to |-> to, logs |-> logs] /\ lane' = "range"
        /\ UNCHANGED <<live, late, feed>>
    BY <1>5 DEF ReplayRange
  <2>2. /\ Len(chain) \in Nat /\ chain \in AllBlocks /\ tallest \in Nat
        /\ confirmations \in Nat /\ confirmations > 0 /\ Len(chain) <= tallest
        /\ \A m \in Nat : m + confirmations <= tallest => m <= FinalHeight
    BY <1>2, ChainNumbers
  <2>3. /\ cursor \in Cursor /\ cursor.next \in Nat /\ origin \in Nat
        /\ origin <= cursor.next /\ OnChain(chain, origin, cursor)
    BY <1>1 DEF EventsInv, CursorPlaced, OnChain, Cursor
  <2>4. to \in Nat /\ cursor.next <= to /\ to <= edge
    <3>1. edge \in Nat /\ cursor.next <= edge
      BY <1>1, <2>2 DEF BlockNumber
    <3> HIDE DEF edge
    <3> QED
      BY <2>3, <3>1, EventsFacts
  <2> HIDE DEF to
  <2>5. to + confirmations <= Len(chain) /\ to <= Len(chain)
    BY <2>2, <2>4 DEF BlockNumber
  <2>6. Settled(to)
    BY <2>2, <2>4, <2>5 DEF Settled
  <2> DEFINE end == to + 1
             x == LogsOn(chain, origin, cursor.next)
             y == LogsOn(chain, cursor.next, end)
             z == LogsOn(chain, origin, end)
  <2>7. logs = y
    BY <2>3, <2>4, RangeLogs
  <2>8. /\ end \in Nat /\ cursor.next <= end /\ end <= Len(chain) + 1
    BY <2>2, <2>3, <2>4, <2>5
  <2> HIDE DEF logs, end
  <2>9. /\ y \in Seq(Log) /\ Len(x) \in Nat /\ Len(y) \in Nat /\ Len(z) = Len(x) + Len(y)
        /\ \A i \in 1..Len(y) : z[Len(x) + i] = y[i]
    <3> DEFINE n == cursor.next
    <3>1. n \in Nat /\ origin \in Nat /\ origin <= n /\ n <= end
      BY <2>3, <2>8
    <3> HIDE DEF n
    <3>2. /\ LogsOn(chain, n, end) \in Seq(Log)
          /\ Len(LogsOn(chain, origin, n)) \in Nat /\ Len(LogsOn(chain, n, end)) \in Nat
          /\ Len(LogsOn(chain, origin, end))
                = Len(LogsOn(chain, origin, n)) + Len(LogsOn(chain, n, end))
          /\ \A i \in 1..Len(LogsOn(chain, n, end)) :
                LogsOn(chain, origin, end)[Len(LogsOn(chain, origin, n)) + i]
                    = LogsOn(chain, n, end)[i]
      BY <2>2, <2>8, <3>1, LogsOnPrefix
    <3> QED
      BY <3>2 DEF n
  <2>10. Len(confirmed) \in Nat /\ Len(confirmed) >= Len(x)
    <3>1. confirmed = UpTo(chain, origin, cursor)
      BY <1>1 DEF EventsInv, ConfirmedIsPassed
    <3>2. /\ Len(UpTo(chain, origin, cursor)) \in Nat
          /\ Len(UpTo(chain, origin, cursor)) =
                Len(x) + (IF cursor.block = None THEN 0 ELSE cursor.log - 1)
      BY <2>2, <2>3, <2>4, <2>5, UpToIs
    <3>3. cursor.log \in Nat /\ (cursor.block # None => cursor.log >= 1)
      <4>1. cursor.block # None => cursor.log \in 1..(Len(LogsOf(cursor.block)) + 1)
        BY <2>3 DEF OnChain
      <4> QED
        BY <2>3, <4>1 DEF Cursor
    <3> HIDE DEF x
    <3> QED
      BY <2>9, <3>1, <3>2, <3>3
  <2>11. EndOf(y, z) /\ Len(confirmed) + Len(y) >= Len(z)
    <3> HIDE DEF x, y, z
    <3>1. Len(y) <= Len(z) /\ Len(z) - Len(y) = Len(x)
      BY <2>9
    <3>2. \A i \in 1..Len(y) : y[i] = z[Len(z) - Len(y) + i]
      BY <2>9, <3>1
    <3> QED
      BY <2>9, <2>10, <3>1, <3>2 DEF EndOf
  <2>12. range' \in [to : Nat, logs : Seq(Log)] /\ range'.to = to /\ range'.logs = y
    <3> HIDE DEF y
    <3> QED
      BY <2>1, <2>4, <2>7, <2>9
  <2>13. EventsShape'
    BY <1>1, <2>1, <2>12 DEF chainVars, EventsInv, EventsShape, EventsTypeOK, ChainTypeOK
  <2>14. CursorFirst' /\ CursorPlaced' /\ ConfirmedIsPassed' /\ LeftBehindWasLate'
    BY <1>1, <2>1 DEF chainVars, EventsInv, CursorFirst, CursorPlaced, ConfirmedIsPassed,
       LeftBehindWasLate, Settled, FinalHeight
  <2>15. RangeRests'
    <3>1. /\ cursor'.next <= range'.to /\ Settled(range.to)'
          /\ range'.to + 1 = end
      BY <1>1, <2>4, <2>6, <2>12 DEF chainVars, Settled, FinalHeight, end
    <3>2. LogsOn(chain', origin', end) = z /\ confirmed' = confirmed
      BY <1>1 DEF chainVars
    <3> HIDE DEF y, z
    <3> QED
      BY <2>11, <2>12, <3>1, <3>2 DEF RangeRests
  <2>16. RangeHasLive'
    <3> SUFFICES ASSUME NEW log \in live, Number(log.block) <= to
                 PROVE  Reconciled(cursor, log) \/ \E i \in 1..Len(y) : y[i] = log
      <4> HIDE DEF y
      <4> QED
        BY <1>1, <2>1, <2>12 DEF RangeHasLive, Reconciled, Number
    <3>1. Number(log.block) \in Nat
      BY <1>2, Numbers DEF Log, Number
    <3>2. CASE Number(log.block) < cursor.next
      BY <3>2 DEF Reconciled
    <3>3. CASE ~(Number(log.block) < cursor.next)
      <4>1. Number(log.block) \in cursor.next..to
        BY <2>3, <2>4, <3>1, <3>3
      <4>2. log \in {logs[i] : i \in 1..Len(logs)}
        BY <1>5, <4>1 DEF Orphans
      <4> HIDE DEF y
      <4> QED
        BY <2>7, <4>2
    <3> QED
      BY <3>2, <3>3
  <2> QED
    BY <2>13, <2>14, <2>15, <2>16 DEF EventsInv
<1> QED
  BY <1>3, <1>4, <1>5

\* All logs there are to confirm up to the end of a range, and the place among them
\* of the range's next.
AllLogs == LogsOn(chain, origin, range.to + 1)
Place == Len(AllLogs) - Len(range.logs) + 1

\* What is known of the next log of a range: its place among all there is to confirm,
\* and that the rest of the range stands behind it.
LEMMA RangeHead ==
    ASSUME EventsInv, lane = "range", range.logs # <<>>
    PROVE  /\ cursor # None /\ OnChain(chain, origin, cursor) /\ cursor \in Cursor
           /\ range \in [to : Nat, logs : Seq(Log)] /\ range.to \in Nat
           /\ Settled(range.to) /\ cursor.next <= range.to
           /\ chain \in AllBlocks /\ origin \in Nat /\ origin <= range.to
           /\ range.to <= Len(chain) /\ Len(chain) \in Nat
           /\ AllLogs \in Seq(Log) /\ Len(AllLogs) \in Nat /\ Place \in 1..Len(AllLogs)
           /\ Head(range.logs) = AllLogs[Place] /\ AllLogs[Place] \in Log
           /\ Tail(range.logs) \in Seq(Log) /\ Len(Tail(range.logs)) = Len(AllLogs) - Place
           /\ EndOf(Tail(range.logs), AllLogs)
           /\ \A i \in 1..Len(range.logs) : range.logs[i] = AllLogs[Place - 1 + i]
           /\ \A i \in 1..Len(Tail(range.logs)) : Tail(range.logs)[i] = AllLogs[Place + i]
           /\ Len(range.logs) = Len(AllLogs) - Place + 1
           /\ confirmed = UpTo(chain, origin, cursor)
           /\ confirmed \in Seq(Log) /\ Len(confirmed) \in Nat /\ Len(confirmed) <= Len(AllLogs)
           /\ \A i \in 1..Len(confirmed) : confirmed[i] = AllLogs[i]
           /\ Len(confirmed) >= Place - 1
           /\ Reconciled(cursor, AllLogs[Place]) <=> Place <= Len(confirmed)
<1> DEFINE to == range.to
           logs == range.logs
           z == AllLogs
           k == Place
<1>1. /\ cursor # None /\ range \in [to : Nat, logs : Seq(Log)] /\ ChainTypeOK
      /\ confirmed = UpTo(chain, origin, cursor)
      /\ OnChain(chain, origin, cursor) /\ cursor.next <= to /\ Settled(to)
      /\ EndOf(logs, z) /\ Len(confirmed) + Len(logs) >= Len(z)
  BY DEF EventsInv, EventsShape, EventsTypeOK, CursorFirst, CursorPlaced, ConfirmedIsPassed,
         RangeRests, AllLogs
<1>2. /\ chain \in AllBlocks /\ Len(chain) \in Nat /\ to \in Nat /\ to <= Len(chain)
      /\ logs \in Seq(Log) /\ cursor \in Cursor /\ cursor.next \in Nat
      /\ origin \in Nat /\ origin <= to
  <2>1. chain \in AllBlocks /\ Len(chain) \in Nat
    BY <1>1, ChainNumbers
  <2>2. to \in Nat /\ logs \in Seq(Log) /\ to <= Len(chain)
    BY <1>1 DEF Settled
  <2>3. cursor \in Cursor /\ cursor.next \in Nat /\ origin \in Nat /\ origin <= cursor.next
    BY <1>1 DEF OnChain, Cursor
  <2> QED
    BY <1>1, <2>1, <2>2, <2>3
<1>3. logs # <<>>
  OBVIOUS
<1> HIDE DEF logs
<1>4. /\ Len(logs) \in Nat /\ Len(logs) > 0 /\ Head(logs) = logs[1] /\ Head(logs) \in Log
      /\ Tail(logs) \in Seq(Log) /\ Len(Tail(logs)) = Len(logs) - 1
      /\ \A i \in 1..(Len(logs) - 1) : Tail(logs)[i] = logs[i + 1]
  BY <1>2, <1>3, TailOf
<1>5. z = LogsOn(chain, origin, to + 1) /\ k = Len(z) - Len(logs) + 1
  BY DEF AllLogs, Place, logs
<1> HIDE DEF to, z, k
<1>6. /\ confirmed \in Seq(Log) /\ Len(confirmed) \in Nat
      /\ z \in Seq(Log) /\ Len(z) \in Nat /\ Len(confirmed) <= Len(z)
      /\ \A i \in 1..Len(confirmed) : confirmed[i] = z[i]
  BY <1>1, <1>2, <1>5, UpToIs
<1>7. Len(logs) <= Len(z) /\ \A i \in 1..Len(logs) : logs[i] = z[Len(z) - Len(logs) + i]
  BY <1>1 DEF EndOf
<1>8. /\ k = Len(z) - Len(logs) + 1 /\ k \in 1..Len(z)
      /\ Len(logs) = Len(z) - k + 1 /\ Len(Tail(logs)) = Len(z) - k
      /\ Len(z) - Len(Tail(logs)) = k /\ Len(Tail(logs)) <= Len(z)
      /\ Len(z) - Len(logs) = k - 1
  <2> DEFINE m == Len(logs)
             n == Len(z)
  <2>1. k = n - m + 1 /\ m \in Nat /\ n \in Nat /\ m > 0 /\ m <= n
    BY <1>4, <1>5, <1>6, <1>7
  <2>2. Len(Tail(logs)) = m - 1
    BY <1>4
  <2> HIDE DEF m, n
  <2> HIDE DEF k
  <2>3. k \in Int /\ k >= 1 /\ k <= n
    BY <2>1
  <2>4. /\ k \in 1..n /\ m = n - k + 1 /\ m - 1 = n - k
        /\ n - (m - 1) = k /\ m - 1 <= n /\ n - m = k - 1
    BY <2>1, <2>3
  <2> QED
    BY <2>1, <2>2, <2>4 DEF m, n
<1>9. \A i \in 1..Len(logs) : logs[i] = z[k - 1 + i]
  BY <1>7, <1>8
<1>10. \A i \in 1..Len(Tail(logs)) : Tail(logs)[i] = z[k + i]
  <2> SUFFICES ASSUME NEW i \in 1..Len(Tail(logs))
               PROVE  Tail(logs)[i] = z[k + i]
    OBVIOUS
  <2>1. i \in 1..(Len(logs) - 1) /\ i + 1 \in 1..Len(logs) /\ k - 1 + (i + 1) = k + i
    BY <1>4, <1>8
  <2> QED
    BY <1>4, <1>9, <2>1
<1>11. Head(logs) = z[k] /\ z[k] \in Log
  <2>1. 1 \in 1..Len(logs) /\ k - 1 + 1 = k
    BY <1>4, <1>8
  <2> QED
    BY <1>4, <1>9, <2>1
<1>12. EndOf(Tail(logs), z)
  BY <1>8, <1>10 DEF EndOf
<1>13. Len(confirmed) >= k - 1
  BY <1>1, <1>4, <1>6, <1>8
<1>14. Reconciled(cursor, z[k]) <=> k <= Len(confirmed)
  <2>1. k \in 1..Len(LogsOn(chain, origin, to + 1))
    BY <1>5, <1>8
  <2> QED
    BY <1>1, <1>2, <1>5, <2>1, ReconciledIsPassed
<1> QED
  BY <1>1, <1>2, <1>4, <1>6, <1>8, <1>9, <1>10, <1>11, <1>12, <1>13, <1>14 DEF to, logs, z, k

\* A log that was handled before a restart is passed over.
LEMMA PassOverKeeps ==
    ASSUME EventsInv, PassLog
    PROVE  EventsInv'
<1> DEFINE z == AllLogs
           k == Place
           rest == Tail(range.logs)
<1>1. /\ lane = "range" /\ range.logs # <<>>
      /\ range' = [range EXCEPT !.logs = rest]
      /\ UNCHANGED <<chainVars, feed, lane, origin, cursor, live, late, confirmed>>
      /\ Reconciled(cursor, Head(range.logs))
  BY DEF PassLog, Passing
<1>2. /\ range \in [to : Nat, logs : Seq(Log)] /\ Settled(range.to) /\ cursor.next <= range.to
      /\ z \in Seq(Log) /\ Len(z) \in Nat /\ k \in 1..Len(z)
      /\ Head(range.logs) = z[k]
      /\ rest \in Seq(Log) /\ Len(rest) = Len(z) - k /\ EndOf(rest, z)
      /\ \A i \in 1..Len(range.logs) : range.logs[i] = z[k - 1 + i]
      /\ \A i \in 1..Len(rest) : rest[i] = z[k + i]
      /\ Len(range.logs) = Len(z) - k + 1
      /\ Len(confirmed) \in Nat
      /\ Reconciled(cursor, z[k]) <=> k <= Len(confirmed)
  BY <1>1, RangeHead
<1> HIDE DEF z, k, rest
<1>3. range'.to = range.to /\ range'.logs = rest /\ range' \in [to : Nat, logs : Seq(Log)]
  BY <1>1, <1>2
<1>4. EventsShape'
  BY <1>1, <1>3 DEF chainVars, EventsInv, EventsShape, EventsTypeOK, ChainTypeOK
<1>5. CursorFirst' /\ CursorPlaced' /\ ConfirmedIsPassed' /\ LeftBehindWasLate'
  BY <1>1 DEF chainVars, EventsInv, CursorFirst, CursorPlaced, ConfirmedIsPassed,
     LeftBehindWasLate, Settled, FinalHeight
<1>6. RangeRests'
  <2>1. Len(confirmed) + Len(rest) >= Len(z)
    BY <1>1, <1>2
  <2>2. LogsOn(chain', origin', range'.to + 1) = z
    BY <1>1, <1>3 DEF chainVars, z, AllLogs
  <2>3. (Settled(range.to))'
    BY <1>1, <1>2, <1>3 DEF chainVars, Settled, FinalHeight
  <2> QED
    BY <1>1, <1>2, <1>3, <2>1, <2>2, <2>3 DEF RangeRests
<1>7. RangeHasLive'
  <2> SUFFICES ASSUME NEW log \in live, Number(log.block) <= range.to, ~Reconciled(cursor, log)
               PROVE  \E i \in 1..Len(rest) : rest[i] = log
    BY <1>1, <1>3 DEF RangeHasLive, Reconciled, Number
  <2>1. PICK i \in 1..Len(range.logs) : range.logs[i] = log
    BY <1>1 DEF EventsInv, RangeHasLive
  <2>2. i # 1
    <3>1. i = 1 => k - 1 + i = k
      BY <1>2
    <3> QED
      BY <1>1, <1>2, <2>1, <3>1
  <2>3. i - 1 \in 1..Len(rest) /\ k + (i - 1) = k - 1 + i
    BY <1>2, <2>2
  <2>4. rest[i - 1] = log
    BY <1>2, <2>1, <2>3
  <2> QED
    BY <2>3, <2>4
<1> QED
  BY <1>4, <1>5, <1>6, <1>7 DEF EventsInv

\* Where the next log of a range stands, when the replay has not handled it: right
\* behind what was confirmed, at or after the cursor.
HeadStands(n, i) ==
    /\ n \in origin..range.to /\ cursor.next <= n
    /\ SubSeq(chain, 1, n) \in AllBlocks /\ Len(SubSeq(chain, 1, n)) = n
    /\ i \in 1..Len(LogsOf(SubSeq(chain, 1, n))) /\ Len(LogsOf(SubSeq(chain, 1, n))) \in Nat
    /\ Head(range.logs) = [block |-> SubSeq(chain, 1, n), index |-> i]
    /\ cursor.next = n => cursor.block = None \/ cursor.log <= i
    /\ cursor.next = n /\ cursor.block # None => cursor.block = SubSeq(chain, 1, n)
    /\ Len(LogsOn(chain, origin, n)) \in Nat
    /\ Place = Len(LogsOn(chain, origin, n)) + i

LEMMA HeadIs ==
    ASSUME EventsInv, lane = "range", range.logs # <<>>,
           ~Reconciled(cursor, Head(range.logs))
    PROVE  \E n, i : HeadStands(n, i)
<1>1. /\ OnChain(chain, origin, cursor) /\ cursor \in Cursor
      /\ range.to \in Nat /\ cursor.next <= range.to
      /\ chain \in AllBlocks /\ origin \in Nat /\ origin <= range.to
      /\ range.to <= Len(chain) /\ Len(chain) \in Nat
      /\ Place \in 1..Len(AllLogs) /\ Head(range.logs) = AllLogs[Place]
  BY RangeHead
<1> DEFINE end == range.to + 1
<1>2. end \in Nat /\ origin <= end /\ end <= Len(chain) + 1 /\ end - 1 = range.to
  BY <1>1
<1>3. AllLogs = LogsOn(chain, origin, end)
  BY DEF AllLogs
<1> HIDE DEF end
<1>4. Placed(chain, origin, end, Place)
  BY <1>1, <1>2, <1>3, LogsOnPlaces
<1>5. PICK n \in origin..range.to : \E i \in 1..Len(LogsOf(SubSeq(chain, 1, n))) :
            /\ Place = Len(LogsOn(chain, origin, n)) + i
            /\ AllLogs[Place] = [block |-> SubSeq(chain, 1, n), index |-> i]
  BY <1>2, <1>3, <1>4 DEF Placed
<1> DEFINE block == SubSeq(chain, 1, n)
<1>6. PICK i \in 1..Len(LogsOf(block)) :
            /\ Place = Len(LogsOn(chain, origin, n)) + i
            /\ Head(range.logs) = [block |-> block, index |-> i]
  BY <1>1, <1>5
<1>7. /\ n \in Nat /\ block \in AllBlocks /\ Len(block) = n
      /\ Len(LogsOf(block)) \in Nat /\ Len(LogsOn(chain, origin, n)) \in Nat
  <2>1. n \in Nat /\ n \in 0..Len(chain) /\ origin <= n /\ n <= Len(chain)
    BY <1>1
  <2> QED
    BY <1>1, <2>1, Ancestors, LogsOnLength
<1>8. cursor.next \in Nat /\ cursor.log \in Nat
  BY <1>1 DEF Cursor
<1>9. ~(n < cursor.next) /\ ~(n = cursor.next /\ cursor.block = block /\ i < cursor.log)
  <2> HIDE DEF block
  <2> QED
    BY <1>6, <1>7 DEF Reconciled, Number
<1>10. cursor.next = n /\ cursor.block # None => cursor.block = block
  BY <1>1 DEF OnChain
<1>11. cursor.next <= n /\ (cursor.next = n => cursor.block = None \/ cursor.log <= i)
  <2> HIDE DEF block
  <2> QED
    BY <1>6, <1>7, <1>8, <1>9, <1>10
<1>12. HeadStands(n, i)
  BY <1>5, <1>6, <1>7, <1>10, <1>11 DEF HeadStands
<1> QED
  BY <1>12

\* A log of the range is confirmed.
LEMMA ConfirmOneKeeps ==
    ASSUME EventsInv, ConfirmLog
    PROVE  EventsInv'
<1> DEFINE log == Head(range.logs)
           rest == Tail(range.logs)
           to == range.to
<1>1. /\ lane = "range" /\ range.logs # <<>>
      /\ range' = [range EXCEPT !.logs = rest]
      /\ cursor' = [cursor EXCEPT !.next = Number(log.block),
                                  !.block = log.block, !.log = log.index + 1]
      /\ live' = live \ {log} /\ late' = late \ {log}
      /\ confirmed' = Append(confirmed, log)
      /\ UNCHANGED <<chainVars, feed, lane, origin>>
      /\ ~Reconciled(cursor, Head(range.logs))
  BY DEF ConfirmLog, Passing
<1>2. /\ cursor # None /\ cursor \in Cursor
      /\ range \in [to : Nat, logs : Seq(Log)] /\ to \in Nat /\ Settled(to)
      /\ chain \in AllBlocks /\ origin \in Nat /\ to <= Len(chain) /\ Len(chain) \in Nat
      /\ AllLogs \in Seq(Log) /\ Len(AllLogs) \in Nat /\ Place \in 1..Len(AllLogs)
      /\ log = AllLogs[Place] /\ log \in Log
      /\ rest \in Seq(Log) /\ Len(rest) = Len(AllLogs) - Place /\ EndOf(rest, AllLogs)
      /\ \A i \in 1..Len(range.logs) : range.logs[i] = AllLogs[Place - 1 + i]
      /\ \A i \in 1..Len(rest) : rest[i] = AllLogs[Place + i]
      /\ Len(range.logs) = Len(AllLogs) - Place + 1
      /\ confirmed \in Seq(Log) /\ Len(confirmed) \in Nat
      /\ \A i \in 1..Len(confirmed) : confirmed[i] = AllLogs[i]
      /\ Len(confirmed) >= Place - 1
      /\ Reconciled(cursor, AllLogs[Place]) <=> Place <= Len(confirmed)
  BY <1>1, RangeHead
<1>3. Place = Len(confirmed) + 1
  <2>1. ~(Place <= Len(confirmed))
    BY <1>1, <1>2
  <2>2. Place \in 1..Len(AllLogs) /\ Len(AllLogs) \in Nat
    BY <1>2
  <2>3. Len(confirmed) \in Nat /\ Len(confirmed) >= Place - 1
    BY <1>2
  <2> QED
    BY <2>1, <2>2, <2>3
<1>4. PICK n, i : HeadStands(n, i)
  BY <1>1, HeadIs
<1> DEFINE block == SubSeq(chain, 1, n)
<1>5. /\ n \in Nat /\ i \in Nat /\ i >= 1 /\ origin <= n /\ n <= to /\ cursor.next <= n
      /\ n <= Len(chain)
      /\ block \in AllBlocks /\ Len(block) = n /\ block # None
      /\ i + 1 \in 1..(Len(LogsOf(block)) + 1)
      /\ log.block = block /\ log.index = i
      /\ cursor.next \in Nat /\ cursor.log \in Nat
      /\ cursor.next = n => cursor.block = None \/ cursor.log <= i
      /\ cursor.next = n /\ cursor.block # None => cursor.block = block
      /\ Len(LogsOn(chain, origin, n)) \in Nat
      /\ Place = Len(LogsOn(chain, origin, n)) + i
  <2>1. /\ n \in origin..to /\ cursor.next <= n
        /\ block \in AllBlocks /\ Len(block) = n
        /\ i \in 1..Len(LogsOf(block)) /\ Len(LogsOf(block)) \in Nat
        /\ log = [block |-> block, index |-> i]
        /\ cursor.next = n => cursor.block = None \/ cursor.log <= i
        /\ cursor.next = n /\ cursor.block # None => cursor.block = block
        /\ Len(LogsOn(chain, origin, n)) \in Nat
        /\ Place = Len(LogsOn(chain, origin, n)) + i
    BY <1>4 DEF HeadStands
  <2> HIDE DEF block, log, to
  <2>2. n \in Nat /\ origin <= n /\ n <= to /\ n <= Len(chain)
    BY <1>2, <2>1
  <2>3. i \in Nat /\ i >= 1 /\ i + 1 \in 1..(Len(LogsOf(block)) + 1)
    BY <2>1
  <2>4. block # None
    BY <2>1, EventsFacts
  <2>5. cursor.next \in Nat /\ cursor.log \in Nat
    BY <1>2 DEF Cursor
  <2> QED
    BY <2>1, <2>2, <2>3, <2>4, <2>5
<1> HIDE DEF log, rest, to
<1>6. /\ range'.to = to /\ range'.logs = rest /\ range' \in [to : Nat, logs : Seq(Log)]
  BY <1>1, <1>2 DEF to
<1> HIDE DEF block
<1>7. /\ cursor' \in Cursor /\ cursor' # None
      /\ cursor'.next = n /\ cursor'.block = block /\ cursor'.log = i + 1
  <2>1. cursor' = [cursor EXCEPT !.next = n, !.block = block, !.log = i + 1]
    BY <1>1, <1>5 DEF Number
  <2>2. /\ cursor \in Cursor /\ n \in Nat /\ i + 1 \in Nat
        /\ block \in AllBlocks \cup {None}
    BY <1>2, <1>5
  <2>3. /\ cursor' \in Cursor
        /\ cursor'.next = n /\ cursor'.block = block /\ cursor'.log = i + 1
    BY <2>1, <2>2 DEF Cursor
  <2> QED
    BY <2>3, EventsFacts
<1>8. OnChain(chain, origin, cursor')
  BY <1>2, <1>5, <1>7 DEF OnChain, block
<1> DEFINE c == cursor'
           now == UpTo(chain, origin, c)
<1>9. /\ now \in Seq(Log) /\ Len(now) = Place /\ \A j \in 1..Len(now) : now[j] = AllLogs[j]
  <2>1. c.next <= to /\ OnChain(chain, origin, c) /\ c.block # None /\ c.log - 1 = i
    BY <1>5, <1>7, <1>8
  <2> HIDE DEF c
  <2>2. /\ now \in Seq(Log)
        /\ Len(now) = Len(LogsOn(chain, origin, c.next))
                        + (IF c.block = None THEN 0 ELSE c.log - 1)
        /\ \A j \in 1..Len(now) : now[j] = LogsOn(chain, origin, to + 1)[j]
    <3>1. chain \in AllBlocks /\ to \in Nat /\ to <= Len(chain)
      BY <1>2
    <3>2. /\ UpTo(chain, origin, c) \in Seq(Log)
          /\ Len(UpTo(chain, origin, c)) = Len(LogsOn(chain, origin, c.next))
                                            + (IF c.block = None THEN 0 ELSE c.log - 1)
          /\ \A j \in 1..Len(UpTo(chain, origin, c)) :
                UpTo(chain, origin, c)[j] = LogsOn(chain, origin, to + 1)[j]
      BY <2>1, <3>1, UpToIs
    <3> QED
      BY <3>2
  <2>3. AllLogs = LogsOn(chain, origin, to + 1) /\ c.next = n
    BY <1>7 DEF AllLogs, to, c
  <2> HIDE DEF now
  <2> QED
    BY <1>5, <2>1, <2>2, <2>3
<1>10. \A k \in 1..Len(AllLogs) : Reconciled(c, AllLogs[k]) <=> k <= Place
  <2>1. c.next <= to /\ OnChain(chain, origin, c)
    BY <1>5, <1>7, <1>8
  <2> HIDE DEF c
  <2>2. \A k \in 1..Len(LogsOn(chain, origin, to + 1)) :
            Reconciled(c, LogsOn(chain, origin, to + 1)[k]) <=> k <= Len(now)
    BY <1>2, <2>1, ReconciledIsPassed
  <2>3. AllLogs = LogsOn(chain, origin, to + 1)
    BY DEF AllLogs, to
  <2> HIDE DEF now
  <2> QED
    BY <1>9, <2>2, <2>3
<1>11. confirmed' = now /\ confirmed' \in Seq(Log) /\ Len(confirmed') = Place
  <2>1. /\ Append(confirmed, log) \in Seq(Log)
        /\ Len(Append(confirmed, log)) = Len(confirmed) + 1
        /\ \A j \in 1..Len(confirmed) : Append(confirmed, log)[j] = confirmed[j]
        /\ Append(confirmed, log)[Len(confirmed) + 1] = log
    BY <1>2, AppendProperties
  <2> HIDE DEF now
  <2>2. \A j \in 1..Place : confirmed'[j] = now[j]
    <3> SUFFICES ASSUME NEW j \in 1..Place
                 PROVE  confirmed'[j] = now[j]
      OBVIOUS
    <3>1. CASE j = Place
      BY <1>1, <1>2, <1>3, <1>9, <2>1, <3>1
    <3>2. CASE j # Place
      <4>1. j \in 1..Len(confirmed)
        BY <1>2, <1>3, <3>2
      <4> QED
        BY <1>1, <1>2, <1>9, <2>1, <4>1
    <3> QED
      BY <3>1, <3>2
  <2>3. confirmed' \in Seq(Log) /\ Len(confirmed') = Place
    BY <1>1, <1>3, <2>1
  <2> QED
    BY <1>9, <2>2, <2>3, SeqEqual
<1>12. ChainTypeOK /\ UNCHANGED <<chain, tallest, confirmations>>
  BY <1>1 DEF chainVars, EventsInv, EventsShape, EventsTypeOK
<1>13. EventsShape'
  <2>1. live \ {log} \in SUBSET live
    OBVIOUS
  <2>2. IsFiniteSet(live') /\ live' \subseteq Log /\ Cardinality(live') <= MaxLive
    BY <1>1, <2>1, JournalShrinks DEF log
  <2>3. late' \subseteq live'
    BY <1>1 DEF EventsInv, EventsShape, EventsTypeOK
  <2>4. ChainTypeOK'
    BY <1>12 DEF ChainTypeOK
  <2> QED
    BY <1>1, <1>6, <1>7, <1>11, <2>2, <2>3, <2>4 DEF EventsInv, EventsShape, EventsTypeOK
<1>14. CursorFirst'
  BY <1>7 DEF CursorFirst
<1>15. CursorPlaced'
  <2>1. /\ n <= FinalHeight /\ n <= Len(chain) /\ FinalHeight \in Nat
    <3>1. to <= FinalHeight /\ to \in Nat /\ n \in Nat /\ n <= to /\ n <= Len(chain)
      BY <1>2, <1>5 DEF Settled
    <3>2. FinalHeight \in Nat
      BY <1>12, ChainNumbers
    <3> QED
      BY <3>1, <3>2
  <2>2. n = origin \/ (n - 1 \in Nat /\ n - 1 <= FinalHeight /\ n - 1 <= Len(chain))
    <3>1. n \in Nat /\ origin \in Nat /\ origin <= n /\ Len(chain) \in Nat
      BY <1>2, <1>5
    <3> QED
      BY <2>1, <3>1
  <2> QED
    BY <1>1, <1>5, <1>7, <1>8, <1>12, <2>1, <2>2 DEF CursorPlaced, Settled, FinalHeight
<1>16. ConfirmedIsPassed'
  BY <1>1, <1>11, <1>12 DEF ConfirmedIsPassed
<1>17. RangeRests'
  <2>1. Len(confirmed') + Len(rest) >= Len(AllLogs)
    BY <1>2, <1>11 DEF rest
  <2>2. LogsOn(chain', origin', range'.to + 1) = AllLogs
    BY <1>1, <1>6, <1>12 DEF AllLogs, to
  <2>3. (Settled(range.to))'
    BY <1>2, <1>6, <1>12 DEF Settled, FinalHeight
  <2>4. EndOf(rest, AllLogs) /\ cursor'.next <= range'.to
    BY <1>2, <1>5, <1>6, <1>7 DEF rest
  <2> QED
    BY <1>6, <2>1, <2>2, <2>3, <2>4 DEF RangeRests
<1>18. ASSUME NEW l \in live', Number(l.block) <= to, Reconciled(cursor, l)
       PROVE  Reconciled(c, l)
  <2>1. Len(l.block) \in Nat
    <3>1. l \in Log
      BY <1>1 DEF EventsInv, EventsShape
    <3> QED
      BY <3>1, Numbers DEF Log
  <2>2. l.index \in Nat
    BY <1>1 DEF EventsInv, EventsShape, Log
  <2>3. c.next = n /\ c.block = block /\ c.log = i + 1
    BY <1>7
  <2> HIDE DEF c
  <2>4. CASE Len(l.block) < cursor.next
    BY <1>5, <2>1, <2>3, <2>4 DEF Reconciled, Number
  <2>5. CASE Len(l.block) = cursor.next /\ cursor.block = l.block /\ l.index < cursor.log
    <3>1. CASE cursor.next < n
      BY <2>3, <2>5, <3>1 DEF Reconciled, Number
    <3>2. CASE ~(cursor.next < n)
      <4>1. cursor.next = n
        BY <1>5, <3>2
      <4>2. cursor.block # None
        <5>1. l.block \in AllBlocks
          BY <1>1 DEF EventsInv, EventsShape, Log
        <5> QED
          BY <2>5, <5>1, EventsFacts
      <4>3. l.block = block /\ cursor.log <= i
        BY <1>5, <2>5, <4>1, <4>2
      <4>4. l.index < i + 1
        BY <1>5, <2>2, <2>5, <4>3
      <4> QED
        BY <2>3, <2>5, <4>1, <4>3, <4>4 DEF Reconciled, Number
    <3> QED
      BY <3>1, <3>2
  <2> QED
    BY <1>18, <2>4, <2>5 DEF Reconciled, Number
<1>19. ASSUME NEW l \in live', Number(l.block) <= to, ~Reconciled(cursor, l)
       PROVE  /\ ~Reconciled(c, l)
              /\ \E j \in 1..Len(rest) : rest[j] = l
  <2> HIDE DEF c
  <2>1. l \in live /\ l # log
    BY <1>1 DEF log
  <2>2. PICK j \in 1..Len(range.logs) : range.logs[j] = l
    BY <1>1, <1>19, <2>1 DEF EventsInv, RangeHasLive, to
  <2>3. l = AllLogs[Place - 1 + j] /\ log = AllLogs[Place]
    BY <1>2, <2>2 DEF log
  <2>4. j # 1
    <3>1. Place - 1 + 1 = Place
      BY <1>2
    <3> QED
      BY <2>1, <2>3, <3>1
  <2>5. /\ j - 1 \in 1..Len(rest) /\ Place + (j - 1) = Place - 1 + j
        /\ Place - 1 + j \in 1..Len(AllLogs) /\ ~(Place - 1 + j <= Place)
    BY <1>2, <2>2, <2>4 DEF rest
  <2>6. ~Reconciled(c, l)
    BY <1>10, <2>3, <2>5
  <2>7. rest[j - 1] = AllLogs[Place + (j - 1)]
    BY <1>2, <2>5 DEF rest
  <2> QED
    BY <2>3, <2>5, <2>6, <2>7
<1>20. RangeHasLive'
  <2>1. \A l \in live' : Number(l.block) <= to =>
            Reconciled(c, l) \/ \E j \in 1..Len(rest) : rest[j] = l
    BY <1>18, <1>19
  <2> QED
    BY <1>6, <2>1 DEF RangeHasLive, Reconciled, Number
<1>21. LeftBehindWasLate'
  <2> SUFFICES ASSUME NEW l \in live', Reconciled(c, l)
               PROVE  l \in late'
    BY DEF LeftBehindWasLate, Reconciled, Number
  <2>1. l \in live /\ l # log
    BY <1>1 DEF log
  <2>2. Len(l.block) \in Nat
    <3>1. l \in Log
      BY <2>1 DEF EventsInv, EventsShape
    <3> QED
      BY <3>1, Numbers DEF Log
  <2>3. Number(l.block) <= to
    <3>1. Len(l.block) <= c.next
      BY <1>5, <1>7, <2>2 DEF Reconciled, Number
    <3>2. c.next = n /\ n \in Nat /\ n <= to /\ to \in Nat
      BY <1>2, <1>5, <1>7
    <3> HIDE DEF c
    <3> QED
      BY <2>2, <3>1, <3>2 DEF Number
  <2>4. Reconciled(cursor, l)
    BY <1>19, <2>3
  <2>5. l \in late
    BY <1>2, <2>1, <2>4 DEF EventsInv, LeftBehindWasLate
  <2> QED
    BY <1>1, <2>1, <2>5 DEF log
<1> QED
  BY <1>13, <1>14, <1>15, <1>16, <1>17, <1>20, <1>21 DEF EventsInv

\* The range is done, and the cursor moves behind it.
LEMMA EndRangeKeeps ==
    ASSUME EventsInv, EndRange
    PROVE  EventsInv'
<1> DEFINE to == range.to
           end == to + 1
           z == LogsOn(chain, origin, end)
<1>1. /\ lane = "range" /\ range.logs = <<>> /\ lane' = "loop" /\ range' = None
      /\ cursor' = [next |-> to + 1, block |-> None, log |-> 0, parent |-> BlockByNumber(to)]
      /\ UNCHANGED <<chain, tallest, confirmations, live, feed, origin, confirmed, late>>
  BY DEF EndRange, chainVars
<1>2. /\ cursor # None /\ range \in [to : Nat, logs : Seq(Log)] /\ ChainTypeOK
      /\ confirmed = UpTo(chain, origin, cursor)
      /\ OnChain(chain, origin, cursor) /\ cursor.next <= to /\ Settled(to)
      /\ Len(confirmed) + Len(range.logs) >= Len(z)
  BY <1>1 DEF EventsInv, EventsShape, EventsTypeOK, CursorFirst, CursorPlaced,
     ConfirmedIsPassed, RangeRests
<1>3. /\ chain \in AllBlocks /\ Len(chain) \in Nat /\ to \in Nat /\ to <= Len(chain)
      /\ origin \in Nat /\ origin <= to
  <2>1. chain \in AllBlocks /\ Len(chain) \in Nat
    BY <1>2, ChainNumbers
  <2>2. to \in Nat /\ to <= Len(chain)
    BY <1>2 DEF Settled
  <2>3. cursor.next \in Nat /\ origin \in Nat /\ origin <= cursor.next
    BY <1>2 DEF OnChain, Cursor
  <2> QED
    BY <1>2, <2>1, <2>2, <2>3
<1>4. end \in Nat /\ origin <= end /\ end - 1 = to /\ end = to + 1
  BY <1>3
<1> HIDE DEF to
<1>5. /\ confirmed \in Seq(Log) /\ Len(confirmed) \in Nat
      /\ z \in Seq(Log) /\ Len(z) \in Nat /\ Len(confirmed) <= Len(z)
      /\ \A i \in 1..Len(confirmed) : confirmed[i] = z[i]
  BY <1>2, <1>3, UpToIs
<1> HIDE DEF end
<1>6. confirmed = z
  <2>1. Len(range.logs) = 0
    BY <1>1
  <2> HIDE DEF z
  <2>2. Len(confirmed) = Len(z)
    BY <1>2, <1>5, <2>1
  <2> QED
    BY <1>5, <2>2, SeqEqual
<1>7. /\ cursor' \in Cursor /\ cursor' # None /\ cursor'.next = end /\ cursor'.block = None
  <2>1. to \in 0..Len(chain)
    BY <1>3
  <2>2. BlockByNumber(to) \in AllBlocks
    BY <1>3, <2>1, Ancestors DEF BlockByNumber
  <2>3. cursor' = [next |-> end, block |-> None, log |-> 0, parent |-> BlockByNumber(to)]
    BY <1>1 DEF end
  <2>4. cursor' \in Cursor /\ cursor'.next = end /\ cursor'.block = None
    BY <1>4, <2>2, <2>3 DEF Cursor
  <2> QED
    BY <2>4, EventsFacts
<1>8. EventsShape'
  BY <1>1, <1>7 DEF EventsInv, EventsShape, EventsTypeOK, ChainTypeOK
<1>9. CursorFirst' /\ RangeRests' /\ RangeHasLive'
  BY <1>1, <1>7 DEF CursorFirst, RangeRests, RangeHasLive
<1>10. CursorPlaced'
  <2>1. OnChain(chain, origin, cursor')
    BY <1>3, <1>4, <1>7 DEF OnChain
  <2>2. (Settled(cursor.next - 1))'
    BY <1>1, <1>2, <1>4, <1>7 DEF Settled, FinalHeight
  <2> QED
    BY <1>1, <1>7, <2>1, <2>2 DEF CursorPlaced
<1>11. ConfirmedIsPassed'
  <2>1. UpTo(chain, origin, cursor') = z \o <<>>
    BY <1>7 DEF UpTo
  <2> HIDE DEF z
  <2>2. z \o <<>> = z
    BY <1>5, ConcatEmptySeq
  <2> QED
    BY <1>1, <1>6, <2>1, <2>2 DEF ConfirmedIsPassed
<1>12. LeftBehindWasLate'
  <2> SUFFICES ASSUME NEW l \in live, Reconciled(cursor', l)
               PROVE  l \in late
    BY <1>1 DEF LeftBehindWasLate, Reconciled, Number
  <2>1. Len(l.block) \in Nat /\ l.block # None
    <3>1. l.block \in AllBlocks
      BY DEF EventsInv, EventsShape, Log
    <3> QED
      BY <3>1, Numbers, EventsFacts
  <2>2. Number(l.block) <= to
    <3>1. Len(l.block) < end
      BY <1>7, <2>1 DEF Reconciled, Number
    <3> QED
      BY <1>3, <1>4, <2>1, <3>1 DEF Number
  <2>3. Reconciled(cursor, l)
    <3>1. 1..Len(range.logs) = {}
      BY <1>1
    <3> QED
      BY <1>1, <2>2, <3>1 DEF EventsInv, RangeHasLive, to
  <2> QED
    BY <1>2, <2>3 DEF EventsInv, LeftBehindWasLate
<1> QED
  BY <1>8, <1>9, <1>10, <1>11, <1>12 DEF EventsInv

LEMMA EventsNextKeeps ==
    ASSUME EventsInv, EventsNext
    PROVE  EventsInv'
<1>1. CASE EventsFails
  BY <1>1, EventsStopKeeps DEF EventsFails
<1> QED
  BY <1>1, PassOverKeeps, ConfirmOneKeeps, EventsChainStepKeeps, EventsStartsKeeps, HandleLiveKeeps, ReplayRangeKeeps,
     EndRangeKeeps DEF EventsNext

\* What a step of any source keeps.
LEMMA EventsSourcesStepKeeps ==
    ASSUME EventsInv, [SourcesNext]_sourceVars
    PROVE  EventsInv'
<1>1. CASE EventsNext
  BY <1>1, EventsNextKeeps
<1>2. CASE BlocksNext /\ UNCHANGED eventsOwn
  <2>1. CASE BlocksChainStep
    <3>1. ChainStep
      BY <2>1 DEF BlocksChainStep
    <3>2. UNCHANGED <<cursor, live, feed, lane, range, origin, confirmed, late>>
      BY <1>2 DEF eventsOwn
    <3>3. feed' \in Seq([log : Log, removed : BOOLEAN]) /\ Len(feed') <= MaxFeed
      BY <3>2 DEF EventsInv, EventsShape, EventsTypeOK
    <3> QED
      BY <3>1, <3>2, <3>3, EventsChainMoves
  <2>2. CASE UNCHANGED chainVars
    BY <1>2, <2>2, EventsStill
  <2> QED
    BY <1>2, <2>1, <2>2
    DEF BlocksNext, BlocksStarts, BlocksFails, TakeHead, BlocksTick, RollbackOrphans,
        FetchBlocks, ApplyBlock, ReceiptUnavailable
<1>3. CASE UNCHANGED <<chainVars, eventsOwn>>
  BY <1>3, EventsStill
<1> QED
  BY <1>1, <1>2, <1>3 DEF SourcesNext, sourceVars

\* What is behind the cursor of evm.Events is final, was confirmed in order, and what
\* the journal still has of it came late (reconcileOne in events.go).
THEOREM EventsInvariant == SourcesSpec => []EventsInv
<1>1. SourcesInit => EventsInv
  BY EventsInvInit
<1>2. EventsInv /\ [SourcesNext]_sourceVars => EventsInv'
  BY EventsSourcesStepKeeps
<1> QED
  BY <1>1, <1>2, PTL DEF SourcesSpec

LEMMA ConfirmedIs ==
    ASSUME EventsInv
    PROVE  ConfirmedExactly
<1> SUFFICES ASSUME cursor # None
             PROVE  confirmed = LogsOfBlocks(origin, cursor.next - 1)
                        \o (IF cursor.block = None THEN <<>>
                            ELSE SubSeq(LogsOf(cursor.block), 1, cursor.log - 1))
  BY DEF ConfirmedExactly
<1>1. confirmed = UpTo(chain, origin, cursor)
  BY DEF EventsInv, ConfirmedIsPassed
<1>2. LogsOfBlocks(origin, cursor.next - 1) = LogsOn(chain, origin, cursor.next)
  BY DEF LogsOfBlocks, LogsOn, BlockByNumber
<1> QED
  BY <1>1, <1>2 DEF UpTo

\* Wherever the replay of evm.Events was cut, what it gave its handler as confirmed are
\* the logs of the final blocks up to its cursor: each once, in order, none skipped
\* (events.go, reconcileOne).
THEOREM ConfirmedCorrect == SourcesSpec => []ConfirmedExactly
<1>1. EventsInv => ConfirmedExactly
  BY ConfirmedIs
<1> QED
  BY <1>1, EventsInvariant, PTL

\* A log that was handled live has been confirmed or handed back when the replay has
\* passed its block, unless it was pushed after that (events.go, reconcileOne).
THEOREM LeftBehindCorrect == SourcesSpec => []LeftBehindWasLate
<1>1. EventsInv => LeftBehindWasLate
  BY DEF EventsInv
<1> QED
  BY <1>1, EventsInvariant, PTL

-----------------------------------------------------------------------------
(* All sources *)

\* The checkpoints and queues of every source keep the shape and the bounds the code
\* gives them, whichever source is deployed and wherever it fails (blocks.go and
\* events.go of the EVM sources, events.go of the Solana source).
THEOREM SourcesInvariant == SourcesSpec => []SourcesInv
<1>1. BlocksInv /\ EventsInv /\ AddressInv => SourcesInv
  BY DEF SourcesInv, EventsInv, EventsShape, AddressInv, AddressShape
<1> QED
  BY <1>1, BlocksInvariant, EventsInvariant, AddressInvariant, PTL

=============================================================================
