--------------------------- MODULE AddressEvents ----------------------------
(* solana.AddressEvents (catalog/quicknode/solana/events.go): transactions that
   involve one address, given to the handler as they are pushed, and otherwise
   from the finalized history, which is read in pages.

   A handled push enters a journal so that the history does not handle it again.
   The cursor of the history moves in memory; it is committed with each update,
   and at the end of a page.  The hints kept of pushes (hints) repeat what the
   journal and MatchLogs say, and are left out. *)
EXTENDS Naturals, FiniteSets, Sequences

CONSTANTS
    MaxTx,          \* bound on the finalized history: transactions 1..MaxTx
    SlotOf,         \* the slot of each
    IndexOf,        \* and its transaction index in the slot, from 0
    Dropped,        \* transactions that are pushed and never finalized
    Matching,       \* transactions MatchLogs accepts
    Updating,       \* those for which Handle returns an update
    AddressFrom,    \* choices of AddressEvents.BackfillFrom: slots, or NoSlot
    NoSlot,
    PageSize,       \* records of a page (100 in catchUp)
    MaxJournal,     \* maxAddressLiveEvents
    MaxPushes       \* capacity of the notification channel

Finalizable == 1..MaxTx
Transactions == Finalizable \cup Dropped

\* A position in the history: addressCursor.
AddressCursor == [slot : Nat, index : Nat, signature : Nat]

ASSUME AddressAssumption ==
    /\ NoSlot \notin AddressCursor
    /\ MaxTx \in Nat /\ PageSize \in Nat \ {0}
    /\ MaxJournal \in Nat /\ MaxPushes \in Nat
    /\ SlotOf \in [Finalizable -> Nat \ {0}] /\ IndexOf \in [Finalizable -> Nat]
    /\ \A t \in 2..MaxTx :
            \/ SlotOf[t - 1] < SlotOf[t]
            \/ SlotOf[t - 1] = SlotOf[t] /\ IndexOf[t - 1] < IndexOf[t]
    /\ Dropped \subseteq Nat \ (0..MaxTx)
    /\ Updating \subseteq Matching /\ Matching \subseteq Transactions
    /\ AddressFrom \subseteq Nat \cup {NoSlot} /\ NoSlot \notin Nat

VARIABLES
    final,          \* how much of the history is finalized
    saved,          \* checkpoint: the cursor, or NoSlot
    journal,        \* checkpoint: transactions handled from pushes
    tip,            \* catchUp's cursor, which may be ahead of the saved one
    pushes,         \* notifications on their way
    stage,          \* where run is: "none", "down", "select", "fetch", "page"
    page,           \* [from: next record to read, todo, full, dirty]
    first,          \* history: the cursor the deployment started at, or NoSlot
    handled,        \* history: how often each update was committed
    overdue         \* history: transactions pushed when the cursor had passed them

addressVars == <<final, saved, journal, tip, pushes, stage, page, first, handled, overdue>>

NoPage == [from |-> 1, todo |-> <<>>, full |-> FALSE, dirty |-> FALSE]

CursorAt(t) == [slot |-> SlotOf[t], index |-> IndexOf[t], signature |-> t]

Beyond_Mutant(t, cursor) == SlotOf[t] > cursor.slot

\* The record is after the cursor.
Beyond(t, cursor) ==
    \/ SlotOf[t] > cursor.slot
    \/ SlotOf[t] = cursor.slot /\ IndexOf[t] > cursor.index

\* The first record of getTransactionsForAddress from a slot on.
FromSlot(slot) ==
    CHOOSE n \in 1..(MaxTx + 1) :
        /\ \A t \in Finalizable : t < n => SlotOf[t] < slot
        /\ n <= MaxTx => SlotOf[n] >= slot

-----------------------------------------------------------------------------

AddressInit ==
    /\ final = 0
    /\ saved = NoSlot /\ tip = NoSlot /\ first = NoSlot
    /\ journal = {} /\ pushes = <<>> /\ stage = "down" /\ page = NoPage
    /\ handled = [t \in Transactions |-> 0] /\ overdue = {}

\* What the module's variables are when another source is deployed.
AddressAbsent ==
    /\ final = 0
    /\ saved = NoSlot /\ tip = NoSlot /\ first = NoSlot
    /\ journal = {} /\ pushes = <<>> /\ stage = "none" /\ page = NoPage
    /\ handled = [t \in Transactions |-> 0] /\ overdue = {}

Finalize ==
    /\ stage # "none" /\ final < MaxTx
    /\ final' = final + 1
    /\ UNCHANGED <<saved, journal, tip, pushes, stage, page, first, handled, overdue>>

\* transactionSubscribe delivers a transaction: before it is final, after, though
\* it never will be, or again.  What it delivers to no one is lost.
Push ==
    /\ stage \notin {"none", "down"} /\ Len(pushes) < MaxPushes
    /\ \E t \in Transactions : pushes' = Append(pushes, t)
    /\ UNCHANGED <<final, saved, journal, tip, stage, page, first, handled, overdue>>

\* A fresh deployment starts after the newest finalized transaction, or with
\* BackfillFrom before the first index but one of the slot below.
StartCursor(from) ==
    IF from = NoSlot
    THEN IF final = 0 THEN [slot |-> 0, index |-> MaxTx, signature |-> 0] ELSE CursorAt(final)
    ELSE [slot |-> IF from > 0 THEN from - 1 ELSE 0, index |-> 0, signature |-> 0]

CatchUpFrom(cursor) ==
    /\ stage' = "fetch"
    /\ page' = [NoPage EXCEPT !.from = FromSlot(cursor.slot)]

\* A journal above its bound would keep every worker from starting.
LoadJournal == Cardinality(journal) <= MaxJournal /\ UNCHANGED journal

AddressStarts ==
    /\ stage = "down"
    /\ IF saved # NoSlot
       THEN UNCHANGED <<saved, first>>
       ELSE \E from \in AddressFrom : saved' = StartCursor(from) /\ first' = saved'
    /\ LoadJournal
    /\ tip' = saved'
    /\ CatchUpFrom(saved')
    /\ UNCHANGED <<final, pushes, handled, overdue>>

AddressFails ==
    /\ stage \notin {"none", "down"}
    /\ stage' = "down" /\ pushes' = <<>> /\ page' = NoPage /\ tip' = saved
    /\ UNCHANGED <<final, saved, journal, first, handled, overdue>>

AddressTick ==
    /\ stage = "select"
    /\ CatchUpFrom(tip)
    /\ UNCHANGED <<final, saved, journal, tip, pushes, first, handled, overdue>>

FetchPage ==
    /\ stage = "fetch"
    /\ LET last == IF page.from + PageSize - 1 < final THEN page.from + PageSize - 1 ELSE final
           size == IF last < page.from THEN 0 ELSE last - page.from + 1
       IN page' = [from |-> page.from + size,
                   todo |-> [i \in 1..size |-> page.from + i - 1],
                   full |-> size = PageSize, dirty |-> FALSE]
    /\ stage' = "page"
    /\ UNCHANGED <<final, saved, journal, tip, pushes, first, handled, overdue>>

NeedsHandling_Mutant(t) == t \in Updating

\* Not handled when it was pushed.
NeedsHandling(t) == t \in Updating /\ t \notin journal

\* One record of a page.  The update, the cursor and the journal are one commit;
\* a record that changes nothing moves only the cursor in memory.
HandleRecord ==
    /\ stage = "page"
    /\ page.todo # <<>>
    /\ LET t == Head(page.todo) IN
        IF ~Beyond(t, tip)
        THEN /\ page' = [page EXCEPT !.todo = Tail(@)]
             /\ UNCHANGED <<saved, journal, tip, handled>>
        ELSE /\ tip' = CursorAt(t)
             /\ journal' = journal \ {t}
             /\ handled' = IF NeedsHandling(t) THEN [handled EXCEPT ![t] = @ + 1] ELSE handled
             /\ IF NeedsHandling(t) \/ t \in journal
                THEN /\ saved' = CursorAt(t)
                     /\ page' = [page EXCEPT !.todo = Tail(@), !.dirty = FALSE]
                ELSE /\ page' = [page EXCEPT !.todo = Tail(@), !.dirty = TRUE]
                     /\ UNCHANGED saved
    /\ UNCHANGED <<final, pushes, stage, first, overdue>>

EndPage_Mutant ==
    /\ stage = "page"
    /\ page.todo = <<>>
    /\ stage' = IF page.full THEN "fetch" ELSE "select"
    /\ page' = IF page.full THEN page ELSE NoPage
    /\ UNCHANGED <<final, saved, journal, tip, pushes, first, handled, overdue>>

EndPage ==
    /\ stage = "page"
    /\ page.todo = <<>>
    /\ saved' = IF page.dirty THEN tip ELSE saved
    /\ stage' = IF page.full THEN "fetch" ELSE "select"
    /\ page' = IF page.full THEN page ELSE NoPage
    /\ UNCHANGED <<final, journal, tip, pushes, first, handled, overdue>>

JournalFull_Mutant == Cardinality(journal) > MaxJournal

JournalFull == Cardinality(journal) >= MaxJournal

\* A push is handled and journaled unless the journal has it, it is the one the
\* cursor is at, it does not match, or the journal is full; then it is left to
\* the history.
HandlePush ==
    /\ stage = "select"
    /\ pushes # <<>>
    /\ pushes' = Tail(pushes)
    /\ LET t == Head(pushes) IN
        IF t = tip.signature \/ t \in journal \/ t \notin Matching \/ JournalFull
        THEN UNCHANGED <<journal, handled, overdue>>
        ELSE /\ journal' = journal \cup {t}
             /\ handled' = IF t \in Updating THEN [handled EXCEPT ![t] = @ + 1] ELSE handled
             /\ overdue' = overdue \cup {s \in {t} \cap Finalizable : ~Beyond(s, tip)}
    /\ UNCHANGED <<final, saved, tip, stage, page, first>>

AddressNext ==
    \/ Finalize
    \/ Push
    \/ AddressStarts
    \/ AddressFails
    \/ AddressTick
    \/ FetchPage
    \/ HandleRecord
    \/ EndPage
    \/ HandlePush

-----------------------------------------------------------------------------
(* Properties *)

AddressTypeOK ==
    /\ final \in 0..MaxTx
    /\ stage \in {"none", "down", "select", "fetch", "page"}
    /\ journal \subseteq Matching /\ Cardinality(journal) <= MaxJournal
    /\ Len(pushes) <= MaxPushes
    /\ handled \in [Transactions -> Nat]

\* Wherever the worker dies, within a page or between pages, every update of the
\* finalized history up to the saved cursor has been committed.
HistoryNotSkipped ==
    \A t \in Updating \cap 1..final :
        saved # NoSlot /\ Beyond(t, first) /\ ~Beyond(t, saved) => handled[t] >= 1

\* An update is committed twice only if the transaction was pushed when the
\* history had already passed it: pushes before that are recognised, after any
\* restart.
HandledTwiceWasOverdue ==
    \A t \in Updating \cap Finalizable : handled[t] >= 2 => t \in overdue

\* The saved cursor is at the end of the history, also when what it passed last
\* needed no update.
AddressCaughtUp ==
    stage # "none" =>
        saved # NoSlot /\ \A t \in 1..final : Beyond(t, first) => ~Beyond(t, saved)
=============================================================================
