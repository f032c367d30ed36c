SPECIFICATION SourcesSpec
CONSTANTS
    Forks = {"a", "b"}
    MaxHeight = 3
    None = None
    BlocksConfirmations = {2}
    BackfillFroms = {None, 1}
    ReplayBatch = 2
    MaxRecent = 4
    MaxHeads = 1
    EventsConfirmations = {1}
    EventsFrom = {None, 1}
    Rich = {"a"}
    BackfillRange = 2
    MaxLive = 3
    MaxFeed = 3
    MaxTx = 4
    SlotOf <- MCSlotOf
    IndexOf <- MCIndexOf
    Dropped = {9}
    Matching = {1, 2, 3, 9}
    Updating = {2, 3, 9}
    AddressFrom = {NoSlot, 2}
    NoSlot = NoSlot
    PageSize = 2
    MaxJournal = 1
    MaxPushes = 1
INVARIANTS
    SourcesInv
    BlocksApplyOneChain
    JournalCoversReorganizations
    ConfirmedExactly
    LeftBehindWasLate
    HistoryNotSkipped
    HandledTwiceWasOverdue
PROPERTIES
    SourcesCatchUp
