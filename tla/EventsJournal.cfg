SPECIFICATION EventsSpec
CONSTANTS
    Forks = {"a", "b"}
    MaxHeight = 3
    None = None
    EventsConfirmations = {1}
    EventsFrom = {None, 1}
    Rich = {"a"}
    BackfillRange = 2
    MaxLive = 3
    MaxFeed = 3
INVARIANT
    JournaledUntilBoundary
