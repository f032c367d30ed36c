\* Two deliveries, one claimed at a time, so that claiming in order matters.
SPECIFICATION Spec
CONSTANTS
    Events = {e1, e2}
    Destinations = {d1}
    Batch = 1
    MaxLeases = 4
    MaxFaults = 2
INVARIANTS
    TypeOK
    DuplicatesExplained
    TerminalIsDeserved
PROPERTIES
    NothingDropped
    EventuallySettled
\* With everything settled or purged there is nothing left to do.
CHECK_DEADLOCK FALSE
