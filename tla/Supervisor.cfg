\* Two callbacks, two commits, and a stop at any moment.
SPECIFICATION Spec
CONSTANTS
    MaxCallbacks = 2
    MaxCommits = 2
INVARIANTS
    TypeOK
    CommitsWatched
    FailuresCounted
PROPERTIES
    GivenUpForCause
    NoCallbackAfterUncertain
    SettlementBounded
CHECK_DEADLOCK FALSE
