\* A stop that reaches a worker whose callback has overrun its timeout.
SPECIFICATION Spec
CONSTANTS
    MaxCallbacks = 1
    MaxCommits = 1
INVARIANT
    StopAfterCallbacks
CHECK_DEADLOCK FALSE
