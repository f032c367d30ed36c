\* Two workers in turn under every command, sweep and expiry; one that never comes is
\* an expiry that is not set.  One state: transactions are told apart by their events.
SPECIFICATION RelaySpec
CONSTANTS
    s1 = s1
    s2 = s1
    e1 = e1
    m1 = m1
    None = None
    States = {s1}
    Configs = {c1}
    Artifacts = {a1}
    Sources = {}
    CheckpointValues = {}
    EventIds = {e1}
    EventBodies = {m1}
    Payloads <- RelayPayloads
    Expiries = {"later"}
    Builders = {b1}
    MaxDeployments = 1
    MaxRevision = 1
    MaxGeneration = 2
    MaxPipe = 1
    Others = {"command", "expiry", "sweep"}
INVARIANTS
    RelayTypeOK
PROPERTIES
    ImplementsStore
    CommitsSettle
