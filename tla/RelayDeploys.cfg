\* Frames, resends and ACKs of two workers in turn, with deploys between them.
SPECIFICATION RelaySpec
CONSTANTS
    s1 = s1
    s2 = s2
    e1 = e1
    m1 = m1
    None = None
    States = {s1, s2}
    Configs = {c1}
    Artifacts = {a1}
    Sources = {}
    CheckpointValues = {}
    EventIds = {e1}
    EventBodies = {m1}
    Payloads <- RelayPayloads
    Expiries = {"never"}
    Builders = {b1}
    MaxDeployments = 1
    MaxRevision = 2
    MaxGeneration = 2
    MaxPipe = 1
    Others = {"deploy"}
INVARIANTS
    SessionAgrees
    RefusedForCause
    AcksExpected
PROPERTIES
    BoundToCurrent
