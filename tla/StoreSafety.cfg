\* Frames of current and past generations, their events and the retention sweeps;
\* or a name that expires, is purged and deployed again while reads are outstanding.
SPECIFICATION SafetySpec
CONSTANTS
    s1 = s1
    s2 = s2
    c1 = c1
    src = src
    v1 = v1
    e1 = e1
    m1 = m1
    m2 = m2
    None = None
    States = {s1, s2}
    Configs = {c1, c2}
    Artifacts = {a1}
    Sources = {src}
    CheckpointValues = {v1}
    EventIds = {e1}
    EventBodies = {m1, m2}
    Payloads <- SafetyPayloads
    Expiries = {"later"}
    Builders = {b1}
    MaxDeployments = 2
    MaxRevision = 2
    MaxGeneration = 2
INVARIANTS
    FenceInv
    AppliedOnceInOrder
    ReceiptsKeptWhileActive
    EventsHaveReceipts
    EventIdsUnique
PROPERTIES
    LaunchedFromCurrentState
    BuildReplacesItsBase
    ImplementsRegister
    NothingAppliedPastFence
