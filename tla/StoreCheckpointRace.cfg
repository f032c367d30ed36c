\* A pause, clear and resume between the runtime snapshot and the activation.
SPECIFICATION Spec
CONSTANTS
    s1 = s1
    s2 = s2
    src = src
    v1 = v1
    e1 = e1
    m1 = m1
    m2 = m2
    None = None
    States = {s1}
    Configs = {c1}
    Artifacts = {a1}
    Sources = {src}
    CheckpointValues = {v1}
    EventIds = {}
    EventBodies = {m1, m2}
    Payloads <- ProgressPayloads
    Expiries = {"never"}
    Builders = {b1}
    MaxDeployments = 1
    MaxRevision = 1
    MaxGeneration = 2
PROPERTY
    LaunchedFromCurrentCheckpoints
