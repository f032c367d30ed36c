\* Two deploy commands and a purge of the row the first one read.
SPECIFICATION Spec
CONSTANTS
    s1 = s1
    s2 = s2
    src = src
    v1 = v1
    e1 = e1
    m1 = m1
    m2 = m2
    None = None
    States = {s1, s2}
    Configs = {c1}
    Artifacts = {a1}
    Sources = {src}
    CheckpointValues = {v1}
    EventIds = {}
    EventBodies = {m1, m2}
    Payloads <- LifecyclePayloads
    Expiries = {"never"}
    Builders = {b1, b2}
    MaxDeployments = 2
    MaxRevision = 1
    MaxGeneration = 0
PROPERTY
    BuildNeverOverwrites
