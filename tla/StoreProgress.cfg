\* What the daemon's passes and goroutines bring about.
SPECIFICATION ReconcileSpec
CONSTANTS
    None = None
    States = {s1}
    Configs = {c1}
    Artifacts = {listener}
    Continuous = {listener}
    Sources = {}
    CheckpointValues = {}
    EventIds = {}
    EventBodies = {}
    Payloads = {}
    Expiries = {"later"}
    Builders = {}
    MaxDeployments = 1
    MaxRevision = 1
    MaxGeneration = 2
    Thresholds = {1}
    MaxFailures = 1
PROPERTIES
    WorkersFollowDeployment
