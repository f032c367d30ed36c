\* Operator and deploy commands, expiry, restarts and activations, as the daemon
\* meets them.
SPECIFICATION ReconcileSpec
CONSTANTS
    None = None
    States = {s1}
    Configs = {c1}
    Artifacts = {poller, listener}
    Continuous = {listener}
    Sources = {}
    CheckpointValues = {}
    EventIds = {}
    EventBodies = {}
    Payloads = {}
    Expiries = {"later"}
    Builders = {}
    MaxDeployments = 1
    MaxRevision = 1
    MaxGeneration = 2
    Thresholds = {1, 3}
    MaxFailures = 3
INVARIANTS
    SlotFollowsPass
    OutagesAnnounced
    HealthFollowsWorker
    NoWorkerForgotten
