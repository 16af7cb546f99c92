\* Errors up to the Create of the Job, failing pods, deleted Jobs; then calm.
SPECIFICATION FairDispatcherSpec
CONSTANTS
    w1 = w1
    rc = rc
    r1 = r1
    r2 = r2
    g1 = g1
    g2 = g2
    g3 = g3
    NoCall = NoCall
    NoRunner = NoRunner
    Calls = {w1, rc}
    Replicas = {r1, r2}
    ReplicaOf <- MCReplicaOf
    LeaderCalls = {rc}
    RunnerIds = {g1, g2}
    MaxAttempts = 2
    Fails <- Harmless
    Lost <- NoOperation
    Mishaps <- ClusterMishaps
INVARIANTS
    NoSecretLeft
    PendingJobConfigured
PROPERTIES
    RunnerTakenBack
    JobRuns
