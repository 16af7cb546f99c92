\* No API call fails; a replica may crash, until calm.
SPECIFICATION FairDispatcherSpec
CONSTANTS
    w1 = w1
    rc = rc
    r1 = r1
    r2 = r2
    g1 = g1
    g2 = g2
    g3 = g3
    NoCall = NoCall
    NoRunner = NoRunner
    Calls = {w1, rc}
    Replicas = {r1, r2}
    ReplicaOf <- MCReplicaOf
    LeaderCalls = {rc}
    RunnerIds = {g1, g2}
    MaxAttempts = 2
    Fails <- NoOperation
    Lost <- NoOperation
    Mishaps <- CrashOnly
PROPERTIES
    JobRuns
