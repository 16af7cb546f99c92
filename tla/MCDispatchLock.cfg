\* Two calls in each of two replicas; every fault of the lock allowed.
SPECIFICATION FairSpec
CONSTANTS
    c1 = c1
    c2 = c2
    c3 = c3
    c4 = c4
    r1 = r1
    r2 = r2
    NoCall = NoCall
    Calls = {c1, c2, c3, c4}
    Replicas = {r1, r2}
    ReplicaOf <- MCReplicaOf
INVARIANTS
    MutualExclusion
    CriticalIsLocked
    ReplicaSerialized
PROPERTIES
    NoForeignRelease
    ImplementsAbstractLock
    EveryCallReturns
