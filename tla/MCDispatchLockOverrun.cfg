\* Two calls in each of two replicas; Leases may expire under their holders.
SPECIFICATION Spec
CONSTANTS
    c1 = c1
    c2 = c2
    c3 = c3
    c4 = c4
    r1 = r1
    r2 = r2
    NoCall = NoCall
    Calls = {c1, c2, c3, c4}
    Replicas = {r1, r2}
    ReplicaOf <- MCReplicaOf
INVARIANTS
    Serialized
