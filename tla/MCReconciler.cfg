\* Two dispatches per cycle, which may last for two intervals, and a cooldown of
\* three; two unmanaged jobs ahead, one of them listed twice.
SPECIFICATION FairSpec
CONSTANTS
    r1 = r1
    r2 = r2
    u1 = u1
    u2 = u2
    m1 = m1
    Replicas = {r1, r2}
    Jobs = {u1, u2, m1}
    Managed = {m1}
    Listing <- Repeated
    MaxJobsPerCycle = 2
    Cooldown = 3
    MaxElapsed = 2
    MaxLosses = 1
INVARIANTS
    TypeOK
    CapRests
PROPERTIES
    PickedUp
