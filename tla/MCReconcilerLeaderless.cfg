\* Every replica loses the election Lease once.
SPECIFICATION FairSpec
CONSTANTS
    r1 = r1
    r2 = r2
    u1 = u1
    u2 = u2
    m1 = m1
    Replicas = {r1, r2}
    Jobs = {u1, m1}
    Managed = {m1}
    Listing <- OneAhead
    MaxJobsPerCycle = 1
    Cooldown = 2
    MaxElapsed = 1
    MaxLosses = 2
PROPERTIES
    SomeoneLeads
