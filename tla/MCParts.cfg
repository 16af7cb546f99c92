SPECIFICATION Spec
CONSTANTS
    c1 = c1
    c2 = c2
    c3 = c3
    c4 = c4
    Clients = {c1, c2, c3, c4}
    PodOf <- MCPodOf
    KeyOrder <- MCKeys
    Versions = {"v", "w"}
    Slash = "/"
    Saves <- MCSaves
    Searches <- MCSearches
    Size <- MCSize
    NoArchive = NoArchive
    PageSize = 1
    StoredJobs = {c1, c2, c3}
    Second = 2
    Retention = 3
    Recorded = {"running", "succeeded", "dispatch_error"}
    Filters <- MCFilters
    Requested = {0, 1}
    DefaultPage = 2
    MaxPage = 2
    MaxNow = 5
    MaxWrites = 3
    Callers = {c1, c2}
    Lifetime = 4
    Margin = 1
    Free = Free
    NoToken = NoToken
    MaxClock = 8
    Items = {c1, c2, c3, c4}
    PerPage = 2
    Preamble <- MCPreamble
    Webhooks = {c1, c2, c3}
    MaxAttempts = 3
    Initial = 10000
    MaxBackoff = 30000
    Jitters = {80, 120}
    RetryAfters = {0, 14000}
    Lease = 120000
    MaxCalls = 3
    Labels <- MCLabels
    MaxLabels = 3
    Repos <- MCRepos
    LabelValues = {"org", "app"}
    Settings <- MCSettings
    Atoi <- MCAtoi
    Bytes <- MCBytes
    Word = 16
INVARIANTS
    SavedIsFound
    HitDownloads
    ListedOnce
    NeverExpired
    ListedAll
    PagesBounded
    AcceptedIsDone
    WaitsFitLease
    LabelsUnderstood
    JobAsLabelled
PROPERTIES
    LookupEnds
    PruneRight
    ListingEnds
    TokenAnswered
    ProcessExits
CHECK_DEADLOCK FALSE
