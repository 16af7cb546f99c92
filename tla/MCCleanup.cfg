\* One Kubernetes Job, one crash.  The run may end: the workflow job
\* is completed and nothing is left of it.
SPECIFICATION FairSpec
CONSTANTS
    MaxJobs = 1
    MaxCrashes = 1
INVARIANTS
    TypeOK
PROPERTIES
    OwnReasonHolds
    DoneJobDeleted
    CompletedLeavesNothing
CHECK_DEADLOCK FALSE
