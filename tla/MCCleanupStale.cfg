\* The sweep against a Job created after it took its list.
SPECIFICATION Spec
CONSTANTS
    MaxJobs = 2
    MaxCrashes = 0
PROPERTIES
    SweepRemovesOnlyStale
CHECK_DEADLOCK FALSE
