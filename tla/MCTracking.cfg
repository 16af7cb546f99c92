\* Two calls, one pod, one restart.  The run may end: the pod is gone.
SPECIFICATION FairSpec
CONSTANTS
    c1 = c1
    c2 = c2
    Calls = {c1, c2}
    NoTrace = NoTrace
    Droppable <- AllButCompletion
    MaxPods = 1
    MaxRestarts = 1
INVARIANTS
    RootsTracked
    EventsFollowPod
PROPERTIES
    EveryRootEnds
    FinishRecorded
CHECK_DEADLOCK FALSE
