SPECIFICATION FairSpec
CONSTANTS
    a1 = a1
    a2 = a2
    z1 = z1
    z2 = z2
    h1 = h1
    c1 = c1
    Starts = {a1, a2}
    WaitingStarts = {a2}
    Stops = {z1, z2}
    Handlers = {h1}
    Apps = {c1}
    Faults = {"start", "stop"}
INVARIANTS
    TypeOK
    RunningIsWhole
    StoppedIsClean
    StopsWaitForWork
PROPERTY LifecycleCallsEnd
CHECK_DEADLOCK FALSE
