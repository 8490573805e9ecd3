SPECIFICATION FairSpec
CONSTANTS
    v1 = v1
    s1 = s1
    s2 = s2
    p1 = p1
    p2 = p2
    x1 = x1
    x2 = x2
    Services = {v1}
    Subs = {s1, s2}
    OwnerOf <- SameOwner
    Contents <- EqualOrDistinct
    Removals = {s1}
    Partitions = {p1, p2}
    MaxCrashes = 1
    Faults = {"send", "ack", "late", "redeliver"}
INVARIANTS
    TypeOK
    GlobalViewFollowsLocal
PROPERTY SweepTerminates
CHECK_DEADLOCK FALSE
