SPECIFICATION FairSpec
CONSTANTS
    w1 = w1
    w2 = w2
    t1 = t1
    t2 = t2
    k1 = k1
    Workers = {w1, w2}
    Types = {k1}
    Tasks = {t1, t2}
    WorkerOf <- OneEach
    MaxRestarts = 1
    Faults = {"send", "ack", "late", "redeliver", "stop", "unregister"}
INVARIANTS
    TypeOK
    ViewFollowsLog
    KnownStaysKnown
PROPERTIES
    NoKnowingDuplicate
    EventuallyAgree
CHECK_DEADLOCK FALSE
