SPECIFICATION Spec
CONSTANTS
    r1 = r1
    r2 = r2
    q1 = q1
    q2 = q2
    Runtimes = {r1, r2}
    Bases <- AllBases
    Files <- AllFiles
    Environments <- AllEnvironments
    NoUtils = NoUtils
    Unusable = {"bad"}
    MaxChanges = 1
    Workers <- TwoWorkers
    SchemaOf <- Releases
    Compatible <- Upgrades
    MaxBrokers = 2
    MaxFaults = 1
    Faults = {"registry", "lost", "network", "broker"}
INVARIANTS
    TypeOK
    LoadFollowsPriority
    BuiltIsProvisioned
    FailsOnlyForCause
CHECK_DEADLOCK FALSE
