SPECIFICATION Spec
CONSTANTS
    r1 = r1
    r2 = r2
    c1 = c1
    c2 = c2
    Runtimes = {r1, r2}
    Calls = {c1, c2}
    Caller <- TwoCalls
    Hosts <- MixedHosts
    MaxDeliveries = 1
    MaxCrashes = 1
    Faults = {"unserializable", "stop", "late"}
INVARIANTS
    TypeOK
    StrandedOnlyByFailure
CHECK_DEADLOCK FALSE
