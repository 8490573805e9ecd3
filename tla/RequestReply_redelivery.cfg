SPECIFICATION FairSpec
CONSTANTS
    r1 = r1
    r2 = r2
    c1 = c1
    c2 = c2
    Runtimes = {r1, r2}
    Calls = {c1}
    Caller <- OneCaller
    Hosts <- OneHost
    MaxDeliveries = 2
    MaxCrashes = 0
    Faults = {"unserializable", "send", "ack", "garbled", "cancel", "raise",
              "abort", "redeliver"}
INVARIANTS
    AnswerIsGenuine
    PendingIsExact
    ConsumedReplyResolves
    FirstResponseDecides
PROPERTIES
    ContractSpec
    EveryCallEnds
CHECK_DEADLOCK FALSE
