SPECIFICATION FairSpec
CONSTANTS
    a1 = a1
    a2 = a2
    c1 = c1
    c2 = c2
    g1 = g1
    Agents = {a1}
    Calls = {c1, c2}
    AgentOf <- OneAgent
    Groups = {g1}
    GroupOf <- OwnGroup
    MaxAnswers = 1
    Faults = {"send", "unserializable", "garbled", "cancel", "stop", "close", "late", "redeliver", "unreadable"}
INVARIANTS
    TypeOK
    PendingIsExact
    StreamFailsForCause
PROPERTIES
    ContractSpec
    EveryCallEnds
    CloseEndsCalls
CHECK_DEADLOCK FALSE
