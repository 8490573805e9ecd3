SPECIFICATION Spec
CONSTANTS
    i1 = i1
    i2 = i2
    x1 = x1
    x2 = x2
    g1 = g1
    g2 = g2
    Instances = {i1, i2}
    Adds = {x1, x2}
    AdderOf <- OneEach
    Plain = {x2}
    Groups = {g1, g2}
    GroupOf <- OwnGroups
    MaxRetries = 1
    MaxClears = 1
    MaxCrashes = 1
    MaxRedeliveries = 1
    Faults = {"start", "send", "ack", "close"}
INVARIANTS TypeOK OwnAddOnce ViewFollowsTopic
CHECK_DEADLOCK FALSE
