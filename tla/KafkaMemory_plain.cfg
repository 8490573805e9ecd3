SPECIFICATION FairSpec
CONSTANTS
    i1 = i1
    i2 = i2
    x1 = x1
    x2 = x2
    g1 = g1
    g2 = g2
    Instances = {i1, i2}
    Adds = {x1, x2}
    AdderOf <- OneEach
    Plain = {x1}
    Groups = {g1, g2}
    GroupOf <- OwnGroups
    MaxRetries = 1
    MaxClears = 0
    MaxCrashes = 0
    MaxRedeliveries = 0
    Faults = {}
PROPERTY SynchronizedAutomatically
CHECK_DEADLOCK FALSE
