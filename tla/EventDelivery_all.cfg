SPECIFICATION FairSpec
CONSTANTS
    a1 = a1
    a2 = a2
    k1 = k1
    k2 = k2
    r1 = r1
    q1 = q1
    e1 = e1
    e2 = e2
    s1 = s1
    s2 = s2
    Agents = {a1, a2}
    Types = {k1, k2}
    TypeOf <- OwnType
    Calls = {q1}
    Asks <- AskFirst
    Handler = handler
    Registrations = {r1}
    InstanceOf <- SecondAgent
    Nobody = nobody
    ManagerFaults = {"factory"}
    Events = {e1, e2}
    SenderOf <- FromFirst
    Subs = {s1, s2}
    AgentOf <- OneEach
    MaxRedeliveries = 1
    Faults = {"refuse", "send", "malformed", "late"}
INVARIANTS
    TypeOK
    AllOrNothing
PROPERTY EverySubscriberServed
CHECK_DEADLOCK FALSE
