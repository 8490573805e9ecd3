SPECIFICATION ManagerSpec
CONSTANTS
    a1 = a1
    a2 = a2
    a3 = a3
    k1 = k1
    k2 = k2
    q1 = q1
    q2 = q2
    q3 = q3
    r1 = r1
    r2 = r2
    Agents = {a1, a2, a3}
    Types = {k1, k2}
    TypeOf <- TypesOf
    Calls = {q1, q2, q3}
    Asks <- Asked
    Handler = handler
    Registrations = {r1, r2}
    InstanceOf <- Registered
    Nobody = nobody
    ManagerFaults = {"factory", "bind", "class", "state"}
INVARIANTS
    OneInstance
    RegisteredNeverMade
CHECK_DEADLOCK FALSE
