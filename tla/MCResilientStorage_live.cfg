CONSTANTS
    s1 = s1
    m1 = m1
    Procs = {p1, p2}
    Sessions = {s1}
    Messages = {m1}
    Owner <- MCOwner
    Threshold = 2
    ResetTimeout = 1
    Workload = {"list", "get", "clear", "ping"}
    MaxFaults = 3
    None = None
SPECIFICATION FairSpec
PROPERTY Recovers
