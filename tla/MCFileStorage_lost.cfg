CONSTANTS
    s1 = s1
    s2 = s2
    m1 = m1
    m2 = m2
    c1 = c1
    c2 = c2
    SessionIds = {s1, s2}
    MsgIds = {m1, m2}
    Contents = {c1}
    MaxSessions = 1
    MaxMessages = 1
    Payloads <- MCPayloads
    Additions <- MCAdditions
    None = None
    Users = {u1}
    Procs = {p1, p2}
    Truncated = Truncated
    Torn = Torn
    Workload = {"create", "add"}
    Faults = FALSE
    MaxRequests = 3
    MaxCrashes = 0
SPECIFICATION Spec
CHECK_DEADLOCK FALSE
PROPERTY SavesBuildOnFile
