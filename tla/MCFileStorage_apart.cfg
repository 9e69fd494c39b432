CONSTANTS
    s1 = s1
    s2 = s2
    m1 = m1
    m2 = m2
    c1 = c1
    c2 = c2
    SessionIds = {s1, s2}
    MsgIds = {m1}
    Contents = {c1, c2}
    MaxSessions = 2
    MaxMessages = 2
    Payloads <- MCPayloads
    Additions <- MCAdditions
    None = None
    Users = {u1, u2}
    Procs = {p1, p2}
    Truncated = Truncated
    Torn = Torn
    Workload = {"get", "create", "update", "delete", "activate", "add", "edit", "clear", "expire", "count", "close"}
    Faults = TRUE
    MaxRequests = 3
    MaxCrashes = 1
SPECIFICATION ApartSpec
INVARIANTS PublishedWhole CacheCoherent
PROPERTIES AcknowledgedIsStored KeepsContract
CHECK_DEADLOCK FALSE
SYMMETRY MCSymmetry
