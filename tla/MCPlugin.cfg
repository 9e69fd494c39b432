CONSTANTS
    None = None
    s1 = s1
    s2 = s2
    m1 = m1
    m2 = m2
    Procs = {p1, p2}
    SessionIds = {s1, s2}
    Messages = {m1, m2}
    Owner <- MCOwner
    Stamp <- MCStamp
    Size <- MCSize
    SummaryTokens = 1
    Payloads <- MCPayloads
    Stored <- MCStored
    Retention = 1
    MaxTime = 2
    MaxRequests = 2
SPECIFICATION PluginSpec
SYMMETRY MCSymmetry
INVARIANTS TypeOK OneActive TotalAddsUp OnlyStragglersWork
PROPERTIES RetentionIsKept
CHECK_DEADLOCK FALSE
