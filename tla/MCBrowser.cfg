CONSTANTS
    None = None
    s1 = s1
    Procs = {p1, p2}
    SessionIds = {s1, s2}
    Messages = {m1}
    Owner <- MCOwner
    Present = {s1}
    MaxRequests = 3
SPECIFICATION Spec
SYMMETRY MCSymmetry
INVARIANTS TypeOK Settled MirrorFollowsServer AcknowledgedIsStored
CHECK_DEADLOCK FALSE
