CONSTANTS
    s1 = s1
    m1 = m1
    Procs = {p1, p2}
    Sessions = {s1}
    Messages = {m1}
    Owner <- MCOwner
    Threshold = 2
    ResetTimeout = 1
    Workload = {"create", "get", "update", "add", "delete", "expire", "ping"}
    MaxFaults = 1
    None = None
SPECIFICATION Spec
SYMMETRY MCSymmetry
INVARIANTS TypeOK OpensAfterThreshold HealthyIsTransparent AcknowledgedIsHeld
