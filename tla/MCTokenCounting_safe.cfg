CONSTANTS
    N = 2
    Blank = Blank
    None = None
    Texts = {a, Blank}
    Calls = {c1, c2}
    Workers = {w1, w2}
    QueueSize = 2
    Faults = TRUE
SPECIFICATION Spec
SYMMETRY MCSymmetry
INVARIANTS TypeOK StaleOnlyIfChanged EnsuresCounts JobsAccounted
CHECK_DEADLOCK FALSE
