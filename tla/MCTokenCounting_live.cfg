CONSTANTS
    N = 1
    Blank = Blank
    None = None
    Texts = {a}
    Calls = {c1, c2}
    Workers = {w1, w2}
    QueueSize = 1
    Faults = TRUE
SPECIFICATION FairSpec
PROPERTIES CallsReturn StopReturns
CHECK_DEADLOCK FALSE
