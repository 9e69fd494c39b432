CONSTANTS
    None = None
    m1 = m1
    m2 = m2
    m3 = m3
    Cap = 3
    Procs = {p1, p2}
    Sent <- MCSent
    Payloads <- MCPayloads
    SummaryIds = {x1, x2, x3, x4}
    Size <- MCSize
    SummaryTokens = 1
    Stored <- MCStored
    Limits = {1, 2}
    PreloadLimit = 2
    BatchTokens = 3
    Full = 4
    MaxPasses = 2
    MaxRequests = 4
SPECIFICATION Spec
SYMMETRY MCSymmetry
INVARIANTS TypeOK StaleIsExplained SavedIsKept SummariesStandForMessages SummarizedTwiceOnlyByOverlap PagesTile CacheAnswersLikeStorage BudgetIsSpent WindowKeepsNewest
CHECK_DEADLOCK FALSE
