CONSTANTS
    None = None
    MaxRuns = 2
SPECIFICATION FairSpec
INVARIANTS TypeOK Watched LastWordIsSaved
PROPERTIES StreamsEnd
CHECK_DEADLOCK FALSE
