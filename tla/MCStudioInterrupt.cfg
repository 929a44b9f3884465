CONSTANTS
    r1 = r1
    r2 = r2
    r3 = r3
    None = None
    Requests <- MCRequests
    QueueSize = 2
    Slots = 2
    Scheduled = TRUE
SPECIFICATION ImpatientSpec
INVARIANT NothingRunsUnlocked
CHECK_DEADLOCK FALSE
