SPECIFICATION HSpec
CONSTANTS
    KindOf <- Unknowns
    PageSize = 1
    MaxPages = 3
    Overlap = 2
    MaxTime = 5
    MaxRuns = 3
    Staging = FALSE
CHECK_DEADLOCK FALSE
INVARIANTS
    NothingSkipped
