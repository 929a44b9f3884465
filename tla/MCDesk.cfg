SPECIFICATION DeskSpec
CONSTANTS
    r1 = r1
    r2 = r2
    r3 = r3
    None = None
    Requests <- MCRequests
    QueueSize = 2
    Slots = 2
    Scheduled = TRUE
    p1 = p1
    p2 = p2
    Nobody = Nobody
    Processes = {p1, p2}
    Looping = {p1}
    Submitting = {p1, p2}
    Drafts = 3
    DraftSymbol <- MCDraftSymbol
    MaxAge = 0
    Records = 3
    Tears = 1
    MaxCycles = 2
    MaxRows = 1
    Positions = 2
    Caps = {0, 2}
    MaxRounds = 2
    Questions = 4
CHECK_DEADLOCK FALSE
INVARIANTS
    StudioTypeOK
    NothingRunsUnlocked
    SoleController
    OneDraftOpen
    DeskShowsGaps
    DeskIsHonest
    CapOverrun
    FreedOnProof
PROPERTIES
    NoLateStart
    NoAutoRestart
    JobsAreServed
    CyclesAreRun
    CloseReturns
