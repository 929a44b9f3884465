SPECIFICATION BooksSpec
CONSTANTS
    KindOf <- MCKinds
    PageSize = 1
    MaxPages = 3
    Overlap = 2
    MaxTime = 4
    MaxRuns = 3
    Staging = TRUE
    z1 = z1
    Expiry <- MCExpiry
    Feeds <- MCFeeds
    Clocks <- MCClocks
    DailyLossLimit = 15
    Missing = Missing
    Hour = 100
    MaxAttempts = 5
    MaxSlots = 2
    Freshness = 60
    LossLimit = 4000
    RiskLimit = 10000
    FeePerContract = 65
    MinInterest = 500
    DteMin = 30
    DteMax = 45
    Snapshots <- MCSnapshots
    IndexFunds = {1, 2}
    Exempt = {1, 2}
    Universes <- MCUniverses
    Enablings <- MCEnablings
    Opens <- MCOpens
    Today = 0
    Never = Never
    Sessions <- MCSessions
    HoldLimit <- MCHold
    MaxFill = 2
    MinBars = 1
    MaxHistory = 6
CHECK_DEADLOCK FALSE
INVARIANTS
    CoverageIsComplete
    CompleteMeansBooked
    FifoProfit
    BooksBalance
    LatchIsExact
    Uncorrelated
    ScanChoosesBest
    RefusedForRoundingOnly
PROPERTIES
    ReplayIsNoOp
    NoLookAhead
