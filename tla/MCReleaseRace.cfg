SPECIFICATION Spec
CONSTANTS
    e1 = e1
    e2 = e2
    e3 = e3
    x1 = x1
    x2 = x2
    x3 = x3
    y1 = y1
    f1 = f1
    c1 = c1
    c2 = c2
    c3 = c3
    uA = uA
    uB = uB
    uC = uC
    ProviderError = ProviderError
    Hour = 100
    MaxAttempts = 5
    MaxSlots = 2
    Freshness = 60
    LossLimit = 4000
    RiskLimit = 10000
    TTL = 30
    CapitalCap = 20000
    EntryKeys = {e1}
    ExitKeys = {x1}
    FlattenKeys = {}
    Commands = {"release"}
    Contracts = {c1}
    Underlyings = {uA}
    Switch <- Armed
    UnderlyingOf <- OwnNames
    ContractOf <- MCContractOf
    IdeaOf <- SameIdeas
    PaidFor <- AtLimit
    ExitQty <- MCExitQty
    CycleExit <- MCCycleExit
    Times <- Early
    Days <- Days1
    Baselines <- None
INVARIANTS
    ReleasedWasNeverPlaced
