SPECIFICATION JSpec
CONSTANTS
    e1 = e1
    e2 = e2
    x1 = x1
    x2 = x2
    c1 = c1
    uA = uA
    ProviderError = ProviderError
    Hour = 2
    MaxAttempts = 1
    MaxSlots = 2
    Freshness = 60
    LossLimit = 4000
    RiskLimit = 10000
    TTL = 2
    EntryKeys <- MCEntryKeys
    ExitKeys <- MCExitKeys
    Contracts <- MCContracts
    Underlyings <- MCUnderlyings
    UnderlyingOf <- MCUnderlyingOf
    ContractOf <- MCContractOf
    IdeaOf <- MCIdeaOf
    ExitQty <- MCExitQty
    Times <- MCTimes
    Days <- MCDays
    Baselines <- MCBaselines
INVARIANTS
    JTypeOK
    RollingRate
    ExclusiveIntents
PROPERTIES
    LifecycleSpec
    ClaimIsTimely
SYMMETRY MCSymmetry
