SPECIFICATION TSpec
CONSTANTS
    Unknown = Unknown
    o1 = o1
    o2 = o2
    Options = {o1, o2}
    Idea <- MCIdea
    Quotes <- MCQuotes
    CostBasis = 2000
    Life = 3
    PdtWindow = 2
    MaxSessions = 2
    DayTradeLimit = 1
CHECK_DEADLOCK FALSE
INVARIANTS
    OverrunBounded
PROPERTIES
    StoppedPositionsLeave
