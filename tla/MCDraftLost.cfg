SPECIFICATION SSpec
CONSTANTS
    MaxCycles = 1
    MaxRows = 1
    Nobody = Nobody
    p1 = p1
    p2 = p2
    Processes = {p1, p2}
    Looping = {p1}
    Submitting = {p1, p2}
    Drafts = 2
    DraftSymbol <- MCDraftSymbol
    MaxAge = 0
    Records = 2
    Tears = 1
CHECK_DEADLOCK FALSE
INVARIANTS
    RetiredAfterAttempt
