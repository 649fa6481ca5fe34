SPECIFICATION FairSpec
CONSTANTS
    c1 = c1
    c2 = c2
    w1 = w1
    w2 = w2
    Callers <- MCCallers
    Workers <- MCWorkers
    Addresses = 2
    Primary <- MCPrimary
    Extended <- MCExtended
    None = None
INVARIANTS
    AnswerIsOneWholeWalk
PROPERTIES
    ImplementsScanSlot
    SummaryMatchesRows
    ScanEnds
CHECK_DEADLOCK FALSE
