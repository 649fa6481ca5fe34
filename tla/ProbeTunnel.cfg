SPECIFICATION FairSpec
CONSTANTS
    w1 = w1
    w2 = w2
    t1 = t1
    t2 = t2
    Workers <- MCWorkers
    Targets <- MCTargets
    PingCount = 3
    TornTail = 2
    MaxLost = 3
    None = None
INVARIANTS
    VerdictIsOwn
    ConnectionsAreClosed
PROPERTIES
    RunEnds
CHECK_DEADLOCK FALSE
