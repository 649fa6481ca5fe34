SPECIFICATION FairSpec
CONSTANTS
    c1 = c1
    c2 = c2
    v1 = v1
    v2 = v2
    Conns <- MCConns
    Servers <- MCServers
    Asks <- MCAsks
    Buffers <- MCBuffers
    MaxSent = 2
    None = None
INVARIANTS
    StreamsAreNotMixed
    AnswerIsDelivered
PROPERTIES
    ConnectionEnds
CHECK_DEADLOCK FALSE
