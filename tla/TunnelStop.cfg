SPECIFICATION FairSpec
CONSTANT MaxSessions = 1
PROPERTY MasqueStopEnds
CHECK_DEADLOCK FALSE
