SPECIFICATION FairWatchSpec
CONSTANTS
  Tick = 2
  StaleAfter = 5
INVARIANTS
  StaleNoticedWithinTick
PROPERTIES
  HandshakeIsAnnounced
  LossIsReported
CHECK_DEADLOCK FALSE
