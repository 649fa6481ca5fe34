SPECIFICATION FairSpec
CONSTANTS
  MaxAttempts = 3
  MaxPackets = 2
INVARIANTS
  EndingForwarderNeverBlocks
  BuffersAreAccountedFor
  StaleForwarderWastesOnePacket
PROPERTIES
  KeepsContract
  ErrorLeadsToReconnect
CHECK_DEADLOCK FALSE
