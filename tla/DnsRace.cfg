SPECIFICATION FairRaceSpec
CONSTANTS
  DnsServers = {s1, s2, s3, s4}
  NoServer = NoServer
INVARIANTS
  OneWinner
  SendIsSafe
  ClosedChannelHasAResult
PROPERTY RaceEnds
CHECK_DEADLOCK FALSE
