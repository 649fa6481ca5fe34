SPECIFICATION Spec
CONSTANTS
  MaxStarts = 2
  MaxInstances = 1
  FdNumbers = {3, 4}
PROPERTY LostTunnelIsRetried
CHECK_DEADLOCK FALSE
