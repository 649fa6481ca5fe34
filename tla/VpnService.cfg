SPECIFICATION Spec
CONSTANTS
  MaxStarts = 2
  MaxInstances = 2
  FdNumbers = {3, 4}
INVARIANTS
  CalmFlagIsTrue
  CalmStopLeavesNothing
PROPERTY StoppedBeforeClosed
CHECK_DEADLOCK FALSE
