SPECIFICATION Spec
CONSTANT MaxSessions = 3
INVARIANTS
  RunningIsStoppable
  CleanStartKeepsControl
  CleanStatusIsTrue
  FileMatchesGoroutine
PROPERTIES
  ImplementsView
  ImplementsBridge
CHECK_DEADLOCK FALSE
