SPECIFICATION Spec
CONSTANTS
  Starts = {s1}
  MaxSessions = 3
  Forced = TRUE
  Project = TRUE
  Abrupt = TRUE
PROPERTIES
  ReadyMeansReady
CHECK_DEADLOCK FALSE
