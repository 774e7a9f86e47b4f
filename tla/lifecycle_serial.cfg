SPECIFICATION Spec
CONSTANTS
  Starts = {s1}
  MaxSessions = 4
  Forced = FALSE
  Project = TRUE
  Abrupt = FALSE
INVARIANTS
  TypeOK
  ReportIsOfThisSession
PROPERTIES
  ReadyMeansReady
CHECK_DEADLOCK FALSE
