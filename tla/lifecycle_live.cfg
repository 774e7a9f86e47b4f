SPECIFICATION FairSpec
CONSTANTS
  Starts = {s1, s2}
  MaxSessions = 2
  Forced = TRUE
  Project = FALSE
  Abrupt = TRUE
PROPERTIES
  StartReturns
  DeathIsNoticed
CHECK_DEADLOCK FALSE
