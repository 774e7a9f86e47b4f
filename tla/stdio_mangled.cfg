SPECIFICATION Spec
CONSTANTS
  Client = {c1}
  None = none
  MaxData <- Character
  PipeRoom = 2
  Room = 1
  Heirs = FALSE
  LogMayFail = FALSE
  Verbs <- RunOnly
INVARIANTS
  StdioVerbatim
CHECK_DEADLOCK FALSE
