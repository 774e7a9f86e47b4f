SPECIFICATION FairSpec
CONSTANTS
  Client = {c1, c2}
  None = none
  MaxData <- OneByte
  PipeRoom = 1
  Room = 1
  Heirs = TRUE
  LogMayFail = TRUE
  Verbs <- AllVerbs
PROPERTIES
  OperationEnds
  ClientReturns
  TimedOutIsLatched
CHECK_DEADLOCK FALSE
