SPECIFICATION DaemonSpec
CONSTANTS
  Conn = {c1, c2}
  Main = main
  None = none
  MaxOut = 0
  Lookalike = FALSE
  MayDie = TRUE
  Requests <- ExecStopTool
  Project = FALSE
  DiskMayFail = FALSE
  Signals <- BothSignals
PROPERTIES
  EveryRequestAnswered
  StopEnds
  DeathEnds
