SPECIFICATION Spec
CONSTANTS
  Conn = {c1, c2}
  Main = main
  None = none
  MaxOut = 1
  Lookalike = FALSE
  MayDie = FALSE
  Requests <- ExecStop
  Project = FALSE
  DiskMayFail = FALSE
  Signals <- NoSignals
SYMMETRY Symmetry
INVARIANTS
  StopExcludesCommands
