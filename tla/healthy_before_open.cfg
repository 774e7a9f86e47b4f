SPECIFICATION Spec
CONSTANTS
  Conn = {c1, c2}
  Main = main
  None = none
  MaxOut = 1
  Lookalike = FALSE
  MayDie = TRUE
  Requests <- ExecOnly
  Project = TRUE
  DiskMayFail = FALSE
  Signals <- NoSignals
SYMMETRY Symmetry
INVARIANTS
  HealthyMeansReady
