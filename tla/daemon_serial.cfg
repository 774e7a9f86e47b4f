SPECIFICATION Spec
CONSTANTS
  Conn = {c1, c2, c3}
  Main = main
  None = none
  MaxOut = 1
  Lookalike = FALSE
  MayDie = TRUE
  Requests <- AllKinds
  Project = TRUE
  DiskMayFail = FALSE
  Signals <- NoSignals
SYMMETRY Symmetry
INVARIANTS
  IInv
  OneOperation
  CompletionIsReal
  ResultIsOwnOutput
  NoStaleResult
  OneResultWriter
  IdleMeansQuiet
  BusyHasNoEffect
  SocketMeansProjectOpen
PROPERTIES
  IdlePublishesResult
  PromptIsNotMissed
  ImplementsOneAtATime
  ImplementsSessionLife
