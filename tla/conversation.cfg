SPECIFICATION Spec
CONSTANTS
  Client = {c1, c2}
  None = none
  MaxData <- Character
  PipeRoom = 2
  Room = 1
  Heirs = TRUE
  LogMayFail = FALSE
  Verbs <- AllVerbs
SYMMETRY Symmetry
INVARIANTS
  TypeOK
  FramesAreWhole
  StdioInOrder
  LogIsComplete
PROPERTIES
  AnswerIsLast
CHECK_DEADLOCK FALSE
