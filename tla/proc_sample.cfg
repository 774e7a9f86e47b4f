SPECIFICATION Spec
CONSTANTS
  MaxPid = 4
  Root = 2
  Hops = 3
  MaxTicks = 2
INVARIANTS
  TypeOK
  SampleIsOfTheTree
  WorkIsReal
CHECK_DEADLOCK FALSE
