CONSTANTS
  TableCap = 2
  HalfGen = 4
  MaxCreates = 9
SPECIFICATION TableSpec
INVARIANT
  EveryRuntimeReachable
CHECK_DEADLOCK FALSE
