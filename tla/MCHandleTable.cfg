CONSTANTS
  TableCap = 2
  HalfGen = 4
  MaxCreates = 9
SPECIFICATION TableSpec
INVARIANTS
  OnlyItsOwn
  ReachableBelowSignBit
  NeverWraps
