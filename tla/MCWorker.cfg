CONSTANTS
  MaxInv = 3
  TableCap = 2
  QueueCap = 2
  MaxPromises = 2
  MaxJobs = 2
  MaxTurns = 2
  Fuel = 3
SPECIFICATION Spec
INVARIANTS
  DispatchInOrder
  SlotPerRequest
  CrossedOnlyAfterRaise
  NothingLeftBehind

  
CHECK_DEADLOCK FALSE
