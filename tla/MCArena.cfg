SPECIFICATION Spec
CONSTANTS
  Programs <- MCPrograms
  Slacks = {0, 8}
  MaxPointers = 3
  MaxAddresses = 4
INVARIANTS BlocksOwned MemoryAccounted
