SPECIFICATION Spec
CONSTANTS
  Programs <- MCPrograms
  MaxPromises = 5
  MaxPairs = 6
  MaxAsync = 2
  MaxAwaits = 2
  MaxGroups = 1
  MaxScripts = 1
  MaxDepth = 2
INVARIANTS OneSettler ReactionsInOrder ResumedOnce GroupsCounted
 
CHECK_DEADLOCK FALSE
