CONSTANTS
  Tenants = {a, b}
  Sizes = {1, 2}
  MaxConcurrent = 2
  MaxQueued = 2
  MaxQueuedBytes = 5
  MaxReqs = 5
SPECIFICATION Spec
INVARIANTS
  SlotsAccounted
  QueueAccounted
  WithinQuota
  ResultsKept
CHECK_DEADLOCK FALSE
