SPECIFICATION Spec
CONSTANTS
  NumCalls <- Five
  MaxParallelToolCalls = 3
INVARIANTS
  TypeOK
  LogReplays
PROPERTIES
  PoolIsKept
  AbortDrains
CHECK_DEADLOCK FALSE
