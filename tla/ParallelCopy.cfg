SPECIFICATION CopyFairSpec
CONSTANTS
  Count = 4
  Contents = {0, 1}
INVARIANTS
  IInv
  ParallelResult
PROPERTIES
  Terminates
  RefinesParallelAssign
CHECK_DEADLOCK FALSE
