SPECIFICATION Spec
CONSTANTS
  t1 = t1
  t2 = t2
  Threads <- MCThreads
  InitVals <- MCInitVals
  WriteVals <- MCWriteVals
  PoolSize = 2
  MaxValue = 3
  Budget = 4
INVARIANT CountsConserved
PROPERTY WaiterReturns
CHECK_DEADLOCK FALSE
