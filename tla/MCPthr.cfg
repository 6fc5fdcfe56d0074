SPECIFICATION Spec
CONSTANTS
  t1 = t1
  t2 = t2
  mutex = mutex
  cond = cond
  b1 = b1
  b2 = b2
  b3 = b3
  Threads <- MCThreads
  Nobody = Nobody
  Mutexes <- MCMutexes
  Conds <- MCConds
  Static <- MCStatic
  Blocks <- MCBlocks
  NoObject = NoObject
  Other = Other
  MaxObjects = 2
  MaxDepth = 2
SYMMETRY Symmetric
INVARIANTS Exclusion SignalsReachWaiters 
CHECK_DEADLOCK FALSE
