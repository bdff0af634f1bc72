CONSTANTS
  None = None
  t1 = t1
  t2 = t2
  t3 = t3
  Threads <- TwoThreads
  CacheTTL = 1
  RedisTTL = 3
  MaxJob = 1
  MaxGet = 1
  MaxTime = 7
SPECIFICATION Spec
SYMMETRY Symmetry
INVARIANTS
  BoundedStaleness
 
