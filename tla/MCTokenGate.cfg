CONSTANTS
  None = None
  r1 = r1
  r2 = r2
  r3 = r3
  Requests <- ThreeRequests
  NumChecks = {2}
  LockTTL = 3
  CacheTTL = 1
  MaxDelay = 1
SPECIFICATION Spec
SYMMETRY Symmetry
INVARIANTS
  Exclusive
  ContextIsMine
  AccusedNotServed
