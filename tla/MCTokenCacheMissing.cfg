CONSTANTS
  r1 = r1
  r2 = r2
  r3 = r3
  Requests <- TwoRequests
  InitialRows = {"active"}
  CacheTTL = 1
  MaxLoad = 1
  MaxTime = 5
SPECIFICATION Spec
SYMMETRY Symmetry
INVARIANT MissingOnlyIfAbsent
