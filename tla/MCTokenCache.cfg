CONSTANTS
  r1 = r1
  r2 = r2
  r3 = r3
  Requests <- ThreeRequests
  InitialRows = {"absent", "active"}
  CacheTTL = 1
  MaxLoad = 1
  MaxTime = 5
SPECIFICATION Spec
SYMMETRY Symmetry
INVARIANTS
  BoundedStaleness
  MissingWhenAlone
