CONSTANTS
  r1 = r1
  r2 = r2
  r3 = r3
  Requests <- ThreeRequests
  NumWindows = 2
  Length <- Lengths
  KeyTTL <- TTLs
  Profiles <- AllProfiles
  MaxDelay = 1
  MaxTime = 3
SPECIFICATION Spec
SYMMETRY Symmetry
INVARIANTS
  TypeOK
  WithinLimit
  RefusedOnlyWhenSpent
  NoOrphanCounter
PROPERTY SpentIsSpent
