CONSTANTS
  None = None
  p1 = p1
  p2 = p2
  p3 = p3
  Processes <- ThreeProcesses
  MaxBoots = 5
  MaxDeletes = 1
SPECIFICATION BootSpec
SYMMETRY Symmetry
CHECK_DEADLOCK FALSE
INVARIANTS
  BootTypeOK
  OneSeedToken
  SameTokenOffered
  AuditTrail
  StampedIsThere
  UpOnSchema
