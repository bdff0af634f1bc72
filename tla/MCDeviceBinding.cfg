CONSTANTS
  None = None
  r1 = r1
  r2 = r2
  r3 = r3
  d1 = d1
  d2 = d2
  Requests <- ThreeRequests
  Devices <- TwoDevices
  Modes <- AllModes
  Budget = 2
  CommitMayLie = TRUE
SPECIFICATION Spec
SYMMETRY Symmetry
INVARIANTS
  RemainingExact
  ExhaustedOnlyWhenSpent
  AdmittedWasBound
  BudgetWhenCalm
PROPERTY NoTakeoverWhenCalm
