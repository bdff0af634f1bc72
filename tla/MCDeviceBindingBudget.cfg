CONSTANTS
  None = None
  r1 = r1
  r2 = r2
  r3 = r3
  d1 = d1
  d2 = d2
  Requests <- ThreeRequests
  Devices <- TwoDevices
  Modes = {"required"}
  Budget = 1
  CommitMayLie = FALSE
SPECIFICATION Spec
SYMMETRY Symmetry
INVARIANT BudgetRespected
