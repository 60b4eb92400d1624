SPECIFICATION Spec
CONSTANTS
  TRANSFER_WINDOW_DAYS = 3
  Real = {1, 2}
  Conns = {1, 2}
  Moves = {1, 2}
  Templates <- MCTemplates
  Procs = {p1, p2}
  MaxBodies = 3
  MaxItems = 2
  MaxFaults = 1
SYMMETRY MCSymmetry
CHECK_DEADLOCK FALSE
INVARIANTS TypeOK EarliestCaptureStands OneRowPerAccount DelistedIsNotReported RefusedOnlyForAReason
PROPERTIES RebuildRestampsEverything
