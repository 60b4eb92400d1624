SPECIFICATION Spec
CONSTANTS
  a1 = a1
  a2 = a2
  a3 = a3
  b1 = b1
  Items <- MCItems
  Bank <- MCBank
  None = None
  First = a1
  Enrollers = {e1, e2}
  Retirers = {r1}
  Syncers = {s1}
  Cap = 1
  MaxFaults = 2
INVARIANTS NothingBillsUnseen CapHolds LiveRowKeepsItsItem ProgressIsOfItsItem SaidRemovedIsGone
SYMMETRY MCSymmetry
CHECK_DEADLOCK FALSE
