SPECIFICATION Spec
CONSTANTS
  TRANSFER_WINDOW_DAYS = 3
  Real = {1, 2, 3}
  Bank <- MCTwoBanks
  Identity <- MCIdentity
  Publishing <- MCPublishing
  Denominable = {1, 2, 3}
  Moves <- MCMoves
  MAX_GROUPS = 1
  MaxLinks = 3
  MaxDay = 2
  MaxEvents = 0
CHECK_DEADLOCK FALSE
INVARIANTS TransferIsNotSpending
