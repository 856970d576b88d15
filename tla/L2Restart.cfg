SPECIFICATION Spec
CONSTANTS
  None = None
  MaxBlocks = 3
  MaxDeposits = 2
  Withdrawals = {w1}
  MaxBlockStep = 2
  BlockCapacity = 2
  MaxRestarts = 1
  Faults <- AllDiffable
CHECK_DEADLOCK FALSE
INVARIANTS CommitmentWindow PaidOnceWhenFinal
