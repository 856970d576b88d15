SPECIFICATION Spec
CONSTANTS
  None = None
  MaxBlocks = 2
  MaxDeposits = 3
  Withdrawals = {w1, w2}
  MaxBlockStep = 2
  BlockCapacity = 2
  MaxRestarts = 1
  Faults <- NoRestart
INVARIANTS MintedOnce DepositsInOrder Solvent
CHECK_DEADLOCK FALSE
