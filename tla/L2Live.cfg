SPECIFICATION FairSpec
CONSTANTS
  None = None
  MaxBlocks = 3
  MaxDeposits = 2
  Withdrawals = {w1}
  MaxBlockStep = 2
  BlockCapacity = 2
  MaxRestarts = 1
  Faults = {}
CHECK_DEADLOCK FALSE
PROPERTIES BlocksVerified DepositsInserted
