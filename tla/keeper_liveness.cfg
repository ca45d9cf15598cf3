SPECIFICATION FairKeeperSpec
CONSTANTS
  Bodies = {1, 2}
  Commitments = {c1}
  Budget = 2
  Policy <- retry_action
  Hints = {1}
  MaxEpoch = 1
  Ambiguous = {}
  Settling = {2}
  None = None
PROPERTY Reconciled
