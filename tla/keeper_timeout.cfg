SPECIFICATION KeeperSpec
CONSTANTS
  Bodies = {1}
  Commitments = {c1}
  Budget = 1
  Policy <- retry_action
  Hints = {1}
  MaxEpoch = 1
  Ambiguous = {"unavailable"}
  Settling = {1}
  None = None
PROPERTY TransientStaysReserved
