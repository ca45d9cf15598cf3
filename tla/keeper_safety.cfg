SPECIFICATION ReportSpec
CONSTANTS
  Bodies = {1, 2}
  Commitments = {c1, c2}
  Budget = 1
  Policy <- retry_action
  Hints = {1}
  MaxEpoch = 2
  Ambiguous = {"unavailable"}
  Settling = {1, 2}
  None = None
INVARIANTS KeeperTypeOK PostIsReserved HeldIsMarked CommittedIsHeld NoSecondPost ParkRespected ReportAddsUp
PROPERTIES CommittedIsFinal KeepsTheBook
