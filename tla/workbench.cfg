SPECIFICATION Spec
CONSTANTS
  p1 = p1
  p2 = p2
  w1 = w1
  w2 = w2
  Platforms = {p1, p2}
  Venues = {v1, v2}
  Workers = {w1, w2}
  Home <- HomeOf
  Section <- SectionOf
  Absent = Absent
  Malformed = Malformed
  Listens = {w1}
  Vacant = Vacant
  DeclaredSets <- TwoSets
  MaxRegistered = 3
  Bodies = {b1}
  Receipts = {r1, empty}
  Empty = empty
  Bound = 1
  MaxTime = 2
  None = None
  Versions = {V1, V2}
  Shapes = {1, 2}
  MaxVariants = 2
  MaxVectors = 2
  NoVersion = NoVersion
  Base = 2
  Word = 3
  Half = 2
  Reject = Reject
  MaxPublished = 1
  TicksPerSecond = 2
  MaxSeconds = 4
  Limits = {0, 1, 2}
  Multiplier = 2
  GraceMax = 3
  DefaultExpiry = 3
  Unbuilt = Unbuilt
  Alphabet = {0, 1, 2, 3, 4, 5}
  MaxDamage = 2
  Nothing = Nothing
  FnNames = {"init", "on_block", "on_intent_status", "on_tick", "helper"}
  Ids = {c1, c2}
  Ill = Ill
  Missing = Missing
  MaxEdits = 2
INVARIANTS OneRegistryServes MisreadExplained NoDeafKeeper GraceAsConfigured AmountsAgree VectorsGuardTheSchema StatusReadAsSent BuiltAsWritten VerdictIsKept WireIsClean
CHECK_DEADLOCK FALSE
