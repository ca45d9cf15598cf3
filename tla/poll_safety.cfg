SPECIFICATION PollSpec
CONSTANTS
  c1 = c1
  Venues = {v1}
  MaxGen = 1
  Callers = {c1}
  Tasks = {t1}
  CallerOf <- SameCaller
  Ops = {"status", "observe"}
  Receipts = {r1, r2}
  MaxCharges = 1
  Window = 0
  MaxEntries = 1
  Grace = 1
  MaxNow = 1
  Responsive = {v1}
  Poller = Poller
  None = None
  Statuses = {"pending", "open", "fulfilled"}
  ChannelBuf = 1
  Encodes = FALSE
  MaxWatches = 2
  Audited <- EveryReceipt
INVARIANTS PollTypeOK ReportsInOrder PollerGuarded
PROPERTIES WatchEndsExplained KeepsTheFeed
SYMMETRY SameReceipts
