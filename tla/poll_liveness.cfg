SPECIFICATION FairPollSpec
CONSTANTS
  c1 = c1
  Venues = {v1, v2}
  MaxGen = 1
  Callers = {c1}
  Tasks = {t1}
  CallerOf <- SameCaller
  Ops = {"observe"}
  Receipts = {r1}
  MaxCharges = 1
  Window = 0
  MaxEntries = 2
  Grace = 1
  MaxNow = 1
  Responsive = {v1, v2}
  Poller = Poller
  None = None
  Statuses = {"pending", "fulfilled"}
  ChannelBuf = 1
  Encodes = TRUE
  MaxWatches = 2
  Audited = {}
INVARIANT LastReportTravels
PROPERTY SettlementHeard
