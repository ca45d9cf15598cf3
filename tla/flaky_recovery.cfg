SPECIFICATION FairFlakySpec
CONSTANTS
  c1 = c1
  Venues = {v1}
  MaxGen = 2
  Callers = {c1}
  Tasks = {t1, t2}
  CallerOf <- SameCaller
  Ops = {"submit", "status"}
  Receipts = {r1}
  MaxCharges = 2
  Window = 0
  MaxEntries = 1
  Grace = 1
  MaxNow = 1
  Responsive = {v1}
  Poller = Poller
  None = None
INVARIANT OneStaleRevival
PROPERTIES BehavesAsAVenue RecoversForGood
