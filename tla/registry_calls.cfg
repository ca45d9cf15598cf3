SPECIFICATION Spec
CONSTANTS
  t1 = t1
  t2 = t2
  t3 = t3
  c1 = c1
  c2 = c2
  Venues = {v1}
  MaxGen = 2
  Callers = {c1}
  Tasks = {t1, t2}
  CallerOf <- SameCaller
  Ops = {"submit", "quote", "observe", "status", "cancel"}
  Receipts = {r1, r2, r3}
  MaxCharges = 1
  Window = 1
  MaxEntries = 2
  Grace = 2
  MaxNow = 2
  Responsive = {v1}
  Poller = Poller
  None = None
INVARIANTS SlotGuarded WatchBounded
PROPERTIES WatchOutlivesOverflow AcceptedIsWatched
SYMMETRY SameReceipts
