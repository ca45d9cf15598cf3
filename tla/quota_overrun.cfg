SPECIFICATION Spec
CONSTANTS
  t1 = t1
  t2 = t2
  t3 = t3
  c1 = c1
  c2 = c2
  Venues = {v1}
  MaxGen = 1
  Callers = {c1}
  Tasks = {t1, t2}
  CallerOf <- SameCaller
  Ops = {"submit"}
  Receipts = {r1}
  MaxCharges = 1
  Window = 1
  MaxEntries = 1
  Grace = 1
  MaxNow = 2
  Responsive = {v1}
  Poller = Poller
  None = None
INVARIANT ChargesWithinBudget
