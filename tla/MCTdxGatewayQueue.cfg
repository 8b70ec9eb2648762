SPECIFICATION Spec
CONSTANTS
  Queries = {q1, q2, q3}
  Routes = {r1, r2, r3}
  Served = {r1, r2, r3}
  Tasks = {t1, t2, t3}
  None = None
  Slots = 1
  Budget = 2
  PendingCap = 2
  CacheCap = 1
  MaxPages = 1
  TTL = 2
  Margin = 0
  Lifetimes = {2}
  DayLength = 1
  MaxTime = 1
SYMMETRY Symmetry
INVARIANTS
  SlotAccounting
  BoundedMemory
