CONSTANTS
  Queries = {q1, q2}
  Routes = {r1}
  Tasks = {t1, t2, t3}
  None = None
  Slots = 1
  Budget = 2
  PendingCap = 2
  CacheCap = 2
  TTL = 1
  DayLength = 2
  MaxTime = 2
  MaxDate = 2
  MaxSpan = 2
  Horizon = 1
SPECIFICATION Spec
SYMMETRY Symmetry
INVARIANTS
  SlotAccounting
  SingleFlight
  DailyCeiling
  BoundedMemory
  HonestRefusal
  ExactResponse
  FreshWhenAsked
PROPERTY NoCallWhileFresh
