SPECIFICATION Spec
CONSTANTS
  Queries = {q1, q2}
  Routes = {r1, r2}
  Served = {r1, r2}
  Tasks = {t1, t2}
  None = None
  Slots = 2
  Budget = 4
  PendingCap = 2
  CacheCap = 1
  MaxPages = 2
  TTL = 2
  Margin = 0
  Lifetimes = {1}
  DayLength = 2
  MaxTime = 2
SYMMETRY Symmetry
INVARIANTS
  TypeOK
  OneTokenRequest
  RetryUsesAnotherToken
  SnapshotsComplete
  HonestRefusal
