SPECIFICATION FairSpec
CONSTANTS
  Queries = {q1, q2}
  Routes = {r1, r2}
  Served = {r1, r2}
  Tasks = {t1, t2}
  None = None
  Slots = 1
  Budget = 2
  PendingCap = 2
  CacheCap = 1
  MaxPages = 1
  TTL = 2
  Margin = 0
  Lifetimes = {2}
  DayLength = 1
  MaxTime = 1
PROPERTIES
  QueriesAnswered
  ImplementsBudget
