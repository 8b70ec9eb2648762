CONSTANTS
  Queries = {q1, q2}
  Routes = {r1}
  Tasks = {t1, t2}
  None = None
  Slots = 1
  Budget = 1
  PendingCap = 2
  CacheCap = 2
  TTL = 1
  DayLength = 1
  MaxTime = 1
  MaxDate = 1
  MaxSpan = 2
  Horizon = 1
SPECIFICATION FairSpec
PROPERTIES
  QueriesAnswered
  ImplementsBudget
