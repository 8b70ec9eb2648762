SPECIFICATION FairSpec
CONSTANTS
  Queries = {q1, q2}
  Origins = {o1, o2}
  Tasks = {t1, t2}
  None = None
  PendingCap = 1
  CacheCap = 1
  Budget = 2
  TTL = 1
  DayLength = 2
  MaxTime = 2
INVARIANTS
  FreshWhenAsked
PROPERTIES
  ImplementsBudget
  FailuresForgotten
