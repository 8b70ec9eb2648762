SPECIFICATION Spec
CONSTANTS
  Clients = {c1, c2}
  Requests = {h1, h2}
  Origins = {o1}
  Tasks = {t1}
  None = None
  Limit = 2
  Window = 2
  TableCap = 1
  MaxCount = 3
  Requested = "auto"
  TdxConfigured = TRUE
  CiriumConfigured = TRUE
  DailyBudget = 1
  SupplierSlots = 1
  LiveBudget = 1
  PendingCap = 1
  CacheCap = 1
  TTL = 1
  DayLength = 2
  MaxTime = 2
INVARIANT ProcessCeiling
