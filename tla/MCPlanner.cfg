SPECIFICATION MCSpec
CONSTANTS
  a1 = a1
  a2 = a2
  a3 = a3
  p1 = p1
  Airports = {a1, a2, a3}
  Products = {p1}
  None = None
  Links <- MCLinks
  MaxLegs = 3
  MaxGroups = 2
  MaxHistory = 2
  MaxEvents = 2
CHECK_DEADLOCK FALSE
INVARIANTS
  TypeOK
  Connected
  UrlTellsRouting
PROPERTIES
  EchoHarmless
  DragMovesOneAirport
