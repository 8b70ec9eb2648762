SPECIFICATION MCSpec
CONSTANTS
  None = None
  Void = None
  tab1 = tab1
  tab2 = tab2
  map1 = map1
  map2 = map2
  map3 = map3
  worker1 = worker1
  worker2 = worker2
  \* next-leg evidence
  Catalogs <- MCCatalogs
  Sources <- MCSources
  Entities = {"e"}
  Product = "p"
  Dates = {1, 2, 3}
  WeekdayOf <- MCWeekday
  MonthDay <- MCMonthDay
  Skew = 0
  MaxNow = 2
  \* RTW rules
  Itineraries <- MCItineraries
  Cities <- MCCities
  ProductLimits <- MCLimits
  Members = {"m"}
  RuleCarriers = {"m", "x"}
  Departures = {1, 2}
  Days = {9}
  \* share links
  Place <- MCPlace
  Cabins = {1, 2}
  Airlines = {"x"}
  SharedNumbers = {"number"}
  SharedFares = {"J"}
  SharedPairs <- MCPairs
  SharedStopovers = {FALSE}
  SharedReferences <- MCReferences
  SharedLinks <- MCLinks
  MaxSharedLegs = 2
  \* saved routings
  Tabs = {tab1, tab2}
  Names = {"n1", "n2"}
  Urls = {"u"}
  MaxEvents = 2
  \* flight dates
  Months = {1, 2}
  MonthDates = {1, 2}
  Designators = {"f", "x"}
  PanelFlights = {"f"}
  DayKinds <- MCDayKinds
  Official <- MCOfficial
  HasBase = TRUE
  OfficialTTL = 1
  MaxDelay = 5
  MaxSerial = 3
  MaxClock = 3
  \* atlas, loads, library
  Maps = {map1, map2, map3}
  MaxLoads = 3
  MaxReloads = 2
  Selections <- MCSelections
  OriginMeta = {"A", "B"}
  HasShards = TRUE
  Operators = {"K"}
  MaxAttempts = 1
  \* next-leg panel and its evidence
  Airports = {"a", "b", "c"}
  Discoveries <- MCDiscoveries
  CoLocated <- MCSameCity
  FoundAirports = {"c"}
  PanelOrigins = {"a1", "a2", "b"}
  LetterOfOrigin <- MCLetter
  \* collectors, merges, harvests
  Universe = 2
  Workers = {worker1, worker2}
  LayerNumbers = {"1", "2"}
  MaxLayers = 2
  PairCount = 2
  MaxTries = 2
  MaxErrors = 2
  \* registered plans, Indian schedules
  ReviewCaptures <- PlanCaptures
  Proposals <- PlanProposals
  Bases <- PlanBases
  IcaoOf <- OperatorOfEntity
  Original <- FirstPlans
  MaxReviews = 2
  Packets <- ReviewedPackets
  NetworkBuilds <- RouteNetworks
  \* route catalogue and library
  Places = {"gate", "library"}
  Curated <- SmallNetwork
  DetailedNetwork <- LargeNetwork
  Auxiliary <- MCServices
  Alliances = {{"K", "M"}, {"L"}}
  CountryTable <- CountryOfAirport
  Continent <- ContinentOfCountry
  Override <- ContinentOfAirport
  Subregion <- MCSubregion
  LocalRegion <- MCLocalRegion
  SharedCodes = {"N"}
  DayLength = 3
  MaxTime = 4
  FullNetwork <- LargeNetwork
  Partners = {{"K", "M", "L"}, {"L"}}
  KnownAirports = {"a", "b", "c", "d", "e"}
  Named = {"K", "L", "M"}
  ExampleTrips <- Journeys
  Queries <- Searches
  ServiceKeys <- MCServices
  Limit = 3
  Quota = 1
  \* map
  Lon <- MCLon
  Routes <- MapRoutes
  Others = {"e"}
  Guides <- MapGuides
  WorldWidth = 96
  Width = 288
  Pad = 32
  MaxFit <- MCMaxFit
  MaxZoom = 8
  MinScale = 1
  MaxScale = 16
  NetworkLimit = 2
  Radius <- MCRadius
  Pointers = {16, 208}
  MaxMoves = 2
  \* flight numbers, captures, releases
  Inputs <- NumberInputs
  Answers <- NumberPages
  OsloBase <- OsloNetwork
  Feeds <- OsloFeeds
  Past = 1
  Horizon = 2
  MaxHours = 3
  Unreleased <- UnreleasedNetwork
  Editions <- AvinorReleases
  ReleaseScope = 4
  \* files of the site
  SiteEditions <- SiteNetworks
  SiteLetter <- MCLetterOf
  LetterOrder <- MCLetterOrder
  CarrierOrder <- MCCarrierOrder
  AcceptedRoutes <- MCAccepted
  Showcase <- MCShowcase
  MaxCommands = 2
CHECK_DEADLOCK FALSE
INVARIANT
  ShownOperatorsFresh
