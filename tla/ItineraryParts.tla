--------------------------- MODULE ItineraryParts ---------------------------
(***************************************************************************)
(* The parts of the pages beside the editor, one instance each: what may   *)
(* be offered for the next leg, the flights of a day, the rules, the share *)
(* link, the routings that are kept, the map, and the route library with   *)
(* its explorer and the route catalogue. They share no state, so a         *)
(* behaviour is of one of them (`focus`) or of none, and the others stay   *)
(* where they begin: a part's behaviours are those it has alone. The       *)
(* properties are those of the part that moves, for all values of the      *)
(* constants; ItineraryProofs proves them.                                 *)
(***************************************************************************)
EXTENDS Naturals, Sequences

CONSTANTS
  None,  \* what is not there
  \* NextLegEvidence
  Catalogs, Sources, Entities, Product, Dates, WeekdayOf, MonthDay, Skew, MaxNow,
  \* RtwRules
  Itineraries, Cities, ProductLimits, Members, RuleCarriers, Departures, Days,
  \* ShareUrl
  Place, Cabins, Airlines, SharedNumbers, SharedFares, SharedPairs, SharedStopovers,
  SharedReferences, SharedLinks, MaxSharedLegs,
  \* SavedRoutings
  Tabs, Names, Urls, MaxEvents,
  \* FlightDates
  Months, MonthDates, Designators, PanelFlights, DayKinds, Official, HasBase,
  OfficialTTL, MaxDelay, MaxSerial, MaxClock,
  \* NextLegPanel
  Airports, Discoveries, CoLocated, FoundAirports,
  \* OriginEvidence
  PanelOrigins, LetterOfOrigin,
  \* WorldMap
  Maps, MaxLoads,
  \* DataLoads
  MaxReloads,
  \* MapView
  Lon, Routes, Others, Guides, WorldWidth, Width, Pad, MaxFit, MaxZoom, MinScale,
  MaxScale, NetworkLimit, Radius, Pointers, MaxMoves,
  \* RouteLibrary
  Selections, OriginMeta, HasShards, Operators, MaxAttempts,
  \* RouteCatalog
  Places, Curated, DetailedNetwork, Auxiliary, Alliances, CountryTable, Continent,
  Override, Subregion, LocalRegion, SharedCodes, DayLength, MaxTime,
  \* LibraryEntities
  FullNetwork, Partners, KnownAirports, Named, ExampleTrips, Queries, ServiceKeys,
  Limit, Quota

VARIABLES
  focus,
  \* NextLegEvidence
  catalog, date, moment, listed,
  \* RtwRules
  legs, days,
  \* ShareUrl
  shared, cabin,
  \* SavedRoutings
  store, savedTabs, savedShown, lastError, storageEvents, unremoved, missed,
  \* FlightDates
  time, month, selected, answer, status, clock, serial, picked, queries, chosen,
  \* NextLegPanel
  end, hidden, offers, selection, draft, target, surface, manual,
  \* OriginEvidence
  origin, asking, live, fetching, cached, shard, failed,
  \* WorldMap
  snapshot, inFlight, fetches, loads, listeners, seen,
  \* DataLoads
  hook, mounted, attempt, loading, load,
  \* MapView
  route, guide, pickedStop, view, fitted, drag, held, moves,
  \* RouteLibrary
  page, requests, late,
  \* RouteCatalog
  place, members, open, unfolding, detailed, since, filter, now, evidenceNow, due,
  \* LibraryEntities
  shownEntity, eligible, loaded, entitySince, planned, entityNow, entityLook, entityDue

Evidence == INSTANCE NextLegEvidence WITH
  now <- moment, Weekday <- WeekdayOf

Rules == INSTANCE RtwRules WITH
  Airports <- Cities, Product <- ProductLimits, Carriers <- RuleCarriers,
  Dates <- Departures

Share == INSTANCE ShareUrl WITH
  groups <- shared, Carriers <- Airlines, Numbers <- SharedNumbers,
  Fares <- SharedFares, Pairs <- SharedPairs, Stopovers <- SharedStopovers,
  References <- SharedReferences, Links <- SharedLinks, MaxLegs <- MaxSharedLegs

Saved == INSTANCE SavedRoutings WITH
  tabs <- savedTabs, shown <- savedShown, events <- storageEvents

Panel == INSTANCE FlightDates WITH
  requests <- queries, Dates <- MonthDates, Wanted <- PanelFlights

NextLeg == INSTANCE NextLegPanel WITH
  SameCity <- CoLocated, Found <- FoundAirports

Origin == INSTANCE OriginEvidence WITH
  Origins <- PanelOrigins, Letter <- LetterOfOrigin

World == INSTANCE WorldMap

Loads == INSTANCE DataLoads WITH
  MaxLoads <- MaxReloads

Map == INSTANCE MapView WITH
  selection <- pickedStop

Library == INSTANCE RouteLibrary WITH
  Carriers <- Operators

Catalog == INSTANCE RouteCatalog WITH
  fetching <- unfolding, Detailed <- DetailedNetwork, Country <- CountryTable

Explorer == INSTANCE LibraryEntities WITH
  selection <- shownEntity, members <- eligible, since <- entitySince, now <- entityNow,
  evidenceNow <- entityLook, due <- entityDue, Full <- FullNetwork,
  Alliances <- Partners, Airports <- KnownAirports, Examples <- ExampleTrips,
  Services <- ServiceKeys

-----------------------------------------------------------------------------
\* What the proofs assume of the constants.
ASSUME ItineraryAssumptions ==
  /\ Evidence!EvidenceAssumption /\ Rules!RulesAssumption /\ Share!ShareAssumption
  /\ Panel!PanelAssumption /\ NextLeg!OfferAssumption /\ Origin!OriginAssumption
  /\ Map!MapAssumption
  /\ Library!LibraryAssumption /\ Catalog!CatalogAssumption /\ Explorer!EntitiesAssumption

\* The variables of each part.
evidenceVars == <<catalog, date, moment, listed>>
rulesVars == <<legs, days>>
shareVars == <<shared, cabin>>
savedVars == <<store, savedTabs, savedShown, lastError, storageEvents, unremoved,
               missed>>
panelVars == <<time, month, selected, answer, status, clock, serial, picked, queries,
               chosen>>
nextVars == <<end, hidden, offers, selection, draft, target, surface, manual>>
originVars == <<origin, asking, live, fetching, cached, shard, failed>>
worldVars == <<snapshot, inFlight, fetches, loads, listeners, seen>>
loadsVars == <<hook, mounted, attempt, loading, load>>
mapVars == <<route, guide, pickedStop, view, fitted, drag, held, moves>>
libraryVars == <<page, requests, late>>
catalogVars == <<place, members, open, unfolding, detailed, since, filter, now,
                 evidenceNow, due>>
entitiesVars == <<shownEntity, eligible, loaded, entitySince, planned, entityNow,
                  entityLook, entityDue>>

itineraryVars == <<focus, evidenceVars, rulesVars, shareVars, savedVars, panelVars,
                   nextVars, originVars, worldVars, loadsVars, mapVars, libraryVars,
                   catalogVars, entitiesVars>>

ItineraryInit ==
  /\ focus \in {None, "evidence", "rules", "share", "saved", "panel", "next",
                   "origin", "world", "loads", "map", "library", "catalog",
                   "entities"}
  /\ IF focus = "evidence" THEN Evidence!Init
     ELSE catalog = None /\ date = None /\ moment = None /\ listed = None
  /\ IF focus = "rules" THEN Rules!Init
     ELSE legs = None /\ days = None
  /\ IF focus = "share" THEN Share!Init
     ELSE shared = None /\ cabin = None
  /\ IF focus = "saved" THEN Saved!Init
     ELSE store = None /\ savedTabs = None /\ savedShown = None /\ lastError = None /\
          storageEvents = None /\ unremoved = None /\ missed = None
  /\ IF focus = "panel" THEN Panel!Init
     ELSE time = None /\ month = None /\ selected = None /\ answer = None /\
          status = None /\ clock = None /\ serial = None /\ picked = None /\
          queries = None /\ chosen = None
  /\ IF focus = "next" THEN NextLeg!Init
     ELSE end = None /\ hidden = None /\ offers = None /\ selection = None /\
          draft = None /\ target = None /\ surface = None /\ manual = None
  /\ IF focus = "origin" THEN Origin!Init
     ELSE origin = None /\ asking = None /\ live = None /\ fetching = None /\
          cached = None /\ shard = None /\ failed = None
  /\ IF focus = "world" THEN World!Init
     ELSE snapshot = None /\ inFlight = None /\ fetches = None /\ loads = None /\
          listeners = None /\ seen = None
  /\ IF focus = "loads" THEN Loads!Init
     ELSE hook = None /\ mounted = None /\ attempt = None /\ loading = None /\
          load = None
  /\ IF focus = "map" THEN Map!Init
     ELSE route = None /\ guide = None /\ pickedStop = None /\ view = None /\
          fitted = None /\ drag = None /\ held = None /\ moves = None
  /\ IF focus = "library" THEN Library!Init
     ELSE page = None /\ requests = None /\ late = None
  /\ IF focus = "catalog" THEN Catalog!Init
     ELSE place = None /\ members = None /\ open = None /\ unfolding = None /\
          detailed = None /\ since = None /\ filter = None /\ now = None /\
          evidenceNow = None /\ due = None
  /\ IF focus = "entities" THEN Explorer!Init
     ELSE shownEntity = None /\ eligible = None /\ loaded = None /\ entitySince = None
          /\ planned = None /\ entityNow = None /\ entityLook = None /\
          entityDue = None

ItineraryNext ==
  /\ UNCHANGED focus
  /\ IF focus = "evidence" THEN Evidence!Next ELSE UNCHANGED evidenceVars
  /\ IF focus = "rules" THEN Rules!Next ELSE UNCHANGED rulesVars
  /\ IF focus = "share" THEN Share!Next ELSE UNCHANGED shareVars
  /\ IF focus = "saved" THEN Saved!Next ELSE UNCHANGED savedVars
  /\ IF focus = "panel" THEN Panel!Next ELSE UNCHANGED panelVars
  /\ IF focus = "next" THEN NextLeg!Next ELSE UNCHANGED nextVars
  /\ IF focus = "origin" THEN Origin!Next ELSE UNCHANGED originVars
  /\ IF focus = "world" THEN World!Next ELSE UNCHANGED worldVars
  /\ IF focus = "loads" THEN Loads!Next ELSE UNCHANGED loadsVars
  /\ IF focus = "map" THEN Map!Next ELSE UNCHANGED mapVars
  /\ IF focus = "library" THEN Library!Next ELSE UNCHANGED libraryVars
  /\ IF focus = "catalog" THEN Catalog!Next ELSE UNCHANGED catalogVars
  /\ IF focus = "entities" THEN Explorer!Next ELSE UNCHANGED entitiesVars

ItinerarySpec == ItineraryInit /\ [][ItineraryNext]_itineraryVars
-----------------------------------------------------------------------------
(***************************************************************************)
(* Properties.                                                             *)
(***************************************************************************)
\* What is shown holds now: the flight dates are those of the last query, components that
\* share the atlas show one outcome of its loads, a page that of its own latest load, the
\* next-leg panel that of the airport the route ends at, and a bad optional file costs only
\* what it is for; the map fits the route that is shown and draws every next stop once; a
\* tab shows the saved routings as they are stored (FlightDatesPanel.tsx, use-world-map.ts,
\* use-loaded-data.ts and its like, DestinationsPanel.tsx, MapView.tsx,
\* use-saved-routings.ts).
ShownIsCurrent ==
  /\ focus = "panel" => Panel!ShownIsCurrent
  /\ focus = "world" => World!OneMapForAll
  /\ focus = "loads" => Loads!LatestLoadOnly /\ Loads!OptionalFilesDegrade
  /\ focus = "origin" => Origin!EvidenceComes
  /\ focus = "map" => Map!ViewIsFitted /\ Map!StopsDrawnOnce
  /\ focus = "saved" => Saved!QuietTabsAgree

\* A flight that is handed to the itinerary rests on evidence that holds at that moment
\* (FlightDatesPanel.tsx, choose); and what was said stands until something is said against
\* it: a pass or a fail of a rule outlasts what was still unknown (validate.ts), and time
\* alone adds nothing to an option, nor a live listing anything to what evidence says
\* (next-leg-discovery.ts, live-next-leg-discovery.ts).
VerdictsStand ==
  [][/\ focus = "panel" => Panel!ChoiceHolds
     /\ focus = "rules" => Rules!VerdictsKept
     /\ focus = "evidence" => Evidence!EvidenceKept]_itineraryVars

\* The link of any trip the editor can make opens and tells the trip (url-schema.ts).
RoundTrip == focus = "share" => Share!RoundTrip

\* What is offered can be had: the next-leg panel offers what its evidence allows, and
\* whatever happened between a choice in it and its button, the button adds a leg that
\* continues the route, with the choices made for that flight (next-leg-discovery.ts,
\* DestinationsPanel.tsx, App.tsx:522).
OffersSound ==
  /\ focus = "evidence" => Evidence!EvidenceSound
  /\ focus = "next" => NextLeg!OffersSound

\* The route library never waits for nothing (AllRoutesPage.tsx).
NeverStuck == focus = "library" => Library!NeverStuck

\* The route catalogue says of its carriers what the evidence says at this moment and
\* nothing that comes from nowhere, and so do the pages of the library and its buttons
\* (RouteCatalogBrowser.tsx, RouteLibraryExplorer.tsx, use-evidence-clock.ts).
LibraryIsCurrent ==
  /\ focus = "catalog" => Catalog!CatalogCurrent /\ Catalog!CarriersGrounded
  /\ focus = "entities" => Explorer!LibraryCurrent

\* "Evidence for who operates a flight" that is shown has not expired
\* (FlightDatesPanel.tsx:88).
ShownOperatorsFresh == focus = "panel" => Panel!ShownOperatorsFresh
=============================================================================
