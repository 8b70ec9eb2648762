---------------------------- MODULE RouteCatalog ----------------------------
(***************************************************************************)
(* The browser of all routes of an alliance (RouteCatalogBrowser.tsx, with *)
(* lib/rtw/route-catalog-browser.ts), in its two places: behind a          *)
(* disclosure of the plan gate (RtwPlanGate.tsx), where it starts from the *)
(* curated network while the detailed one is fetched, and in the route     *)
(* library (AllRoutesPage.tsx), where it keeps its filters when the        *)
(* alliance changes.                                                       *)
(*                                                                         *)
(* A pair is shown with its carriers [key, code, identity, known, hints]:  *)
(* flight numbers known and numbers that are candidates.                   *)
(***************************************************************************)
EXTENDS RouteEvidence

CONSTANTS
  Places,      \* of {"gate", "library"}, see Init
  Curated,     \* the network of the planner's data
  Detailed,    \* the file the gate fetches, and the network of the library
  Auxiliary,   \* schedules, services and references [code, pair, status, numbers]
  Alliances,   \* sets of member codes
  Country,     \* known airport -> country
  Continent,   \* country -> continent, of the countries that are mapped
  Override,    \* airport -> continent, of the exceptions
  Subregion,   \* country -> subregion, of the countries that have one
  LocalRegion  \* airport -> region of its country, of the airports in one

VARIABLES
  place,     \* where the browser is
  members,   \* codes of the alliance
  open,      \* the browser is mounted
  fetching,  \* the detailed network is on its way
  detailed,  \* it has come (routeDetailsCache)
  since,     \* when the network that is shown came
  filter     \* [mode, carrier, region, local]

view == <<place, members, open, fetching, detailed, since, filter>>
vars == <<view, clock>>

All == "all"
NoFilter == [mode |-> "from", carrier |-> All, region |-> <<All>>, local |-> All]

Network == IF detailed THEN Detailed ELSE Curated

\* What the planner and the library start from has been parsed; of what the gate fetches,
\* only that its instants are numbers. Operators have keys that are no carrier's code.
CatalogAssumption ==
  /\ ClockAssumption
  /\ CatalogParses(Curated) /\ ("library" \in Places => CatalogParses(Detailed))
  /\ \A network \in {Curated, Detailed} :
       /\ Deadlines(network) \subseteq Nat /\ IsFiniteSet(network.routes)
       /\ \A row \in network.routes, aux \in Auxiliary : row.entity # aux.code

-----------------------------------------------------------------------------
(***************************************************************************)
(* buildRouteCatalogPairs.                                                 *)
(***************************************************************************)
Published(network) == {row \in network.routes : row.status = "published" /\ row.code \in members}

Blocked(network) ==
  {<<Key(row), row.pair>> : row \in {r \in network.routes : r.status # "published"}}

\* Several operators may be behind a code that some route qualifies.
AmbiguousCode(network, code) ==
  code \in SharedCodes \/ \E row \in network.routes : row.code = code /\ row.entity # None

AuxiliaryUsed(network) ==
  {aux \in Auxiliary :
     /\ aux.status # "suspended"
     /\ ~AmbiguousCode(network, aux.code)
     /\ aux.code \in members
     /\ <<aux.code, aux.pair>> \notin Blocked(network)}

\* A dated number counts until its snapshot expires, and is a candidate after.
FreshNumbers(network, row, at) ==
  {e.number : e \in {d \in row.dated : SourceFresh(d, network.deadline, at)}}

CarrierView(network, pair, key, at) ==
  LET rows  == {row \in Published(network) : row.pair = pair /\ Key(row) = key}
      auxs  == {aux \in AuxiliaryUsed(network) : aux.pair = pair /\ aux.code = key}
      fresh == UNION {FreshNumbers(network, row, at) : row \in rows}
      known == UNION {GenericNumbers(row) : row \in rows} \cup fresh
                 \cup UNION {aux.numbers : aux \in auxs}
      hints == UNION {DatedNumbers(row) \cup row.candidates : row \in rows}
  IN [key      |-> key,
      code     |-> (CHOOSE source \in rows \cup auxs : TRUE).code,
      identity |-> IF auxs # {} \/ fresh # {} THEN "operating"
                   ELSE (CHOOSE row \in rows : TRUE).identity,
      known    |-> known,
      hints    |-> hints \ known]

Pairs(network, at) ==
  LET keyed == {<<row.pair, Key(row)>> : row \in Published(network)}
                 \cup {<<aux.pair, aux.code>> : aux \in AuxiliaryUsed(network)}
  IN {[pair     |-> p,
       carriers |-> {CarrierView(network, p, k[2], at) : k \in {j \in keyed : j[1] = p}}] :
        p \in {k[1] : k \in keyed}}

Shown == Pairs(Network, evidenceNow)
-----------------------------------------------------------------------------
(***************************************************************************)
(* Filters, the options that are offered for them, and groups.             *)
(***************************************************************************)
Side(mode, route) == IF mode = "from" THEN route.pair[1] ELSE route.pair[2]

CountryOf(airport) == IF airport \in DOMAIN Country THEN Country[airport] ELSE "unmapped"

\* continentOf
ContinentOf(airport) ==
  IF airport \in DOMAIN Override THEN Override[airport]
  ELSE IF CountryOf(airport) \in DOMAIN Continent THEN Continent[CountryOf(airport)]
  ELSE "unmapped"

RegionsOf(airport) ==
  {<<"continent", ContinentOf(airport)>>}
    \cup {<<"subregion", Subregion[c]>> : c \in {CountryOf(airport)} \cap DOMAIN Subregion}

LocalOf(airport) == {LocalRegion[a] : a \in {airport} \cap DOMAIN LocalRegion}

Keys(route) == {c.key : c \in route.carriers}

\* filterRouteCatalogPairs
ByCarrier(pairs, carrier) ==
  IF carrier = All THEN pairs
  ELSE {[route EXCEPT !.carriers = {c \in @ : c.key = carrier}] :
          route \in {r \in pairs : carrier \in Keys(r)}}

ByRegion(pairs, mode, region) ==
  {r \in pairs : region = <<All>> \/ region \in RegionsOf(Side(mode, r))}

ByLocal(pairs, mode, local) ==
  {r \in pairs : local = All \/ local \in LocalOf(Side(mode, r))}

CarrierFiltered(f) == ByCarrier(Shown, f.carrier)
RegionFiltered(f) == ByRegion(CarrierFiltered(f), f.mode, f.region)
Filtered(f) == ByLocal(RegionFiltered(f), f.mode, f.local)

\* listRouteCatalogCarrierOptions: with the number of their routes.
CarrierOptions ==
  LET pairs == Shown
  IN {<<k, Cardinality({r \in pairs : k \in Keys(r)})>> : k \in UNION {Keys(r) : r \in pairs}}

\* listRouteCatalogRegionOptions
RegionOptions(f) ==
  LET pairs == CarrierFiltered(f)
      of(r) == RegionsOf(Side(f.mode, r))
  IN {<<g, Cardinality({r \in pairs : g \in of(r)})>> : g \in UNION {of(r) : r \in pairs}}

\* listRouteCatalogLocalRegionOptions: of airports that are known.
LocalOptions(f) ==
  LET pairs == {r \in RegionFiltered(f) : Side(f.mode, r) \in DOMAIN Country}
      of(r) == LocalOf(Side(f.mode, r))
  IN {<<g, Cardinality({r \in pairs : g \in of(r)})>> : g \in UNION {of(r) : r \in pairs}}

\* groupRouteCatalog: continents, countries in them, airports in those.
Groups(f) ==
  LET pairs == Filtered(f)
      place3(r) == LET a == Side(f.mode, r) IN <<ContinentOf(a), CountryOf(a), a>>
  IN {[at       |-> g,
       routes   |-> Cardinality({r \in pairs : place3(r) = g}),
       carriers |-> UNION {Keys(r) : r \in {q \in pairs : place3(q) = g}}] :
        g \in {place3(r) : r \in pairs}}
-----------------------------------------------------------------------------
(***************************************************************************)
(* What a choice makes of the filters.                                     *)
(***************************************************************************)
AfterMode(f, mode) == [NoFilter EXCEPT !.mode = mode, !.carrier = f.carrier]

AfterCarrier(f, carrier) == [NoFilter EXCEPT !.mode = f.mode, !.carrier = carrier]

AfterRegion(f, region) == [f EXCEPT !.region = region, !.local = All]

AfterLocal(f, local) == [f EXCEPT !.local = local]
-----------------------------------------------------------------------------
Init ==
  /\ place \in Places
  /\ members \in Alliances
  /\ open = FALSE
  /\ fetching = FALSE
  /\ detailed = (place = "library")
  /\ since = 0
  /\ filter = NoFilter
  /\ InitClock

\* The disclosure opens: the browser is mounted, and the gate fetches its network
\* unless it has it.
Open ==
  /\ ~open
  /\ open' = TRUE
  /\ fetching' = ~detailed
  /\ filter' = NoFilter
  /\ Mount(Network)
  /\ UNCHANGED <<place, members, detailed, since, now>>

\* It closes: the fetch is aborted and the browser forgets its filters.
Close ==
  /\ open
  /\ open' = FALSE
  /\ fetching' = FALSE
  /\ Unmount
  /\ UNCHANGED <<place, members, detailed, since, filter, now>>

DetailsArrive ==
  /\ fetching /\ CatalogParses(Detailed)
  /\ fetching' = FALSE
  /\ detailed' = TRUE
  /\ since' = now
  /\ Rearm(Detailed)
  /\ UNCHANGED <<place, members, open, filter, now>>

\* The curated network remains; the next opening tries again.
DetailsFail ==
  /\ fetching
  /\ fetching' = FALSE
  /\ UNCHANGED <<place, members, open, detailed, since, filter, clock>>

\* The gate closes the disclosure, the library keeps the browser as it is.
ChooseAlliance(codes) ==
  /\ codes # members
  /\ members' = codes
  /\ IF place = "gate"
     THEN open' = FALSE /\ fetching' = FALSE /\ Unmount
     ELSE UNCHANGED <<open, fetching, evidenceNow, due>>
  /\ UNCHANGED <<place, detailed, since, filter, now>>

ChooseFilter(f) ==
  /\ open
  /\ filter' = f
  /\ UNCHANGED <<place, members, open, fetching, detailed, since, clock>>

ResetFilters == ChooseFilter([NoFilter EXCEPT !.mode = filter.mode])

Look == (Tick \/ TimerFires(Network) \/ Refresh(Network)) /\ UNCHANGED view

Next ==
  \/ Open \/ Close \/ DetailsArrive \/ DetailsFail \/ Look \/ ResetFilters
  \/ \E codes \in Alliances : ChooseAlliance(codes)
  \/ \E mode \in {"from", "to"} : ChooseFilter(AfterMode(filter, mode))
  \/ \E option \in CarrierOptions : ChooseFilter(AfterCarrier(filter, option[1]))
  \/ \E option \in RegionOptions(filter) : ChooseFilter(AfterRegion(filter, option[1]))
  \/ \E option \in LocalOptions(filter) : ChooseFilter(AfterLocal(filter, option[1]))

Spec == Init /\ [][Next]_vars
-----------------------------------------------------------------------------
TypeOK ==
  /\ place \in {"gate", "library"}
  /\ {open, fetching, detailed} \subseteq BOOLEAN
  /\ now \in 0..MaxTime /\ evidenceNow \in 0..now /\ since \in 0..now
  /\ due \in {None} \cup 1..(MaxTime + DayLength + 1)

\* An open browser shows what the evidence says now, until a millisecond before its
\* timer is due, once it has looked at the network it shows. (A network that arrives
\* sets the timer anew without a look, so what lapsed while it was fetched is shown as
\* fresh until the next change.)
CatalogCurrent ==
  open /\ evidenceNow >= since /\ now < due - 1
    => Pairs(Network, evidenceNow) = Pairs(Network, now)

\* What is said of a carrier on a pair comes from somewhere: an operating carrier is one
\* in the network, in a schedule or publication, or by a number observed in a snapshot
\* that holds; and no schedule or publication brings back what the network has
\* withdrawn, whichever of the operators of the code it was withdrawn for.
CarriersGrounded ==
  LET network == Network
  IN \A route \in Shown : \A c \in route.carriers :
       LET rows == {r \in network.routes : r.pair = route.pair /\ r.code = c.code}
       IN /\ \/ \E r \in rows : Key(r) = c.key /\ r.status = "published"
             \/ \A r \in rows : r.status = "published" /\ r.entity = None
          /\ c.identity = "operating" =>
               \/ \E r \in rows : Key(r) = c.key /\ r.identity = "operating"
               \/ \E r \in rows : FreshNumbers(network, r, evidenceNow) # {}
               \/ \E aux \in Auxiliary : aux.code = c.key /\ aux.pair = route.pair

\* Every option leads to as many routes as it says, in the list and in its groups, and
\* nothing is shown only if a filter is in force that is no longer offered: the alliance
\* or the network changed under it.
OptionsSound ==
  open =>
    /\ \A option \in CarrierOptions :
         Cardinality(Filtered(AfterCarrier(filter, option[1]))) = option[2]
    /\ \A option \in RegionOptions(filter) :
         LET groups == Groups(AfterRegion(filter, option[1]))
         IN /\ MapThenSumSet(LAMBDA g : g.routes, groups) = option[2]
            /\ option[1][1] = "continent" => \A g \in groups : g.at[1] = option[1][2]
    /\ \A option \in LocalOptions(filter) :
         Cardinality(Filtered(AfterLocal(filter, option[1]))) = option[2]
    /\ \A mode \in {"from", "to"} :
         filter.carrier \in {All} \cup {o[1] : o \in CarrierOptions} /\ Shown # {}
           => Filtered(AfterMode(filter, mode)) # {}
    /\ Filtered(filter) = {} =>
         \/ Shown = {}
         \/ filter.carrier \notin {All} \cup {o[1] : o \in CarrierOptions}
         \/ filter.region \notin {<<All>>} \cup {o[1] : o \in RegionOptions(filter)}
         \/ filter.local \notin {All} \cup {o[1] : o \in LocalOptions(filter)}
=============================================================================
