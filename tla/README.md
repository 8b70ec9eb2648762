# A TLA+ model of gcmp, the RTW route planner

gcmp is a React client for planning round-the-world itineraries, an optional
Node server that looks up dated flight schedules, and scripts that collect,
review, merge and publish the route data the client reads. These modules model
the parts that keep state: the server's supplier gateways and the HTTP server
over them, the itinerary editor with the URL that mirrors it, the pages and what
they load, and the data pipeline. TLC checks every part on small instances;
TLAPS proves the safety properties of the server's gateways, of the process that
composes them, of the editor and its links, and of half of the pages, rules and
scripts, for every value of their constants.

## 1. The system

| Part (source) | State | Model |
|---|---|---|
| Cirium gateway `server/flight-schedules.ts` | `cache`, `pending`, `waiters`, `active`, `budgetDate`, `used` | `ScheduleGateway` |
| TDX gateway `server/tdx-schedules.ts`, `operator-evidence.ts` | the same per route, `token`, `tokenTask` | `TdxGateway`; its rows: `TdxTimetable` |
| Live-route gateway `server/live-routes.ts` | `cache`, `pending`, `budgetDate`, `used` | `LiveRoutes` |
| HTTP server `server/schedule-http.ts` | `clients` (rate limit) | `ScheduleServer` |
| Provider selection `server/hybrid-schedules.ts`, official fallback | two gateways | `ScheduleServer`, `FlightDates` |
| Routing state `src/state/use-routing-state.ts` | itinerary, flag, the browser's history | `Planner` |
| Itinerary editor `src/App.tsx`, `lib/rtw/itinerary-edit.ts` | tab, buffered airports, legs | `Planner`, `ShareUrl`, `RtwRules`, `NextLegPanel` |
| Share-URL schema `src/lib/url-schema.ts` | none | `ShareUrl`, `Planner` |
| Next-leg panel and discovery | drafts, selection, shard, live listing | `NextLegPanel`, `OriginEvidence`, `NextLegEvidence` |
| Saved routings `src/state/use-saved-routings.ts` | one key of localStorage, a list per tab | `SavedRoutings` |
| Flight dates panel, schedule client | serial, answer, clock | `FlightDates` |
| Data loaders, evidence clock | shared snapshot, one load per hook | `WorldMap`, `DataLoads`, `RouteEvidence` |
| Official timetables and dated status | none | `FlightDates` |
| Seasonal finder | template, result | `SeasonalFinder` |
| RTW rules, mileage, award pricing | none | `RtwRules`, `RtwGeography` |
| Route library | selection, shards | `RouteLibrary`, `LibraryEntities` |
| Route catalogue and plan gate | filters, detailed network | `RouteCatalog`, `RouteEvidence` |
| Runtime network build | layers of a row, cache files | `RouteMerge`, `FlightNumberLayer` |
| Reviewed evidence packets (DGCA, Avinor, SIROS) | packets, pins, prepared file, releases | `DgcaEvidence`, `AvinorOverlay`, `AvinorCapture`, `AvinorRelease`, `RegisteredPlans` |
| Observed routes (MrAirspace, ADSBiq) | releases, overlay | `ObservedRoutes` |
| Published data files | files on disk, on the site, in a page | `SiteData` |
| Collectors and harvesters | cache files, cursor, workers | `RouteCollection`, `ScheduleHarvest` |
| Planner map `MapView.tsx`, `map-layout.ts` | view, drag | `MapView` |
| Landing page, globe, presentation; replay and calibration tools; other build scripts | - | not modelled (section 7) |

How they interact. The editor writes the itinerary to the hash, and the browser
answers later with an event. The dates panel asks the HTTP server; the server
counts the request against its address, then calls the live-route gateway or,
through the hybrid gateway, exactly one schedule supplier; the gateway answers
from its cache, joins a request in flight, queues, or spends from its daily
budget. Nothing is persisted by the server: a restart forgets caches and counts.
The pages read files that the scripts derive from one another: collectors and
harvesters feed reviewed packets, packets and layers are merged into a network,
the network is cut into shards, hashed and published, and a page puts together
files that may be of two publications. What the pages offer is evidence with an
expiry, looked at again by timers while a page stays open.

What is hard. The server is single-threaded JavaScript, so its interleavings are
those of awaits and promise callbacks: a slot is handed to a waiter that resumes
later; `.then` and `.finally` run in separate microtasks; budgets are read after
waits; tokens expire and are refused while they are used; clients leave. In the
client, an edit and its hash event are separated in time, and one flag must tell
the echo of an edit from real navigation; answers arrive after the question has
changed; evidence expires while it is shown; tabs share one storage key. Scripts
are killed and run again over files a kill may have torn, and a review may be of
an input that has since been replaced. What each hazard is, where it bites and
which property guards it is listed in `PROJECT.json`.

What makes each part correct:

- a gateway starts at most `dailyBudget` requests in a UTC day, refuses only when
  that is true, asks once for what several queries want, keeps its maps within
  their caps, never serves what had expired when it was asked, and answers every
  query;
- the TDX gateway requests one token at a time, does not retry with the token
  that was refused, and answers and caches whole timetables only;
- the server bounds what one address gets through, charges one supplier for one
  action, and answers after everything it paid for has come back;
- the planner's URL and itinerary agree once the browser is quiet, an echo never
  takes an edit back, every group stays a connected route, a link brings back the
  trip it was made from, and a rule's verdict stands when a missing fact is
  filled in;
- a page shows the answer to its last question, shows nothing that has expired,
  offers only what can be added, and always can go on;
- a script that was killed comes to the result it would have come to, counts
  everything it was given, publishes only what was reviewed, and a check that
  passes means that the files agree.

## 2. The modules

### The server

`ProviderBudget` - the abstract specification the gateways implement: callers
start and finish calls, at most `Slots` at once and at most `Budget` on a day.
Its fairness is that every call finishes.

`ScheduleGateway` - `createScheduleGateway`. What runs between two awaits is one
action. A task is one `fetchDay` promise and its `phase` says where it is
suspended: `queued` in `waiters`, `handed` a slot but not resumed, `calling`,
`settled` (result known and slot released in `finally`), `stored` (cache written,
the pending entry not yet removed). `Query` is the synchronous part of `query`
with its check of the queue's cap, `GetDay` one turn of the loop over its dates
(`running` keeps everything else out until the loop ends), and `Respond` the end
of `Promise.all`. The data of a day is its issue, and the time it was made.
`BetweenEvents` says that Node runs all due promise callbacks before the next
HTTP event; the callbacks among themselves interleave freely, which is more than
the microtask queue's order allows and keeps the model independent of it.

`TdxGateway` - `createTdxGateway` in the same style: `GetToken` with its three
cases, `AskPage`, `Retry` after a 401, `NextPage`, `Finish`, `Fail` at each await.
`TdxTimetable` is what the collected rows and the operator catalogues are made
into. `LiveRoutes` - `createLiveRouteGateway`, whose failures are rejections.

`ScheduleServer` - the process: the request handler of `schedule-http.ts` with
every exit, the limiter's table, clients that disconnect, provider selection,
the live-route gateway (`LR`, an instance of `LiveRoutes`) and one metered client
per schedule supplier (`Supplier(p)`, instances of `ProviderBudget`, which the
gateways are shown to implement).

### The itinerary

`Planner` - the mutators of `App.tsx`, each with the `setRouting` it ends in;
`setRouting`'s ways of writing the hash; the session history with its queue of
hashchange events; Back, Forward, pasted links and reloads. A leg is its two
airports, and the RTW product stands for the settings that the URL carries beside
the legs. `Reload` also stands for a visit to the landing page, which unmounts
the planner.

`ShareUrl` - the link as parallel columns of cells, and the edits of the fields
they carry. `RtwRules` - rules over facts that may be missing (stopovers,
carriers, dates) and the handlers that fill them in. `RtwGeography` - rules over
the airports alone, the price of the award, and a traveller who builds a trip.
`NextLegEvidence` - what discovery makes of rows, timetables, references, gaps and
passenger rules for one carrier on one sector, with a live listing that comes and
goes. They are pure code driven by the edits that feed it.

### The pages

`SavedRoutings` (tabs, storage events, writes that fail), `FlightDates` (month
queries with abort and serial, the merge with official dates, the expiry timer, a
click checked against the clock), `WorldMap` and `DataLoads` (shared and private
loads), `NextLegPanel` (drafts against a moving route and selection),
`OriginEvidence` (the shard and the live listing of the last airport),
`RouteLibrary` (effects, aborts and late answers), `RouteEvidence` (how fresh a
flight number is, and the evidence clock), `RouteCatalog` and `LibraryEntities`
(two browsers over it), `MapView` (view, clusters, clicks) and `SeasonalFinder`
(template, greedy search, replacement of the itinerary).

### The data

`RouteCollection` and `ScheduleHarvest` (resumable scripts, killed between any two
steps), `FlightNumberLayer` (sources in order, workers over cache files),
`RouteMerge` (one row through every layer, gate and quarantine of the build),
`DgcaEvidence` (three scripts: prepare, build, verify), `AvinorOverlay` with
`AvinorCapture` and `AvinorRelease`, and `RegisteredPlans` (review, pin, publish,
verify), `ObservedRoutes` (quarterly releases), `SiteData` (derived files, the
publication and a page that loads them).

### Instances and proofs

`ScheduleGateway`, `TdxGateway`, `LiveRoutes` and `ScheduleServer` are run as they
stand; their symmetry sets are at their ends. `MCPlanner` gives `Planner` its two
instances. `ItineraryParts` and `DataParts` instantiate the small modules of the pages
and those that route data goes through. The parts share no state, so a behaviour
is of one of them, chosen by `focus` or `subject`, and the variables of the others stay
as they are; each property is named for what the parts' properties have in common and
says `focus = "x" => X!Property`. `MCParts` extends both, adds the four parts that are
not proved about, and holds the inputs: small networks, timetables, packets, feeds.

`ScheduleGatewayProofs`, `TdxGatewayProofs`, `LiveRoutesProofs`,
`ScheduleServerProofs` and `PlannerProofs` hold the theorems of the module they are
named for and extend, `ItineraryProofs` and `DataProofs` those of `ItineraryParts` and
`DataParts`, with a section and an invariant for each part (`RulesInv`, `LibraryInv`,
...). `SequenceLemmas` is what several of them need of sequences. What a proof assumes
of a part's constants is defined in the part's module (`RulesAssumption`,
`LibraryAssumption`, ...) and assumed, of the instance, in `ItineraryParts` and
`DataParts`.

Operators marked `(Fault: ...)` stand just before the definition they distort.
No specification uses them; they are plausible bugs, and substituting one for
that definition must make TLC refute the property that `PROJECT.json`
("mutants") names.

## 3. The runs

| Run | Instance | Shows |
|---|---|---|
| `gateway_safety` | 2 queries, 1 route, 3 tasks, dates 0..2, spans of 1-2 dates, 1 slot, budget 2, 2 pending, cache of 2, TTL 1, two UTC days | slots, coalescing, ceiling, memory, honest refusals, exact and fresh responses, no call for what is cached |
| `gateway_liveness` | 2 queries, 2 tasks, budget 1, a queue of waiters | every query answered; implements `ProviderBudget` |
| `tdx_tokens` | 2 routes, queries and tasks, 2 slots, budget 4, 2 pages, cache of 1, tokens that live one tick, two days | one token request, another token on retry, whole snapshots, honest refusals |
| `tdx_queue` | 3 routes, queries and tasks, 1 slot, budget 2, 2 pending, cache of 1 | slots and memory through every exit |
| `tdx_liveness` | 2 routes, 1 slot, 1 page, budget 2 | every query answered; implements `ProviderBudget` |
| `live_routes` | 2 origins and queries, 1 pending, cache of 1, budget 2 | fresh answers, failures forgotten; implements `ProviderBudget` |
| `schedule_server` | 2 addresses, 2 requests, table of 1, limit 2 in a window of 2 ticks, budgets of 1, both suppliers configured, `auto` | the limiter's bound, one supplier per action, no orphaned call |
| `planner` | one group of up to 3 legs over 3 airports; two groups of one leg, 2 history entries, 2 pending events | connected routes and consistent derived values, URL and itinerary agree, echoes are harmless, drags move one airport |
| `parts` | 26 parts with inputs of a few rows, files, airports, two or three instants | see below |
| `process_ceiling`, `pending_airport`, `operators_shown` | as above | a violation each, below |

The properties of `parts`, and what they are for each part:

| Property | Parts |
|---|---|
| `TypeOK` | every part: its variables, and the shape of what it keeps |
| `ShownIsCurrent` | `FlightDates`: what is drawn is the last query's answer, as far as it holds by now; `WorldMap`: one fetch and one outcome for all maps; `DataLoads`: only the latest load is shown, and a bad optional file costs what it is for; `OriginEvidence`: the panel shows, loads or failed to load the evidence of the airport it is at; `MapView`: the fit follows the route, every next stop is drawn once; `SavedRoutings`: a tab with no event on its way shows the store |
| `LibraryIsCurrent` | `RouteCatalog`, `LibraryEntities`: what an open page says is what the evidence says at this moment, and comes from somewhere |
| `NeverStuck` | `RouteLibrary`: a page with neither a network nor an error waits for a request that is under way |
| `RoundTrip` | `ShareUrl`: the link of a trip opens and tells the trip |
| `DownloadsAccounted` | `RouteCollection`, `ScheduleHarvest`, `DgcaEvidence`, `RegisteredPlans`: what is written follows from what was collected or reviewed, whatever was killed or replaced meanwhile, and a verifier passes only files that agree with what is on file in all that it compares; `RouteMerge`: a confirmed number was confirmed by operating evidence and never by a listing alone, a quarantined number comes back through a reviewed packet only; `FlightNumberLayer`: a layer follows from its sources on file and cites its support; `SiteData`: the published site is of one network, and a page shows the routes of one; `AvinorCapture`: a patch proposes what is going to fly and misses none of it, and the release dates what was proposed; `AvinorRelease`: what the build makes of four releases, and what passes the three scripts after any replacements, is what they say |
| `OffersSound` | `NextLegEvidence`: an option has the evidence it claims; `NextLegPanel`: nothing offered is refused or takes over another flight's choices |
| `VerdictsStand` | `FlightDates`: a flight handed to the itinerary rests on evidence that holds at that moment; `RtwRules`: a pass or a fail outlasts what was unknown; `NextLegEvidence`: neither time nor a live listing adds to what evidence says |
| `FailuresLast` | `RtwGeography`: a failure that flying on cannot mend lasts whatever is added |
| `CalculationsAgree` | `RtwGeography`, `TdxTimetable`, `ObservedRoutes`, `SeasonalFinder`, `MapView` (what a fit shows, where a hand holds, which stops are apart), `RouteCatalog` (options and counts), `LibraryEntities` (search, overview): what is computed is what it is defined to be |

Why the bounds are enough. Every limit of the code is a constant that an instance
exceeds by one: one slot for several tasks, a queue shorter than the work, a
cache smaller than the keys, a budget below the demand of a day, a table smaller
than the addresses. Two days let midnight fall between any two steps, and a TTL
of one or two ticks lets results expire in the run. The planner's two events are
enough for an edit, or a navigation, to meet the echo of another; a full history
drops its oldest entry as browsers do. Pages have two or three airports, carriers
or tabs, so that there is another one to be confused with; scripts have two
items, two workers and kills at any step; evidence has a fresh, an expiring and an
expired instant. Clocks, dates, legs, groups, events, commands, reviews, moves and
the limiter's count stop at named bounds (`MaxTime`, `MaxDate`, `MaxLegs`,
`MaxGroups`, `MaxHistory`, `MaxEvents`, `MaxCommands`, `MaxReviews`, `MaxMoves`,
`MaxLoads`, `MaxCount`, ...), and each says at its declaration what it bounds.
Deadlock is not checked where the clock ends, callers may stop calling, and so a
run may properly end. Symmetry is used in safety runs only.

The properties that relate a state to its past use history variables, named as
such at their declaration: `spent`, `paid`, `admitted` and `charged`.

### What the runs found

`process_ceiling`: the option `dailyBudget` is documented as a hard process-wide
ceiling, but in `auto` mode the hybrid gateway passes it to two gateways that
count apart, so the process may start twice as many requests in a day.

`pending_airport`: the airport buffered for an empty group is keyed by the
group's index and re-keyed only by `removeGroup`. When Back or a pasted link
removes groups, it stays, and the next group at that index starts with it.

`operators_shown`: the timer that takes expired flights off an open dates panel
collects every expiry but that of the operator evidence, by which the view filters
the same flights; such a flight stays listed until something else moves the clock.

Met while modelling, not given a run of their own:

- the limiter's fixed windows let up to 2*10-1 requests of one address through
  within a minute, against the guide's ten; `LimiterSound` states the bound that
  does hold;
- removing the middle of A-B-A leaves a leg from A to A, which every way of adding
  an airport refuses; the second of two quick echoes parses the hash and drops
  groups without legs;
- an empty group between two groups hides the open jaw between them
  (`RtwValidationPanel.tsx:117-131`), and `sameCity` and `cityKey` disagree for some
  airports;
- `selectExistingFlight` deletes `carrierAssumed` on a reference leg (`App.tsx:672`)
  and a reload restores it;
- a torn cache file makes every later run of the route collector throw, though its
  note says that a run can be resumed; a failed FlightInformation page is cached for
  ever (`build-flight-number-layer.ts:881-917`);
- a pair the harvester finds empty first and all-cargo at the retry is recorded
  nowhere (`harvest-jx-schedules.mjs:541-546`), against its ruling 7;
- window ends of observed routes are compared as text, so "2026-Q2" and
  "2026-08-01" order by their characters, and two sources that overlap in one
  quarter may end up "medium" or be refused;
- the inputs' hashes in the data manifest are read again at the end of a build, so
  that an edit during the build passes verification;
- a reviewed plan release can be re-pinned to a new capture while the archive is of
  the old one, and the verifier of plans passes a network built before the last
  review;
- the build lets the last ledger accept a key that the follow-on release holds, and the
  follow-on ledger cite a row of a capture twice (only the last ledger's schema refuses
  that, `avinor-remaining-airports.ts:97`): the scripts that verify stop both, except
  that a held key may be dated by a capture alone.

## 4. Fairness

The code's promise callbacks and synchronous loops always run: weak fairness of
`Resume`, `StoreDay`, `Deliver`, `GetDay`, `Respond` and their counterparts. The
supplier always returns, with an answer or an error, because every request
carries `AbortSignal.timeout(8000)`, which covers the body too. Such an event is
not enabled continuously in the model, because other callbacks come in between;
the event loop does not pass over a ready event for ever, hence strong fairness
for it. Nothing obliges callers to call, the clock to tick, clients to leave or
users to edit. Only the three gateways have liveness properties: elsewhere what
must come about is stated as safety (`NeverStuck`: whoever waits, waits for
something that is under way).

## 5. What is proved

Everything below holds for all constants that satisfy the assumption of the
module: finite sets of tasks and clients, positive or natural limits, `None` and
the tags distinct from the rest, a day of at least one tick. `PlannerAssumption`
and `LinksAssumption` say that a link has passed `parseShareUrl`: at most
`MaxGroups` groups, none empty, each a connected route. TLC evaluates every
assumption in the runs. The theorems of one module cite each other; each safety
property rests on an inductive invariant, since none of them is inductive itself.

**The Cirium gateway** (`ScheduleGatewayProofs`): all safety properties of its run.
- `SlotsAreAccountedFor` - `SlotsOK` adds the types of the slot variables. The
  heart is `ReleaseKeepsAccounts`: a release lowers the count and the set of
  holders by one, or swaps the holder for the first waiter. `TypeCorrect` rests on
  it, for `active` is a natural number only because whoever releases was counted.
- `BudgetIsACeiling` - `BudgetInv` ties `used` to the requests of `budgetDate` and
  says that later days have none, which is why resetting it at midnight is right.
- `RequestsCoalesce`, `FreshDaysAreNotFetched`, `RefusalsAreHonest` - at most one
  live promise for a key, which is the one in `pending`; a cache entry for its key
  can only have been written by it, so what was missing when it was created still
  is; and a refusal carries the day whose budget was spent.
- `DaysAreFreshWhenAsked`, `ResponsesAreExact`, `MemoryIsBounded` - `QueryShape`
  (what a loop has gathered and has left), `Covered` (every date of a query has a
  day or a promise that will have it) and `Recent` (a day it has received is unexpired
  at the query's time, and a promise it holds will settle with one made no earlier).
  The queue's cap is checked once, before the loop that fills it; what bounds
  `pending` is that no other loop runs between.
- `GatewayIsMetered` - initial states and steps map to `ProviderBudget`'s.

**The TDX gateway** (`TdxGatewayProofs`): all safety properties of its runs.
`SlotsAreAccountedFor`, `TypesHold`, `BudgetIsACeiling`, `RefusalsAreHonest`,
`MemoryIsBounded`, `GatewayIsMetered` as above, over many more exits.
`TokenRequestsAreShared` and `RetriesUseAnotherToken` rest on `TokenIds`: tokens are
numbered as they are issued, and nobody holds one newer than the last issued.
`AnswersAreWhole` rests on `PagesInOrder`, `CacheComplete` and `Awaiting`: a task has
exactly the pages before the one it asks for, so what it settles with is the whole
timetable; an open query awaits a snapshot no older than itself, and an answer is whole
and was fresh when it was asked for.

**Live routes** (`LiveRoutesProofs`): `TypesHold`, `LiveRoutesAreMetered`,
`ResponsesAreFresh`, `FailuresAreForgotten`, from `Promises` and one cache entry an
airport: a rejection removes its pending entry and writes no cache.

**The process** (`ScheduleServerProofs`): `ServerRunsLiveRoutes` - every step of the
composition is one of `LiveRoutes`' or leaves it alone, so that the theorems
about the gateway hold in the process; `SuppliersAreMetered` - the same for
each schedule supplier and `ProviderBudget`; `OneSupplierIsCharged`
(`PaysOnce`), `CallsEndBeforeTheirRequest` (`QueryRuns`: as long as its schedule
query runs a request has a provider and nothing has been sent, and its calls are of
that provider), `TableNeverOverflows`, `LimiterHolds`. The last rests on `Kept`, which
says what a record remembers: it counts the last requests of its address that got
past the limiter, and those before them, all but `Limit - 1`, came a window before
it began. A record that is dropped counts at most `Limit`, so that the same can be
said of an address that is not remembered. That every variable keeps its type needs
`LiveRoutesProofs`, instantiated in the process: the theorem is cited, not repeated.

**The editor** (`PlannerProofs`): `TypesHold`, `RoutesStayConnected`,
`AddressBarTells`, `EchoTakesNothingBack`, `DragsMoveOne`. The invariant is
`TypeInv` - every routing has between one and `MaxGroups` connected groups, and
every entry of the history is a link that `encodeShareUrl` can have written or
one that was pasted - and `EchoInv`: while the flag is up an echo is queued; while
the address bar differs from the itinerary a navigation is queued, behind an echo
if the flag is up. The last part is what a single flag needs: the flag that an
earlier edit raised can only be taken down by an echo, and by then the navigation
that will bring both together is still to come. Connectedness needs lemmas about
chains (`ChainOfRoute`, `ReindexFollows`, `RemoveAt`/`InsertAt`), and a drag those
about which occurrence of a repeated airport is meant (`RankTaken`, `BeforeCounts`).

**The parts** (`ItineraryProofs`, `DataProofs`). For each part there is a theorem
about its own specification, `X!Spec => []Property`, under the assumption on its
constants. What the run `parts` checks follows in both modules from one argument: a
behaviour of `ItinerarySpec` (`DataSpec`) in which `focus` names a part is a behaviour
of that part (`OfRules`, `OfLibrary`, ...), and `focus` never changes. So
`WhatIsShownIsCurrent`, `WhatWasSaidStands`, `LinksTellTheTrip` and
`WhatIsOfferedIsSound` state `ShownIsCurrent`, `VerdictsStand`, `RoundTrip` and
`OffersSound` of all of them; `LibraryNeverWaitsForNothing`,
`WhatTheLibrarySaysIsCurrent` and, of the data, `WhatIsHandedOnIsOnFile` state
`NeverStuck`, `LibraryIsCurrent` and `DownloadsAccounted`. Of the parts:

- `TripsAreTellable` (`ShareUrl`) and, from it, `LinksOpenAgain`: the link of every trip
  the editor makes opens, and tells every leg. The invariant says what makes a leg
  tellable: a sector overland has no carrier, date or cabin, a leg without a carrier
  refers to a timetable, the groups are connected chains. Without it the round trip
  fails, for the encoder leaves a column out when all its cells have the default, and the
  parser refuses some cells together. `ShareAssumption` asks of the links that are opened
  what `parseShareUrl` ensures.
- `EvidenceIsSound`, `EvidenceStaysKept` (`NextLegEvidence`): `EvidenceInv` and lemmas
  about the operators of discovery, above all that a route found by position is the
  first active one. Assumed: rows name sources that exist, and no source was checked
  further in the future than the tolerated clock skew.
- `VerdictsAreKept` (`RtwRules`): each edit replaces one leg by one that knows no less,
  so that what is definitely counted grows and what may be counted shrinks (`Upheld`,
  `Over`, `Enough`). Assumed: limits are integers or absent, the minimum with a trigger
  is not below the one without, flights of the itineraries that are loaded have a
  carrier or refer to a timetable.
- `OneAtlasForAll` (`WorldMap`), `LoadsAreCurrent` (`DataLoads`), `OriginsAreServed`
  (`OriginEvidence`; every airport has a letter): the invariants say which loads can
  be on their way.
- `LibraryNeverStalls` (`RouteLibrary`): `LibraryInv` says that each of the four
  effects is fetching what it wants, whatever changed since it last ran (`Served`);
  the heart is `DependenciesDecide`, that the dependencies an effect lists determine
  what it wants, and `WaitingPagesWant`, that a page which shows nothing wants
  something. Assumed: routes and airports that can be selected have a letter.
- `PanelIsCurrent`, `ChoicesHold` (`FlightDates`): `PanelInv` says that no request is
  younger than the last query, that the one with its serial is for the month that is
  shown, and that the clock of the page is not ahead. The least expiry that the timer waits
  for is found by well-founded induction on the naturals, not on the model.
- `OffersCanBeHad` (`NextLegPanel`): what was chosen for a draft was chosen for its
  flight. Assumed: the ends of a route differ (`lib/schemas/route-network.ts:179`).
- `EvidenceSurvivesTheMerge` (`RouteMerge`): for any number of layers. `NetworkInv`
  adds what each stage of the build may rely on: nothing is blocked before the
  quarantine, and from then on what is blocked is gone from the row.
- `CataloguesAreReproducible` (`RouteCollection`), `HarvestsAreAccountedFor`
  (`ScheduleHarvest`): for any number of airports, pairs, workers, kills and runs.
  `Awaited` - workers await different airports, which have no file; `Recorded` - what a
  run knows of an airport is what its file says; `RunInv`, `WrittenInv` - what a run has
  recorded of a pair is on file, also the attempts it passed over. Both need that a file
  which is of use is never written again (`FilesStand`).
- `PlansAreAccountedFor` (`RegisteredPlans`): `PlansInv` says which rows may be attached
  where - each to a plan that says what the row says, none to two plans - of the network
  on file, which may be older than the proposal and the archive; that every row is
  attached is then what the verification adds. Assumed (`PlansAssumption`): a network
  to be overlaid has no row attached yet, and an operator of it that is named has a code.
- `ReviewsAreAccountedFor` (`DgcaEvidence`): any number of packets and networks, in any
  order of replacements, pins, preparations, builds and verifications. The script that
  prepares SpiceJet's references pins nothing that changes, `build` pins the other three
  packets and the network and takes the prepared file as it finds it, be it of another
  edition. `verify` finds variants by their names. It compares no airports for SpiceJet,
  IndiGo and Air India, neither number nor pairing for SpiceJet, no holds of Air India,
  and of the rows of an Air India identity it holds only the last against the network.
  So a catalogue built before a review corrected airports passes, and the property does
  not deny it: `PassesOnlyCurrent` says what a pass does show. The names of the variants
  are those live today, rows, flags, and the pairing where the source tells the sides are
  today's, and where no flight is filed astray the references are today's too. That is
  more than the script compares: it looks at no pairing of a variant and not for one
  identity in two sources. `DgcaInv` has both of the file on hand (each reference has a
  variant, pairing follows from the sides cited, no identity is of two sources), which
  every build leaves and no verification reads. `IndiaRests`, `ExpressRests` and
  `WrittenRests`: what the joins keep of a variant rests on rows of its source that are
  live. Assumed (`DgcaAssumption`): SpiceJet's, IndiGo's and Air India Express's packets
  are of flights of SG, 6E and IX, and `None` is no outcome of a script.
- `CatalogueIsCurrent` (`RouteCatalog`), `ExplorerIsCurrent` (`LibraryEntities`): both
  rest on lemmas about `RouteEvidence`. `ArmedInTime` - the timer is set before anything
  changes that was not over when it was set; `NothingLapses` - between the last look and
  the timer no deadline is passed; `SameFreshness` - what is said of a number follows from
  which deadlines are passed. `CatalogInv` and `ExplorerInv` say that the timer watches
  the network that is displayed, once it has been looked at: a network that arrives sets
  the timer without a look. `CarriersGrounded` needs `OneRowPerCarrier`, that the schema
  lets one row of a carrier through for a pair. Assumed: the networks have been parsed,
  instants are natural numbers, and the key of an operator is no carrier's code.
- `MapFollowsTheRoute` (`MapView`): `ViewIsFitted` and `StopsDrawnOnce`. The map is only
  fitted again when the mode or the airports of the fit change; `KeyDecides` says that
  these determine the view, also the longitude it is centered on, for the airports of a
  fit begin where the route does (`FitBegins`, `DistinctBegins`). Clusters are the
  classes of an equivalence, because stops are near each other both ways. Assumed:
  routes are of airports that have a longitude, and a guide is for an airport.
- `QuietTabsShowTheStore` (`SavedRoutings`): the tab to which no event is on its way shows
  the store, less what it removed when the write failed. That a list without two sets of
  names is the list without their union (`WithoutTwice`) rests on `RanksOfRanks` of
  `SequenceLemmas`: to choose among the kept positions of a list is to choose among its
  positions. `Without` is therefore written with the ranks of the positions that are kept.
- `SitesAreOfOneNetwork` (`SiteData`): for any networks, letters and carriers, and any
  command killed after any file. What is left of a command says what it has derived:
  `JobInv` has one part for each script that is under way, `CarriersUnderWay` and
  `Relisted` among them - the files that CI derives once more, between its verification
  and its release, are those that the manifest lists already. Assumed (`SiteAssumption`):
  no carrier is lost by the sort, and no number of a route is confirmed and a candidate at
  once (`lib/schemas/route-network.ts:217`).
- `LayersAreReproducible` (`FlightNumberLayer`): for any inputs, pages and workers, and
  any number of killed runs. `Told` is what is known of a route once the sources below a
  rank have been asked, and `NumbersInv` says of every step that a route has just that and
  cites its support. `Due` is that rank: it is one more as soon as no worker has the
  route's pair left to read, so that the workers' turns cannot matter, and `Asking` that
  no two workers fetch one page. Assumed (`NumbersAssumption`): what is no page and no
  pair is neither.
- `ReleasesFollowCaptures` (`AvinorCapture`): for any feeds, in any order of captures,
  reviews and builds. The invariant is `OsloSound` of every network that was ever on
  file: what is dated was a candidate of the network without releases, is dated once, and
  cites what that network cites. So a date that lapses gives the network back its
  candidate with its sources (`CandidatesFor`), and a number that is dated anew replaces
  what was dated before. `ReleaseFollows` then goes from the packet through the overlay.
  Assumed (`CapturesAssumption`): the network has passed its schema, by which no number is
  confirmed and a candidate at once and candidates have sources
  (`lib/schemas/route-network.ts:217`).
- `ReleasesAreFaithful` (`AvinorOverlay`, `AvinorRelease`): for any network and editions.
  Each overlay `Adds` its keys to what is dated and confirmed and takes them from the
  candidates (`LaidOver`, `LedgerOver`); it leaves the evidence of every other key
  (`ItemsLaid`, `ItemsUntouched`), and what a capture dated stays for display only when a
  ledger joins it (`ItemStays`). `LedgerRetains` counts: the occurrences of a row and the
  details of its key are in bijection, since new evidence of a number is made once for
  each source (`JoinedOnce`) and no citation is dropped (`CitationsKept`). The conditions
  of the build keep the keys of the four releases apart, so these compose
  (`CapturesLaid`, `LedgersLaid`). `ReleasesInv` adds that a verdict is of what is on file
  and that a published network rests on the one without releases. Assumed
  (`ReleaseAssumption`): that network has passed its schema and has nothing dated; a file
  has finitely many rows, and a capture a time.

## 6. What is only model-checked, and why

- Liveness: `QueriesAnswered` of both schedule gateways and the fairness of
  `ProviderBudget` in `ImplementsBudget`. Fairness is out of the prover's reach; the
  safety part of the refinements is proved.
- `CalculationsAgree`, and the part of `VerdictsStand` about `RtwGeography`: they
  compare what folds and recursive functions compute, which needs induction over
  data. They are checked against reference definitions over bounded inputs.
- `TypeOK` of `MCParts`: the proofs need of each part's types what is in its invariant,
  and no more is proved of them.
- `MCSpec` of `MCParts` lets one of `ItineraryParts`, `DataParts` and the four other
  parts move. The theorems are about `ItinerarySpec` and `DataSpec`; that the others do
  not disturb them is by their sharing no variables.
- Of `CalculationsAgree` and `FailuresLast`, all: timetables, observed routes, geography
  and the search of the finder are computed by filters, folds and recursive functions over
  sequences, and so is the place of a fit's airports, of which the rest of the map's
  geometry is made.

No module uses a RECURSIVE operator.

## 7. What is not modelled

Landing page, globe and presentation (rendering and texts); supplier replay and
calibration tools (off-line, no state in the server); the other build scripts and
data sets (one pass over fixed inputs). Texts, labels, sorting and wording are
left out everywhere, and file hashes are modelled by contents.

By part:

- Gateways: what a supplier's answer contains beyond `TdxTimetable`. The clock does
  not step back: if it did over midnight, `flight-schedules.ts:109` would grant that
  day's budget again.
- `TdxTimetable`: rows that the row schema refuses, zero padding, source addresses.
- `Planner`: what `reindexLegs` keeps of a leg's details, and unknown codes of a
  pasted link (`App.tsx:474`). `ShareUrl`: dates, the manual mark, entity keys,
  programs, alias codes.
- `RtwRules`, `RtwGeography`: distances are a table; zone quotes, rounding and
  review warnings are left out. `NextLegEvidence`: source lists, aliases.
- `NextLegPanel`: search text, details, the refusal of passenger rules on a click.
  `OriginEvidence`: an aborted fetch delivers nothing.
- `FlightDates`: flight times, the clipboard. `DataLoads`: files a hook treats alike
  are one file, and absent and bad files are one. `RouteLibrary`: what the network
  holds. `RouteEvidence`, `RouteCatalog`, `LibraryEntities`: airport aliases, evidence
  rows, products of the gate, result caps of lists.
- `MapView`: one dimension; globe, labels, hover, popovers.
- `SeasonalFinder`: the toggle event of a details element that is mounted open.
- `RouteMerge`: totals, pinned hashes and the timetables of packets, routes that
  only a packet names. `FlightNumberLayer`: pacing, source ids, torn files.
  `RouteCollection`, `ScheduleHarvest`: pacing and cool-downs.
- `DgcaEvidence`: totals of the packets, the order of the rows a variant cites, the
  airports file, the flights known by name (the six of Purnia, AI532A, IX1012).
- `DgcaEvidence`, the Avinor modules, `RegisteredPlans`: totals, rights notices,
  candidate windows; a registration's period, weekdays and clocks are one value.
- `ObservedRoutes`: one year, without the dates of first and last sight.
- `SiteData`: inputs do not change while a script runs.

## 8. Plan

What remains to be proved, in the order of what it says about the system:

1. `OptionsSound` of `RouteCatalog`: an option leads to as many routes as it says.
