--------------------------- MODULE LibraryEntities ---------------------------
(***************************************************************************)
(* The explorer of the route library (RouteLibraryExplorer.tsx, with       *)
(* lib/rtw/route-library-entities.ts): profiles of an airport, an airline  *)
(* or a route, the buttons that take a flight to the planner, the search   *)
(* and the overview of the whole network.                                  *)
(*                                                                         *)
(* How the page comes by its files is RouteLibrary; here a file is the     *)
(* scope of what it holds. A selection is <<kind, id>>. An observation     *)
(* [number, source, times] also tells whether it departs from the route's  *)
(* origin and whether its source lets the planner use it. (The two         *)
(* airports that have two codes are left out, so that a carrier's card on  *)
(* a pair is that of one route.)                                           *)
(***************************************************************************)
EXTENDS RouteEvidence, SequencesExt

CONSTANTS
  Full,       \* the whole network
  Alliances,  \* sets of member codes
  Airports,   \* airports the data knows
  Named,      \* carrier codes that have a name
  Examples,   \* legs [code, number, pair] of the journeys of the landing page
  Queries,    \* [airports, pair, code, entity, number, names]: what a text matches
  Services,   \* what the route catalogue knows besides, see RouteCatalog
  Limit,      \* routes of the overview
  Quota       \* of which an airport may have so many

VARIABLES
  selection,  \* None while the overview is shown
  members,    \* codes of the alliance
  loaded,     \* scope of the file the page has
  since,      \* when what is displayed was
  planned     \* the flight that was taken to the planner, which leaves the page

view == <<selection, members, loaded, since, planned>>
vars == <<view, clock>>

\* The network has been parsed, and its instants are numbers.
EntitiesAssumption ==
  /\ ClockAssumption
  /\ Full = [routes |-> Full.routes, deadline |-> Full.deadline]
  /\ CatalogParses(Full) /\ Deadlines(Full) \subseteq Nat

Kind(s) == IF s = None THEN "none" ELSE s[1]

-----------------------------------------------------------------------------
(***************************************************************************)
(* displayNetwork: none, or the routes of a scope.                         *)
(***************************************************************************)
OriginOf(s) ==
  CASE Kind(s) = "airport" -> s[2]
    [] Kind(s) = "route" -> s[2][1]
    [] OTHER -> None

Within(row, scope) ==
  CASE scope[1] = "full" -> TRUE
    [] scope[1] = "origin" -> row.pair[1] = scope[2]
    [] scope[1] = "carrier" -> Key(row) = scope[2]
    [] OTHER -> FALSE

Of(scope) == [Full EXCEPT !.routes = {row \in @ : Within(row, scope)}]

\* The carrier a route is qualified by, once a file with it is there.
RouteKeys(s, file) ==
  {row.entity : row \in {r \in Of(file).routes : Kind(s) = "route" /\ r.pair = s[2]}} \ {None}

Displayed(s, file) ==
  IF \/ file[1] = "full"
     \/ file[1] = "origin" /\ OriginOf(s) = file[2]
     \/ file[1] = "carrier" /\ (s = <<"airline", file[2]>> \/ file[2] \in RouteKeys(s, file))
  THEN file
  ELSE IF s = None THEN <<"preview">> ELSE None

Shown == Displayed(selection, loaded)
Complete == loaded[1] = "full"

\* entityMemberCodes: a qualified airline is shown whatever the alliance.
Eligible(s) ==
  members \cup {row.code : row \in {r \in Full.routes : s = <<"airline", r.entity>>}}
-----------------------------------------------------------------------------
(***************************************************************************)
(* Profiles. The codes that are eligible come with the network.            *)
(***************************************************************************)
PublishedRows(scope, codes, at) ==
  {row \in Of(scope).routes :
     /\ row.status = "published"
     /\ row.code \in codes
     /\ row.service = "scheduled-endpoint-pair" => CurrentNumbers(row, Full.deadline, at) # {}}

OperatorVerified(row) == row.identity = "operating" /\ row.entity = None

Confirmed(row, at) == IF OperatorVerified(row) THEN CurrentNumbers(row, Full.deadline, at) ELSE {}

\* carriersForPair
Card(row, at) ==
  [key        |-> Key(row),
   code       |-> row.code,
   identity   |-> row.identity,
   confirmed  |-> Confirmed(row, at),
   reference  |-> CurrentNumbers(row, Full.deadline, at) \ Confirmed(row, at),
   candidates |-> CandidateNumbers(row, Full.deadline, at),
   stale      |-> StaleNumbers(row, Full.deadline, at)]

\* buildPairCards: of pairs of known airports.
PairCards(rows, at) ==
  {[pair |-> p, carriers |-> {Card(row, at) : row \in {r \in rows : r.pair = p}}] :
     p \in {q \in {row.pair : row \in rows} : {q[1], q[2]} \subseteq Airports}}

\* The airline's rows, none if its code stands for several.
AirlineRows(rows, airline) ==
  LET matches == {row \in rows : airline \in {row.code, row.entity}}
  IN IF Cardinality({Key(row) : row \in matches}) > 1 /\ \A row \in matches : row.entity # airline
     THEN {} ELSE {row \in matches : Key(row) = airline}

NoProfile == [cards |-> {}, incoming |-> 0, airlines |-> {}]

\* buildAirportEntityProfile, buildAirlineEntityProfile, buildRouteEntityProfile
Profile(s, scope, codes, at) ==
  LET rows == PublishedRows(scope, codes, at)
      out  == {row \in rows : s = <<"airport", row.pair[1]>>}
  IN CASE Kind(s) = "airport" ->
            [cards    |-> PairCards(out, at),
             incoming |-> Cardinality({row.pair : row \in {r \in rows : r.pair[2] = s[2]}}),
             airlines |-> {Key(row) : row \in out}]
       [] Kind(s) = "airline" ->
            [NoProfile EXCEPT !.cards = PairCards(AirlineRows(rows, s[2]), at)]
       [] Kind(s) = "route" ->
            [NoProfile EXCEPT !.cards = PairCards({row \in rows : row.pair = s[2]}, at)]
       [] OTHER -> NoProfile

Opens(s, scope, codes, at) ==
  IF Kind(s) = "airport" THEN s[2] \in Airports ELSE Profile(s, scope, codes, at).cards # {}
-----------------------------------------------------------------------------
(***************************************************************************)
(* The buttons of a route's carriers.                                      *)
(***************************************************************************)
Flight(row, number, date) == [pair |-> row.pair, code |-> row.code, number |-> number, date |-> date]

Upcoming(e, t, at) == SourceFresh(e, Full.deadline, at) /\ at < t /\ t <= Full.deadline[e.source]

DatedFlights(row, at) ==
  {Flight(row, x[1].number, x[2]) :
     x \in {y \in row.dated \X UNION {e.times : e \in row.dated} :
              /\ y[2] \in y[1].times
              /\ Upcoming(y[1], y[2], at)
              /\ y[1].departs /\ y[1].plannable}}

FlightsOf(row, at) ==
  {Flight(row, n, None) : n \in Confirmed(row, at)}
    \cup DatedFlights(row, at)
    \cup (IF OperatorVerified(row) THEN {Flight(row, None, None)} ELSE {})

Buttons(at) ==
  IF Kind(selection) # "route" \/ Shown = None THEN {}
  ELSE UNION {FlightsOf(row, at) :
                row \in {r \in PublishedRows(Shown, Eligible(selection), at) : r.pair = selection[2]}}
-----------------------------------------------------------------------------
(***************************************************************************)
(* Search: results <<selection, number, mark>>.                            *)
(***************************************************************************)
Found(s) == <<s, None, None>>

Mark(row, number, at) ==
  CASE number \in StaleNumbers(row, Full.deadline, at) -> "expired"
    [] number \in Confirmed(row, at) -> "confirmed"
    [] number \in CurrentNumbers(row, Full.deadline, at) -> "reference"
    [] OTHER -> "candidate"

FlightResults(rows, number, at) ==
  {<<<<"route", row.pair>>, number, Mark(row, number, at)>> :
     row \in {r \in rows : \/ number \in CurrentNumbers(r, Full.deadline, at)
                           \/ number \in CandidateNumbers(r, Full.deadline, at)}}

\* searchRouteLibraryEntities
EntityResults(q, scope, codes, at) ==
  LET rows   == PublishedRows(scope, codes, at)
      keys   == {Key(row) : row \in {r \in rows : r.code = q.code}}
      listed == {row.entity : row \in {r \in Of(scope).routes : r.status = "published"}} \ {None}
      airlines == ({q.entity} \cap listed) \cup ((q.names \cup {q.code}) \cap Named)
                    \cup (IF Cardinality(keys) = 1 THEN keys ELSE {}) \cup (q.names \cap listed)
  IN {Found(<<"airport", a>>) : a \in q.airports}
       \cup {Found(<<"route", p>>) :
               p \in {p \in {q.pair} : p # None /\ Opens(<<"route", p>>, scope, codes, at)}}
       \cup {Found(<<"airline", k>>) : k \in airlines}
       \cup FlightResults(rows, q.number, at)

\* searchLandingShowcaseEntities
ExampleResults(q) ==
  LET legs == {leg \in Examples : leg.code \in members}
  IN {Found(<<"route", q.pair>>) : leg \in {l \in legs : l.pair = q.pair}}
       \cup {<<<<"route", leg.pair>>, q.number, "example">> : leg \in {l \in legs : l.number = q.number}}

Results(q) ==
  (IF ~Complete /\ selection = None THEN ExampleResults(q) ELSE {})
    \cup (IF Shown = None THEN {} ELSE EntityResults(q, Shown, Eligible(selection), evidenceNow))
-----------------------------------------------------------------------------
(***************************************************************************)
(* buildRouteLibraryFingerprint: of both directions of a pair the better,  *)
(* in the order of their scores (any order here), an airport no more often *)
(* than its quota unless too few remain.                                   *)
(***************************************************************************)
Directed(rows) == {p \in {row.pair : row \in rows} : {p[1], p[2]} \subseteq Airports}

RowsOf(rows, p) == {row \in rows : row.pair = p}

Numbered(rows, p, at) == \E row \in RowsOf(rows, p) : CurrentNumbers(row, Full.deadline, at) # {}

Better(rows, p, q, at) ==
  \/ Numbered(rows, p, at) /\ ~Numbered(rows, q, at)
  \/ /\ Numbered(rows, p, at) <=> Numbered(rows, q, at)
     /\ Cardinality(RowsOf(rows, p)) > Cardinality(RowsOf(rows, q))

\* bestDirection (of equals the one that is listed first).
Directions(rows, at) ==
  LET reverse(p) == <<p[2], p[1]>>
      worse == {p \in Directed(rows) :
                  reverse(p) \in Directed(rows) /\ Better(rows, reverse(p), p, at)}
      rest  == Directed(rows) \ worse
  IN {CHOOSE q \in {p, reverse(p)} \cap rest : TRUE : p \in rest}

Share(chosen, airport) == Cardinality({p \in chosen : airport \in {p[1], p[2]}})

WithinQuota(order) ==
  FoldLeft(LAMBDA chosen, p :
             IF Cardinality(chosen) >= Limit \/ \E a \in {p[1], p[2]} : Share(chosen, a) >= Quota
             THEN chosen ELSE chosen \cup {p}, {}, order)

Fingerprint(order) ==
  FoldLeft(LAMBDA chosen, p : IF Cardinality(chosen) >= Limit THEN chosen ELSE chosen \cup {p},
           WithinQuota(order), order)

Overview(order) ==
  IF Complete THEN Fingerprint(order) ELSE {leg.pair : leg \in {l \in Examples : l.code \in members}}
-----------------------------------------------------------------------------
Init ==
  /\ selection = None
  /\ members \in Alliances
  /\ loaded \in {<<"preview">>, <<"full">>}
  /\ since = 0
  /\ planned = None
  /\ now = 0 /\ evidenceNow = 0
  /\ due = Armed(Of(loaded), 0)

\* The explorer is mounted while there is something to display, and its timer is set
\* anew when that changes.
Redisplay(s, file) ==
  LET after == Displayed(s, file)
  IN /\ selection' = s
     /\ loaded' = file
     /\ since' = IF after = Shown THEN since ELSE now
     /\ IF after = Shown THEN UNCHANGED <<evidenceNow, due>>
        ELSE IF after = None THEN Unmount
        ELSE IF Shown = None THEN Mount(Of(after)) ELSE Rearm(Of(after))
     /\ UNCHANGED <<members, planned, now>>

Pages(at) == Profile(selection, Shown, Eligible(selection), at).cards

\* What can be chosen: a result, a route or an airport of the page, the way back.
Selectable ==
  {None}
    \cup UNION {{r[1] : r \in Results(q)} : q \in Queries}
    \cup (IF Shown = None THEN {}
          ELSE UNION {{<<"route", c.pair>>, <<"airport", c.pair[1]>>, <<"airport", c.pair[2]>>} :
                        c \in Pages(evidenceNow)})
    \cup (IF Kind(selection) = "route"
          THEN {s \in {<<"route", <<selection[2][2], selection[2][1]>>>>} :
                  Shown # None /\ (~Complete \/ Opens(s, Shown, Eligible(selection), evidenceNow))}
          ELSE {})

Choose(s) == s # selection /\ Redisplay(s, loaded)

Load(file) == file # loaded /\ Redisplay(selection, file)

\* A shard of what is selected, or the whole network.
Files ==
  {<<"full">>} \cup {<<"origin", a>> : a \in {OriginOf(selection)} \ {None}}
    \cup {<<"carrier", s[2]>> : s \in {x \in {selection} : Kind(x) = "airline"}}
    \cup {<<"carrier", k>> : k \in RouteKeys(selection, loaded)}

ChooseAlliance(codes) ==
  /\ codes # members
  /\ members' = codes
  /\ UNCHANGED <<selection, loaded, since, planned, clock>>

Plan(flight) ==
  /\ planned' = flight
  /\ UNCHANGED <<selection, members, loaded, since, clock>>

Look == (Tick \/ (Shown # None /\ (TimerFires(Of(Shown)) \/ Refresh(Of(Shown))))) /\ UNCHANGED view

Next ==
  /\ planned = None
  /\ \/ Look
     \/ \E s \in Selectable : Choose(s)
     \/ ~Complete /\ \E file \in Files : Load(file)
     \/ \E codes \in Alliances : ChooseAlliance(codes)
     \/ \E flight \in Buttons(evidenceNow) : Plan(flight)

Spec == Init /\ [][Next]_vars
-----------------------------------------------------------------------------
TypeOK ==
  /\ Kind(selection) \in {"none", "airport", "airline", "route"}
  /\ loaded[1] \in {"preview", "origin", "carrier", "full"}
  /\ now \in 0..MaxTime /\ evidenceNow \in 0..now /\ since \in 0..now
  /\ due \in {None} \cup 1..(MaxTime + DayLength + 1)
  /\ due = None <=> Shown = None

Browser == INSTANCE RouteCatalog
  WITH Places <- {}, Curated <- None, Detailed <- None, Auxiliary <- Services, place <- "library",
       open <- TRUE, fetching <- FALSE, detailed <- TRUE, filter <- None,
       Country <- << >>, Continent <- << >>, Override <- << >>, Subregion <- << >>,
       LocalRegion <- << >>

\* Once the explorer has looked at what it displays, its page and its buttons are those
\* of this moment, until a millisecond before its timer is due: so a flight that is taken
\* to the planner then rests on evidence that holds.
LibraryCurrent ==
  Shown # None /\ evidenceNow >= since /\ now < due - 1 =>
    /\ Pages(evidenceNow) = Pages(now)
    /\ planned # None => planned \in Buttons(now)

\* The explorer and the route catalogue read one network by two programs: of a pair the
\* explorer shows, the catalogue has every carrier, holds for operating whom the explorer
\* does, and knows every number that is current; what it knows besides, the explorer
\* lists as a candidate at least, unless it comes from a schedule or publication. A
\* number that is offered to the planner is current for both, and without a date only if
\* the catalogue holds its carrier for operating.
LibraryAgrees ==
  Kind(selection) = "route" /\ Shown # None /\ selection[2][1] \in Airports /\ members = Eligible(selection) =>
    LET listed == {r \in Browser!Pairs(Of(Shown), evidenceNow) : r.pair = selection[2]}
        other  == UNION {r.carriers : r \in listed}
        mine   == UNION {card.carriers : card \in Pages(evidenceNow)}
    IN /\ \A c \in mine : \E d \in other :
            /\ d.key = c.key /\ d.code = c.code
            /\ c.identity = "operating" => d.identity = "operating"
            /\ c.confirmed \cup c.reference \subseteq d.known
            /\ d.known \subseteq c.confirmed \cup c.reference \cup c.candidates \cup
                  UNION {x.numbers : x \in {y \in Services : y.code = d.key /\ y.pair = selection[2]}}
       /\ \A flight \in Buttons(evidenceNow) : \E c \in mine, d \in other :
            /\ {c.code, d.code} = {flight.code}
            /\ flight.date = None => d.identity = "operating"
            /\ flight.number # None => flight.number \in (c.confirmed \cup c.reference) \cap d.known

\* A qualified airline with a published route that no date bounds.
Standing(key) ==
  key # None /\ \E row \in Full.routes :
                   row.entity = key /\ row.status = "published" /\ row.service = "nonstop"

\* What the search of the whole network finds can be opened: every airport, every route,
\* an airline by the key that alone its routes have, a qualified one whatever the
\* alliance, and every flight, on whose page its number stands where the result says. And
\* a number that stands on a page is found.
SearchSound ==
  Complete /\ members = Eligible(selection) =>
    LET scope == <<"full">>
        page(s) == Profile(s, scope, Eligible(s), evidenceNow).cards
        rows == PublishedRows(scope, members, evidenceNow)
        keys(s) == {Key(row) : row \in {r \in PublishedRows(scope, Eligible(s), evidenceNow) :
                                          s[2] \in {r.code, r.entity}}}
    IN \A q \in Queries :
         /\ \A r \in Results(q) :
              LET carriers == UNION {c.carriers : c \in page(r[1])}
              IN /\ \/ Opens(r[1], scope, Eligible(r[1]), evidenceNow)
                    \/ Kind(r[1]) = "airline" /\ keys(r[1]) # {r[1][2]} /\ ~Standing(r[1][2])
                 /\ r[2] # None =>
                      \E c \in carriers :
                        CASE r[3] = "confirmed" -> r[2] \in c.confirmed
                          [] r[3] = "reference" -> r[2] \in c.reference
                          [] r[3] = "expired" -> r[2] \in c.stale \cap c.candidates
                          [] OTHER -> r[2] \in c.candidates \ c.stale
         /\ \A row \in rows :
              LET c == Card(row, evidenceNow)
              IN q.number \in c.confirmed \cup c.reference \cup c.candidates =>
                   \E r \in Results(q) : r[1] = <<"route", row.pair>> /\ r[2] = q.number

\* The overview is as full as it can be, shows no pair in both directions and the one
\* that has a current number if only one has, and gives an airport more than its quota
\* only for lack of pairs that would not.
OverviewSound ==
  selection = None /\ Complete =>
    LET rows  == PublishedRows(Shown, Eligible(None), evidenceNow)
        pairs == Directions(rows, evidenceNow)
        reverse(p) == <<p[2], p[1]>>
    IN \A order \in SetToSeqs(pairs) :
         LET chosen == Overview(order)
         IN /\ Cardinality(chosen) = Min({Limit, Cardinality({{p[1], p[2]} : p \in Directed(rows)})})
            /\ \A p \in chosen :
                 /\ reverse(p) \notin chosen
                 /\ Numbered(rows, reverse(p), evidenceNow) => Numbered(rows, p, evidenceNow)
            /\ \A a \in Airports : Share(chosen, a) > Quota =>
                 \A p \in pairs \ chosen : \E b \in {p[1], p[2]} : Share(chosen, b) >= Quota
=============================================================================
