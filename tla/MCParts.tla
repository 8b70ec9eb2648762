------------------------------ MODULE MCParts ------------------------------
(***************************************************************************)
(* Instances for TLC of the parts of the planner and of its data: the      *)
(* values of the constants of ItineraryParts and DataParts, and the parts  *)
(* whose properties are calculations: the geography of a trip, dated       *)
(* timetables, what was seen in the air and the seasonal finder (`rest`).  *)
(* A behaviour is of one part: of at most one of `focus`, `subject` and    *)
(* `rest`, which says which.                                               *)
(***************************************************************************)
EXTENDS ItineraryParts, DataParts, TLC

CONSTANTS tab1, tab2, map1, map2, map3, worker1, worker2

-----------------------------------------------------------------------------
(***************************************************************************)
(* Packets of approved Indian schedules (DgcaEvidence), and releases of    *)
(* flight numbers (FlightNumberLayer): one flight of each carrier and an   *)
(* expired one of Air India Express, and what may differ when a packet is  *)
(* reviewed anew or the route network built again.                         *)
(***************************************************************************)
Flight(carrier, number, from, to) ==
  [carrier |-> carrier, number |-> number, from |-> from, to |-> to]
ix1 == Flight("IX", 1, "del", "sxr")
ix2 == Flight("IX", 2, "del", "sxr")
ai5 == Flight("AI", 5, "del", "bom")
ig7 == Flight("6E", 7, "hyd", "pxn")
sg9 == Flight("SG", 9, "del", "bom")
Moved(identity) == [identity EXCEPT !.to = "maa"]

Record(identity, class, valid) == [identity |-> identity, class |-> class, valid |-> valid]
Current(identity) == Record(identity, "accepted", "current")
Lapsed(identity) == Record(identity, "expired", "expired")
Citation(line, side) == [row |-> line, side |-> side]
SourceRow(record, side) == [side |-> side] @@ record
Variation(record, lines, paired) == [rows |-> lines, paired |-> paired] @@ record
Entry(accepted, state, variants, lines) ==
  [accepted |-> accepted, status |-> state, variants |-> variants, rows |-> lines]
Overlap(b, window) == [identity |-> ix1, a |-> "v1", b |-> b, window |-> window]

ExpressPacket ==
  [rows     |-> [r1 |-> SourceRow(Current(ix1), "departure"), r2 |-> SourceRow(Current(ix1), "arrival"),
                 r3 |-> SourceRow(Lapsed(ix1), "departure"), r4 |-> SourceRow(Lapsed(ix2), "arrival")],
   variants |-> [v1 |-> Variation(Current(ix1), {"r1", "r2"}, TRUE),
                 v2 |-> Variation(Lapsed(ix1), {"r3"}, FALSE),
                 v3 |-> Variation(Lapsed(ix2), {"r4"}, FALSE)],
   ledger   |-> (ix1 :> Entry(TRUE, "accepted", {"v1", "v2"}, {"r1", "r2", "r3"}))
                  @@ (ix2 :> Entry(FALSE, "expired", {"v3"}, {"r4"})),
   overlaps |-> {Overlap("v2", 1)}]

Movement(of, side) == [of |-> of, identity |-> ai5, side |-> side]
IndiaRow(line, movement, record) == [line |-> line, movements |-> {movement}, baseline |-> "confirmed"] @@ record
IndiaPacket ==
  [ledger    |-> [i1 |-> IndiaRow(1, "m1", Current(ai5)), i2 |-> IndiaRow(2, "m2", Lapsed(ai5))],
   movements |-> [m1 |-> Movement("i1", "departure"), m2 |-> Movement("i2", "arrival")]]

IndiGoRecord(record, line, conflicts) ==
  [rows |-> {Citation(line, "arrival")}, hash |-> 1, conflicts |-> conflicts] @@ record
IndiGoPacket ==
  [records  |-> [g1 |-> IndiGoRecord(Current(ig7), "n1", {"c"}), g2 |-> IndiGoRecord(Lapsed(ig7), "n2", {})],
   ledger   |-> [g1 |-> 1, g2 |-> 1],
   reviewed |-> {"c"}, date |-> 1]

SpiceJetPacket ==
  [claims |-> [s1 |-> [rows |-> {"p1"}, paired |-> FALSE, flags |-> {}] @@ Current(sg9),
               s2 |-> [rows |-> {"p2"}, paired |-> FALSE, flags |-> {}] @@ Lapsed(sg9)],
   patch  |-> {sg9}, date |-> 1]

Reviewed0 == [express |-> ExpressPacket, india |-> IndiaPacket, indigo |-> IndiGoPacket,
              spicejet |-> SpiceJetPacket]

\* A lapsed variant comes into force with its rows or without them, a row or an
\* overlap goes to another identity, an overlap is listed twice, a row is dropped
\* or borrowed, an identity is accepted with its records or without.
ExpressPackets ==
  << [ExpressPacket EXCEPT !.rows.r3 = SourceRow(Current(ix1), "departure"),
                          !.variants.v2 = Variation(Current(ix1), {"r3"}, FALSE)],
    [ExpressPacket EXCEPT !.rows.r3.identity = ix2],
    [ExpressPacket EXCEPT !.overlaps = {Overlap("v3", 1)}],
    [ExpressPacket EXCEPT !.overlaps = {Overlap("v2", 1), Overlap("v2", 2)}],
    [ExpressPacket EXCEPT !.variants.v1.rows = {"r1"}],
    [ExpressPacket EXCEPT !.variants.v3 = Variation(Current(ix2), {"r4"}, FALSE)],
    [ExpressPacket EXCEPT !.ledger[ix2].accepted = TRUE],
    [ExpressPacket EXCEPT !.ledger[ix2] = Entry(TRUE, "accepted", {"v3"}, {"r4"}),
                          !.variants.v3 = Variation(Current(ix2), {"r4"}, FALSE),
                          !.rows.r4 = SourceRow(Current(ix2), "arrival"),
                          !.variants.v1.rows = {"r1", "r2", "r4"}] >>

\* A field is held, an expired row comes into force, where the rows of the flight may
\* differ in what they know of it, a movement is borrowed, the network is said to know the
\* flight otherwise, the flight goes elsewhere.
IndiaPackets ==
  << [IndiaPacket EXCEPT !.ledger.i1.class = "held_field_only", !.ledger.i2.valid = "future"],
    [IndiaPacket EXCEPT !.ledger.i2.valid = "future", !.ledger.i2.class = "accepted",
                        !.ledger.i1.baseline = "candidate"],
    [IndiaPacket EXCEPT !.ledger.i1.movements = {"m1", "m2"}],
    [IndiaPacket EXCEPT !.ledger.i1.identity = Moved(ai5), !.movements.m1.identity = Moved(ai5)] >>

\* A conflict is not reviewed, a record is not that of the ledger, the flight is another,
\* or goes elsewhere by a review of another day.
IndiGoPackets ==
  << [IndiGoPacket EXCEPT !.reviewed = {}],
    [IndiGoPacket EXCEPT !.ledger.g1 = 2],
    [IndiGoPacket EXCEPT !.records.g1.identity.number = 8],
    [IndiGoPacket EXCEPT !.records.g1.identity = Moved(ig7), !.date = 2] >>

\* The flight goes elsewhere and its claim has both sides, the patch does not follow the
\* claim, the flight is one of IndiGo's on another row.
SpiceJetPackets ==
  << [SpiceJetPacket EXCEPT !.claims.s1.identity = Moved(sg9), !.patch = {Moved(sg9)}, !.claims.s1.paired = TRUE],
    [SpiceJetPacket EXCEPT !.claims.s1.identity = Moved(sg9)],
    [SpiceJetPacket EXCEPT !.claims.s1.identity = ig7, !.patch = {ig7}, !.claims.s1.rows = {"p2"}] >>

\* One source at a time.
ReviewedPackets ==
  <<Reviewed0>>
    \o [i \in DOMAIN ExpressPackets |-> [Reviewed0 EXCEPT !.express = ExpressPackets[i]]]
    \o [i \in DOMAIN IndiaPackets |-> [Reviewed0 EXCEPT !.india = IndiaPackets[i]]]
    \o [i \in DOMAIN IndiGoPackets |-> [Reviewed0 EXCEPT !.indigo = IndiGoPackets[i]]]
    \o [i \in DOMAIN SpiceJetPackets |-> [Reviewed0 EXCEPT !.spicejet = SpiceJetPackets[i]]]

RouteOfFlight(identity) == [carrier |-> identity.carrier, from |-> identity.from, to |-> identity.to]
Elsewhere == {ai5, Moved(ai5)}
Network0 == [routes |-> {RouteOfFlight(flight) : flight \in Elsewhere}, confirmed |-> Elsewhere, candidates |-> {}]
RouteNetworks ==
  << Network0, [Network0 EXCEPT !.candidates = {ix1}],
    [Network0 EXCEPT !.confirmed = {}, !.candidates = Elsewhere] >>
-----------------------------------------------------------------------------
\* The files of the flight-number layer: every kind of source, a route that is only
\* listed and a home route; nothing but fillers, with another file that numbers a
\* route; and two that are refused.
Route(carrier, pair) == [carrier |-> carrier, pair |-> pair]
HomeRoute == Route("BR", "p")
SharedRoute == Route("UA", "p")
OtherRoute == Route("BR", "q")
AtRoute(catalogued, cites, home) == [listed |-> catalogued, cites |-> cites, home |-> home]
NumberRow(key, digits, strong, dated) ==
  [key |-> key, number |-> [carrier |-> key.carrier, digits |-> digits], strong |-> strong, days |-> dated]
NoRows == [source \in {"standing", "affiliates", "bts", "flightsfrom", "audited", "mrairspace", "adsbiq", "specific"} |-> {}]
NumberInputs ==
  << [routes |-> (HomeRoute :> AtRoute(FALSE, FALSE, TRUE) @@ SharedRoute :> AtRoute(TRUE, TRUE, FALSE)
                  @@ OtherRoute :> AtRoute(FALSE, FALSE, FALSE)),
      numbered |-> {}, 
      rows |-> [NoRows EXCEPT
        !["standing"] = {NumberRow(SharedRoute, 1, TRUE, 1), NumberRow(HomeRoute, 1, TRUE, 1), NumberRow(HomeRoute, 2, FALSE, 1)},
        !["affiliates"] = {NumberRow(SharedRoute, 2, FALSE, 1), NumberRow(OtherRoute, 1, FALSE, 1)},
        !["flightsfrom"] = {NumberRow(HomeRoute, 2, TRUE, 1), NumberRow(SharedRoute, 1, FALSE, 1)},
        !["mrairspace"] = {NumberRow(HomeRoute, 3, FALSE, 1)},
        !["adsbiq"] = {NumberRow(OtherRoute, 4, FALSE, 2)}] ],
     [routes |-> (HomeRoute :> AtRoute(FALSE, FALSE, TRUE) @@ SharedRoute :> AtRoute(TRUE, FALSE, FALSE)
                  @@ OtherRoute :> AtRoute(TRUE, FALSE, TRUE)),
      numbered |-> {SharedRoute},
      rows |-> [NoRows EXCEPT
        !["bts"] = {NumberRow([OtherRoute EXCEPT !.pair = "p", !.carrier = "XX"], 1, FALSE, 1)},
        !["affiliates"] = {NumberRow(SharedRoute, 2, FALSE, 1)},
        !["adsbiq"] = {NumberRow(HomeRoute, 4, FALSE, 2), NumberRow(OtherRoute, 4, FALSE, 2)},
        !["specific"] = {NumberRow(HomeRoute, 5, FALSE, 1), NumberRow(SharedRoute, 5, FALSE, 1)}] ],
     [routes |-> (SharedRoute :> AtRoute(TRUE, FALSE, FALSE)), numbered |-> {},
      rows |-> [NoRows EXCEPT !["flightsfrom"] = {NumberRow(SharedRoute, 1, TRUE, 1)}] ],
     [routes |-> (HomeRoute :> AtRoute(FALSE, FALSE, TRUE)), numbered |-> {HomeRoute},
      rows |-> [NoRows EXCEPT !["adsbiq"] = {NumberRow(HomeRoute, 1, FALSE, 1)}] ] >>
NumberPages == { {[carrier |-> "BR", digits |-> 6], [carrier |-> "UA", digits |-> 6]} }

-----------------------------------------------------------------------------
(***************************************************************************)
(* Route networks for TLC (RouteEvidence): a small one of curated routes   *)
(* and a large one with a snapshot, a withdrawn route, a pair that is only *)
(* dated, and a code that two operators share; and what the library is     *)
(* asked for.                                                              *)
(***************************************************************************)
Row(code, entity, pair, state, identity, numbers, dated, candidates) ==
  [code |-> code, entity |-> entity, pair |-> pair, service |-> "nonstop", status |-> state,
   identity |-> identity, numbers |-> numbers,
   generic |-> numbers \ {e.number : e \in dated} # {},
   dated |-> dated, candidates |-> candidates, hinted |-> candidates # {}]
Observed(number, source, times, departs) ==
  [number |-> number, source |-> source, times |-> times, departs |-> departs,
   plannable |-> departs]

AB == <<"a", "b">>
BC == <<"b", "c">>
CA == <<"c", "a">>
AC == <<"a", "c">>

SmallNetwork ==
  [routes   |-> {Row("K", None, AB, "published", "unknown", {}, {}, {}),
                 Row("L", None, BC, "published", "operating", {"L1"}, {}, {})},
   deadline |-> << >>]

LargeNetwork ==
  [routes   |-> {Row("K", None, AB, "published", "provider-listed", {"K1", "K2"},
                     {Observed("K1", "s", {2, 4}, TRUE)}, {"K3"}),
                 Row("K", None, BC, "suspended", "operating", {}, {}, {}),
                 Row("L", None, BC, "published", "operating", {"L1"}, {}, {}),
                 [Row("L", None, CA, "published", "provider-listed", {"L5"},
                      {Observed("L5", "s", {1}, FALSE)}, {})
                    EXCEPT !.service = "scheduled-endpoint-pair"],
                 Row("L", None, <<"d", "e">>, "published", "operating", {"L8"}, {}, {}),
                 Row("L", None, <<"e", "d">>, "published", "unknown", {"L9"}, {}, {}),
                 Row("M", "M+1", CA, "published", "unknown", {"M5"}, {}, {"M4"}),
                 Row("M", "M+1", AC, "published", "operating", {}, {}, {}),
                 Row("M", "M+2", AB, "identity-unresolved", "unknown", {}, {}, {})},
   deadline |-> [s |-> 3]]

\* Schedules and publications: one of a route that the network has withdrawn, one of
\* a code that is shared, one of a route the network lacks, and a suspended one.
Service(code, pair, state, numbers) ==
  [code |-> code, pair |-> pair, status |-> state, numbers |-> numbers]
MCServices == { Service("K", BC, "operating", {"K2"}), Service("M", AB, "operating", {"M4"}),
              Service("L", CA, "operating", {"L2"}), Service("L", AB, "suspended", {}) }

\* Journeys of the landing page, and what a text may match.
Leg(code, number, pair) == [code |-> code, number |-> number, pair |-> pair]
Journeys == { Leg("K", "K1", AB), Leg("L", "L7", AC) }
NoMatch == [airports |-> {}, pair |-> None, code |-> None, entity |-> None, number |-> None,
            names |-> {}]
Searches ==
  { [NoMatch EXCEPT !.airports = {"a", "b"}, !.names = {"M+1"}],
    [NoMatch EXCEPT !.pair = AB], [NoMatch EXCEPT !.pair = CA],
    [NoMatch EXCEPT !.code = "K"], [NoMatch EXCEPT !.code = "M"],
    [NoMatch EXCEPT !.entity = "M+2"] }
  \cup {[NoMatch EXCEPT !.number = n] : n \in {"K1", "K3", "L1", "L5", "M4"}}

-----------------------------------------------------------------------------
(***************************************************************************)
(* Avinor's feed for TLC: what a capture of Oslo may answer                *)
(* (AvinorCapture), and editions of the releases (AvinorRelease).          *)
(***************************************************************************)
Way(carrier, from, to) == [carrier |-> carrier, from |-> from, to |-> to]
Number(code, digits) == [code |-> code, digits |-> digits]
s1 == Number("S", 1)
s2 == Number("S", 2)
s3 == Number("S", 3)
w1 == Number("W", 1)
w2 == Number("W", 2)
OslB == Way("S", "OSL", "b")
BOsl == Way("S", "b", "OSL")

Listing(state, confirmed, candidates) ==
  [status |-> state, identity |-> "provider-listed", confirmed |-> confirmed,
   candidates |-> candidates, cites |-> IF candidates = {} THEN {} ELSE {"x", "y"}, dated |-> {}]

\* One number on several routes, one of which does not touch Oslo.
OsloNetwork ==
  (OslB :> Listing("published", {s3}, {s1, s2})) @@ (BOsl :> Listing("published", {}, {s1}))
    @@ (Way("S", "b", "c") :> Listing("published", {}, {s1}))

FeedRow(flight, side, hour, state) ==
  [operator |-> flight.code, flight |-> flight, side |-> side, end |-> "b", time |-> hour,
   via |-> FALSE, status |-> state, shares |-> {}]

\* A flight that leaves in hour or at once, one that has left, that stops on the way, is
\* cancelled, has no hour or comes late, and flights of others under this number.
OsloFeeds ==
  { {FeedRow(s1, "D", 1, ""), FeedRow(s1, "D", 0, "")},
    {FeedRow(s1, "D", 0, "")},
    {FeedRow(s1, "A", 0 - 1, "A"), [FeedRow(s2, "D", 1, "") EXCEPT !.via = TRUE]},
    {FeedRow(s1, "A", 2, "c"), FeedRow(s2, "D", 1, "C"), FeedRow(s2, "D", 2, "")},
    {[FeedRow(w1, "D", 1, "") EXCEPT !.shares = {s1}], FeedRow(s2, "D", 3, ""),
     [FeedRow(s2, "D", 1, "") EXCEPT !.operator = "W"], FeedRow(s1, "?", 1, ""),
     [FeedRow(s1, "A", 1, "") EXCEPT !.time = None]} }
-----------------------------------------------------------------------------
\* A first release of Oslo at 10, a batch of b at 11 and of c at 12, occurrences found in
\* all of these, and the airport d that remained.
UnreleasedNetwork ==
  (OslB :> Listing("published", {s3}, {s1, s2}))
    @@ (Way("W", "c", "b") :> Listing("identity-unresolved", {}, {w1}))

Seen(airport, way, number, hour) ==
  [airport |-> airport, id |-> hour, operator |-> way.carrier, flight |-> number,
   from |-> way.from, to |-> way.to, time |-> hour, via |-> FALSE, status |-> ""]
Supports(airport, way, number, hour) ==
  [class |-> "upcoming"] @@ Seen(airport, way, number, hour)
Occurrence(airport, way, number, hour) ==
  [expires |-> hour, hash |-> airport] @@ Seen(airport, way, number, hour)
Association(way, number, airports, lines) ==
  [route |-> way, number |-> number, cites |-> {"x", "y"}, airports |-> airports,
   window |-> [from |-> 9, until |-> 12], rows |-> lines]
LedgerRow(way, number, known, occurrences) ==
  [route |-> way, number |-> number, wasCandidate |-> known, wasConfirmed |-> FALSE,
   occurrences |-> occurrences]
CapturedAt(hour, airport) == [at |-> hour, hash |-> airport]

CB == Way("W", "c", "b")
BC0 == Way("W", "b", "c")
DC == Way("W", "d", "c")
FollowOne ==
  LedgerRow(OslB, s2, TRUE, {Occurrence("b", OslB, s2, 12), Occurrence("OSL", OslB, s2, 11)})
FollowNew == LedgerRow(BC0, w2, FALSE, {Occurrence("b", BC0, w2, 12), Occurrence("c", BC0, w2, 13)})
RemainingNew == LedgerRow(DC, w2, FALSE, {Occurrence("d", DC, w2, 22)})

Release0 ==
  [first |-> [at |-> 10, hash |-> "OSL",
              associations |-> {Association(OslB, s1, {"OSL"}, {Supports("OSL", OslB, s1, 11)})}],
   batch |-> [captures |-> [b |-> CapturedAt(11, "b"), c |-> CapturedAt(12, "c")],
              associations |->
                {Association(OslB, s2, {"b"}, {Supports("b", OslB, s2, 12)}),
                 Association(CB, w1, {"b", "c"}, {Supports("b", CB, w1, 13), Supports("c", CB, w1, 14)})}],
   follow |-> [rows |-> {FollowOne, LedgerRow(CB, w1, TRUE, {Occurrence("c", CB, w1, 14)}), FollowNew},
               held |-> {[route |-> BC0, number |-> w1]}],
   remaining |-> [captures |-> [d |-> CapturedAt(20, "d")], rows |-> {RemainingNew},
                  held |-> {[route |-> DC, number |-> w1]}],
   weekly |-> {[route |-> OslB, number |-> s3]}]

Swap(set, old, new) == (set \ {old}) \cup {new}
Hold(line) == [route |-> line.route, number |-> line.number]
FirstOne == Association(OslB, s1, {"OSL"}, {Supports("OSL", OslB, s1, 11)})
BatchOne == Association(OslB, s2, {"b"}, {Supports("b", OslB, s2, 12)})

\* Releases that are reviewed anew, and releases that get something wrong: a row that is
\* cancelled or that nobody captured, a key in two releases, a key that was held or that
\* is listed weekly, evidence from another capture or under another window, an
\* occurrence more or less, an occurrence or a key cited twice, a key that goes from one
\* release to another.
AvinorReleases ==
  << Release0,
    [Release0 EXCEPT !.follow.rows = Swap(@, FollowNew, [FollowNew EXCEPT !.occurrences = {Occurrence("b", BC0, w2, 12)}])],
    [Release0 EXCEPT !.follow.rows = @ \ {FollowNew}, !.follow.held = @ \cup {Hold(FollowNew)}],
    [Release0 EXCEPT !.remaining.rows = Swap(@, RemainingNew, [RemainingNew EXCEPT
                       !.occurrences = @ \cup {Occurrence("d", DC, w2, 23)}])],
    [Release0 EXCEPT !.batch.captures.c.at = 10, !.batch.captures.b.at = 11],
    [Release0 EXCEPT !.batch.associations = Swap(@, BatchOne, [BatchOne EXCEPT !.window.until = 11])],
    [Release0 EXCEPT !.batch.associations = Swap(@, BatchOne, [BatchOne EXCEPT !.cites = {"x"}])],
    [Release0 EXCEPT !.batch.associations = @ \cup {FirstOne}],
    [Release0 EXCEPT !.batch.associations = @ \cup {[FirstOne EXCEPT !.airports = {"b"}, !.rows = {Supports("b", OslB, s1, 12)}]}],
    [Release0 EXCEPT !.batch.associations = Swap(@, BatchOne, [BatchOne EXCEPT
                       !.rows = {[Supports("b", OslB, s2, 12) EXCEPT !.status = "c"]}])],
    [Release0 EXCEPT !.first.associations = {[FirstOne EXCEPT !.rows = {[Supports("OSL", OslB, s1, 11) EXCEPT !.via = TRUE]}]}],
    [Release0 EXCEPT !.first.associations = {[FirstOne EXCEPT !.cites = {"z"}]}],
    [Release0 EXCEPT !.follow.rows = Swap(@, FollowNew, [FollowNew EXCEPT
                       !.occurrences = {[Occurrence("b", BC0, w2, 12) EXCEPT !.hash = "c"]}])],
    [Release0 EXCEPT !.follow.rows = Swap(@, FollowNew, [FollowNew EXCEPT !.wasCandidate = TRUE])],
    [Release0 EXCEPT !.follow.rows = @ \cup {LedgerRow(BC0, w1, FALSE, {Occurrence("b", BC0, w1, 12)})}],
    [Release0 EXCEPT !.follow.held = @ \cup {Hold(FollowNew)}],
    [Release0 EXCEPT !.remaining.rows = @ \cup {LedgerRow(BC0, w2, FALSE, {Occurrence("d", BC0, w2, 22)})}],
    [Release0 EXCEPT !.remaining.rows = {LedgerRow(BC0, w2, FALSE, {Occurrence("b", BC0, w2, 22)})},
                     !.remaining.captures = [b |-> CapturedAt(20, "b")]],
    [Release0 EXCEPT !.remaining.rows = Swap(@, RemainingNew, [RemainingNew EXCEPT
                       !.occurrences = @ \cup {[Occurrence("d", DC, w2, 22) EXCEPT !.status = "D"]}])],
    [Release0 EXCEPT !.remaining.rows = @ \cup {LedgerRow(DC, w1, FALSE, {Occurrence("d", DC, w1, 22)})}],
    [Release0 EXCEPT !.weekly = @ \cup {Hold(BatchOne)}],
    [Release0 EXCEPT !.weekly = @ \cup {Hold(RemainingNew)}],
    [Release0 EXCEPT !.follow.rows = {}, !.remaining.rows = {}, !.remaining.captures = [x \in {} |-> None]],
    [Release0 EXCEPT !.follow.held = @ \cup {Hold(FirstOne)}],
    [Release0 EXCEPT !.remaining.held = @ \cup {Hold(BatchOne)}],
    [Release0 EXCEPT !.follow.held = @ \cup {Hold(RemainingNew)}],
    [Release0 EXCEPT !.batch.associations = @ \cup {[BatchOne EXCEPT !.window.until = 11]}],
    [Release0 EXCEPT !.follow.rows = Swap(@, FollowOne, [FollowOne EXCEPT
                       !.occurrences = @ \cup {[Occurrence("b", OslB, s2, 12) EXCEPT !.status = "D"]}])],
    [Release0 EXCEPT !.first.associations = {},
                     !.batch.associations = @ \cup {[FirstOne EXCEPT !.airports = {"b"}, !.rows = {Supports("b", OslB, s1, 12)}]},
                     !.follow.rows = @ \cup {LedgerRow(OslB, s1, TRUE, {Occurrence("OSL", OslB, s1, 11)})}] >>

-----------------------------------------------------------------------------
(***************************************************************************)
(* Registered schedules for TLC (RegisteredPlans): a plain route and one   *)
(* of an operator that shares its code, a fact that two rows state, and    *)
(* what a later capture, a later review or a later network may change.     *)
(***************************************************************************)
plainRoute == [carrier |-> "K", entity |-> None, pair |-> <<"a", "b">>]
sharedRoute == [carrier |-> "N", entity |-> "N+one", pair |-> <<"a", "b">>]
OperatorOfEntity == ("N+one" :> "NNN")

\* The registrations: what a row of the file says, and what a plan makes of it.
RegisteredRow(registration, number, icao, other) ==
  [registration |-> registration, number |-> number, icao |-> icao, codeshare |-> "c",
   passenger |-> TRUE, other |-> other]
PlanOf(raw, operator, entity) ==
  [registration |-> raw.registration, number |-> raw.number, icao |-> raw.icao,
   codeshare |-> raw.codeshare, operator |-> operator, entity |-> entity, conflict |-> FALSE]

row1 == RegisteredRow("s1", 1, "KKK", "x")
row2 == RegisteredRow("s2", 2, "NNN", "x")
row3 == RegisteredRow("s2", 3, "NNN", "x")
cargoRow == [row3 EXCEPT !.passenger = FALSE]
strangerRow == RegisteredRow("s1", 1, "LLL", "x")

\* The same facts with other text, and a later file in which one row is another operator's
\* and one is cargo.
firstCapture == <<row1, row1, row2, row3>>
secondCapture == <<[row1 EXCEPT !.other = "y"], row1, row2, row3>>
thirdCapture == <<row1, strangerRow, row2, cargoRow>>
PlanCaptures == {firstCapture, secondCapture, thirdCapture}

RegistrationEntry(body, raw, n, operator, entity) ==
  [plan |-> PlanOf(raw, operator, entity), row |-> n, body |-> body, accepted |-> TRUE,
   already |-> n = 2]
Registrations(way, number, registered) ==
  [route |-> way, number |-> number, existing |-> TRUE,
   tier |-> "new-identity-on-existing-route", entries |-> registered]

plainEntries(body, second) ==
  { RegistrationEntry(body, row1, 1, "K", None), RegistrationEntry(body, second, 2, "K", None) }
sharedEntry(body, raw, n) == RegistrationEntry(body, raw, n, "N", "N+one")
plainGroup(body) == Registrations(plainRoute, 1, plainEntries(body, row1))
sharedGroup(body, raw, n) ==
  Registrations(sharedRoute, raw.number, {sharedEntry(body, raw, n)})

\* The reviewed proposals, and what a review may get wrong: a row on two routes or in the
\* wrong group, rows of two operators as one fact, a row of cargo, a plan with no entity
\* on the route of one.
firstProposal == {plainGroup(firstCapture), sharedGroup(firstCapture, row2, 3)}
PlanProposals ==
  LET bare == plainGroup(firstCapture)
      named == sharedGroup(firstCapture, row2, 3)
      unnamed(operator) == {RegistrationEntry(firstCapture, row2, 3, operator, None)}
  IN { firstProposal, {plainGroup(secondCapture), sharedGroup(secondCapture, row3, 4)},
       {bare, named, Registrations(plainRoute, 2, unnamed("K"))},
       {bare, [named EXCEPT !.number = 3]},
       {Registrations(plainRoute, 1, plainEntries(thirdCapture, strangerRow)),
        sharedGroup(thirdCapture, row2, 3)},
       {Registrations(plainRoute, 1, {RegistrationEntry(thirdCapture, row1, 1, "K", None)}),
        sharedGroup(thirdCapture, row3, 4)},
       {bare, Registrations(sharedRoute, 2, unnamed("N"))} }

\* The network below: a plan without rows, a number that has been confirmed since, a plan
\* of which another layer knows the operator.
KnownPlan(raw, operator, entity) ==
  [registration |-> raw.registration, number |-> raw.number, operator |-> operator,
   entity |-> entity, icao |-> None, conflict |-> FALSE, lineage |-> {}]
PlainEvidence(numbers, plans) == [numbers |-> numbers, plans |-> plans]
BaseOf(icao, confirmed) ==
  (plainRoute :> [numbers |-> {5}, plans |-> {[KnownPlan(row1, "K", None) EXCEPT !.icao = icao]}])
    @@ (sharedRoute :> [numbers |-> confirmed, plans |-> {}])
PlanBases == {BaseOf(None, {}), BaseOf(None, {2}), BaseOf("LLL", {}), BaseOf("KKK", {})}

FirstPlans ==
  [body |-> firstCapture, proposal |-> firstProposal, base |-> BaseOf(None, {})]

-----------------------------------------------------------------------------
(***************************************************************************)
(* Timetable rows for TLC (TdxTimetable): weeks of two days, one flight in *)
(* several rows, a codeshare that each side claims, rows that do not       *)
(* count; and evidence that begins and ends while the rows are used.       *)
(***************************************************************************)
Clock(hour, offset) == [time |-> hour, offset |-> offset]
TimetableRow(airline, flight, weekdays, departure, shares, updated) ==
  [airline |-> airline, flight |-> flight, here |-> TRUE, from |-> 1, until |-> 3,
   weekdays |-> weekdays, passenger |-> TRUE, departure |-> departure,
   arrival |-> Clock("12:00", 1), shares |-> shares, updated |-> updated]

BR1 == <<"BR", 1>>
TG5 == <<"TG", 5>>
ownRow == TimetableRow("BR", BR1, {0, 1}, Clock("08:00", None), {}, 0)
TimetableRows ==
  { ownRow,
    [ownRow EXCEPT !.updated = 0 - 2],
    [ownRow EXCEPT !.weekdays = {1}, !.departure = Clock("09:00", None)],
    [ownRow EXCEPT !.arrival = Clock("12:00", None)],
    [ownRow EXCEPT !.departure = Clock("08:00", 1)],
    TimetableRow("TG", TG5, {0}, None,
                 {[airline |-> "BR", carrier |-> None, number |-> 1]}, 0 - 2),
    [TimetableRow("TG", TG5, {0, 1}, None, {[airline |-> None, carrier |-> "BR", number |-> 1],
       [airline |-> "JX", carrier |-> "BR", number |-> 7],
       [airline |-> None, carrier |-> None, number |-> 7]}, 0) EXCEPT !.until = 2],
    TimetableRow("BR", <<"BR", 7>>, {0, 1}, Clock("08:00", 0),
                 {[airline |-> "TG", carrier |-> "TG", number |-> 5]}, 1) }
TimetableSnapshots ==
  {<<r>> : r \in TimetableRows}
    \union {<<r, s>> : r, s \in TimetableRows}
    \union {s \in [1 .. 3 -> TimetableRows] : s[1] = ownRow /\ s[2] # ownRow /\ s[3] # s[2]}
    \union {<<>>, <<[ownRow EXCEPT !.here = FALSE], [ownRow EXCEPT !.passenger = FALSE],
                    [ownRow EXCEPT !.airline = "TG"], [ownRow EXCEPT !.flight = None]>>}

Reviewal(flight, from, checked, review) ==
  [flight |-> flight, from |-> from, until |-> 3, checked |-> checked, review |-> review]
ReviewedOperators == <<Reviewal(BR1, 2, 0, 1), Reviewal(BR1, 1, 0, 4)>>
WithWeekdays(source, weekdays) == source @@ [weekdays |-> weekdays]
OfficialServices ==
  << WithWeekdays(Reviewal(BR1, 1, 0, 3), {0}) @@ [added |-> {3}, removed |-> {2}],
     WithWeekdays(Reviewal(<<"BR", 7>>, 1, 2, 4), {1}) @@ [added |-> {}, removed |-> {}] >>
ScheduleCharts ==
  << WithWeekdays(Reviewal(BR1, 1, 0, 4), {0}) @@ [verified |-> TRUE, known |-> TRUE],
     WithWeekdays(Reviewal(TG5, 1, 0, 4), {0, 1}) @@ [verified |-> FALSE, known |-> TRUE],
     WithWeekdays(Reviewal(TG5, 2, 0, 4), {0, 1}) @@ [verified |-> TRUE, known |-> FALSE] >>
ForeignOperators ==
  << Reviewal(BR1, 1, 0, 4) @@ [operator |-> "TG"],
     Reviewal(<<"BR", 7>>, 1, 1, 3) @@ [operator |-> "TG"] >>

\* Templates of seasonal timetables: a route with two ways to begin, the better one on
\* some days only; one whose last flights leave before they can be reached from all but
\* the first days; and one where the flight of the next day arrives first.
SeasonalPattern(rank, from, until, weekdays, departs, offset) ==
  [rank |-> rank, from |-> from, until |-> until, weekdays |-> weekdays,
   departs |-> departs, offset |-> offset]
SeasonalSegment(from, to, patterns) == [from |-> from, to |-> to, patterns |-> patterns]
SeasonalTemplate(product, stay, segments) ==
  [product |-> product, from |-> 1, until |-> 6, stay |-> stay, segments |-> segments]
SeasonalTemplates ==
  { SeasonalTemplate("eva", 1,
      << SeasonalSegment("a", "b", {SeasonalPattern(1, 2, 5, {0, 1}, 9, 0),
                                    SeasonalPattern(2, 1, 6, {1}, 8, 0)}),
         SeasonalSegment("b", "a", {SeasonalPattern(1, 1, 6, {0, 1}, 7, 1),
                                    SeasonalPattern(3, 1, 6, {1}, 7, 1)}) >>),
    SeasonalTemplate("other", 0,
      << SeasonalSegment("a", "b", {SeasonalPattern(1, 1, 6, {0, 2}, 9, 0)}),
         SeasonalSegment("b", "c", {SeasonalPattern(1, 1, 4, {1, 2}, 9, 0)}),
         SeasonalSegment("c", "a", {SeasonalPattern(1, 3, 6, {0}, 9, 2)}) >>),
    SeasonalTemplate("eva", 0,
      << SeasonalSegment("a", "b", {SeasonalPattern(1, 1, 6, {1}, 9, 2),
                                    SeasonalPattern(2, 1, 6, {2}, 9, 0)}),
         SeasonalSegment("b", "a", {SeasonalPattern(1, 1, 4, {0, 1}, 9, 0)}) >>) }
-----------------------------------------------------------------------------
(***************************************************************************)
(* Bounds and inputs of the parts that need little.                        *)
(***************************************************************************)
\* Saved routings: two tabs, two names for one link.

\* Flight dates: two months of two days. A supplier says that the flight runs,
\* that it cannot tell while the timetable lists it, or that it cannot tell.
Span(from, until) == [checked |-> from, until |-> until]
Day(complete, issue, flights, printed) ==
  [complete |-> complete, issue |-> issue, flights |-> flights, published |-> printed,
   references |-> {}, live |-> Span(0, 2)]
MCDayKinds == { Day(TRUE, None, {"f"}, {}),
                Day(FALSE, "partial", {},
                    {[flight |-> "f", source |-> Span(0, 3), operator |-> Span(0 - 1, 1)]}),
                Day(FALSE, "other", {}, {}) }
MCOfficial == {[date |-> 2, flight |-> "f", source |-> Span(0, 2), operator |-> None]}

\* Route library: an airport and a route of letters with a shard, a route
\* without, a carrier with a shard and one without.
Selection(kind, letter, carrier) == [kind |-> kind, letter |-> letter, carrier |-> carrier]
MCSelections == { Selection("airport", "A", None), Selection("route", "A", "K"),
                  Selection("route", "C", None), Selection("airline", None, "K"),
                  Selection("airline", None, "L") }

\* Next-leg panel: two ways to fly from a to c, and evidence that goes away.
SelectedFlight(from, to, flight) == [from |-> from, to |-> to, flight |-> flight]
MCDiscoveries == { {SelectedFlight("a", "b", "k"), SelectedFlight("a", "c", "k"),
                    SelectedFlight("a", "c", "l"), SelectedFlight("b", "a", "k")},
                   {SelectedFlight("a", "c", "l"), SelectedFlight("b", "a", "k")} }
MCSameCity == [a |-> {"c"}, b |-> {}, c |-> {"a"}]

\* Its evidence: two airports of one shard, and one of another.
MCLetter == [a1 |-> "A", a2 |-> "A", b |-> "B"]

\* Route catalogue: b lies in Asia although its country is mapped to Europe, c is not
\* a known airport.
CountryOfAirport == [a |-> "x", b |-> "y"]
ContinentOfCountry == [x |-> "asia", y |-> "europe"]
ContinentOfAirport == [b |-> "asia"]
MCSubregion == [x |-> "north"]
MCLocalRegion == [b |-> "coast"]

\* Map: longitudes on a world of 96, routes that cross its edge, and more next stops
\* than a fit to them allows.
MCLon == [a |-> 0, b |-> 84, c |-> 36, d |-> 48, e |-> 66]
MCMaxFit == [route |-> 4, selection |-> 8]
MCRadius == [overview |-> 52, regional |-> 34, local |-> 0]
MapRoutes == {<<"a">>, <<"a", "b">>, <<"b", "c">>}
MapGuides == { None, [origin |-> "b", destinations |-> {"c", "d", "e"}],
               [origin |-> "c", destinations |-> {"a", "d"}] }

\* The site's files: a route that is published and one that is not; then a route
\* that may be without a number, another number, and a route that may not.
SiteRoute(carrier, from, to, state, identity, numbers, candidates) ==
  [carrier |-> carrier, from |-> from, to |-> to, status |-> state,
   identity |-> identity, numbers |-> numbers, candidates |-> candidates]
LandingRoute == SiteRoute("K", "a", "b", "published", "operating", {"1"}, {})
LandingLeg == [carrier |-> "K", from |-> "a", to |-> "b", number |-> "1"]
MCShowcase == {LandingLeg}
MCAccepted == {<<"L", "c", "a">>}
MCLetterOf == [a |-> "A", c |-> "C"]
MCLetterOrder == <<"A", "C">>
MCCarrierOrder == <<"K", "L">>
SiteNetworks ==
  { {LandingRoute, SiteRoute("L", "a", "b", "blocked", "unknown", {}, {})},
    {[LandingRoute EXCEPT !.identity = "unknown"],
     SiteRoute("L", "c", "a", "published", "unknown", {}, {})},
    {[LandingRoute EXCEPT !.numbers = {"2"}],
     SiteRoute("L", "a", "c", "published", "unknown", {}, {"3"})},
    {LandingRoute, SiteRoute("L", "a", "c", "published", "unknown", {}, {})} }

\* Flights seen in the air: of one carrier over two quarters, one of them in the files of
\* both, one with the callsign of another airline and one whose callsign was not found
\* valid; of a second carrier in July; an unknown airline, and a flight that ends where it
\* began. The second release lacks the file of the first quarter.
SeenFlight(flight, airline, seenIn, from, to, prefix, number, valid) ==
  [flight |-> flight, airline |-> airline, month |-> seenIn, from |-> from, to |-> to,
   callsign |-> [prefix |-> prefix, number |-> number], valid |-> valid]
March1 == SeenFlight("f1", "KKK", 3, <<"AAAA">>, <<"BBBB">>, "KKK", "1", TRUE)
March2 == SeenFlight("f2", "KKK", 3, <<"AAAA">>, <<"BBBB">>, "LLL", "7", TRUE)
April1 == SeenFlight("f3", "KKK", 4, <<"ZZZZ", "AAAA">>, <<"BBBB">>, "KKK", "2", FALSE)
April2 == SeenFlight("f4", "KKK", 4, <<"AAAA">>, <<"BBBB">>, "KKK", "1", TRUE)
July1 == SeenFlight("f5", "LLL", 7, <<"BBBB">>, <<"AAAA">>, "LLL", "3", TRUE)
July2 == SeenFlight("f6", "LLL", 7, <<"BBBB">>, <<"AAAA">>, "LLL", "3", TRUE)
July3 == SeenFlight("f7", "LLL", 7, <<"BBBB">>, <<"AAAA">>, "LLL", "4", FALSE)
Unknown == SeenFlight("f8", "XXX", 4, <<"AAAA">>, <<"BBBB">>, "XXX", "3", TRUE)
Round == SeenFlight("f9", "KKK", 4, <<"AAAA">>, <<"AAAA", "BBBB">>, "KKK", "3", TRUE)
MCCarrierOf == [KKK |-> "K", LLL |-> "L"]
MCAirportOf == [AAAA |-> "a", BBBB |-> "b"]
FlightReleases ==
  << (1 :> <<March1, March2, April1>>)
       @@ (2 :> <<March2, April1, April2, Unknown, Round, July1>>),
     (2 :> <<April2, April1, March1>>) @@ (3 :> <<July1, July2, July3, April2>>) >>
AdsbListing(carrier, from, to, first, last, number) ==
  [carrier |-> carrier, from |-> from, to |-> to, first |-> first, last |-> last, rows |-> 2,
   numbers |-> {[carrier |-> carrier, number |-> number]}]
AdsbSnapshots ==
  { {}, {AdsbListing("L", "b", "a", 7, 7, "3")},
    {AdsbListing("K", "a", "b", 6, 8, "5"), AdsbListing("L", "b", "a", 6, 6, "3")} }

\* RTW rules: a round trip by way of a city with two airports, a sector
\* overland between them, and a return known from a timetable only.
City(city, country) == [city |-> city, country |-> country]
MCCities == [tpe |-> City("tp", "tw"), nrt |-> City("ty", "jp"), hnd |-> City("ty", "jp")]
Sector(from, to, overland, carrier, assumed, reference) ==
  [from |-> from, to |-> to, surface |-> overland, stopover |-> "unknown", carrier |-> carrier,
   assumed |-> assumed, reference |-> reference, departsOn |-> None]
MCItineraries == { << Sector("tpe", "nrt", FALSE, "m", TRUE, FALSE),
                      Sector("nrt", "hnd", TRUE, None, FALSE, FALSE),
                      Sector("hnd", "tpe", FALSE, None, FALSE, TRUE) >> }
MCLimits ==
  [surfaceCountsAsStopover |-> TRUE, minStopovers |-> 2, maxStopovers |-> 2,
   maxTransfers |-> 1, travelUntil |-> 1, minDays |-> 10, maxDays |-> None, trigger |-> "m",
   minWithTrigger |-> 3, minWithoutTrigger |-> 2, forbidsOriginStopovers |-> TRUE,
   maxStopoversPerCity |-> 1, maxStopoversPerCountry |-> 1, maxTransfersPerCity |-> 1]

\* Geography: two airports of one metropolitan area and one on either side of an
\* ocean, with legs both ways round, and a link with an unknown airport and an
\* empty group.
Spot(metro, city, country, lon, area) ==
  [metro |-> metro, city |-> city, country |-> country, lon |-> lon, area |-> area]
MCSpots == [tpe |-> Spot("tp", "taipei", "tw", 120, 3), tsa |-> Spot("tp", "taipei", "tw", 121, 3),
            nyc |-> Spot(None, "ny", "us", 0 - 60, 1), lon |-> Spot(None, "london", "gb", 0, 2)]
Between(a, b) ==
  IF a = b THEN 0
  ELSE IF {a, b} = {"tpe", "tsa"} THEN 1
  ELSE IF {a, b} = {"nyc", "lon"} THEN 2 ELSE IF "nyc" \in {a, b} THEN 4 ELSE 3
MCCodes == DOMAIN MCSpots \cup {"zzz"}
MCMiles == [pair \in (DOMAIN MCSpots) \X (DOMAIN MCSpots) |-> Between(pair[1], pair[2])]
MCGeometry ==
  [surfaceMiles |-> TRUE, jawMiles |-> TRUE, minFlights |-> 2, maxFlights |-> 2, maxMiles |-> 7,
   maxSurfaces |-> 1, maxVisits |-> 2, maxOpenJaws |-> 1, countryTerminal |-> TRUE,
   cityTerminal |-> TRUE, requiredOceans |-> {"pacific", "atlantic"}, rejectsBothOceans |-> TRUE,
   direction |-> "iata-area-continuous", startEnd |-> "same-city"]
MCBands == << [min |-> 0, max |-> 5, prices |-> <<1, None>>],
              [min |-> 6, max |-> None, prices |-> <<2, 3>>] >>
Hop(from, to) == [from |-> from, to |-> to, surface |-> FALSE, cabin |-> 1]
Overland(from, to) == [Hop(from, to) EXCEPT !.surface = TRUE, !.cabin = None]

MCOffered == { Hop("tpe", "nyc"), Hop("nyc", "lon"), [Hop("lon", "tpe") EXCEPT !.cabin = 2],
               Hop("nyc", "tpe"), Hop("tsa", "lon"), Hop("lon", "nyc"),
               Overland("tpe", "tsa"), Overland("lon", "nyc") }
  MCStarts == { << <<>> >>, << <<Hop("zzz", "tpe")>>, <<>>, <<Hop("nyc", "lon")>> >> }

\* Next-leg evidence of one carrier code that an operator "e" shares, on one sector:
\* rows of the network, timetables, dated services and references of every standing.
NetworkRow(state, identity, from, until) ==
  [entity |-> None, status |-> state, identity |-> identity, from |-> from, until |-> until,
   review |-> None, numbers |-> {"1"}, candidates |-> {"2"}]
PlannedTimetable(state, from, opens, closes) ==
  [status |-> state, from |-> from, until |-> None, start |-> opens, end |-> closes, days |-> {1},
   numbers |-> {"3"}]
DatedService(entity) ==
  [entity |-> entity, from |-> 1, until |-> 2, days |-> {1}, added |-> {2}, removed |-> {1},
   number |-> "2", source |-> "early"]
Use(entity, until) ==
  [entity |-> entity, sale |-> TRUE, from |-> None, until |-> until,
   products |-> {[id |-> "p", from |-> 1, until |-> 3]}]
MCCatalogs ==
  [routes : { <<>>,
              <<NetworkRow("published", "provider-listed", 1, 2)>>,
              <<[NetworkRow("published", "provider-listed", 1, 2) EXCEPT !.review = <<1, 2>>, !.entity = "e"]>>,
              <<NetworkRow("published", "operating", None, None), NetworkRow("suspended", "operating", 2, 2)>>,
              <<[NetworkRow("identity-unresolved", "unknown", None, None) EXCEPT !.entity = "e"]>> },
   schedules : { <<>>,
                 <<PlannedTimetable("operating", 2, 2, 1), PlannedTimetable("operating", None, None, None)>>,
                 <<PlannedTimetable("suspended", None, 2, 2)>> },
   services : { {}, {DatedService(None)}, {DatedService("e"), DatedService(None)} },
   references : { {}, {[numbers |-> {"4"}, source |-> "late"]} },
   gaps : { {}, {[from |-> 3, until |-> None]} },
   uses : { {}, {Use(None, 2)}, {Use("e", None)} }]
ReviewedUntil(until) == [checked |-> 0, review |-> until]
MCSources == [early |-> ReviewedUntil(1), late |-> ReviewedUntil(2)]
MCWeekday == <<1, 2, 1>>
MCMonthDay == <<1, 2, 1>>

\* Share links: trips of two legs, one airport with two codes. The links are a
\* legacy one without cabins and with empty groups, one of two groups, and one
\* with a leg without a carrier, which does not parse.
MCPlace == [del |-> "del", fru |-> "fru", bsz |-> "fru"]
MCPairs == {<<"bsz", "del">>}
MCReferences == {<<"del", "fru">>}
Absent == [c |-> 1, cab |-> None, fc |-> None, stp |-> None, surf |-> None, assume |-> None,
           dg |-> None, fn |-> None]
Path(chains, op) == [chains |-> chains, op |-> op] @@ Absent
MCLinks == { [Path(<< <<"del", "fru", "del">> >>, << <<"x", "x">> >>)
                    EXCEPT !.stp = << <<None>> >>, !.surf = << <<None, TRUE>> >>],
                 [Path(<< <<"del", "fru">>, <<"fru", "del">> >>, << <<"x">>, <<"x">> >>)
                    EXCEPT !.cab = << <<None>>, <<2>> >>],
                 Path(<< <<"del", "fru">> >>, << <<None>> >>) }

-----------------------------------------------------------------------------
(***************************************************************************)
(* The other parts, and all of them together.                              *)
(***************************************************************************)
VARIABLES
  rest,
  \* RtwGeography
  flown,
  \* TdxTimetable
  tdxRows, tdxFetched, tdxNow, tdxAnswer,
  \* ObservedRoutes
  latestRelease, ingestedFiles, adsbSnapshot, overlays, buildMonth,
  \* SeasonalFinder
  season, finderOpen, templatesLoading, templatesLoad, pickedTemplate, wantedDays,
  finderResult, appliedDays

Geography == INSTANCE RtwGeography WITH
  groups <- flown, Codes <- MCCodes, Airports <- MCSpots, Miles <- MCMiles,
  Cabins <- {1, 2}, Product <- MCGeometry, Bands <- MCBands, MaxLegs <- 4,
  MaxGroups <- 2, Offered <- MCOffered, Starts <- MCStarts

Timetable == INSTANCE TdxTimetable WITH
  rows <- tdxRows, fetched <- tdxFetched, now <- tdxNow, answer <- tdxAnswer,
  Snapshots <- TimetableSnapshots, Reviewed <- ReviewedOperators,
  Services <- OfficialServices, Charts <- ScheduleCharts, Others <- ForeignOperators,
  Dates <- {1, 2, 3}, WeekLength <- 2, TTL <- 3, MaxAge <- 4, Skew <- 1, Limit <- 2,
  MaxTime <- 4

Aloft == INSTANCE ObservedRoutes WITH
  latest <- latestRelease, ingested <- ingestedFiles, snapshot <- adsbSnapshot,
  generated <- overlays, month <- buildMonth, SourceReleases <- FlightReleases,
  CarrierOf <- MCCarrierOf, AirportOf <- MCAirportOf, Snapshots <- AdsbSnapshots,
  Airlines <- {"K", "L"}, FirstMonth <- 8, LastMonth <- 9

Seasonal == INSTANCE SeasonalFinder WITH
  product <- season, unfolded <- finderOpen, loading <- templatesLoading,
  loadState <- templatesLoad, template <- pickedTemplate, wanted <- wantedDays,
  result <- finderResult, applied <- appliedDays, Templates <- SeasonalTemplates,
  Products <- {"eva", "other"}, OwnProduct <- "eva", Today <- 1, Days <- {1, 2, 5, 7},
  WeekLength <- 3

\* The variables of each part.
geographyVars == <<flown>>
timetableVars == <<tdxRows, tdxFetched, tdxNow, tdxAnswer>>
observedVars == <<latestRelease, ingestedFiles, adsbSnapshot, overlays, buildMonth>>
seasonalVars == <<season, finderOpen, templatesLoading, templatesLoad, pickedTemplate,
                  wantedDays, finderResult, appliedDays>>

restVars == <<rest, geographyVars, timetableVars, observedVars, seasonalVars>>

RestInit ==
  /\ rest \in {None, "geography", "timetable", "observed", "seasonal"}
  /\ IF rest = "geography" THEN Geography!Init
     ELSE flown = None
  /\ IF rest = "timetable" THEN Timetable!Init
     ELSE tdxRows = None /\ tdxFetched = None /\ tdxNow = None /\ tdxAnswer = None
  /\ IF rest = "observed" THEN Aloft!Init
     ELSE latestRelease = None /\ ingestedFiles = None /\ adsbSnapshot = None /\
          overlays = None /\ buildMonth = None
  /\ IF rest = "seasonal" THEN Seasonal!Init
     ELSE season = None /\ finderOpen = None /\ templatesLoading = None /\
          templatesLoad = None /\ pickedTemplate = None /\ wantedDays = None
          /\ finderResult = None /\ appliedDays = None

RestNext ==
  /\ UNCHANGED rest
  /\ IF rest = "geography" THEN Geography!Next ELSE UNCHANGED geographyVars
  /\ IF rest = "timetable" THEN Timetable!Next ELSE UNCHANGED timetableVars
  /\ IF rest = "observed" THEN Aloft!Next ELSE UNCHANGED observedVars
  /\ IF rest = "seasonal" THEN Seasonal!Next ELSE UNCHANGED seasonalVars

MCInit ==
  /\ \/ subject = None /\ rest = None
     \/ focus = None /\ rest = None
     \/ focus = None /\ subject = None
  /\ ItineraryInit /\ DataInit /\ RestInit

MCNext ==
  \/ focus # None /\ ItineraryNext /\ UNCHANGED <<dataVars, restVars>>
  \/ subject # None /\ DataNext /\ UNCHANGED <<itineraryVars, restVars>>
  \/ rest # None /\ RestNext /\ UNCHANGED <<itineraryVars, dataVars>>

MCSpec == MCInit /\ [][MCNext]_<<itineraryVars, dataVars, restVars>>
-----------------------------------------------------------------------------
(***************************************************************************)
(* Properties, beside those of ItineraryParts and DataParts.               *)
(***************************************************************************)
\* Every part's variables have the values declared for them.
TypeOK ==
  /\ focus = "evidence" => Evidence!TypeOK
  /\ focus = "rules" => Rules!TypeOK
  /\ focus = "share" => Share!TypeOK
  /\ focus = "saved" => Saved!TypeOK
  /\ focus = "panel" => Panel!TypeOK
  /\ focus = "next" => NextLeg!TypeOK
  /\ focus = "origin" => Origin!TypeOK
  /\ focus = "world" => World!TypeOK
  /\ focus = "loads" => Loads!TypeOK
  /\ focus = "map" => Map!TypeOK
  /\ focus = "library" => Library!TypeOK
  /\ focus = "catalog" => Catalog!TypeOK
  /\ focus = "entities" => Explorer!TypeOK
  /\ subject = "collection" => Collection!TypeOK
  /\ subject = "network" => Network!TypeOK
  /\ subject = "harvest" => Harvest!TypeOK
  /\ subject = "plans" => Plans!TypeOK
  /\ subject = "dgca" => Dgca!TypeOK
  /\ subject = "numbers" => Layer!TypeOK
  /\ subject = "captures" => Avinor!TypeOK
  /\ subject = "release" => Norway!TypeOK
  /\ subject = "site" => Site!TypeOK
  /\ rest = "geography" => Geography!TypeOK
  /\ rest = "timetable" => Timetable!TypeOK
  /\ rest = "observed" => Aloft!TypeOK
  /\ rest = "seasonal" => Seasonal!TypeOK

\* A failure that flying on cannot mend lasts whatever is added to the trip (validate.ts).
FailuresLast == [][rest = "geography" => Geography!GrowthKept]_restVars

\* What is computed is what it is defined to be, however it is computed: the terminal
\* rules, oceans and direction of a trip (validate.ts), what a fit of the map shows, where a
\* hand holds it and which stops are drawn apart (MapView.tsx), the options of the route
\* catalogue and their counts, what the library's search finds and its overview shows
\* (RouteCatalogBrowser.tsx, RouteLibraryExplorer.tsx), and the dates the seasonal finder
\* offers (seasonal-itinerary.ts); an answer of the TDX gateway rests on rows that hold,
\* whatever their order (tdx-schedules.ts, operator-evidence.ts); the overlays claim no more
\* than what was seen in the air (mrairspace-core.ts, build-runtime-generated.ts).
CalculationsAgree ==
  /\ focus = "map" => Map!FitShowsAll /\ Map!GripHolds /\ Map!StopsApart
  /\ focus = "catalog" => Catalog!OptionsSound
  /\ focus = "entities" => Explorer!SearchSound /\ Explorer!OverviewSound /\ Explorer!LibraryAgrees
  /\ rest = "geography" => Geography!GeographySound
  /\ rest = "timetable" => Timetable!TimetableSound
  /\ rest = "observed" => Aloft!ObservationsSound
  /\ rest = "seasonal" => Seasonal!SeasonalSound
=============================================================================
