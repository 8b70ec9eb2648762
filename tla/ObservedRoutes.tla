--------------------------- MODULE ObservedRoutes ---------------------------
(***************************************************************************)
(* Routes that were seen in the air: the quarterly releases of MrAirspace  *)
(* (ingest-mrairspace.ts, mrairspace-core.ts), the snapshot of ADSBiq, and *)
(* the overlay that is generated from both (build-runtime-generated.ts)    *)
(* and verified before it is committed (verify-runtime-generated.ts,       *)
(* route-network-generated.ts).                                            *)
(*                                                                         *)
(* A quarterly file of a release overlaps its neighbours, and the file of  *)
(* another quarter is taken when the one asked for is missing. Time is     *)
(* counted in months of one year. The meta file of the overlay, which      *)
(* nothing reads, is left out.                                             *)
(***************************************************************************)
EXTENDS Integers, Sequences, FiniteSets, FiniteSetsExt, Functions

CONSTANTS
  SourceReleases,
              \* sequence of releases: [quarter -> sequence of rows], a row being
              \* [flight, airline, month, from, to, callsign, valid], `flight` one flight
              \* in the air, from and to sequences of airports, callsign [prefix, number]
  CarrierOf,  \* carrier of each airline that is known
  AirportOf,  \* airport of each code that is known
  Snapshots,  \* what ADSBiq may have seen: sets of
              \* [carrier, from, to, first, last, rows, numbers]
  Airlines,   \* carriers that an overlay may name
  FirstMonth, LastMonth,
  None

VARIABLES
  latest,    \* releases that are out
  ingested,  \* candidate files: [quarter -> set of entries]
  snapshot,  \* that of ADSBiq
  generated, \* overlays: [month -> set of routes]
  month

vars == <<latest, ingested, snapshot, generated, month>>

MrAirspace == "MrAirspace"
AdsbIq == "ADSBiq"
Quarters == 1..4
QuarterOf(m) == (m + 2) \div 3

-----------------------------------------------------------------------------
(***************************************************************************)
(* A quarter's candidates (mrairspace-core.ts).                            *)
(***************************************************************************)
InQuarter(row, quarter) == QuarterOf(row.month) = quarter

\* The first airport of the cell that is known, as a set.
Resolved(cell) ==
  LET known == {i \in DOMAIN cell : cell[i] \in DOMAIN AirportOf}
  IN IF known = {} THEN {} ELSE {AirportOf[cell[Min(known)]]}

DesignatorOf(row) ==
  IF row.valid /\ row.callsign.prefix = row.airline
  THEN {[carrier |-> CarrierOf[row.airline], number |-> row.callsign.number]}
  ELSE {}

Observations(rows, quarter) ==
  {i \in DOMAIN rows : /\ rows[i].airline \in DOMAIN CarrierOf
                       /\ InQuarter(rows[i], quarter)
                       /\ Resolved(rows[i].from) # {} /\ Resolved(rows[i].to) # {}
                       /\ Resolved(rows[i].from) # Resolved(rows[i].to)}
RouteOf(row) == [carrier |-> CarrierOf[row.airline],
                 from |-> CHOOSE a \in Resolved(row.from) : TRUE,
                 to   |-> CHOOSE a \in Resolved(row.to) : TRUE]

\* A single observation proves nothing.
Enough(observed) == Cardinality(observed) >= 2
CandidateEntries(rows, quarter) ==
  LET seen == Observations(rows, quarter)
      Of(route) == {i \in seen : RouteOf(rows[i]) = route}
  IN {[route |-> route, count |-> Cardinality(Of(route)), quarter |-> quarter,
       numbers |-> UNION {DesignatorOf(rows[i]) : i \in Of(route)}] :
        route \in {r \in {RouteOf(rows[i]) : i \in seen} : Enough(Of(r))}}

\* The asset of the quarter, or else that of any other.
PickAsset(release, quarter) ==
  IF quarter \in DOMAIN release THEN {quarter} ELSE DOMAIN release

Release ==
  /\ latest < Len(SourceReleases) /\ latest' = latest + 1
  /\ UNCHANGED <<ingested, snapshot, generated, month>>

\* With --limit only the first rows are read; the file is written all the same.
Ingest(quarter, limit) ==
  \E asset \in PickAsset(SourceReleases[latest], quarter) :
    LET rows == SourceReleases[latest][asset]
        entries == CandidateEntries(SubSeq(rows, 1, Min({limit, Len(rows)})), quarter)
    IN /\ ingested' = [q \in DOMAIN ingested \cup {quarter} |->
                         IF q = quarter THEN entries ELSE ingested[q]]
       /\ UNCHANGED <<latest, snapshot, generated, month>>

-----------------------------------------------------------------------------
(***************************************************************************)
(* The overlay (build-runtime-generated.ts). The ends of a window are      *)
(* compared as text, "2026-Q2" with "2026-08-01": a month is before every  *)
(* quarter.                                                                *)
(***************************************************************************)
QuarterEnd(quarter) == [dated |-> FALSE, at |-> quarter]
MonthEnd(m) == [dated |-> TRUE, at |-> m]
Before(x, y) == IF x.dated = y.dated THEN x.at < y.at ELSE x.dated
QuarterAt(end) == IF end.dated THEN QuarterOf(end.at) ELSE end.at

Facts(route, source, first, last, count, numbers) ==
  [route |-> route, source |-> source, first |-> first, last |-> last,
   count |-> count, numbers |-> numbers]
CollectMrAirspace ==
  {Facts(e.route, MrAirspace, QuarterEnd(e.quarter), QuarterEnd(e.quarter),
         e.count, e.numbers) : e \in UNION Range(ingested)}
CollectAdsbIq ==
  {Facts([carrier |-> e.carrier, from |-> e.from, to |-> e.to], AdsbIq,
         MonthEnd(e.first), MonthEnd(e.last), e.rows, e.numbers) : e \in snapshot}

Earliest(ends) == CHOOSE e \in ends : \A o \in ends : ~Before(o, e)
Latest(ends) == CHOOSE e \in ends : \A o \in ends : ~Before(e, o)
Confidence(sources, first, last) ==
  CASE Cardinality(sources) >= 2 /\ first # last -> "high"
    [] Cardinality(sources) >= 2 \/ first # last -> "medium"
    [] OTHER                                     -> "candidate"

Merged(route, facts) ==
  LET sources == {f.source : f \in facts}
      first == QuarterAt(Earliest({f.first : f \in facts}))
      last == QuarterAt(Latest({f.last : f \in facts}))
  IN [route |-> route, sources |-> sources, first |-> first, last |-> last,
      confidence |-> Confidence(sources, first, last),
      count |-> MapThenSumSet(LAMBDA f : f.count, facts),
      numbers |-> UNION {f.numbers : f \in facts}]

BuildOverlay ==
  LET all == CollectMrAirspace \cup CollectAdsbIq
  IN {Merged(route, {f \in all : f.route = route}) : route \in {f.route : f \in all}}

Generate ==
  /\ generated' = [m \in DOMAIN generated \cup {month} |->
                     IF m = month THEN BuildOverlay ELSE generated[m]]
  /\ UNCHANGED <<latest, ingested, snapshot, month>>

\* The verifier, for the overlay of a month.
ParsesRoute(r) ==
  /\ r.route.from # r.route.to /\ r.count > 0 /\ r.first <= r.last
  /\ r.numbers # {} /\ \A n \in r.numbers : n.carrier = r.route.carrier
  /\ r.confidence = "high" => Cardinality(r.sources) >= 2
Verifies(overlay) ==
  /\ \A r \in overlay : /\ ParsesRoute(r) /\ r.route.carrier \in Airlines
                        /\ {r.route.from, r.route.to} \subseteq Range(AirportOf)
  /\ Cardinality({r.route : r \in overlay}) = Cardinality(overlay)

Pass ==
  /\ month < LastMonth /\ month' = month + 1
  /\ UNCHANGED <<latest, ingested, snapshot, generated>>

Init ==
  /\ latest = 1 /\ snapshot \in Snapshots /\ month = FirstMonth
  /\ ingested = [q \in {} |-> {}] /\ generated = [m \in {} |-> {}]

Limits == {1, 100}
Next ==
  \/ Release \/ Generate \/ Pass
  \/ \E quarter \in Quarters, limit \in Limits : Ingest(quarter, limit)

Spec == Init /\ [][Next]_vars
-----------------------------------------------------------------------------
(***************************************************************************)
(* Properties.                                                             *)
(***************************************************************************)
\* Type invariant.
TypeOK ==
  /\ latest \in 1..Len(SourceReleases) /\ month \in FirstMonth..LastMonth
  /\ DOMAIN ingested \subseteq Quarters /\ DOMAIN generated \subseteq FirstMonth..month

\* What was seen on a route so far, by MrAirspace and by ADSBiq.
Rows ==
  UNION {UNION {Range(SourceReleases[n][q]) : q \in DOMAIN SourceReleases[n]} : n \in 1..latest}
Sightings(route) ==
  {row \in Rows : /\ row.airline \in DOMAIN CarrierOf
                  /\ Resolved(row.from) # {} /\ Resolved(row.to) # {} /\ RouteOf(row) = route}
Listed(route) ==
  {e \in snapshot : [carrier |-> e.carrier, from |-> e.from, to |-> e.to] = route}
QuartersSeen(route) ==
  {QuarterOf(row.month) : row \in Sightings(route)}
    \cup UNION {{QuarterOf(e.first), QuarterOf(e.last)} : e \in Listed(route)}

\* A route of a verified overlay claims no more than was seen of it: however the files
\* overlap and whichever file stood in for another, each flight in the air counts once
\* and none stands alone, the window begins and ends in quarters in which it was seen, a
\* confidence above the lowest rests on two sources or two quarters, and on both when it is
\* the highest, and every number on a callsign of the carrier that was found valid.
ClaimsSeen(r) ==
  /\ 2 <= r.count
  /\ r.count <= Cardinality({row.flight : row \in Sightings(r.route)})
                 + MapThenSumSet(LAMBDA e : e.rows, Listed(r.route))
  /\ {r.first, r.last} \subseteq QuartersSeen(r.route)
  /\ LET twoSources == Cardinality(r.sources) = 2
         twoQuarters == Cardinality(QuartersSeen(r.route)) >= 2
     IN /\ r.confidence # "candidate" => twoSources \/ twoQuarters
        /\ r.confidence = "high" => twoSources /\ twoQuarters
  /\ \A n \in r.numbers : \/ \E e \in Listed(r.route) : n \in e.numbers
                          \/ \E row \in Sightings(r.route) :
                               /\ row.valid
                               /\ row.callsign = [prefix |-> row.airline, number |-> n.number]
ObservationsSound ==
  \A m \in DOMAIN generated : Verifies(generated[m]) => \A r \in generated[m] : ClaimsSeen(r)
=============================================================================
