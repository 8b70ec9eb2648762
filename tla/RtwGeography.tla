---------------------------- MODULE RtwGeography ----------------------------
(***************************************************************************)
(* The rules of a round-the-world product that read the airports of an     *)
(* itinerary and nothing that can be missing (src/lib/rtw/validate.ts):    *)
(* segments, distance, surface sectors, visits, open jaws, oceans,         *)
(* direction, terminals, start and end; the price of its award             *)
(* (src/lib/rtw/award-pricing.ts); and a traveller who builds an itinerary *)
(* leg by leg and group by group. RtwRules holds the rules about stopovers,*)
(* carriers and dates.                                                     *)
(*                                                                         *)
(* An airport is [metro, city, country, lon, area]: `metro` is None outside*)
(* the curated metropolitan areas, `area` the IATA traffic area, None when *)
(* the country has no continent. Distances are table values, in miles.     *)
(***************************************************************************)
EXTENDS Integers, FiniteSets, SequencesExt

CONSTANTS
  Codes,      \* the airport codes legs may use, also unknown ones
  Airports,   \* the airports known
  Miles,      \* miles between known airports, from pair to number
  Cabins,     \* 1..n, in rising order
  Product,    \* the limits and geography of the rule set, None where absent
  Bands,      \* the award chart: a sequence of [min, max, prices]
  MaxLegs,    \* bound of the instance
  MaxGroups,  \* bound of the instance
  Offered,    \* legs that may be added
  Starts,     \* itineraries to begin with: an empty one, and pasted links
  None

VARIABLE groups  \* sequences of legs [from, to, surface, cabin]

vars == <<groups>>

\* flattenLegs
Legs == FlattenSeq(groups)

Known(leg) == {leg.from, leg.to} \subseteq DOMAIN Airports
Resolved == SelectSeq(Legs, Known)
Flown == SelectSeq(Resolved, LAMBDA leg : ~leg.surface)

-----------------------------------------------------------------------------
(***************************************************************************)
(* Cities. The rules that count key a city by its metropolitan area or its *)
(* name, the rule of start and end compares both.                          *)
(***************************************************************************)
CityKey(code) ==
  LET airport == Airports[code]
  IN <<IF airport.metro # None THEN airport.metro ELSE airport.city, airport.country>>

Country(code) == Airports[code].country

SameCity(a, b) ==
  \/ a = b
  \/ Airports[a].metro # None /\ Airports[a].metro = Airports[b].metro
  \/ Airports[a].city # "" /\ Airports[a].city = Airports[b].city /\ Country(a) = Country(b)

\* Cities that occur more than `max` times in a sequence of airport codes.
Repeated(codes, max) ==
  {city \in {CityKey(codes[i]) : i \in DOMAIN codes} :
     Cardinality({i \in DOMAIN codes : CityKey(codes[i]) = city}) > max}

Arrivals == [i \in DOMAIN Resolved |-> Resolved[i].to]

\* cityVisitCounts: where the first leg starts, when known, and every arrival.
Visits ==
  (IF Legs # <<>> /\ Legs[1].from \in DOMAIN Airports THEN <<Legs[1].from>> ELSE <<>>) \o Arrivals

SurfaceEnds ==
  LET surface == SelectSeq(Resolved, LAMBDA leg : leg.surface)
  IN FlattenSeq([i \in DOMAIN surface |-> <<surface[i].from, surface[i].to>>])

-----------------------------------------------------------------------------
(***************************************************************************)
(* Distance and price. A jaw is the gap between consecutive groups; one    *)
(* next to a group without legs is no jaw.                                 *)
(***************************************************************************)
Jaws ==
  LET gap(k) == IF groups[k] # <<>> /\ groups[k + 1] # <<>>
                THEN << [from |-> Last(groups[k]).to, to |-> Head(groups[k + 1]).from] >>
                ELSE <<>>
  IN FlattenSeq([k \in 1 .. Len(groups) - 1 |-> gap(k)])

\* Miles of the pairs whose airports are known.
Distance(pairs) ==
  FoldLeft(LAMBDA sum, pair : sum + Miles[pair.from, pair.to], 0, SelectSeq(pairs, Known))

TotalMiles ==
  Distance(IF Product.surfaceMiles THEN Legs ELSE SelectSeq(Legs, LAMBDA leg : ~leg.surface))
    + IF Product.jawMiles THEN Distance(Jaws) ELSE 0

\* The first band whose limits, both included, contain the distance.
Band(miles) == SelectInSeq(Bands, LAMBDA b : b.min <= miles /\ (b.max = None \/ miles <= b.max))

\* (Fault: the cabin of the last flight prices the trip.)
LastCabin == Max({1} \cup {Legs[i].cabin : i \in {Len(Legs)} \ {k \in DOMAIN Legs : Legs[k].surface}})

HighestCabin == Max({1} \cup {Legs[i].cabin : i \in {k \in DOMAIN Legs : ~Legs[k].surface}})

\* The highest cabin booked prices the trip, once every flight has a cabin.
Price ==
  IF \E i \in DOMAIN Legs : ~Legs[i].surface /\ Legs[i].cabin = None THEN None
  ELSE IF Band(TotalMiles) = 0 THEN None ELSE Bands[Band(TotalMiles)].prices[HighestCabin]

-----------------------------------------------------------------------------
(***************************************************************************)
(* Oceans and direction.                                                   *)
(***************************************************************************)
Region(code) ==
  IF Airports[code].lon <= -30 THEN "americas"
  ELSE IF Airports[code].lon <= 60 THEN "eurafrica" ELSE "asiaPacific"

Between(legs, a, b) == \E i \in DOMAIN legs : {Region(legs[i].from), Region(legs[i].to)} = {a, b}

OceansCrossed(legs) ==
  {ocean \in {"pacific", "atlantic"} :
     Between(legs, "americas", IF ocean = "pacific" THEN "asiaPacific" ELSE "eurafrica")}

\* Longitudes lie between -180 and 180, so that one turn is enough.
ShortestDelta(from, to) ==
  LET delta == to - from
  IN IF delta > 180 THEN delta - 360 ELSE IF delta < -180 THEN delta + 360 ELSE delta

CrossesAreas(leg) ==
  LET from == Airports[leg.from].area to == Airports[leg.to].area
  IN from # None /\ to # None /\ from # to

\* Legs of less than five degrees have no direction.
DirectionOf(legs) ==
  LET delta == [i \in DOMAIN legs |-> ShortestDelta(Airports[legs[i].from].lon, Airports[legs[i].to].lon)]
      east  == \E i \in DOMAIN legs : delta[i] >= 5
      west  == \E i \in DOMAIN legs : delta[i] <= -5
  IN IF east /\ west THEN "mixed" ELSE IF east THEN "eastbound" ELSE IF west THEN "westbound" ELSE "unknown"

Direction ==
  DirectionOf(IF Product.direction = "iata-area-continuous" THEN SelectSeq(Flown, CrossesAreas) ELSE Flown)

-----------------------------------------------------------------------------
(***************************************************************************)
(* The rules.                                                              *)
(***************************************************************************)
Judge(fails) == IF fails THEN "fail" ELSE "pass"
Over(n, max) == max # None /\ n > max

CityKeys == [code \in DOMAIN Airports |-> CityKey(code)]
Countries == [code \in DOMAIN Airports |-> Country(code)]

\* originCityTerminalViolation, originCountryTerminalViolation: what an arrival
\* adds to what is known of the trip, home being where the first leg with known
\* airports starts.
\* (Fault: a trip that has not left yet may be back.)
FollowFault(trip, atHome) ==
  IF atHome THEN [trip EXCEPT !.back = TRUE]
  ELSE [trip EXCEPT !.left = TRUE, !.onward = @ \/ trip.back]

Follow(trip, atHome) ==
  IF atHome THEN [trip EXCEPT !.back = @ \/ trip.left]
  ELSE [trip EXCEPT !.left = TRUE, !.onward = @ \/ trip.back]

TerminalViolation(place) ==
  LET home == place[Head(Resolved).from]
  IN Resolved # <<>>
     /\ FoldLeft(LAMBDA trip, leg : Follow(trip, place[leg.to] = home),
                 [left |-> FALSE, back |-> FALSE, onward |-> FALSE], Resolved).onward

Segments == Cardinality({i \in DOMAIN Legs : ~Legs[i].surface})
Surfaces == Len(Legs) - Segments

DirectionRule ==
  IF Product.direction = "flexible" THEN "pass"
  ELSE IF Direction = "unknown" THEN "unknown"
  ELSE IF Direction = "mixed" /\ Product.direction = "network-required-backtracking" THEN "warning"
  ELSE Judge(Direction = "mixed")

StartEnd ==
  IF Legs = <<>> \/ ~({Head(Legs).from, Last(Legs).to} \subseteq DOMAIN Airports) THEN "unknown"
  ELSE Judge(\/ Product.startEnd = "same-city" /\ ~SameCity(Head(Legs).from, Last(Legs).to)
             \/ Product.startEnd = "same-country" /\ Country(Head(Legs).from) # Country(Last(Legs).to))

Verdicts ==
  LET oceans == OceansCrossed(Flown)
  IN [segments          |-> Judge(Over(Segments, Product.maxFlights) \/ Segments < Product.minFlights),
      maxDistance       |-> Judge(Over(TotalMiles, Product.maxMiles)),
      surfaceSectors    |-> Judge(Over(Surfaces, Product.maxSurfaces)),
      surfaceCities     |-> Judge(Product.maxSurfaces # None /\ Repeated(SurfaceEnds, 1) # {}),
      visitsPerCity     |-> Judge(Product.maxVisits # None /\ Repeated(Visits, Product.maxVisits) # {}),
      openJaws          |-> Judge(Over(Surfaces + Len(Jaws), Product.maxOpenJaws)),
      countryTerminal   |-> Judge(Product.countryTerminal /\ TerminalViolation(Countries)),
      cityTerminal      |-> Judge(Product.cityTerminal /\ TerminalViolation(CityKeys)),
      oceanCrossings    |-> Judge(~(Product.requiredOceans \subseteq oceans)),
      oceanCombination  |-> Judge(Product.rejectsBothOceans /\ Cardinality(oceans) = 2),
      direction         |-> DirectionRule,
      startEnd          |-> StartEnd]

-----------------------------------------------------------------------------
(***************************************************************************)
(* Building an itinerary.                                                  *)
(***************************************************************************)
Init == groups \in Starts

\* addExplorerPair, addSurfacePair: a leg at the end of the active group, which may
\* be any; into a group without legs from anywhere.
AddLeg(g, leg) ==
  /\ Len(Legs) < MaxLegs
  /\ groups[g] # <<>> => leg.from = Last(groups[g]).to
  /\ groups' = [groups EXCEPT ![g] = Append(@, leg)]

\* addGroup
AddGroup == Len(groups) < MaxGroups /\ groups' = Append(groups, <<>>)

Next ==
  \/ \E g \in DOMAIN groups, leg \in Offered : AddLeg(g, leg)
  \/ AddGroup

Spec == Init /\ [][Next]_vars
-----------------------------------------------------------------------------
(***************************************************************************)
(* Properties.                                                             *)
(***************************************************************************)
\* Type invariant.
TypeOK ==
  \A g \in DOMAIN groups : \A i \in DOMAIN groups[g] :
    groups[g][i] \in [from : Codes, to : Codes, surface : BOOLEAN, cabin : Cabins \cup {None}]

\* A terminal rule is violated just when the trip is away, then home, then away
\* again, in this order.
AwayHomeAway(place) ==
  \E i, j, k \in DOMAIN Resolved :
    /\ i < j /\ j < k
    /\ {n \in {i, j, k} : place[Resolved[n].to] = place[Head(Resolved).from]} = {j}

TerminalByDefinition ==
  /\ TerminalViolation(CityKeys) <=> AwayHomeAway(CityKeys)
  /\ TerminalViolation(Countries) <=> AwayHomeAway(Countries)

\* Ignoring the legs inside a traffic area never finds a reversal, or another
\* direction, than looking at all legs does.
AreaRuleIsWeaker ==
  DirectionOf(SelectSeq(Flown, CrossesAreas)) \in {DirectionOf(Flown), "unknown"}
    \/ DirectionOf(Flown) = "mixed"

\* The trip flown backwards goes the other way round and crosses the same oceans:
\* nothing depends on which side of the date line or of a region's edge it starts.
ReversalMirrors ==
  LET backwards == [i \in DOMAIN Flown |->
                      [Flown[Len(Flown) + 1 - i] EXCEPT !.from = Flown[Len(Flown) + 1 - i].to,
                                                        !.to = Flown[Len(Flown) + 1 - i].from]]
      Mirrored(d) == CASE d = "eastbound" -> "westbound" [] d = "westbound" -> "eastbound" [] OTHER -> d
  IN /\ DirectionOf(backwards) = Mirrored(DirectionOf(Flown))
     /\ OceansCrossed(backwards) = OceansCrossed(Flown)

GeographySound == TerminalByDefinition /\ AreaRuleIsWeaker /\ ReversalMirrors

\* A step that adds to the trip behind its first leg.
Grows == Legs # <<>> /\ Head(Legs') = Head(Legs)

\* Rules a trip can meet by going on.
Curable == {"startEnd", "oceanCrossings"}

\* What has failed cannot be mended by flying on, wherever in the trip the leg is
\* added; ocean crossings once made stay made; a trip that has a price does not get
\* cheaper. (A leg added in the middle shortens the jaw behind it by less than it
\* adds, so long as its miles count.)
GrowthKept ==
  Grows => \A before \in {Verdicts}, after \in {Verdicts'} :
    /\ \A rule \in DOMAIN before \ Curable :
         before[rule] = "fail" =>
           \/ after[rule] = "fail"
           \/ rule = "segments" /\ Segments < Product.minFlights
           \/ rule = "maxDistance" /\ Product.jawMiles /\ ~Product.surfaceMiles
    /\ before.oceanCrossings = "pass" => after.oceanCrossings = "pass"
    /\ Price # None /\ Price' # None /\ Len(Legs') > Len(Legs) => Price <= Price'
=============================================================================
