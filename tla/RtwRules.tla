------------------------------ MODULE RtwRules ------------------------------
(***************************************************************************)
(* The rules of a round-the-world product over an itinerary that is still  *)
(* being planned (src/lib/rtw/validate.ts): which legs are stopovers, who  *)
(* operates them and when they depart may be missing, and is filled in by  *)
(* the handlers of src/App.tsx. A rule answers pass, fail or unknown; one  *)
(* the product does not have counts as passed.                             *)
(*                                                                         *)
(* An airport is [city, country]. The rules that read the airports and     *)
(* nothing that can be missing (segments, distance, oceans, direction,     *)
(* terminals, start and end, surface sectors), the wording and the review  *)
(* warnings are left out.                                                  *)
(***************************************************************************)
EXTENDS Integers, FiniteSets, Sequences

CONSTANTS
  Itineraries,  \* the sequences of legs planning starts from
  Airports,     \* the airports known: code -> [city, country]
  Product,      \* the rule set: its limits, None where absent
  Members,      \* carriers eligible for the product
  Carriers,     \* carriers a leg may be given
  Dates,        \* departure dates
  Days,         \* trip lengths in days
  None

VARIABLES
  legs,  \* [from, to, surface, stopover, carrier, assumed, reference, departsOn]
  days   \* length of the trip, None until both trip dates are set

vars == <<legs, days>>

Codes ==
  UNION {UNION {{trip[i].from, trip[i].to} : i \in DOMAIN trip} : trip \in Itineraries}

Sector == [from : Codes, to : Codes, surface : BOOLEAN,
           stopover : {"unknown", "stopover", "transfer"}, carrier : Carriers \cup {None},
           assumed : BOOLEAN, reference : BOOLEAN, departsOn : Dates \cup {None}]

\* Only a sector overland and a leg planned from a source reference lack an operator.
Operated(itinerary) ==
  \A i \in DOMAIN itinerary :
    ~itinerary[i].surface /\ itinerary[i].carrier = None => itinerary[i].reference

\* A limit is a number or absent (schemas/rtw-rule.ts), and flying the trigger carrier
\* never lowers the number of carriers asked for (public/data/rtw-products).
RulesAssumption ==
  /\ None \notin Carriers
  /\ \A limit \in {Product.maxStopovers, Product.maxTransfers, Product.maxStopoversPerCity,
                   Product.maxStopoversPerCountry, Product.maxTransfersPerCity} :
       limit \in Int \cup {None}
  /\ Product.trigger # None => /\ Product.minWithTrigger \in Int
                               /\ Product.minWithoutTrigger \in Int
                               /\ Product.minWithoutTrigger <= Product.minWithTrigger
  /\ \A itinerary \in Itineraries : itinerary \in Seq(Sector) /\ Operated(itinerary)

-----------------------------------------------------------------------------
(***************************************************************************)
(* What the rules count.                                                   *)
(***************************************************************************)
Largest(S) == IF S = {} THEN 0 ELSE CHOOSE n \in S : \A k \in S : k <= n

Over(n, max) == max # None /\ n > max
Under(n, min) == min # None /\ n < min

Flights == {i \in DOMAIN legs : ~legs[i].surface}
Surfaces == DOMAIN legs \ Flights
Stops == {i \in Flights : legs[i].stopover = "stopover"}
Transfers == {i \in Flights : legs[i].stopover = "transfer"}
Unmarked == {i \in Flights : legs[i].stopover = "unknown"}

StopoverCount ==
  Cardinality(Stops) + IF Product.surfaceCountsAsStopover THEN Cardinality(Surfaces) ELSE 0

Known(i) == {legs[i].from, legs[i].to} \subseteq DOMAIN Airports
Resolved == {i \in DOMAIN legs : Known(i)}

Attributed == {i \in Flights : legs[i].carrier # None}
Assumed == {i \in Attributed : legs[i].assumed \/ legs[i].reference}
Unattributed == {i \in Flights : legs[i].reference /\ legs[i].carrier = None}
Ineligible == {i \in Attributed \ Assumed : legs[i].carrier \notin Members}
CarriersOf(S) == {legs[i].carrier : i \in S}

City == [code \in DOMAIN Airports |-> <<Airports[code].city, Airports[code].country>>]
Country == [code \in DOMAIN Airports |-> Airports[code].country]

\* Marked arrivals of a city or a country; a surface leg's mark counts too.
StopsIn(place) ==
  LET marked == {i \in Resolved : legs[i].stopover = "stopover"}
  IN Largest({Cardinality({k \in marked : place[legs[k].to] = place[legs[i].to]}) : i \in marked})

\* Arrivals in a row that are not marked as stopovers, and all in one city: the
\* largest visit, over all cities.
LargestTransferVisit ==
  LET resolved == Resolved
      transits == {i \in resolved : legs[i].stopover # "stopover"}
      row(i, j) == {k \in resolved : i <= k /\ k <= j}
      visit(i, j) == \A k \in row(i, j) : k \in transits /\ City[legs[k].to] = City[legs[i].to]
  IN Largest({Cardinality(row(p[1], p[2])) :
                p \in {q \in transits \X transits : q[1] <= q[2] /\ visit(q[1], q[2])}})

-----------------------------------------------------------------------------
(***************************************************************************)
(* The rules.                                                              *)
(***************************************************************************)
Judge(fails, unknown) == IF fails THEN "fail" ELSE IF unknown THEN "unknown" ELSE "pass"

TooFewStopovers == Under(StopoverCount, Product.minStopovers) /\ Unmarked = {}

Stopovers ==
  Judge(TooFewStopovers \/ Over(StopoverCount, Product.maxStopovers),
        Unmarked # {} /\ {Product.minStopovers, Product.maxStopovers} # {None})

TransferRule ==
  Judge(Over(Cardinality(Transfers), Product.maxTransfers),
        Unmarked # {} /\ Product.maxTransfers # None)

Eligibility == Judge(Ineligible # {}, Assumed \cup Unattributed # {})

TravelWindow ==
  IF Product.travelUntil = None THEN "pass"
  ELSE Judge(\E i \in Flights : legs[i].departsOn # None /\ legs[i].departsOn > Product.travelUntil,
             \E i \in Flights : legs[i].departsOn = None)

Chronology ==
  Judge(\E i \in Flights : /\ i + 1 \in Flights
                           /\ None \notin {legs[i].departsOn, legs[i + 1].departsOn}
                           /\ legs[i + 1].departsOn < legs[i].departsOn, FALSE)

Duration ==
  IF {Product.minDays, Product.maxDays} = {None} THEN "pass"
  ELSE IF days = None THEN "unknown"
  ELSE Judge(Under(days, Product.minDays) \/ Over(days, Product.maxDays), FALSE)

CarrierCombination ==
  IF Product.trigger = None THEN "pass"
  ELSE LET confirmed == CarriersOf(Attributed \ Assumed)
           flown == CarriersOf(Attributed)
           known == Product.trigger \in confirmed
           required == IF known THEN Product.minWithTrigger ELSE Product.minWithoutTrigger
           most == IF known \/ Assumed # {} THEN Product.minWithTrigger ELSE required
       IN IF Cardinality(confirmed) >= most THEN "pass"
          ELSE IF Cardinality(flown) >= required /\ Assumed # {} THEN "unknown" ELSE "fail"

OriginCountryStopover ==
  IF ~Product.forbidsOriginStopovers THEN "pass"
  ELSE IF legs[1].from \notin DOMAIN Airports THEN "unknown"
  ELSE Judge(\E i \in Resolved : /\ legs[i].stopover = "stopover"
                                 /\ Country[legs[i].to] = Country[legs[1].from], FALSE)

Verdicts ==
  [eligibility         |-> Eligibility,
   travelWindow        |-> TravelWindow,
   chronology          |-> Chronology,
   duration            |-> Duration,
   stopovers           |-> Stopovers,
   transfers           |-> TransferRule,
   stopoversPerCity    |-> Judge(Over(StopsIn(City), Product.maxStopoversPerCity), FALSE),
   stopoversPerCountry |-> Judge(Over(StopsIn(Country), Product.maxStopoversPerCountry), FALSE),
   transfersPerCity    |-> Judge(Over(LargestTransferVisit, Product.maxTransfersPerCity), FALSE),
   originStopover      |-> OriginCountryStopover,
   combination         |-> CarrierCombination]

-----------------------------------------------------------------------------
(***************************************************************************)
(* Planning.                                                               *)
(***************************************************************************)
Init ==
  /\ legs \in Itineraries
  /\ days = None

Change(i, leg) == legs' = [legs EXCEPT ![i] = leg] /\ UNCHANGED days

\* changeStopover
ChangeStopover(i, s) == Change(i, [legs[i] EXCEPT !.stopover = s])

\* changeCarrier. The operator of a leg planned from a source reference stays assumed,
\* and choosing one leaves an assumption made earlier as it is.
ChangeCarrier(i, c) ==
  /\ i \in Flights /\ c # legs[i].carrier
  /\ c = None => legs[i].reference
  /\ Change(i, [legs[i] EXCEPT !.carrier = c,
                               !.assumed = IF c = None THEN FALSE ELSE @ \/ legs[i].reference])

\* selectExistingFlight: a flight of an eligible carrier, on a date.
SelectExistingFlight(i, c, d) ==
  /\ i \in Attributed /\ c \in Members
  /\ Change(i, [legs[i] EXCEPT !.carrier = c, !.assumed = FALSE, !.departsOn = d])

\* changeLegDate
ChangeLegDate(i, d) ==
  /\ i \in Flights
  /\ Change(i, [legs[i] EXCEPT !.departsOn = d])

\* changeTripDates
ChangeTripDates(d) == days' = d /\ UNCHANGED legs

Next ==
  \/ \E i \in DOMAIN legs, s \in {"unknown", "stopover", "transfer"} : ChangeStopover(i, s)
  \/ \E i \in DOMAIN legs, c \in Carriers \cup {None} : ChangeCarrier(i, c)
  \/ \E i \in DOMAIN legs, c \in Carriers, d \in Dates : SelectExistingFlight(i, c, d)
  \/ \E i \in DOMAIN legs, d \in Dates \cup {None} : ChangeLegDate(i, d)
  \/ \E d \in Days \cup {None} : ChangeTripDates(d)

Spec == Init /\ [][Next]_vars
-----------------------------------------------------------------------------
(***************************************************************************)
(* Properties.                                                             *)
(***************************************************************************)
\* Type invariant.
TypeOK ==
  /\ \A i \in DOMAIN legs :
       /\ legs[i].stopover \in {"unknown", "stopover", "transfer"}
       /\ legs[i].carrier \in Carriers \cup {None}
       /\ legs[i].departsOn \in Dates \cup {None}
       /\ {legs[i].surface, legs[i].assumed, legs[i].reference} \subseteq BOOLEAN
  /\ days \in Days \cup {None}

\* A step that only fills in what was missing: marks, dates, trip dates, and the
\* operator of a leg whose operator was assumed or unknown.
FillsIn ==
  /\ vars' # vars
  /\ days \in {None, days'}
  /\ \A i \in DOMAIN legs :
       /\ legs[i].stopover \in {"unknown", legs[i].stopover'}
       /\ legs[i].departsOn \in {None, legs[i].departsOn'}
       /\ i \in Attributed \ Assumed => legs[i].carrier' = legs[i].carrier

\* Rules that count what may still change as settled in its favour: they may fail later.
Optimistic == {"chronology", "stopoversPerCity", "stopoversPerCountry", "originStopover"}

\* Rules that count it against the itinerary: they may pass later. Carriers that were
\* assumed to be one may turn out to be two.
Pessimistic == {"transfersPerCity", "combination"}

\* A verdict is not taken back when the traveller supplies what was missing: a rule
\* that passed still passes and one that failed still fails, but for the rules above,
\* which stand in one direction only. `unknown` is what the code has to answer while
\* the verdict depends on what is missing, a surplus of stopovers being final and a
\* lack of them not. (A leg without an operator is not counted as one that may bring
\* the trigger carrier: its combination may become unknown again, but not fail.)
VerdictsKept ==
  FillsIn => \A before \in {Verdicts}, after \in {Verdicts'} :
    \A rule \in DOMAIN before :
      /\ before[rule] = "pass" /\ rule \notin Optimistic =>
           \/ after[rule] = "pass"
           \/ rule = "combination" /\ Unattributed # {} /\ after[rule] = "unknown"
      /\ before[rule] = "fail" /\ rule \notin Pessimistic => after[rule] = "fail"

VerdictsStand == [][VerdictsKept]_vars
=============================================================================
