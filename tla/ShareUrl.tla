------------------------------ MODULE ShareUrl ------------------------------
(***************************************************************************)
(* The share link (src/lib/url-schema.ts): encodeShareUrl lays a trip out  *)
(* as parallel columns of cells, parseShareUrl puts it together again, and *)
(* src/App.tsx edits the legs whose fields the columns carry. A reload, a  *)
(* saved routing and a shared link all go through both.                    *)
(*                                                                         *)
(* A column is None (the parameter is absent) or, for each group, a        *)
(* sequence of cells, where None is the empty cell and <<None>> also       *)
(* stands for the empty string. Of the columns that are treated alike one  *)
(* is modelled: fc for fc and man, stp for stp and d, fn for fn and oe.    *)
(***************************************************************************)
EXTENDS Naturals, Sequences, SequencesExt, FiniteSetsExt

CONSTANTS
  Place,      \* a function: the airport that a code names (two codes may name one)
  Cabins,     \* ranked: numbers
  Carriers,
  Numbers,    \* flight numbers
  Fares,      \* fare classes
  Pairs,      \* pairs of codes, of two airports, that can be added as a leg
  Stopovers,  \* what a leg's stopover can be set to, beside None
  References, \* pairs of codes that a published reference is about
  Links,      \* links that come from elsewhere
  None,
  MaxLegs     \* bound: legs in all groups

VARIABLES groups, cabin

vars == <<groups, cabin>>

Codes == DOMAIN Place
Trip(gs, c) == [groups |-> gs, cabin |-> c]

Flight(a, b) ==
  [from |-> a, to |-> b, surface |-> FALSE, stopover |-> None, carrier |-> None,
   number |-> None, cabin |-> None, fare |-> None, assumed |-> FALSE, reference |-> None]

Surface(a, b, stopover) == [Flight(a, b) EXCEPT !.surface = TRUE, !.stopover = stopover]

-----------------------------------------------------------------------------
(***************************************************************************)
(* encodeShareUrl                                                          *)
(***************************************************************************)
\* Groups without legs are left out of every column.
SharedGroups(gs) ==
  LET kept == {g \in DOMAIN gs : gs[g] # << >>}
  IN [n \in 1..Cardinality(kept) |->
        gs[CHOOSE g \in kept : Cardinality({k \in kept : k <= g}) = n]]

Column(gs, Cell(_)) == [g \in DOMAIN gs |-> [i \in DOMAIN gs[g] |-> Cell(gs[g][i])]]

Flag(b) == IF b THEN TRUE ELSE None

\* A parameter that would have empty cells only is left out.
Optional(column) ==
  IF \E g \in DOMAIN column : \E i \in DOMAIN column[g] : column[g][i] # None
  THEN column ELSE None

IsAssumed(leg) == leg.assumed \/ (leg.reference # None /\ leg.carrier # None)

Encode(trip) ==
  LET gs == SharedGroups(trip.groups)
      Cells(Cell(_)) == Optional(Column(gs, Cell))
  IN [chains |-> [g \in DOMAIN gs |->
        IF gs[g] = << >> THEN << >>
        ELSE <<gs[g][1].from>> \o [i \in DOMAIN gs[g] |-> gs[g][i].to]],
      c      |-> trip.cabin,
      op     |-> Column(gs, LAMBDA leg : leg.carrier),
      cab    |-> Column(gs, LAMBDA leg : leg.cabin),
      fc     |-> Cells(LAMBDA leg : leg.fare),
      stp    |-> Cells(LAMBDA leg : leg.stopover),
      surf   |-> Cells(LAMBDA leg : Flag(leg.surface)),
      assume |-> Cells(LAMBDA leg : Flag(IsAssumed(leg))),
      dg     |-> Cells(LAMBDA leg : leg.reference),
      fn     |-> Cells(LAMBDA leg : leg.number)]

-----------------------------------------------------------------------------
(***************************************************************************)
(* parseShareUrl                                                           *)
(***************************************************************************)
Strict == {"op", "dg", "fn"}
Lenient == {"cab", "fc", "stp", "surf", "assume"}

\* Every column has the shape of the path; an empty group of a lenient one
\* stands for as many empty cells as needed.
Fits(link, name) ==
  IF link[name] = None THEN name # "op"
  ELSE
     /\ Len(link[name]) = Len(link.chains)
     /\ \A g \in DOMAIN link.chains :
          Len(link[name][g]) # Len(link.chains[g]) - 1 =>
            name \in Lenient /\ link[name][g] = <<None>>

Cell(link, name, g, i) ==
  IF link[name] = None \/ i > Len(link[name][g]) THEN None ELSE link[name][g][i]

\* A legacy link has no cab: every flight has the one cabin.
LegCabin(link, g, i) == IF link.cab = None THEN link.c ELSE Cell(link, "cab", g, i)

ParsedLeg(link, g, i) ==
  LET At(name) == Cell(link, name, g, i)
      a == link.chains[g][i]
      b == link.chains[g][i + 1]
  IN IF At("surf") = TRUE THEN Surface(a, b, At("stp"))
     ELSE [Flight(a, b) EXCEPT
             !.carrier = At("op"), !.stopover = At("stp"), !.cabin = LegCabin(link, g, i),
             !.reference = At("dg"), !.number = At("fn"),
             !.fare = IF At("op") = None THEN None ELSE At("fc"),
             !.assumed = At("assume") = TRUE \/ (At("dg") # None /\ At("op") # None)]

\* A sector overland has nothing of a flight, a leg that only refers to a
\* timetable nothing of a carrier, every other leg has its carrier.
Readable(link, g, i) ==
  LET At(name) == Cell(link, name, g, i)
      bare == At("fn") = None /\ At("assume") # TRUE
  IN /\ At("dg") # None => At("dg") = <<link.chains[g][i], link.chains[g][i + 1]>>
     /\ IF At("surf") = TRUE THEN bare /\ At("dg") = None
        ELSE IF At("op") = None THEN bare /\ At("dg") # None
        ELSE TRUE

Parses(link) ==
  /\ link.chains # << >> /\ \A g \in DOMAIN link.chains : Len(link.chains[g]) >= 2
  /\ \A name \in Strict \cup Lenient : Fits(link, name)
  /\ \A g \in DOMAIN link.chains : \A i \in 1..Len(link.chains[g]) - 1 : Readable(link, g, i)

Parse(link) ==
  Trip([g \in DOMAIN link.chains |->
          [i \in 1..Len(link.chains[g]) - 1 |-> ParsedLeg(link, g, i)]], link.c)

Maybe(S) == S \cup {None}

\* What the schemas of url-schema.ts admit in the cells of a link.
CellsAdmitted(link) ==
  \A g \in DOMAIN link.chains : \A i \in 1..Len(link.chains[g]) - 1 :
    /\ Cell(link, "op", g, i) \in Maybe(Carriers)
    /\ Cell(link, "fn", g, i) \in Maybe(Numbers)
    /\ Cell(link, "cab", g, i) \in Maybe(Cabins)
    /\ Cell(link, "fc", g, i) \in Maybe(Fares)
    /\ Cell(link, "stp", g, i) \in Maybe(BOOLEAN)
    /\ Cell(link, "dg", g, i) \in Maybe(References)

\* The empty cell is no column of cells.
Apart(S) == None \notin Seq(Seq(Maybe(S)))
ColumnsApart ==
  /\ Apart(Carriers) /\ Apart(Numbers) /\ Apart(Cabins) /\ Apart(Fares)
  /\ Apart(BOOLEAN) /\ Apart(References)

\* What the proofs assume of the constants.
ShareAssumption ==
  /\ None \notin Carriers /\ None \notin BOOLEAN /\ None \notin References
  /\ ColumnsApart
  /\ Pairs \subseteq Codes \X Codes /\ References \subseteq Codes \X Codes
  /\ "number" \in Numbers /\ "J" \in Fares /\ Stopovers \subseteq BOOLEAN
  /\ \E most \in Cabins : most \in Nat /\ Cabins \subseteq 1..most
  /\ \A link \in Links : Parses(link) =>
       /\ link.chains \in Seq(Seq(Codes)) /\ link.c \in Cabins /\ CellsAdmitted(link)

-----------------------------------------------------------------------------
(***************************************************************************)
(* The edits of App.tsx, on any group and leg.                             *)
(***************************************************************************)
SumLegs == FoldSeq(LAMBDA g, n : Len(g) + n, 0, groups)

Init == groups = << << >> >> /\ cabin = Max(Cabins)

Attaches(g, a, b) ==
  /\ SumLegs < MaxLegs
  /\ groups[g] # << >> => Place[Last(groups[g]).to] = Place[a]

\* addAirport and addExplorerPair, which may bring the details of a chosen flight.
AddFlight(g, a, b) ==
  /\ Attaches(g, a, b)
  /\ \E x \in Carriers, n \in {None, "number"}, c \in Cabins \cup {None}, u \in BOOLEAN :
       groups' = [groups EXCEPT ![g] = Append(@,
         [Flight(a, b) EXCEPT !.carrier = x, !.number = n, !.cabin = c, !.assumed = u])]
  /\ UNCHANGED cabin

AddSurface(g, a, b) ==
  /\ Attaches(g, a, b)
  /\ \E s \in Stopovers \cup {None} : groups' = [groups EXCEPT ![g] = Append(@, Surface(a, b, s))]
  /\ UNCHANGED cabin

\* onPlanDgcaReference: a leg known from a published timetable only.
PlanReference(r) ==
  /\ groups' = << << [Flight(r[1], r[2]) EXCEPT !.reference = r] >> >>
  /\ UNCHANGED cabin

Changed(g, i, leg) == groups' = [groups EXCEPT ![g][i] = leg] /\ UNCHANGED cabin

\* (Fault: the flight number of the carrier that was cleared stays.)
WithoutCarrierNumbered(leg) == [leg EXCEPT !.carrier = None, !.assumed = FALSE]
WithoutCarrier(leg) == [leg EXCEPT !.carrier = None, !.assumed = FALSE, !.number = None]

\* Only a reference leg is offered to have no carrier.
ChangeCarrier(g, i, x) ==
  LET leg == groups[g][i] IN
  /\ ~leg.surface /\ leg.carrier # x /\ (x = None => leg.reference # None)
  /\ Changed(g, i, IF x = None THEN WithoutCarrier(leg)
                   ELSE [leg EXCEPT !.carrier = x, !.number = None,
                                    !.assumed = @ \/ leg.reference # None])

ChangeFareClass(g, i, f) ==
  ~groups[g][i].surface /\ Changed(g, i, [groups[g][i] EXCEPT !.fare = f])

ChangeStopover(g, i, s) == Changed(g, i, [groups[g][i] EXCEPT !.stopover = s])

\* The itinerary's cabin is the highest of its legs.
ChangeCabin(g, i, c) ==
  LET legs == [groups EXCEPT ![g][i].cabin = c]
      chosen == {leg.cabin : leg \in UNION {ToSet(legs[h]) : h \in DOMAIN legs}} \ {None}
  IN /\ ~groups[g][i].surface
     /\ groups' = legs
     /\ cabin' = IF chosen = {} THEN cabin ELSE Max(chosen)

ChangeSurface(g, i) ==
  LET leg == groups[g][i]
  IN IF leg.surface
     THEN \E x \in Carriers : Changed(g, i,
            [Flight(leg.from, leg.to) EXCEPT !.carrier = x, !.stopover = leg.stopover])
     ELSE Changed(g, i, Surface(leg.from, leg.to, leg.stopover))

SelectExistingFlight(g, i, x) ==
  /\ ~groups[g][i].surface
  /\ Changed(g, i, [groups[g][i] EXCEPT !.carrier = x, !.number = "number", !.assumed = FALSE])

AddGroup ==
  /\ Len(groups) < 2
  /\ groups' = Append(groups, << >>)
  /\ UNCHANGED cabin

RemoveGroup(g) ==
  /\ Len(groups) > 1
  /\ groups' = RemoveAt(groups, g)
  /\ UNCHANGED cabin

\* loadSaved, and a link that is opened: one that does not parse loads nothing.
TripsOfLinks == {Parse(link) : link \in {l \in Links : Parses(l)}}
Open(trip) == groups' = trip.groups /\ cabin' = trip.cabin

EditLeg(g, i) ==
  \/ \E x \in Carriers \cup {None} : ChangeCarrier(g, i, x)
  \/ \E f \in {None, "J"} : ChangeFareClass(g, i, f)
  \/ \E s \in Stopovers \cup {None} : ChangeStopover(g, i, s)
  \/ \E c \in Cabins \cup {None} : ChangeCabin(g, i, c)
  \/ ChangeSurface(g, i)
  \/ \E x \in Carriers : SelectExistingFlight(g, i, x)

Next ==
  \/ \E g \in DOMAIN groups, p \in Pairs : AddFlight(g, p[1], p[2]) \/ AddSurface(g, p[1], p[2])
  \/ \E r \in References : PlanReference(r)
  \/ \E g \in DOMAIN groups : RemoveGroup(g) \/ \E i \in DOMAIN groups[g] : EditLeg(g, i)
  \/ AddGroup
  \/ \E trip \in TripsOfLinks : Open(trip)

Spec == Init /\ [][Next]_vars
-----------------------------------------------------------------------------
(***************************************************************************)
(* Properties.                                                             *)
(***************************************************************************)
\* Type invariant.
TypeOK ==
  /\ cabin \in Cabins
  /\ \A g \in DOMAIN groups : \A i \in DOMAIN groups[g] :
       LET leg == groups[g][i] IN
       /\ {leg.from, leg.to} \subseteq Codes /\ {leg.surface, leg.assumed} \subseteq BOOLEAN
       /\ leg.stopover \in BOOLEAN \cup {None} /\ leg.carrier \in Carriers \cup {None}
       /\ leg.cabin \in Cabins \cup {None} /\ leg.reference \in References \cup {None}

\* What a link can tell of a leg: its origin under the code the leg before it
\* arrived at, no fare class where no carrier is known, and a carrier given to
\* a reference is assumed.
Told(legs, i) ==
  [legs[i] EXCEPT !.from = IF i = 1 THEN @ ELSE legs[i - 1].to,
                  !.fare = IF legs[i].carrier = None THEN None ELSE @,
                  !.assumed = IsAssumed(legs[i])]

\* Whatever sequence of edits made the trip, its link opens and tells every
\* leg, with the same airports: no field lands in the cell of another leg, and
\* no edit leaves a leg that parseShareUrl refuses (a reload would lose the
\* whole trip).
RoundTrip ==
  LET shared == SharedGroups(groups)
      link == Encode(Trip(groups, cabin))
  IN (\E g \in DOMAIN groups : groups[g] # << >>) =>
       /\ Parses(link)
       /\ Parse(link) = Trip([g \in DOMAIN shared |->
            [i \in DOMAIN shared[g] |-> Told(shared[g], i)]], cabin)
       /\ \A g \in DOMAIN shared : \A i \in DOMAIN shared[g] :
            Place[Told(shared[g], i).from] = Place[shared[g][i].from]
=============================================================================
