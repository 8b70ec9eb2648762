-------------------------- MODULE ItineraryProofs --------------------------
(***************************************************************************)
(* What is proved of the planner's page around the editor and of the pages *)
(* of the route library, for any airports, carriers, products, evidence    *)
(* and files, and for trips of any length.                                 *)
(* Each part is proved by itself, from its own specification; the last     *)
(* section puts them together.                                             *)
(***************************************************************************)
EXTENDS ItineraryParts, SequenceLemmas, WellFoundedInduction

-----------------------------------------------------------------------------
(***************************************************************************)
(* Share links.                                                            *)
(***************************************************************************)
Stops == Share!Maybe(BOOLEAN)

\* A leg, as the editor keeps it.
TripLegs ==
  [from : Share!Codes, to : Share!Codes, surface : BOOLEAN, stopover : Stops,
   carrier : Share!Maybe(Airlines), number : Share!Maybe(SharedNumbers), cabin : Share!Maybe(Cabins),
   fare : Share!Maybe(SharedFares), assumed : BOOLEAN, reference : Share!Maybe(SharedReferences)]

\* A sector overland has nothing of a flight, a leg without a carrier is a reference
\* to a timetable and has nothing of a carrier's flight.
Plain(leg) ==
  /\ leg.reference # None => leg.reference = <<leg.from, leg.to>>
  /\ leg.surface => /\ leg.carrier = None /\ leg.number = None /\ leg.cabin = None
                    /\ leg.fare = None /\ leg.reference = None /\ ~leg.assumed
  /\ ~leg.surface /\ leg.carrier = None =>
       leg.reference # None /\ leg.number = None /\ ~leg.assumed

\* A leg begins where the leg before it ends, a reference under the same code.
Continues(before, leg) ==
  /\ Place[before.to] = Place[leg.from]
  /\ leg.reference # None => leg.from = before.to

Tellable(sectors) ==
  /\ \A i \in DOMAIN sectors : Plain(sectors[i])
  /\ \A i \in DOMAIN sectors : i > 1 => Continues(sectors[i - 1], sectors[i])

Editable(gs) == gs \in Seq(Seq(TripLegs)) /\ \A g \in DOMAIN gs : Tellable(gs[g])

ShareInv == Editable(shared) /\ cabin \in Cabins

-----------------------------------------------------------------------------
(***************************************************************************)
(* What a column says of a leg.                                            *)
(***************************************************************************)
\* What a column says of a leg: Cell, of one column.
In(column, g, i) == IF column = None \/ i > Len(column[g]) THEN None ELSE column[g][i]

\* A parameter that is left out had no cells but empty ones.
LEMMA OptionalTells ==
  ASSUME NEW V, None \notin Seq(Seq(V)), NEW column \in Seq(Seq(V)), NEW g \in DOMAIN column, NEW i \in DOMAIN column[g]
  PROVE  In(Share!Optional(column), g, i) = column[g][i]
<1>1. column # None /\ column[g] \in Seq(V) /\ i \in 1..Len(column[g])
  OBVIOUS
<1>2. CASE Share!Optional(column) = column
  BY <1>1, <1>2 DEF In
<1>3. CASE Share!Optional(column) # column
  BY <1>1, <1>3 DEF In, Share!Optional
<1> QED BY <1>2, <1>3

\* The columns of the legs of gs, as a link keeps them.
Columns(gs) ==
  [op     |-> [g \in DOMAIN gs |-> [i \in DOMAIN gs[g] |-> gs[g][i].carrier]],
   cab    |-> [g \in DOMAIN gs |-> [i \in DOMAIN gs[g] |-> gs[g][i].cabin]],
   fc     |-> [g \in DOMAIN gs |-> [i \in DOMAIN gs[g] |-> gs[g][i].fare]],
   stp    |-> [g \in DOMAIN gs |-> [i \in DOMAIN gs[g] |-> gs[g][i].stopover]],
   surf   |-> [g \in DOMAIN gs |-> [i \in DOMAIN gs[g] |-> Share!Flag(gs[g][i].surface)]],
   assume |-> [g \in DOMAIN gs |-> [i \in DOMAIN gs[g] |-> Share!Flag(Share!IsAssumed(gs[g][i]))]],
   dg     |-> [g \in DOMAIN gs |-> [i \in DOMAIN gs[g] |-> gs[g][i].reference]],
   fn     |-> [g \in DOMAIN gs |-> [i \in DOMAIN gs[g] |-> gs[g][i].number]]]

Chains(gs) ==
  [g \in DOMAIN gs |-> <<gs[g][1].from>> \o [i \in DOMAIN gs[g] |-> gs[g][i].to]]

\* The link of a trip without empty groups.
LEMMA EncodeColumns ==
  ASSUME NEW trip, NEW gs, gs = Share!SharedGroups(trip.groups), \A g \in DOMAIN gs : gs[g] # << >>
  PROVE  LET link == Share!Encode(trip) IN
         /\ link.chains = Chains(gs) /\ link.c = trip.cabin
         /\ link.op = Columns(gs).op /\ link.cab = Columns(gs).cab
         /\ link.fc = Share!Optional(Columns(gs).fc)
         /\ link.stp = Share!Optional(Columns(gs).stp)
         /\ link.surf = Share!Optional(Columns(gs).surf)
         /\ link.assume = Share!Optional(Columns(gs).assume)
         /\ link.dg = Share!Optional(Columns(gs).dg)
         /\ link.fn = Share!Optional(Columns(gs).fn)
<1> DEFINE link == Share!Encode(trip)
<1>1. link.chains = Chains(gs)
  BY DEF Share!Encode, Chains
<1>2. link.c = trip.cabin
  BY DEF Share!Encode
<1>3. link.op = Columns(gs).op /\ link.cab = Columns(gs).cab
  BY DEF Share!Encode, Columns, Share!Column
<1>4. /\ link.fc = Share!Optional(Columns(gs).fc)
      /\ link.stp = Share!Optional(Columns(gs).stp)
  BY DEF Share!Encode, Columns, Share!Column
<1>5. /\ link.surf = Share!Optional(Columns(gs).surf)
      /\ link.assume = Share!Optional(Columns(gs).assume)
  BY DEF Share!Encode, Columns, Share!Column
<1>6. /\ link.dg = Share!Optional(Columns(gs).dg)
      /\ link.fn = Share!Optional(Columns(gs).fn)
  BY DEF Share!Encode, Columns, Share!Column
<1> QED BY <1>1, <1>2, <1>3, <1>4, <1>5, <1>6

LEMMA LegFields ==
  ASSUME NEW leg \in TripLegs
  PROVE  /\ leg.from \in Share!Codes /\ leg.to \in Share!Codes
         /\ leg.surface \in BOOLEAN /\ leg.assumed \in BOOLEAN
         /\ leg.stopover \in Stops /\ leg.carrier \in Share!Maybe(Airlines)
         /\ leg.number \in Share!Maybe(SharedNumbers) /\ leg.cabin \in Share!Maybe(Cabins)
         /\ leg.fare \in Share!Maybe(SharedFares) /\ leg.reference \in Share!Maybe(SharedReferences)
         /\ leg = [from |-> leg.from, to |-> leg.to, surface |-> leg.surface,
                   stopover |-> leg.stopover, carrier |-> leg.carrier, number |-> leg.number,
                   cabin |-> leg.cabin, fare |-> leg.fare, assumed |-> leg.assumed,
                   reference |-> leg.reference]
BY DEF TripLegs

LEMMA GroupFields ==
  ASSUME NEW gs \in Seq(Seq(TripLegs)), NEW g \in DOMAIN gs
  PROVE  /\ gs[g] \in Seq(TripLegs) /\ Len(gs[g]) \in Nat /\ DOMAIN gs[g] = 1..Len(gs[g])
         /\ Len(gs) \in Nat /\ DOMAIN gs = 1..Len(gs)
         /\ \A i \in DOMAIN gs[g] : gs[g][i] \in TripLegs
OBVIOUS

LEMMA OneThen ==
  ASSUME NEW S, NEW a \in S, NEW s \in Seq(S)
  PROVE  /\ <<a>> \o s \in Seq(S) /\ Len(<<a>> \o s) = Len(s) + 1
         /\ (<<a>> \o s)[1] = a /\ \A i \in 1..Len(s) : (<<a>> \o s)[i + 1] = s[i]
<1>1. <<a>> \in Seq(S) /\ Len(<<a>>) = 1 /\ <<a>>[1] = a /\ Len(s) \in Nat
  OBVIOUS
<1>2. <<a>> \o s \in Seq(S) /\ Len(<<a>> \o s) = Len(s) + 1 /\ (<<a>> \o s)[1] = a
  BY <1>1
<1>3. ASSUME NEW i \in 1..Len(s) PROVE (<<a>> \o s)[i + 1] = s[i]
  <2>1. (<<a>> \o s)[i + 1] = s[(i + 1) - Len(<<a>>)]
    BY <1>1
  <2> QED BY <1>1, <2>1
<1> QED BY <1>2, <1>3

LEMMA ChainTells ==
  ASSUME NEW gs \in Seq(Seq(TripLegs)), NEW g \in DOMAIN gs, gs[g] # << >>
  PROVE  /\ Chains(gs)[g] \in Seq(Share!Codes) /\ Len(Chains(gs)[g]) = Len(gs[g]) + 1
         /\ Chains(gs)[g][1] = gs[g][1].from
         /\ \A i \in DOMAIN gs[g] : Chains(gs)[g][i + 1] = gs[g][i].to
<1> DEFINE start == gs[g][1].from
           ends == [i \in DOMAIN gs[g] |-> gs[g][i].to]
<1>1. \A i \in DOMAIN gs[g] : gs[g][i].from \in Share!Codes /\ gs[g][i].to \in Share!Codes
  BY GroupFields, LegFields
<1>2. 1 \in DOMAIN gs[g] /\ Len(gs[g]) \in Nat /\ DOMAIN gs[g] = 1..Len(gs[g])
  BY GroupFields
<1>3. start \in Share!Codes
  BY <1>1, <1>2
<1>4. ends \in Seq(Share!Codes) /\ Len(ends) = Len(gs[g]) /\ \A i \in DOMAIN gs[g] : ends[i] = gs[g][i].to
  <2>1. ends \in [1..Len(gs[g]) -> Share!Codes]
    BY <1>1, <1>2
  <2> QED BY <1>2, <2>1, FunctionIsSeq
<1>5. Chains(gs)[g] = <<start>> \o ends
  BY DEF Chains
<1> HIDE DEF start, ends
<1>6. /\ <<start>> \o ends \in Seq(Share!Codes) /\ Len(<<start>> \o ends) = Len(ends) + 1
      /\ (<<start>> \o ends)[1] = start
      /\ \A i \in 1..Len(ends) : (<<start>> \o ends)[i + 1] = ends[i]
  BY <1>3, <1>4, OneThen
<1> QED BY <1>2, <1>4, <1>5, <1>6 DEF start

\* The airports of a link.
LEMMA ChainsTell ==
  ASSUME NEW gs \in Seq(Seq(TripLegs)), \A g \in DOMAIN gs : gs[g] # << >>
  PROVE  Chains(gs) \in Seq(Seq(Share!Codes)) /\ Len(Chains(gs)) = Len(gs) /\ DOMAIN Chains(gs) = DOMAIN gs
<1>1. Chains(gs) \in [1..Len(gs) -> Seq(Share!Codes)] /\ Len(gs) \in Nat /\ DOMAIN gs = 1..Len(gs)
  <2>1. \A g \in DOMAIN gs : Chains(gs)[g] \in Seq(Share!Codes)
    BY ChainTells
  <2> QED BY <2>1 DEF Chains
<1> QED BY <1>1, FunctionIsSeq

LEMMA ColumnIsSeq ==
  ASSUME NEW T, NEW V, NEW gs \in Seq(Seq(T)), NEW column, DOMAIN column = DOMAIN gs,
         \A g \in DOMAIN gs : column[g] \in [DOMAIN gs[g] -> V],
         column = [g \in DOMAIN gs |-> column[g]]
  PROVE  /\ column \in Seq(Seq(V)) /\ Len(column) = Len(gs)
         /\ \A g \in DOMAIN gs : Len(column[g]) = Len(gs[g]) /\ DOMAIN column[g] = DOMAIN gs[g]
<1>1. ASSUME NEW g \in DOMAIN gs
      PROVE  column[g] \in Seq(V) /\ Len(column[g]) = Len(gs[g]) /\ DOMAIN column[g] = DOMAIN gs[g]
  <2>1. Len(gs[g]) \in Nat /\ DOMAIN gs[g] = 1..Len(gs[g])
    OBVIOUS
  <2>2. column[g] \in [1..Len(gs[g]) -> V]
    BY <2>1
  <2> QED BY <2>1, <2>2, FunctionIsSeq
<1>2. Len(gs) \in Nat /\ column \in [1..Len(gs) -> Seq(V)]
  BY <1>1
<1> QED BY <1>1, <1>2, FunctionIsSeq

\* Every column has the cells of the legs.
LEMMA ColumnsAreSeqs ==
  ASSUME Share!ColumnsApart,
         NEW gs \in Seq(Seq(TripLegs)), NEW name \in Share!Strict \cup Share!Lenient
  PROVE  \E V : /\ None \notin Seq(Seq(V))
                /\ Columns(gs)[name] \in Seq(Seq(V)) /\ Len(Columns(gs)[name]) = Len(gs)
                /\ \A g \in DOMAIN gs : /\ Len(Columns(gs)[name][g]) = Len(gs[g])
                                        /\ DOMAIN Columns(gs)[name][g] = DOMAIN gs[g]
<1> DEFINE column == Columns(gs)[name]
           Within(V) == \A g \in DOMAIN gs : \A i \in DOMAIN gs[g] : column[g][i] \in V
<1>1. /\ DOMAIN column = DOMAIN gs /\ column = [g \in DOMAIN gs |-> column[g]]
      /\ \A g \in DOMAIN gs : column[g] = [i \in DOMAIN gs[g] |-> column[g][i]]
  <2>1. CASE name = "op" BY <2>1 DEF Columns
  <2>2. CASE name = "cab" BY <2>2 DEF Columns
  <2>3. CASE name = "fc" BY <2>3 DEF Columns
  <2>4. CASE name = "stp" BY <2>4 DEF Columns
  <2>5. CASE name = "surf" BY <2>5 DEF Columns
  <2>6. CASE name = "assume" BY <2>6 DEF Columns
  <2>7. CASE name = "dg" BY <2>7 DEF Columns
  <2>8. CASE name = "fn" BY <2>8 DEF Columns
  <2> QED BY <2>1, <2>2, <2>3, <2>4, <2>5, <2>6, <2>7, <2>8 DEF Share!Strict, Share!Lenient
<1>2. PICK V : None \notin Seq(Seq(V)) /\ Within(V)
  <2>1. ASSUME NEW g \in DOMAIN gs, NEW i \in DOMAIN gs[g]
        PROVE  /\ gs[g][i].carrier \in Share!Maybe(Airlines) /\ gs[g][i].cabin \in Share!Maybe(Cabins)
               /\ gs[g][i].fare \in Share!Maybe(SharedFares)
               /\ gs[g][i].stopover \in Share!Maybe(BOOLEAN)
               /\ gs[g][i].reference \in Share!Maybe(SharedReferences)
               /\ gs[g][i].number \in Share!Maybe(SharedNumbers)
    BY <2>1, GroupFields, LegFields DEF Stops
  <2>2. \A b : Share!Flag(b) \in Share!Maybe(BOOLEAN)
    BY DEF Share!Flag, Share!Maybe
  <2>3. /\ None \notin Seq(Seq(Share!Maybe(Airlines))) /\ None \notin Seq(Seq(Share!Maybe(Cabins)))
        /\ None \notin Seq(Seq(Share!Maybe(SharedFares))) /\ None \notin Seq(Seq(Share!Maybe(BOOLEAN)))
        /\ None \notin Seq(Seq(Share!Maybe(SharedReferences)))
        /\ None \notin Seq(Seq(Share!Maybe(SharedNumbers)))
    BY DEF Share!ColumnsApart, Share!Apart
  <2>4. name = "op" => Within(Share!Maybe(Airlines))
    BY <2>1 DEF Columns
  <2>5. name = "cab" => Within(Share!Maybe(Cabins))
    BY <2>1 DEF Columns
  <2>6. name = "fc" => Within(Share!Maybe(SharedFares))
    BY <2>1 DEF Columns
  <2>7. name = "stp" => Within(Share!Maybe(BOOLEAN))
    BY <2>1 DEF Columns
  <2>8. name \in {"surf", "assume"} => Within(Share!Maybe(BOOLEAN))
    BY <2>2 DEF Columns
  <2>9. name = "dg" => Within(Share!Maybe(SharedReferences))
    BY <2>1 DEF Columns
  <2>10. name = "fn" => Within(Share!Maybe(SharedNumbers))
    BY <2>1 DEF Columns
  <2>11. name \in {"op", "cab", "fc", "stp", "surf", "assume", "dg", "fn"}
    BY DEF Share!Strict, Share!Lenient
  <2> HIDE DEF Within
  <2> QED BY <2>3, <2>4, <2>5, <2>6, <2>7, <2>8, <2>9, <2>10, <2>11
<1>4. \A g \in DOMAIN gs : column[g] \in [DOMAIN gs[g] -> V]
  <2> HIDE DEF column
  <2> QED BY <1>1, <1>2
<1> HIDE DEF column, Within
<1>3. /\ column \in Seq(Seq(V)) /\ Len(column) = Len(gs)
      /\ \A g \in DOMAIN gs : Len(column[g]) = Len(gs[g]) /\ DOMAIN column[g] = DOMAIN gs[g]
  BY <1>1, <1>4, ColumnIsSeq
<1> QED BY <1>2, <1>3 DEF column

\* What every column of the link of a trip says of a leg.
LEMMA ColumnTells ==
  ASSUME Share!ColumnsApart,
         NEW gs \in Seq(Seq(TripLegs)), NEW name \in Share!Strict \cup Share!Lenient,
         NEW g \in DOMAIN gs, NEW i \in DOMAIN gs[g]
  PROVE  /\ In(Columns(gs)[name], g, i) = Columns(gs)[name][g][i]
         /\ In(Share!Optional(Columns(gs)[name]), g, i) = Columns(gs)[name][g][i]
<1> DEFINE column == Columns(gs)[name]
<1>1. PICK V : /\ None \notin Seq(Seq(V))
               /\ column \in Seq(Seq(V)) /\ Len(column) = Len(gs)
               /\ \A h \in DOMAIN gs : /\ Len(column[h]) = Len(gs[h])
                                       /\ DOMAIN column[h] = DOMAIN gs[h]
  BY ColumnsAreSeqs
<1> HIDE DEF column
<1>2. g \in DOMAIN column /\ i \in DOMAIN column[g] /\ DOMAIN gs[g] = 1..Len(gs[g]) /\ Len(gs[g]) \in Nat
  BY <1>1
<1>3. In(Share!Optional(column), g, i) = column[g][i]
  BY <1>1, <1>2, OptionalTells
<1>4. column # None /\ ~(i > Len(column[g]))
  BY <1>1, <1>2
<1>5. In(column, g, i) = column[g][i]
  BY <1>4 DEF In
<1> QED BY <1>3, <1>5 DEF column

\* The cells of a leg.
Cells(link, g, i, leg) ==
  /\ Share!Cell(link, "op", g, i) = leg.carrier
  /\ Share!Cell(link, "cab", g, i) = leg.cabin
  /\ Share!Cell(link, "fc", g, i) = leg.fare
  /\ Share!Cell(link, "stp", g, i) = leg.stopover
  /\ Share!Cell(link, "surf", g, i) = Share!Flag(leg.surface)
  /\ Share!Cell(link, "assume", g, i) = Share!Flag(Share!IsAssumed(leg))
  /\ Share!Cell(link, "dg", g, i) = leg.reference
  /\ Share!Cell(link, "fn", g, i) = leg.number
  /\ link.cab # None

LEMMA CellsTell ==
  ASSUME Share!ColumnsApart,
         NEW trip, NEW gs \in Seq(Seq(TripLegs)), gs = Share!SharedGroups(trip.groups),
         \A h \in DOMAIN gs : gs[h] # << >>,
         NEW g \in DOMAIN gs, NEW i \in DOMAIN gs[g]
  PROVE  Cells(Share!Encode(trip), g, i, gs[g][i])
<1> DEFINE link == Share!Encode(trip)
           leg == gs[g][i]
           names == Share!Strict \cup Share!Lenient
<1>1. \A name \in names : Share!Cell(link, name, g, i) = In(link[name], g, i)
  BY DEF Share!Cell, In
<1>2. \A name \in names : link[name] = Columns(gs)[name] \/ link[name] = Share!Optional(Columns(gs)[name])
  BY EncodeColumns DEF Share!Strict, Share!Lenient
<1>3. \A name \in names : Share!Cell(link, name, g, i) = Columns(gs)[name][g][i]
  <2> SUFFICES ASSUME NEW name \in names
               PROVE  Share!Cell(link, name, g, i) = Columns(gs)[name][g][i]
    OBVIOUS
  <2>1. /\ In(Columns(gs)[name], g, i) = Columns(gs)[name][g][i]
        /\ In(Share!Optional(Columns(gs)[name]), g, i) = Columns(gs)[name][g][i]
    BY ColumnTells
  <2>2. Share!Cell(link, name, g, i) = In(link[name], g, i)
    BY <1>1
  <2>3. link[name] = Columns(gs)[name] \/ link[name] = Share!Optional(Columns(gs)[name])
    BY <1>2
  <2> HIDE DEF link, names
  <2> QED BY <2>1, <2>2, <2>3
<1>4. /\ "op" \in names /\ "cab" \in names /\ "fc" \in names /\ "stp" \in names
      /\ "surf" \in names /\ "assume" \in names /\ "dg" \in names /\ "fn" \in names
  BY DEF Share!Strict, Share!Lenient
<1>5. link.cab # None
  <2>1. link.cab = Columns(gs)["cab"]
    BY EncodeColumns
  <2>2. \E V : Columns(gs)["cab"] \in Seq(Seq(V)) /\ None \notin Seq(Seq(V))
    BY <1>4, ColumnsAreSeqs
  <2> QED BY <2>1, <2>2
<1>6. /\ Columns(gs)["op"][g][i] = leg.carrier /\ Columns(gs)["cab"][g][i] = leg.cabin
      /\ Columns(gs)["fc"][g][i] = leg.fare /\ Columns(gs)["stp"][g][i] = leg.stopover
      /\ Columns(gs)["surf"][g][i] = Share!Flag(leg.surface)
      /\ Columns(gs)["assume"][g][i] = Share!Flag(Share!IsAssumed(leg))
      /\ Columns(gs)["dg"][g][i] = leg.reference /\ Columns(gs)["fn"][g][i] = leg.number
  BY DEF Columns
<1> HIDE DEF link, leg, names
<1>7. /\ Share!Cell(link, "op", g, i) = leg.carrier /\ Share!Cell(link, "cab", g, i) = leg.cabin
      /\ Share!Cell(link, "fc", g, i) = leg.fare /\ Share!Cell(link, "stp", g, i) = leg.stopover
  BY <1>3, <1>4, <1>6
<1>8. /\ Share!Cell(link, "surf", g, i) = Share!Flag(leg.surface)
      /\ Share!Cell(link, "assume", g, i) = Share!Flag(Share!IsAssumed(leg))
      /\ Share!Cell(link, "dg", g, i) = leg.reference /\ Share!Cell(link, "fn", g, i) = leg.number
  BY <1>3, <1>4, <1>6
<1> QED BY <1>5, <1>7, <1>8 DEF link, leg, Cells

\* Every column has the shape of the path.
LEMMA LinkFits ==
  ASSUME Share!ColumnsApart,
         NEW trip, NEW gs \in Seq(Seq(TripLegs)), gs = Share!SharedGroups(trip.groups),
         \A g \in DOMAIN gs : gs[g] # << >>,
         NEW name \in Share!Strict \cup Share!Lenient
  PROVE  Share!Fits(Share!Encode(trip), name)
<1> DEFINE link == Share!Encode(trip)
           column == Columns(gs)[name]
<1>1. PICK V : /\ None \notin Seq(Seq(V))
               /\ column \in Seq(Seq(V)) /\ Len(column) = Len(gs)
               /\ \A h \in DOMAIN gs : /\ Len(column[h]) = Len(gs[h])
                                       /\ DOMAIN column[h] = DOMAIN gs[h]
  BY ColumnsAreSeqs
<1>2. link.chains = Chains(gs)
  BY EncodeColumns
<1>3. Len(Chains(gs)) = Len(gs) /\ DOMAIN Chains(gs) = DOMAIN gs
  BY ChainsTell
<1>4. \A g \in DOMAIN gs : Len(Chains(gs)[g]) = Len(gs[g]) + 1 /\ Len(gs[g]) \in Nat
  BY ChainTells, GroupFields
<1>5. link[name] = column \/ (link[name] = Share!Optional(column) /\ name # "op")
  BY EncodeColumns DEF Share!Strict, Share!Lenient
<1>6. Share!Optional(column) \in {column, None}
  BY DEF Share!Optional
<1> HIDE DEF link, column
<1>7. CASE link[name] = column
  <2>1. Len(link[name]) = Len(link.chains)
    BY <1>1, <1>2, <1>3, <1>7
  <2>2. ASSUME NEW g \in DOMAIN link.chains
        PROVE  Len(link[name][g]) = Len(link.chains[g]) - 1
    <3> DEFINE long == Len(Chains(gs)[g])
               many == Len(gs[g])
    <3>1. long = many + 1 /\ many \in Nat
      BY <1>2, <1>3, <1>4
    <3>2. Len(link[name][g]) = many /\ Len(link.chains[g]) = long
      BY <1>1, <1>2, <1>3, <1>7
    <3> HIDE DEF long, many
    <3> QED BY <3>1, <3>2
  <2>3. column # None
    BY <1>1
  <2> QED BY <1>7, <2>1, <2>2, <2>3 DEF Share!Fits, link
<1>8. CASE link[name] = None /\ name # "op"
  BY <1>8 DEF Share!Fits, link
<1> QED BY <1>5, <1>6, <1>7, <1>8

\* The code that a link gives the origin of a leg.
ToldFrom(sectors, i) == IF i = 1 THEN sectors[1].from ELSE sectors[i - 1].to

LEMMA ChainGives ==
  ASSUME NEW gs \in Seq(Seq(TripLegs)), NEW g \in DOMAIN gs, gs[g] # << >>, NEW i \in DOMAIN gs[g]
  PROVE  /\ Chains(gs)[g][i] = ToldFrom(gs[g], i)
         /\ Chains(gs)[g][i + 1] = gs[g][i].to
<1>1. DOMAIN gs[g] = 1..Len(gs[g]) /\ Len(gs[g]) \in Nat
  BY GroupFields
<1>2. CASE i = 1
  BY <1>2, ChainTells DEF ToldFrom
<1>3. CASE i # 1
  <2>1. i - 1 \in DOMAIN gs[g] /\ (i - 1) + 1 = i
    BY <1>1, <1>3
  <2>2. Chains(gs)[g][(i - 1) + 1] = gs[g][i - 1].to
    BY <2>1, ChainTells
  <2> QED BY <1>3, <2>1, <2>2, ChainTells DEF ToldFrom
<1> QED BY <1>2, <1>3

\* Legs are told apart by their fields.
LEMMA SameLeg ==
  ASSUME NEW l \in TripLegs, NEW m \in TripLegs,
         l.from = m.from, l.to = m.to, l.surface <=> m.surface, l.stopover = m.stopover,
         l.carrier = m.carrier, l.number = m.number, l.cabin = m.cabin, l.fare = m.fare,
         l.assumed <=> m.assumed, l.reference = m.reference
  PROVE  l = m
<1>1. /\ l.surface \in BOOLEAN /\ l.assumed \in BOOLEAN
      /\ m.surface \in BOOLEAN /\ m.assumed \in BOOLEAN
  BY LegFields
<1>2. l.surface = m.surface /\ l.assumed = m.assumed
  BY <1>1
<1> QED BY <1>2, LegFields

\* Nothing is known of the flight of a new leg.
Unknown(leg) ==
  /\ leg.carrier = None /\ leg.number = None /\ leg.cabin = None
  /\ leg.fare = None /\ leg.reference = None

LEMMA FlightFields ==
  ASSUME NEW a \in Share!Codes, NEW b \in Share!Codes, NEW leg, leg = Share!Flight(a, b)
  PROVE  /\ leg \in TripLegs /\ Unknown(leg)
         /\ leg.from = a /\ leg.to = b /\ leg.stopover = None
BY DEF Share!Flight, TripLegs, Stops, Share!Maybe, Unknown

LEMMA FlightFlags ==
  ASSUME NEW a, NEW b, NEW leg, leg = Share!Flight(a, b)
  PROVE  ~leg.surface /\ ~leg.assumed
BY DEF Share!Flight

LEMMA SurfaceFields ==
  ASSUME NEW a \in Share!Codes, NEW b \in Share!Codes, NEW stopover \in Stops,
         NEW leg, leg = Share!Surface(a, b, stopover)
  PROVE  /\ leg \in TripLegs /\ Unknown(leg)
         /\ leg.from = a /\ leg.to = b /\ leg.stopover = stopover
<1> DEFINE flight == Share!Flight(a, b)
<1>1. /\ flight \in TripLegs /\ Unknown(flight) /\ flight.from = a /\ flight.to = b
  BY FlightFields
<1>2. leg = [flight EXCEPT !.surface = TRUE, !.stopover = stopover]
  BY DEF Share!Surface
<1> HIDE DEF flight
<1> QED BY <1>1, <1>2 DEF TripLegs, Unknown

LEMMA SurfaceFlags ==
  ASSUME NEW a \in Share!Codes, NEW b \in Share!Codes, NEW stopover,
         NEW leg, leg = Share!Surface(a, b, stopover)
  PROVE  leg.surface /\ ~leg.assumed
<1> DEFINE flight == Share!Flight(a, b)
<1>1. flight \in TripLegs /\ ~flight.assumed
  BY FlightFields, FlightFlags
<1>2. leg = [flight EXCEPT !.surface = TRUE, !.stopover = stopover]
  BY DEF Share!Surface
<1> HIDE DEF flight
<1> QED BY <1>1, <1>2 DEF TripLegs

\* What a link tells of a leg.
ToldAs(leg, before) ==
  [leg EXCEPT !.from = before,
              !.fare = IF leg.carrier = None THEN None ELSE @,
              !.assumed = Share!IsAssumed(leg)]

\* No edit leaves a leg that parseShareUrl refuses, and what it makes of the cells is
\* the leg again.
LEMMA LegTells ==
  ASSUME None \notin BOOLEAN, NEW leg \in TripLegs, Plain(leg), NEW before \in Share!Codes,
         leg.reference # None => before = leg.from,
         NEW link, NEW g, NEW i, Cells(link, g, i, leg),
         link.chains[g][i] = before, link.chains[g][i + 1] = leg.to
  PROVE  Share!Readable(link, g, i) /\ Share!ParsedLeg(link, g, i) = ToldAs(leg, before)
<1>0. /\ Share!Cell(link, "op", g, i) = leg.carrier
      /\ Share!Cell(link, "cab", g, i) = leg.cabin
      /\ Share!Cell(link, "fc", g, i) = leg.fare
      /\ Share!Cell(link, "stp", g, i) = leg.stopover
      /\ Share!Cell(link, "surf", g, i) = Share!Flag(leg.surface)
      /\ Share!Cell(link, "assume", g, i) = Share!Flag(Share!IsAssumed(leg))
      /\ Share!Cell(link, "dg", g, i) = leg.reference
      /\ Share!Cell(link, "fn", g, i) = leg.number
      /\ link.cab # None
  BY DEF Cells
<1>1. /\ leg.surface \in BOOLEAN /\ leg.assumed \in BOOLEAN
      /\ leg = [from |-> leg.from, to |-> leg.to, surface |-> leg.surface,
                stopover |-> leg.stopover, carrier |-> leg.carrier, number |-> leg.number,
                cabin |-> leg.cabin, fare |-> leg.fare, assumed |-> leg.assumed,
                reference |-> leg.reference]
  BY LegFields
<1>2. Share!IsAssumed(leg) \in BOOLEAN
  BY <1>1 DEF Share!IsAssumed
<1>3. \A b \in BOOLEAN : (Share!Flag(b) = TRUE) = b
  BY DEF Share!Flag
<1>4. /\ (Share!Cell(link, "surf", g, i) = TRUE) = leg.surface
      /\ (Share!Cell(link, "assume", g, i) = TRUE) = Share!IsAssumed(leg)
  BY <1>0, <1>1, <1>2, <1>3
<1>5. Share!IsAssumed(leg) = (leg.assumed \/ (leg.reference # None /\ leg.carrier # None))
  BY DEF Share!IsAssumed
<1> DEFINE told == ToldAs(leg, before)
           fare == IF leg.carrier = None THEN None ELSE leg.fare
           parsed == Share!ParsedLeg(link, g, i)
<1>6. /\ told \in TripLegs
      /\ told.from = before /\ told.to = leg.to
      /\ told.stopover = leg.stopover /\ told.carrier = leg.carrier
      /\ told.number = leg.number /\ told.cabin = leg.cabin /\ told.fare = fare
      /\ told.reference = leg.reference
      /\ told.surface = leg.surface /\ told.assumed = Share!IsAssumed(leg)
  <2>1. fare \in Share!Maybe(SharedFares)
    BY LegFields DEF Share!Maybe
  <2>2. told = [leg EXCEPT !.from = before, !.fare = fare, !.assumed = Share!IsAssumed(leg)]
    BY DEF ToldAs
  <2> HIDE DEF told, fare
  <2> QED BY <1>1, <1>2, <2>1, <2>2 DEF TripLegs
<1> HIDE DEF told, parsed
<1>7. Share!Readable(link, g, i)
  BY <1>0, <1>1, <1>4, <1>5 DEF Share!Readable, Plain
<1>8. ASSUME leg.surface
      PROVE  parsed = told
  <2>1. parsed = Share!Surface(before, leg.to, leg.stopover)
    BY <1>0, <1>4, <1>8 DEF Share!ParsedLeg, parsed
  <2>2. /\ leg.carrier = None /\ leg.number = None /\ leg.cabin = None /\ leg.reference = None
        /\ fare = None
    BY <1>1, <1>5, <1>8 DEF Plain
  <2>3. leg.to \in Share!Codes /\ leg.stopover \in Stops
    BY LegFields
  <2>4. /\ parsed \in TripLegs /\ Unknown(parsed)
        /\ parsed.from = before /\ parsed.to = leg.to /\ parsed.stopover = leg.stopover
    BY <2>1, <2>3, SurfaceFields
  <2>5. parsed.surface /\ ~parsed.assumed
    BY <2>1, <2>3, SurfaceFlags
  <2>6. told.surface /\ ~told.assumed
    BY <1>1, <1>5, <1>6, <1>8 DEF Plain
  <2> HIDE DEF fare
  <2>7. /\ parsed.from = told.from /\ parsed.to = told.to
        /\ parsed.stopover = told.stopover /\ parsed.carrier = told.carrier
        /\ parsed.number = told.number /\ parsed.cabin = told.cabin
        /\ parsed.fare = told.fare /\ parsed.reference = told.reference
    BY <1>6, <2>2, <2>4 DEF Unknown
  <2> QED BY <1>6, <2>4, <2>5, <2>6, <2>7, SameLeg
<1>9. ASSUME ~leg.surface
      PROVE  parsed = told
  <2> DEFINE flight == Share!Flight(before, leg.to)
             assumed == Share!IsAssumed(leg)
  <2>1. Share!LegCabin(link, g, i) = leg.cabin
    BY <1>0 DEF Share!LegCabin
  <2>2. (Share!Cell(link, "assume", g, i) = TRUE
           \/ (leg.reference # None /\ leg.carrier # None)) = assumed
    BY <1>0, <1>4, <1>5
  <2>3. parsed =
          [flight EXCEPT
             !.carrier = leg.carrier, !.stopover = leg.stopover, !.cabin = leg.cabin,
             !.reference = leg.reference, !.number = leg.number,
             !.fare = fare, !.assumed = assumed]
    BY <1>0, <1>4, <1>9, <2>1, <2>2 DEF Share!ParsedLeg, parsed
  <2>4. /\ leg.stopover \in Stops /\ leg.carrier \in Share!Maybe(Airlines)
        /\ leg.number \in Share!Maybe(SharedNumbers) /\ leg.cabin \in Share!Maybe(Cabins)
        /\ fare \in Share!Maybe(SharedFares) /\ leg.reference \in Share!Maybe(SharedReferences)
        /\ leg.to \in Share!Codes
    BY <1>1, <1>9, LegFields DEF Share!Maybe
  <2>5. flight \in TripLegs /\ flight.from = before /\ flight.to = leg.to
    BY <2>4, FlightFields
  <2>6. ~flight.surface
    BY FlightFlags
  <2>7. assumed \in BOOLEAN
    BY <1>2
  <2> HIDE DEF flight, fare, assumed
  <2>8. /\ parsed \in TripLegs
        /\ parsed.from = before /\ parsed.to = leg.to
        /\ parsed.stopover = leg.stopover /\ parsed.carrier = leg.carrier
        /\ parsed.number = leg.number /\ parsed.cabin = leg.cabin /\ parsed.fare = fare
        /\ parsed.reference = leg.reference
        /\ parsed.surface = flight.surface /\ parsed.assumed = assumed
    BY <2>3, <2>4, <2>5, <2>7 DEF TripLegs
  <2>9. (parsed.surface <=> told.surface) /\ (parsed.assumed <=> told.assumed)
    BY <1>6, <1>9, <2>6, <2>8 DEF assumed
  <2>10. /\ parsed.from = told.from /\ parsed.to = told.to
         /\ parsed.stopover = told.stopover /\ parsed.carrier = told.carrier
         /\ parsed.number = told.number /\ parsed.cabin = told.cabin
         /\ parsed.fare = told.fare /\ parsed.reference = told.reference
    BY <1>6, <2>8
  <2> QED BY <1>6, <2>8, <2>9, <2>10, SameLeg
<1> QED BY <1>1, <1>7, <1>8, <1>9 DEF told, parsed

\* The groups that have legs.
LEMMA SameCardinality == \A S : Share!Cardinality(S) = Cardinality(S)
BY DEF Share!Cardinality, Cardinality

LEMMA SharedGroupsKeeps ==
  ASSUME NEW gs \in Seq(Seq(TripLegs))
  PROVE  LET kept == Share!SharedGroups(gs) IN
         /\ kept \in Seq(Seq(TripLegs))
         /\ \A n \in DOMAIN kept : kept[n] # << >> /\ \E g \in DOMAIN gs : kept[n] = gs[g]
         /\ (\E g \in DOMAIN gs : gs[g] # << >>) => kept # << >>
<1> DEFINE K == {g \in DOMAIN gs : gs[g] # << >>}
           kth(n) == CHOOSE g \in K : Share!Cardinality({k \in K : k <= g}) = n
           kept == Share!SharedGroups(gs)
<1>1. K \in SUBSET (1..Len(gs)) /\ Len(gs) \in Nat
  OBVIOUS
<1>2. IsFiniteSet(K) /\ Cardinality(K) \in Nat
  <2> HIDE DEF K
  <2>1. IsFiniteSet(1..Len(gs))
    BY <1>1, FS_Interval
  <2> QED BY <1>1, <2>1, FS_Subset, FS_CardinalityType
<1>3. ASSUME NEW n \in 1..Cardinality(K)
      PROVE  kth(n) \in K
  <2>1. \E g \in K : Cardinality(Before(K, g)) = n
    BY <1>1, RankTaken
  <2>2. \A g \in K : Before(K, g) = {k \in K : k <= g}
    BY DEF Before
  <2>3. \E g \in K : Share!Cardinality({k \in K : k <= g}) = n
    <3> HIDE DEF K
    <3> QED BY <2>1, <2>2, SameCardinality
  <2> QED BY <2>3
<1>4. kept = [n \in 1..Cardinality(K) |-> gs[kth(n)]]
  <2>1. kept = [n \in 1..Share!Cardinality(K) |-> gs[kth(n)]]
    BY DEF Share!SharedGroups
  <2> HIDE DEF K, kth, kept
  <2> QED BY <2>1, SameCardinality
<1>5. \A n \in 1..Cardinality(K) : kept[n] \in Seq(TripLegs) /\ kept[n] # << >>
                                   /\ \E g \in DOMAIN gs : kept[n] = gs[g]
  <2> SUFFICES ASSUME NEW n \in 1..Cardinality(K)
               PROVE  kept[n] \in Seq(TripLegs) /\ kept[n] # << >>
                      /\ \E g \in DOMAIN gs : kept[n] = gs[g]
    OBVIOUS
  <2>1. kept[n] = gs[kth(n)]
    BY <1>4
  <2>2. kth(n) \in K
    BY <1>3
  <2> HIDE DEF kth, kept
  <2> QED BY <2>1, <2>2
<1>6. kept \in [1..Cardinality(K) -> Seq(TripLegs)]
  <2> HIDE DEF K, kth
  <2>1. kept = [n \in 1..Cardinality(K) |-> kept[n]]
    BY <1>4
  <2> QED BY <1>5, <2>1
<1> HIDE DEF kept, kth
<1>7. kept \in Seq(Seq(TripLegs)) /\ Len(kept) = Cardinality(K) /\ DOMAIN kept = 1..Cardinality(K)
  BY <1>2, <1>6, FunctionIsSeq
<1>8. (\E g \in DOMAIN gs : gs[g] # << >>) => kept # << >>
  <2> SUFFICES ASSUME K # {} PROVE Len(kept) # 0
    BY <1>7
  <2> QED BY <1>2, <1>7, FS_EmptySet
<1> QED BY <1>5, <1>7, <1>8 DEF kept

-----------------------------------------------------------------------------
(***************************************************************************)
(* The link of a trip whose legs can be told.                              *)
(***************************************************************************)
LEMMA LegsAreTold ==
  ASSUME None \notin BOOLEAN, Share!ColumnsApart,
         NEW trip, NEW gs \in Seq(Seq(TripLegs)), gs = Share!SharedGroups(trip.groups),
         \A h \in DOMAIN gs : gs[h] # << >> /\ Tellable(gs[h]),
         NEW g \in DOMAIN gs, NEW i \in DOMAIN gs[g]
  PROVE  /\ Share!Readable(Share!Encode(trip), g, i)
         /\ Share!ParsedLeg(Share!Encode(trip), g, i) = Share!Told(gs[g], i)
         /\ Place[Share!Told(gs[g], i).from] = Place[gs[g][i].from]
<1> DEFINE link == Share!Encode(trip)
           leg == gs[g][i]
           before == ToldFrom(gs[g], i)
<1>1. /\ leg \in TripLegs /\ gs[g][1] \in TripLegs /\ DOMAIN gs[g] = 1..Len(gs[g])
      /\ Len(gs[g]) \in Nat /\ i \in 1..Len(gs[g])
  BY GroupFields
<1>2. Plain(leg)
  BY DEF Tellable
<1>3. /\ before \in Share!Codes
      /\ leg.reference # None => before = leg.from
      /\ Place[before] = Place[leg.from]
  <2>1. CASE i = 1
    BY <1>1, <2>1, LegFields DEF ToldFrom
  <2>2. CASE i # 1
    <3>1. i - 1 \in DOMAIN gs[g] /\ i > 1
      BY <1>1, <2>2
    <3>2. gs[g][i - 1] \in TripLegs /\ before = gs[g][i - 1].to
      BY <2>2, <3>1, GroupFields DEF ToldFrom
    <3>3. Continues(gs[g][i - 1], leg)
      BY <3>1 DEF Tellable
    <3>4. before \in Share!Codes
      BY <3>2, LegFields
    <3> HIDE DEF before, leg
    <3> QED BY <3>2, <3>3, <3>4 DEF Continues
  <2> QED BY <2>1, <2>2
<1>4. link.chains[g][i] = before /\ link.chains[g][i + 1] = leg.to
  <2>1. link.chains = Chains(gs)
    BY EncodeColumns
  <2> QED BY <2>1, ChainGives
<1>5. Cells(link, g, i, leg)
  <2>1. \A h \in DOMAIN gs : gs[h] # << >>
    OBVIOUS
  <2> QED BY <2>1, CellsTell
<1>6. Share!Told(gs[g], i) = ToldAs(leg, before)
  BY <1>1 DEF Share!Told, ToldFrom, ToldAs
<1>7. ToldAs(leg, before).from = before
  <2> HIDE DEF before, leg
  <2> QED BY <1>1 DEF TripLegs, ToldAs
<1> HIDE DEF link, leg, before
<1>8. Share!Readable(link, g, i) /\ Share!ParsedLeg(link, g, i) = ToldAs(leg, before)
  BY <1>1, <1>2, <1>3, <1>4, <1>5, LegTells
<1> QED BY <1>3, <1>6, <1>7, <1>8 DEF link, leg

LEMMA LinkOpens ==
  ASSUME None \notin BOOLEAN, Share!ColumnsApart, ShareInv
  PROVE  Share!RoundTrip
<1> DEFINE trip == Share!Trip(shared, cabin)
           gs == Share!SharedGroups(shared)
           link == Share!Encode(trip)
<1>1. /\ gs \in Seq(Seq(TripLegs))
      /\ \A g \in DOMAIN gs : gs[g] # << >> /\ Tellable(gs[g])
      /\ (\E g \in DOMAIN shared : shared[g] # << >>) => gs # << >>
  BY SharedGroupsKeeps DEF ShareInv, Editable
<1>2. trip.groups = shared /\ trip.cabin = cabin
  BY DEF Share!Trip
<1>3. gs = Share!SharedGroups(trip.groups)
  BY <1>2
<1> HIDE DEF trip, gs
<1>4. \A g \in DOMAIN gs : \A i \in DOMAIN gs[g] :
        /\ Share!Readable(link, g, i)
        /\ Share!ParsedLeg(link, g, i) = Share!Told(gs[g], i)
        /\ Place[Share!Told(gs[g], i).from] = Place[gs[g][i].from]
  BY <1>1, <1>3, LegsAreTold
<1>5. \A name \in Share!Strict \cup Share!Lenient : Share!Fits(link, name)
  BY <1>1, <1>3, LinkFits
<1>6. link.chains = Chains(gs) /\ link.c = cabin
  BY <1>1, <1>2, <1>3, EncodeColumns
<1> HIDE DEF link
<1>7. Len(link.chains) = Len(gs) /\ DOMAIN link.chains = DOMAIN gs
  BY <1>1, <1>6, ChainsTell
<1>8. \A g \in DOMAIN link.chains :
        Len(link.chains[g]) >= 2 /\ 1..Len(link.chains[g]) - 1 = DOMAIN gs[g]
  <2> SUFFICES ASSUME NEW g \in DOMAIN gs
               PROVE  Len(link.chains[g]) >= 2 /\ 1..Len(link.chains[g]) - 1 = DOMAIN gs[g]
    BY <1>7
  <2>1. Len(gs[g]) \in Nat /\ DOMAIN gs[g] = 1..Len(gs[g]) /\ Len(gs[g]) # 0
    BY <1>1, GroupFields
  <2>2. Len(link.chains[g]) = Len(gs[g]) + 1
    BY <1>1, <1>6, ChainTells
  <2> DEFINE long == Len(link.chains[g])
             many == Len(gs[g])
  <2>3. many \in Nat /\ DOMAIN gs[g] = 1..many /\ many # 0 /\ long = many + 1
    BY <2>1, <2>2
  <2> HIDE DEF long, many
  <2>4. long >= 2 /\ long - 1 = many
    BY <2>3
  <2>5. 1..long - 1 = DOMAIN gs[g]
    BY <2>3, <2>4
  <2> QED BY <2>4, <2>5 DEF long
<1>9. Share!Parse(link) =
        Share!Trip([g \in DOMAIN gs |-> [i \in DOMAIN gs[g] |-> Share!Told(gs[g], i)]], cabin)
  <2>1. [g \in DOMAIN link.chains |->
           [i \in 1..Len(link.chains[g]) - 1 |-> Share!ParsedLeg(link, g, i)]]
        = [g \in DOMAIN gs |-> [i \in DOMAIN gs[g] |-> Share!Told(gs[g], i)]]
    <3>1. \A g \in DOMAIN gs :
            [i \in 1..Len(link.chains[g]) - 1 |-> Share!ParsedLeg(link, g, i)]
            = [i \in DOMAIN gs[g] |-> Share!Told(gs[g], i)]
      BY <1>4, <1>7, <1>8
    <3> QED BY <1>7, <3>1
  <2> QED BY <1>6, <2>1 DEF Share!Parse
<1>10. ASSUME gs # << >>
       PROVE  Share!Parses(link)
  <2>1. link.chains # << >>
    BY <1>1, <1>7, <1>10
  <2>2. \A g \in DOMAIN link.chains : \A i \in 1..Len(link.chains[g]) - 1 : Share!Readable(link, g, i)
    BY <1>4, <1>7, <1>8
  <2> QED BY <1>5, <1>8, <2>1, <2>2 DEF Share!Parses
<1> QED BY <1>1, <1>4, <1>9, <1>10 DEF Share!RoundTrip, gs, link, trip

-----------------------------------------------------------------------------
(***************************************************************************)
(* What the edits make of a trip.                                          *)
(***************************************************************************)
LEMMA AddedLeg ==
  ASSUME NEW gs, Editable(gs), NEW g \in DOMAIN gs, NEW leg \in TripLegs, Plain(leg),
         leg.reference = None, gs[g] # << >> => Place[gs[g][Len(gs[g])].to] = Place[leg.from]
  PROVE  Editable([gs EXCEPT ![g] = Append(@, leg)])
<1> DEFINE old == gs[g]
           many == Len(gs[g])
           sectors == Append(old, leg)
           new == [gs EXCEPT ![g] = sectors]
<1>1. /\ gs \in Seq(Seq(TripLegs)) /\ old \in Seq(TripLegs) /\ many = Len(old) /\ many \in Nat
      /\ DOMAIN old = 1..many /\ \A h \in DOMAIN gs : Tellable(gs[h])
  BY GroupFields DEF Editable
<1>2. old # << >> => many # 0
  BY <1>1
<1>3. many # 0 => Place[old[many].to] = Place[leg.from]
  BY <1>1
<1> HIDE DEF old, many
<1>4. /\ sectors \in Seq(TripLegs) /\ DOMAIN sectors = 1..many + 1 /\ sectors[many + 1] = leg
      /\ \A i \in 1..many : sectors[i] = old[i]
  BY <1>1
<1>5. Tellable(old)
  BY <1>1 DEF old
<1> HIDE DEF sectors
<1>6. Tellable(sectors)
  <2>1. ASSUME NEW i \in DOMAIN sectors PROVE Plain(sectors[i])
    <3>1. CASE i \in 1..many
      BY <1>1, <1>4, <1>5, <3>1 DEF Tellable
    <3>2. CASE i = many + 1
      BY <1>4, <3>2
    <3> QED BY <1>1, <1>4, <3>1, <3>2
  <2>2. ASSUME NEW i \in DOMAIN sectors, i > 1 PROVE Continues(sectors[i - 1], sectors[i])
    <3>1. CASE i \in 1..many
      <4>1. i - 1 \in 1..many
        BY <1>1, <2>2, <3>1
      <4> QED BY <1>1, <1>4, <1>5, <2>2, <3>1, <4>1 DEF Tellable
    <3>2. CASE i = many + 1
      <4>1. many # 0 /\ i - 1 = many /\ many \in 1..many
        BY <1>1, <2>2, <3>2
      <4> QED BY <1>3, <1>4, <3>2, <4>1 DEF Continues
    <3> QED BY <1>1, <1>4, <3>1, <3>2
  <2> QED BY <2>1, <2>2 DEF Tellable
<1>7. new \in Seq(Seq(TripLegs)) /\ DOMAIN new = DOMAIN gs
      /\ \A h \in DOMAIN gs : new[h] = IF h = g THEN sectors ELSE gs[h]
  BY <1>1, <1>4
<1>8. [gs EXCEPT ![g] = Append(@, leg)] = new
  BY DEF sectors, old
<1> HIDE DEF new
<1>9. Editable(new)
  BY <1>1, <1>6, <1>7 DEF Editable
<1> QED BY <1>8, <1>9

LEMMA ChangedLeg ==
  ASSUME NEW gs, Editable(gs), NEW g \in DOMAIN gs, NEW i \in DOMAIN gs[g],
         NEW leg \in TripLegs, Plain(leg), leg.from = gs[g][i].from, leg.to = gs[g][i].to,
         leg.reference = None \/ leg.reference = gs[g][i].reference
  PROVE  Editable([gs EXCEPT ![g][i] = leg])
<1> DEFINE old == gs[g]
           many == Len(gs[g])
           sectors == [old EXCEPT ![i] = leg]
           new == [gs EXCEPT ![g] = sectors]
<1>1. /\ gs \in Seq(Seq(TripLegs)) /\ old \in Seq(TripLegs) /\ many = Len(old) /\ many \in Nat
      /\ DOMAIN old = 1..many /\ \A h \in DOMAIN gs : Tellable(gs[h])
  BY GroupFields DEF Editable
<1>2. /\ Tellable(old) /\ i \in 1..many /\ leg.from = old[i].from /\ leg.to = old[i].to
      /\ leg.reference = None \/ leg.reference = old[i].reference
  BY <1>1
<1> HIDE DEF old, many
<1>4. /\ sectors \in Seq(TripLegs) /\ DOMAIN sectors = 1..many
      /\ \A j \in 1..many : sectors[j] = IF j = i THEN leg ELSE old[j]
  BY <1>1, <1>2
<1> HIDE DEF sectors
<1>6. Tellable(sectors)
  <2>1. ASSUME NEW j \in DOMAIN sectors PROVE Plain(sectors[j])
    BY <1>1, <1>2, <1>4 DEF Tellable
  <2>2. ASSUME NEW j \in DOMAIN sectors, j > 1 PROVE Continues(sectors[j - 1], sectors[j])
    <3>1. j - 1 \in 1..many /\ j \in 1..many /\ j - 1 # j
      BY <1>1, <1>4, <2>2
    <3>2. Continues(old[j - 1], old[j])
      BY <1>1, <1>2, <2>2, <3>1 DEF Tellable
    <3> QED BY <1>2, <1>4, <3>1, <3>2 DEF Continues
  <2> QED BY <2>1, <2>2 DEF Tellable
<1>7. new \in Seq(Seq(TripLegs)) /\ DOMAIN new = DOMAIN gs
      /\ \A h \in DOMAIN gs : new[h] = IF h = g THEN sectors ELSE gs[h]
  BY <1>1, <1>4
<1>8. [gs EXCEPT ![g][i] = leg] = new
  BY DEF sectors, old
<1> HIDE DEF new
<1>9. Editable(new)
  BY <1>1, <1>6, <1>7 DEF Editable
<1> QED BY <1>8, <1>9

LEMMA AddedGroup ==
  ASSUME NEW gs, Editable(gs)
  PROVE  Editable(Append(gs, << >>))
<1> DEFINE new == Append(gs, << >>)
<1>1. gs \in Seq(Seq(TripLegs)) /\ << >> \in Seq(TripLegs)
  BY DEF Editable
<1>2. /\ new \in Seq(Seq(TripLegs)) /\ DOMAIN new = 1..Len(gs) + 1 /\ Len(gs) \in Nat
      /\ new[Len(gs) + 1] = << >> /\ \A h \in 1..Len(gs) : new[h] = gs[h]
  BY <1>1
<1>3. Tellable(<< >>)
  BY DEF Tellable
<1>4. \A h \in 1..Len(gs) : Tellable(gs[h])
  BY <1>1 DEF Editable
<1> HIDE DEF new
<1>5. \A h \in DOMAIN new : h \in 1..Len(gs) \/ h = Len(gs) + 1
  BY <1>2
<1>6. Editable(new)
  BY <1>2, <1>3, <1>4, <1>5 DEF Editable
<1> QED BY <1>6 DEF new

LEMMA RemovedGroup ==
  ASSUME NEW gs, Editable(gs), NEW g \in DOMAIN gs
  PROVE  Editable(Share!RemoveAt(gs, g))
<1> DEFINE new == RemoveAt(gs, g)
<1>1. gs \in Seq(Seq(TripLegs)) /\ g \in 1..Len(gs) /\ Len(gs) \in Nat
      /\ \A h \in DOMAIN gs : Tellable(gs[h])
  BY DEF Editable
<1>2. Share!RemoveAt(gs, g) = new
  BY DEF Share!RemoveAt, RemoveAt
<1>3. /\ new \in Seq(Seq(TripLegs)) /\ Len(new) = Len(gs) - 1
      /\ \A n \in 1..Len(gs) - 1 : new[n] = IF n < g THEN gs[n] ELSE gs[n + 1]
  BY <1>1, RemoveAtProperties
<1> HIDE DEF new
<1>4. ASSUME NEW n \in DOMAIN new
      PROVE  Tellable(new[n])
  <2> DEFINE many == Len(gs)
  <2>1. many \in Nat /\ DOMAIN gs = 1..many /\ n \in 1..many - 1
    BY <1>1, <1>3
  <2> HIDE DEF many
  <2>2. n \in DOMAIN gs /\ n + 1 \in DOMAIN gs
    BY <2>1
  <2>3. new[n] = IF n < g THEN gs[n] ELSE gs[n + 1]
    BY <1>3, <2>1 DEF many
  <2> QED BY <1>1, <2>2, <2>3
<1> QED BY <1>2, <1>3, <1>4 DEF Editable

LEMMA OneLeg ==
  ASSUME NEW leg \in TripLegs, Plain(leg)
  PROVE  Editable(<< <<leg>> >>)
<1> DEFINE sectors == <<leg>>
           gs == <<sectors>>
<1>1. sectors \in Seq(TripLegs) /\ DOMAIN sectors = {1} /\ sectors[1] = leg
  OBVIOUS
<1>2. Tellable(sectors)
  <2> HIDE DEF sectors
  <2> QED BY <1>1 DEF Tellable
<1> HIDE DEF sectors
<1>3. gs \in Seq(Seq(TripLegs)) /\ DOMAIN gs = {1} /\ gs[1] = sectors
  BY <1>1
<1> HIDE DEF gs
<1>4. Editable(gs)
  BY <1>2, <1>3 DEF Editable
<1> QED BY <1>4 DEF gs, sectors

\* A leg that parseShareUrl makes of the cells of a link that it accepts.
LEMMA ParsedLegFits ==
  ASSUME None \notin BOOLEAN, NEW link, NEW g, NEW i, Share!Readable(link, g, i),
         link.chains[g][i] \in Share!Codes, link.chains[g][i + 1] \in Share!Codes,
         link.c \in Cabins,
         Share!Cell(link, "op", g, i) \in Share!Maybe(Airlines),
         Share!Cell(link, "fn", g, i) \in Share!Maybe(SharedNumbers),
         Share!Cell(link, "cab", g, i) \in Share!Maybe(Cabins),
         Share!Cell(link, "fc", g, i) \in Share!Maybe(SharedFares),
         Share!Cell(link, "stp", g, i) \in Stops,
         Share!Cell(link, "dg", g, i) \in Share!Maybe(SharedReferences)
  PROVE  LET leg == Share!ParsedLeg(link, g, i) IN
         /\ leg \in TripLegs /\ Plain(leg)
         /\ leg.from = link.chains[g][i] /\ leg.to = link.chains[g][i + 1]
<1> DEFINE a == link.chains[g][i]
           b == link.chains[g][i + 1]
           parsed == Share!ParsedLeg(link, g, i)
           carrier == Share!Cell(link, "op", g, i)
           number == Share!Cell(link, "fn", g, i)
           stopover == Share!Cell(link, "stp", g, i)
           reference == Share!Cell(link, "dg", g, i)
           overland == Share!Cell(link, "surf", g, i) = TRUE
           mark == Share!Cell(link, "assume", g, i) = TRUE
           seat == Share!LegCabin(link, g, i)
           fare == IF carrier = None THEN None ELSE Share!Cell(link, "fc", g, i)
           assumed == mark \/ (reference # None /\ carrier # None)
<1>1. /\ a \in Share!Codes /\ b \in Share!Codes /\ carrier \in Share!Maybe(Airlines)
      /\ number \in Share!Maybe(SharedNumbers) /\ stopover \in Stops /\ reference \in Share!Maybe(SharedReferences)
  OBVIOUS
<1>2. seat \in Share!Maybe(Cabins) /\ fare \in Share!Maybe(SharedFares) /\ assumed \in BOOLEAN
  BY DEF Share!LegCabin, Share!Maybe
<1>3. /\ reference # None => reference = <<a, b>>
      /\ overland => number = None /\ ~mark /\ reference = None
      /\ ~overland /\ carrier = None => number = None /\ ~mark /\ reference # None
  BY DEF Share!Readable
<1>4. parsed = IF overland THEN Share!Surface(a, b, stopover)
               ELSE [Share!Flight(a, b) EXCEPT
                       !.carrier = carrier, !.stopover = stopover, !.cabin = seat,
                       !.reference = reference, !.number = number,
                       !.fare = fare, !.assumed = assumed]
  BY DEF Share!ParsedLeg
<1>5. assumed = (mark \/ (reference # None /\ carrier # None))
  OBVIOUS
<1> HIDE DEF a, b, parsed, carrier, number, stopover, reference, overland, mark, seat, fare, assumed
<1>6. CASE overland
  <2>1. parsed = Share!Surface(a, b, stopover)
    BY <1>4, <1>6
  <2>2. /\ parsed \in TripLegs /\ Unknown(parsed) /\ parsed.from = a /\ parsed.to = b
    BY <1>1, <2>1, SurfaceFields
  <2>3. parsed.surface /\ ~parsed.assumed
    BY <1>1, <2>1, SurfaceFlags
  <2>4. Plain(parsed)
    BY <2>2, <2>3 DEF Plain, Unknown
  <2> QED BY <2>2, <2>4 DEF parsed, a, b
<1>7. CASE ~overland
  <2> DEFINE flight == Share!Flight(a, b)
  <2>1. flight \in TripLegs /\ flight.from = a /\ flight.to = b
    BY <1>1, FlightFields
  <2>2. ~flight.surface
    BY FlightFlags
  <2>3. parsed = [flight EXCEPT
                    !.carrier = carrier, !.stopover = stopover, !.cabin = seat,
                    !.reference = reference, !.number = number,
                    !.fare = fare, !.assumed = assumed]
    BY <1>4, <1>7
  <2> HIDE DEF flight
  <2>4. /\ parsed \in TripLegs /\ parsed.from = a /\ parsed.to = b
        /\ parsed.carrier = carrier /\ parsed.number = number /\ parsed.reference = reference
        /\ parsed.surface = flight.surface /\ parsed.assumed = assumed
    BY <1>1, <1>2, <2>1, <2>3 DEF TripLegs
  <2>5. Plain(parsed)
    BY <1>3, <1>5, <1>7, <2>2, <2>4 DEF Plain
  <2> QED BY <2>4, <2>5 DEF parsed, a, b
<1> QED BY <1>6, <1>7

\* The trip of a link that is opened.
LEMMA OpenedTrip ==
  ASSUME Share!ShareAssumption, NEW link \in SharedLinks, Share!Parses(link)
  PROVE  Editable(Share!Parse(link).groups) /\ Share!Parse(link).cabin \in Cabins
<1> DEFINE chains == link.chains
           sectors(g) == [i \in 1..Len(chains[g]) - 1 |-> Share!ParsedLeg(link, g, i)]
           gs == [g \in DOMAIN chains |-> sectors(g)]
<1>1. /\ None \notin BOOLEAN /\ chains \in Seq(Seq(Share!Codes)) /\ link.c \in Cabins
      /\ Share!CellsAdmitted(link)
  BY DEF Share!ShareAssumption
<1>2. \A g \in DOMAIN chains : Len(chains[g]) >= 2
                               /\ \A i \in 1..Len(chains[g]) - 1 : Share!Readable(link, g, i)
  BY DEF Share!Parses
<1>3. ASSUME NEW g \in DOMAIN chains
      PROVE  Len(chains[g]) \in Nat /\ Len(chains[g]) >= 2 /\ chains[g] \in Seq(Share!Codes)
             /\ \A i \in 1..Len(chains[g]) : chains[g][i] \in Share!Codes
  BY <1>1, <1>2
<1>4. ASSUME NEW g \in DOMAIN chains, NEW i \in 1..Len(chains[g]) - 1
      PROVE  /\ sectors(g)[i] \in TripLegs /\ Plain(sectors(g)[i])
             /\ sectors(g)[i].from = chains[g][i] /\ sectors(g)[i].to = chains[g][i + 1]
  <2>1. i \in 1..Len(chains[g]) /\ i + 1 \in 1..Len(chains[g])
    BY <1>3
  <2>2. chains[g][i] \in Share!Codes /\ chains[g][i + 1] \in Share!Codes
    BY <1>3, <2>1
  <2>3. Share!Readable(link, g, i)
    BY <1>2
  <2>4. /\ Share!Cell(link, "op", g, i) \in Share!Maybe(Airlines)
        /\ Share!Cell(link, "fn", g, i) \in Share!Maybe(SharedNumbers)
        /\ Share!Cell(link, "cab", g, i) \in Share!Maybe(Cabins)
        /\ Share!Cell(link, "fc", g, i) \in Share!Maybe(SharedFares)
        /\ Share!Cell(link, "stp", g, i) \in Stops
        /\ Share!Cell(link, "dg", g, i) \in Share!Maybe(SharedReferences)
    BY <1>1 DEF Share!CellsAdmitted, Stops
  <2>5. sectors(g)[i] = Share!ParsedLeg(link, g, i)
    OBVIOUS
  <2> HIDE DEF sectors
  <2> QED BY <1>1, <2>2, <2>3, <2>4, <2>5, ParsedLegFits
<1>5. ASSUME NEW g \in DOMAIN chains
      PROVE  sectors(g) \in Seq(TripLegs) /\ DOMAIN sectors(g) = 1..Len(chains[g]) - 1
  <2>1. Len(chains[g]) - 1 \in Nat
    BY <1>3
  <2>2. sectors(g) \in [1..Len(chains[g]) - 1 -> TripLegs]
    BY <1>4
  <2> QED BY <2>1, <2>2, FunctionIsSeq
<1>6. ASSUME NEW g \in DOMAIN chains
      PROVE  Tellable(sectors(g))
  <2>1. DOMAIN sectors(g) = 1..Len(chains[g]) - 1 /\ Len(chains[g]) \in Nat
    BY <1>3
  <2> HIDE DEF sectors
  <2>2. \A i \in DOMAIN sectors(g) : Plain(sectors(g)[i])
    BY <1>4, <2>1
  <2>3. ASSUME NEW i \in DOMAIN sectors(g), i > 1
        PROVE  Continues(sectors(g)[i - 1], sectors(g)[i])
    <3>1. i \in 1..Len(chains[g]) - 1 /\ i - 1 \in 1..Len(chains[g]) - 1 /\ (i - 1) + 1 = i
      BY <2>1, <2>3
    <3>2. sectors(g)[i].from = chains[g][i] /\ sectors(g)[i - 1].to = chains[g][i]
      BY <1>4, <3>1
    <3> QED BY <3>2 DEF Continues
  <2> QED BY <2>2, <2>3 DEF Tellable
<1>7. gs \in Seq(Seq(TripLegs)) /\ DOMAIN gs = DOMAIN chains /\ \A g \in DOMAIN gs : gs[g] = sectors(g)
  <2> HIDE DEF sectors
  <2>1. Len(chains) \in Nat /\ DOMAIN chains = 1..Len(chains)
    BY <1>1
  <2>2. gs \in [1..Len(chains) -> Seq(TripLegs)]
    BY <1>5, <2>1
  <2> QED BY <2>1, <2>2, FunctionIsSeq
<1>8. Share!Parse(link) = Share!Trip(gs, link.c)
  BY DEF Share!Parse
<1> HIDE DEF gs, sectors
<1>9. Share!Parse(link).groups = gs /\ Share!Parse(link).cabin = link.c
  BY <1>8 DEF Share!Trip
<1> QED BY <1>1, <1>6, <1>7, <1>9 DEF Editable

-----------------------------------------------------------------------------
(***************************************************************************)
(* Every edit leaves a trip whose legs can be told.                        *)
(***************************************************************************)
LEMMA GreatestCabin ==
  ASSUME Share!ShareAssumption, NEW T, T \subseteq Cabins, T # {}
  PROVE  Share!Max(T) \in T
<1>1. PICK n \in Cabins : n \in Nat /\ Cabins \subseteq 1..n
  BY DEF Share!ShareAssumption
<1> DEFINE U == {u \in 0..n : n - u \in T}
<1>2. U \subseteq Nat /\ U # {}
  <2>1. PICK t \in T : TRUE
    OBVIOUS
  <2>2. n - t \in 0..n /\ n - (n - t) = t
    BY <1>1, <2>1
  <2> QED BY <2>2
<1>3. PICK m \in U : \A k \in U : m <= k
  <2> HIDE DEF U
  <2> QED BY <1>2, LeastNat
<1>4. n - m \in T /\ m \in 0..n
  BY <1>3
<1>5. ASSUME NEW y \in T PROVE n - m >= y
  <2>1. y \in 1..n /\ n - y \in 0..n /\ n - (n - y) = y
    BY <1>1
  <2>2. n - y \in U
    BY <2>1
  <2>3. m <= n - y
    BY <1>3, <2>2
  <2> HIDE DEF U
  <2> QED BY <1>1, <1>4, <2>1, <2>3
<1>6. \E x \in T : \A y \in T : x >= y
  BY <1>4, <1>5
<1> HIDE DEF U
<1> QED BY <1>6 DEF Share!Max

LEMMA ShareBegins == ASSUME Share!ShareAssumption, Share!Init PROVE ShareInv
<1>1. << >> \in Seq(TripLegs)
  OBVIOUS
<1>2. /\ << << >> >> \in Seq(Seq(TripLegs)) /\ DOMAIN << << >> >> = {1}
      /\ << << >> >>[1] = << >>
  BY <1>1
<1>3. Tellable(<< >>)
  BY DEF Tellable
<1>4. shared = << << >> >> /\ cabin = Share!Max(Cabins)
  BY DEF Share!Init
<1>5. Cabins # {}
  BY DEF Share!ShareAssumption
<1>6. cabin \in Cabins
  BY <1>4, <1>5, GreatestCabin
<1> QED BY <1>2, <1>3, <1>4, <1>6 DEF ShareInv, Editable

LEMMA Additions ==
  ASSUME Share!ShareAssumption, ShareInv, NEW g \in DOMAIN shared, NEW p \in SharedPairs,
         Share!AddFlight(g, p[1], p[2]) \/ Share!AddSurface(g, p[1], p[2])
  PROVE  ShareInv'
<1> DEFINE a == p[1]
           b == p[2]
<1>1. a \in Share!Codes /\ b \in Share!Codes /\ None \notin Airlines
      /\ SharedStopovers \cup {None} \subseteq Stops /\ "number" \in SharedNumbers
  BY DEF Share!ShareAssumption, Stops, Share!Maybe
<1>2. shared[g] # << >> => Place[shared[g][Len(shared[g])].to] = Place[a]
  BY DEF Share!AddFlight, Share!AddSurface, Share!Attaches, Share!Last
<1>3. cabin' = cabin
  BY DEF Share!AddFlight, Share!AddSurface
<1>4. \E leg \in TripLegs : /\ Plain(leg) /\ leg.reference = None /\ leg.from = a
                            /\ shared' = [shared EXCEPT ![g] = Append(@, leg)]
  <2>1. CASE Share!AddFlight(g, a, b)
    <3>1. PICK x \in Airlines, n \in {None, "number"}, c \in Cabins \cup {None}, u \in BOOLEAN :
            shared' = [shared EXCEPT ![g] = Append(@,
              [Share!Flight(a, b) EXCEPT !.carrier = x, !.number = n, !.cabin = c, !.assumed = u])]
      BY <2>1 DEF Share!AddFlight
    <3> DEFINE flight == Share!Flight(a, b)
               leg == [flight EXCEPT !.carrier = x, !.number = n, !.cabin = c, !.assumed = u]
    <3>2. flight \in TripLegs /\ Unknown(flight) /\ flight.from = a /\ flight.to = b
      BY <1>1, FlightFields
    <3>3. ~flight.surface
      BY FlightFlags
    <3> HIDE DEF flight
    <3>4. /\ leg \in TripLegs /\ leg.from = a /\ leg.reference = None /\ leg.carrier = x
          /\ leg.surface = flight.surface
      BY <1>1, <3>2 DEF TripLegs, Share!Maybe, Unknown
    <3> HIDE DEF leg
    <3>5. Plain(leg)
      BY <1>1, <3>3, <3>4 DEF Plain
    <3> QED BY <3>1, <3>4, <3>5 DEF leg, flight
  <2>2. CASE Share!AddSurface(g, a, b)
    <3>1. PICK s \in SharedStopovers \cup {None} :
            shared' = [shared EXCEPT ![g] = Append(@, Share!Surface(a, b, s))]
      BY <2>2 DEF Share!AddSurface
    <3> DEFINE leg == Share!Surface(a, b, s)
    <3>2. leg \in TripLegs /\ Unknown(leg) /\ leg.from = a
      BY <1>1, SurfaceFields
    <3>3. leg.surface /\ ~leg.assumed
      BY <1>1, SurfaceFlags
    <3> HIDE DEF leg
    <3>4. Plain(leg)
      BY <3>2, <3>3 DEF Plain, Unknown
    <3> QED BY <3>1, <3>2, <3>4 DEF leg, Unknown
  <2> QED BY <2>1, <2>2
<1> HIDE DEF a, b
<1>5. PICK leg \in TripLegs : /\ Plain(leg) /\ leg.reference = None /\ leg.from = a
                              /\ shared' = [shared EXCEPT ![g] = Append(@, leg)]
  BY <1>4
<1>6. Editable(shared')
  BY <1>2, <1>5, AddedLeg DEF ShareInv
<1> QED BY <1>3, <1>6 DEF ShareInv, Editable

LEMMA Plannings ==
  ASSUME Share!ShareAssumption, ShareInv, NEW r \in SharedReferences, Share!PlanReference(r)
  PROVE  ShareInv'
<1> DEFINE flight == Share!Flight(r[1], r[2])
           leg == [flight EXCEPT !.reference = r]
<1>1. r \in Share!Codes \X Share!Codes /\ r # None
  BY DEF Share!ShareAssumption
<1>2. r[1] \in Share!Codes /\ r[2] \in Share!Codes /\ r = <<r[1], r[2]>>
  BY <1>1
<1>3. /\ flight \in TripLegs /\ Unknown(flight) /\ flight.from = r[1] /\ flight.to = r[2]
  BY <1>2, FlightFields
<1>4. ~flight.surface /\ ~flight.assumed
  BY FlightFlags
<1>5. shared' = << <<leg>> >> /\ cabin' = cabin
  BY DEF Share!PlanReference
<1> HIDE DEF flight
<1>6. /\ leg \in TripLegs /\ leg.from = r[1] /\ leg.to = r[2] /\ leg.reference = r
      /\ leg.number = None /\ leg.surface = flight.surface /\ leg.assumed = flight.assumed
  BY <1>3 DEF TripLegs, Share!Maybe, Unknown
<1> HIDE DEF leg
<1>7. Plain(leg)
  BY <1>2, <1>4, <1>6, <1>1 DEF Plain
<1>8. Editable(shared')
  BY <1>5, <1>6, <1>7, OneLeg
<1> QED BY <1>5, <1>8 DEF ShareInv, Editable

LEMMA Replaced ==
  ASSUME ShareInv, NEW g \in DOMAIN shared, NEW i \in DOMAIN shared[g],
         NEW leg \in TripLegs, Plain(leg),
         leg.from = shared[g][i].from, leg.to = shared[g][i].to,
         leg.reference = None \/ leg.reference = shared[g][i].reference,
         Share!Changed(g, i, leg)
  PROVE  ShareInv'
<1>1. shared' = [shared EXCEPT ![g][i] = leg] /\ cabin' = cabin
  BY DEF Share!Changed
<1>2. Editable(shared')
  BY <1>1, ChangedLeg DEF ShareInv
<1> QED BY <1>1, <1>2 DEF ShareInv, Editable

\* What the edits of a leg do to it.
LEMMA LegEdits ==
  ASSUME Share!ShareAssumption, ShareInv, NEW g \in DOMAIN shared, NEW i \in DOMAIN shared[g],
         \/ \E x \in Airlines \cup {None} : Share!ChangeCarrier(g, i, x)
         \/ \E f \in {None, "J"} : Share!ChangeFareClass(g, i, f)
         \/ \E s \in SharedStopovers \cup {None} : Share!ChangeStopover(g, i, s)
         \/ Share!ChangeSurface(g, i)
         \/ \E x \in Airlines : Share!SelectExistingFlight(g, i, x)
  PROVE  ShareInv'
<1> DEFINE leg == shared[g][i]
<1>1. leg \in TripLegs /\ Plain(leg)
  BY GroupFields DEF ShareInv, Editable, Tellable
<1>2. /\ leg.from \in Share!Codes /\ leg.to \in Share!Codes /\ leg.stopover \in Stops
      /\ leg.assumed \in BOOLEAN /\ leg.surface \in BOOLEAN
  BY <1>1, LegFields
<1>3. /\ None \notin Airlines /\ SharedStopovers \cup {None} \subseteq Stops /\ "number" \in SharedNumbers
      /\ "J" \in SharedFares
  BY DEF Share!ShareAssumption, Stops, Share!Maybe
<1>4. ASSUME NEW x \in Airlines \cup {None}, Share!ChangeCarrier(g, i, x)
      PROVE  ShareInv'
  <2>1. CASE x = None
    <3> DEFINE new == [leg EXCEPT !.carrier = None, !.assumed = FALSE, !.number = None]
    <3>1. ~leg.surface /\ leg.reference # None /\ Share!Changed(g, i, new)
      BY <1>4, <2>1 DEF Share!ChangeCarrier, Share!WithoutCarrier
    <3> HIDE DEF leg
    <3>2. /\ new \in TripLegs /\ new.from = leg.from /\ new.to = leg.to
          /\ new.reference = leg.reference /\ new.number = None /\ ~new.assumed
          /\ new.surface = leg.surface
      BY <1>1 DEF TripLegs, Share!Maybe
    <3> HIDE DEF new
    <3>3. Plain(new)
      BY <1>1, <3>1, <3>2 DEF Plain
    <3> QED BY <3>1, <3>2, <3>3, Replaced DEF leg
  <2>2. CASE x \in Airlines
    <3> DEFINE assumed == leg.assumed \/ leg.reference # None
               new == [leg EXCEPT !.carrier = x, !.number = None, !.assumed = assumed]
    <3>1. ~leg.surface /\ Share!Changed(g, i, new)
      BY <1>3, <1>4, <2>2 DEF Share!ChangeCarrier
    <3> HIDE DEF leg
    <3>2. assumed \in BOOLEAN
      OBVIOUS
    <3> HIDE DEF assumed
    <3>3. /\ new \in TripLegs /\ new.from = leg.from /\ new.to = leg.to
          /\ new.reference = leg.reference /\ new.carrier = x
          /\ new.surface = leg.surface
      BY <1>1, <2>2, <3>2 DEF TripLegs, Share!Maybe
    <3> HIDE DEF new
    <3>4. Plain(new)
      BY <1>1, <1>3, <2>2, <3>1, <3>3 DEF Plain
    <3> QED BY <3>1, <3>3, <3>4, Replaced DEF leg
  <2> QED BY <2>1, <2>2
<1>5. ASSUME NEW f \in {None, "J"}, Share!ChangeFareClass(g, i, f)
      PROVE  ShareInv'
  <2> DEFINE new == [leg EXCEPT !.fare = f]
  <2>1. ~leg.surface /\ Share!Changed(g, i, new)
    BY <1>5 DEF Share!ChangeFareClass
  <2> HIDE DEF leg
  <2>2. /\ new \in TripLegs /\ new.from = leg.from /\ new.to = leg.to
        /\ new.reference = leg.reference /\ new.carrier = leg.carrier /\ new.number = leg.number
        /\ new.surface = leg.surface /\ new.assumed = leg.assumed
    BY <1>1, <1>3 DEF TripLegs, Share!Maybe
  <2> HIDE DEF new
  <2>3. Plain(new)
    BY <1>1, <2>1, <2>2 DEF Plain
  <2> QED BY <2>1, <2>2, <2>3, Replaced DEF leg
<1>6. ASSUME NEW s \in SharedStopovers \cup {None}, Share!ChangeStopover(g, i, s)
      PROVE  ShareInv'
  <2> DEFINE new == [leg EXCEPT !.stopover = s]
  <2>1. Share!Changed(g, i, new)
    BY <1>6 DEF Share!ChangeStopover
  <2> HIDE DEF leg
  <2>2. /\ new \in TripLegs /\ new.from = leg.from /\ new.to = leg.to
        /\ new.reference = leg.reference /\ new.carrier = leg.carrier /\ new.number = leg.number
        /\ new.cabin = leg.cabin /\ new.fare = leg.fare
        /\ new.surface = leg.surface /\ new.assumed = leg.assumed
    BY <1>1, <1>3 DEF TripLegs
  <2> HIDE DEF new
  <2>3. Plain(new)
    BY <1>1, <2>2 DEF Plain
  <2> QED BY <2>1, <2>2, <2>3, Replaced DEF leg
<1>7. ASSUME Share!ChangeSurface(g, i)
      PROVE  ShareInv'
  <2>1. CASE leg.surface
    <3> DEFINE flight == Share!Flight(leg.from, leg.to)
    <3>1. PICK x \in Airlines :
            Share!Changed(g, i, [flight EXCEPT !.carrier = x, !.stopover = leg.stopover])
      BY <1>7, <2>1 DEF Share!ChangeSurface
    <3> DEFINE new == [flight EXCEPT !.carrier = x, !.stopover = leg.stopover]
    <3>2. /\ flight \in TripLegs /\ Unknown(flight) /\ flight.from = leg.from
          /\ flight.to = leg.to
      BY <1>2, FlightFields
    <3>3. ~flight.surface
      BY FlightFlags
    <3> HIDE DEF flight, leg
    <3>4. /\ new \in TripLegs /\ new.from = leg.from /\ new.to = leg.to
          /\ new.reference = None /\ new.carrier = x /\ new.surface = flight.surface
      BY <1>2, <3>2 DEF TripLegs, Share!Maybe, Unknown
    <3> HIDE DEF new
    <3>5. Plain(new)
      BY <1>3, <3>3, <3>4 DEF Plain
    <3>6. Share!Changed(g, i, new)
      BY <3>1 DEF new
    <3> QED BY <3>4, <3>5, <3>6, Replaced DEF leg
  <2>2. CASE ~leg.surface
    <3> DEFINE new == Share!Surface(leg.from, leg.to, leg.stopover)
    <3>1. Share!Changed(g, i, new)
      BY <1>7, <2>2 DEF Share!ChangeSurface
    <3>2. /\ new \in TripLegs /\ Unknown(new) /\ new.from = leg.from /\ new.to = leg.to
      BY <1>2, SurfaceFields
    <3>3. new.surface /\ ~new.assumed
      BY <1>2, SurfaceFlags
    <3> HIDE DEF new
    <3>4. Plain(new) /\ new.reference = None
      BY <3>2, <3>3 DEF Plain, Unknown
    <3> QED BY <3>1, <3>2, <3>4, Replaced
  <2> QED BY <2>1, <2>2
<1>8. ASSUME NEW x \in Airlines, Share!SelectExistingFlight(g, i, x)
      PROVE  ShareInv'
  <2> DEFINE new == [leg EXCEPT !.carrier = x, !.number = "number", !.assumed = FALSE]
  <2>1. ~leg.surface /\ Share!Changed(g, i, new)
    BY <1>8 DEF Share!SelectExistingFlight
  <2> HIDE DEF leg
  <2>2. /\ new \in TripLegs /\ new.from = leg.from /\ new.to = leg.to
        /\ new.reference = leg.reference /\ new.carrier = x /\ new.surface = leg.surface
    BY <1>1, <1>3 DEF TripLegs, Share!Maybe
  <2> HIDE DEF new
  <2>3. Plain(new)
    BY <1>1, <1>3, <2>1, <2>2 DEF Plain
  <2> QED BY <2>1, <2>2, <2>3, Replaced DEF leg
<1> QED BY <1>4, <1>5, <1>6, <1>7, <1>8

\* The itinerary's cabin stays one of the cabins.
LEMMA CabinChanges ==
  ASSUME Share!ShareAssumption, ShareInv, NEW g \in DOMAIN shared, NEW i \in DOMAIN shared[g],
         NEW c \in Cabins \cup {None}, Share!ChangeCabin(g, i, c)
  PROVE  ShareInv'
<1> DEFINE leg == shared[g][i]
           new == [leg EXCEPT !.cabin = c]
           sectors == [shared EXCEPT ![g][i].cabin = c]
           cabins == {l.cabin : l \in UNION {Share!ToSet(sectors[h]) : h \in DOMAIN sectors}} \ {None}
<1>1. leg \in TripLegs /\ Plain(leg)
  BY GroupFields DEF ShareInv, Editable, Tellable
<1>2. /\ ~leg.surface /\ shared' = sectors
      /\ cabin' = IF cabins = {} THEN cabin ELSE Share!Max(cabins)
  BY DEF Share!ChangeCabin
<1>3. sectors = [shared EXCEPT ![g][i] = new]
  OBVIOUS
<1>4. /\ new \in TripLegs /\ new.from = leg.from /\ new.to = leg.to
      /\ new.reference = leg.reference /\ new.carrier = leg.carrier /\ new.number = leg.number
      /\ new.surface = leg.surface /\ new.assumed = leg.assumed
  <2> HIDE DEF leg
  <2> QED BY <1>1 DEF TripLegs, Share!Maybe
<1> HIDE DEF new
<1>5. Plain(new)
  <2> HIDE DEF leg
  <2> QED BY <1>1, <1>2, <1>4 DEF Plain
<1>6. Editable(sectors)
  <2>1. Editable([shared EXCEPT ![g][i] = new])
    BY <1>4, <1>5, ChangedLeg DEF ShareInv
  <2> QED BY <1>3, <2>1
<1> HIDE DEF sectors
<1>7. cabins \subseteq Cabins
  <2> SUFFICES ASSUME NEW h \in DOMAIN sectors, NEW l \in Share!ToSet(sectors[h])
               PROVE  l.cabin \in Cabins \cup {None}
    OBVIOUS
  <2>1. l \in TripLegs
    BY <1>6, GroupFields DEF Editable, Share!ToSet
  <2> QED BY <2>1, LegFields DEF Share!Maybe
<1> HIDE DEF cabins
<1>8. cabin' \in Cabins
  BY <1>2, <1>7, GreatestCabin DEF ShareInv
<1> QED BY <1>2, <1>6, <1>8 DEF ShareInv, Editable

LEMMA ShareSteps ==
  ASSUME Share!ShareAssumption, ShareInv, [Share!Next]_Share!vars
  PROVE  ShareInv'
<1>1. ASSUME NEW g \in DOMAIN shared, NEW p \in SharedPairs,
             Share!AddFlight(g, p[1], p[2]) \/ Share!AddSurface(g, p[1], p[2])
      PROVE  ShareInv'
  BY <1>1, Additions
<1>2. ASSUME NEW r \in SharedReferences, Share!PlanReference(r)
      PROVE  ShareInv'
  BY <1>2, Plannings
<1>3. ASSUME NEW g \in DOMAIN shared, Share!RemoveGroup(g)
      PROVE  ShareInv'
  BY <1>3, RemovedGroup DEF Share!RemoveGroup, ShareInv, Editable
<1>4. ASSUME NEW g \in DOMAIN shared, NEW i \in DOMAIN shared[g], Share!EditLeg(g, i)
      PROVE  ShareInv'
  BY <1>4, LegEdits, CabinChanges DEF Share!EditLeg
<1>5. ASSUME Share!AddGroup
      PROVE  ShareInv'
  BY <1>5, AddedGroup DEF Share!AddGroup, ShareInv, Editable
<1>6. ASSUME NEW trip \in Share!TripsOfLinks, Share!Open(trip)
      PROVE  ShareInv'
  <2>1. PICK link \in SharedLinks : Share!Parses(link) /\ trip = Share!Parse(link)
    BY DEF Share!TripsOfLinks
  <2>2. Editable(trip.groups) /\ trip.cabin \in Cabins
    BY <2>1, OpenedTrip
  <2> QED BY <1>6, <2>2 DEF Share!Open, ShareInv, Editable
<1>7. CASE UNCHANGED Share!vars
  BY <1>7 DEF Share!vars, ShareInv, Editable
<1> QED BY <1>1, <1>2, <1>3, <1>4, <1>5, <1>6, <1>7 DEF Share!Next

\* A trip the editor made can be told by a link: a sector overland has nothing of a
\* flight, a leg without a carrier refers to a timetable, every leg begins at the
\* airport where the one before it ends.
THEOREM TripsAreTellable == ASSUME Share!ShareAssumption PROVE Share!Spec => []ShareInv
<1>1. Share!Init => ShareInv
  BY ShareBegins
<1>2. ShareInv /\ [Share!Next]_Share!vars => ShareInv'
  BY ShareSteps
<1> QED BY <1>1, <1>2, PTL DEF Share!Spec

\* encodeShareUrl and parseShareUrl, after any edits and any opened links: the link
\* opens, and tells every leg with the same airports, for trips of any length.
THEOREM LinksOpenAgain == ASSUME Share!ShareAssumption PROVE Share!Spec => []Share!RoundTrip
<1>1. ShareInv => Share!RoundTrip
  BY LinkOpens DEF Share!ShareAssumption
<1> QED BY <1>1, TripsAreTellable, PTL

-----------------------------------------------------------------------------
(***************************************************************************)
(* Next-leg evidence.                                                      *)
(***************************************************************************)
EvidenceInv == catalog \in Catalogs /\ moment \in Nat

\* Only what is offered is shown, or the row of a listing.
Says(line, entity) ==
  /\ line.status = Evidence!ScheduleStatus(entity)
  /\ line.numbers = Evidence!Numbers(entity)
  /\ line.identity = Evidence!Option(entity).identity

ShownIsOffered ==
  \A entity \in DOMAIN Evidence!Shown :
    /\ Evidence!CanUse(entity)
    /\ \/ Evidence!Shown[entity] = Evidence!Listed
       \/ /\ entity \in Evidence!Keys /\ Evidence!Offered(entity)
          /\ Says(Evidence!Shown[entity], entity)

LEMMA WhatIsShown == ShownIsOffered
<1> SUFFICES ASSUME NEW entity \in DOMAIN Evidence!Shown
             PROVE  /\ Evidence!CanUse(entity)
                    /\ \/ Evidence!Shown[entity] = Evidence!Listed
                       \/ /\ entity \in Evidence!Keys /\ Evidence!Offered(entity)
                          /\ Says(Evidence!Shown[entity], entity)
  BY DEF ShownIsOffered
<1> DEFINE ways == Evidence!Index
           lit == [ways EXCEPT ![None].live = TRUE]
           alone == [e \in {None} |-> Evidence!Listed]
<1>1. Evidence!Shown = ways \/ (None \in DOMAIN ways /\ Evidence!Shown = lit)
        \/ (Evidence!CanUse(None) /\ Evidence!Shown = alone)
  BY DEF Evidence!Shown
<1>2. /\ DOMAIN ways = {e \in Evidence!Keys : Evidence!Offered(e)}
      /\ \A e \in DOMAIN ways : ways[e] = Evidence!Option(e)
  BY DEF Evidence!Index
<1>3. \A e : Says(Evidence!Option(e), e)
  BY DEF Evidence!Option, Says
<1>4. ASSUME NEW e \in DOMAIN ways
      PROVE  Says([ways[e] EXCEPT !.live = TRUE], e)
  BY <1>2 DEF Evidence!Option, Says
<1>5. Evidence!Offered(entity) => Evidence!CanUse(entity)
  BY DEF Evidence!Offered
<1> HIDE DEF ways
<1>6. CASE Evidence!Shown = ways
  BY <1>2, <1>3, <1>5, <1>6
<1>7. CASE None \in DOMAIN ways /\ Evidence!Shown = lit
  <2>1. DOMAIN lit = DOMAIN ways
        /\ lit[entity] = IF entity = None THEN [ways[None] EXCEPT !.live = TRUE] ELSE ways[entity]
    BY <1>7
  <2> HIDE DEF lit
  <2> QED BY <1>2, <1>3, <1>4, <1>5, <1>7, <2>1
<1>8. CASE Evidence!CanUse(None) /\ Evidence!Shown = alone
  BY <1>8
<1> QED BY <1>1, <1>6, <1>7, <1>8

LEMMA WhatIsShownNext == ShownIsOffered'
BY WhatIsShown, PTL

\* passengerRouteUseDecision and buildNextLegIndex: nothing but a listing is shown of a
\* sector that is refused.
LEMMA Refusals == Evidence!RefusalsHold
<1> SUFFICES ASSUME NEW entity \in DOMAIN Evidence!Shown,
                    \/ Evidence!Gap
                    \/ /\ entity = None
                       /\ \E i \in DOMAIN catalog.schedules :
                            /\ catalog.schedules[i].status = "suspended"
                            /\ Evidence!InSeason(catalog.schedules[i], date)
             PROVE  Evidence!Shown[entity] = Evidence!Listed
  BY WhatIsShown DEF ShownIsOffered, Evidence!RefusalsHold
<1>1. ~Evidence!Offered(entity)
  <2>1. CASE Evidence!Gap
    BY <2>1 DEF Evidence!Offered
  <2>2. CASE ~Evidence!Gap
    <3>1. Evidence!Schedules(entity) = catalog.schedules
      BY <2>2 DEF Evidence!Schedules
    <3>2. Evidence!Suspended(entity)
      BY <2>2, <3>1 DEF Evidence!Suspended
    <3> QED BY <3>2 DEF Evidence!Offered
  <2> QED BY <2>1, <2>2
<1> QED BY <1>1, WhatIsShown DEF ShownIsOffered

LEMMA LeastTaken ==
  ASSUME NEW T, T \subseteq Nat, T # {}
  PROVE  Evidence!Min(T) \in T
<1>1. \E m \in T : \A k \in T : m <= k
  BY LeastNat
<1> QED BY <1>1 DEF Evidence!Min

\* scheduleStatus: a covered date rests on a row that is fresh, in its window and not
\* withdrawn for the date.
LEMMA Coverage ==
  ASSUME Evidence!EvidenceAssumption, EvidenceInv
  PROVE  Evidence!CoveredRests
<1> SUFFICES ASSUME NEW entity \in DOMAIN Evidence!Shown,
                    Evidence!Shown[entity].status = "covered"
             PROVE  \/ \E line \in catalog.services :
                         /\ line.entity = entity /\ Evidence!In(line, date) /\ Evidence!Fresh(line)
                         /\ date \notin line.removed
                         /\ date \in line.added \/ WeekdayOf[date] \in line.days
                    \/ /\ entity = None
                       /\ \E i \in DOMAIN catalog.schedules :
                            /\ Evidence!Active(catalog.schedules[i], date)
                            /\ WeekdayOf[date] \in catalog.schedules[i].days
  BY DEF Evidence!CoveredRests
<1>1. Evidence!ScheduleStatus(entity) = "covered"
  <2>1. Evidence!Listed.status # "covered"
    BY DEF Evidence!Listed
  <2> QED BY <2>1, WhatIsShown DEF ShownIsOffered, Says
<1>2. \/ \E service \in Evidence!ActiveServices(entity) : Evidence!RunsToday(service)
      \/ /\ Evidence!FirstActive(entity) # Evidence!NoRow
         /\ WeekdayOf[date] \in Evidence!FirstActive(entity).days
  BY <1>1 DEF Evidence!ScheduleStatus
<1>3. CASE \E service \in Evidence!ActiveServices(entity) : Evidence!RunsToday(service)
  BY <1>3 DEF Evidence!ActiveServices, Evidence!Services, Evidence!RunsToday
<1>4. CASE /\ Evidence!FirstActive(entity) # Evidence!NoRow
           /\ WeekdayOf[date] \in Evidence!FirstActive(entity).days
  <2> DEFINE lines == Evidence!Schedules(entity)
             inForce == {i \in DOMAIN lines : Evidence!Active(lines[i], date)}
             first == Evidence!Min(inForce)
  <2>1. inForce # {} /\ Evidence!FirstActive(entity) = lines[first]
    BY <1>4 DEF Evidence!FirstActive
  <2>2. entity = None /\ lines = catalog.schedules
    <3>1. lines = IF entity = None THEN catalog.schedules ELSE << >>
      BY DEF Evidence!Schedules
    <3> QED BY <2>1, <3>1
  <2>3. DOMAIN lines \subseteq Nat
    <3>1. PICK R : catalog.schedules \in Seq(R)
      BY DEF Evidence!EvidenceAssumption, EvidenceInv
    <3> QED BY <2>2, <3>1
  <2> HIDE DEF lines
  <2>4. first \in inForce
    <3> HIDE DEF inForce
    <3>1. inForce \subseteq Nat
      BY <2>3 DEF inForce
    <3> QED BY <2>1, <3>1, LeastTaken
  <2>5. first \in DOMAIN lines /\ Evidence!Active(lines[first], date)
    BY <2>4
  <2> HIDE DEF first
  <2> QED BY <1>4, <2>1, <2>2, <2>5
<1> QED BY <1>2, <1>3, <1>4

LEMMA EvidenceBegins == Evidence!Init => EvidenceInv
BY DEF Evidence!Init, EvidenceInv

LEMMA EvidenceSteps == EvidenceInv /\ [Evidence!Next]_Evidence!vars => EvidenceInv'
<1> SUFFICES ASSUME EvidenceInv, [Evidence!Next]_Evidence!vars PROVE EvidenceInv'
  OBVIOUS
<1>1. CASE Evidence!Tick
  BY <1>1 DEF Evidence!Tick, EvidenceInv
<1>2. CASE Evidence!Listing
  BY <1>2 DEF Evidence!Listing, EvidenceInv
<1>3. CASE \E day \in Dates : Evidence!PickDate(day)
  BY <1>3 DEF Evidence!PickDate, EvidenceInv
<1>4. CASE UNCHANGED Evidence!vars
  BY <1>4 DEF Evidence!vars, EvidenceInv
<1> QED BY <1>1, <1>2, <1>3, <1>4 DEF Evidence!Next

\* What does not depend on the time.
LEMMA Timeless ==
  ASSUME catalog' = catalog, date' = date, NEW entity
  PROVE  /\ Evidence!Route(entity)' = Evidence!Route(entity)
         /\ Evidence!Schedules(entity)' = Evidence!Schedules(entity)
         /\ Evidence!Positive(entity)' = Evidence!Positive(entity)
         /\ Evidence!Services(entity)' = Evidence!Services(entity)
         /\ Evidence!FirstActive(entity)' = Evidence!FirstActive(entity)
         /\ Evidence!Gap' = Evidence!Gap
         /\ Evidence!CanUse(entity)' = Evidence!CanUse(entity)
         /\ Evidence!Suspended(entity)' = Evidence!Suspended(entity)
<1>1. Evidence!Route(entity)' = Evidence!Route(entity)
  BY DEF Evidence!Route
<1>2. Evidence!Schedules(entity)' = Evidence!Schedules(entity)
  BY DEF Evidence!Schedules
<1>3. Evidence!Positive(entity)' = Evidence!Positive(entity)
  BY <1>2 DEF Evidence!Positive
<1>4. Evidence!Services(entity)' = Evidence!Services(entity)
  BY DEF Evidence!Services
<1>5. Evidence!FirstActive(entity)' = Evidence!FirstActive(entity)
  BY <1>2 DEF Evidence!FirstActive
<1>6. Evidence!Gap' = Evidence!Gap
  BY DEF Evidence!Gap
<1>7. Evidence!CanUse(entity)' = Evidence!CanUse(entity)
  <2>1. \A use : Evidence!Permits(use)' = Evidence!Permits(use)
    BY DEF Evidence!Permits
  <2> QED BY <2>1 DEF Evidence!CanUse
<1>8. Evidence!Suspended(entity)' = Evidence!Suspended(entity)
  <2>1. Evidence!InWindow(Evidence!Route(entity))' = Evidence!InWindow(Evidence!Route(entity))
    BY <1>1 DEF Evidence!InWindow
  <2> QED BY <1>1, <1>2, <2>1 DEF Evidence!Suspended
<1> QED BY <1>1, <1>2, <1>3, <1>4, <1>5, <1>6, <1>7, <1>8

\* Evidence only expires.
LEMMA Withdrawals ==
  ASSUME Evidence!EvidenceAssumption, EvidenceInv, moment' \in Nat, moment' > moment,
         catalog' = catalog, date' = date, NEW entity
  PROVE  /\ Evidence!ActiveServices(entity)' \subseteq Evidence!ActiveServices(entity)
         /\ Evidence!ActiveReferences(entity)' \subseteq Evidence!ActiveReferences(entity)
         /\ Evidence!Offered(entity)' => Evidence!Offered(entity)
         /\ Evidence!Unverified(entity) => Evidence!Unverified(entity)'
         /\ Evidence!Numbers(entity)' \subseteq Evidence!Numbers(entity)
         /\ (Evidence!ScheduleStatus(entity) = "covered")'
              => Evidence!ScheduleStatus(entity) = "covered"
         /\ (Evidence!Option(entity).identity = "confirmed")'
              => Evidence!Option(entity).identity = "confirmed"
<1>1. \A line \in catalog.services \cup catalog.references :
        Evidence!Fresh(line)' => Evidence!Fresh(line)
  <2> SUFFICES ASSUME NEW line \in catalog.services \cup catalog.references, Evidence!Fresh(line)'
               PROVE  Evidence!Fresh(line)
    OBVIOUS
  <2> DEFINE checked == Sources[line.source].checked
             review == Sources[line.source].review
  <2>1. checked \in Int /\ review \in Int /\ checked <= Skew /\ Skew \in Int /\ moment \in Nat
    BY DEF Evidence!EvidenceAssumption, EvidenceInv
  <2>2. moment' < review
    BY DEF Evidence!Fresh
  <2> SUFFICES checked <= moment + Skew /\ moment < review
    BY DEF Evidence!Fresh
  <2> DEFINE later == moment'
  <2>3. later \in Nat /\ later > moment /\ later < review
    BY <2>2
  <2> HIDE DEF checked, review, later
  <2> QED BY <2>1, <2>3
<1>2. Evidence!ActiveServices(entity)' \subseteq Evidence!ActiveServices(entity)
  BY <1>1, Timeless DEF Evidence!ActiveServices, Evidence!Services
<1>3. Evidence!ActiveReferences(entity)' \subseteq Evidence!ActiveReferences(entity)
  BY <1>1 DEF Evidence!ActiveReferences
<1>4. Evidence!Offered(entity)' => Evidence!Offered(entity)
  BY <1>2, <1>3, Timeless DEF Evidence!Offered
<1>5. Evidence!Unverified(entity) => Evidence!Unverified(entity)'
  BY <1>2, <1>3, Timeless DEF Evidence!Unverified
<1>6. Evidence!Numbers(entity)' \subseteq Evidence!Numbers(entity)
  <2>1. Evidence!RouteNumbers(entity)' = Evidence!RouteNumbers(entity)
    BY Timeless DEF Evidence!RouteNumbers
  <2> QED BY <1>2, <1>3, <1>5, <2>1, Timeless DEF Evidence!Numbers
<1>7. (Evidence!ScheduleStatus(entity) = "covered")' => Evidence!ScheduleStatus(entity) = "covered"
  <2> SUFFICES ASSUME (Evidence!ScheduleStatus(entity) = "covered")'
               PROVE  Evidence!ScheduleStatus(entity) = "covered"
    OBVIOUS
  <2>1. \/ (\E service \in Evidence!ActiveServices(entity) : Evidence!RunsToday(service))'
        \/ /\ Evidence!FirstActive(entity)' # Evidence!NoRow
           /\ WeekdayOf[date] \in Evidence!FirstActive(entity)'.days
    BY DEF Evidence!ScheduleStatus
  <2>2. \A service : Evidence!RunsToday(service)' = Evidence!RunsToday(service)
    BY DEF Evidence!RunsToday
  <2>3. \/ \E service \in Evidence!ActiveServices(entity) : Evidence!RunsToday(service)
        \/ /\ Evidence!FirstActive(entity) # Evidence!NoRow
           /\ WeekdayOf[date] \in Evidence!FirstActive(entity).days
    BY <1>2, <2>1, <2>2, Timeless
  <2> QED BY <2>3 DEF Evidence!ScheduleStatus
<1>8. (Evidence!Option(entity).identity = "confirmed")'
        => Evidence!Option(entity).identity = "confirmed"
  BY <1>5 DEF Evidence!Option
<1> QED BY <1>2, <1>3, <1>4, <1>5, <1>6, <1>7, <1>8

\* What is offered is shown whether a listing is there or not.
OfferedIsShown ==
  \A entity \in DOMAIN Evidence!Index :
    /\ entity \in DOMAIN Evidence!Shown /\ Says(Evidence!Shown[entity], entity)
    /\ [Evidence!Shown[entity] EXCEPT !.live = FALSE] = Evidence!Index[entity]

LEMMA OffersAreShown == OfferedIsShown
<1> SUFFICES ASSUME NEW entity \in DOMAIN Evidence!Index
             PROVE  /\ entity \in DOMAIN Evidence!Shown /\ Says(Evidence!Shown[entity], entity)
                    /\ [Evidence!Shown[entity] EXCEPT !.live = FALSE] = Evidence!Index[entity]
  BY DEF OfferedIsShown
<1> DEFINE ways == Evidence!Index
           option == Evidence!Option(entity)
           lit == [ways EXCEPT ![None].live = TRUE]
<1>1. entity \in DOMAIN ways /\ ways[entity] = option
  BY DEF Evidence!Index
<1>2. \/ Evidence!Shown = ways
      \/ None \in DOMAIN ways /\ Evidence!Shown = lit
  <2>1. CASE None \in DOMAIN ways
    BY <2>1 DEF Evidence!Shown
  <2>2. CASE None \notin DOMAIN ways
    <3>1. DOMAIN ways \ {None} # {}
      BY <1>1, <2>2
    <3> QED BY <3>1 DEF Evidence!Shown
  <2> QED BY <2>1, <2>2
<1> DEFINE shape == [status : {option.status}, numbers : {option.numbers},
                     candidates : {option.candidates}, identity : {option.identity},
                     live : BOOLEAN]
<1>3. /\ option \in shape /\ option.live = FALSE
      /\ Says(option, entity) /\ Says([option EXCEPT !.live = TRUE], entity)
  BY DEF Evidence!Option, Says
<1>6. /\ [option EXCEPT !.live = FALSE] = option
      /\ [[option EXCEPT !.live = TRUE] EXCEPT !.live = FALSE] = option
  <2> HIDE DEF option
  <2> QED BY <1>3
<1> HIDE DEF shape
<1> HIDE DEF ways, option
<1>4. Evidence!Shown[entity] = option \/ Evidence!Shown[entity] = [option EXCEPT !.live = TRUE]
  BY <1>1, <1>2
<1>5. DOMAIN Evidence!Shown = DOMAIN ways
  BY <1>2
<1>7. Says(Evidence!Shown[entity], entity)
  BY <1>3, <1>4
<1>8. [Evidence!Shown[entity] EXCEPT !.live = FALSE] = option
  <2> DEFINE shown == Evidence!Shown[entity]
  <2>2. shown = option \/ shown = [option EXCEPT !.live = TRUE]
    BY <1>4
  <2> HIDE DEF shown
  <2>3. [shown EXCEPT !.live = FALSE] = option
    BY <1>6, <2>2
  <2> QED BY <2>3 DEF shown
<1>9. entity \in DOMAIN Evidence!Shown
  BY <1>1, <1>5
<1>10. Evidence!Index[entity] = option
  BY <1>1 DEF ways
<1> QED BY <1>7, <1>8, <1>9, <1>10

LEMMA OffersAreShownNext == OfferedIsShown'
BY OffersAreShown, PTL

LEMMA EvidenceIsKept ==
  ASSUME Evidence!EvidenceAssumption, EvidenceInv, EvidenceInv', [Evidence!Next]_Evidence!vars
  PROVE  Evidence!EvidenceKept
<1>1. ASSUME moment' > moment PROVE Evidence!TimeWithdraws
  <2>1. /\ moment' \in Nat /\ moment' > moment /\ catalog' = catalog /\ date' = date
    BY <1>1 DEF Evidence!Next, Evidence!Tick, Evidence!Listing, Evidence!PickDate,
                Evidence!vars, EvidenceInv
  <2> SUFFICES ASSUME NEW entity \in DOMAIN Evidence!Shown',
                      Evidence!Shown'[entity] # Evidence!Listed
               PROVE  /\ entity \in DOMAIN Evidence!Shown
                      /\ Evidence!Shown'[entity].numbers \subseteq Evidence!Shown[entity].numbers
                      /\ Evidence!Shown'[entity].status = "covered"
                           => Evidence!Shown[entity].status = "covered"
                      /\ Evidence!Shown'[entity].identity = "confirmed"
                           => Evidence!Shown[entity].identity = "confirmed"
    BY DEF Evidence!TimeWithdraws
  <2>3. /\ entity \in Evidence!Keys /\ Evidence!Offered(entity)'
        /\ Says(Evidence!Shown[entity], entity)'
    BY WhatIsShownNext DEF ShownIsOffered, Evidence!Listed
  <2>4. Evidence!Offered(entity)
    BY <2>1, <2>3, Withdrawals
  <2>5. entity \in DOMAIN Evidence!Shown /\ Says(Evidence!Shown[entity], entity)
    BY <2>3, <2>4, OffersAreShown DEF OfferedIsShown, Evidence!Index
  <2>6. /\ Evidence!Numbers(entity)' \subseteq Evidence!Numbers(entity)
        /\ (Evidence!ScheduleStatus(entity) = "covered")'
             => Evidence!ScheduleStatus(entity) = "covered"
        /\ (Evidence!Option(entity).identity = "confirmed")'
             => Evidence!Option(entity).identity = "confirmed"
    BY <2>1, Withdrawals
  <2> QED BY <2>3, <2>5, <2>6 DEF Says
<1>2. ASSUME listed' # listed PROVE Evidence!ListingAddsOnly
  <2>1. catalog' = catalog /\ date' = date /\ moment' = moment
    BY <1>2 DEF Evidence!Next, Evidence!Tick, Evidence!Listing, Evidence!PickDate, Evidence!vars
  <2>2. Evidence!Index' = Evidence!Index
    <3>1. \A line : Evidence!Fresh(line)' = Evidence!Fresh(line)
      BY <2>1 DEF Evidence!Fresh
    <3>2. \A e : /\ Evidence!ActiveServices(e)' = Evidence!ActiveServices(e)
                  /\ Evidence!ActiveReferences(e)' = Evidence!ActiveReferences(e)
      BY <2>1, <3>1, Timeless DEF Evidence!ActiveServices, Evidence!ActiveReferences
    <3>3. \A e : Evidence!Offered(e)' = Evidence!Offered(e)
      BY <2>1, <3>2, Timeless DEF Evidence!Offered
    <3>4. \A e : Evidence!Option(e)' = Evidence!Option(e)
      <4> SUFFICES ASSUME NEW e PROVE Evidence!Option(e)' = Evidence!Option(e)
        OBVIOUS
      <4>1. Evidence!Unverified(e)' = Evidence!Unverified(e)
        BY <2>1, <3>2, Timeless DEF Evidence!Unverified
      <4>2. Evidence!RouteNumbers(e)' = Evidence!RouteNumbers(e)
        BY <2>1, Timeless DEF Evidence!RouteNumbers
      <4>3. Evidence!Numbers(e)' = Evidence!Numbers(e)
        BY <2>1, <3>2, <4>1, <4>2, Timeless DEF Evidence!Numbers
      <4>4. Evidence!Candidates(e)' = Evidence!Candidates(e)
        BY <2>1, <4>1, <4>2, <4>3, Timeless DEF Evidence!Candidates
      <4>5. Evidence!ScheduleStatus(e)' = Evidence!ScheduleStatus(e)
        <5>1. \A service : Evidence!RunsToday(service)' = Evidence!RunsToday(service)
          BY <2>1 DEF Evidence!RunsToday
        <5>2. Evidence!InWindow(Evidence!Route(e))' = Evidence!InWindow(Evidence!Route(e))
          BY <2>1, Timeless DEF Evidence!InWindow
        <5> QED BY <2>1, <3>2, <5>1, <5>2, Timeless DEF Evidence!ScheduleStatus
      <4> DEFINE identity ==
                   IF ~Evidence!Unverified(e) THEN "confirmed"
                   ELSE IF Evidence!Route(e).identity = "provider-listed"
                   THEN "provider-listed" ELSE "unknown"
      <4>6. identity' = identity
        BY <2>1, <4>1, Timeless
      <4>7. Evidence!Option(e) = [status |-> Evidence!ScheduleStatus(e),
                                  numbers |-> Evidence!Numbers(e),
                                  candidates |-> Evidence!Candidates(e),
                                  identity |-> identity, live |-> FALSE]
        BY DEF Evidence!Option
      <4>8. Evidence!Option(e)' = [status |-> Evidence!ScheduleStatus(e)',
                                   numbers |-> Evidence!Numbers(e)',
                                   candidates |-> Evidence!Candidates(e)',
                                   identity |-> identity', live |-> FALSE]
        BY DEF Evidence!Option
      <4> HIDE DEF identity
      <4> QED BY <4>3, <4>4, <4>5, <4>6, <4>7, <4>8
    <3> QED BY <3>3, <3>4 DEF Evidence!Index
  <2> QED BY <2>2, OffersAreShownNext DEF OfferedIsShown, Evidence!ListingAddsOnly
<1> QED BY <1>1, <1>2 DEF Evidence!EvidenceKept, Evidence!TimeWithdraws, Evidence!ListingAddsOnly

\* The panel never offers what its evidence refuses, and calls a date covered on the
\* word of a fresh row only, for every catalogue, calendar and clock.
THEOREM EvidenceIsSound == ASSUME Evidence!EvidenceAssumption
                           PROVE  Evidence!Spec => []Evidence!EvidenceSound
<1>1. EvidenceInv => Evidence!EvidenceSound
  BY Refusals, Coverage DEF Evidence!EvidenceSound
<1> QED BY <1>1, EvidenceBegins, EvidenceSteps, PTL DEF Evidence!Spec

\* The clock alone withdraws and never adds (refreshEvidenceClock); a live listing
\* changes nothing that evidence says (mergeLiveNextLegDestinations).
THEOREM EvidenceStaysKept == ASSUME Evidence!EvidenceAssumption
                             PROVE  Evidence!Spec => [][Evidence!EvidenceKept]_Evidence!vars
<1>1. EvidenceInv /\ EvidenceInv' /\ [Evidence!Next]_Evidence!vars => Evidence!EvidenceKept
  BY EvidenceIsKept
<1> QED BY <1>1, EvidenceBegins, EvidenceSteps, PTL DEF Evidence!Spec

-----------------------------------------------------------------------------
(***************************************************************************)
(* The rules of a product.                                                 *)
(***************************************************************************)
RulesInv == legs \in Seq(Rules!Sector) /\ Rules!Operated(legs)

LEMMA RulesCardinality == \A S : Rules!Cardinality(S) = Cardinality(S)
BY DEF Rules!Cardinality, Cardinality

LEMMA PositionsFinite ==
  ASSUME RulesInv
  PROVE  /\ IsFiniteSet(DOMAIN legs) /\ Cardinality(DOMAIN legs) \in Nat
         /\ \A S \in SUBSET DOMAIN legs :
              /\ IsFiniteSet(S) /\ Rules!Cardinality(S) \in 0..Cardinality(DOMAIN legs)
              /\ \A T \in SUBSET S : Rules!Cardinality(T) <= Rules!Cardinality(S)
<1>1. PICK n \in Nat : DOMAIN legs = 1..n
  BY DEF RulesInv
<1>2. IsFiniteSet(DOMAIN legs)
  BY <1>1, FS_Interval
<1>3. Cardinality(DOMAIN legs) \in Nat
  BY <1>2, FS_CardinalityType
<1>4. ASSUME NEW S \in SUBSET DOMAIN legs
      PROVE  /\ IsFiniteSet(S) /\ Cardinality(S) \in 0..Cardinality(DOMAIN legs)
             /\ \A T \in SUBSET S : Cardinality(T) <= Cardinality(S)
  <2>1. IsFiniteSet(S) /\ Cardinality(S) <= Cardinality(DOMAIN legs)
    BY <1>2, FS_Subset
  <2>2. Cardinality(S) \in Nat
    BY <2>1, FS_CardinalityType
  <2>3. \A T \in SUBSET S : Cardinality(T) <= Cardinality(S)
    BY <2>1, FS_Subset
  <2> QED BY <1>3, <2>1, <2>2, <2>3
<1> QED BY <1>2, <1>3, <1>4, RulesCardinality

\* A leg is replaced by another that tells the same sector.
LEMMA OneSector ==
  ASSUME RulesInv, NEW i \in DOMAIN legs, NEW leg \in Rules!Sector, Rules!Change(i, leg)
  PROVE  /\ legs' \in Seq(Rules!Sector) /\ DOMAIN legs' = DOMAIN legs
         /\ legs'[i] = leg /\ \A k \in DOMAIN legs : k # i => legs'[k] = legs[k]
BY DEF RulesInv, Rules!Change

\* What no action changes: the places of a leg, its kind, and an operator that is known.
Unmoved ==
  /\ DOMAIN legs' = DOMAIN legs
  /\ \A i \in DOMAIN legs : legs'[i].from = legs[i].from /\ legs'[i].to = legs[i].to

SameKind ==
  \A i \in DOMAIN legs : /\ legs'[i].surface <=> legs[i].surface
                         /\ legs'[i].reference <=> legs[i].reference

Firm(i) == i \in DOMAIN legs /\ ~legs[i].surface /\ legs[i].carrier # None
           /\ ~legs[i].assumed /\ ~legs[i].reference

StaysKnown ==
  \A i \in DOMAIN legs :
    /\ Firm(i) => legs'[i].carrier # None /\ ~legs'[i].assumed
    /\ ~legs'[i].surface /\ legs'[i].carrier = None => legs'[i].reference

Kept == legs' \in Seq(Rules!Sector) /\ Unmoved /\ SameKind /\ StaysKnown

\* The leg that stands where another stood.
Follows(leg, old) ==
  /\ leg \in Rules!Sector /\ leg.from = old.from /\ leg.to = old.to

LEMMA SectorFields ==
  ASSUME NEW old \in Rules!Sector, NEW s \in {"unknown", "stopover", "transfer"},
         NEW c \in RuleCarriers \cup {None}, NEW d \in Departures \cup {None}, NEW a \in BOOLEAN
  PROVE  /\ Follows([old EXCEPT !.stopover = s], old)
         /\ Follows([old EXCEPT !.departsOn = d], old)
         /\ Follows([old EXCEPT !.carrier = c, !.assumed = a], old)
         /\ Follows([old EXCEPT !.carrier = c, !.assumed = FALSE, !.departsOn = d], old)
BY DEF Rules!Sector, Follows

LEMMA SectorKind ==
  ASSUME NEW old \in Rules!Sector, NEW s \in {"unknown", "stopover", "transfer"},
         NEW c \in RuleCarriers \cup {None}, NEW d \in Departures \cup {None}, NEW a \in BOOLEAN
  PROVE  /\ LET leg == [old EXCEPT !.stopover = s]
            IN (leg.surface <=> old.surface) /\ (leg.reference <=> old.reference)
               /\ (leg.assumed <=> old.assumed) /\ leg.carrier = old.carrier
         /\ LET leg == [old EXCEPT !.departsOn = d]
            IN (leg.surface <=> old.surface) /\ (leg.reference <=> old.reference)
               /\ (leg.assumed <=> old.assumed) /\ leg.carrier = old.carrier
         /\ LET leg == [old EXCEPT !.carrier = c, !.assumed = a]
            IN (leg.surface <=> old.surface) /\ (leg.reference <=> old.reference)
               /\ (leg.assumed <=> a) /\ leg.carrier = c
         /\ LET leg == [old EXCEPT !.carrier = c, !.assumed = FALSE, !.departsOn = d]
            IN (leg.surface <=> old.surface) /\ (leg.reference <=> old.reference)
               /\ ~leg.assumed /\ leg.carrier = c
BY DEF Rules!Sector

\* A leg that stands where another stood, and is of its kind.
Replaces(leg, i) ==
  /\ Follows(leg, legs[i])
  /\ (leg.surface <=> legs[i].surface) /\ (leg.reference <=> legs[i].reference)
  /\ Firm(i) => leg.carrier # None /\ ~leg.assumed
  /\ ~leg.surface /\ leg.carrier = None => leg.reference

LEMMA SectorReplaced ==
  ASSUME RulesInv, NEW i \in DOMAIN legs, NEW leg, Replaces(leg, i), Rules!Change(i, leg)
  PROVE  Kept
<1>1. leg \in Rules!Sector
  BY DEF Replaces, Follows
<1>2. /\ legs' \in Seq(Rules!Sector) /\ DOMAIN legs' = DOMAIN legs
      /\ legs'[i] = leg /\ \A k \in DOMAIN legs : k # i => legs'[k] = legs[k]
  BY <1>1, OneSector
<1>3. Unmoved
  BY <1>2 DEF Unmoved, Replaces, Follows
<1>4. SameKind
  BY <1>2 DEF SameKind, Replaces
<1>5. StaysKnown
  <2> SUFFICES ASSUME NEW k \in DOMAIN legs
               PROVE  /\ Firm(k) => legs'[k].carrier # None /\ ~legs'[k].assumed
                      /\ ~legs'[k].surface /\ legs'[k].carrier = None => legs'[k].reference
    BY DEF StaysKnown
  <2>1. CASE k = i
    BY <1>2, <2>1 DEF Replaces
  <2>2. CASE k # i
    BY <1>2, <2>2 DEF Firm, RulesInv, Rules!Operated
  <2> QED BY <2>1, <2>2
<1> QED BY <1>2, <1>3, <1>4, <1>5 DEF Kept

LEMMA Unaltered == ASSUME RulesInv, legs' = legs PROVE Kept
BY DEF RulesInv, Rules!Operated, Kept, Unmoved, SameKind, StaysKnown, Firm

\* Every operation of the planner leaves the places and the kind of a leg alone, and
\* never doubts an operator that is known.
LEMMA RulesSteps ==
  ASSUME Rules!RulesAssumption, RulesInv, [Rules!Next]_Rules!vars
  PROVE  Kept
<1>1. ASSUME NEW i \in DOMAIN legs, NEW s \in {"unknown", "stopover", "transfer"},
             Rules!ChangeStopover(i, s)
      PROVE  Kept
  <2> DEFINE leg == [legs[i] EXCEPT !.stopover = s]
  <2>1. legs[i] \in Rules!Sector
    BY DEF RulesInv
  <2>2. Follows(leg, legs[i])
    BY <2>1, SectorFields
  <2>3. /\ (leg.surface <=> legs[i].surface) /\ (leg.reference <=> legs[i].reference)
        /\ (leg.assumed <=> legs[i].assumed) /\ leg.carrier = legs[i].carrier
    BY <2>1, SectorKind
  <2>4. Rules!Change(i, leg)
    BY <1>1 DEF Rules!ChangeStopover
  <2> HIDE DEF leg
  <2>5. Replaces(leg, i)
    BY <2>2, <2>3 DEF Replaces, Firm, RulesInv, Rules!Operated
  <2> QED BY <2>4, <2>5, SectorReplaced
<1>2. ASSUME NEW i \in DOMAIN legs, NEW c \in RuleCarriers \cup {None}, Rules!ChangeCarrier(i, c)
      PROVE  Kept
  <2> DEFINE a == IF c = None THEN FALSE ELSE legs[i].assumed \/ legs[i].reference
             leg == [legs[i] EXCEPT !.carrier = c, !.assumed = a]
  <2>1. legs[i] \in Rules!Sector
    BY DEF RulesInv
  <2>2. a \in BOOLEAN /\ (a => legs[i].assumed \/ legs[i].reference)
    OBVIOUS
  <2>3. Rules!Change(i, leg) /\ (c = None => legs[i].reference)
    <3>1. leg = [legs[i] EXCEPT !.carrier = c,
                   !.assumed = IF c = None THEN FALSE ELSE @ \/ legs[i].reference]
      BY <2>1 DEF Rules!Sector
    <3> QED BY <1>2, <3>1 DEF Rules!ChangeCarrier
  <2> HIDE DEF a
  <2>4. Follows(leg, legs[i])
    BY <2>1, <2>2, SectorFields
  <2>5. /\ (leg.surface <=> legs[i].surface) /\ (leg.reference <=> legs[i].reference)
        /\ (leg.assumed <=> a) /\ leg.carrier = c
    BY <2>1, <2>2, SectorKind
  <2> HIDE DEF leg
  <2>6. Replaces(leg, i)
    BY <2>2, <2>3, <2>4, <2>5 DEF Replaces, Firm, RulesInv, Rules!Operated
  <2> QED BY <2>3, <2>6, SectorReplaced
<1>3. ASSUME NEW i \in DOMAIN legs, NEW c \in RuleCarriers, NEW d \in Departures,
             Rules!SelectExistingFlight(i, c, d)
      PROVE  Kept
  <2> DEFINE leg == [legs[i] EXCEPT !.carrier = c, !.assumed = FALSE, !.departsOn = d]
  <2>1. legs[i] \in Rules!Sector
    BY DEF RulesInv
  <2>2. Follows(leg, legs[i])
    BY <2>1, SectorFields
  <2>3. /\ (leg.surface <=> legs[i].surface) /\ (leg.reference <=> legs[i].reference)
        /\ ~leg.assumed /\ leg.carrier = c
    BY <2>1, SectorKind
  <2>4. Rules!Change(i, leg)
    BY <1>3 DEF Rules!SelectExistingFlight
  <2> HIDE DEF leg
  <2>5. Replaces(leg, i)
    BY <2>2, <2>3 DEF Replaces, Rules!RulesAssumption
  <2> QED BY <2>4, <2>5, SectorReplaced
<1>4. ASSUME NEW i \in DOMAIN legs, NEW d \in Departures \cup {None}, Rules!ChangeLegDate(i, d)
      PROVE  Kept
  <2> DEFINE leg == [legs[i] EXCEPT !.departsOn = d]
  <2>1. legs[i] \in Rules!Sector
    BY DEF RulesInv
  <2>2. Follows(leg, legs[i])
    BY <2>1, SectorFields
  <2>3. /\ (leg.surface <=> legs[i].surface) /\ (leg.reference <=> legs[i].reference)
        /\ (leg.assumed <=> legs[i].assumed) /\ leg.carrier = legs[i].carrier
    BY <2>1, SectorKind
  <2>4. Rules!Change(i, leg)
    BY <1>4 DEF Rules!ChangeLegDate
  <2> HIDE DEF leg
  <2>5. Replaces(leg, i)
    BY <2>2, <2>3 DEF Replaces, Firm, RulesInv, Rules!Operated
  <2> QED BY <2>4, <2>5, SectorReplaced
<1>5. ASSUME NEW d \in Days \cup {None}, Rules!ChangeTripDates(d) PROVE Kept
  BY <1>5, Unaltered DEF Rules!ChangeTripDates
<1>6. ASSUME UNCHANGED Rules!vars PROVE Kept
  BY <1>6, Unaltered DEF Rules!vars
<1> QED BY <1>1, <1>2, <1>3, <1>4, <1>5, <1>6 DEF Rules!Next

-----------------------------------------------------------------------------
(***************************************************************************)
(* What is counted when something missing is filled in.                    *)
(***************************************************************************)

\* The greatest of a bounded set of counts.
LEMMA LargestTaken ==
  ASSUME NEW n \in Nat, NEW S \in SUBSET (0..n)
  PROVE  /\ Rules!Largest(S) \in Nat
         /\ \A k \in S : k <= Rules!Largest(S)
         /\ S # {} => Rules!Largest(S) \in S
<1>1. CASE S = {}
  BY <1>1 DEF Rules!Largest
<1>2. CASE S # {}
  <2> DEFINE below == {n - k : k \in S}
  <2>0. \A k \in S : k \in Nat /\ k <= n
    OBVIOUS
  <2>1. below \subseteq Nat /\ below # {}
    <3>1. \A k \in S : n - k \in Nat
      BY <2>0
    <3> QED BY <1>2, <3>1
  <2>2. PICK m \in below : \A k \in below : m <= k
    <3> HIDE DEF below
    <3> QED BY <2>1, LeastNat
  <2>3. PICK g \in S : m = n - g
    BY <2>2
  <2>4. \A k \in S : k <= g
    <3> SUFFICES ASSUME NEW k \in S PROVE k <= g
      OBVIOUS
    <3>1. n - g <= n - k
      BY <2>2, <2>3
    <3>2. g \in Nat /\ k \in Nat
      OBVIOUS
    <3> QED BY <3>1, <3>2
  <2>5. Rules!Largest(S) \in S /\ \A k \in S : k <= Rules!Largest(S)
    BY <1>2, <2>4 DEF Rules!Largest
  <2>6. Rules!Largest(S) \in Nat
    BY <2>0, <2>5
  <2> QED BY <2>5, <2>6
<1> QED BY <1>1, <1>2

LEMMA LargestGrows ==
  ASSUME NEW n \in Nat, NEW S \in SUBSET (0..n), NEW T \in SUBSET (0..n),
         \A k \in S : \E m \in T : k <= m
  PROVE  Rules!Largest(S) <= Rules!Largest(T)
<1>1. /\ Rules!Largest(S) \in Nat /\ (S # {} => Rules!Largest(S) \in S)
      /\ Rules!Largest(T) \in Nat /\ \A k \in T : k <= Rules!Largest(T)
  BY LargestTaken
<1>2. CASE S = {}
  BY <1>1, <1>2 DEF Rules!Largest
<1>3. CASE S # {}
  <2>1. PICK m \in T : Rules!Largest(S) <= m
    BY <1>1, <1>3
  <2>2. m \in Nat /\ m <= Rules!Largest(T)
    BY <1>1
  <2> QED BY <1>1, <2>1, <2>2
<1> QED BY <1>2, <1>3

LEMMA OverGrows ==
  ASSUME NEW limit \in Int \cup {None}, NEW n \in Nat, NEW m \in Nat, n <= m
  PROVE  Rules!Over(n, limit) => Rules!Over(m, limit)
<1>1. CASE limit = None
  BY <1>1 DEF Rules!Over
<1>2. CASE limit # None
  <2>1. limit \in Int
    BY <1>2
  <2> QED BY <2>1 DEF Rules!Over
<1> QED BY <1>1, <1>2

\* What can be said of the legs before and after a step that fills in.
Marked == /\ Rules!Stops \subseteq Rules!Stops' /\ Rules!Transfers \subseteq Rules!Transfers'
          /\ Rules!Unmarked = {} => /\ Rules!Stops' = Rules!Stops
                                    /\ Rules!Transfers' = Rules!Transfers
                                    /\ Rules!Unmarked' = {}

Established ==
  \A i \in Rules!Attributed \ Rules!Assumed :
    i \in (Rules!Attributed \ Rules!Assumed)' /\ legs'[i].carrier = legs[i].carrier

LEMMA KindStays ==
  ASSUME Kept, NEW i \in DOMAIN legs
  PROVE  /\ legs'[i].surface <=> legs[i].surface
         /\ legs'[i].reference <=> legs[i].reference
<1>1. SameKind
  BY DEF Kept
<1> QED BY <1>1, Zenon DEF SameKind

LEMMA SameLegs ==
  ASSUME RulesInv, Kept
  PROVE  /\ Rules!Flights' = Rules!Flights /\ Rules!Surfaces' = Rules!Surfaces
         /\ Rules!Resolved' = Rules!Resolved
<1>1. Rules!Flights' = Rules!Flights
  <2>1. ASSUME NEW i PROVE i \in Rules!Flights' <=> i \in Rules!Flights
    <3>1. i \in Rules!Flights <=> i \in DOMAIN legs /\ ~legs[i].surface
      BY DEF Rules!Flights
    <3>2. i \in Rules!Flights' <=> i \in DOMAIN legs' /\ ~legs'[i].surface
      BY DEF Rules!Flights
    <3>3. DOMAIN legs' = DOMAIN legs
      BY DEF Kept, Unmoved
    <3>4. i \in DOMAIN legs => (legs'[i].surface <=> legs[i].surface)
      BY KindStays, Zenon
    <3> QED BY <3>1, <3>2, <3>3, <3>4, Zenon
  <2> QED BY <2>1
<1>2. Rules!Surfaces' = Rules!Surfaces
  BY <1>1 DEF Kept, Unmoved, Rules!Surfaces
<1>3. Rules!Resolved' = Rules!Resolved
  BY DEF Kept, Unmoved, Rules!Resolved, Rules!Known
<1> QED BY <1>1, <1>2, <1>3

LEMMA MarksStay == ASSUME RulesInv, Kept, Rules!FillsIn PROVE Marked
<1>1. \A i \in DOMAIN legs : legs[i].stopover \in {"unknown", legs'[i].stopover}
  BY DEF Rules!FillsIn
<1>2. Rules!Flights \subseteq DOMAIN legs
  BY DEF Rules!Flights
<1> QED BY <1>1, <1>2, SameLegs DEF Marked, Rules!Stops, Rules!Transfers, Rules!Unmarked

LEMMA OperatorsStay == ASSUME RulesInv, Kept, Rules!FillsIn PROVE Established
<1> SUFFICES ASSUME NEW i \in Rules!Attributed \ Rules!Assumed
             PROVE  i \in (Rules!Attributed \ Rules!Assumed)' /\ legs'[i].carrier = legs[i].carrier
  BY DEF Established
<1>1. i \in Rules!Flights /\ Firm(i)
  BY DEF Rules!Attributed, Rules!Assumed, Rules!Flights, Firm
<1>2. legs'[i].carrier = legs[i].carrier
  BY <1>1 DEF Rules!FillsIn, Firm
<1>3. i \in DOMAIN legs /\ ~legs[i].reference
  BY <1>1 DEF Firm
<1>4. legs'[i].carrier # None /\ ~legs'[i].assumed
  BY <1>1, <1>3 DEF Kept, StaysKnown
<1>5. ~legs'[i].reference
  BY <1>3, KindStays, Zenon
<1> QED BY <1>1, <1>2, <1>4, <1>5, SameLegs DEF Rules!Attributed, Rules!Assumed

-----------------------------------------------------------------------------
(***************************************************************************)
(* The rules, one by one.                                                  *)
(***************************************************************************)
Stands(before, after) == /\ before = "pass" => after = "pass"
                         /\ before = "fail" => after = "fail"

LEMMA EligibilityStands ==
  ASSUME RulesInv, Kept, Rules!FillsIn
  PROVE  Stands(Rules!Eligibility, Rules!Eligibility')
<1>1. Established
  BY OperatorsStay
<1>2. ASSUME Rules!Ineligible # {} PROVE Rules!Ineligible' # {}
  <2>1. PICK i \in Rules!Attributed \ Rules!Assumed : legs[i].carrier \notin Members
    BY <1>2 DEF Rules!Ineligible
  <2> QED BY <1>1, <2>1 DEF Established, Rules!Ineligible
<1>3. ASSUME Rules!Ineligible = {}, Rules!Assumed \cup Rules!Unattributed = {}
      PROVE  Rules!Ineligible' = {} /\ (Rules!Assumed \cup Rules!Unattributed)' = {}
  <2>1. ASSUME NEW i \in Rules!Flights
        PROVE  i \in Rules!Attributed \ Rules!Assumed /\ legs[i].carrier \in Members
    <3>1. i \in DOMAIN legs /\ ~legs[i].surface
      BY DEF Rules!Flights
    <3>2. legs[i].carrier # None
      BY <1>3, <3>1 DEF RulesInv, Rules!Operated, Rules!Unattributed
    <3> QED BY <1>3, <3>2 DEF Rules!Attributed, Rules!Ineligible
  <2>2. ASSUME NEW i \in Rules!Flights'
        PROVE  /\ i \in (Rules!Attributed \ Rules!Assumed)' /\ legs'[i].carrier \in Members
               /\ legs'[i].carrier # None
    <3>1. i \in Rules!Flights
      BY SameLegs
    <3>2. i \in (Rules!Attributed \ Rules!Assumed)' /\ legs'[i].carrier = legs[i].carrier
      BY <1>1, <2>1, <3>1 DEF Established
    <3> QED BY <2>1, <3>1, <3>2 DEF Rules!Attributed
  <2>3. \A i \in Rules!Attributed' : i \in Rules!Flights'
    BY DEF Rules!Attributed
  <2>4. Rules!Assumed' = {}
    BY <2>2, <2>3 DEF Rules!Assumed
  <2>5. Rules!Unattributed' = {}
    BY <2>2 DEF Rules!Unattributed
  <2>6. Rules!Ineligible' = {}
    BY <2>2, <2>3 DEF Rules!Ineligible
  <2> QED BY <2>4, <2>5, <2>6
<1> QED BY <1>2, <1>3 DEF Stands, Rules!Eligibility, Rules!Judge

LEMMA TravelWindowStands ==
  ASSUME RulesInv, Kept, Rules!FillsIn
  PROVE  Stands(Rules!TravelWindow, Rules!TravelWindow')
<1>1. \A i \in Rules!Flights : legs[i].departsOn \in {None, legs'[i].departsOn}
  BY DEF Rules!FillsIn, Rules!Flights
<1> QED BY <1>1, SameLegs DEF Stands, Rules!TravelWindow, Rules!Judge

LEMMA ChronologyStands ==
  ASSUME RulesInv, Kept, Rules!FillsIn
  PROVE  Rules!Chronology = "fail" => Rules!Chronology' = "fail"
<1>1. \A i \in Rules!Flights : legs[i].departsOn \in {None, legs'[i].departsOn}
  BY DEF Rules!FillsIn, Rules!Flights
<1>2. ASSUME NEW i \in Rules!Flights, i + 1 \in Rules!Flights,
             None \notin {legs[i].departsOn, legs[i + 1].departsOn},
             legs[i + 1].departsOn < legs[i].departsOn
      PROVE  /\ i \in Rules!Flights' /\ i + 1 \in Rules!Flights'
             /\ None \notin {legs'[i].departsOn, legs'[i + 1].departsOn}
             /\ legs'[i + 1].departsOn < legs'[i].departsOn
  BY <1>1, <1>2, SameLegs
<1> QED BY <1>2 DEF Rules!Chronology, Rules!Judge

LEMMA DurationStands ==
  ASSUME Rules!FillsIn
  PROVE  Stands(Rules!Duration, Rules!Duration')
BY DEF Rules!FillsIn, Stands, Rules!Duration, Rules!Judge

LEMMA StopoverCounts ==
  ASSUME RulesInv, Kept, Rules!FillsIn
  PROVE  /\ Rules!StopoverCount \in Nat /\ Rules!StopoverCount' \in Nat
         /\ Rules!StopoverCount <= Rules!StopoverCount'
         /\ Rules!Unmarked = {} => Rules!StopoverCount' = Rules!StopoverCount
<1> DEFINE land == Rules!Cardinality(Rules!Surfaces)
           counted == Rules!Cardinality(Rules!Stops)
           later == Rules!Cardinality(Rules!Stops')
<1>1. /\ Rules!Stops \in SUBSET DOMAIN legs /\ Rules!Stops' \in SUBSET DOMAIN legs
      /\ Rules!Surfaces \in SUBSET DOMAIN legs
  BY SameLegs DEF Rules!Stops, Rules!Surfaces, Rules!Flights
<1>2. /\ land \in Nat /\ counted \in Nat /\ later \in Nat
      /\ counted <= later /\ (Rules!Unmarked = {} => later = counted)
  BY <1>1, PositionsFinite, MarksStay DEF Marked
<1>3. /\ Rules!StopoverCount = counted + IF ProductLimits.surfaceCountsAsStopover THEN land ELSE 0
      /\ Rules!StopoverCount' = later + IF ProductLimits.surfaceCountsAsStopover THEN land ELSE 0
  BY SameLegs DEF Rules!StopoverCount
<1> HIDE DEF land, counted, later
<1> QED BY <1>2, <1>3

LEMMA StopoversStand ==
  ASSUME Rules!RulesAssumption, RulesInv, Kept, Rules!FillsIn
  PROVE  Stands(Rules!Stopovers, Rules!Stopovers')
<1>1. Rules!Over(Rules!StopoverCount, ProductLimits.maxStopovers)
        => Rules!Over(Rules!StopoverCount', ProductLimits.maxStopovers)
  BY StopoverCounts, OverGrows DEF Rules!RulesAssumption
<1>2. Rules!Unmarked = {} => Rules!Unmarked' = {} /\ Rules!StopoverCount' = Rules!StopoverCount
  BY StopoverCounts, MarksStay DEF Marked
<1>3. ASSUME {ProductLimits.minStopovers, ProductLimits.maxStopovers} = {None}
      PROVE  Rules!Stopovers' = "pass"
  <2>1. ProductLimits.minStopovers = None /\ ProductLimits.maxStopovers = None
    BY <1>3
  <2> QED BY <2>1 DEF Rules!Stopovers, Rules!Judge, Rules!TooFewStopovers, Rules!Under, Rules!Over
<1> DEFINE few == Rules!Under(Rules!StopoverCount, ProductLimits.minStopovers)
           many == Rules!Over(Rules!StopoverCount, ProductLimits.maxStopovers)
           fixed == {ProductLimits.minStopovers, ProductLimits.maxStopovers} # {None}
<1>4. /\ Rules!Stopovers = Rules!Judge((few /\ Rules!Unmarked = {}) \/ many,
                                       Rules!Unmarked # {} /\ fixed)
      /\ Rules!Stopovers' = Rules!Judge((few' /\ Rules!Unmarked' = {}) \/ many',
                                        Rules!Unmarked' # {} /\ fixed)
  BY DEF Rules!Stopovers, Rules!TooFewStopovers
<1>5. Rules!Unmarked = {} => /\ Rules!Unmarked' = {}
                             /\ few' <=> few
                             /\ many' <=> many
  BY <1>2
<1>6. ~fixed => Rules!Stopovers' = "pass"
  BY <1>3
<1>7. ASSUME ~fixed PROVE Rules!Stopovers = "pass"
  <2>1. ProductLimits.minStopovers = None /\ ProductLimits.maxStopovers = None
    BY <1>7
  <2> QED BY <2>1 DEF Rules!Stopovers, Rules!Judge, Rules!TooFewStopovers, Rules!Under, Rules!Over
<1>8. many => many'
  BY <1>1
<1> HIDE DEF few, many, fixed
<1>9. CASE ~fixed
  BY <1>6, <1>7, <1>9 DEF Stands
<1>10. CASE fixed
  BY <1>4, <1>5, <1>8, <1>10 DEF Stands, Rules!Judge
<1> QED BY <1>9, <1>10

LEMMA TransfersStand ==
  ASSUME Rules!RulesAssumption, RulesInv, Kept, Rules!FillsIn
  PROVE  Stands(Rules!TransferRule, Rules!TransferRule')
<1> DEFINE most == ProductLimits.maxTransfers
           counted == Rules!Cardinality(Rules!Transfers)
           later == Rules!Cardinality(Rules!Transfers')
<1>1. Rules!Transfers \in SUBSET DOMAIN legs /\ Rules!Transfers' \in SUBSET DOMAIN legs
  BY SameLegs DEF Rules!Transfers, Rules!Flights
<1>2. /\ counted \in Nat /\ later \in Nat
      /\ counted <= later /\ (Rules!Unmarked = {} => later = counted)
  BY <1>1, PositionsFinite, MarksStay DEF Marked
<1>3. Rules!Over(counted, most) => Rules!Over(later, most)
  BY <1>2, OverGrows DEF Rules!RulesAssumption
<1>4. Rules!Unmarked = {} => Rules!Unmarked' = {}
  BY MarksStay DEF Marked
<1>5. most = None => ~Rules!Over(counted, most) /\ ~Rules!Over(later, most)
  BY DEF Rules!Over
<1>6. /\ Rules!TransferRule = Rules!Judge(Rules!Over(counted, most),
                                          Rules!Unmarked # {} /\ most # None)
      /\ Rules!TransferRule' = Rules!Judge(Rules!Over(later, most),
                                           Rules!Unmarked' # {} /\ most # None)
  BY DEF Rules!TransferRule
<1> HIDE DEF most, counted, later
<1> QED BY <1>2, <1>3, <1>4, <1>5, <1>6 DEF Stands, Rules!Judge

\* A city or a country does not lose a stopover.
LEMMA StopsGrow ==
  ASSUME RulesInv, Kept, Rules!FillsIn, NEW spot
  PROVE  /\ Rules!StopsIn(spot) \in Nat /\ Rules!StopsIn(spot)' \in Nat
         /\ Rules!StopsIn(spot) <= Rules!StopsIn(spot)'
<1> DEFINE marked == {i \in Rules!Resolved : legs[i].stopover = "stopover"}
           alike(i) == {k \in marked : spot[legs[k].to] = spot[legs[i].to]}
           counts == {Rules!Cardinality(alike(i)) : i \in marked}
           n == Cardinality(DOMAIN legs)
<1>1. Rules!StopsIn(spot) = Rules!Largest(counts) /\ Rules!StopsIn(spot)' = Rules!Largest(counts')
  BY DEF Rules!StopsIn
<1>2. Rules!Resolved \subseteq DOMAIN legs /\ Rules!Resolved' = Rules!Resolved
  BY SameLegs DEF Rules!Resolved
<1>3. marked \subseteq marked'
  BY <1>2 DEF Rules!FillsIn
<1>4. marked' \subseteq DOMAIN legs
  BY <1>2
<1>5. \A i \in DOMAIN legs : legs'[i].to = legs[i].to
  BY DEF Kept, Unmoved
<1>6. \A i \in marked : alike(i) \subseteq alike(i)' /\ alike(i)' \subseteq DOMAIN legs
  BY <1>2, <1>3, <1>4, <1>5
<1>7. \A i \in marked' : alike(i)' \subseteq DOMAIN legs
  BY <1>4
<1>8. counts \in SUBSET (0..n)
  BY <1>3, <1>6, PositionsFinite
<1>9. counts' \in SUBSET (0..n)
  <2>1. counts' = {Rules!Cardinality(alike(i)') : i \in marked'}
    OBVIOUS
  <2>2. \A i \in marked' : Rules!Cardinality(alike(i)') \in 0..n
    BY <1>7, PositionsFinite
  <2> QED BY <2>1, <2>2
<1>10. \A c \in counts : \E m \in counts' : c <= m
  <2> SUFFICES ASSUME NEW i \in marked
               PROVE  \E m \in counts' : Rules!Cardinality(alike(i)) <= m
    OBVIOUS
  <2>1. Rules!Cardinality(alike(i)) <= Rules!Cardinality(alike(i)')
    BY <1>6, PositionsFinite
  <2>2. Rules!Cardinality(alike(i)') \in counts'
    BY <1>3
  <2> QED BY <2>1, <2>2
<1>11. n \in Nat
  BY PositionsFinite
<1> DEFINE next == counts'
<1> HIDE DEF counts, next, n
<1>12. next \in SUBSET (0..n) /\ \A c \in counts : \E m \in next : c <= m
  BY <1>9, <1>10 DEF next
<1>13. Rules!Largest(counts) \in Nat /\ Rules!Largest(next) \in Nat
  BY <1>8, <1>11, <1>12, LargestTaken
<1>14. Rules!Largest(counts) <= Rules!Largest(next)
  BY <1>8, <1>11, <1>12, LargestGrows
<1>15. Rules!StopsIn(spot)' = Rules!Largest(next)
  BY <1>1 DEF next
<1> QED BY <1>1, <1>13, <1>14, <1>15

LEMMA PlacesStand ==
  ASSUME Rules!RulesAssumption, RulesInv, Kept, Rules!FillsIn, NEW spot,
         NEW limit \in Int \cup {None}
  PROVE  Rules!Judge(Rules!Over(Rules!StopsIn(spot), limit), FALSE) = "fail"
           => Rules!Judge(Rules!Over(Rules!StopsIn(spot)', limit), FALSE) = "fail"
<1>1. Rules!Over(Rules!StopsIn(spot), limit) => Rules!Over(Rules!StopsIn(spot)', limit)
  BY StopsGrow, OverGrows
<1> QED BY <1>1 DEF Rules!Judge

\* A visit to a city does not grow, since what is marked later may end it only.
LEMMA VisitsShrink ==
  ASSUME RulesInv, Kept, Rules!FillsIn
  PROVE  /\ Rules!LargestTransferVisit \in Nat /\ Rules!LargestTransferVisit' \in Nat
         /\ Rules!LargestTransferVisit' <= Rules!LargestTransferVisit
<1> DEFINE resolved == Rules!Resolved
           transits == {i \in resolved : legs[i].stopover # "stopover"}
           stretch(i, j) == {k \in resolved : i <= k /\ k <= j}
           visit(i, j) == \A k \in stretch(i, j) :
                            k \in transits /\ Rules!City[legs[k].to] = Rules!City[legs[i].to]
           visits == {q \in transits \X transits : q[1] <= q[2] /\ visit(q[1], q[2])}
           lengths == {Rules!Cardinality(stretch(p[1], p[2])) : p \in visits}
           n == Cardinality(DOMAIN legs)
<1>1. /\ Rules!LargestTransferVisit = Rules!Largest(lengths)
      /\ Rules!LargestTransferVisit' = Rules!Largest(lengths')
  BY DEF Rules!LargestTransferVisit
<1>2. resolved \subseteq DOMAIN legs /\ resolved' = resolved
  BY SameLegs DEF Rules!Resolved
<1>3. transits' \subseteq transits
  BY <1>2 DEF Rules!FillsIn
<1>4. \A i \in DOMAIN legs : legs'[i].to = legs[i].to
  BY DEF Kept, Unmoved
<1>5. \A i, j : stretch(i, j)' = stretch(i, j)
  BY <1>2
<1>6. \A i \in transits' : \A j : visit(i, j)' => visit(i, j)
  <2> SUFFICES ASSUME NEW i \in transits', NEW j, visit(i, j)', NEW k \in stretch(i, j)
               PROVE  k \in transits /\ Rules!City[legs[k].to] = Rules!City[legs[i].to]
    OBVIOUS
  <2>1. k \in transits' /\ Rules!City[legs'[k].to] = Rules!City[legs'[i].to]
    BY <1>5 DEF Rules!City
  <2>2. k \in DOMAIN legs /\ i \in DOMAIN legs
    BY <1>2
  <2> QED BY <1>3, <1>4, <2>1, <2>2
<1>7. visits' \subseteq visits
  <2>1. visits' = {q \in transits' \X transits' : q[1] <= q[2] /\ visit(q[1], q[2])'}
    OBVIOUS
  <2> HIDE DEF visit, transits
  <2> QED BY <1>3, <1>6, <2>1
<1>8. lengths' \subseteq lengths
  <2>1. lengths' = {Rules!Cardinality(stretch(p[1], p[2])') : p \in visits'}
    OBVIOUS
  <2> HIDE DEF visits, stretch
  <2> QED BY <1>5, <1>7, <2>1
<1>9. lengths \in SUBSET (0..n)
  <2>1. \A i, j : stretch(i, j) \in SUBSET DOMAIN legs
    BY <1>2
  <2> HIDE DEF stretch, visits
  <2> QED BY <2>1, PositionsFinite
<1>10. n \in Nat
  BY PositionsFinite
<1> DEFINE later == lengths'
<1> HIDE DEF lengths, later, n
<1>11. later \in SUBSET (0..n) /\ \A c \in later : \E m \in lengths : c <= m
  BY <1>8, <1>9 DEF later
<1>12. Rules!Largest(lengths) \in Nat /\ Rules!Largest(later) \in Nat
  BY <1>9, <1>10, <1>11, LargestTaken
<1>13. Rules!Largest(later) <= Rules!Largest(lengths)
  BY <1>9, <1>10, <1>11, LargestGrows
<1>14. Rules!LargestTransferVisit' = Rules!Largest(later)
  BY <1>1 DEF later
<1> QED BY <1>1, <1>12, <1>13, <1>14

LEMMA VisitsStand ==
  ASSUME Rules!RulesAssumption, RulesInv, Kept, Rules!FillsIn
  PROVE  LET most == ProductLimits.maxTransfersPerCity
         IN Rules!Judge(Rules!Over(Rules!LargestTransferVisit, most), FALSE) = "pass"
              => Rules!Judge(Rules!Over(Rules!LargestTransferVisit', most), FALSE) = "pass"
<1> DEFINE most == ProductLimits.maxTransfersPerCity
<1>1. most \in Int \cup {None}
  BY DEF Rules!RulesAssumption
<1> HIDE DEF most
<1>2. Rules!Over(Rules!LargestTransferVisit', most) => Rules!Over(Rules!LargestTransferVisit, most)
  BY <1>1, VisitsShrink, OverGrows
<1> QED BY <1>2 DEF Rules!Judge, most

LEMMA OriginStands ==
  ASSUME RulesInv, Kept, Rules!FillsIn
  PROVE  Rules!OriginCountryStopover = "fail" => Rules!OriginCountryStopover' = "fail"
<1> SUFFICES ASSUME Rules!OriginCountryStopover = "fail"
             PROVE  Rules!OriginCountryStopover' = "fail"
  OBVIOUS
<1>1. /\ ProductLimits.forbidsOriginStopovers /\ legs[1].from \in DOMAIN Cities
      /\ \E i \in Rules!Resolved : /\ legs[i].stopover = "stopover"
                                   /\ Rules!Country[legs[i].to] = Rules!Country[legs[1].from]
  BY DEF Rules!OriginCountryStopover, Rules!Judge
<1>2. PICK i \in Rules!Resolved : /\ legs[i].stopover = "stopover"
                                  /\ Rules!Country[legs[i].to] = Rules!Country[legs[1].from]
  BY <1>1
<1>3. i \in DOMAIN legs /\ 1 \in DOMAIN legs
  BY <1>2 DEF Rules!Resolved, RulesInv
<1>4. legs'[1].from = legs[1].from /\ legs'[i].to = legs[i].to
  BY <1>3 DEF Kept, Unmoved
<1>5. i \in Rules!Resolved' /\ legs'[i].stopover = "stopover"
  BY <1>2, <1>3, SameLegs DEF Rules!FillsIn
<1>6. Rules!Country[legs'[i].to] = Rules!Country[legs'[1].from]
  BY <1>2, <1>4
<1> QED BY <1>1, <1>4, <1>5, <1>6 DEF Rules!OriginCountryStopover, Rules!Judge, Rules!Country

\* carrier-combination: operators that are known stay known, so that a combination which
\* is met stays met; only a leg without an operator may leave it open again.
LEMMA CombinationStands ==
  ASSUME Rules!RulesAssumption, RulesInv, Kept, Rules!FillsIn, Rules!CarrierCombination = "pass"
  PROVE  \/ Rules!CarrierCombination' = "pass"
         \/ Rules!Unattributed # {} /\ Rules!CarrierCombination' = "unknown"
<1> DEFINE confirmed == Rules!CarriersOf(Rules!Attributed \ Rules!Assumed)
           operators == Rules!CarriersOf(Rules!Attributed)
           known == ProductLimits.trigger \in confirmed
           with == ProductLimits.minWithTrigger
           without == ProductLimits.minWithoutTrigger
           required == IF known THEN with ELSE without
           most == IF known \/ Rules!Assumed # {} THEN with ELSE required
           c == Rules!Cardinality(confirmed)
           f == Rules!Cardinality(operators)
<1>1. CASE ProductLimits.trigger = None
  BY <1>1 DEF Rules!CarrierCombination
<1>2. CASE ProductLimits.trigger # None
  <2>1. with \in Int /\ without \in Int /\ without <= with
    BY <1>2 DEF Rules!RulesAssumption
  <2>2. Rules!CarrierCombination = IF c >= most THEN "pass"
                                   ELSE IF f >= required /\ Rules!Assumed # {} THEN "unknown"
                                   ELSE "fail"
    BY <1>2 DEF Rules!CarrierCombination
  <2>3. Rules!CarrierCombination' = IF c' >= most' THEN "pass"
                                    ELSE IF f' >= required' /\ Rules!Assumed' # {} THEN "unknown"
                                    ELSE "fail"
    BY <1>2 DEF Rules!CarrierCombination
  <2>4. Rules!Attributed \subseteq DOMAIN legs /\ Rules!Attributed' \subseteq DOMAIN legs
    BY SameLegs DEF Rules!Attributed, Rules!Flights
  <2>5. confirmed \subseteq confirmed' /\ confirmed' \subseteq operators'
    BY OperatorsStay DEF Established, Rules!CarriersOf
  <2>6. /\ c \in Nat /\ c' \in Nat /\ f' \in Nat /\ c <= c' /\ c' <= f'
    <3>1. IsFiniteSet(operators')
      <4>1. IsFiniteSet(Rules!Attributed')
        BY <2>4, PositionsFinite, FS_Subset
      <4>2. operators' = {legs'[i].carrier : i \in Rules!Attributed'}
        BY DEF Rules!CarriersOf
      <4> DEFINE carrier == [i \in Rules!Attributed' |-> legs'[i].carrier]
      <4>3. carrier \in Surjection(Rules!Attributed', operators')
        BY <4>2 DEF Surjection
      <4> HIDE DEF carrier, operators
      <4> QED BY <4>1, <4>3, FS_Surjection
    <3> HIDE DEF confirmed, operators
    <3>2. IsFiniteSet(confirmed') /\ Cardinality(confirmed') <= Cardinality(operators')
      BY <2>5, <3>1, FS_Subset
    <3>3. IsFiniteSet(confirmed) /\ Cardinality(confirmed) <= Cardinality(confirmed')
      BY <2>5, <3>2, FS_Subset
    <3> QED BY <3>1, <3>2, <3>3, FS_CardinalityType, RulesCardinality
  <2>7. Rules!Assumed = {} => confirmed' \subseteq confirmed
    <3> SUFFICES ASSUME Rules!Assumed = {}, NEW i \in (Rules!Attributed \ Rules!Assumed)'
                 PROVE  legs'[i].carrier \in confirmed
      BY DEF Rules!CarriersOf
    <3>1. i \in Rules!Flights /\ i \in DOMAIN legs /\ ~legs[i].surface
      BY SameLegs DEF Rules!Attributed, Rules!Flights
    <3>2. ~legs'[i].reference
      BY DEF Rules!Assumed
    <3>3. ~legs[i].reference
      BY <3>1, <3>2, KindStays, Zenon
    <3>4. legs[i].carrier # None
      BY <3>1, <3>3 DEF RulesInv, Rules!Operated
    <3>5. i \in Rules!Attributed \ Rules!Assumed
      BY <3>1, <3>4 DEF Rules!Attributed
    <3> QED BY <3>5, OperatorsStay DEF Established, Rules!CarriersOf
  <2>8. (known => known') /\ (Rules!Assumed = {} /\ known' => known)
    BY <2>5, <2>7
  <2>9. (Rules!Assumed = {} /\ Rules!Unattributed = {}) => Rules!Assumed' = {}
    <3> SUFFICES ASSUME Rules!Assumed = {}, Rules!Unattributed = {}, NEW i \in Rules!Assumed'
                 PROVE  FALSE
      OBVIOUS
    <3>1. i \in Rules!Flights /\ i \in DOMAIN legs /\ ~legs[i].surface
      BY SameLegs DEF Rules!Assumed, Rules!Attributed, Rules!Flights
    <3>2. legs[i].carrier # None
      BY <3>1 DEF RulesInv, Rules!Operated, Rules!Unattributed
    <3>3. i \in Rules!Attributed \ Rules!Assumed
      BY <3>1, <3>2 DEF Rules!Attributed
    <3> QED BY <3>3, OperatorsStay DEF Established
  <2> DEFINE assumed == Rules!Assumed # {}
  <2>10. /\ most = IF known \/ assumed THEN with ELSE required
         /\ required = IF known THEN with ELSE without
         /\ most' = IF known' \/ assumed' THEN with ELSE required'
         /\ required' = IF known' THEN with ELSE without
    OBVIOUS
  <2>11. c >= most
    BY <2>2
  <2> HIDE DEF with, without, required, most, known, c, f, assumed
  <2>12. CASE known \/ assumed
    BY <2>1, <2>3, <2>6, <2>10, <2>11, <2>12
  <2>13. CASE ~known /\ ~assumed
    <3>1. ~known'
      BY <2>8, <2>13 DEF assumed
    <3>2. CASE ~assumed'
      BY <2>1, <2>3, <2>6, <2>10, <2>11, <2>13, <3>1, <3>2
    <3>3. CASE assumed'
      <4>1. Rules!Unattributed # {}
        BY <2>9, <2>13, <3>3 DEF assumed
      <4>2. c' >= most' \/ (f' >= required' /\ assumed')
        BY <2>1, <2>6, <2>10, <2>11, <2>13, <3>1, <3>3
      <4> QED BY <2>3, <4>1, <4>2 DEF assumed
    <3> QED BY <3>2, <3>3
  <2> QED BY <2>12, <2>13
<1> QED BY <1>1, <1>2

\* What is said of one rule before and after something missing is filled in.
Upheld(rule) ==
  /\ Rules!Verdicts[rule] = "pass" /\ rule \notin Rules!Optimistic =>
       \/ Rules!Verdicts'[rule] = "pass"
       \/ /\ rule = "combination" /\ Rules!Unattributed # {}
          /\ Rules!Verdicts'[rule] = "unknown"
  /\ Rules!Verdicts[rule] = "fail" /\ rule \notin Rules!Pessimistic =>
       Rules!Verdicts'[rule] = "fail"

LEMMA EveryRuleIsUpheld ==
  ASSUME Rules!RulesAssumption, RulesInv, Kept, Rules!FillsIn, NEW rule \in DOMAIN Rules!Verdicts
  PROVE  Upheld(rule)
<1> DEFINE names == {"eligibility", "travelWindow", "chronology", "duration", "stopovers",
                     "transfers", "stopoversPerCity", "stopoversPerCountry",
                     "transfersPerCity", "originStopover", "combination"}
<1>1. rule \in names
  BY DEF Rules!Verdicts
<1>2. CASE rule = "eligibility"
  BY <1>2, EligibilityStands DEF Upheld, Stands, Rules!Verdicts
<1>3. CASE rule = "travelWindow"
  BY <1>3, TravelWindowStands DEF Upheld, Stands, Rules!Verdicts
<1>4. CASE rule = "chronology"
  BY <1>4, ChronologyStands DEF Upheld, Rules!Optimistic, Rules!Verdicts
<1>5. CASE rule = "duration"
  BY <1>5, DurationStands DEF Upheld, Stands, Rules!Verdicts
<1>6. CASE rule = "stopovers"
  BY <1>6, StopoversStand DEF Upheld, Stands, Rules!Verdicts
<1>7. CASE rule = "transfers"
  BY <1>7, TransfersStand DEF Upheld, Stands, Rules!Verdicts
<1>8. CASE rule = "stopoversPerCity"
  BY <1>8, PlacesStand DEF Upheld, Rules!Optimistic, Rules!Verdicts, Rules!RulesAssumption
<1>9. CASE rule = "stopoversPerCountry"
  BY <1>9, PlacesStand DEF Upheld, Rules!Optimistic, Rules!Verdicts, Rules!RulesAssumption
<1>10. CASE rule = "transfersPerCity"
  BY <1>10, VisitsStand DEF Upheld, Rules!Pessimistic, Rules!Verdicts
<1>11. CASE rule = "originStopover"
  BY <1>11, OriginStands DEF Upheld, Rules!Optimistic, Rules!Verdicts
<1>12. CASE rule = "combination"
  BY <1>12, CombinationStands DEF Upheld, Rules!Pessimistic, Rules!Verdicts
<1> QED BY <1>1, <1>2, <1>3, <1>4, <1>5, <1>6, <1>7, <1>8, <1>9, <1>10, <1>11, <1>12

LEMMA RulesBegin == ASSUME Rules!RulesAssumption, Rules!Init PROVE RulesInv
BY DEF Rules!RulesAssumption, Rules!Init, RulesInv

\* validate.ts: a verdict is not taken back when the traveller supplies what was missing,
\* for every itinerary, product and set of carriers.
THEOREM VerdictsAreKept == ASSUME Rules!RulesAssumption
                           PROVE  Rules!Spec => [][Rules!VerdictsKept]_Rules!vars
<1>1. Rules!Init => RulesInv
  BY RulesBegin
<1>2. RulesInv /\ [Rules!Next]_Rules!vars => RulesInv'
  BY RulesSteps DEF Kept, StaysKnown, Unmoved, RulesInv, Rules!Operated
<1>3. RulesInv /\ [Rules!Next]_Rules!vars => Rules!VerdictsKept
  <2> SUFFICES ASSUME RulesInv, [Rules!Next]_Rules!vars, Rules!FillsIn,
                      NEW rule \in DOMAIN Rules!Verdicts
               PROVE  Upheld(rule)
    BY DEF Rules!VerdictsKept, Upheld
  <2> QED BY RulesSteps, EveryRuleIsUpheld
<1> QED BY <1>1, <1>2, <1>3, PTL DEF Rules!Spec

-----------------------------------------------------------------------------
(***************************************************************************)
(* The atlas all maps of a page share.                                     *)
(***************************************************************************)
\* The promise that is kept is that of the one fetch on its way.
WorldInv ==
  /\ listeners \subseteq Maps /\ seen \in [Maps -> {"none", "features", "error"}]
  /\ inFlight \in BOOLEAN /\ fetches = IF inFlight THEN 1 ELSE 0
  /\ snapshot \in {"none", "features", "error"} /\ (snapshot = "features" => ~inFlight)
  /\ \A c \in listeners : seen[c] = snapshot

\* use-world-map.ts: one fetch at a time, none once the atlas is there, and one outcome
\* for every component, for any number of components and loads.
THEOREM OneAtlasForAll == World!Spec => []World!OneMapForAll
<1>1. World!Init => WorldInv
  BY DEF World!Init, WorldInv
<1>2. WorldInv /\ [World!Next]_World!vars => WorldInv'
  <2> SUFFICES ASSUME WorldInv, [World!Next]_World!vars PROVE WorldInv'
    OBVIOUS
  <2>1. ASSUME NEW c \in Maps, World!Subscribe(c) PROVE WorldInv'
    <3>1. /\ listeners' = listeners \cup {c} /\ seen' = [seen EXCEPT ![c] = snapshot]
          /\ snapshot' = snapshot
      BY <2>1 DEF World!Subscribe
    <3>2. /\ listeners' \subseteq Maps /\ seen' \in [Maps -> {"none", "features", "error"}]
          /\ \A d \in listeners' : seen'[d] = snapshot'
      BY <3>1 DEF WorldInv
    <3>3. CASE World!NeedsLoad
      <4>1. inFlight' = TRUE /\ fetches' = fetches + 1 /\ ~inFlight /\ snapshot # "features"
        BY <2>1, <3>3 DEF World!Subscribe, World!NeedsLoad
      <4> QED BY <3>1, <3>2, <4>1 DEF WorldInv
    <3>4. CASE ~World!NeedsLoad
      BY <2>1, <3>1, <3>2, <3>4 DEF World!Subscribe, WorldInv
    <3> QED BY <3>3, <3>4
  <2>2. ASSUME NEW c \in Maps, World!Unsubscribe(c) PROVE WorldInv'
    BY <2>2 DEF World!Unsubscribe, WorldInv
  <2>3. ASSUME NEW result \in {"features", "error"}, World!Settle(result) PROVE WorldInv'
    <3>1. inFlight /\ fetches = 1
      BY <2>3 DEF World!Settle, WorldInv
    <3>2. fetches' = 0 /\ inFlight' = FALSE /\ snapshot' = result /\ listeners' = listeners
      BY <2>3, <3>1 DEF World!Settle
    <3>3. /\ seen' \in [Maps -> {"none", "features", "error"}]
          /\ \A c \in listeners : seen'[c] = result
      BY <2>3 DEF World!Settle, WorldInv
    <3> QED BY <3>2, <3>3 DEF WorldInv
  <2>4. ASSUME UNCHANGED World!vars PROVE WorldInv'
    BY <2>4 DEF World!vars, WorldInv
  <2> QED BY <2>1, <2>2, <2>3, <2>4 DEF World!Next
<1>3. WorldInv => World!OneMapForAll
  BY DEF WorldInv, World!OneMapForAll
<1> QED BY <1>1, <1>2, <1>3, PTL DEF World!Spec

-----------------------------------------------------------------------------
(***************************************************************************)
(* The data files of a page.                                               *)
(***************************************************************************)
\* A load that is on its way is numbered no higher than the last one started, and the
\* state a mounted hook shows is of that one.
LoadsInv ==
  /\ hook \in Loads!Hooks /\ mounted \in BOOLEAN /\ attempt \in Nat
  /\ \A a \in loading : a \in Nat /\ a <= attempt
  /\ Loads!LatestLoadOnly

LEMMA LoadsBegin == Loads!Init => LoadsInv /\ Loads!OptionalFilesDegrade
<1> SUFFICES ASSUME Loads!Init PROVE LoadsInv /\ Loads!OptionalFilesDegrade
  OBVIOUS
<1>1. hook \in Loads!Hooks /\ mounted = FALSE /\ attempt = 0 /\ loading = {}
  BY DEF Loads!Init
<1>2. load.status = "loading"
  BY DEF Loads!Init, Loads!State
<1>3. LoadsInv
  BY <1>1 DEF LoadsInv, Loads!LatestLoadOnly
<1> QED BY <1>2, <1>3 DEF Loads!OptionalFilesDegrade

LEMMA LoadsSteps ==
  ASSUME LoadsInv, Loads!OptionalFilesDegrade, [Loads!Next]_Loads!vars
  PROVE  LoadsInv' /\ Loads!OptionalFilesDegrade'
<1>1. ASSUME Loads!Mount PROVE LoadsInv' /\ Loads!OptionalFilesDegrade'
  BY <1>1 DEF Loads!Mount, Loads!State, LoadsInv, Loads!LatestLoadOnly,
              Loads!OptionalFilesDegrade
<1>2. ASSUME Loads!Unmount PROVE LoadsInv' /\ Loads!OptionalFilesDegrade'
  BY <1>2 DEF Loads!Unmount, LoadsInv, Loads!LatestLoadOnly, Loads!OptionalFilesDegrade
<1>3. ASSUME Loads!Retry PROVE LoadsInv' /\ Loads!OptionalFilesDegrade'
  BY <1>3 DEF Loads!Retry, Loads!State, LoadsInv, Loads!LatestLoadOnly,
              Loads!OptionalFilesDegrade
<1>4. ASSUME NEW a \in loading, NEW got \in [Loads!Files(hook) -> {"good", "bad"}],
             Loads!Arrive(a, got)
      PROVE  LoadsInv' /\ Loads!OptionalFilesDegrade'
  <2>1. LoadsInv'
    BY <1>4 DEF Loads!Arrive, Loads!Cancelled, Loads!State, LoadsInv, Loads!LatestLoadOnly
  <2>2. CASE Loads!Cancelled(a)
    BY <1>4, <2>1, <2>2 DEF Loads!Arrive, Loads!OptionalFilesDegrade
  <2>3. CASE ~Loads!Cancelled(a) /\ \A f \in Loads!Strict[hook] : got[f] = "good"
    <3>1. load' = Loads!State("ready", Loads!Parts(hook, got), a, got) /\ hook' = hook
      BY <1>4, <2>3 DEF Loads!Arrive
    <3>2. ASSUME NEW f \in Loads!Parts(hook, got)
          PROVE  got[f] = "good" /\ (f = "counts" => got["network"] = "good")
      <4>1. f = "counts" => hook = "planner"
        BY DEF Loads!Parts, Loads!Optional, LoadsInv, Loads!Hooks
      <4> QED BY <4>1 DEF Loads!Parts
    <3> QED BY <2>1, <3>1, <3>2 DEF Loads!State, Loads!OptionalFilesDegrade
  <2>4. CASE ~Loads!Cancelled(a) /\ ~\A f \in Loads!Strict[hook] : got[f] = "good"
    <3>1. load' = Loads!State("error", {}, a, got) /\ hook' = hook
      BY <1>4, <2>4 DEF Loads!Arrive
    <3> QED BY <2>1, <2>4, <3>1 DEF Loads!State, Loads!OptionalFilesDegrade
  <2> QED BY <2>2, <2>3, <2>4
<1>5. ASSUME UNCHANGED Loads!vars PROVE LoadsInv' /\ Loads!OptionalFilesDegrade'
  BY <1>5 DEF Loads!vars, LoadsInv, Loads!LatestLoadOnly, Loads!OptionalFilesDegrade
<1> QED BY <1>1, <1>2, <1>3, <1>4, <1>5 DEF Loads!Next

\* use-loaded-data.ts and its like: a mounted page shows its latest load or waits for it,
\* and a bad optional file costs only what it is for, however many loads overlap.
THEOREM LoadsAreCurrent ==
  Loads!Spec => [](Loads!LatestLoadOnly /\ Loads!OptionalFilesDegrade)
<1>1. LoadsInv => Loads!LatestLoadOnly
  BY DEF LoadsInv
<1> QED BY <1>1, LoadsBegin, LoadsSteps, PTL DEF Loads!Spec

-----------------------------------------------------------------------------
(***************************************************************************)
(* What the next-leg panel loads for the airport the route ends at.        *)
(***************************************************************************)
\* Only the listing of the airport that is shown and the shard of its letter are on
\* their way, and a shard that is cached is not.
OriginInv ==
  /\ origin \in PanelOrigins \cup {None}
  /\ failed \in [live : BOOLEAN, shard : BOOLEAN]
  /\ asking \subseteq Origin!Asked(origin) /\ fetching \subseteq {Origin!LetterOf(origin)}
  /\ Origin!EvidenceComes

LEMMA OriginBegins == ASSUME Origin!OriginAssumption PROVE Origin!Init => OriginInv
<1> SUFFICES ASSUME Origin!OriginAssumption, Origin!Init PROVE OriginInv
  OBVIOUS
<1>1. failed \in [live : BOOLEAN, shard : BOOLEAN]
  BY DEF Origin!Init, Origin!NoFailure
<1>2. cached = {} /\ asking = Origin!Asked(origin) /\ origin \in PanelOrigins \cup {None}
  BY DEF Origin!Init
<1>3. fetching = IF Origin!LetterOf(origin) = None THEN {} ELSE {Origin!LetterOf(origin)}
  BY <1>2 DEF Origin!Init, Origin!Wanted
<1> QED BY <1>1, <1>2, <1>3 DEF Origin!Asked, Origin!LetterOf, OriginInv, Origin!OriginAssumption,
                                Origin!EvidenceComes

LEMMA OriginSteps ==
  ASSUME Origin!OriginAssumption, OriginInv, [Origin!Next]_Origin!vars
  PROVE  OriginInv'
<1> USE DEF Origin!OriginAssumption, Origin!Asked, Origin!LetterOf, Origin!Wanted, Origin!NoFailure,
            OriginInv, Origin!EvidenceComes, Origin!ShowsLive, Origin!ShowsShard
<1>1. ASSUME NEW o \in PanelOrigins \cup {None}, Origin!Move(o) PROVE OriginInv'
  <2>1. /\ origin' = o /\ asking' = Origin!Asked(o) /\ o # origin
        /\ live' = live /\ cached' = cached /\ shard' = shard
    BY <1>1 DEF Origin!Move, Origin!StillRunning
  <2>2. CASE Origin!LetterOf(o) = Origin!LetterOf(origin)
    <3>1. fetching' = fetching /\ failed' = [failed EXCEPT !.live = FALSE]
      BY <1>1, <2>2 DEF Origin!Move
    <3>2. failed' \in [live : BOOLEAN, shard : BOOLEAN] /\ (failed'.shard <=> failed.shard)
      BY <3>1
    <3>3. o # None => origin # None /\ LetterOfOrigin[o] = LetterOfOrigin[origin]
      BY <2>2
    <3>4. o # None => \/ LetterOfOrigin[o] \in cached \/ shard = LetterOfOrigin[o]
                      \/ LetterOfOrigin[o] \in fetching \/ failed.shard
      BY <3>3
    <3>5. o # None => Origin!ShowsShard' \/ LetterOfOrigin[o] \in fetching' \/ failed'.shard
      BY <2>1, <3>1, <3>2, <3>4
    <3>6. fetching' \subseteq {Origin!LetterOf(o)} /\ fetching' \cap cached' = {}
      <4>1. CASE origin = None
        BY <2>1, <2>2, <3>1, <4>1
      <4>2. CASE origin # None
        BY <2>1, <2>2, <3>1, <4>2
      <4> QED BY <4>1, <4>2
    <3> QED BY <2>1, <3>2, <3>5, <3>6
  <2>3. CASE Origin!LetterOf(o) # Origin!LetterOf(origin)
    <3>1. fetching' = Origin!Wanted(Origin!LetterOf(o)) /\ failed' = Origin!NoFailure
      BY <1>1, <2>3 DEF Origin!Move
    <3> QED BY <2>1, <3>1
  <2> QED BY <2>2, <2>3
<1>2. ASSUME NEW o \in PanelOrigins \cup {None}, Origin!Remount(o) PROVE OriginInv'
  BY <1>2 DEF Origin!Remount
<1>3. ASSUME NEW o \in PanelOrigins, Origin!LiveArrives(o) PROVE OriginInv'
  BY <1>3 DEF Origin!LiveArrives
<1>4. ASSUME NEW o \in PanelOrigins, Origin!LiveFails(o) PROVE OriginInv'
  BY <1>4 DEF Origin!LiveFails
<1>5. ASSUME NEW o \in PanelOrigins, Origin!ShardArrives(LetterOfOrigin[o]) PROVE OriginInv'
  BY <1>5 DEF Origin!ShardArrives
<1>6. ASSUME NEW o \in PanelOrigins, Origin!ShardFails(LetterOfOrigin[o]) PROVE OriginInv'
  BY <1>6 DEF Origin!ShardFails
<1>7. ASSUME UNCHANGED Origin!vars PROVE OriginInv'
  BY <1>7 DEF Origin!vars
<1> QED BY <1>1, <1>2, <1>3, <1>4, <1>5, <1>6, <1>7 DEF Origin!Next

\* DestinationsPanel.tsx: the panel shows the evidence of the airport it is at, or loads
\* it, or failed to, for any number of airports and shards.
THEOREM OriginsAreServed ==
  ASSUME Origin!OriginAssumption PROVE Origin!Spec => []Origin!EvidenceComes
<1>1. OriginInv => Origin!EvidenceComes
  BY DEF OriginInv
<1> QED BY <1>1, OriginBegins, OriginSteps, PTL DEF Origin!Spec

-----------------------------------------------------------------------------
(***************************************************************************)
(* The flight dates panel.                                                 *)
(***************************************************************************)
PanelAnswers == [serial : Nat, month : Months, days : [MonthDates -> Panel!DayRecords]]

\* No request is younger than the last query, and the one of the last query is for the month
\* that is shown.
PanelInv ==
  /\ time \in Nat /\ clock \in Nat /\ clock <= time /\ serial \in Nat
  /\ queries \subseteq [serial : Nat, month : Months]
  /\ \A q \in queries : q.serial <= serial /\ (q.serial = serial => q.month = month)
  /\ answer # None => answer \in PanelAnswers /\ answer.serial = serial /\ answer.month = month
  /\ status = "loading" => [serial |-> serial, month |-> month] \in queries
  /\ month \in Months

\* A supplier's day has its times moved, and keeps its shape.
LEMMA DatedDays ==
  ASSUME Panel!PanelAssumption, NEW kind \in DayKinds, NEW t \in Int
  PROVE  Panel!Dated(kind, t) \in Panel!DayRecords
<1> DEFINE moved(source) == [checked |-> source.checked + t, until |-> source.until + t]
           movedRow(r) == [r EXCEPT !.source = moved(@), !.operator = IF @ = None THEN None ELSE moved(@)]
<1>1. kind \in Panel!DayRecords
  BY DEF Panel!PanelAssumption
<1>2. ASSUME NEW s \in Panel!Source PROVE moved(s) \in Panel!Source
  BY DEF Panel!Source
<1>3. ASSUME NEW r \in Panel!Row PROVE movedRow(r) \in Panel!Row
  <2>1. moved(r.source) \in Panel!Source
    BY <1>2 DEF Panel!Row
  <2>2. (IF r.operator = None THEN None ELSE moved(r.operator)) \in Panel!Source \cup {None}
    BY <1>2 DEF Panel!Row
  <2> HIDE DEF moved
  <2> QED BY <2>1, <2>2 DEF Panel!Row
<1>4. Panel!Dated(kind, t) = [kind EXCEPT !.live = moved(@), !.references = {moved(s) : s \in @},
                                          !.published = {movedRow(r) : r \in @}]
  BY DEF Panel!Dated
<1> HIDE DEF moved, movedRow
<1>5. /\ moved(kind.live) \in Panel!Source
      /\ {moved(s) : s \in kind.references} \in SUBSET Panel!Source
      /\ {movedRow(r) : r \in kind.published} \in SUBSET Panel!Row
  BY <1>1, <1>2, <1>3 DEF Panel!DayRecords
<1> QED BY <1>1, <1>4, <1>5 DEF Panel!DayRecords

LEMMA OfficialMonth ==
  ASSUME Panel!PanelAssumption, NEW t \in Int, NEW d \in MonthDates
  PROVE  Panel!OfficialDays(t)[d] \in Panel!DayRecords
<1>1. Panel!OfficialRows(d, t) \in SUBSET Panel!Row
  <2>1. ASSUME NEW r \in Official
        PROVE  [flight |-> r.flight, source |-> r.source, operator |-> r.operator] \in Panel!Row
    BY DEF Panel!PanelAssumption, Panel!Row
  <2> QED BY <2>1 DEF Panel!OfficialRows
<1>2. [checked |-> t, until |-> t + OfficialTTL] \in Panel!Source
  BY DEF Panel!PanelAssumption, Panel!Source
<1> QED BY <1>1, <1>2 DEF Panel!OfficialDays, Panel!DayRecords, Panel!Issues

LEMMA MergedDays ==
  ASSUME NEW primary \in Panel!DayRecords, NEW fallback \in Panel!DayRecords, NEW t
  PROVE  Panel!MergeDay(primary, fallback, t) \in Panel!DayRecords
<1> DEFINE holds == Panel!Fresh(primary.live, t)
           occupied == IF holds THEN primary.flights ELSE {}
           usable(timetable) == {r \in timetable : r.flight \notin occupied /\ Panel!Fresh(r.source, t)}
           own == usable(primary.published)
           added == {r \in usable(fallback.published) : \A o \in own : o.flight # r.flight}
<1>1. Panel!MergeDay(primary, fallback, t)
        = IF primary.complete /\ holds THEN primary
          ELSE [primary EXCEPT !.published = own \cup added]
  BY DEF Panel!MergeDay
<1>2. own \cup added \in SUBSET Panel!Row
  BY DEF Panel!DayRecords
<1> HIDE DEF own, added, holds
<1> QED BY <1>1, <1>2 DEF Panel!DayRecords

\* What either answer leaves on the panel.
LEMMA AnsweredDays ==
  ASSUME Panel!PanelAssumption, PanelInv, NEW q \in queries, NEW kinds \in [MonthDates -> DayKinds],
         Panel!Answered(q, kinds), q.serial = serial
  PROVE  answer' \in PanelAnswers /\ answer'.serial = serial /\ answer'.month = q.month
<1> DEFINE primary == IF HasBase THEN [d \in MonthDates |-> Panel!Dated(kinds[d], time)]
                      ELSE Panel!OfficialDays(time)
           merged == IF HasBase
                     THEN [d \in MonthDates |->
                             Panel!MergeDay(primary[d], Panel!OfficialDays(time)[d], time)]
                     ELSE primary
<1>1. answer' = [serial |-> q.serial, month |-> q.month, days |-> merged]
  BY DEF Panel!Answered, Panel!IsLatest
<1>2. time \in Int /\ q.serial \in Nat /\ q.month \in Months
  BY DEF PanelInv
<1>3. ASSUME NEW d \in MonthDates PROVE merged[d] \in Panel!DayRecords
  <2>1. Panel!OfficialDays(time)[d] \in Panel!DayRecords
    BY <1>2, OfficialMonth
  <2>2. Panel!Dated(kinds[d], time) \in Panel!DayRecords
    BY <1>2, DatedDays
  <2> QED BY <2>1, <2>2, MergedDays
<1>4. merged = [d \in MonthDates |-> merged[d]]
  BY DEF Panel!OfficialDays
<1> HIDE DEF merged
<1>5. merged \in [MonthDates -> Panel!DayRecords]
  BY <1>3, <1>4
<1> QED BY <1>1, <1>2, <1>5 DEF PanelAnswers

LEMMA FailedDays ==
  ASSUME Panel!PanelAssumption, PanelInv, NEW q \in queries, Panel!Failed(q), q.serial = serial
  PROVE  answer' \in PanelAnswers /\ answer'.serial = serial /\ answer'.month = q.month
<1>1. answer' = [serial |-> q.serial, month |-> q.month, days |-> Panel!OfficialDays(time)]
  BY DEF Panel!Failed
<1>2. time \in Int /\ q.serial \in Nat /\ q.month \in Months
  BY DEF PanelInv
<1>3. \A d \in MonthDates : Panel!OfficialDays(time)[d] \in Panel!DayRecords
  BY <1>2, OfficialMonth
<1>4. Panel!OfficialDays(time) = [d \in MonthDates |-> Panel!OfficialDays(time)[d]]
  BY DEF Panel!OfficialDays
<1>5. Panel!OfficialDays(time) \in [MonthDates -> Panel!DayRecords]
  BY <1>3, <1>4
<1> QED BY <1>1, <1>2, <1>5 DEF PanelAnswers

LEMMA PanelSteps ==
  ASSUME Panel!PanelAssumption, PanelInv, [Panel!Next]_Panel!vars
  PROVE  PanelInv'
<1>1. CASE Panel!Tick
  BY <1>1 DEF Panel!Tick, PanelInv
<1>2. ASSUME NEW m \in Months, Panel!ChangeMonth(m) PROVE PanelInv'
  <2>1. /\ serial' = serial + 1 /\ month' = m /\ answer' = None /\ status' = "idle"
        /\ UNCHANGED <<time, clock, queries>>
    BY <1>2 DEF Panel!ChangeMonth
  <2>2. \A q \in queries : q.serial \in Nat /\ q.serial <= serial
    BY DEF PanelInv
  <2>3. \A q \in queries' : q.serial <= serial' /\ q.serial # serial'
    BY <2>1, <2>2 DEF PanelInv
  <2> QED BY <2>1, <2>3 DEF PanelInv
<1>3. ASSUME NEW d \in MonthDates, Panel!PickDate(d) PROVE PanelInv'
  BY <1>3 DEF Panel!PickDate, PanelInv
<1>4. CASE Panel!QueryMonth
  <2> DEFINE new == [serial |-> serial + 1, month |-> month]
  <2>1. /\ serial' = serial + 1 /\ answer' = None /\ queries' = queries \cup {new}
        /\ UNCHANGED <<time, clock, month>>
    BY <1>4 DEF Panel!QueryMonth
  <2>2. \A q \in queries : q.serial \in Nat /\ q.serial <= serial
    BY DEF PanelInv
  <2>3. \A q \in queries : q.serial <= serial + 1 /\ q.serial # serial + 1
    BY <2>2 DEF PanelInv
  <2>4. new \in [serial : Nat, month : Months] /\ new.serial = serial + 1 /\ new.month = month
    BY DEF PanelInv
  <2>5. serial + 1 \in Nat /\ serial + 1 <= serial + 1
    BY DEF PanelInv
  <2>6. new = [serial |-> serial', month |-> month']
    BY <2>1
  <2> HIDE DEF new
  <2> QED BY <2>1, <2>3, <2>4, <2>5, <2>6 DEF PanelInv
<1>5. ASSUME NEW q \in queries, NEW kinds \in [MonthDates -> DayKinds], Panel!Answered(q, kinds)
      PROVE  PanelInv'
  <2>1. queries' = queries \ {q} /\ UNCHANGED <<time, month, serial>>
    BY <1>5 DEF Panel!Answered
  <2>2. CASE q.serial = serial
    <3>1. clock' = time /\ status' = "ready"
      BY <1>5, <2>2 DEF Panel!Answered, Panel!IsLatest
    <3>2. answer' \in PanelAnswers /\ answer'.serial = serial /\ answer'.month = month
      BY <1>5, <2>2, AnsweredDays DEF PanelInv
    <3> QED BY <2>1, <3>1, <3>2 DEF PanelInv
  <2>3. CASE q.serial # serial
    <3>1. UNCHANGED <<clock, answer, status>>
      BY <1>5, <2>3 DEF Panel!Answered, Panel!IsLatest
    <3> QED BY <2>1, <2>3, <3>1 DEF PanelInv
  <2> QED BY <2>2, <2>3
<1>6. ASSUME NEW q \in queries, Panel!Failed(q) PROVE PanelInv'
  <2>1. queries' = queries \ {q} /\ UNCHANGED <<time, month, serial>>
    BY <1>6 DEF Panel!Failed
  <2>2. CASE q.serial = serial
    <3>1. clock' = time /\ status' = "error"
      BY <1>6, <2>2 DEF Panel!Failed
    <3>2. answer' \in PanelAnswers /\ answer'.serial = serial /\ answer'.month = month
      BY <1>6, <2>2, FailedDays DEF PanelInv
    <3> QED BY <2>1, <3>1, <3>2 DEF PanelInv
  <2>3. CASE q.serial # serial
    <3>1. UNCHANGED <<clock, answer, status>>
      BY <1>6, <2>3 DEF Panel!Failed
    <3> QED BY <2>1, <2>3, <3>1 DEF PanelInv
  <2> QED BY <2>2, <2>3
<1>7. CASE Panel!TimerFires
  BY <1>7 DEF Panel!TimerFires, PanelInv
<1>8. ASSUME NEW f \in PanelFlights, NEW l \in BOOLEAN, Panel!Choose(f, l) PROVE PanelInv'
  BY <1>8 DEF Panel!Choose, PanelInv
<1>9. CASE Panel!Reopen
  BY <1>9 DEF Panel!Reopen, PanelInv
<1>10. CASE UNCHANGED Panel!vars
  BY <1>10 DEF Panel!vars, PanelInv
<1> QED BY <1>1, <1>2, <1>3, <1>4, <1>5, <1>6, <1>7, <1>8, <1>9, <1>10 DEF Panel!Next

LEMMA PanelMoves == ASSUME Panel!PanelAssumption PROVE Panel!Spec => []PanelInv
<1>1. Panel!Init => PanelInv
  BY DEF Panel!Init, PanelInv
<1>2. PanelInv /\ [Panel!Next]_Panel!vars => PanelInv'
  BY PanelSteps
<1> QED BY <1>1, <1>2, PTL DEF Panel!Spec

\* What is said of a day at a time rests on evidence that is good at that time.
LEMMA ViewsHold ==
  ASSUME NEW day, NEW t
  PROVE  LET shownDay == Panel!DayView(day, t)
         IN /\ shownDay.flights # {} => Panel!Fresh(day.live, t)
            /\ \A r \in shownDay.published : r \in day.published /\ Panel!RowFresh(r, t)
  BY DEF Panel!DayView, Panel!View

\* What was good when it was drawn is good until it expires.
LEMMA FreshUntil ==
  ASSUME Panel!PanelAssumption, PanelInv, NEW s \in Panel!Source,
         Panel!Fresh(s, clock), time < s.until
  PROVE  Panel!Fresh(s, time)
<1>1. s.checked \in Int /\ s.until \in Int /\ clock \in Nat /\ time \in Nat /\ Skew \in Int
  BY DEF PanelInv, Panel!PanelAssumption, Panel!Source
<1>2. s.checked <= clock + Skew /\ clock <= time
  BY DEF PanelInv, Panel!Fresh
<1> QED BY <1>1, <1>2 DEF Panel!Fresh

\* The timer comes before anything that is shown expires.
LEMMA TimerComesFirst ==
  ASSUME Panel!PanelAssumption, PanelInv, Panel!Current, ~Panel!TimerDue,
         NEW e \in Panel!Expiries, e > clock
  PROVE  time < e
<1> DEFINE pending == {x \in Panel!Expiries : x > clock}
<1>1. answer \in PanelAnswers
  BY DEF PanelInv, Panel!Current
<1>2. Panel!Expiries \subseteq Int
  <2> SUFFICES ASSUME NEW d \in MonthDates
               PROVE  /\ answer.days[d].live.until \in Int
                      /\ \A r \in answer.days[d].published : r.source.until \in Int
                      /\ \A s \in answer.days[d].references : s.until \in Int
    BY DEF Panel!Expiries, Panel!Current
  <2>1. answer.days[d] \in Panel!DayRecords
    BY <1>1 DEF PanelAnswers
  <2> QED BY <2>1 DEF Panel!DayRecords, Panel!Row, Panel!Source
<1>3. clock \in Nat /\ time \in Nat
  BY DEF PanelInv
<1>4. pending \subseteq Nat /\ e \in pending /\ e \in Nat
  <2>1. ASSUME NEW x \in Panel!Expiries, x > clock PROVE x \in Nat
    <3>1. x \in Int
      BY <1>2
    <3> QED BY <1>3, <2>1, <3>1
  <2> QED BY <2>1
<1>5. \E m \in pending : \A x \in pending : m <= x
  <2> HIDE DEF pending
  <2> QED BY <1>4, LeastNat
<1>6. Panel!Min(pending) \in pending /\ Panel!Min(pending) <= e
  <2> HIDE DEF pending
  <2> QED BY <1>4, <1>5 DEF Panel!Min
<1>7. ~(time >= Panel!Min(pending))
  BY <1>4 DEF Panel!TimerDue
<1> DEFINE first == Panel!Min(pending)
<1>8. first \in Nat /\ first <= e /\ ~(time >= first)
  BY <1>4, <1>6, <1>7
<1> HIDE DEF first
<1> QED BY <1>3, <1>4, <1>8

\* The panel shows the answer to its last query, for its month, in whatever order aborted,
\* superseded and late answers come, and while no timer is due nothing that has expired
\* (src/src/components/FlightDatesPanel.tsx, queryMonth, changeMonth and the expiry timer).
THEOREM PanelIsCurrent ==
  ASSUME Panel!PanelAssumption PROVE Panel!Spec => []Panel!ShownIsCurrent
<1>1. PanelInv => Panel!ShownIsCurrent
  <2>1. PanelInv => Panel!OnlyTheLastQuery
    BY DEF PanelInv, Panel!OnlyTheLastQuery
  <2>2. PanelInv => Panel!ShownEvidenceFresh
    <3> SUFFICES ASSUME PanelInv, Panel!Current, ~Panel!TimerDue, NEW d \in MonthDates
                 PROVE  /\ Panel!Shown(d).flights # {}
                             => Panel!Fresh(answer.days[d].live, time)
                        /\ \A r \in Panel!Shown(d).published : Panel!Fresh(r.source, time)
      BY DEF Panel!ShownEvidenceFresh
    <3> DEFINE day == answer.days[d]
    <3>1. day \in Panel!DayRecords
      BY DEF PanelInv, Panel!Current, PanelAnswers
    <3>2. day.live.until \in Panel!Expiries
      BY DEF Panel!Expiries
    <3>3. \A r \in day.published : r.source.until \in Panel!Expiries
      BY DEF Panel!Expiries
    <3>4. /\ Panel!Shown(d).flights # {} => Panel!Fresh(day.live, clock)
          /\ \A r \in Panel!Shown(d).published : r \in day.published /\ Panel!RowFresh(r, clock)
      BY ViewsHold DEF Panel!Shown
    <3> HIDE DEF day
    <3>5. Panel!Shown(d).flights # {} => Panel!Fresh(day.live, time)
      BY <3>1, <3>2, <3>4, TimerComesFirst, FreshUntil DEF Panel!DayRecords, Panel!Fresh
    <3>6. ASSUME NEW r \in Panel!Shown(d).published PROVE Panel!Fresh(r.source, time)
      <4>1. r.source \in Panel!Source /\ Panel!Fresh(r.source, clock)
        BY <3>1, <3>4 DEF Panel!DayRecords, Panel!Row, Panel!RowFresh
      <4>2. r.source.until \in Panel!Expiries
        BY <3>3, <3>4
      <4> QED BY <4>1, <4>2, TimerComesFirst, FreshUntil DEF Panel!Fresh
    <3> QED BY <3>5, <3>6 DEF day
  <2> QED BY <2>1, <2>2 DEF Panel!ShownIsCurrent
<1> QED BY <1>1, PanelMoves, PTL

\* A flight that is handed to the itinerary rests on evidence that is good at that moment,
\* however long ago it was drawn (FlightDatesPanel.tsx, choose).
THEOREM ChoicesHold == Panel!Spec => [][Panel!ChoiceHolds]_Panel!vars
<1>1. ASSUME NEW f, NEW l, Panel!Choose(f, l) PROVE Panel!ChoiceHolds
  <2> SUFFICES ASSUME chosen' # chosen PROVE Panel!ChoiceHolds
    BY DEF Panel!ChoiceHolds
  <2> DEFINE day == answer.days[selected]
  <2>1. /\ chosen' = [date |-> selected, flight |-> f, live |-> l]
        /\ Panel!Listed(Panel!DayView(day, time), f, l)
    BY <1>1 DEF Panel!Choose, Panel!NowForChoice
  <2>2. /\ Panel!DayView(day, time).flights # {} => Panel!Fresh(day.live, time)
        /\ \A r \in Panel!DayView(day, time).published :
             r \in day.published /\ Panel!RowFresh(r, time)
    BY ViewsHold
  <2>3. chosen'.date = selected /\ chosen'.flight = f /\ chosen'.live = l
    BY <2>1
  <2>4. IF l THEN Panel!Fresh(day.live, time)
        ELSE \E r \in day.published : r.flight = f /\ Panel!RowFresh(r, time)
    BY <2>1, <2>2 DEF Panel!Listed
  <2> QED BY <2>3, <2>4 DEF Panel!ChoiceHolds
<1>2. Panel!Next => Panel!ChoiceHolds
  <2> SUFFICES ASSUME Panel!Next PROVE Panel!ChoiceHolds
    OBVIOUS
  <2>1. CASE \E f \in PanelFlights, l \in BOOLEAN : Panel!Choose(f, l)
    BY <1>1, <2>1
  <2>2. CASE Panel!Reopen
    BY <2>2 DEF Panel!Reopen, Panel!ChoiceHolds
  <2>3. CASE /\ ~\E f \in PanelFlights, l \in BOOLEAN : Panel!Choose(f, l)
             /\ ~Panel!Reopen
    <3>1. chosen' = chosen
      BY <2>3 DEF Panel!Next, Panel!Tick, Panel!ChangeMonth, Panel!PickDate, Panel!QueryMonth,
                  Panel!Answered, Panel!Failed, Panel!TimerFires
    <3> QED BY <3>1 DEF Panel!ChoiceHolds
  <2> QED BY <2>1, <2>2, <2>3
<1> QED BY <1>2, PTL DEF Panel!Spec

-----------------------------------------------------------------------------
(***************************************************************************)
(* The next-leg panel.                                                     *)
(***************************************************************************)
\* What was chosen for a draft was chosen for its flight, and the dates that are open beside
\* a draft are those of its flight.
OfferInv ==
  /\ offers \in Discoveries
  /\ draft # None =>
       /\ draft = NextLeg!Drafts(draft.from, draft.to, draft.flight, draft.dated, draft.chosenFor)
       /\ draft.chosenFor # None
            => draft.chosenFor = NextLeg!Flight(draft.from, draft.to, draft.flight)
       /\ target # None => target = NextLeg!Flight(draft.from, draft.to, draft.flight)

LEMMA OfferSteps ==
  ASSUME OfferInv, [NextLeg!Next]_NextLeg!vars
  PROVE  OfferInv'
<1>1. ASSUME UNCHANGED <<offers, draft, target>> PROVE OfferInv'
  BY <1>1 DEF OfferInv
<1>2. ASSUME UNCHANGED offers, draft' = None PROVE OfferInv'
  BY <1>2 DEF OfferInv
<1>3. ASSUME UNCHANGED <<offers, draft>>, target' = None PROVE OfferInv'
  BY <1>3 DEF OfferInv
<1>4. ASSUME NEW to, NextLeg!ChooseDestination(to) \/ NextLeg!ChooseSurface(to) PROVE OfferInv'
  BY <1>2, <1>4 DEF NextLeg!ChooseDestination, NextLeg!ChooseSurface, NextLeg!Cleared
<1>5. ASSUME NEW to, NextLeg!MapClick(to) \/ NextLeg!DraftManual(to) PROVE OfferInv'
  BY <1>1, <1>5 DEF NextLeg!MapClick, NextLeg!DraftManual, NextLeg!panel
<1>6. CASE NextLeg!CancelSurface \/ NextLeg!DropManual \/ NextLeg!AddSurface \/ NextLeg!AddManual
  BY <1>1, <1>6 DEF NextLeg!CancelSurface, NextLeg!DropManual, NextLeg!AddSurface, NextLeg!AddManual
<1>7. CASE NextLeg!CloseDates
  BY <1>3, <1>7 DEF NextLeg!CloseDates
<1>8. CASE NextLeg!OpenDates
  <2>1. /\ draft # None /\ draft.from = end /\ target' = NextLeg!Flight(end, draft.to, draft.flight)
        /\ UNCHANGED <<offers, draft>>
    BY <1>8 DEF NextLeg!OpenDates, NextLeg!ActiveDraft, NextLeg!AtOrigin
  <2> QED BY <2>1 DEF OfferInv
<1>9. CASE NextLeg!UsePlannedDate
  <2> DEFINE chosen_ == IF NextLeg!ActiveDraft THEN draft.chosenFor ELSE None
  <2>1. /\ draft' = NextLeg!Drafts(target.from, target.to, target.flight, TRUE, chosen_)
        /\ target # None /\ target' = None /\ UNCHANGED offers
    BY <1>9 DEF NextLeg!UsePlannedDate, NextLeg!DatesOpen, NextLeg!AtOrigin
  <2>2. ASSUME chosen_ # None PROVE chosen_ = NextLeg!Flight(target.from, target.to, target.flight)
    <3>1. NextLeg!ActiveDraft /\ draft # None /\ chosen_ = draft.chosenFor
      BY <2>2 DEF NextLeg!ActiveDraft, NextLeg!AtOrigin
    <3>2. /\ chosen_ = NextLeg!Flight(draft.from, draft.to, draft.flight)
          /\ target = NextLeg!Flight(draft.from, draft.to, draft.flight)
      BY <2>1, <2>2, <3>1 DEF OfferInv
    <3> QED BY <3>2 DEF NextLeg!Flight
  <2> HIDE DEF chosen_
  <2>3. /\ draft'.from = target.from /\ draft'.to = target.to /\ draft'.flight = target.flight
        /\ draft'.dated = TRUE /\ draft'.chosenFor = chosen_
    BY <2>1 DEF NextLeg!Drafts
  <2> QED BY <2>1, <2>2, <2>3 DEF OfferInv
<1>10. ASSUME NEW f, NextLeg!SelectFlight(f) PROVE OfferInv'
  <2>1. /\ draft' = NextLeg!Drafts(end, NextLeg!SelectedRoute, f, FALSE, None)
        /\ target' = None /\ UNCHANGED offers
    BY <1>10 DEF NextLeg!SelectFlight, NextLeg!CloseTarget
  <2>2. /\ draft'.from = end /\ draft'.to = NextLeg!SelectedRoute /\ draft'.flight = f
        /\ draft'.dated = FALSE /\ draft'.chosenFor = None
    BY <2>1 DEF NextLeg!Drafts
  <2> QED BY <2>1, <2>2 DEF OfferInv
<1>11. ASSUME NEW f, NextLeg!VerifyCarrier(f) PROVE OfferInv'
  BY <1>2, <1>11 DEF NextLeg!VerifyCarrier
<1>12. ASSUME NEW c \in BOOLEAN, NextLeg!ChooseTiming(c) PROVE OfferInv'
  <2> DEFINE v == IF c THEN NextLeg!Flight(draft.from, draft.to, draft.flight) ELSE None
  <2>1. /\ draft' = [draft EXCEPT !.chosenFor = v] /\ draft # None
        /\ UNCHANGED <<offers, target>>
    BY <1>12 DEF NextLeg!ChooseTiming, NextLeg!ActiveDraft, NextLeg!AtOrigin
  <2>2. draft = NextLeg!Drafts(draft.from, draft.to, draft.flight, draft.dated, draft.chosenFor)
    BY <2>1 DEF OfferInv
  <2>3. v # None => v = NextLeg!Flight(draft.from, draft.to, draft.flight)
    OBVIOUS
  <2> HIDE DEF v
  <2>4. draft' = NextLeg!Drafts(draft.from, draft.to, draft.flight, draft.dated, v)
    BY <2>1, <2>2 DEF NextLeg!Drafts
  <2>5. /\ draft'.from = draft.from /\ draft'.to = draft.to /\ draft'.flight = draft.flight
        /\ draft'.dated = draft.dated /\ draft'.chosenFor = v
    BY <2>4 DEF NextLeg!Drafts
  <2> QED BY <2>1, <2>3, <2>4, <2>5 DEF OfferInv
<1>13. ASSUME NEW mode, NEW carrier, NextLeg!EditManual(mode, carrier) PROVE OfferInv'
  BY <1>1, <1>13 DEF NextLeg!EditManual
<1>14. CASE NextLeg!AddDraft \/ NextLeg!AddDated
  BY <1>2, <1>14 DEF NextLeg!AddDraft, NextLeg!AddDated, NextLeg!Cleared
<1>15. ASSUME NEW a, NextLeg!Remount(a) PROVE OfferInv'
  BY <1>2, <1>15 DEF NextLeg!Remount, NextLeg!Cleared
<1>16. ASSUME NEW a, NEW b, NextLeg!Reroute(a, b) PROVE OfferInv'
  BY <1>1, <1>16 DEF NextLeg!Reroute, NextLeg!panel
<1>17. ASSUME NEW results \in Discoveries, NextLeg!Rediscover(results) PROVE OfferInv'
  BY <1>17 DEF NextLeg!Rediscover, NextLeg!panel, OfferInv
<1>18. CASE UNCHANGED NextLeg!vars
  BY <1>1, <1>18 DEF NextLeg!vars, NextLeg!panel
<1> QED BY <1>4, <1>5, <1>6, <1>7, <1>8, <1>9, <1>10, <1>11, <1>12, <1>13, <1>14, <1>15, <1>16,
           <1>17, <1>18 DEF NextLeg!Next

\* Whatever navigation, map clicks and other edits came between a choice in the next-leg panel
\* and its button, the button adds a leg that continues the route, with the cabin and timing
\* that were chosen for that flight (src/src/components/DestinationsPanel.tsx,
\* src/src/App.tsx:522).
THEOREM OffersCanBeHad ==
  ASSUME NextLeg!OfferAssumption PROVE NextLeg!Spec => []NextLeg!OffersSound
<1>1. NextLeg!Init => OfferInv
  BY DEF NextLeg!Init, OfferInv
<1>2. OfferInv /\ [NextLeg!Next]_NextLeg!vars => OfferInv'
  BY OfferSteps
<1>3. OfferInv => NextLeg!OffersSound
  <2> SUFFICES ASSUME OfferInv, NEW x \in NextLeg!Offered
               PROVE  /\ ~hidden => NextLeg!Attaches(x)
                      /\ x.chosenFor # None => x.chosenFor = NextLeg!Flight(x.from, x.to, x.flight)
    BY DEF NextLeg!OffersSound, NextLeg!OffersAttach, NextLeg!ChoicesOfTheFlight
  <2>1. CASE x \in NextLeg!OfDraft
    <3>1. /\ NextLeg!RouteCard /\ NextLeg!ActiveDraft
          /\ x = NextLeg!Addition(end, NextLeg!SelectedRoute, draft.flight, draft.chosenFor)
      BY <2>1 DEF NextLeg!OfDraft
    <3>2. draft # None /\ draft.from = end /\ draft.to = NextLeg!SelectedRoute
      BY <3>1 DEF NextLeg!ActiveDraft, NextLeg!AtOrigin
    <3>3. NextLeg!SelectedRoute \in NextLeg!Destinations
      BY <3>1 DEF NextLeg!RouteCard, NextLeg!SelectedRoute
    <3>4. end # NextLeg!SelectedRoute
      BY <3>3 DEF NextLeg!Destinations, OfferInv, NextLeg!OfferAssumption
    <3>5. /\ x.from = end /\ x.to = NextLeg!SelectedRoute /\ x.flight = draft.flight
          /\ x.chosenFor = draft.chosenFor
      BY <3>1 DEF NextLeg!Addition
    <3> QED BY <3>2, <3>4, <3>5 DEF NextLeg!Attaches, OfferInv
  <2>2. CASE x \in NextLeg!OfSurface
    <3>1. /\ surface.from = end /\ surface.from # surface.to
          /\ x = NextLeg!Addition(surface.from, surface.to, None, None)
      BY <2>2 DEF NextLeg!OfSurface, NextLeg!ActiveSurface, NextLeg!AtOrigin
    <3> QED BY <3>1 DEF NextLeg!Addition, NextLeg!Attaches
  <2>3. CASE x \in NextLeg!OfManual
    BY <2>3 DEF NextLeg!OfManual, NextLeg!Addition, NextLeg!Attaches
  <2>4. CASE x \in NextLeg!OfDates
    <3> DEFINE c == IF NextLeg!ActiveDraft THEN draft.chosenFor ELSE None
    <3>1. /\ target # None /\ target.from = end /\ target.from # target.to
          /\ x = NextLeg!Addition(target.from, target.to, target.flight, c)
      BY <2>4 DEF NextLeg!OfDates, NextLeg!DatesOpen, NextLeg!AtOrigin
    <3>2. ASSUME c # None PROVE c = NextLeg!Flight(target.from, target.to, target.flight)
      <4>1. draft # None /\ c = draft.chosenFor
        BY <3>2 DEF NextLeg!ActiveDraft, NextLeg!AtOrigin
      <4>2. /\ c = NextLeg!Flight(draft.from, draft.to, draft.flight)
            /\ target = NextLeg!Flight(draft.from, draft.to, draft.flight)
        BY <3>1, <3>2, <4>1 DEF OfferInv
      <4> QED BY <4>2 DEF NextLeg!Flight
    <3> HIDE DEF c
    <3>3. /\ x.from = target.from /\ x.to = target.to /\ x.flight = target.flight
          /\ x.chosenFor = c
      BY <3>1 DEF NextLeg!Addition
    <3> QED BY <3>1, <3>2, <3>3 DEF NextLeg!Attaches
  <2> QED BY <2>1, <2>2, <2>3, <2>4 DEF NextLeg!Offered
<1> QED BY <1>1, <1>2, <1>3, PTL DEF NextLeg!Spec

-----------------------------------------------------------------------------
(***************************************************************************)
(* The map of the planner.                                                 *)
(***************************************************************************)
\* What a route goes through.
OnMap == DOMAIN Lon \cup Others

MapInv ==
  /\ route \in Seq(OnMap) /\ guide \in Guides
  /\ fitted = Map!FitKey(route, guide, pickedStop)
  /\ Map!ViewIsFitted

LEMMA MapCardinality == \A S : Map!Cardinality(S) = Cardinality(S)
  BY DEF Map!Cardinality, Cardinality

\* What is listed without its repetitions begins as the list does.
LEMMA DistinctBegins ==
  ASSUME NEW U, NEW seq \in Seq(U)
  PROVE  /\ seq = << >> => Len(Map!Distinct(seq)) = 0
         /\ seq # << >> => Map!Distinct(seq)[1] = seq[1]
<1> DEFINE once == {i \in DOMAIN seq : \A j \in 1..(i - 1) : seq[j] # seq[i]}
           upto(i) == {j \in once : j <= i}
           nth(k) == CHOOSE i \in once : Map!Cardinality(upto(i)) = k
<1>1. Map!Distinct(seq) = [k \in 1..Cardinality(once) |-> seq[nth(k)]]
  <2>1. Map!Distinct(seq) = [k \in 1..Map!Cardinality(once) |-> seq[nth(k)]]
    BY DEF Map!Distinct
  <2>2. Map!Cardinality(once) = Cardinality(once)
    BY MapCardinality
  <2> HIDE DEF once, nth
  <2> QED BY <2>1, <2>2
<1>2. DOMAIN seq = 1..Len(seq) /\ Len(seq) \in Nat /\ once \subseteq 1..Len(seq)
  OBVIOUS
<1>3. IsFiniteSet(once) /\ Cardinality(once) \in Nat
  <2>1. IsFiniteSet(1..Len(seq))
    BY <1>2, FS_Interval
  <2> HIDE DEF once
  <2>2. IsFiniteSet(once)
    BY <1>2, <2>1, FS_Subset
  <2> QED BY <2>2, FS_CardinalityType
<1>4. CASE seq = << >>
  <2>1. once = {} /\ Cardinality(once) = 0
    BY <1>4, FS_EmptySet
  <2> HIDE DEF once, nth
  <2> QED BY <1>1, <1>4, <2>1
<1>5. CASE seq # << >>
  <2>1. 1 \in once
    BY <1>2, <1>5
  <2>2. upto(1) = {1}
    BY <1>2, <2>1
  <2>3. Cardinality(upto(1)) = 1
    BY <2>2, FS_Singleton
  <2>4. ASSUME NEW i \in once, Cardinality(upto(i)) = 1 PROVE i = 1
    <3>1. {1, i} \subseteq upto(i)
      BY <1>2, <2>1
    <3>2. IsFiniteSet(upto(i))
      BY <1>3, FS_Subset
    <3>3. PICK x : upto(i) = {x}
      <4> HIDE DEF upto
      <4> QED BY <2>4, <3>2, FS_Singleton
    <3> QED BY <3>1, <3>3
  <2>5. nth(1) = 1
    <3>1. \A i \in once : Map!Cardinality(upto(i)) = Cardinality(upto(i))
      BY MapCardinality
    <3> HIDE DEF once, upto
    <3> QED BY <2>1, <2>3, <2>4, <3>1
  <2>6. Cardinality(once) >= 1
    <3>1. Cardinality(once) # 0
      <4> HIDE DEF once
      <4> QED BY <1>3, <2>1, FS_EmptySet
    <3> QED BY <1>3, <3>1
  <2>7. 1 \in 1..Cardinality(once)
    BY <1>3, <2>6
  <2> HIDE DEF once, nth
  <2> QED BY <1>1, <1>5, <2>5, <2>7
<1> QED BY <1>4, <1>5

\* The airports of a fit begin where the projection is centered.
LEMMA FitBegins ==
  ASSUME Map!MapAssumption, NEW r \in Seq(OnMap), NEW g \in Guides, NEW s,
         Len(Map!FitAirports(r, g, s)) >= 2
  PROVE  r # << >> /\ Map!FitAirports(r, g, s)[1] = r[1]
<1>1. CASE Map!Mode(r, g, s) = "network"
  BY <1>1 DEF Map!FitAirports
<1>2. CASE Map!Mode(r, g, s) = "route"
  <2>1. Map!FitAirports(r, g, s) = Map!Distinct(r)
    BY <1>2 DEF Map!FitAirports
  <2> QED BY <2>1, DistinctBegins
<1>3. CASE Map!Mode(r, g, s) = "selection"
  <2> DEFINE x == Map!Selected(r, g, s)
  <2>1. Map!FitAirports(r, g, s) = Map!Distinct(Append(r, x))
    BY <1>3 DEF Map!FitAirports
  <2>2. x # None
    BY <1>3 DEF Map!Mode
  <2>3. r # << >>
    <3>1. Map!Available(r, g) # {}
      BY <2>2 DEF Map!Selected
    <3>2. g # None /\ Map!Endpoint(r) = g.origin /\ g.origin # None
      BY <3>1 DEF Map!Available, Map!MapAssumption
    <3> QED BY <3>2 DEF Map!Endpoint
  <2> HIDE DEF x
  <2>4. /\ Append(r, x) \in Seq(OnMap \cup {x})
        /\ Append(r, x)[1] = r[1] /\ Append(r, x) # << >>
    BY <2>3
  <2>5. Map!Distinct(Append(r, x))[1] = r[1]
    <3> DEFINE longer == Append(r, x)
    <3> HIDE DEF longer
    <3>1. longer \in Seq(OnMap \cup {x}) /\ longer[1] = r[1] /\ longer # << >>
      BY <2>4 DEF longer
    <3> QED BY <3>1, DistinctBegins DEF longer
  <2> QED BY <2>1, <2>3, <2>5
<1> QED BY <1>1, <1>2, <1>3 DEF Map!Mode

\* The key of a fit decides the view: what is fitted again only if its key changes is
\* never shown with the view of something else.
LEMMA KeyDecides ==
  ASSUME Map!MapAssumption,
         NEW r \in Seq(OnMap), NEW g \in Guides, NEW s,
         NEW q \in Seq(OnMap), NEW h \in Guides, NEW t,
         Map!FitKey(r, g, s) = Map!FitKey(q, h, t)
  PROVE  Map!Preferred(r, g, s) = Map!Preferred(q, h, t)
<1> DEFINE list == Map!FitAirports(r, g, s)
<1>1. list = Map!FitAirports(q, h, t) /\ Map!Mode(r, g, s) = Map!Mode(q, h, t)
  BY DEF Map!FitKey
<1>2. CASE Len(list) < 2
  BY <1>1, <1>2 DEF Map!Preferred
<1>3. CASE ~(Len(list) < 2)
  <2>1. Len(list) >= 2
    <3>1. Len(list) \in Int
      <4>1. CASE Map!Mode(r, g, s) = "network"
        BY <4>1 DEF Map!FitAirports
      <4> QED BY <4>1
    <3> QED BY <1>3, <3>1
  <2>2. r # << >> /\ q # << >> /\ r[1] = q[1]
    BY <1>1, <2>1, FitBegins
  <2>3. Map!Center(r) = Map!Center(q)
    BY <2>2 DEF Map!Center
  <2>4. \A a : Map!Projected(r, a) = Map!Projected(q, a)
    BY <2>3 DEF Map!Projected
  <2>5. [i \in DOMAIN list |-> Map!Projected(r, list[i])]
          = [i \in DOMAIN list |-> Map!Projected(q, list[i])]
    BY <2>4
  <2> QED BY <1>1, <1>3, <2>5 DEF Map!Preferred
<1> QED BY <1>2, <1>3

LEMMA MapBegins == ASSUME Map!MapAssumption PROVE Map!Init => MapInv
<1> SUFFICES ASSUME Map!Init PROVE MapInv
  OBVIOUS
<1>1. route \in Seq(DOMAIN Lon)
  BY DEF Map!Init, Map!MapAssumption
<1>2. route \in Seq(OnMap)
  BY <1>1 DEF OnMap
<1> QED BY <1>2 DEF Map!Init, MapInv, Map!ViewIsFitted, Map!PreferredView

\* The parent shows something else.
LEMMA ShowsAnother ==
  ASSUME Map!MapAssumption, MapInv, NEW r \in Seq(OnMap), NEW g \in Guides, NEW s,
         Map!Show(r, g, s)
  PROVE  MapInv'
<1>1. /\ route' = r /\ guide' = g /\ pickedStop' = s
      /\ fitted' = Map!FitKey(r, g, s)
      /\ Map!PreferredView' = Map!Preferred(r, g, s)
  BY DEF Map!Show, Map!PreferredView, Map!Preferred, Map!FitAirports, Map!Mode, Map!Selected,
         Map!Available, Map!Code, Map!Endpoint, Map!Projected, Map!Center
<1>2. held' = {} => view' = Map!Preferred(r, g, s)
  <2>1. CASE Map!FitKey(r, g, s) # fitted
    BY <2>1 DEF Map!Show
  <2>2. CASE Map!FitKey(r, g, s) = fitted
    <3>1. view' = view /\ held' = held
      BY <2>2 DEF Map!Show
    <3>2. Map!Preferred(route, guide, pickedStop) = Map!Preferred(r, g, s)
      <4>1. /\ route \in Seq(OnMap) /\ guide \in Guides
            /\ Map!FitKey(route, guide, pickedStop) = Map!FitKey(r, g, s)
        BY <2>2 DEF MapInv
      <4> QED BY <4>1, KeyDecides
    <3> QED BY <3>1, <3>2 DEF MapInv, Map!ViewIsFitted, Map!PreferredView
  <2> QED BY <2>1, <2>2
<1>3. Map!FitKey(route, guide, pickedStop)' = Map!FitKey(r, g, s)
  BY <1>1 DEF Map!FitKey, Map!FitAirports, Map!Mode, Map!Selected, Map!Available, Map!Code,
              Map!Endpoint
<1> QED BY <1>1, <1>2, <1>3 DEF MapInv, Map!ViewIsFitted

LEMMA MapSteps ==
  ASSUME Map!MapAssumption, MapInv, [Map!Next]_Map!vars PROVE MapInv'
<1>1. ASSUME NEW r \in Routes, Map!EditRoute(r) PROVE MapInv'
  <2>1. r \in Seq(DOMAIN Lon)
    BY DEF Map!MapAssumption
  <2>2. r \in Seq(OnMap)
    BY <2>1 DEF OnMap
  <2> QED BY <1>1, <2>2, ShowsAnother DEF Map!EditRoute, MapInv
<1>2. ASSUME NEW g \in Guides, Map!Guide(g) PROVE MapInv'
  BY <1>2, ShowsAnother DEF Map!Guide, MapInv
<1>3. ASSUME NEW to, Map!SelectInPanel(to) PROVE MapInv'
  BY <1>3, ShowsAnother DEF Map!SelectInPanel, MapInv
<1>4. ASSUME NEW stop, Map!ClickStop(stop) PROVE MapInv'
  BY <1>4, ShowsAnother DEF Map!ClickStop, MapInv
<1>5. ASSUME NEW airport \in Map!Hittable, Map!Commit(airport) PROVE MapInv'
  <2>1. route \in Seq(OnMap)
    BY DEF MapInv
  <2>2. airport \in OnMap
    BY <2>1 DEF OnMap, Map!Hittable, Map!RouteCodes, Map!Range
  <2>3. Append(route, airport) \in Seq(OnMap)
    BY <2>1, <2>2
  <2> QED BY <1>5, <2>3, ShowsAnother DEF Map!Commit, MapInv
<1>6. ASSUME UNCHANGED <<route, guide, pickedStop, fitted>>,
             held' = {} => \/ view' = view /\ held = {}
                           \/ view' = Map!PreferredView
      PROVE  MapInv'
  <2>1. Map!PreferredView' = Map!PreferredView
    BY <1>6 DEF Map!PreferredView, Map!Preferred, Map!FitAirports, Map!Mode, Map!Selected,
                Map!Available, Map!Code, Map!Endpoint, Map!Projected, Map!Center
  <2>2. Map!FitKey(route, guide, pickedStop)' = Map!FitKey(route, guide, pickedStop)
    BY <1>6 DEF Map!FitKey, Map!FitAirports, Map!Mode, Map!Selected, Map!Available, Map!Code,
                Map!Endpoint
  <2> QED BY <1>6, <2>1, <2>2 DEF MapInv, Map!ViewIsFitted
<1>7. ASSUME NEW at0, Map!Down(at0) \/ Map!Drag(at0) PROVE MapInv'
  BY <1>6, <1>7 DEF Map!Down, Map!Drag, Map!shown
<1>8. ASSUME NEW at0, NEW scale, Map!Wheel(at0, scale) PROVE MapInv'
  BY <1>6, <1>8 DEF Map!Wheel, Map!shown
<1>9. ASSUME NEW cluster, Map!ZoomIntoCluster(cluster) PROVE MapInv'
  BY <1>6, <1>9 DEF Map!ZoomIntoCluster, Map!shown
<1>10. CASE Map!Up \/ Map!ResetView \/ UNCHANGED Map!vars
  BY <1>6, <1>10 DEF Map!Up, Map!ResetView, Map!vars, Map!shown
<1> QED BY <1>1, <1>2, <1>3, <1>4, <1>5, <1>7, <1>8, <1>9, <1>10 DEF Map!Next

\* Stops hang together both ways, so each is in one cluster, and every stop is drawn
\* once; the one that is selected is in none.
LEMMA DrawnOnce == Map!StopsDrawnOnce
<1> DEFINE stops == Map!ClusterStops
           radius == Radius[Map!Detail(view, Map!PreferredView)]
           spot == [s \in stops |-> Map!StopAt(s)]
           near == [s \in stops |->
                      {t \in stops : /\ radius > 0
                                     /\ Map!Distance(spot[s], spot[t]) * view.scale <= radius}]
           closed == {set \in SUBSET stops : \A s \in set : near[s] \subseteq set}
           group(s) == {t \in stops : \A set \in closed : s \in set => t \in set}
<1>1. Map!Clusters = {group(s) : s \in stops}
  BY DEF Map!Clusters
<1>2. \A m, n : Map!Distance(m, n) = Map!Distance(n, m)
  <2>1. \A m, n : {m - n, n - m} = {n - m, m - n}
    OBVIOUS
  <2> QED BY <2>1 DEF Map!Distance
<1>3. \A s, t \in stops : t \in near[s] => s \in near[t]
  <2> HIDE DEF stops, radius
  <2>1. \A s, t \in stops : t \in near[s]
          <=> radius > 0 /\ Map!Distance(spot[s], spot[t]) * view.scale <= radius
    OBVIOUS
  <2> HIDE DEF near, spot
  <2> QED BY <1>2, <2>1
<1>4. \A s \in stops : near[s] \subseteq stops
  OBVIOUS
<1> HIDE DEF near, stops
<1>5. \A s \in stops : s \in group(s) /\ group(s) \in closed
  BY <1>4
<1>6. ASSUME NEW s \in stops, NEW t \in group(s) PROVE group(t) = group(s)
  <2>1. t \in stops /\ group(t) \subseteq group(s)
    BY <1>5
  <2>2. s \in group(t)
    <3> SUFFICES ASSUME s \notin group(t) PROVE FALSE
      OBVIOUS
    <3> DEFINE rest == stops \ group(t)
    <3>1. rest \in closed
      <4>1. \A x \in rest : near[x] \cap group(t) = {}
        <5>1. \A y \in group(t) : near[y] \subseteq group(t)
          BY <1>5, <2>1
        <5>2. group(t) \subseteq stops
          OBVIOUS
        <5> HIDE DEF group
        <5> QED BY <1>3, <1>4, <5>1, <5>2
      <4> HIDE DEF group
      <4> QED BY <1>4, <4>1
    <3>2. t \notin rest /\ s \in rest
      BY <1>5, <2>1
    <3> QED BY <1>6, <3>1, <3>2
  <2>3. group(s) \subseteq group(t)
    BY <1>5, <2>1, <2>2
  <2> QED BY <2>1, <2>3
<1>7. \A s \in stops : group(s) \subseteq stops
  OBVIOUS
<1> HIDE DEF group, closed
<1> DEFINE multi == Map!MultiStop
           shown == Map!Available(route, guide)
           code == Map!Code(guide, pickedStop)
<1>8. multi = {c \in {group(s) : s \in stops} : Cardinality(c) > 1}
  BY <1>1, MapCardinality DEF Map!MultiStop
<1>9. stops = shown \ {code} /\ Map!Drawn = shown \ UNION multi
  BY DEF stops, Map!ClusterStops, Map!Drawn
<1> HIDE DEF multi, shown, code
<1>10. ASSUME NEW stop \in shown
       PROVE  Cardinality({c \in multi : stop \in c}) = IF stop \in Map!Drawn THEN 0 ELSE 1
  <2>1. CASE stop \in UNION multi
    <3>1. PICK c \in multi : stop \in c
      BY <2>1
    <3>2. \A d \in multi : stop \in d => d = group(stop)
      BY <1>6, <1>8
    <3>3. {d \in multi : stop \in d} = {c}
      BY <3>1, <3>2
    <3> QED BY <1>9, <2>1, <3>3, FS_Singleton
  <2>2. CASE stop \notin UNION multi
    <3>1. {c \in multi : stop \in c} = {}
      BY <2>2
    <3> QED BY <1>9, <2>2, <3>1, FS_EmptySet
  <2> QED BY <2>1, <2>2
<1>11. Map!Selected(route, guide, pickedStop) \in Map!Drawn \cup {None}
  <2>1. UNION multi \subseteq stops
    BY <1>7, <1>8
  <2>2. Map!Selected(route, guide, pickedStop) = None
          \/ (Map!Selected(route, guide, pickedStop) = code /\ code \in shown)
    BY DEF Map!Selected, shown, code
  <2> QED BY <1>9, <2>1, <2>2
<1> QED BY <1>10, <1>11, MapCardinality DEF Map!StopsDrawnOnce, multi, shown

\* Whatever the parent shows and whatever hands do, a map that no hand has moved since it
\* was fitted has the view that fits what is shown, and every next stop is drawn once, by
\* itself or in one cluster (MapView.tsx, map-layout.ts).
THEOREM MapFollowsTheRoute ==
  ASSUME Map!MapAssumption
  PROVE  Map!Spec => [](Map!ViewIsFitted /\ Map!StopsDrawnOnce)
<1>1. Map!Init => MapInv
  BY MapBegins
<1>2. MapInv /\ [Map!Next]_Map!vars => MapInv'
  BY MapSteps
<1>3. MapInv => Map!ViewIsFitted /\ Map!StopsDrawnOnce
  BY DrawnOnce DEF MapInv
<1> QED BY <1>1, <1>2, <1>3, PTL DEF Map!Spec

-----------------------------------------------------------------------------
(***************************************************************************)
(* SavedRoutings: the lists of several tabs over one key of localStorage.  *)
(***************************************************************************)

LEMMA SavedCardinality == \A S : Saved!Cardinality(S) = Cardinality(S)
  BY DEF Saved!Cardinality, Cardinality

\* A list without some names: its positions are those of the routings that are kept.
LEMMA WithoutIs ==
  ASSUME NEW s, NEW names
  PROVE  LET kept == Saved!Kept(s, names) IN
         Saved!Without(s, names) = [n \in 1..Cardinality(kept) |-> s[Nth(kept, n)]]
<1> DEFINE kept == Saved!Kept(s, names)
<1>1. \A n : Nth(kept, n) = CHOOSE i \in kept : Saved!Rank(kept, i) = n
  BY SavedCardinality DEF Saved!Rank, Nth, Before
<1>2. Saved!Cardinality(kept) = Cardinality(kept)  BY SavedCardinality
<1>3. Saved!Without(s, names)
        = [n \in 1..Saved!Cardinality(kept) |-> s[CHOOSE i \in kept : Saved!Rank(kept, i) = n]]
  BY DEF Saved!Without
<1> HIDE DEF kept
<1> QED  BY <1>1, <1>2, <1>3 DEF kept

LEMMA WithoutIsList ==
  ASSUME NEW R, NEW s \in Seq(R), NEW names
  PROVE  Saved!Without(s, names) \in Seq(R)
<1> DEFINE K == Saved!Kept(s, names)
           t == Saved!Without(s, names)
<1>1. Len(s) \in Nat /\ K \in SUBSET (1..Len(s)) /\ \A i \in K : s[i] \in R  BY DEF Saved!Kept
<1> HIDE DEF K
<1>2. Cardinality(K) \in Nat  BY <1>1, BeforeCounts
<1>3. t = [n \in 1..Cardinality(K) |-> s[Nth(K, n)]]  BY WithoutIs DEF K
<1>4. \A n \in 1..Cardinality(K) : s[Nth(K, n)] \in R  BY <1>1, NthTaken
<1> HIDE DEF t
<1>5. t \in [1..Cardinality(K) -> R]  BY <1>3, <1>4
<1> QED  BY <1>2, <1>5, FunctionIsSeq DEF t

\* Nothing is taken out.
LEMMA WithoutNone ==
  ASSUME NEW R, NEW s \in Seq(R)
  PROVE  Saved!Without(s, {}) = s
<1> DEFINE K == 1..Len(s)
<1>1. Len(s) \in Nat /\ s = [n \in K |-> s[n]]  OBVIOUS
<1>2. Saved!Kept(s, {}) = K  BY DEF Saved!Kept
<1>3. Cardinality(K) = Len(s)  BY <1>1, FS_Interval
<1>4. \A n \in K : Nth(K, n) = n
  <2> SUFFICES ASSUME NEW n \in K PROVE Nth(K, n) = n  OBVIOUS
  <2>1. n \in Nat /\ n <= Len(s)  BY <1>1
  <2>2. Before(K, n) = 1..n  BY <1>1, <2>1 DEF Before
  <2>3. Cardinality(Before(K, n)) = n  BY <2>1, <2>2, FS_Interval
  <2> QED  BY <1>1, <2>3, NthOfRank
<1>5. Saved!Without(s, {}) = [n \in 1..Cardinality(K) |-> s[Nth(K, n)]]  BY <1>2, WithoutIs
<1> HIDE DEF K
<1>6. 1..Cardinality(K) = K  BY <1>3 DEF K
<1> QED  BY <1>1, <1>4, <1>5, <1>6

\* Taking out some names and then others is taking out all of them.
LEMMA WithoutTwice ==
  ASSUME NEW R, NEW s \in Seq(R), NEW A, NEW B
  PROVE  Saved!Without(Saved!Without(s, A), B) = Saved!Without(s, A \cup B)
<1> DEFINE K == Saved!Kept(s, A)
           t == Saved!Without(s, A)
           M == Saved!Kept(t, B)
           N == Saved!Kept(s, A \cup B)
<1>1. Len(s) \in Nat /\ K \in SUBSET (1..Len(s))  BY DEF Saved!Kept
<1>2. t = [n \in 1..Cardinality(K) |-> s[Nth(K, n)]]  BY WithoutIs
<1>3. \A i \in DOMAIN s : i \in K <=> s[i].name \notin A  BY DEF Saved!Kept
<1>4. \A n \in DOMAIN t : n \in M <=> t[n].name \notin B  BY DEF Saved!Kept
<1>5. \A i \in DOMAIN s : i \in N <=> s[i].name \notin A /\ s[i].name \notin B
  BY DEF Saved!Kept
<1>6. N \subseteq DOMAIN s /\ M \subseteq DOMAIN t /\ K \subseteq DOMAIN s  BY DEF Saved!Kept
<1>7. Saved!Without(t, B) = [m \in 1..Cardinality(M) |-> t[Nth(M, m)]]  BY WithoutIs
<1>8. Saved!Without(s, A \cup B) = [m \in 1..Cardinality(N) |-> s[Nth(N, m)]]  BY WithoutIs
<1> HIDE DEF K, t, M, N
<1>9. M \in SUBSET (1..Cardinality(K)) /\ K \in SUBSET (1..Len(s))  BY <1>1, <1>2, <1>6
<1>10. N \in SUBSET K /\ \A i \in K : i \in N <=> Cardinality(Before(K, i)) \in M
  <2>1. ASSUME NEW i \in K
        PROVE  i \in N <=> Cardinality(Before(K, i)) \in M
    <3> DEFINE q == Cardinality(Before(K, i))
    <3>1. q \in 1..Cardinality(K) /\ Nth(K, q) = i  BY <1>1, NthOfRank
    <3> HIDE DEF q
    <3>2. q \in DOMAIN t /\ t[q] = s[i]  BY <1>2, <3>1
    <3>3. q \in M <=> s[i].name \notin B  BY <1>4, <3>2
    <3>4. i \in N <=> s[i].name \notin B  BY <1>3, <1>5, <1>6
    <3> QED  BY <3>3, <3>4 DEF q
  <2>2. N \subseteq K  BY <1>3, <1>5, <1>6
  <2> QED  BY <2>1, <2>2
<1>11. /\ Cardinality(N) = Cardinality(M)
       /\ \A m \in 1..Cardinality(M) : Nth(M, m) \in M /\ Nth(N, m) = Nth(K, Nth(M, m))
  <2>1. Len(s) \in Nat  BY <1>1
  <2> QED  BY <1>9, <1>10, <2>1, RanksOfRanks
<1>12. \A m \in 1..Cardinality(M) : t[Nth(M, m)] = s[Nth(N, m)]  BY <1>2, <1>9, <1>11
<1>13. Saved!Without(t, B) = [m \in 1..Cardinality(M) |-> s[Nth(N, m)]]  BY <1>7, <1>12
<1>14. Saved!Without(t, B) = Saved!Without(s, A \cup B)  BY <1>8, <1>11, <1>13
<1> QED  BY <1>14 DEF t

\* A tab that is open shows what it read, unless an event is on its way or was missed.
SavedInv ==
  /\ store \in Seq(Saved!Routings)
  /\ savedTabs \in [Tabs -> {"closed", "mounting", "listening"}]
  /\ savedShown \in [Tabs -> Seq(Saved!Routings)]
  /\ storageEvents \in [Tabs -> Nat]
  /\ unremoved \in [Tabs -> SUBSET Names]
  /\ missed \in [Tabs -> BOOLEAN]
  /\ \A t \in Tabs :
       /\ savedTabs[t] = "closed" => unremoved[t] = {}
       /\ savedTabs[t] # "closed" /\ storageEvents[t] = 0 /\ ~missed[t]
            => savedShown[t] = Saved!Without(store, unremoved[t])

LEMMA SavedStart == ASSUME Saved!Init PROVE SavedInv
  BY DEF Saved!Init, SavedInv

\* A write: the tab that writes shows what it wrote, the others have it announced.
LEMMA WriteKeeps ==
  ASSUME SavedInv, NEW t \in Tabs, NEW next \in Seq(Saved!Routings), Saved!Write(t, next),
         savedShown' = [savedShown EXCEPT ![t] = next], UNCHANGED savedTabs
  PROVE  SavedInv'
<1>1. /\ store' = next
      /\ storageEvents' = [o \in Tabs |-> IF o # t /\ savedTabs[o] # "closed"
                                         THEN storageEvents[o] + 1 ELSE storageEvents[o]]
      /\ unremoved' = [unremoved EXCEPT ![t] = {}]
      /\ missed' = [missed EXCEPT ![t] = FALSE]
  BY DEF Saved!Write
<1>2. storageEvents \in [Tabs -> Nat]  BY DEF SavedInv
<1>3. \A o \in Tabs : o # t /\ savedTabs[o] # "closed" => storageEvents'[o] \in Nat \ {0}
  BY <1>1, <1>2
<1>4. storageEvents' \in [Tabs -> Nat]  BY <1>1, <1>2
<1>5. Saved!Without(next, {}) = next  BY WithoutNone
<1>6. ASSUME NEW o \in Tabs
      PROVE  /\ savedTabs'[o] = "closed" => unremoved'[o] = {}
             /\ savedTabs'[o] # "closed" /\ storageEvents'[o] = 0 /\ ~missed'[o]
                  => savedShown'[o] = Saved!Without(store', unremoved'[o])
  <2>1. CASE o = t  BY <1>1, <1>5, <2>1 DEF SavedInv
  <2>2. CASE o # t
    <3>1. unremoved'[o] = unremoved[o] /\ savedTabs'[o] = savedTabs[o]  BY <1>1, <2>2 DEF SavedInv
    <3> QED  BY <1>3, <2>2, <3>1 DEF SavedInv
  <2> QED  BY <2>1, <2>2
<1>7. /\ store' \in Seq(Saved!Routings) /\ savedTabs' \in [Tabs -> {"closed", "mounting", "listening"}]
      /\ savedShown' \in [Tabs -> Seq(Saved!Routings)]
      /\ unremoved' \in [Tabs -> SUBSET Names] /\ missed' \in [Tabs -> BOOLEAN]
  BY <1>1 DEF SavedInv
<1> QED  BY <1>4, <1>6, <1>7 DEF SavedInv

LEMMA SavedStep == ASSUME SavedInv, [Saved!Next]_Saved!vars PROVE SavedInv'
<1>1. ASSUME NEW t \in Tabs, Saved!Open(t) PROVE SavedInv'
  <2>1. Saved!Without(store, {}) = store  BY WithoutNone DEF SavedInv
  <2> QED  BY <1>1, <2>1 DEF Saved!Open, SavedInv
<1>2. ASSUME NEW t \in Tabs, Saved!Listen(t) PROVE SavedInv'
  BY <1>2 DEF Saved!Listen, SavedInv
<1>3. ASSUME NEW t \in Tabs, Saved!Close(t) PROVE SavedInv'
  BY <1>3 DEF Saved!Close, SavedInv
<1>4. ASSUME NEW t \in Tabs, NEW r \in Saved!Routings, Saved!Save(t, r) PROVE SavedInv'
  <2> DEFINE rest == Saved!Without(savedShown[t], {r.name})
             next == <<r>> \o rest
  <2>1. savedShown[t] \in Seq(Saved!Routings)  BY DEF SavedInv
  <2>2. rest \in Seq(Saved!Routings)  BY <2>1, WithoutIsList
  <2> HIDE DEF rest
  <2>3. next \in Seq(Saved!Routings)  BY <2>2
  <2>4. CASE Saved!Write(t, next) /\ savedShown' = [savedShown EXCEPT ![t] = next]
    BY <1>4, <2>3, <2>4, WriteKeeps DEF Saved!Save
  <2>5. CASE /\ savedShown' = [savedShown EXCEPT ![t] = savedShown[t]]
             /\ UNCHANGED <<store, storageEvents, unremoved, missed>>
    <3>1. savedShown' = savedShown  BY <2>5 DEF SavedInv
    <3>2. UNCHANGED savedTabs  BY <1>4 DEF Saved!Save
    <3> QED  BY <2>5, <3>1, <3>2 DEF SavedInv
  <2> QED  BY <1>4, <2>4, <2>5 DEF Saved!Save, Saved!AfterFailedSave, rest
<1>5. ASSUME NEW t \in Tabs, NEW n \in Names, Saved!Remove(t, n) PROVE SavedInv'
  <2> DEFINE next == Saved!Without(savedShown[t], {n})
  <2>1. savedShown[t] \in Seq(Saved!Routings) /\ store \in Seq(Saved!Routings)  BY DEF SavedInv
  <2>2. next \in Seq(Saved!Routings)  BY <2>1, WithoutIsList
  <2>3. savedShown' = [savedShown EXCEPT ![t] = next] /\ UNCHANGED savedTabs
    BY <1>5 DEF Saved!Remove
  <2>4. CASE Saved!Write(t, next)  BY <2>2, <2>3, <2>4, WriteKeeps
  <2>5. CASE /\ unremoved' = [unremoved EXCEPT ![t] = @ \cup {n}]
             /\ UNCHANGED <<store, storageEvents, missed>>
    <3>1. Saved!Without(Saved!Without(store, unremoved[t]), {n})
            = Saved!Without(store, unremoved[t] \cup {n})
      BY <2>1, WithoutTwice
    <3>2. savedTabs[t] # "closed"  BY <1>5 DEF Saved!Remove
    <3> QED  BY <2>2, <2>3, <2>5, <3>1, <3>2 DEF SavedInv
  <2> QED  BY <1>5, <2>4, <2>5 DEF Saved!Remove
<1>6. ASSUME NEW t \in Tabs, Saved!Deliver(t) PROVE SavedInv'
  <2>1. Saved!Without(store, {}) = store  BY WithoutNone DEF SavedInv
  <2>2. storageEvents' \in [Tabs -> Nat]  BY <1>6 DEF Saved!Deliver, SavedInv
  <2>3. CASE savedTabs[t] = "listening"
    BY <1>6, <2>1, <2>2, <2>3 DEF Saved!Deliver, SavedInv
  <2>4. CASE savedTabs[t] # "listening"
    BY <1>6, <2>2, <2>4 DEF Saved!Deliver, SavedInv
  <2> QED  BY <2>3, <2>4
<1>7. CASE UNCHANGED Saved!vars  BY <1>7 DEF Saved!vars, SavedInv
<1> QED  BY <1>1, <1>2, <1>3, <1>4, <1>5, <1>6, <1>7 DEF Saved!Next

\* Whichever of two racing saves lost, its tab has seen it go: a tab with no event on its
\* way shows the store, less the removals whose write failed, for any number of tabs,
\* routings and events (use-saved-routings.ts).
THEOREM QuietTabsShowTheStore == Saved!Spec => []Saved!QuietTabsAgree
<1>1. SavedInv => Saved!QuietTabsAgree  BY DEF SavedInv, Saved!QuietTabsAgree
<1> QED  BY <1>1, SavedStart, SavedStep, PTL DEF Saved!Spec

-----------------------------------------------------------------------------
(***************************************************************************)
(* The route library page.                                                 *)
(***************************************************************************)
\* What can be fetched, and what can be there once it has come.
LibraryKeys(e) ==
  CASE e = "manifest" -> {"manifest"}
    [] e = "origin"   -> OriginMeta
    [] e = "carrier"  -> Operators
    [] e = "full"     -> {"full"}

Networks ==
  {Library!Nothing, Library!Loaded("full", None)}
    \cup {Library!Loaded("origin", k) : k \in OriginMeta}
    \cup {Library!Loaded("carrier", k) : k \in Operators}

Pages ==
  [selection : Selections \cup {None}, advanced : BOOLEAN, loaded : Networks, error : BOOLEAN,
   manifest : {"none", "loaded", "failed"}, shardFailure : OriginMeta \cup {None},
   carrierFailure : Operators \cup {None}, requested : BOOLEAN, attempt : Nat]

\* An effect that wants a file is fetching it, but for the full network once an error has
\* been shown.
Served(e) ==
  \/ requests[e] = Library!Wanted(page)[e]
  \/ e = "full" /\ page.error /\ requests[e] = None

LibraryInv ==
  /\ page \in Pages
  /\ \A r \in late : /\ r[1] \in {"origin", "carrier", "full"}
                     /\ r[2] \in LibraryKeys(r[1])
  /\ \A e \in Library!Effects : Served(e)

\* What an effect wants follows from what makes it run again.
Wants(e, p) == Library!Wanted(p)[e]
Depends(e, p) == Library!Dependencies(p)[e]

LEMMA DependenciesDecide ==
  ASSUME NEW p, NEW q, NEW e \in Library!Effects, Depends(e, p) = Depends(e, q)
  PROVE  Wants(e, p) = Wants(e, q)
<1>1. CASE e = "manifest"
  <2>1. /\ p.manifest = q.manifest /\ Library!Full(p) = Library!Full(q)
        /\ p.requested = q.requested /\ p.selection = q.selection
    BY <1>1 DEF Depends, Library!Dependencies
  <2> QED BY <1>1, <2>1 DEF Wants, Library!Wanted, Library!NeedsManifest, Library!Kind
<1>2. CASE e = "origin"
  <2>1. /\ Library!Full(p) = Library!Full(q) /\ p.loaded = q.loaded
        /\ p.requested = q.requested /\ p.selection = q.selection
        /\ p.shardFailure = q.shardFailure
    BY <1>2 DEF Depends, Library!Dependencies
  <2> QED BY <1>2, <2>1 DEF Wants, Library!Wanted, Library!NeedsOrigin, Library!Kind,
                            Library!Letter, Library!HasKeyedRoute
<1>3. CASE e = "carrier"
  <2>1. /\ Library!Full(p) = Library!Full(q) /\ p.loaded = q.loaded
        /\ p.requested = q.requested /\ p.manifest = q.manifest
        /\ p.carrierFailure = q.carrierFailure /\ Library!CarrierKey(p) = Library!CarrierKey(q)
    BY <1>3 DEF Depends, Library!Dependencies
  <2> QED BY <1>3, <2>1 DEF Wants, Library!Wanted, Library!NeedsCarrier
<1>4. CASE e = "full"
  <2>1. Library!ShouldLoadFull(p) = Library!ShouldLoadFull(q)
    BY <1>4 DEF Depends, Library!Dependencies
  <2> QED BY <1>4, <2>1 DEF Wants, Library!Wanted
<1> QED BY <1>1, <1>2, <1>3, <1>4 DEF Library!Effects

\* A request that is out is for what is wanted, which is a file there is.
LEMMA RequestsAreWanted ==
  ASSUME Library!LibraryAssumption, LibraryInv, NEW e \in Library!Effects, requests[e] # None
  PROVE  requests[e] = Wants(e, page) /\ requests[e] \in LibraryKeys(e)
<1>1. requests[e] = Wants(e, page)
  BY DEF LibraryInv, Served, Wants
<1>2. CASE e = "manifest"
  BY <1>1, <1>2 DEF Wants, Library!Wanted, LibraryKeys
<1>3. CASE e = "origin"
  BY <1>1, <1>3 DEF Wants, Library!Wanted, Library!NeedsOrigin, LibraryKeys
<1>4. CASE e = "carrier"
  BY <1>1, <1>4 DEF Wants, Library!Wanted, Library!NeedsCarrier, LibraryKeys
<1>5. CASE e = "full"
  BY <1>1, <1>5 DEF Wants, Library!Wanted, LibraryKeys
<1> QED BY <1>1, <1>2, <1>3, <1>4, <1>5 DEF Library!Effects

\* A change of the page keeps every effect served, when it makes those run again whose
\* request it settles, and those that waited behind an error it clears.
LEMMA ChangesServe ==
  ASSUME Library!LibraryAssumption, LibraryInv, NEW p \in Pages,
         NEW done \in SUBSET Library!Effects, NEW settled, Library!Become(p, done, settled),
         \A e \in done : \/ Depends(e, p) # Depends(e, page)
                         \/ e = "full" /\ p.error,
         page.error => p.error \/ Depends("full", p) # Depends("full", page)
  PROVE  LibraryInv'
<1>1. page' = p /\ requests' = Library!Reissued(p, done)
  BY DEF Library!Become
<1>2. PICK l \in SUBSET Library!Aborted(p, done) : late' = (late \ settled) \cup l
  BY DEF Library!Become
<1>3. ASSUME NEW e \in Library!Effects PROVE Served(e)'
  <2>1. requests'[e] = IF Depends(e, p) # Depends(e, page) THEN Wants(e, p)
                       ELSE IF e \in done THEN None ELSE requests[e]
    BY <1>1 DEF Library!Reissued, Library!Again, Depends, Wants
  <2>2. Served(e)' <=> \/ requests'[e] = Wants(e, p)
                       \/ e = "full" /\ p.error /\ requests'[e] = None
    BY <1>1 DEF Served, Wants
  <2>3. CASE Depends(e, p) # Depends(e, page)
    BY <2>1, <2>2, <2>3
  <2>4. CASE Depends(e, p) = Depends(e, page) /\ e \in done
    BY <2>1, <2>2, <2>4
  <2>5. CASE Depends(e, p) = Depends(e, page) /\ e \notin done
    <3>1. requests'[e] = requests[e] /\ Wants(e, p) = Wants(e, page)
      BY <2>1, <2>5, DependenciesDecide
    <3>2. requests[e] = Wants(e, page) \/ (e = "full" /\ page.error /\ requests[e] = None)
      BY DEF LibraryInv, Served, Wants
    <3> QED BY <2>2, <2>5, <3>1, <3>2
  <2> QED BY <2>3, <2>4, <2>5
<1>4. ASSUME NEW r \in late'
      PROVE  r[1] \in {"origin", "carrier", "full"} /\ r[2] \in LibraryKeys(r[1])
  <2>1. CASE r \in late
    BY <2>1 DEF LibraryInv
  <2>2. CASE r \in Library!Aborted(p, done)
    <3>1. PICK e \in Library!Effects \ {"manifest"} : r = <<e, requests[e]>> /\ requests[e] # None
      BY <2>2 DEF Library!Aborted, Library!Again
    <3>2. requests[e] \in LibraryKeys(e)
      BY <3>1, RequestsAreWanted
    <3> QED BY <3>1, <3>2 DEF Library!Effects
  <2> QED BY <1>2, <2>1, <2>2
<1> QED BY <1>1, <1>3, <1>4 DEF LibraryInv

\* The page loads a network only where there is none that is full, and never the one it has.
LEMMA AnswersMove ==
  ASSUME Library!LibraryAssumption, LibraryInv, NEW e \in Library!Effects, requests[e] # None
  PROVE  /\ Library!Succeeded(e, requests[e]) \in Pages
         /\ Library!Failed(e, requests[e]) \in Pages
         /\ Depends(e, Library!Succeeded(e, requests[e])) # Depends(e, page)
         /\ \/ Depends(e, Library!Failed(e, requests[e])) # Depends(e, page)
            \/ e = "full" /\ Library!Failed(e, requests[e]).error
<1> DEFINE k == requests[e]
           s == Library!Succeeded(e, k)
           f == Library!Failed(e, k)
<1>1. k = Wants(e, page) /\ k \in LibraryKeys(e) /\ k # None /\ page \in Pages
  BY RequestsAreWanted DEF LibraryInv
<1> HIDE DEF k
<1>2. CASE e = "manifest"
  <2>1. s = [page EXCEPT !.manifest = "loaded"] /\ f = [page EXCEPT !.manifest = "failed"]
    BY <1>2 DEF Library!Succeeded, Library!Failed
  <2>2. page.manifest = "none"
    BY <1>1, <1>2 DEF Wants, Library!Wanted, Library!NeedsManifest
  <2>3. s \in Pages /\ f \in Pages /\ s.manifest = "loaded" /\ f.manifest = "failed"
    BY <1>1, <2>1 DEF Pages
  <2> QED BY <1>2, <2>2, <2>3 DEF Depends, Library!Dependencies, k
<1>3. CASE e = "origin"
  <2>1. /\ page.loaded.scope # "full" /\ page.loaded # Library!Loaded("origin", k)
        /\ page.shardFailure # k /\ k \in OriginMeta
    BY <1>1, <1>3 DEF Wants, Library!Wanted, Library!NeedsOrigin, Library!Full
  <2>2. /\ s = [page EXCEPT !.loaded = Library!Loaded("origin", k)]
        /\ f = [page EXCEPT !.shardFailure = k]
    BY <1>3, <1>1, <2>1 DEF Library!Succeeded, Library!Failed, Library!ReplacedBy, Pages
  <2>3. Library!Loaded("origin", k) \in Networks
    BY <2>1 DEF Networks
  <2>4. s \in Pages /\ f \in Pages /\ s.loaded = Library!Loaded("origin", k) /\ f.shardFailure = k
    BY <1>1, <2>1, <2>2, <2>3 DEF Pages
  <2>5. s.loaded # page.loaded /\ f.shardFailure # page.shardFailure
    BY <2>1, <2>4
  <2> QED BY <1>3, <2>4, <2>5 DEF Depends, Library!Dependencies, k
<1>4. CASE e = "carrier"
  <2>1. /\ page.loaded.scope # "full" /\ page.loaded # Library!Loaded("carrier", k)
        /\ page.carrierFailure # k /\ k \in Operators
    BY <1>1, <1>4 DEF Wants, Library!Wanted, Library!NeedsCarrier, Library!Full
  <2>2. /\ s = [page EXCEPT !.loaded = Library!Loaded("carrier", k)]
        /\ f = [page EXCEPT !.carrierFailure = k]
    BY <1>4, <1>1, <2>1 DEF Library!Succeeded, Library!Failed, Library!ReplacedBy, Pages
  <2>3. Library!Loaded("carrier", k) \in Networks
    BY <2>1 DEF Networks
  <2>4. /\ s \in Pages /\ f \in Pages
        /\ s.loaded = Library!Loaded("carrier", k) /\ f.carrierFailure = k
    BY <1>1, <2>1, <2>2, <2>3 DEF Pages
  <2>5. s.loaded # page.loaded /\ f.carrierFailure # page.carrierFailure
    BY <2>1, <2>4
  <2> QED BY <1>4, <2>4, <2>5 DEF Depends, Library!Dependencies, k
<1>5. CASE e = "full"
  <2>1. ~Library!Full(page)
    BY <1>1, <1>5 DEF Wants, Library!Wanted, Library!ShouldLoadFull
  <2>2. /\ s = [page EXCEPT !.loaded = Library!Loaded("full", None)]
        /\ f = [page EXCEPT !.error = TRUE]
    BY <1>5 DEF Library!Succeeded, Library!Failed
  <2>3. /\ s \in Pages /\ f \in Pages
        /\ s.loaded = Library!Loaded("full", None) /\ f.error
    BY <1>1, <2>2 DEF Pages, Networks
  <2>4. Library!Full(s)
    BY <2>3 DEF Library!Full, Library!Loaded
  <2>5. Depends(e, s) # Depends(e, page)
    BY <1>5, <2>1, <2>4 DEF Depends, Library!Dependencies
  <2> QED BY <1>5, <2>3, <2>5 DEF k
<1> QED BY <1>2, <1>3, <1>4, <1>5 DEF Library!Effects

\* A late answer changes what is loaded or what has failed, never the error of the page back.
LEMMA LateAnswersFit ==
  ASSUME Library!LibraryAssumption, LibraryInv, NEW r \in late
  PROVE  /\ Library!Succeeded(r[1], r[2]) \in Pages /\ Library!Failed(r[1], r[2]) \in Pages
         /\ page.error => /\ Library!Succeeded(r[1], r[2]).error
                          /\ Library!Failed(r[1], r[2]).error
<1>1. page \in Pages /\ r[1] \in {"origin", "carrier", "full"} /\ r[2] \in LibraryKeys(r[1])
  BY DEF LibraryInv
<1>2. CASE r[1] = "origin"
  <2>1. r[2] \in OriginMeta /\ Library!Loaded("origin", r[2]) \in Networks
    BY <1>1, <1>2 DEF LibraryKeys, Networks
  <2>2. Library!ReplacedBy(page.loaded, Library!Loaded("origin", r[2])) \in Networks
    BY <1>1, <2>1 DEF Library!ReplacedBy, Pages
  <2> QED BY <1>1, <1>2, <2>1, <2>2 DEF Library!Succeeded, Library!Failed, Pages
<1>3. CASE r[1] = "carrier"
  <2>1. r[2] \in Operators /\ Library!Loaded("carrier", r[2]) \in Networks
    BY <1>1, <1>3 DEF LibraryKeys, Networks
  <2>2. Library!ReplacedBy(page.loaded, Library!Loaded("carrier", r[2])) \in Networks
    BY <1>1, <2>1 DEF Library!ReplacedBy, Pages
  <2> QED BY <1>1, <1>3, <2>1, <2>2 DEF Library!Succeeded, Library!Failed, Pages
<1>4. CASE r[1] = "full"
  <2>1. Library!Loaded("full", None) \in Networks
    BY DEF Networks
  <2> QED BY <1>1, <1>4, <2>1 DEF Library!Succeeded, Library!Failed, Pages
<1> QED BY <1>1, <1>2, <1>3, <1>4

LEMMA LibraryInit ==
  ASSUME Library!LibraryAssumption, Library!Init
  PROVE  LibraryInv
<1>1. PICK s \in Selections \cup {None}, a \in BOOLEAN :
        page = [selection |-> s, advanced |-> a, loaded |-> Library!Nothing, error |-> FALSE,
                manifest |-> "none", shardFailure |-> None, carrierFailure |-> None,
                requested |-> FALSE, attempt |-> 0]
  BY DEF Library!Init
<1>2. page \in Pages
  BY <1>1 DEF Pages, Networks
<1>3. \A e \in Library!Effects : Served(e)
  BY DEF Library!Init, Served
<1> QED BY <1>2, <1>3 DEF Library!Init, LibraryInv

LEMMA LibraryStep ==
  ASSUME Library!LibraryAssumption, LibraryInv, Library!Next
  PROVE  LibraryInv'
<1>1. page \in Pages
  BY DEF LibraryInv
<1>2. ASSUME NEW s \in Selections \cup {None}, Library!Select(s) PROVE LibraryInv'
  <2> DEFINE p == [page EXCEPT !.selection = s]
  <2>1. p \in Pages /\ p.error = page.error
    BY <1>1 DEF Pages
  <2>2. Library!Become(p, {}, {})
    BY <1>2 DEF Library!Select
  <2> HIDE DEF p
  <2> QED BY <2>1, <2>2, ChangesServe
<1>3. ASSUME Library!ToggleAdvanced PROVE LibraryInv'
  <2> DEFINE p == [page EXCEPT !.advanced = ~@]
  <2>1. p \in Pages /\ p.error = page.error
    BY <1>1 DEF Pages
  <2>2. Library!Become(p, {}, {})
    BY <1>3 DEF Library!ToggleAdvanced
  <2> HIDE DEF p
  <2> QED BY <2>1, <2>2, ChangesServe
<1>4. ASSUME NEW s \in Selections \cup {None}, NEW a \in BOOLEAN, Library!Navigate(s, a)
      PROVE  LibraryInv'
  <2> DEFINE p == [page EXCEPT !.selection = s, !.advanced = a]
  <2>1. p \in Pages /\ p.error = page.error
    BY <1>1 DEF Pages
  <2>2. Library!Become(p, {}, {})
    BY <1>4 DEF Library!Navigate
  <2> HIDE DEF p
  <2> QED BY <2>1, <2>2, ChangesServe
<1>5. ASSUME Library!RequestFullNetwork PROVE LibraryInv'
  <2> DEFINE p == [page EXCEPT !.error = FALSE, !.requested = TRUE, !.attempt = @ + 1]
             n == page.attempt + 1
  <2>1. p \in Pages /\ p.attempt # page.attempt
    <3>1. page.attempt \in Nat
      BY <1>1 DEF Pages
    <3>2. n \in Nat /\ n # page.attempt
      BY <3>1
    <3>3. p = [page EXCEPT !.error = FALSE, !.requested = TRUE, !.attempt = n]
      OBVIOUS
    <3> HIDE DEF n, p
    <3> QED BY <1>1, <3>2, <3>3 DEF Pages
  <2>2. Library!Become(p, {}, {})
    BY <1>5 DEF Library!RequestFullNetwork
  <2> HIDE DEF p
  <2>3. Depends("full", p) # Depends("full", page)
    BY <2>1 DEF Depends, Library!Dependencies
  <2> QED BY <2>1, <2>2, <2>3, ChangesServe
<1>6. ASSUME NEW e \in Library!Effects, Library!Settle(e) PROVE LibraryInv'
  <2> DEFINE s == Library!Succeeded(e, requests[e])
             f == Library!Failed(e, requests[e])
  <2>1. requests[e] # None
    BY <1>6 DEF Library!Settle
  <2>2. /\ s \in Pages /\ f \in Pages
        /\ Depends(e, s) # Depends(e, page)
        /\ Depends(e, f) # Depends(e, page) \/ (e = "full" /\ f.error)
    BY <2>1, AnswersMove
  <2>3. page.error => s.error /\ f.error
    BY <1>1 DEF Library!Succeeded, Library!Failed, Library!Effects, Pages
  <2>4. Library!Become(s, {e}, {}) \/ Library!Become(f, {e}, {})
    BY <1>6 DEF Library!Settle
  <2> HIDE DEF s, f
  <2>5. CASE Library!Become(s, {e}, {})
    BY <2>2, <2>3, <2>5, ChangesServe
  <2>6. CASE Library!Become(f, {e}, {})
    BY <2>2, <2>3, <2>6, ChangesServe
  <2> QED BY <2>4, <2>5, <2>6
<1>7. ASSUME NEW r \in late, Library!SettleLate(r) PROVE LibraryInv'
  <2> DEFINE s == Library!Succeeded(r[1], r[2])
             f == Library!Failed(r[1], r[2])
  <2>1. s \in Pages /\ f \in Pages /\ (page.error => s.error /\ f.error)
    BY LateAnswersFit
  <2>2. Library!Become(s, {}, {r}) \/ Library!Become(f, {}, {r})
    BY <1>7 DEF Library!SettleLate
  <2> HIDE DEF s, f
  <2>3. CASE Library!Become(s, {}, {r})
    BY <2>1, <2>3, ChangesServe
  <2>4. CASE Library!Become(f, {}, {r})
    BY <2>1, <2>4, ChangesServe
  <2> QED BY <2>2, <2>3, <2>4
<1> QED BY <1>2, <1>3, <1>4, <1>5, <1>6, <1>7 DEF Library!Next

LEMMA LibraryMoves ==
  ASSUME Library!LibraryAssumption PROVE Library!Spec => []LibraryInv
<1>1. Library!Init => LibraryInv
  BY LibraryInit
<1>2. LibraryInv /\ [Library!Next]_Library!vars => LibraryInv'
  <2>1. CASE UNCHANGED Library!vars
    BY <2>1 DEF LibraryInv, Library!vars, Served
  <2> QED BY <2>1, LibraryStep
<1> QED BY <1>1, <1>2, PTL DEF Library!Spec

\* A page that shows neither a network nor an error wants a file, whatever is selected and
\* whatever has come or failed before.
LEMMA WaitingPagesWant ==
  ASSUME Library!LibraryAssumption, NEW p \in Pages, ~Library!Displayed(p)
  PROVE  \E e \in Library!Effects : Wants(e, p) # None
<1>1. /\ p.selection \in Selections /\ ~Library!Full(p) /\ p.selection # None
      /\ Library!Kind(p) = p.selection.kind
  BY DEF Library!Displayed, Library!Kind, Pages
<1>2. /\ Wants("manifest", p) # None <=> Library!NeedsManifest(p)
      /\ Library!NeedsOrigin(p) => Wants("origin", p) # None
      /\ Library!NeedsCarrier(p) => Wants("carrier", p) # None
      /\ Library!ShouldLoadFull(p) => Wants("full", p) # None
  BY DEF Library!LibraryAssumption, Wants, Library!Wanted, Library!NeedsOrigin, Library!NeedsCarrier
<1>3. SUFFICES ASSUME ~Library!ShouldLoadFull(p)
               PROVE  \/ Library!NeedsManifest(p) \/ Library!NeedsOrigin(p)
                      \/ Library!NeedsCarrier(p)
  BY <1>2 DEF Library!Effects
<1>4. ~p.requested
  BY <1>1, <1>3 DEF Library!ShouldLoadFull
<1>5. CASE p.selection.kind \in {"route", "airport"}
  <2>1. Library!Letter(p) = p.selection.letter /\ Library!Letter(p) # None
    BY <1>1, <1>5 DEF Library!Letter, Library!LibraryAssumption
  <2>2. p.loaded # Library!Loaded("origin", Library!Letter(p))
    BY <2>1 DEF Library!Displayed, Library!Loaded
  <2>3. ~(p.loaded.scope = "carrier" /\ Library!HasKeyedRoute(p))
    BY <1>1, <2>1, <2>2 DEF Library!Displayed, Library!Loaded, Library!HasKeyedRoute,
                            Library!CarrierKey
  <2>4. ~Library!RouteNeedsCarrier(p)
    BY <1>1, <2>1, <2>2 DEF Library!RouteNeedsCarrier, Library!CarrierKey, Library!HasKeyedRoute,
                            Library!Loaded, Library!Full
  <2>5. ~Library!OriginNeedsFull(p)
    BY <1>1, <1>3, <2>4 DEF Library!ShouldLoadFull
  <2> QED BY <1>1, <1>4, <2>1, <2>2, <2>3, <2>5 DEF Library!OriginNeedsFull, Library!NeedsOrigin
<1>6. CASE p.selection.kind = "airline"
  <2>1. Library!CarrierKey(p) = p.selection.carrier /\ Library!Kind(p) = "airline"
    BY <1>1, <1>6 DEF Library!CarrierKey
  <2>2. p.loaded # Library!Loaded("carrier", Library!CarrierKey(p))
    BY DEF Library!Displayed, Library!Loaded
  <2>3. ~Library!AirlineNeedsFull(p)
    BY <1>1, <1>3 DEF Library!ShouldLoadFull
  <2>4. p.manifest \in {"none", "loaded", "failed"}
    BY DEF Pages
  <2> QED BY <1>1, <1>4, <2>1, <2>2, <2>3, <2>4
             DEF Library!AirlineNeedsFull, Library!NeedsManifest, Library!NeedsCarrier
<1> QED BY <1>1, <1>5, <1>6 DEF Library!LibraryAssumption

\* Whatever was selected, failed, was aborted or came late, a library page that shows neither
\* a network nor an error with its retry button is waiting for a request
\* (src/src/components/AllRoutesPage.tsx, its four loading effects).
THEOREM LibraryNeverStalls ==
  ASSUME Library!LibraryAssumption PROVE Library!Spec => []Library!NeverStuck
<1>1. LibraryInv => Library!NeverStuck
  <2> SUFFICES ASSUME LibraryInv, ~Library!Displayed(page), ~page.error
               PROVE  \E e \in Library!Effects : requests[e] # None
    BY DEF Library!NeverStuck
  <2>1. PICK e \in Library!Effects : Wants(e, page) # None
    BY WaitingPagesWant DEF LibraryInv
  <2>2. requests[e] = Wants(e, page)
    BY DEF LibraryInv, Served, Wants
  <2> QED BY <2>1, <2>2
<1> QED BY <1>1, LibraryMoves, PTL

-----------------------------------------------------------------------------
(***************************************************************************)
(* The clock of a page that shows evidence, and the route catalogue.       *)
(***************************************************************************)
Clock == INSTANCE RouteEvidence

\* A timer that is set before anything changes that the page has looked at.
Watches(network, looked, fires) ==
  \A d \in Clock!Deadlines(network) : looked <= d => fires <= d + 1

\* Two instants between which nothing changes.
Same(network, a, b) == \A d \in Clock!Deadlines(network) : a < d <=> b < d

\* The records of a network have deadlines.
Dated(network) ==
  \A r \in network.routes : \A e \in r.dated : e.source \in DOMAIN network.deadline

LEMMA LeastDeadline ==
  ASSUME NEW T, T \subseteq Nat, T # {}
  PROVE  Clock!Min(T) \in T /\ \A t \in T : Clock!Min(T) <= t
<1>1. \E m \in T : \A k \in T : m <= k
  BY LeastNat
<1> QED BY <1>1 DEF Clock!Min

\* arm and nextEvidenceDeadline: the timer fires a millisecond after the next change.
LEMMA ArmedInTime ==
  ASSUME Clock!ClockAssumption, NEW network, Clock!Deadlines(network) \subseteq Nat,
         NEW instant \in Nat
  PROVE  /\ Clock!Armed(network, instant) \in Nat
         /\ Watches(network, instant, Clock!Armed(network, instant))
<1> DEFINE T == {Clock!NextMidnight(instant)} \cup {d \in Clock!Deadlines(network) : d >= instant}
           next == Clock!NextChange(network, instant)
           wait == next - instant + 1
           longer == Clock!Max({1, wait})
<1>1. Clock!NextMidnight(instant) \in Nat /\ Clock!NextMidnight(instant) >= instant
  <2>1. DayLength \in Nat \ {0}
    BY DEF Clock!ClockAssumption
  <2> QED BY <2>1 DEF Clock!NextMidnight
<1>2. T \subseteq Nat /\ T # {} /\ next = Clock!Min(T)
  BY <1>1 DEF Clock!NextChange
<1>3. next \in T /\ \A t \in T : next <= t
  BY <1>2, LeastDeadline
<1>4. next \in Nat /\ next >= instant
  BY <1>1, <1>2, <1>3
<1>5. \A d \in Clock!Deadlines(network) : instant <= d => next <= d
  BY <1>3
<1> HIDE DEF next
<1>6. wait \in Nat /\ wait >= 1
  BY <1>4
<1>7. longer = wait
  <2>1. longer = CHOOSE x \in {1, wait} : \A y \in {1, wait} : x >= y
    BY DEF Clock!Max
  <2> HIDE DEF wait, longer
  <2>2. wait \in {1, wait} /\ \A y \in {1, wait} : wait >= y
    BY <1>6
  <2>3. longer \in {1, wait} /\ \A y \in {1, wait} : longer >= y
    BY <2>1, <2>2
  <2> QED BY <1>6, <2>3
<1>8. Clock!Armed(network, instant) = longer + instant
  BY DEF Clock!Armed, next
<1>9. Clock!Armed(network, instant) = next + 1
  <2> HIDE DEF longer
  <2> QED BY <1>4, <1>7, <1>8
<1> HIDE DEF T
<1> QED BY <1>4, <1>5, <1>9 DEF Watches

\* Until a millisecond before it fires nothing changes.
LEMMA NothingLapses ==
  ASSUME NEW network, Clock!Deadlines(network) \subseteq Nat, NEW looked \in Nat,
         NEW instant \in Nat, looked <= instant, NEW fires \in Nat, instant < fires - 1,
         Watches(network, looked, fires)
  PROVE  Same(network, looked, instant)
<1> SUFFICES ASSUME NEW d \in Clock!Deadlines(network) PROVE looked < d <=> instant < d
  BY DEF Same
<1>1. d \in Nat /\ (looked <= d => fires <= d + 1)
  BY DEF Watches
<1> QED BY <1>1

\* What bounds a record is a deadline of its network.
LEMMA RecordsAreBounded ==
  ASSUME NEW network, NEW r \in network.routes, NEW e \in r.dated, Dated(network)
  PROVE  /\ network.deadline[e.source] \in Clock!Deadlines(network)
         /\ e.times \subseteq Clock!Deadlines(network)
<1>1. e.source \in DOMAIN network.deadline
  BY DEF Dated
<1> QED BY <1>1 DEF Clock!Deadlines, Clock!Range

\* None is fresh at one of two such instants that is not at the other.
LEMMA SameFreshness ==
  ASSUME NEW network, Dated(network), NEW a, NEW b, Same(network, a, b),
         NEW r \in network.routes, NEW e \in r.dated
  PROVE  /\ Clock!SourceFresh(e, network.deadline, a) = Clock!SourceFresh(e, network.deadline, b)
         /\ \A t \in e.times : (a < t) = (b < t)
         /\ Clock!ObservationCurrent(e, network.deadline, a)
              = Clock!ObservationCurrent(e, network.deadline, b)
<1>1. /\ network.deadline[e.source] \in Clock!Deadlines(network)
      /\ e.times \subseteq Clock!Deadlines(network)
  BY RecordsAreBounded
<1>2. Clock!SourceFresh(e, network.deadline, a) = Clock!SourceFresh(e, network.deadline, b)
  BY <1>1 DEF Clock!SourceFresh, Same
<1>3. \A t \in e.times : (a < t) = (b < t)
  BY <1>1 DEF Same
<1>4. Clock!ObservationCurrent(e, network.deadline, a)
        = Clock!ObservationCurrent(e, network.deadline, b)
  BY <1>2, <1>3 DEF Clock!ObservationCurrent
<1> QED BY <1>2, <1>3, <1>4

-----------------------------------------------------------------------------
(***************************************************************************)
(* The route catalogue.                                                    *)
(***************************************************************************)
\* While the browser is open its timer watches the network it shows, once it has looked
\* at it.
CatalogInv ==
  /\ now \in Nat /\ evidenceNow \in Nat /\ evidenceNow <= now
  /\ since \in Nat /\ since <= now
  /\ detailed => Catalog!CatalogParses(DetailedNetwork)
  /\ open => due \in Nat
  /\ open /\ evidenceNow >= since => Watches(Catalog!Network, evidenceNow, due)

\* What the catalogue shows is a network that has been parsed.
LEMMA NetworkParses ==
  ASSUME Catalog!CatalogAssumption, CatalogInv
  PROVE  /\ Catalog!CatalogParses(Catalog!Network) /\ Dated(Catalog!Network)
         /\ Clock!Deadlines(Catalog!Network) \subseteq Nat
         /\ IsFiniteSet(Catalog!Network.routes)
         /\ \A r \in Catalog!Network.routes, aux \in Auxiliary : r.entity # aux.code
<1>1. Catalog!Network \in {Curated, DetailedNetwork} /\ Catalog!CatalogParses(Catalog!Network)
  BY DEF Catalog!CatalogAssumption, CatalogInv, Catalog!Network
<1>2. Dated(Catalog!Network)
  <2> DEFINE shown == Catalog!Network
  <2>1. Catalog!CatalogParses(shown)
    BY <1>1
  <2> HIDE DEF shown
  <2>2. Dated(shown)
    BY <2>1 DEF Dated, Catalog!CatalogParses, Catalog!DatedParses
  <2> QED BY <2>2 DEF shown
<1>3. \A net : Clock!Deadlines(net) = Catalog!Deadlines(net)
  BY DEF Clock!Deadlines, Catalog!Deadlines, Clock!Range, Catalog!Range
<1>4. \A S : Catalog!IsFiniteSet(S) = IsFiniteSet(S)
  BY DEF Catalog!IsFiniteSet, IsFiniteSet
<1> QED BY <1>1, <1>2, <1>3, <1>4 DEF Catalog!CatalogAssumption

\* Both networks can be watched.
LEMMA CatalogArms ==
  ASSUME Catalog!CatalogAssumption, NEW net \in {Curated, DetailedNetwork}, NEW instant \in Nat
  PROVE  Catalog!Armed(net, instant) \in Nat /\ Watches(net, instant, Catalog!Armed(net, instant))
<1>1. Clock!ClockAssumption /\ Clock!Deadlines(net) \subseteq Nat
  BY DEF Catalog!CatalogAssumption, Catalog!ClockAssumption, Clock!ClockAssumption,
         Clock!Deadlines, Catalog!Deadlines, Clock!Range, Catalog!Range
<1>2. Catalog!Armed(net, instant) = Clock!Armed(net, instant)
  BY DEF Catalog!Armed, Clock!Armed, Catalog!NextChange, Clock!NextChange, Catalog!Max, Clock!Max,
         Catalog!Min, Clock!Min, Catalog!NextMidnight, Clock!NextMidnight,
         Catalog!Deadlines, Clock!Deadlines, Catalog!Range, Clock!Range
<1> QED BY <1>1, <1>2, ArmedInTime

LEMMA CatalogBegins == ASSUME Catalog!CatalogAssumption PROVE Catalog!Init => CatalogInv
<1> SUFFICES ASSUME Catalog!CatalogAssumption, Catalog!Init PROVE CatalogInv
  OBVIOUS
<1>1. place \in Places /\ detailed = (place = "library") /\ ~open /\ since = 0
      /\ now = 0 /\ evidenceNow = 0
  BY DEF Catalog!Init, Catalog!InitClock
<1>2. detailed => Catalog!CatalogParses(DetailedNetwork)
  BY <1>1 DEF Catalog!CatalogAssumption
<1> QED BY <1>1, <1>2 DEF CatalogInv

LEMMA CatalogSteps ==
  ASSUME Catalog!CatalogAssumption, CatalogInv, [Catalog!Next]_Catalog!vars
  PROVE  CatalogInv'
<1>1. CASE Catalog!Open
  <2>1. /\ evidenceNow' = now /\ now' = now /\ since' = since /\ detailed' = detailed
        /\ due' = Catalog!Armed(Catalog!Network, now)
        /\ Catalog!Network' = Catalog!Network /\ Catalog!Network \in {Curated, DetailedNetwork}
    BY <1>1 DEF Catalog!Open, Catalog!Mount, Catalog!Network
  <2>2. /\ Catalog!Armed(Catalog!Network, now) \in Nat
        /\ Watches(Catalog!Network, now, Catalog!Armed(Catalog!Network, now))
    BY <2>1, CatalogArms DEF CatalogInv
  <2>3. due' \in Nat /\ Watches(Catalog!Network', evidenceNow', due')
    BY <2>1, <2>2
  <2> QED BY <2>1, <2>3 DEF CatalogInv
<1>2. CASE Catalog!Close
  BY <1>2 DEF Catalog!Close, Catalog!Unmount, CatalogInv
<1>3. CASE Catalog!DetailsArrive
  <2>1. /\ evidenceNow' = evidenceNow /\ now' = now /\ since' = now /\ detailed' = TRUE
        /\ due' = Catalog!Armed(DetailedNetwork, now) /\ Catalog!CatalogParses(DetailedNetwork)
        /\ Catalog!Network' = DetailedNetwork
    BY <1>3 DEF Catalog!DetailsArrive, Catalog!Rearm, Catalog!Network
  <2>2. /\ Catalog!Armed(DetailedNetwork, now) \in Nat
        /\ Watches(DetailedNetwork, now, Catalog!Armed(DetailedNetwork, now))
    BY CatalogArms DEF CatalogInv
  <2>3. due' \in Nat /\ Watches(Catalog!Network', now, due')
    BY <2>1, <2>2
  <2>4. evidenceNow' >= since' => evidenceNow' = now
    BY <2>1 DEF CatalogInv
  <2>5. evidenceNow' >= since' => Watches(Catalog!Network', evidenceNow', due')
    BY <2>3, <2>4
  <2> QED BY <2>1, <2>3, <2>5 DEF CatalogInv
<1>4. ASSUME UNCHANGED <<now, evidenceNow, due, since, detailed>>, open' => open
      PROVE  CatalogInv'
  <2>1. Catalog!Network' = Catalog!Network
    BY <1>4 DEF Catalog!Network
  <2>2. open' /\ evidenceNow' >= since' => Watches(Catalog!Network', evidenceNow', due')
    <3>1. open /\ evidenceNow >= since => Watches(Catalog!Network, evidenceNow, due)
      BY DEF CatalogInv
    <3> QED BY <1>4, <2>1, <3>1
  <2> QED BY <1>4, <2>2 DEF CatalogInv
<1>5. CASE Catalog!DetailsFail \/ UNCHANGED Catalog!vars
  BY <1>4, <1>5 DEF Catalog!DetailsFail, Catalog!vars, Catalog!view, Catalog!clock
<1>6. CASE \E codes \in Alliances : Catalog!ChooseAlliance(codes)
  <2>1. CASE open' => open /\ due' = due
    BY <1>4, <1>6, <2>1 DEF Catalog!ChooseAlliance, Catalog!Unmount, CatalogInv
  <2> QED BY <1>6, <2>1 DEF Catalog!ChooseAlliance
<1>7. ASSUME NEW f, Catalog!ChooseFilter(f) PROVE CatalogInv'
  BY <1>4, <1>7 DEF Catalog!ChooseFilter, Catalog!clock
<1>8. CASE Catalog!Look
  <2>1. detailed' = detailed /\ since' = since /\ open' = open /\ Catalog!Network' = Catalog!Network
        /\ Catalog!Network \in {Curated, DetailedNetwork}
    BY <1>8 DEF Catalog!Look, Catalog!view, Catalog!Network
  <2>2. CASE Catalog!Tick
    <3>1. now' = now + 1 /\ evidenceNow' = evidenceNow /\ due' = due
      BY <2>2 DEF Catalog!Tick
    <3>2. open' /\ evidenceNow' >= since' => Watches(Catalog!Network', evidenceNow', due')
      <4>1. open /\ evidenceNow >= since => Watches(Catalog!Network, evidenceNow, due)
        BY DEF CatalogInv
      <4> QED BY <2>1, <3>1, <4>1
    <3> QED BY <2>1, <3>1, <3>2 DEF CatalogInv
  <2>3. CASE Catalog!Refresh(Catalog!Network)
    <3>1. /\ now' = now /\ evidenceNow' = now
          /\ due' = Catalog!Armed(Catalog!Network, now)
      BY <2>3 DEF Catalog!Refresh
    <3>2. /\ Catalog!Armed(Catalog!Network, now) \in Nat
          /\ Watches(Catalog!Network, now, Catalog!Armed(Catalog!Network, now))
      BY <2>1, CatalogArms DEF CatalogInv
    <3>3. due' \in Nat /\ Watches(Catalog!Network', evidenceNow', due')
      BY <2>1, <3>1, <3>2
    <3> QED BY <2>1, <3>1, <3>3 DEF CatalogInv
  <2> QED BY <1>8, <2>2, <2>3 DEF Catalog!Look, Catalog!TimerFires
<1> QED BY <1>1, <1>2, <1>3, <1>5, <1>6, <1>7, <1>8 DEF Catalog!Next, Catalog!ResetFilters

\* The page shows what the evidence says now.
LEMMA CatalogShowsNow ==
  ASSUME Catalog!CatalogAssumption, CatalogInv PROVE Catalog!CatalogCurrent
<1> SUFFICES ASSUME open, evidenceNow >= since, now < due - 1
             PROVE  Catalog!Pairs(Catalog!Network, evidenceNow)
                      = Catalog!Pairs(Catalog!Network, now)
  BY DEF Catalog!CatalogCurrent
<1> DEFINE net == Catalog!Network
<1>1. Same(net, evidenceNow, now) /\ Dated(net)
  BY NetworkParses, NothingLapses DEF CatalogInv
<1> HIDE DEF net
<1>2. \A r \in net.routes :
        Catalog!FreshNumbers(net, r, evidenceNow) = Catalog!FreshNumbers(net, r, now)
  <2> SUFFICES ASSUME NEW r \in net.routes
               PROVE  Catalog!FreshNumbers(net, r, evidenceNow) = Catalog!FreshNumbers(net, r, now)
    OBVIOUS
  <2>1. \A e \in r.dated : Catalog!SourceFresh(e, net.deadline, evidenceNow)
                             = Catalog!SourceFresh(e, net.deadline, now)
    BY <1>1, SameFreshness DEF Catalog!SourceFresh, Clock!SourceFresh
  <2>2. {d \in r.dated : Catalog!SourceFresh(d, net.deadline, evidenceNow)}
          = {d \in r.dated : Catalog!SourceFresh(d, net.deadline, now)}
    BY <2>1
  <2> QED BY <2>2 DEF Catalog!FreshNumbers
<1>3. \A p, k : Catalog!CarrierView(net, p, k, evidenceNow) = Catalog!CarrierView(net, p, k, now)
  <2> SUFFICES ASSUME NEW p, NEW k
               PROVE  Catalog!CarrierView(net, p, k, evidenceNow)
                        = Catalog!CarrierView(net, p, k, now)
    OBVIOUS
  <2> DEFINE mine == {r \in Catalog!Published(net) : r.pair = p /\ Catalog!Key(r) = k}
             fresh(instant) == UNION {Catalog!FreshNumbers(net, r, instant) : r \in mine}
  <2>1. mine \subseteq net.routes
    BY DEF Catalog!Published
  <2>2. fresh(evidenceNow) = fresh(now)
    <3> HIDE DEF mine
    <3> QED BY <1>2, <2>1
  <2> DEFINE auxs == {aux \in Catalog!AuxiliaryUsed(net) : aux.pair = p /\ aux.code = k}
             hints == UNION {Catalog!DatedNumbers(r) \cup r.candidates : r \in mine}
             known(f) == UNION {Catalog!GenericNumbers(r) : r \in mine} \cup f
                           \cup UNION {aux.numbers : aux \in auxs}
             sight(f) ==
               [key      |-> k,
                code     |-> (CHOOSE source \in mine \cup auxs : TRUE).code,
                identity |-> IF auxs # {} \/ f # {} THEN "operating"
                             ELSE (CHOOSE r \in mine : TRUE).identity,
                known    |-> known(f),
                hints    |-> hints \ known(f)]
  <2>3. \A instant : Catalog!CarrierView(net, p, k, instant) = sight(fresh(instant))
    BY DEF Catalog!CarrierView
  <2> HIDE DEF sight, fresh
  <2> QED BY <2>2, <2>3
<1>4. Catalog!Pairs(net, evidenceNow) = Catalog!Pairs(net, now)
  BY <1>3 DEF Catalog!Pairs
<1> QED BY <1>4 DEF net

\* Of two carriers on a pair of a parsed network one key tells which.
LEMMA OneRowPerCarrier ==
  ASSUME NEW net, Catalog!CatalogParses(net), IsFiniteSet(net.routes),
         NEW r \in net.routes, NEW s \in net.routes, Catalog!Key(r) = Catalog!Key(s),
         r.pair = s.pair
  PROVE  r = s
<1> DEFINE mark == [x \in net.routes |-> <<Catalog!Key(x), x.pair>>]
           marks == {<<Catalog!Key(x), x.pair>> : x \in net.routes}
<1>1. \A S : Catalog!Cardinality(S) = Cardinality(S)
  BY DEF Catalog!Cardinality, Cardinality
<1>2. Cardinality(marks) = Cardinality(net.routes)
  BY <1>1 DEF Catalog!CatalogParses
<1>3. mark \in Surjection(net.routes, marks)
  BY DEF Surjection
<1>4. mark \in Injection(net.routes, marks)
  <2> HIDE DEF mark, marks
  <2> QED BY <1>2, <1>3, FS_Surjection
<1>5. mark[r] = mark[s]
  OBVIOUS
<1> HIDE DEF mark, marks
<1> QED BY <1>4, <1>5, Zenon DEF Injection, IsInjective

\* What is said of a carrier comes from the network, a schedule or a publication.
LEMMA CatalogIsGrounded ==
  ASSUME Catalog!CatalogAssumption, CatalogInv PROVE Catalog!CarriersGrounded
<1> DEFINE net == Catalog!Network
<1>1. /\ Catalog!CatalogParses(net) /\ IsFiniteSet(net.routes)
      /\ \A r \in net.routes, aux \in Auxiliary : r.entity # aux.code
  BY NetworkParses
<1> SUFFICES ASSUME NEW way \in Catalog!Pairs(net, evidenceNow), NEW c \in way.carriers
             PROVE  LET those == {r \in net.routes : r.pair = way.pair /\ r.code = c.code}
                    IN /\ \/ \E r \in those : Catalog!Key(r) = c.key /\ r.status = "published"
                          \/ \A r \in those : r.status = "published" /\ r.entity = None
                       /\ c.identity = "operating" =>
                            \/ \E r \in those : Catalog!Key(r) = c.key /\ r.identity = "operating"
                            \/ \E r \in those : Catalog!FreshNumbers(net, r, evidenceNow) # {}
                            \/ \E aux \in Auxiliary : aux.code = c.key /\ aux.pair = way.pair
  BY DEF Catalog!CarriersGrounded, Catalog!Shown
<1> HIDE DEF net
<1> DEFINE those == {r \in net.routes : r.pair = way.pair /\ r.code = c.code}
           mine(p, k) == {r \in Catalog!Published(net) : r.pair = p /\ Catalog!Key(r) = k}
           auxs(p, k) == {aux \in Catalog!AuxiliaryUsed(net) : aux.pair = p /\ aux.code = k}
<1>2. PICK p, k : /\ way.pair = p /\ c = Catalog!CarrierView(net, p, k, evidenceNow)
                  /\ mine(p, k) \cup auxs(p, k) # {}
  <2> DEFINE keyed == {<<r.pair, Catalog!Key(r)>> : r \in Catalog!Published(net)}
                        \cup {<<aux.pair, aux.code>> : aux \in Catalog!AuxiliaryUsed(net)}
  <2>1. PICK p \in {j[1] : j \in keyed} :
          way = [pair |-> p, carriers |->
                    {Catalog!CarrierView(net, p, j[2], evidenceNow) :
                       j \in {i \in keyed : i[1] = p}}]
    BY DEF Catalog!Pairs
  <2>2. PICK j \in keyed : j[1] = p /\ c = Catalog!CarrierView(net, p, j[2], evidenceNow)
    BY <2>1
  <2>3. mine(p, j[2]) \cup auxs(p, j[2]) # {}
    BY <2>2
  <2> QED BY <2>1, <2>2, <2>3
<1> DEFINE ours == mine(p, k)
           others == auxs(p, k)
           fresh == UNION {Catalog!FreshNumbers(net, r, evidenceNow) : r \in ours}
           first == CHOOSE x \in ours \cup others : TRUE
<1>3. /\ c.key = k /\ c.code = first.code
      /\ c.identity = IF others # {} \/ fresh # {} THEN "operating"
                      ELSE (CHOOSE r \in ours : TRUE).identity
  BY <1>2 DEF Catalog!CarrierView
<1>4. first \in ours \cup others
  BY <1>2
<1>5. /\ ours \subseteq net.routes
      /\ \A r \in ours : r.status = "published" /\ r.pair = p /\ Catalog!Key(r) = k
  BY DEF Catalog!Published
<1>6. \A aux \in others : aux \in Auxiliary /\ aux.pair = p /\ aux.code = k
  BY DEF Catalog!AuxiliaryUsed
<1>7. ASSUME others # {} PROVE \A r \in net.routes : r.code = k => r.entity = None
  BY <1>7 DEF Catalog!AuxiliaryUsed, Catalog!AmbiguousCode
<1>8. ASSUME others # {}
      PROVE  \A r \in net.routes : r.code = k /\ r.pair = p => r.status = "published"
  <2>1. <<k, p>> \notin Catalog!Blocked(net)
    BY <1>8 DEF Catalog!AuxiliaryUsed
  <2> SUFFICES ASSUME NEW r \in net.routes, r.code = k, r.pair = p, r.status # "published"
               PROVE  FALSE
    OBVIOUS
  <2>2. Catalog!Key(r) = k
    BY <1>7, <1>8 DEF Catalog!Key
  <2> QED BY <2>1, <2>2 DEF Catalog!Blocked
<1> HIDE DEF ours, others, first
<1>9. CASE ours = {}
  <2>1. others # {} /\ c.code = k
    BY <1>3, <1>4, <1>6, <1>9
  <2> QED BY <1>2, <1>3, <1>6, <1>7, <1>8, <2>1
<1>10. CASE ours # {}
  <2>1. PICK r \in ours : TRUE
    BY <1>10
  <2>2. \A s \in ours : s = r
    BY <1>1, <1>5, <2>1, OneRowPerCarrier
  <2>3. \A aux \in others : aux.code = r.code
    BY <1>1, <1>5, <1>6, <2>1 DEF Catalog!Key
  <2>4. c.code = r.code
    BY <1>3, <1>4, <2>2, <2>3
  <2>5. r \in those /\ Catalog!Key(r) = c.key /\ r.status = "published"
    BY <1>2, <1>3, <1>5, <2>1, <2>4
  <2>6. CASE others # {}
    BY <1>2, <1>3, <1>6, <2>5, <2>6
  <2>7. CASE fresh # {}
    <3>1. Catalog!FreshNumbers(net, r, evidenceNow) # {}
      BY <2>2, <2>7
    <3> QED BY <2>5, <3>1
  <2>8. CASE others = {} /\ fresh = {}
    <3>1. c.identity = r.identity
      <4> HIDE DEF fresh
      <4>1. (CHOOSE s \in ours : TRUE) = r
        BY <2>1, <2>2
      <4> QED BY <1>3, <2>8, <4>1
    <3> QED BY <2>5, <3>1
  <2> QED BY <2>6, <2>7, <2>8
<1> QED BY <1>9, <1>10

\* An open catalogue shows what the evidence says at this moment, until a millisecond
\* before its timer is due, and says of a carrier only what the network, a schedule or a
\* publication says, however long a page stays open and whatever is chosen on it
\* (RouteCatalogBrowser.tsx, use-evidence-clock.ts, route-catalog-browser.ts).
THEOREM CatalogueIsCurrent ==
  ASSUME Catalog!CatalogAssumption
  PROVE  Catalog!Spec => [](Catalog!CatalogCurrent /\ Catalog!CarriersGrounded)
<1>1. Catalog!Init => CatalogInv
  BY CatalogBegins
<1>2. CatalogInv /\ [Catalog!Next]_Catalog!vars => CatalogInv'
  BY CatalogSteps
<1>3. CatalogInv => Catalog!CatalogCurrent /\ Catalog!CarriersGrounded
  BY CatalogShowsNow, CatalogIsGrounded
<1> QED BY <1>1, <1>2, <1>3, PTL DEF Catalog!Spec

-----------------------------------------------------------------------------
(***************************************************************************)
(* The explorer of the route library.                                      *)
(***************************************************************************)
\* While something is displayed its timer watches it, once the explorer has looked at it.
ExplorerInv ==
  /\ entityNow \in Nat /\ entityLook \in Nat /\ entityLook <= entityNow
  /\ entitySince \in Nat /\ entitySince <= entityNow
  /\ Explorer!Shown # None => entityDue \in Nat
  /\ Explorer!Shown # None /\ entityLook >= entitySince
       => Watches(Explorer!Of(Explorer!Shown), entityLook, entityDue)
  /\ planned # None => planned \in Explorer!Buttons(entityLook)

\* A file holds routes of the network, whose deadlines are its own.
LEMMA FilesAreParts ==
  ASSUME Explorer!EntitiesAssumption, NEW scope
  PROVE  /\ Explorer!Of(scope).routes \subseteq FullNetwork.routes
         /\ Explorer!Of(scope).deadline = FullNetwork.deadline
         /\ Dated(Explorer!Of(scope))
         /\ Clock!Deadlines(Explorer!Of(scope)) \subseteq Nat
<1> DEFINE part == Explorer!Of(scope)
<1>1. FullNetwork = [routes |-> FullNetwork.routes, deadline |-> FullNetwork.deadline]
  BY DEF Explorer!EntitiesAssumption
<1>2. part.routes \subseteq FullNetwork.routes /\ part.deadline = FullNetwork.deadline
  BY <1>1 DEF Explorer!Of
<1>3. Dated(FullNetwork)
  BY DEF Dated, Explorer!EntitiesAssumption, Explorer!CatalogParses, Explorer!DatedParses
<1>4. Clock!Deadlines(FullNetwork) \subseteq Nat
  BY DEF Explorer!EntitiesAssumption, Explorer!Deadlines, Clock!Deadlines, Explorer!Range,
         Clock!Range
<1> HIDE DEF part
<1>5. Dated(part)
  BY <1>2, <1>3 DEF Dated
<1>6. Clock!Deadlines(part) \subseteq Clock!Deadlines(FullNetwork)
  BY <1>2 DEF Clock!Deadlines
<1>7. Clock!Deadlines(part) \subseteq Nat
  BY <1>4, <1>6
<1> QED BY <1>2, <1>5, <1>7 DEF part

LEMMA ExplorerArms ==
  ASSUME Explorer!EntitiesAssumption, NEW scope, NEW instant \in Nat
  PROVE  /\ Explorer!Armed(Explorer!Of(scope), instant) \in Nat
         /\ Watches(Explorer!Of(scope), instant, Explorer!Armed(Explorer!Of(scope), instant))
<1> DEFINE part == Explorer!Of(scope)
<1>1. Clock!ClockAssumption /\ Clock!Deadlines(part) \subseteq Nat
  BY FilesAreParts DEF Explorer!EntitiesAssumption, Explorer!ClockAssumption, Clock!ClockAssumption
<1> HIDE DEF part
<1>2. Explorer!Armed(part, instant) = Clock!Armed(part, instant)
  BY DEF Explorer!Armed, Clock!Armed, Explorer!NextChange, Clock!NextChange,
         Explorer!Max, Clock!Max, Explorer!Min, Clock!Min,
         Explorer!NextMidnight, Clock!NextMidnight,
         Explorer!Deadlines, Clock!Deadlines, Explorer!Range, Clock!Range
<1>3. /\ Explorer!Armed(part, instant) \in Nat
      /\ Watches(part, instant, Explorer!Armed(part, instant))
  BY <1>1, <1>2, ArmedInTime
<1> QED BY <1>3 DEF part

LEMMA ExplorerBegins == ASSUME Explorer!EntitiesAssumption PROVE Explorer!Init => ExplorerInv
<1> SUFFICES ASSUME Explorer!Init PROVE ExplorerInv
  OBVIOUS
<1>1. /\ shownEntity = None /\ loaded \in {<<"preview">>, <<"full">>} /\ entitySince = 0
      /\ planned = None /\ entityNow = 0 /\ entityLook = 0
      /\ entityDue = Explorer!Armed(Explorer!Of(loaded), 0)
  BY DEF Explorer!Init
<1>2. Explorer!Shown = loaded
  BY <1>1 DEF Explorer!Shown, Explorer!Displayed
<1>3. entityDue \in Nat /\ Watches(Explorer!Of(Explorer!Shown), entityLook, entityDue)
  BY <1>1, <1>2, ExplorerArms
<1> QED BY <1>1, <1>3 DEF ExplorerInv

\* What is displayed changes, and the timer with it.
LEMMA Redisplays ==
  ASSUME Explorer!EntitiesAssumption, ExplorerInv, planned = None, NEW s, NEW file,
         Explorer!Redisplay(s, file)
  PROVE  ExplorerInv'
<1> DEFINE after == Explorer!Displayed(s, file)
<1>1. /\ Explorer!Shown' = after /\ entityNow' = entityNow /\ planned' = planned
      /\ entitySince' = IF after = Explorer!Shown THEN entitySince ELSE entityNow
  BY DEF Explorer!Redisplay, Explorer!Shown, Explorer!Displayed, Explorer!RouteKeys,
         Explorer!OriginOf, Explorer!Kind
<1>2. IF after = Explorer!Shown THEN entityLook' = entityLook /\ entityDue' = entityDue
      ELSE IF after = None THEN entityDue' = None /\ entityLook' = entityLook
      ELSE /\ entityDue' = Explorer!Armed(Explorer!Of(after), entityNow)
           /\ entityLook' \in {entityLook, entityNow}
  BY DEF Explorer!Redisplay, Explorer!Mount, Explorer!Rearm, Explorer!Unmount
<1>3. /\ Explorer!Armed(Explorer!Of(after), entityNow) \in Nat
      /\ Watches(Explorer!Of(after), entityNow, Explorer!Armed(Explorer!Of(after), entityNow))
  BY ExplorerArms DEF ExplorerInv
<1>4. Explorer!Of(Explorer!Shown)' = Explorer!Of(after)
  BY <1>1 DEF Explorer!Of, Explorer!Within
<1> HIDE DEF after
<1>5. CASE after = Explorer!Shown
  <2>1. Explorer!Shown # None /\ entityLook >= entitySince
          => Watches(Explorer!Of(Explorer!Shown), entityLook, entityDue)
    BY DEF ExplorerInv
  <2>2. Explorer!Shown' # None /\ entityLook' >= entitySince'
          => Watches(Explorer!Of(Explorer!Shown)', entityLook', entityDue')
    BY <1>1, <1>2, <1>4, <1>5, <2>1
  <2> QED BY <1>1, <1>2, <1>5, <2>2 DEF ExplorerInv
<1>6. CASE after # Explorer!Shown /\ after = None
  BY <1>1, <1>2, <1>6 DEF ExplorerInv
<1>7. CASE after # Explorer!Shown /\ after # None
  <2>1. entitySince' = entityNow /\ (entityLook' >= entitySince' => entityLook' = entityNow)
    BY <1>1, <1>2, <1>7 DEF ExplorerInv
  <2>2. entityLook' >= entitySince' => Watches(Explorer!Of(Explorer!Shown)', entityLook', entityDue')
    BY <1>2, <1>3, <1>4, <1>7, <2>1
  <2>3. entityDue' \in Nat /\ entityLook' \in Nat /\ entityLook' <= entityNow
    BY <1>2, <1>3, <1>7 DEF ExplorerInv
  <2> QED BY <1>1, <2>1, <2>2, <2>3 DEF ExplorerInv
<1> QED BY <1>5, <1>6, <1>7

LEMMA ExplorerSteps ==
  ASSUME Explorer!EntitiesAssumption, ExplorerInv, [Explorer!Next]_Explorer!vars
  PROVE  ExplorerInv'
<1>1. ASSUME UNCHANGED <<shownEntity, loaded, entitySince, entityNow, entityLook, entityDue>>,
             planned' # None => planned' \in Explorer!Buttons(entityLook)'
      PROVE  ExplorerInv'
  <2>1. Explorer!Shown' = Explorer!Shown
    BY <1>1 DEF Explorer!Shown
  <2>2. Explorer!Of(Explorer!Shown)' = Explorer!Of(Explorer!Shown)
    BY <2>1 DEF Explorer!Of, Explorer!Within
  <2>3. Explorer!Shown # None /\ entityLook >= entitySince
          => Watches(Explorer!Of(Explorer!Shown), entityLook, entityDue)
    BY DEF ExplorerInv
  <2>4. Explorer!Shown' # None /\ entityLook' >= entitySince'
          => Watches(Explorer!Of(Explorer!Shown)', entityLook', entityDue')
    BY <1>1, <2>1, <2>2, <2>3
  <2> QED BY <1>1, <2>1, <2>4 DEF ExplorerInv
<1>2. CASE UNCHANGED Explorer!vars
  <2>1. Explorer!Buttons(entityLook)' = Explorer!Buttons(entityLook)
    BY <1>2 DEF Explorer!vars, Explorer!view, Explorer!clock, Explorer!Buttons, Explorer!Shown,
                Explorer!PublishedRows, Explorer!Eligible
  <2> QED BY <1>1, <1>2, <2>1 DEF Explorer!vars, Explorer!view, Explorer!clock, ExplorerInv
<1>3. ASSUME planned = None, NEW codes, Explorer!ChooseAlliance(codes) PROVE ExplorerInv'
  BY <1>1, <1>3 DEF Explorer!ChooseAlliance, Explorer!clock
<1>4. ASSUME NEW flight \in Explorer!Buttons(entityLook), Explorer!Plan(flight)
      PROVE  ExplorerInv'
  <2>1. Explorer!Buttons(entityLook)' = Explorer!Buttons(entityLook)
    BY <1>4 DEF Explorer!Plan, Explorer!clock, Explorer!Buttons, Explorer!Shown,
                Explorer!PublishedRows, Explorer!Eligible
  <2> QED BY <1>1, <1>4, <2>1 DEF Explorer!Plan, Explorer!clock
<1>5. CASE planned = None /\ Explorer!Look
  <2>1. /\ Explorer!Shown' = Explorer!Shown /\ entitySince' = entitySince /\ planned' = None
        /\ Explorer!Of(Explorer!Shown)' = Explorer!Of(Explorer!Shown)
    BY <1>5 DEF Explorer!Look, Explorer!view, Explorer!Shown, Explorer!Of, Explorer!Within
  <2>2. CASE Explorer!Tick
    <3>1. entityNow' = entityNow + 1 /\ entityLook' = entityLook /\ entityDue' = entityDue
      BY <2>2 DEF Explorer!Tick
    <3>2. Explorer!Shown # None /\ entityLook >= entitySince
            => Watches(Explorer!Of(Explorer!Shown), entityLook, entityDue)
      BY DEF ExplorerInv
    <3>3. Explorer!Shown' # None /\ entityLook' >= entitySince'
            => Watches(Explorer!Of(Explorer!Shown)', entityLook', entityDue')
      BY <2>1, <3>1, <3>2
    <3> QED BY <2>1, <3>1, <3>3 DEF ExplorerInv
  <2>3. CASE Explorer!Refresh(Explorer!Of(Explorer!Shown))
    <3>1. /\ entityNow' = entityNow /\ entityLook' = entityNow
          /\ entityDue' = Explorer!Armed(Explorer!Of(Explorer!Shown), entityNow)
      BY <2>3 DEF Explorer!Refresh
    <3>2. /\ Explorer!Armed(Explorer!Of(Explorer!Shown), entityNow) \in Nat
          /\ Watches(Explorer!Of(Explorer!Shown), entityNow,
                     Explorer!Armed(Explorer!Of(Explorer!Shown), entityNow))
      BY ExplorerArms DEF ExplorerInv
    <3>3. entityDue' \in Nat /\ Watches(Explorer!Of(Explorer!Shown)', entityLook', entityDue')
      BY <2>1, <3>1, <3>2
    <3> QED BY <2>1, <3>1, <3>3 DEF ExplorerInv
  <2> QED BY <1>5, <2>2, <2>3 DEF Explorer!Look, Explorer!TimerFires
<1>6. ASSUME planned = None, NEW s, Explorer!Choose(s) PROVE ExplorerInv'
  BY <1>6, Redisplays DEF Explorer!Choose
<1>7. ASSUME planned = None, NEW file, Explorer!Load(file) PROVE ExplorerInv'
  BY <1>7, Redisplays DEF Explorer!Load
<1> QED BY <1>2, <1>3, <1>4, <1>5, <1>6, <1>7 DEF Explorer!Next

\* None that is said of a route's numbers changes between two such instants.
LEMMA SameNumbers ==
  ASSUME NEW net, Dated(net), NEW a, NEW b, Same(net, a, b), NEW r \in net.routes
  PROVE  /\ Explorer!CurrentNumbers(r, net.deadline, a)
              = Explorer!CurrentNumbers(r, net.deadline, b)
         /\ Explorer!StaleNumbers(r, net.deadline, a) = Explorer!StaleNumbers(r, net.deadline, b)
         /\ Explorer!CandidateNumbers(r, net.deadline, a)
              = Explorer!CandidateNumbers(r, net.deadline, b)
<1>1. \A e \in r.dated :
        /\ Explorer!SourceFresh(e, net.deadline, a) = Explorer!SourceFresh(e, net.deadline, b)
        /\ Explorer!ObservationCurrent(e, net.deadline, a)
             = Explorer!ObservationCurrent(e, net.deadline, b)
  BY SameFreshness DEF Explorer!SourceFresh, Clock!SourceFresh, Explorer!ObservationCurrent,
                       Clock!ObservationCurrent
<1>2. \A n : Explorer!Observations(r, n) \subseteq r.dated
  BY DEF Explorer!Observations
<1>3. Explorer!CurrentNumbers(r, net.deadline, a) = Explorer!CurrentNumbers(r, net.deadline, b)
  BY <1>1, <1>2 DEF Explorer!CurrentNumbers
<1>4. Explorer!StaleNumbers(r, net.deadline, a) = Explorer!StaleNumbers(r, net.deadline, b)
  BY <1>1, <1>2, <1>3 DEF Explorer!StaleNumbers
<1>5. Explorer!PassedNumbers(r, net.deadline, a) = Explorer!PassedNumbers(r, net.deadline, b)
  BY <1>3, <1>4 DEF Explorer!PassedNumbers
<1> QED BY <1>3, <1>4, <1>5 DEF Explorer!CandidateNumbers

\* The page and its buttons do not change either.
LEMMA SamePages ==
  ASSUME Explorer!EntitiesAssumption, NEW a, NEW b, Same(Explorer!Of(Explorer!Shown), a, b)
  PROVE  Explorer!Pages(a) = Explorer!Pages(b) /\ Explorer!Buttons(a) = Explorer!Buttons(b)
<1> DEFINE scope == Explorer!Shown
           part == Explorer!Of(scope)
           codes == Explorer!Eligible(shownEntity)
           listing(instant) == Explorer!PublishedRows(scope, codes, instant)
<1>1. part.deadline = FullNetwork.deadline /\ Dated(part)
  BY FilesAreParts
<1>2. \A r \in part.routes :
        /\ Explorer!CurrentNumbers(r, FullNetwork.deadline, a)
             = Explorer!CurrentNumbers(r, FullNetwork.deadline, b)
        /\ Explorer!StaleNumbers(r, FullNetwork.deadline, a) = Explorer!StaleNumbers(r, FullNetwork.deadline, b)
        /\ Explorer!CandidateNumbers(r, FullNetwork.deadline, a)
             = Explorer!CandidateNumbers(r, FullNetwork.deadline, b)
  <2> HIDE DEF part
  <2> QED BY <1>1, SameNumbers DEF part
<1>3. listing(a) = listing(b) /\ listing(a) \subseteq part.routes
  BY <1>2 DEF Explorer!PublishedRows
<1>4. \A r \in part.routes : /\ Explorer!Confirmed(r, a) = Explorer!Confirmed(r, b)
                             /\ Explorer!Card(r, a) = Explorer!Card(r, b)
  BY <1>2 DEF Explorer!Confirmed, Explorer!Card
<1>5. ASSUME NEW some, some \subseteq part.routes
      PROVE  Explorer!PairCards(some, a) = Explorer!PairCards(some, b)
  <2> HIDE DEF part
  <2>1. \A p : {Explorer!Card(r, a) : r \in {x \in some : x.pair = p}}
                 = {Explorer!Card(r, b) : r \in {x \in some : x.pair = p}}
    BY <1>4, <1>5
  <2> DEFINE pairs == {q \in {r.pair : r \in some} : {q[1], q[2]} \subseteq KnownAirports}
             cards(p, instant) == {Explorer!Card(r, instant) : r \in {x \in some : x.pair = p}}
  <2>2. \A instant : Explorer!PairCards(some, instant)
                      = {[pair |-> p, carriers |-> cards(p, instant)] : p \in pairs}
    BY DEF Explorer!PairCards
  <2>3. \A p : cards(p, a) = cards(p, b)
    BY <2>1
  <2> HIDE DEF pairs, cards
  <2> QED BY <2>2, <2>3
<1>6. \A r \in part.routes : Explorer!FlightsOf(r, a) = Explorer!FlightsOf(r, b)
  <2> SUFFICES ASSUME NEW r \in part.routes
               PROVE  Explorer!FlightsOf(r, a) = Explorer!FlightsOf(r, b)
    OBVIOUS
  <2>1. \A e \in r.dated : \A t \in e.times :
          Explorer!Upcoming(e, t, a) = Explorer!Upcoming(e, t, b)
    <3> HIDE DEF part
    <3>1. \A e \in r.dated :
            /\ Clock!SourceFresh(e, FullNetwork.deadline, a) = Clock!SourceFresh(e, FullNetwork.deadline, b)
            /\ \A t \in e.times : (a < t) = (b < t)
      BY <1>1, SameFreshness DEF part
    <3> QED BY <3>1 DEF Explorer!Upcoming, Explorer!SourceFresh, Clock!SourceFresh
  <2>2. Explorer!DatedFlights(r, a) = Explorer!DatedFlights(r, b)
    BY <2>1 DEF Explorer!DatedFlights
  <2> QED BY <1>4, <2>2 DEF Explorer!FlightsOf
<1> HIDE DEF part
<1>7. Explorer!Buttons(a) = Explorer!Buttons(b)
  BY <1>3, <1>6 DEF Explorer!Buttons
<1>8. Explorer!Pages(a) = Explorer!Pages(b)
  <2> DEFINE out(instant) == {r \in listing(instant) : shownEntity = <<"airport", r.pair[1]>>}
             those(instant) == {r \in listing(instant) : r.pair = shownEntity[2]}
             own(instant) == Explorer!AirlineRows(listing(instant), shownEntity[2])
  <2>1. /\ out(a) = out(b) /\ out(a) \subseteq part.routes
        /\ those(a) = those(b) /\ those(a) \subseteq part.routes
    BY <1>3
  <2>2. own(a) = own(b) /\ own(a) \subseteq part.routes
    BY <1>3 DEF Explorer!AirlineRows
  <2>3. /\ Explorer!PairCards(out(a), a) = Explorer!PairCards(out(b), b)
        /\ Explorer!PairCards(those(a), a) = Explorer!PairCards(those(b), b)
        /\ Explorer!PairCards(own(a), a) = Explorer!PairCards(own(b), b)
    BY <1>5, <2>1, <2>2
  <2>4. \A instant : Explorer!Pages(instant) =
          CASE Explorer!Kind(shownEntity) = "airport" -> Explorer!PairCards(out(instant), instant)
            [] Explorer!Kind(shownEntity) = "airline" -> Explorer!PairCards(own(instant), instant)
            [] Explorer!Kind(shownEntity) = "route" -> Explorer!PairCards(those(instant), instant)
            [] OTHER -> {}
    BY DEF Explorer!Pages, Explorer!Profile, Explorer!NoProfile
  <2> HIDE DEF out, those, own
  <2> QED BY <2>3, <2>4
<1> QED BY <1>7, <1>8

\* The explorer shows, and hands to the planner, what holds at this moment.
LEMMA ExplorerShowsNow ==
  ASSUME Explorer!EntitiesAssumption, ExplorerInv PROVE Explorer!LibraryCurrent
<1> SUFFICES ASSUME Explorer!Shown # None, entityLook >= entitySince, entityNow < entityDue - 1
             PROVE  /\ Explorer!Pages(entityLook) = Explorer!Pages(entityNow)
                    /\ planned # None => planned \in Explorer!Buttons(entityNow)
  BY DEF Explorer!LibraryCurrent
<1>1. Clock!Deadlines(Explorer!Of(Explorer!Shown)) \subseteq Nat
  BY FilesAreParts
<1>2. Same(Explorer!Of(Explorer!Shown), entityLook, entityNow)
  BY <1>1, NothingLapses DEF ExplorerInv
<1>3. /\ Explorer!Pages(entityLook) = Explorer!Pages(entityNow)
      /\ Explorer!Buttons(entityLook) = Explorer!Buttons(entityNow)
  BY <1>2, SamePages
<1> QED BY <1>3 DEF ExplorerInv

\* Once the explorer of the library has looked at what it displays, its page and its
\* buttons are those of this moment until a millisecond before its timer is due, and a
\* flight that is taken to the planner rests on evidence that holds, whatever files came
\* and whatever was chosen before (RouteLibraryExplorer.tsx, use-evidence-clock.ts).
THEOREM ExplorerIsCurrent ==
  ASSUME Explorer!EntitiesAssumption PROVE Explorer!Spec => []Explorer!LibraryCurrent
<1>1. Explorer!Init => ExplorerInv
  BY ExplorerBegins
<1>2. ExplorerInv /\ [Explorer!Next]_Explorer!vars => ExplorerInv'
  BY ExplorerSteps
<1>3. ExplorerInv => Explorer!LibraryCurrent
  BY ExplorerShowsNow
<1> QED BY <1>1, <1>2, <1>3, PTL DEF Explorer!Spec

-----------------------------------------------------------------------------
(***************************************************************************)
(* Behaviours of the parts together: one that moves a part is a behaviour  *)
(* of that part, so its theorems are theorems of ItinerarySpec.            *)
(***************************************************************************)
LEMMA OfPanel ==
  ItinerarySpec => ([](focus = "panel") /\ Panel!Spec) \/ []~(focus = "panel")
<1> DEFINE F == focus = "panel"
<1>1. F /\ ItineraryInit => Panel!Init
  BY DEF ItineraryInit
<1>2. F /\ [ItineraryNext]_itineraryVars => F' /\ [Panel!Next]_Panel!vars
  BY DEF ItineraryNext, itineraryVars, panelVars, Panel!vars
<1>3. ~F /\ [ItineraryNext]_itineraryVars => ~F'
  BY DEF ItineraryNext, itineraryVars
<1>4. ItinerarySpec => ([]F /\ Panel!Spec) \/ []~F
  <2> HIDE DEF F
  <2> QED BY <1>1, <1>2, <1>3, PTL DEF ItinerarySpec, Panel!Spec
<1> QED BY <1>4

LEMMA OfWorld ==
  ItinerarySpec => ([](focus = "world") /\ World!Spec) \/ []~(focus = "world")
<1> DEFINE F == focus = "world"
<1>1. F /\ ItineraryInit => World!Init
  BY DEF ItineraryInit
<1>2. F /\ [ItineraryNext]_itineraryVars => F' /\ [World!Next]_World!vars
  BY DEF ItineraryNext, itineraryVars, worldVars, World!vars
<1>3. ~F /\ [ItineraryNext]_itineraryVars => ~F'
  BY DEF ItineraryNext, itineraryVars
<1>4. ItinerarySpec => ([]F /\ World!Spec) \/ []~F
  <2> HIDE DEF F
  <2> QED BY <1>1, <1>2, <1>3, PTL DEF ItinerarySpec, World!Spec
<1> QED BY <1>4

LEMMA OfLoads ==
  ItinerarySpec => ([](focus = "loads") /\ Loads!Spec) \/ []~(focus = "loads")
<1> DEFINE F == focus = "loads"
<1>1. F /\ ItineraryInit => Loads!Init
  BY DEF ItineraryInit
<1>2. F /\ [ItineraryNext]_itineraryVars => F' /\ [Loads!Next]_Loads!vars
  BY DEF ItineraryNext, itineraryVars, loadsVars, Loads!vars
<1>3. ~F /\ [ItineraryNext]_itineraryVars => ~F'
  BY DEF ItineraryNext, itineraryVars
<1>4. ItinerarySpec => ([]F /\ Loads!Spec) \/ []~F
  <2> HIDE DEF F
  <2> QED BY <1>1, <1>2, <1>3, PTL DEF ItinerarySpec, Loads!Spec
<1> QED BY <1>4

LEMMA OfOrigin ==
  ItinerarySpec => ([](focus = "origin") /\ Origin!Spec) \/ []~(focus = "origin")
<1> DEFINE F == focus = "origin"
<1>1. F /\ ItineraryInit => Origin!Init
  BY DEF ItineraryInit
<1>2. F /\ [ItineraryNext]_itineraryVars => F' /\ [Origin!Next]_Origin!vars
  BY DEF ItineraryNext, itineraryVars, originVars, Origin!vars
<1>3. ~F /\ [ItineraryNext]_itineraryVars => ~F'
  BY DEF ItineraryNext, itineraryVars
<1>4. ItinerarySpec => ([]F /\ Origin!Spec) \/ []~F
  <2> HIDE DEF F
  <2> QED BY <1>1, <1>2, <1>3, PTL DEF ItinerarySpec, Origin!Spec
<1> QED BY <1>4

LEMMA OfMap ==
  ItinerarySpec => ([](focus = "map") /\ Map!Spec) \/ []~(focus = "map")
<1> DEFINE F == focus = "map"
<1>1. F /\ ItineraryInit => Map!Init
  BY DEF ItineraryInit
<1>2. F /\ [ItineraryNext]_itineraryVars => F' /\ [Map!Next]_Map!vars
  BY DEF ItineraryNext, itineraryVars, mapVars, Map!vars, Map!shown
<1>3. ~F /\ [ItineraryNext]_itineraryVars => ~F'
  BY DEF ItineraryNext, itineraryVars
<1>4. ItinerarySpec => ([]F /\ Map!Spec) \/ []~F
  <2> HIDE DEF F
  <2> QED BY <1>1, <1>2, <1>3, PTL DEF ItinerarySpec, Map!Spec
<1> QED BY <1>4

LEMMA OfRules ==
  ItinerarySpec => ([](focus = "rules") /\ Rules!Spec) \/ []~(focus = "rules")
<1> DEFINE F == focus = "rules"
<1>1. F /\ ItineraryInit => Rules!Init
  BY DEF ItineraryInit
<1>2. F /\ [ItineraryNext]_itineraryVars => F' /\ [Rules!Next]_Rules!vars
  BY DEF ItineraryNext, itineraryVars, rulesVars, Rules!vars
<1>3. ~F /\ [ItineraryNext]_itineraryVars => ~F'
  BY DEF ItineraryNext, itineraryVars
<1>4. ItinerarySpec => ([]F /\ Rules!Spec) \/ []~F
  <2> HIDE DEF F
  <2> QED BY <1>1, <1>2, <1>3, PTL DEF ItinerarySpec, Rules!Spec
<1> QED BY <1>4

LEMMA OfEvidence ==
  ItinerarySpec => ([](focus = "evidence") /\ Evidence!Spec) \/ []~(focus = "evidence")
<1> DEFINE F == focus = "evidence"
<1>1. F /\ ItineraryInit => Evidence!Init
  BY DEF ItineraryInit
<1>2. F /\ [ItineraryNext]_itineraryVars => F' /\ [Evidence!Next]_Evidence!vars
  BY DEF ItineraryNext, itineraryVars, evidenceVars, Evidence!vars
<1>3. ~F /\ [ItineraryNext]_itineraryVars => ~F'
  BY DEF ItineraryNext, itineraryVars
<1>4. ItinerarySpec => ([]F /\ Evidence!Spec) \/ []~F
  <2> HIDE DEF F
  <2> QED BY <1>1, <1>2, <1>3, PTL DEF ItinerarySpec, Evidence!Spec
<1> QED BY <1>4

LEMMA OfShare ==
  ItinerarySpec => ([](focus = "share") /\ Share!Spec) \/ []~(focus = "share")
<1> DEFINE F == focus = "share"
<1>1. F /\ ItineraryInit => Share!Init
  BY DEF ItineraryInit
<1>2. F /\ [ItineraryNext]_itineraryVars => F' /\ [Share!Next]_Share!vars
  BY DEF ItineraryNext, itineraryVars, shareVars, Share!vars
<1>3. ~F /\ [ItineraryNext]_itineraryVars => ~F'
  BY DEF ItineraryNext, itineraryVars
<1>4. ItinerarySpec => ([]F /\ Share!Spec) \/ []~F
  <2> HIDE DEF F
  <2> QED BY <1>1, <1>2, <1>3, PTL DEF ItinerarySpec, Share!Spec
<1> QED BY <1>4

LEMMA OfNext ==
  ItinerarySpec => ([](focus = "next") /\ NextLeg!Spec) \/ []~(focus = "next")
<1> DEFINE F == focus = "next"
<1>1. F /\ ItineraryInit => NextLeg!Init
  BY DEF ItineraryInit
<1>2. F /\ [ItineraryNext]_itineraryVars => F' /\ [NextLeg!Next]_NextLeg!vars
  BY DEF ItineraryNext, itineraryVars, nextVars, NextLeg!vars, NextLeg!panel
<1>3. ~F /\ [ItineraryNext]_itineraryVars => ~F'
  BY DEF ItineraryNext, itineraryVars
<1>4. ItinerarySpec => ([]F /\ NextLeg!Spec) \/ []~F
  <2> HIDE DEF F
  <2> QED BY <1>1, <1>2, <1>3, PTL DEF ItinerarySpec, NextLeg!Spec
<1> QED BY <1>4

LEMMA OfSaved ==
  ItinerarySpec => ([](focus = "saved") /\ Saved!Spec) \/ []~(focus = "saved")
<1> DEFINE F == focus = "saved"
<1>1. F /\ ItineraryInit => Saved!Init
  BY DEF ItineraryInit
<1>2. F /\ [ItineraryNext]_itineraryVars => F' /\ [Saved!Next]_Saved!vars
  BY DEF ItineraryNext, itineraryVars, savedVars, Saved!vars
<1>3. ~F /\ [ItineraryNext]_itineraryVars => ~F'
  BY DEF ItineraryNext, itineraryVars
<1>4. ItinerarySpec => ([]F /\ Saved!Spec) \/ []~F
  <2> HIDE DEF F
  <2> QED BY <1>1, <1>2, <1>3, PTL DEF ItinerarySpec, Saved!Spec
<1> QED BY <1>4

LEMMA OfLibrary ==
  ItinerarySpec => ([](focus = "library") /\ Library!Spec) \/ []~(focus = "library")
<1> DEFINE F == focus = "library"
<1>1. F /\ ItineraryInit => Library!Init
  BY DEF ItineraryInit
<1>2. F /\ [ItineraryNext]_itineraryVars => F' /\ [Library!Next]_Library!vars
  BY DEF ItineraryNext, itineraryVars, libraryVars, Library!vars
<1>3. ~F /\ [ItineraryNext]_itineraryVars => ~F'
  BY DEF ItineraryNext, itineraryVars
<1>4. ItinerarySpec => ([]F /\ Library!Spec) \/ []~F
  <2> HIDE DEF F
  <2> QED BY <1>1, <1>2, <1>3, PTL DEF ItinerarySpec, Library!Spec
<1> QED BY <1>4

LEMMA OfCatalog ==
  ItinerarySpec => ([](focus = "catalog") /\ Catalog!Spec) \/ []~(focus = "catalog")
<1> DEFINE F == focus = "catalog"
<1>1. F /\ ItineraryInit => Catalog!Init
  BY DEF ItineraryInit
<1>2. F /\ [ItineraryNext]_itineraryVars => F' /\ [Catalog!Next]_Catalog!vars
  BY DEF ItineraryNext, itineraryVars, catalogVars, Catalog!vars, Catalog!view, Catalog!clock
<1>3. ~F /\ [ItineraryNext]_itineraryVars => ~F'
  BY DEF ItineraryNext, itineraryVars
<1>4. ItinerarySpec => ([]F /\ Catalog!Spec) \/ []~F
  <2> HIDE DEF F
  <2> QED BY <1>1, <1>2, <1>3, PTL DEF ItinerarySpec, Catalog!Spec
<1> QED BY <1>4

LEMMA OfExplorer ==
  ItinerarySpec => ([](focus = "entities") /\ Explorer!Spec) \/ []~(focus = "entities")
<1> DEFINE F == focus = "entities"
<1>1. F /\ ItineraryInit => Explorer!Init
  BY DEF ItineraryInit
<1>2. F /\ [ItineraryNext]_itineraryVars => F' /\ [Explorer!Next]_Explorer!vars
  BY DEF ItineraryNext, itineraryVars, entitiesVars, Explorer!vars, Explorer!view, Explorer!clock
<1>3. ~F /\ [ItineraryNext]_itineraryVars => ~F'
  BY DEF ItineraryNext, itineraryVars
<1>4. ItinerarySpec => ([]F /\ Explorer!Spec) \/ []~F
  <2> HIDE DEF F
  <2> QED BY <1>1, <1>2, <1>3, PTL DEF ItinerarySpec, Explorer!Spec
<1> QED BY <1>4

\* Whatever is on the page, what it shows holds now: the flight dates are those of the last
\* query, the atlas is one for all who show it, a page is that of its own latest load, the
\* next-leg panel that of the airport the route ends at, the map fits the route and draws
\* every stop once, and a tab shows the saved routings as they are stored
\* (FlightDatesPanel.tsx, use-world-map.ts, use-loaded-data.ts, DestinationsPanel.tsx,
\* MapView.tsx, use-saved-routings.ts).
THEOREM WhatIsShownIsCurrent == ItinerarySpec => []ShownIsCurrent
<1>1. ItinerarySpec => [](focus = "panel" => Panel!ShownIsCurrent)
  <2>1. Panel!Spec => []Panel!ShownIsCurrent
    BY PanelIsCurrent, ItineraryAssumptions
  <2> QED BY <2>1, OfPanel, PTL
<1>2. ItinerarySpec => [](focus = "world" => World!OneMapForAll)
  BY OneAtlasForAll, OfWorld, PTL
<1>3. ItinerarySpec => [](focus = "loads" => Loads!LatestLoadOnly /\ Loads!OptionalFilesDegrade)
  BY LoadsAreCurrent, OfLoads, PTL
<1>4. ItinerarySpec => [](focus = "origin" => Origin!EvidenceComes)
  <2>1. Origin!Spec => []Origin!EvidenceComes
    BY OriginsAreServed, ItineraryAssumptions
  <2> QED BY <2>1, OfOrigin, PTL
<1>5. ItinerarySpec => [](focus = "map" => Map!ViewIsFitted /\ Map!StopsDrawnOnce)
  <2>1. Map!Spec => [](Map!ViewIsFitted /\ Map!StopsDrawnOnce)
    BY MapFollowsTheRoute, ItineraryAssumptions
  <2> QED BY <2>1, OfMap, PTL
<1>6. ItinerarySpec => [](focus = "saved" => Saved!QuietTabsAgree)
  BY QuietTabsShowTheStore, OfSaved, PTL
<1>7. /\ focus = "panel" => Panel!ShownIsCurrent
      /\ focus = "world" => World!OneMapForAll
      /\ focus = "loads" => Loads!LatestLoadOnly /\ Loads!OptionalFilesDegrade
      /\ focus = "origin" => Origin!EvidenceComes
      /\ focus = "map" => Map!ViewIsFitted /\ Map!StopsDrawnOnce
      /\ focus = "saved" => Saved!QuietTabsAgree
      => ShownIsCurrent
  BY DEF ShownIsCurrent
<1> QED BY <1>1, <1>2, <1>3, <1>4, <1>5, <1>6, <1>7, PTL

\* Whatever is on the page, a flight that is handed on rests on evidence that holds then,
\* a pass or a fail of a rule outlasts what was unknown, and time alone adds nothing to an
\* option (FlightDatesPanel.tsx, validate.ts, next-leg-discovery.ts,
\* live-next-leg-discovery.ts).
THEOREM WhatWasSaidStands == ItinerarySpec => VerdictsStand
<1>1. ItinerarySpec => [][focus = "panel" => Panel!ChoiceHolds]_itineraryVars
  <2>1. [Panel!ChoiceHolds]_Panel!vars /\ [ItineraryNext]_itineraryVars
          => [focus = "panel" => Panel!ChoiceHolds]_itineraryVars
    <3>1. ASSUME focus = "panel", Panel!vars' = Panel!vars PROVE Panel!ChoiceHolds
      BY <3>1 DEF Panel!vars, Panel!ChoiceHolds
    <3> QED BY <3>1
  <2>2. ~(focus = "panel") => [focus = "panel" => Panel!ChoiceHolds]_itineraryVars
    OBVIOUS
  <2> QED BY <2>1, <2>2, ChoicesHold, OfPanel, PTL DEF ItinerarySpec
<1>2. ItinerarySpec => [][focus = "rules" => Rules!VerdictsKept]_itineraryVars
  <2>1. Rules!Spec => [][Rules!VerdictsKept]_Rules!vars
    BY VerdictsAreKept, ItineraryAssumptions
  <2>2. focus = "rules" /\ [Rules!VerdictsKept]_Rules!vars
          => [focus = "rules" => Rules!VerdictsKept]_itineraryVars
    <3>1. ASSUME focus = "rules", Rules!vars' = Rules!vars PROVE Rules!VerdictsKept
      BY <3>1 DEF Rules!vars, Rules!VerdictsKept, Rules!FillsIn
    <3> QED BY <3>1
  <2>3. ~(focus = "rules") => [focus = "rules" => Rules!VerdictsKept]_itineraryVars
    OBVIOUS
  <2> QED BY <2>1, <2>2, <2>3, OfRules, PTL
<1>3. ItinerarySpec => [][focus = "evidence" => Evidence!EvidenceKept]_itineraryVars
  <2>1. EvidenceInv /\ EvidenceInv' /\ [Evidence!Next]_Evidence!vars
          => [focus = "evidence" => Evidence!EvidenceKept]_itineraryVars
    BY EvidenceIsKept, ItineraryAssumptions
  <2>2. ~(focus = "evidence") => [focus = "evidence" => Evidence!EvidenceKept]_itineraryVars
    OBVIOUS
  <2> QED BY <2>1, <2>2, EvidenceBegins, EvidenceSteps, OfEvidence, PTL DEF Evidence!Spec
<1>4. [focus = "panel" => Panel!ChoiceHolds]_itineraryVars
        /\ [focus = "rules" => Rules!VerdictsKept]_itineraryVars
        /\ [focus = "evidence" => Evidence!EvidenceKept]_itineraryVars
        => [/\ focus = "panel" => Panel!ChoiceHolds
            /\ focus = "rules" => Rules!VerdictsKept
            /\ focus = "evidence" => Evidence!EvidenceKept]_itineraryVars
  OBVIOUS
<1> QED BY <1>1, <1>2, <1>3, <1>4, PTL DEF VerdictsStand

\* The link of any trip the editor can make opens and tells the trip (url-schema.ts).
THEOREM LinksTellTheTrip == ItinerarySpec => []RoundTrip
<1>1. Share!Spec => []Share!RoundTrip
  BY LinksOpenAgain, ItineraryAssumptions
<1>2. (focus = "share" => Share!RoundTrip) => RoundTrip
  BY DEF RoundTrip
<1> QED BY <1>1, <1>2, OfShare, PTL

\* What is offered for the next leg can be had, and the button of a choice adds a leg that
\* continues the route (next-leg-discovery.ts, DestinationsPanel.tsx, App.tsx:522).
THEOREM WhatIsOfferedIsSound == ItinerarySpec => []OffersSound
<1>1. Evidence!Spec => []Evidence!EvidenceSound
  BY EvidenceIsSound, ItineraryAssumptions
<1>2. NextLeg!Spec => []NextLeg!OffersSound
  BY OffersCanBeHad, ItineraryAssumptions
<1>3. (focus = "evidence" => Evidence!EvidenceSound)
        /\ (focus = "next" => NextLeg!OffersSound) => OffersSound
  BY DEF OffersSound
<1> QED BY <1>1, <1>2, <1>3, OfEvidence, OfNext, PTL

\* The route library never waits for nothing (AllRoutesPage.tsx).
THEOREM LibraryNeverWaitsForNothing == ItinerarySpec => []NeverStuck
<1>1. Library!Spec => []Library!NeverStuck
  BY LibraryNeverStalls, ItineraryAssumptions
<1>2. (focus = "library" => Library!NeverStuck) => NeverStuck
  BY DEF NeverStuck
<1> QED BY <1>1, <1>2, OfLibrary, PTL

\* What the catalogue says of a carrier, and the pages and buttons of the library, are what
\* the evidence says at this moment (RouteCatalogBrowser.tsx, RouteLibraryExplorer.tsx,
\* use-evidence-clock.ts).
THEOREM WhatTheLibrarySaysIsCurrent == ItinerarySpec => []LibraryIsCurrent
<1>1. Catalog!Spec => [](Catalog!CatalogCurrent /\ Catalog!CarriersGrounded)
  BY CatalogueIsCurrent, ItineraryAssumptions
<1>2. Explorer!Spec => []Explorer!LibraryCurrent
  BY ExplorerIsCurrent, ItineraryAssumptions
<1>3. (focus = "catalog" => Catalog!CatalogCurrent /\ Catalog!CarriersGrounded)
        /\ (focus = "entities" => Explorer!LibraryCurrent) => LibraryIsCurrent
  BY DEF LibraryIsCurrent
<1> QED BY <1>1, <1>2, <1>3, OfCatalog, OfExplorer, PTL
=============================================================================
