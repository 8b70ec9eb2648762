--------------------------- MODULE PlannerProofs ---------------------------
(***************************************************************************)
(* What is proved of the itinerary editor and the hash that mirrors it,    *)
(* for any airports, links and bounds:                                     *)
(*                                                                         *)
(*   - its types, and that every group stays a connected route whatever is *)
(*     appended, attached, dragged or taken out of it;                     *)
(*   - that the address bar tells the itinerary once the browser has       *)
(*     dispatched its events, and that the echo of an edit is harmless;    *)
(*   - that a drag moves one airport of the chain that is shown.           *)
(*                                                                         *)
(* The one flag that tells an echo from a navigation is enough because of  *)
(* the order of the events: while the flag is up an echo is on its way,    *)
(* and while the itinerary is not the one of the address bar a navigation  *)
(* is on its way, behind that echo (EchoInv).                              *)
(***************************************************************************)
EXTENDS Planner, SequenceLemmas

-----------------------------------------------------------------------------
(***************************************************************************)
(* What is written to the hash (encodeShareUrl).                           *)
(***************************************************************************)

\* Dropping the groups without legs keeps the others and nothing else.
LEMMA WithLegsKeeps ==
  ASSUME NEW gs \in Seq(Seq(Legs))
  PROVE  /\ WithLegs(gs) \in Seq(Seq(Legs))
         /\ Len(WithLegs(gs)) = Cardinality(NonEmpty(gs))
         /\ Len(WithLegs(gs)) <= Len(gs)
         /\ \A n \in DOMAIN WithLegs(gs) :
              /\ WithLegs(gs)[n] # <<>>
              /\ \E i \in DOMAIN gs : WithLegs(gs)[n] = gs[i]
<1> DEFINE K == NonEmpty(gs)
           at(n) == CHOOSE i \in K : Cardinality(UpTo(gs, i)) = n
<1>1. K \in SUBSET (1..Len(gs))  BY DEF NonEmpty
<1>2. IsFiniteSet(1..Len(gs)) /\ Cardinality(1..Len(gs)) = Len(gs)
  <2>1. Len(gs) \in Nat  OBVIOUS
  <2>2. Cardinality(1..Len(gs)) = IF 1 > Len(gs) THEN 0 ELSE Len(gs) - 1 + 1  BY <2>1, FS_Interval
  <2>3. IsFiniteSet(1..Len(gs))  BY <2>1, FS_Interval
  <2>4. Cardinality(1..Len(gs)) = Len(gs)  BY <2>1, <2>2
  <2> QED  BY <2>3, <2>4
<1>3. Cardinality(K) \in Nat /\ Cardinality(K) <= Len(gs)
  BY <1>1, <1>2, FS_Subset, FS_CardinalityType
<1>4. ASSUME NEW n \in 1..Cardinality(K)
      PROVE  at(n) \in K
  <2>1. \E i \in K : Cardinality(Before(K, i)) = n
    <3>1. Len(gs) \in Nat  OBVIOUS
    <3> HIDE DEF K
    <3> QED  BY <1>1, <3>1, RankTaken
  <2>2. \E i \in K : Cardinality(UpTo(gs, i)) = n  BY <2>1 DEF UpTo, Before
  <2> QED  BY <2>2
<1>5. WithLegs(gs) = [n \in 1..Cardinality(K) |-> gs[at(n)]]  BY DEF WithLegs
<1> HIDE DEF at
<1>6. \A n \in 1..Cardinality(K) :
        gs[at(n)] \in Seq(Legs) /\ gs[at(n)] # <<>> /\ at(n) \in DOMAIN gs
  BY <1>4 DEF NonEmpty
<1> HIDE DEF K
<1>7. WithLegs(gs) \in Seq(Seq(Legs)) /\ Len(WithLegs(gs)) = Cardinality(K)
  <2>1. WithLegs(gs) \in [1..Cardinality(K) -> Seq(Legs)]  BY <1>5, <1>6
  <2> QED  BY <1>3, <2>1, FunctionIsSeq
<1> QED  BY <1>3, <1>5, <1>6, <1>7 DEF K

\* Nothing is dropped of groups that all have legs.
LEMMA WithLegsOfFull ==
  ASSUME NEW gs \in Seq(Seq(Legs)), NonEmpty(gs) = DOMAIN gs
  PROVE  WithLegs(gs) = gs
<1>1. Len(gs) \in Nat /\ DOMAIN gs = 1..Len(gs)  OBVIOUS
<1>2. ASSUME NEW i \in 1..Len(gs)
      PROVE  Cardinality(UpTo(gs, i)) = i
  <2>1. UpTo(gs, i) = 1..i  BY <1>1 DEF UpTo
  <2>2. Cardinality(1..i) = IF 1 > i THEN 0 ELSE i - 1 + 1  BY <1>1, FS_Interval
  <2> QED  BY <1>1, <2>1, <2>2
<1>3. Cardinality(NonEmpty(gs)) = Len(gs)
  <2>1. Cardinality(1..Len(gs)) = IF 1 > Len(gs) THEN 0 ELSE Len(gs) - 1 + 1
    BY <1>1, FS_Interval
  <2> QED  BY <1>1, <2>1
<1>4. ASSUME NEW n \in 1..Len(gs)
      PROVE  (CHOOSE i \in NonEmpty(gs) : Cardinality(UpTo(gs, i)) = n) = n
  <2>1. \A i \in NonEmpty(gs) : Cardinality(UpTo(gs, i)) = n <=> i = n  BY <1>1, <1>2
  <2>2. n \in NonEmpty(gs)  BY <1>1
  <2> QED  BY <2>1, <2>2
<1> DEFINE at(n) == CHOOSE i \in NonEmpty(gs) : Cardinality(UpTo(gs, i)) = n
<1>5. WithLegs(gs) = [n \in 1..Len(gs) |-> gs[at(n)]]  BY <1>3 DEF WithLegs
<1>6. \A n \in 1..Len(gs) : at(n) = n  BY <1>4
<1> HIDE DEF at
<1> QED  BY <1>1, <1>5, <1>6

-----------------------------------------------------------------------------
(***************************************************************************)
(* Chains of airports, and what a drag or a removal makes of them.         *)
(***************************************************************************)

\* The airports of a connected route: leg n goes from the n-th to the next one.
LEMMA ChainOfRoute ==
  ASSUME NEW legs \in Seq(Legs), legs # <<>>
  PROVE  /\ Chain(legs) \in Seq(Airports)
         /\ Len(Chain(legs)) = Len(legs) + 1
         /\ Chain(legs)[1] = legs[1].from
         /\ \A n \in 1..Len(legs) : Chain(legs)[n + 1] = legs[n].to
<1> DEFINE ends == [i \in DOMAIN legs |-> legs[i].to]
           first == << legs[1].from >>
<1>1. /\ Len(legs) \in Nat \ {0} /\ DOMAIN legs = 1..Len(legs)
      /\ \A n \in 1..Len(legs) : legs[n] \in Legs
  BY EmptySeq
<1>2. \A n \in 1..Len(legs) : legs[n].from \in Airports /\ legs[n].to \in Airports
  BY <1>1 DEF Legs
<1>3. ends \in [1..Len(legs) -> Airports]  BY <1>1, <1>2
<1>4. ends \in Seq(Airports) /\ Len(ends) = Len(legs)  BY <1>1, <1>3, FunctionIsSeq
<1>5. \A n \in 1..Len(legs) : ends[n] = legs[n].to  BY <1>1
<1>6. first \in Seq(Airports) /\ Len(first) = 1 /\ first[1] = legs[1].from  BY <1>1, <1>2
<1>7. Chain(legs) = first \o ends  BY DEF Chain
<1> HIDE DEF ends, first
<1>8. /\ Chain(legs) \in Seq(Airports) /\ Len(Chain(legs)) = 1 + Len(legs)
      /\ \A n \in 1..1 + Len(legs) :
           Chain(legs)[n] = IF n <= 1 THEN first[n] ELSE ends[n - 1]
  <2>1. first \o ends \in Seq(Airports) /\ Len(first \o ends) = Len(first) + Len(ends)
    BY <1>4, <1>6, ConcatProperties
  <2>2. ASSUME NEW n \in 1..Len(first) + Len(ends)
        PROVE  (first \o ends)[n] = IF n <= Len(first) THEN first[n] ELSE ends[n - Len(first)]
    BY <1>4, <1>6, ConcatProperties
  <2> QED  BY <1>4, <1>6, <1>7, <2>1, <2>2
<1>9. ASSUME NEW n \in 1..Len(legs)
      PROVE  Chain(legs)[n + 1] = legs[n].to
  <2>1. n + 1 \in 1..1 + Len(legs) /\ ~(n + 1 <= 1) /\ (n + 1) - 1 = n  BY <1>1
  <2> QED  BY <1>5, <1>8, <2>1
<1> QED  BY <1>1, <1>6, <1>8, <1>9

LEMMA LegsOfChain ==
  ASSUME NEW legs \in Seq(Legs), legs # <<>>, Joined(legs), NEW n \in 1..Len(legs)
  PROVE  legs[n].from = Chain(legs)[n] /\ legs[n].to = Chain(legs)[n + 1]
<1>1. Len(legs) \in Nat  OBVIOUS
<1>2. CASE n = 1  BY <1>2, ChainOfRoute
<1>3. CASE n > 1
  <2>1. n - 1 \in 1..Len(legs) /\ n - 1 \in 1..Len(legs) - 1 /\ (n - 1) + 1 = n  BY <1>1, <1>3
  <2>2. Chain(legs)[n] = legs[n - 1].to  BY <2>1, ChainOfRoute
  <2>3. legs[n - 1].to = legs[n].from  BY <2>1 DEF Joined
  <2> QED  BY <2>2, <2>3, ChainOfRoute
<1> QED  BY <1>1, <1>2, <1>3

\* reindexLegs: the airports of the legs it makes are the old ones in the new order.
LEMMA ReindexFollows ==
  ASSUME NEW legs \in Seq(Legs), legs # <<>>, Joined(legs),
         NEW order \in Seq(1..Len(legs) + 1), Len(order) >= 2
  PROVE  /\ Reindex(legs, order) \in Seq(Legs) /\ Reindex(legs, order) # <<>>
         /\ Len(Reindex(legs, order)) = Len(order) - 1
         /\ Joined(Reindex(legs, order))
         /\ \A n \in 1..Len(order) : Chain(Reindex(legs, order))[n] = Chain(legs)[order[n]]
<1> DEFINE c == Chain(legs)
           new == Reindex(legs, order)
           at(i) == IF order[i+1] = order[i] + 1 THEN legs[order[i]]
                    ELSE Leg(c[order[i]], c[order[i+1]])
<1>1. /\ Len(legs) \in Nat /\ Len(order) \in Nat /\ Len(order) - 1 \in Nat
      /\ \A n \in 1..Len(order) : order[n] \in 1..Len(legs) + 1
  OBVIOUS
<1>2. c \in Seq(Airports) /\ Len(c) = Len(legs) + 1  BY ChainOfRoute
<1>3. ASSUME NEW i \in 1..Len(order) - 1
      PROVE  at(i) \in Legs /\ at(i).from = c[order[i]] /\ at(i).to = c[order[i+1]]
  <2>1. /\ i \in 1..Len(order) /\ i + 1 \in 1..Len(order)
        /\ order[i] \in 1..Len(legs) + 1 /\ order[i+1] \in 1..Len(legs) + 1
    BY <1>1
  <2>2. c[order[i]] \in Airports /\ c[order[i+1]] \in Airports  BY <1>1, <1>2, <2>1
  <2> HIDE DEF c
  <2>3. CASE order[i+1] = order[i] + 1
    <3>1. order[i] \in 1..Len(legs)  BY <1>1, <2>1, <2>3
    <3>2. legs[order[i]] \in Legs  BY <3>1
    <3>3. legs[order[i]].from = c[order[i]] /\ legs[order[i]].to = c[order[i] + 1]
      BY <3>1, LegsOfChain DEF c
    <3> QED  BY <2>3, <3>2, <3>3
  <2>4. CASE order[i+1] # order[i] + 1
    BY <2>2, <2>4 DEF Leg, Legs
  <2> QED  BY <2>3, <2>4
<1>4. new = [i \in 1..Len(order) - 1 |-> at(i)]  BY DEF Reindex
<1> HIDE DEF at, new, c
<1>5. new \in [1..Len(order) - 1 -> Legs]  BY <1>3, <1>4
<1>6. new \in Seq(Legs) /\ Len(new) = Len(order) - 1  BY <1>1, <1>5, FunctionIsSeq
<1>7. \A i \in 1..Len(order) - 1 : new[i].from = c[order[i]] /\ new[i].to = c[order[i+1]]
  BY <1>3, <1>4
<1>8. new # <<>>  BY <1>1, <1>6, EmptySeq
<1>9. Joined(new)
  <2>1. ASSUME NEW j \in 1..Len(new) - 1
        PROVE  new[j].to = new[j + 1].from
    <3>1. j \in 1..Len(order) - 1 /\ j + 1 \in 1..Len(order) - 1  BY <1>1, <1>6
    <3> QED  BY <1>7, <3>1
  <2> QED  BY <2>1 DEF Joined
<1>10. ASSUME NEW n \in 1..Len(order)
       PROVE  Chain(new)[n] = c[order[n]]
  <2>1. CASE n = 1
    <3>1. Chain(new)[1] = new[1].from  BY <1>6, <1>8, ChainOfRoute
    <3>2. 1 \in 1..Len(order) - 1  BY <1>1
    <3> QED  BY <1>7, <2>1, <3>1, <3>2
  <2>2. CASE n > 1
    <3>1. n - 1 \in 1..Len(new) /\ n - 1 \in 1..Len(order) - 1 /\ (n - 1) + 1 = n
      BY <1>1, <1>6, <2>2
    <3>2. Chain(new)[(n - 1) + 1] = new[n - 1].to  BY <1>6, <1>8, <3>1, ChainOfRoute
    <3>3. new[n - 1].to = c[order[(n - 1) + 1]]  BY <1>7, <3>1
    <3> QED  BY <3>1, <3>2, <3>3
  <2> QED  BY <1>1, <2>1, <2>2
<1> QED  BY <1>6, <1>8, <1>9, <1>10 DEF new, c

\* A drag: the positions and the elements in their new order.
Positions(c, i, j) == InsertAt(RemoveAt([n \in DOMAIN c |-> n], i), j, i)
Moved(c, i, j)     == InsertAt(RemoveAt(c, i), j, c[i])

\* Taking one position out and putting it in elsewhere moves the element with it.
LEMMA MoveCarries ==
  ASSUME NEW S, NEW c \in Seq(S), NEW i \in 1..Len(c), NEW j \in 1..Len(c)
  PROVE  /\ Positions(c, i, j) \in Seq(1..Len(c)) /\ Len(Positions(c, i, j)) = Len(c)
         /\ Moved(c, i, j) \in Seq(S) /\ Len(Moved(c, i, j)) = Len(c)
         /\ \A n \in 1..Len(c) : Moved(c, i, j)[n] = c[Positions(c, i, j)[n]]
<1> DEFINE all   == [n \in DOMAIN c |-> n]
           order == InsertAt(RemoveAt(all, i), j, i)
           moved == InsertAt(RemoveAt(c, i), j, c[i])
<1>1. Len(c) \in Nat \ {0} /\ DOMAIN c = 1..Len(c) /\ c[i] \in S  OBVIOUS
<1>2. all \in Seq(1..Len(c)) /\ Len(all) = Len(c) /\ \A n \in 1..Len(c) : all[n] = n
  <2>1. all \in [1..Len(c) -> 1..Len(c)]  BY <1>1
  <2>2. all \in Seq(1..Len(c)) /\ Len(all) = Len(c)  BY <1>1, <2>1, FunctionIsSeq
  <2> QED  BY <1>1, <2>2
<1> HIDE DEF all
<1>3. /\ RemoveAt(all, i) \in Seq(1..Len(c)) /\ Len(RemoveAt(all, i)) = Len(c) - 1
      /\ \A n \in 1..Len(c) - 1 : RemoveAt(all, i)[n] = IF n < i THEN all[n] ELSE all[n + 1]
  <2>1. i \in 1..Len(all)  BY <1>1, <1>2
  <2> QED  BY <1>2, <2>1, RemoveAtProperties
<1>4. /\ RemoveAt(c, i) \in Seq(S) /\ Len(RemoveAt(c, i)) = Len(c) - 1
      /\ \A n \in 1..Len(c) - 1 : RemoveAt(c, i)[n] = IF n < i THEN c[n] ELSE c[n + 1]
  BY <1>1, RemoveAtProperties
<1>5. ASSUME NEW n \in 1..Len(c)
      PROVE  /\ order \in Seq(1..Len(c)) /\ Len(order) = Len(c)
             /\ n < j => order[n] = RemoveAt(all, i)[n]
             /\ n = j => order[n] = i
             /\ n > j => order[n] = RemoveAt(all, i)[n - 1]
  <2> DEFINE T == 1..Len(c)
             rest == RemoveAt(all, i)
  <2>1. rest \in Seq(T) /\ Len(rest) + 1 = Len(c) /\ i \in T  BY <1>1, <1>3
  <2> HIDE DEF T, rest
  <2>2. /\ InsertAt(rest, j, i) \in Seq(T) /\ Len(InsertAt(rest, j, i)) = Len(c)
        /\ n < j => InsertAt(rest, j, i)[n] = rest[n]
        /\ n = j => InsertAt(rest, j, i)[n] = i
        /\ n > j => InsertAt(rest, j, i)[n] = rest[n - 1]
    BY <2>1, InsertAtProperties
  <2> QED  BY <2>2 DEF T, rest
<1>6. ASSUME NEW n \in 1..Len(c)
      PROVE  /\ moved \in Seq(S) /\ Len(moved) = Len(c)
             /\ n < j => moved[n] = RemoveAt(c, i)[n]
             /\ n = j => moved[n] = c[i]
             /\ n > j => moved[n] = RemoveAt(c, i)[n - 1]
  <2> DEFINE rest == RemoveAt(c, i)
             it   == c[i]
  <2>1. rest \in Seq(S) /\ Len(rest) + 1 = Len(c) /\ it \in S  BY <1>1, <1>4
  <2> HIDE DEF rest, it
  <2>2. /\ InsertAt(rest, j, it) \in Seq(S) /\ Len(InsertAt(rest, j, it)) = Len(c)
        /\ n < j => InsertAt(rest, j, it)[n] = rest[n]
        /\ n = j => InsertAt(rest, j, it)[n] = it
        /\ n > j => InsertAt(rest, j, it)[n] = rest[n - 1]
    BY <2>1, InsertAtProperties
  <2> QED  BY <2>2 DEF rest, it
<1>7. ASSUME NEW n \in 1..Len(c) - 1
      PROVE  RemoveAt(c, i)[n] = c[RemoveAt(all, i)[n]]
  <2>1. n \in 1..Len(c) /\ n + 1 \in 1..Len(c)  BY <1>1
  <2>2. all[n] = n /\ all[n + 1] = n + 1  BY <1>2, <2>1
  <2> QED  BY <1>3, <1>4, <2>2
<1> HIDE DEF order, moved
<1>8. ASSUME NEW n \in 1..Len(c)
      PROVE  moved[n] = c[order[n]]
  <2>1. CASE n < j
    <3>1. n \in 1..Len(c) - 1  BY <1>1, <2>1
    <3> QED  BY <1>5, <1>6, <1>7, <2>1, <3>1
  <2>2. CASE n = j  BY <1>5, <1>6, <2>2
  <2>3. CASE n > j
    <3>1. n - 1 \in 1..Len(c) - 1  BY <1>1, <2>3
    <3>2. moved[n] = RemoveAt(c, i)[n - 1] /\ order[n] = RemoveAt(all, i)[n - 1]
      BY <1>5, <1>6, <2>3
    <3> QED  BY <1>7, <3>1, <3>2
  <2> QED  BY <1>1, <2>1, <2>2, <2>3
<1>9. 1 \in 1..Len(c)  BY <1>1
<1> QED  BY <1>5, <1>6, <1>8, <1>9 DEF all, order, moved, Positions, Moved

-----------------------------------------------------------------------------
(***************************************************************************)
(* The types, with every group a connected route and every link of the     *)
(* session history one that encodeShareUrl can have written.               *)
(***************************************************************************)
Trips == {gs \in Seq(Seq(Legs)) : /\ gs # <<>> /\ Len(gs) <= MaxGroups
                                  /\ \A i \in DOMAIN gs : Joined(gs[i])}

ProductChoices == Products \cup {None}

Written == {h \in [kind : {"link"}, groups : Trips, product : ProductChoices] :
              NonEmpty(h.groups) = DOMAIN h.groups}
Hashes  == Written \cup {Blank, Malformed}

RoutingOK ==
  /\ groups \in Trips /\ product \in ProductChoices
  /\ error \in BOOLEAN /\ ignore \in BOOLEAN
HistoryOK ==
  /\ entries \in Seq(Hashes) /\ pos \in DOMAIN entries /\ Len(entries) <= MaxHistory
  /\ events \in Seq({"own", "nav"}) /\ Len(events) <= MaxEvents
EditorOK ==
  /\ active \in 1..MaxGroups
  /\ DOMAIN pend \subseteq 1..MaxGroups
  /\ \A i \in DOMAIN pend : pend[i] \in Airports

TypeInv == RoutingOK /\ HistoryOK /\ EditorOK

LEMMA BoundsPositive ==
  /\ MaxLegs \in Nat \ {0} /\ MaxGroups \in Nat \ {0}
  /\ MaxHistory \in Nat \ {0} /\ MaxEvents \in Nat \ {0}
BY PlannerAssumption

LEMMA TripFacts ==
  ASSUME NEW gs \in Trips
  PROVE  /\ gs \in Seq(Seq(Legs)) /\ Len(gs) \in 1..MaxGroups /\ DOMAIN gs = 1..Len(gs)
         /\ \A i \in DOMAIN gs : gs[i] \in Seq(Legs) /\ Joined(gs[i])
<1>1. gs \in Seq(Seq(Legs)) /\ gs # <<>> /\ Len(gs) <= MaxGroups
      /\ \A i \in DOMAIN gs : Joined(gs[i])
  BY DEF Trips
<1>2. Len(gs) \in Nat \ {0}  BY <1>1, EmptySeq
<1> QED  BY <1>1, <1>2, BoundsPositive

\* An itinerary of one group is a trip when its legs connect.
LEMMA OneGroup ==
  ASSUME NEW legs \in Seq(Legs), Joined(legs)
  PROVE  <<legs>> \in Trips
<1>1. <<legs>> \in Seq(Seq(Legs)) /\ Len(<<legs>>) = 1 /\ <<legs>> # <<>>  OBVIOUS
<1>2. \A i \in DOMAIN <<legs>> : <<legs>>[i] = legs  OBVIOUS
<1> QED  BY <1>1, <1>2, BoundsPositive DEF Trips

LEMMA NoLegs == <<>> \in Seq(Legs) /\ Joined(<<>>)
BY DEF Joined

LEMMA HashKinds ==
  ASSUME NEW h \in Hashes
  PROVE  /\ h.kind \in {"link", "blank", "malformed"}
         /\ h.kind = "link" <=> h \in Written
<1>1. h \in Written => h.kind = "link"  BY DEF Written
<1>2. Blank.kind = "blank" /\ Malformed.kind = "malformed"  BY DEF Blank, Malformed
<1> QED  BY <1>1, <1>2 DEF Hashes

LEMMA WrittenFacts ==
  ASSUME NEW h \in Written
  PROVE  /\ h.kind = "link" /\ h.groups \in Trips /\ h.product \in ProductChoices
         /\ NonEmpty(h.groups) = DOMAIN h.groups
         /\ h = Link(h.groups, h.product)
BY DEF Written, Link

\* What a share link can be is what encodeShareUrl writes.
LEMMA LinksAreWritten == Links \subseteq Written
<1> SUFFICES ASSUME NEW h \in Links
             PROVE  h \in Written
  OBVIOUS
<1>1. /\ h \in [kind : {"link"}, groups : Seq(Seq(Legs)), product : Products \cup {None}]
      /\ h.groups # <<>> /\ Len(h.groups) <= MaxGroups
      /\ \A i \in DOMAIN h.groups : h.groups[i] # <<>> /\ Joined(h.groups[i])
  BY LinksAssumption
<1>2. h.groups \in Trips  BY <1>1 DEF Trips
<1>3. NonEmpty(h.groups) = DOMAIN h.groups  BY <1>1 DEF NonEmpty
<1>4. h \in [kind : {"link"}, groups : Trips, product : ProductChoices]
  BY <1>1, <1>2 DEF ProductChoices
<1> QED  BY <1>3, <1>4 DEF Written

LEMMA ParsedHash ==
  ASSUME NEW h \in Hashes
  PROVE  /\ ParsedGroups(h) \in Trips /\ ParsedProduct(h) \in ProductChoices
         /\ h.kind = "link" => Encode(ParsedGroups(h), ParsedProduct(h)) = h
         /\ h.kind # "link" => ~HasLegs(ParsedGroups(h))
<1>1. CASE h.kind = "link"
  <2>1. h \in Written  BY <1>1, HashKinds
  <2>2. h.groups \in Seq(Seq(Legs))  BY <2>1, WrittenFacts, TripFacts
  <2>3. WithLegs(h.groups) = h.groups  BY <2>1, <2>2, WrittenFacts, WithLegsOfFull
  <2> QED  BY <1>1, <2>1, <2>3, WrittenFacts DEF ParsedGroups, ParsedProduct, Encode
<1>2. CASE h.kind # "link"
  <2>1. << <<>> >> \in Trips  BY NoLegs, OneGroup
  <2>2. NonEmpty(<< <<>> >>) = {}  BY DEF NonEmpty
  <2> QED  BY <1>2, <2>1, <2>2 DEF ParsedGroups, ParsedProduct, HasLegs, ProductChoices
<1> QED  BY <1>1, <1>2

LEMMA EncodeWrites ==
  ASSUME NEW gs \in Trips, NEW p \in ProductChoices, HasLegs(gs)
  PROVE  Encode(gs, p) \in Written
<1> DEFINE w == WithLegs(gs)
<1>1. /\ gs \in Seq(Seq(Legs)) /\ Len(gs) \in 1..MaxGroups
      /\ \A i \in DOMAIN gs : Joined(gs[i])
  BY TripFacts
<1>2. /\ w \in Seq(Seq(Legs)) /\ Len(w) = Cardinality(NonEmpty(gs)) /\ Len(w) <= Len(gs)
      /\ \A n \in DOMAIN w : w[n] # <<>> /\ \E i \in DOMAIN gs : w[n] = gs[i]
  BY <1>1, WithLegsKeeps
<1>3. Len(w) # 0
  <2>1. NonEmpty(gs) \in SUBSET (1..Len(gs))  BY <1>1 DEF NonEmpty
  <2>2. IsFiniteSet(NonEmpty(gs))  BY <1>1, <2>1, FS_Interval, FS_Subset
  <2>3. NonEmpty(gs) # {}  BY DEF HasLegs
  <2>4. Cardinality(NonEmpty(gs)) # 0  BY <2>2, <2>3, FS_EmptySet
  <2> QED  BY <1>2, <2>4
<1> HIDE DEF w
<1>4. w # <<>> /\ Len(w) <= MaxGroups  BY <1>1, <1>2, <1>3, BoundsPositive
<1>5. w \in Trips  BY <1>1, <1>2, <1>4 DEF Trips
<1>6. NonEmpty(w) = DOMAIN w  BY <1>2 DEF NonEmpty
<1>7. Encode(gs, p) = [kind |-> "link", groups |-> w, product |-> p]  BY DEF Encode, Link, w
<1> QED  BY <1>5, <1>6, <1>7 DEF Written

-----------------------------------------------------------------------------
(***************************************************************************)
(* What the steps do to the session history.                               *)
(***************************************************************************)

LEMMA PushKeeps ==
  ASSUME HistoryOK, NEW h \in Hashes, NEW cause \in {"own", "nav"}, Push(h, cause)
  PROVE  /\ HistoryOK' /\ Hash' = h
         /\ events' = Append(events, cause)
<1> DEFINE past == SubSeq(entries, IF pos < MaxHistory THEN 1 ELSE 2, pos)
<1>1. /\ Len(events) < MaxEvents /\ events' = Append(events, cause)
      /\ entries' = Append(past, h) /\ pos' = Len(past) + 1
  BY DEF Push
<1>2. /\ entries \in Seq(Hashes) /\ Len(entries) \in Nat /\ pos \in 1..Len(entries)
      /\ Len(entries) <= MaxHistory /\ MaxHistory \in Nat \ {0}
  BY BoundsPositive DEF HistoryOK
<1>3. past \in Seq(Hashes) /\ Len(past) \in Nat /\ Len(past) + 1 <= MaxHistory
  <2>1. CASE pos < MaxHistory
    <3>1. \A i \in 1..pos : entries[i] \in Hashes  BY <1>2
    <3>2. SubSeq(entries, 1, pos) \in Seq(Hashes) /\ Len(SubSeq(entries, 1, pos)) = pos
      BY <1>2, <3>1, SubSeqProperties
    <3> QED  BY <1>2, <2>1, <3>2
  <2>2. CASE ~(pos < MaxHistory)
    <3>1. pos = MaxHistory  BY <1>2, <2>2
    <3>2. \A i \in 2..pos : entries[i] \in Hashes  BY <1>2
    <3>3. /\ SubSeq(entries, 2, pos) \in Seq(Hashes)
          /\ Len(SubSeq(entries, 2, pos)) = IF 2 <= pos THEN pos - 2 + 1 ELSE 0
      BY <1>2, <3>2, SubSeqProperties
    <3>4. Len(SubSeq(entries, 2, pos)) = pos - 1  BY <1>2, <3>3
    <3> QED  BY <1>2, <2>2, <3>1, <3>3, <3>4
  <2> QED  BY <2>1, <2>2
<1> HIDE DEF past
<1>4. /\ Append(past, h) \in Seq(Hashes) /\ Len(Append(past, h)) = Len(past) + 1
      /\ Append(past, h)[Len(past) + 1] = h
  BY <1>3, AppendProperties
<1>5. entries' \in Seq(Hashes) /\ Len(entries') <= MaxHistory /\ pos' \in DOMAIN entries'
  BY <1>1, <1>3, <1>4
<1>6. events' \in Seq({"own", "nav"}) /\ Len(events') <= MaxEvents
  <2>1. events \in Seq({"own", "nav"})  BY DEF HistoryOK
  <2>2. /\ Append(events, cause) \in Seq({"own", "nav"})
        /\ Len(Append(events, cause)) = Len(events) + 1
    BY <2>1, AppendProperties
  <2>3. Len(events) \in Nat /\ MaxEvents \in Nat  BY <2>1, BoundsPositive
  <2> QED  BY <1>1, <2>2, <2>3
<1> QED  BY <1>1, <1>4, <1>5, <1>6 DEF HistoryOK, Hash

\* The address bar tells the itinerary that is shown.
Synced ==
  /\ Hash.kind = "link" => Encode(groups, product) = Hash
  /\ Hash.kind # "link" => ~HasLegs(groups)
  /\ Hash.kind = "malformed" => error

\* A change of the itinerary is written to the address bar at once; if that has an
\* echo the flag is up and the echo is the last event to come.
LEMMA SetRoutingKeeps ==
  ASSUME HistoryOK, RoutingOK, NEW gs \in Trips, NEW p \in ProductChoices, SetRouting(gs, p)
  PROVE  /\ RoutingOK' /\ HistoryOK' /\ Synced'
         /\ \/ UNCHANGED <<ignore, events>>
            \/ ~ignore' /\ UNCHANGED events
            \/ ignore' /\ events' = Append(events, "own")
<1>1. groups' = gs /\ product' = p /\ error' = FALSE  BY DEF SetRouting
<1>2. CASE ~HasLegs(gs) /\ ClearHash
  <2>1. ignore' \in BOOLEAN /\ UNCHANGED events /\ (UNCHANGED ignore \/ ~ignore')
    BY <1>2 DEF ClearHash, ReplaceHash, history, RoutingOK
  <2>2. RoutingOK'  BY <1>1, <2>1 DEF RoutingOK
  <2>3. HistoryOK' /\ Hash' = Blank
    <3>1. CASE Hash = Blank /\ UNCHANGED history
      BY <3>1 DEF history, HistoryOK, Hash
    <3>2. CASE entries' = [entries EXCEPT ![pos] = Blank] /\ UNCHANGED <<pos, events>>
      <4>1. entries \in Seq(Hashes) /\ pos \in 1..Len(entries) /\ Blank \in Hashes
        BY DEF HistoryOK, Hashes
      <4>2. /\ entries' \in Seq(Hashes) /\ Len(entries') = Len(entries)
            /\ entries'[pos] = Blank
        BY <3>2, <4>1, ExceptSeq
      <4> QED  BY <3>2, <4>1, <4>2 DEF HistoryOK, Hash
    <3> QED  BY <1>2, <3>1, <3>2 DEF ClearHash, history
  <2>4. Hash'.kind = "blank"  BY <2>3 DEF Blank
  <2>5. ~HasLegs(groups')  BY <1>1, <1>2
  <2> QED  BY <2>1, <2>2, <2>3, <2>4, <2>5 DEF Synced
<1>3. CASE HasLegs(gs) /\ WriteHash(Encode(gs, p))
  <2>1. Encode(gs, p) \in Written  BY <1>3, EncodeWrites
  <2>2. Encode(gs, p) \in Hashes /\ Encode(gs, p).kind = "link"
    BY <2>1, WrittenFacts DEF Hashes
  <2>3. CASE Hash = Encode(gs, p) /\ UNCHANGED <<ignore, history>>
    <3>1. Hash' = Encode(groups', product')  BY <1>1, <2>3 DEF history, Hash
    <3>2. HistoryOK' /\ RoutingOK'  BY <1>1, <2>3 DEF history, HistoryOK, RoutingOK
    <3> QED  BY <1>1, <2>2, <2>3, <3>1, <3>2 DEF Synced, history
  <2>4. CASE ignore' = TRUE /\ Push(Encode(gs, p), "own")
    <3>1. /\ HistoryOK' /\ Hash' = Encode(gs, p)
          /\ events' = Append(events, "own")
      BY <2>2, <2>4, PushKeeps
    <3>2. RoutingOK'  BY <1>1, <2>4 DEF RoutingOK
    <3> QED  BY <1>1, <2>2, <2>4, <3>1, <3>2 DEF Synced
  <2> QED  BY <1>3, <2>3, <2>4 DEF WriteHash, ExpectEcho
<1> QED  BY <1>2, <1>3 DEF SetRouting

\* What is read from the address bar is what it tells.
LEMMA FromHashSyncs ==
  ASSUME HistoryOK, FromHash(Hash), UNCHANGED <<entries, pos>>
  PROVE  /\ Synced' /\ groups' \in Trips /\ product' \in ProductChoices /\ error' \in BOOLEAN
<1>1. Hash \in Hashes /\ Hash' = Hash  BY DEF HistoryOK, Hash
<1>2. /\ groups' = ParsedGroups(Hash) /\ product' = ParsedProduct(Hash)
      /\ error' = (Hash.kind = "malformed")
  BY DEF FromHash
<1>3. /\ ParsedGroups(Hash) \in Trips /\ ParsedProduct(Hash) \in ProductChoices
      /\ Hash.kind = "link" => Encode(ParsedGroups(Hash), ParsedProduct(Hash)) = Hash
      /\ Hash.kind # "link" => ~HasLegs(ParsedGroups(Hash))
  BY <1>1, ParsedHash
<1> QED  BY <1>1, <1>2, <1>3 DEF Synced

-----------------------------------------------------------------------------
(***************************************************************************)
(* What the mutators make of the groups and of the editor.                 *)
(***************************************************************************)
Rewritten == \E gs \in Trips : \E p \in ProductChoices : SetRouting(gs, p)
Untouched == UNCHANGED <<routing, history>>

LEMMA EditorFacts ==
  ASSUME RoutingOK, EditorOK
  PROVE  /\ groups \in Seq(Seq(Legs)) /\ Len(groups) \in 1..MaxGroups
         /\ Current \in 1..Len(groups) /\ Current \in 1..MaxGroups
         /\ Group \in Seq(Legs) /\ Joined(Group)
         /\ Pending \in Airports \cup {None}
<1>1. /\ groups \in Seq(Seq(Legs)) /\ Len(groups) \in 1..MaxGroups /\ DOMAIN groups = 1..Len(groups)
      /\ \A i \in DOMAIN groups : groups[i] \in Seq(Legs) /\ Joined(groups[i])
  BY TripFacts DEF RoutingOK
<1>2. Current \in 1..Len(groups) /\ Current \in 1..MaxGroups
  BY <1>1, BoundsPositive DEF EditorOK, Current
<1>3. Pending \in Airports \cup {None}  BY DEF EditorOK, Pending
<1> QED  BY <1>1, <1>2, <1>3 DEF Group

LEMMA UpdateActiveWrites ==
  ASSUME RoutingOK, EditorOK, NEW legs \in Seq(Legs), Joined(legs), UpdateActive(legs)
  PROVE  /\ Rewritten /\ active' = active
         /\ groups' = [groups EXCEPT ![Current] = legs] /\ groups' \in Trips
<1> DEFINE gs == [groups EXCEPT ![Current] = legs]
<1>1. /\ groups \in Seq(Seq(Legs)) /\ Len(groups) \in 1..MaxGroups /\ Current \in 1..Len(groups)
      /\ \A i \in DOMAIN groups : Joined(groups[i])
  BY EditorFacts, TripFacts DEF RoutingOK
<1>2. /\ gs \in Seq(Seq(Legs)) /\ Len(gs) = Len(groups)
      /\ \A i \in 1..Len(groups) : gs[i] = IF i = Current THEN legs ELSE groups[i]
  BY <1>1, ExceptSeq
<1>3. gs # <<>>  BY <1>1, <1>2, EmptySeq
<1>4. \A i \in DOMAIN gs : Joined(gs[i])  BY <1>1, <1>2
<1>5. Len(gs) <= MaxGroups  BY <1>1, <1>2, BoundsPositive
<1> HIDE DEF gs
<1>6. gs \in Trips  BY <1>2, <1>3, <1>4, <1>5 DEF Trips
<1>7. SetRouting(gs, product) /\ active' = active  BY DEF UpdateActive, gs
<1>8. groups' = gs  BY <1>7 DEF SetRouting
<1> QED  BY <1>6, <1>7, <1>8 DEF Rewritten, RoutingOK, gs

LEMMA AppendJoins ==
  ASSUME NEW legs \in Seq(Legs), Joined(legs), NEW leg \in Legs,
         legs # <<>> => Last(legs).to = leg.from
  PROVE  Append(legs, leg) \in Seq(Legs) /\ Joined(Append(legs, leg))
<1>1. /\ Append(legs, leg) \in Seq(Legs) /\ Len(Append(legs, leg)) = Len(legs) + 1
      /\ Append(legs, leg)[Len(legs) + 1] = leg
      /\ \A i \in 1..Len(legs) : Append(legs, leg)[i] = legs[i]
  BY AppendProperties
<1>2. ASSUME NEW j \in 1..Len(legs)
      PROVE  Append(legs, leg)[j].to = Append(legs, leg)[j + 1].from
  <2>1. Len(legs) \in Nat  OBVIOUS
  <2>2. CASE j = Len(legs)
    <3>1. legs # <<>>  BY <2>1, EmptySeq
    <3>2. legs[j].to = leg.from  BY <2>2, <3>1 DEF Last
    <3> QED  BY <1>1, <2>2, <3>2
  <2>3. CASE j # Len(legs)
    <3>1. j \in 1..Len(legs) - 1 /\ j + 1 \in 1..Len(legs)  BY <2>1, <2>3
    <3>2. legs[j].to = legs[j + 1].from  BY <3>1 DEF Joined
    <3> QED  BY <1>1, <3>1, <3>2
  <2> QED  BY <2>2, <2>3
<1> QED  BY <1>1, <1>2 DEF Joined

LEMMA LegType ==
  ASSUME NEW a \in Airports, NEW b \in Airports
  PROVE  Leg(a, b) \in Legs /\ Leg(a, b).from = a /\ Leg(a, b).to = b
BY DEF Leg, Legs

LEMMA OneLegJoined ==
  ASSUME NEW leg \in Legs
  PROVE  <<leg>> \in Seq(Legs) /\ Joined(<<leg>>)
<1>1. <<leg>> \in Seq(Legs) /\ Len(<<leg>>) = 1  OBVIOUS
<1> QED  BY <1>1 DEF Joined

LEMMA LastEnd ==
  ASSUME NEW legs \in Seq(Legs), legs # <<>>
  PROVE  Last(legs).to \in Airports
<1>1. Len(legs) \in Nat \ {0}  BY EmptySeq
<1>2. legs[Len(legs)] \in Legs  BY <1>1
<1> QED  BY <1>2 DEF Last, Legs

LEMMA PendingKept ==
  ASSUME RoutingOK, EditorOK
  PROVE  /\ \A a \in Airports : SetPending(a) =>
              DOMAIN pend' \subseteq 1..MaxGroups /\ \A i \in DOMAIN pend' : pend'[i] \in Airports
         /\ ClearPending =>
              DOMAIN pend' \subseteq 1..MaxGroups /\ \A i \in DOMAIN pend' : pend'[i] \in Airports
<1>1. Current \in 1..MaxGroups  BY EditorFacts
<1>2. DOMAIN pend \subseteq 1..MaxGroups /\ \A i \in DOMAIN pend : pend[i] \in Airports
  BY DEF EditorOK
<1>3. ASSUME NEW a \in Airports, SetPending(a)
      PROVE  DOMAIN pend' \subseteq 1..MaxGroups /\ \A i \in DOMAIN pend' : pend'[i] \in Airports
  <2>1. pend' = [i \in DOMAIN pend \cup {Current} |-> IF i = Current THEN a ELSE pend[i]]
    BY <1>3 DEF SetPending
  <2> QED  BY <1>1, <1>2, <2>1
<1>4. ASSUME ClearPending
      PROVE  DOMAIN pend' \subseteq 1..MaxGroups /\ \A i \in DOMAIN pend' : pend'[i] \in Airports
  <2>1. pend' = [i \in DOMAIN pend \ {Current} |-> pend[i]]  BY <1>4 DEF ClearPending
  <2> QED  BY <1>2, <2>1
<1> QED  BY <1>3, <1>4

LEMMA AddAirportKeeps ==
  ASSUME RoutingOK, EditorOK, NEW a \in Airports, AddAirport(a)
  PROVE  EditorOK' /\ (Untouched \/ Rewritten)
<1>1. Group \in Seq(Legs) /\ Joined(Group) /\ Pending \in Airports \cup {None}  BY EditorFacts
<1>2. CASE BufferFirst(a)
  <2>1. SetPending(a) /\ Untouched /\ active' = active  BY <1>2 DEF BufferFirst, Untouched
  <2> QED  BY <2>1, PendingKept DEF EditorOK
<1>3. CASE PromotePending(a)
  <2>1. Pending \in Airports  BY <1>1, <1>3 DEF PromotePending
  <2>2. <<Leg(Pending, a)>> \in Seq(Legs) /\ Joined(<<Leg(Pending, a)>>)
    BY <2>1, LegType, OneLegJoined
  <2>3. UpdateActive(<<Leg(Pending, a)>>) /\ ClearPending  BY <1>3 DEF PromotePending
  <2>4. Rewritten /\ active' = active  BY <2>2, <2>3, UpdateActiveWrites
  <2> QED  BY <2>3, <2>4, PendingKept DEF EditorOK
<1>4. CASE AppendAirport(a)
  <2> DEFINE end  == Last(Group).to
             legs == IF end = a THEN Group ELSE Append(Group, Leg(end, a))
  <2>1. Group # <<>> /\ UpdateActive(legs) /\ pend' = pend  BY <1>4 DEF AppendAirport
  <2>2. end \in Airports  BY <1>1, <2>1, LastEnd
  <2>3. Append(Group, Leg(end, a)) \in Seq(Legs) /\ Joined(Append(Group, Leg(end, a)))
    BY <1>1, <2>2, LegType, AppendJoins
  <2>4. legs \in Seq(Legs) /\ Joined(legs)  BY <1>1, <2>3
  <2> HIDE DEF legs
  <2>5. Rewritten /\ active' = active  BY <2>1, <2>4, UpdateActiveWrites
  <2> QED  BY <2>1, <2>5 DEF EditorOK
<1> QED  BY <1>2, <1>3, <1>4 DEF AddAirport

LEMMA AddPairKeeps ==
  ASSUME RoutingOK, EditorOK, NEW a \in Airports, NEW b \in Airports, AddPair(a, b)
  PROVE  EditorOK' /\ Rewritten
<1>1. Group \in Seq(Legs) /\ Joined(Group)  BY EditorFacts
<1>2. /\ ChainEnd \in {None, a}
      /\ UpdateActive(Append(Group, Leg(a, b)))
      /\ ClearPending \/ pend' = pend
  BY DEF AddPair, Attaches
<1>3. Group # <<>> => Last(Group).to = a
  <2> SUFFICES ASSUME Group # <<>>
               PROVE  Last(Group).to = a
    OBVIOUS
  <2>1. Last(Group).to \in Airports /\ Last(Group).to \in {None, a}
    BY <1>1, <1>2, LastEnd DEF ChainEnd
  <2> QED  BY <2>1, PlannerAssumption
<1>4. Append(Group, Leg(a, b)) \in Seq(Legs) /\ Joined(Append(Group, Leg(a, b)))
  BY <1>1, <1>3, LegType, AppendJoins
<1>5. Rewritten /\ active' = active  BY <1>2, <1>4, UpdateActiveWrites
<1> QED  BY <1>2, <1>5, PendingKept DEF EditorOK

LEMMA RemoveAirportKeeps ==
  ASSUME RoutingOK, EditorOK, RemoveAirport
  PROVE  EditorOK' /\ (Untouched \/ Rewritten)
<1>1. Group \in Seq(Legs) /\ Joined(Group) /\ Len(Group) \in Nat
  <2>1. Group \in Seq(Legs) /\ Joined(Group)  BY EditorFacts
  <2> QED  BY <2>1, LenProperties
<1>2. CASE RemovePending
  <2>1. ClearPending /\ Untouched /\ active' = active  BY <1>2 DEF RemovePending, Untouched
  <2> QED  BY <2>1, PendingKept DEF EditorOK
<1>3. ASSUME NEW i \in DOMAIN Chain(Group), RemoveOfTwo(i)
      PROVE  EditorOK' /\ Rewritten
  <2>1. Len(Group) = 1 /\ SetPending(Chain(Group)[3 - i]) /\ UpdateActive(<<>>)
    BY <1>3 DEF RemoveOfTwo
  <2>2. Group # <<>>  BY <2>1, EmptySeq
  <2>3. Chain(Group) \in Seq(Airports) /\ Len(Chain(Group)) = 2
    <3>1. Chain(Group) \in Seq(Airports) /\ Len(Chain(Group)) = Len(Group) + 1
      BY <1>1, <2>2, ChainOfRoute
    <3> QED  BY <2>1, <3>1
  <2>4. 3 - i \in 1..2  BY <2>3
  <2>5. Chain(Group)[3 - i] \in Airports  BY <2>3, <2>4, ElementOfSeq
  <2>6. Rewritten /\ active' = active  BY <2>1, NoLegs, UpdateActiveWrites
  <2> QED  BY <2>1, <2>5, <2>6, PendingKept DEF EditorOK
<1>4. ASSUME NEW i \in DOMAIN Chain(Group), RemoveOfMany(i)
      PROVE  EditorOK' /\ Rewritten
  <2> DEFINE all   == [j \in 1..Len(Group) + 1 |-> j]
             order == RemoveAt(all, i)
             S     == 1..Len(Group) + 1
  <2>1. Len(Group) > 1 /\ UpdateActive(Reindex(Group, order)) /\ pend' = pend
    BY <1>4 DEF RemoveOfMany
  <2>2. Group # <<>>  BY <2>1, EmptySeq
  <2>3. i \in 1..Len(Group) + 1  BY <1>1, <2>2, ChainOfRoute, LenProperties
  <2>4. all \in Seq(S) /\ Len(all) = Len(Group) + 1
    <3>1. Len(Group) + 1 \in Nat /\ all \in [1..Len(Group) + 1 -> S]  BY <1>1
    <3> HIDE DEF all, S
    <3> QED  BY <3>1, FunctionIsSeq
  <2> HIDE DEF all
  <2>5. order \in Seq(S) /\ Len(order) = Len(all) - 1
    <3> HIDE DEF S
    <3>1. i \in 1..Len(all)  BY <2>3, <2>4
    <3> QED  BY <2>4, <3>1, RemoveAtProperties
  <2>6. Len(order) >= 2  BY <1>1, <2>1, <2>4, <2>5
  <2> HIDE DEF order
  <2>7. Reindex(Group, order) \in Seq(Legs) /\ Joined(Reindex(Group, order))
    BY <1>1, <2>2, <2>5, <2>6, ReindexFollows
  <2>8. Rewritten /\ active' = active  BY <2>1, <2>7, UpdateActiveWrites DEF order, all
  <2> QED  BY <2>1, <2>8 DEF EditorOK
<1> QED  BY <1>2, <1>3, <1>4 DEF RemoveAirport

\* A drag of the shown chain, whatever airports occur in it more than once.
LEMMA ReorderMoves ==
  ASSUME RoutingOK, EditorOK, Reorder
  PROVE  /\ EditorOK' /\ Rewritten
         /\ \E i, j \in DOMAIN Chain(Group) :
              Chain(Group)' = InsertAt(RemoveAt(Chain(Group), i), j, Chain(Group)[i])
<1> DEFINE c == Chain(Group)
<1>1. /\ Group \in Seq(Legs) /\ Joined(Group)
      /\ groups \in Seq(Seq(Legs)) /\ Len(groups) \in 1..MaxGroups /\ Current \in 1..Len(groups)
  BY EditorFacts
<1>2. PICK i \in DOMAIN c, j \in DOMAIN c :
        /\ Group # <<>> /\ pend' = pend
        /\ UpdateActive(Reindex(Group, Positions(c, i, j)))
  BY DEF Reorder, Positions
<1>3. c \in Seq(Airports) /\ Len(c) = Len(Group) + 1 /\ DOMAIN c = 1..Len(c) /\ Len(c) >= 2
  <2>1. c \in Seq(Airports) /\ Len(c) = Len(Group) + 1  BY <1>1, <1>2, ChainOfRoute
  <2>2. Len(Group) \in Nat \ {0}  BY <1>1, <1>2, EmptySeq
  <2> QED  BY <2>1, <2>2, LenProperties
<1> DEFINE order == Positions(c, i, j)
           moved == Moved(c, i, j)
           legs  == Reindex(Group, order)
<1> HIDE DEF c
<1>4. /\ order \in Seq(1..Len(c)) /\ Len(order) = Len(c)
      /\ moved \in Seq(Airports) /\ Len(moved) = Len(c)
      /\ \A n \in 1..Len(c) : moved[n] = c[order[n]]
  <2>1. i \in 1..Len(c) /\ j \in 1..Len(c)  BY <1>3
  <2> QED  BY <1>3, <2>1, MoveCarries
<1>5. UpdateActive(legs)  BY <1>2
<1> HIDE DEF order, moved
<1>6. /\ legs \in Seq(Legs) /\ legs # <<>> /\ Joined(legs) /\ Len(legs) = Len(order) - 1
      /\ \A n \in 1..Len(order) : Chain(legs)[n] = c[order[n]]
  <2>1. order \in Seq(1..Len(Group) + 1) /\ Len(order) >= 2  BY <1>3, <1>4
  <2> QED  BY <1>1, <1>2, <2>1, ReindexFollows DEF c
<1> HIDE DEF legs
<1>7. /\ Rewritten /\ active' = active
      /\ groups' = [groups EXCEPT ![Current] = legs]
  BY <1>5, <1>6, UpdateActiveWrites
<1>8. Group' = legs
  <2>1. Len(groups') = Len(groups) /\ groups'[Current] = legs  BY <1>1, <1>7, ExceptSeq
  <2>2. Current' = Current  BY <1>7, <2>1 DEF Current
  <2> QED  BY <2>1, <2>2 DEF Group
<1>9. Chain(legs) = moved
  <2>1. Chain(legs) \in Seq(Airports) /\ Len(Chain(legs)) = Len(legs) + 1
    BY <1>6, ChainOfRoute
  <2>2. Len(Chain(legs)) = Len(moved)  BY <1>3, <1>4, <1>6, <2>1
  <2>3. \A n \in 1..Len(moved) : Chain(legs)[n] = moved[n]  BY <1>4, <1>6
  <2> QED  BY <1>4, <2>1, <2>2, <2>3, SeqEqual
<1>10. Chain(Group)' = moved
  <2>1. Chain(Group)' = Chain(Group')  OBVIOUS
  <2> QED  BY <1>8, <1>9, <2>1
<1>11. EditorOK'  BY <1>2, <1>7 DEF EditorOK
<1> QED  BY <1>2, <1>7, <1>10, <1>11 DEF c, moved, Moved

LEMMA ClearAllKeeps ==
  ASSUME RoutingOK, EditorOK, ClearAll
  PROVE  EditorOK' /\ Rewritten
<1>1. << <<>> >> \in Trips  BY NoLegs, OneGroup
<1>2. Rewritten  BY <1>1 DEF ClearAll, Rewritten, RoutingOK
<1>3. active' = 1 /\ pend' = <<>>  BY DEF ClearAll
<1> QED  BY <1>2, <1>3, BoundsPositive DEF EditorOK

LEMMA AddGroupKeeps ==
  ASSUME RoutingOK, EditorOK, AddGroup
  PROVE  EditorOK' /\ Rewritten
<1> DEFINE gs == Append(groups, <<>>)
<1>1. /\ groups \in Seq(Seq(Legs)) /\ Len(groups) \in 1..MaxGroups
      /\ \A i \in DOMAIN groups : Joined(groups[i])
  BY EditorFacts, TripFacts DEF RoutingOK
<1>2. /\ Len(groups) < MaxGroups /\ SetRouting(gs, product)
      /\ active' = Len(groups) + 1 /\ pend' = pend
  BY DEF AddGroup
<1>3. /\ gs \in Seq(Seq(Legs)) /\ gs # <<>> /\ Len(gs) = Len(groups) + 1
      /\ \A i \in 1..Len(groups) : gs[i] = groups[i]
      /\ gs[Len(groups) + 1] = <<>>
  BY <1>1, NoLegs, AppendProperties
<1> HIDE DEF gs
<1>4. ASSUME NEW i \in DOMAIN gs
      PROVE  Joined(gs[i])
  <2>1. i \in 1..Len(groups) \/ i = Len(groups) + 1  BY <1>1, <1>3
  <2>2. CASE i \in 1..Len(groups)
    <3>1. gs[i] = groups[i] /\ i \in DOMAIN groups  BY <1>1, <1>3, <2>2
    <3>2. Joined(groups[i])  BY <1>1, <3>1
    <3> QED  BY <3>1, <3>2
  <2>3. CASE i = Len(groups) + 1
    <3>1. gs[i] = <<>>  BY <1>3, <2>3
    <3> QED  BY <3>1, NoLegs
  <2> QED  BY <2>1, <2>2, <2>3
<1>5. gs \in Trips  BY <1>1, <1>2, <1>3, <1>4, BoundsPositive DEF Trips
<1>6. active' \in 1..MaxGroups  BY <1>1, <1>2, BoundsPositive
<1> QED  BY <1>2, <1>5, <1>6 DEF Rewritten, RoutingOK, EditorOK

LEMMA RemoveGroupKeeps ==
  ASSUME RoutingOK, EditorOK, NEW i \in DOMAIN groups, RemoveGroup(i)
  PROVE  EditorOK' /\ Rewritten
<1> DEFINE gs   == RemoveAt(groups, i)
           kept == {k \in DOMAIN pend : k < i} \cup {k - 1 : k \in {n \in DOMAIN pend : n > i}}
<1>1. /\ groups \in Seq(Seq(Legs)) /\ Len(groups) \in 1..MaxGroups /\ i \in 1..Len(groups)
      /\ Current \in 1..Len(groups)
      /\ \A n \in DOMAIN groups : Joined(groups[n])
  BY EditorFacts, TripFacts DEF RoutingOK
<1>2. /\ Len(groups) > 1 /\ SetRouting(gs, product)
      /\ active' = IF Current <= Len(groups) - 1 THEN Current ELSE Len(groups) - 1
      /\ pend' = [k \in kept |-> IF k < i THEN pend[k] ELSE pend[k + 1]]
  BY DEF RemoveGroup, Rekeyed
<1>3. /\ gs \in Seq(Seq(Legs)) /\ Len(gs) = Len(groups) - 1
      /\ \A n \in 1..Len(groups) - 1 : gs[n] = IF n < i THEN groups[n] ELSE groups[n + 1]
  BY <1>1, RemoveAtProperties
<1> HIDE DEF gs
<1>4. ASSUME NEW n \in DOMAIN gs
      PROVE  Joined(gs[n])
  <2>1. n \in 1..Len(gs)  BY <1>3, LenProperties
  <2>2. n \in 1..Len(groups) - 1 /\ n \in DOMAIN groups /\ n + 1 \in DOMAIN groups
    <3>1. DOMAIN groups = 1..Len(groups) /\ Len(groups) \in Nat  BY <1>1, LenProperties
    <3>2. n \in 1..Len(groups) - 1  BY <1>3, <2>1
    <3> QED  BY <3>1, <3>2
  <2>3. Joined(groups[n]) /\ Joined(groups[n + 1])  BY <1>1, <2>2
  <2>4. gs[n] = groups[n] \/ gs[n] = groups[n + 1]  BY <1>3, <2>2
  <2> QED  BY <2>3, <2>4
<1>5. gs # <<>>  BY <1>1, <1>2, <1>3, EmptySeq
<1>6. gs \in Trips  BY <1>1, <1>3, <1>4, <1>5, BoundsPositive DEF Trips
<1>7. active' \in 1..MaxGroups  BY <1>1, <1>2, BoundsPositive
<1>8. ASSUME NEW k \in kept
      PROVE  k \in 1..MaxGroups /\ (IF k < i THEN pend[k] ELSE pend[k + 1]) \in Airports
  <2>1. DOMAIN pend \subseteq 1..MaxGroups /\ \A n \in DOMAIN pend : pend[n] \in Airports
    BY DEF EditorOK
  <2>2. CASE k \in DOMAIN pend /\ k < i  BY <2>1, <2>2
  <2>3. CASE \E n \in DOMAIN pend : n > i /\ k = n - 1
    <3>1. PICK n \in DOMAIN pend : n > i /\ k = n - 1  BY <2>3
    <3>2. n \in 1..MaxGroups /\ i \in 1..Len(groups) /\ k + 1 = n /\ ~(k < i)
      BY <1>1, <2>1, <3>1
    <3> QED  BY <1>1, <2>1, <3>1, <3>2, BoundsPositive
  <2> QED  BY <2>2, <2>3
<1> HIDE DEF kept
<1>9. DOMAIN pend' \subseteq 1..MaxGroups /\ \A k \in DOMAIN pend' : pend'[k] \in Airports
  BY <1>2, <1>8
<1> QED  BY <1>2, <1>6, <1>7, <1>9 DEF Rewritten, RoutingOK, EditorOK

LEMMA EditKeeps ==
  ASSUME RoutingOK, EditorOK, Edit
  PROVE  EditorOK' /\ (Untouched \/ Rewritten)
<1>1. ASSUME NEW a \in Airports, AddAirport(a)
      PROVE  EditorOK' /\ (Untouched \/ Rewritten)
  BY <1>1, AddAirportKeeps
<1>2. ASSUME NEW a \in Airports, NEW b \in Airports, AddPair(a, b)
      PROVE  EditorOK' /\ Rewritten
  BY <1>2, AddPairKeeps
<1>3. ASSUME NEW a \in Airports, NEW b \in Airports, PlanRoute(a, b)
      PROVE  EditorOK' /\ Rewritten
  <2>1. << <<Leg(a, b)>> >> \in Trips  BY LegType, OneLegJoined, OneGroup
  <2>2. active' = 1 /\ pend' = <<>>  BY <1>3 DEF PlanRoute
  <2>3. Rewritten  BY <1>3, <2>1 DEF PlanRoute, Rewritten, RoutingOK
  <2> QED  BY <2>2, <2>3, BoundsPositive DEF EditorOK
<1>4. ASSUME NEW i \in DOMAIN groups, Activate(i)
      PROVE  EditorOK' /\ Untouched
  <2>1. i \in 1..MaxGroups  BY EditorFacts, BoundsPositive
  <2> QED  BY <1>4, <2>1 DEF Activate, Untouched, EditorOK
<1>5. ASSUME NEW p \in Products, ChooseProduct(p)
      PROVE  EditorOK' /\ Rewritten
  BY <1>5 DEF ChooseProduct, Rewritten, RoutingOK, EditorOK, ProductChoices
<1>6. ASSUME NEW h \in Links, Load(h)
      PROVE  EditorOK' /\ Rewritten
  <2>1. h.groups \in Trips /\ h.product \in ProductChoices  BY LinksAreWritten, WrittenFacts
  <2>2. active' = 1 /\ pend' = <<>>  BY <1>6 DEF Load
  <2>3. Rewritten  BY <1>6, <2>1 DEF Load, Rewritten, RoutingOK
  <2> QED  BY <2>2, <2>3, BoundsPositive DEF EditorOK
<1>7. CASE RemoveAirport  BY <1>7, RemoveAirportKeeps
<1>8. CASE Reorder  BY <1>8, ReorderMoves
<1>9. CASE ClearAll  BY <1>9, ClearAllKeeps
<1>10. CASE AddGroup  BY <1>10, AddGroupKeeps
<1>11. ASSUME NEW i \in DOMAIN groups, RemoveGroup(i)
       PROVE  EditorOK' /\ Rewritten
  BY <1>11, RemoveGroupKeeps
<1> QED
  BY <1>1, <1>2, <1>3, <1>4, <1>5, <1>6, <1>7, <1>8, <1>9, <1>10, <1>11 DEF Edit

-----------------------------------------------------------------------------
(***************************************************************************)
(* The echo: while the flag is up one is on its way, and while the         *)
(* itinerary is not the one of the address bar a navigation is on its way, *)
(* after an echo if the flag is up.                                        *)
(***************************************************************************)
EchoInv ==
  /\ ignore => \E j \in DOMAIN events : events[j] = "own"
  /\ ~Synced => \E i \in DOMAIN events :
       /\ events[i] = "nav"
       /\ ignore => \E j \in DOMAIN events : j < i /\ events[j] = "own"

IInv == TypeInv /\ EchoInv

LEMMA InitKeeps == Init => IInv
<1> SUFFICES ASSUME Init
             PROVE  IInv
  OBVIOUS
<1>1. PICK h \in Links \cup {Blank, Malformed} :
        /\ entries = <<h>>
        /\ groups = ParsedGroups(h) /\ product = ParsedProduct(h)
        /\ error = (h.kind = "malformed")
  BY DEF Init
<1>2. pos = 1 /\ events = <<>> /\ ignore = FALSE /\ active = 1 /\ pend = <<>>  BY DEF Init
<1>3. h \in Hashes  BY LinksAreWritten DEF Hashes
<1>4. RoutingOK  BY <1>1, <1>2, <1>3, ParsedHash DEF RoutingOK
<1>5. HistoryOK
  <2>1. entries \in Seq(Hashes) /\ Len(entries) = 1 /\ pos \in DOMAIN entries
    BY <1>1, <1>2, <1>3
  <2>2. events \in Seq({"own", "nav"}) /\ Len(events) = 0  BY <1>2, EmptySeq
  <2> QED  BY <2>1, <2>2, BoundsPositive DEF HistoryOK
<1>6. EditorOK  BY <1>2, BoundsPositive DEF EditorOK
<1>7. Synced
  <2>1. Hash = h  BY <1>1, <1>2 DEF Hash
  <2> QED  BY <1>1, <1>3, <2>1, ParsedHash DEF Synced
<1> QED  BY <1>2, <1>4, <1>5, <1>6, <1>7 DEF IInv, TypeInv, EchoInv

LEMMA TailEvents ==
  ASSUME HistoryOK, events # <<>>
  PROVE  /\ Tail(events) \in Seq({"own", "nav"}) /\ Len(Tail(events)) <= MaxEvents
         /\ DOMAIN Tail(events) = 1..Len(events) - 1
         /\ \A i \in 1..Len(events) - 1 : Tail(events)[i] = events[i + 1]
<1>1. events \in Seq({"own", "nav"}) /\ Len(events) <= MaxEvents  BY DEF HistoryOK
<1>2. /\ Tail(events) \in Seq({"own", "nav"}) /\ Len(Tail(events)) = Len(events) - 1
      /\ \A i \in 1..Len(Tail(events)) : Tail(events)[i] = events[i + 1]
  BY <1>1, HeadTailProperties
<1> QED  BY <1>1, <1>2, BoundsPositive

\* The events as they are followed by a navigation.
LEMMA NavigationQueued ==
  ASSUME HistoryOK, EchoInv, events' = Append(events, "nav"), ignore' = ignore
  PROVE  EchoInv'
<1>1. events \in Seq({"own", "nav"}) /\ Len(events) \in Nat  BY DEF HistoryOK
<1>2. /\ events' \in Seq({"own", "nav"}) /\ Len(events') = Len(events) + 1
      /\ events'[Len(events) + 1] = "nav"
      /\ \A i \in 1..Len(events) : events'[i] = events[i]
  BY <1>1, AppendProperties
<1>3. ASSUME ignore'
      PROVE  \E j \in DOMAIN events' : j < Len(events) + 1 /\ events'[j] = "own"
  <2>1. PICK j \in DOMAIN events : events[j] = "own"  BY <1>3 DEF EchoInv
  <2>2. j \in 1..Len(events) /\ j \in DOMAIN events'  BY <1>1, <1>2, <2>1
  <2> QED  BY <1>1, <1>2, <2>1, <2>2
<1>4. Len(events) + 1 \in DOMAIN events'  BY <1>1, <1>2
<1> QED  BY <1>2, <1>3, <1>4 DEF EchoInv

LEMMA RewrittenKeeps ==
  ASSUME TypeInv, EchoInv, Rewritten
  PROVE  RoutingOK' /\ HistoryOK' /\ EchoInv'
<1>1. PICK gs \in Trips, p \in ProductChoices : SetRouting(gs, p)  BY DEF Rewritten
<1>2. /\ RoutingOK' /\ HistoryOK' /\ Synced'
      /\ \/ UNCHANGED <<ignore, events>>
         \/ ~ignore' /\ UNCHANGED events
         \/ ignore' /\ events' = Append(events, "own")
  BY <1>1, SetRoutingKeeps DEF TypeInv
<1>3. CASE UNCHANGED <<ignore, events>>  BY <1>2, <1>3 DEF EchoInv
<1>4. CASE ~ignore'  BY <1>2, <1>4 DEF EchoInv
<1>5. CASE ignore' /\ events' = Append(events, "own")
  <2>1. events \in Seq({"own", "nav"}) /\ Len(events) \in Nat  BY DEF TypeInv, HistoryOK
  <2>2. /\ events' \in Seq({"own", "nav"}) /\ Len(events') = Len(events) + 1
        /\ events'[Len(events) + 1] = "own"
    BY <1>5, <2>1, AppendProperties
  <2>3. Len(events) + 1 \in DOMAIN events'  BY <2>1, <2>2
  <2> QED  BY <1>2, <2>2, <2>3 DEF EchoInv
<1> QED  BY <1>2, <1>3, <1>4, <1>5

LEMMA HashChangeKeeps ==
  ASSUME TypeInv, EchoInv, HashChange
  PROVE  TypeInv' /\ EchoInv'
<1>1. /\ events # <<>> /\ events' = Tail(events)
      /\ UNCHANGED <<entries, pos, active, pend>>
  BY DEF HashChange
<1>2. HistoryOK' /\ EditorOK'  BY <1>1, TailEvents DEF TypeInv, HistoryOK, EditorOK
<1>3. CASE ignore /\ ignore' = FALSE /\ UNCHANGED <<groups, product, error>>
  <2>1. RoutingOK'  BY <1>3 DEF TypeInv, RoutingOK
  <2>2. ASSUME ~Synced'
        PROVE  \E i \in DOMAIN events' : events'[i] = "nav"
    <3>1. ~Synced  BY <1>1, <1>3, <2>2 DEF Synced, Hash
    <3>2. PICK i \in DOMAIN events, j \in DOMAIN events : events[i] = "nav" /\ j < i
      BY <1>3, <3>1 DEF EchoInv
    <3>3. DOMAIN events = 1..Len(events) /\ Len(events) \in Nat
      BY LenProperties DEF TypeInv, HistoryOK
    <3>4. i - 1 \in 1..Len(events) - 1 /\ (i - 1) + 1 = i  BY <3>2, <3>3
    <3>5. i - 1 \in DOMAIN events' /\ events'[i - 1] = events[i]
      BY <1>1, <3>4, TailEvents DEF TypeInv
    <3> QED  BY <3>2, <3>5
  <2> QED  BY <1>2, <1>3, <2>1, <2>2 DEF TypeInv, EchoInv
<1>4. CASE ~ignore /\ FromHash(Hash) /\ ignore' = ignore
  <2>1. /\ Synced' /\ groups' \in Trips /\ product' \in ProductChoices /\ error' \in BOOLEAN
    BY <1>1, <1>4, FromHashSyncs DEF TypeInv
  <2>2. RoutingOK'  BY <1>4, <2>1 DEF TypeInv, RoutingOK
  <2> QED  BY <1>2, <1>4, <2>1, <2>2 DEF TypeInv, EchoInv
<1> QED  BY <1>3, <1>4 DEF HashChange

LEMMA TraverseKeeps ==
  ASSUME TypeInv, EchoInv, Traverse
  PROVE  TypeInv' /\ EchoInv'
<1>1. PICK to \in {pos - 1, pos + 1} \cap DOMAIN entries :
        /\ pos' = to
        /\ \/ entries[to] = Hash /\ UNCHANGED events
           \/ /\ entries[to] # Hash
              /\ Len(events) < MaxEvents
              /\ events' = Append(events, "nav")
  BY DEF Traverse
<1>2. UNCHANGED <<groups, product, error, ignore, entries, active, pend>>
  BY DEF Traverse, routing
<1>3. RoutingOK' /\ EditorOK'  BY <1>2 DEF TypeInv, RoutingOK, EditorOK
<1>4. entries' \in Seq(Hashes) /\ pos' \in DOMAIN entries' /\ Len(entries') <= MaxHistory
  BY <1>1, <1>2 DEF TypeInv, HistoryOK
<1>5. CASE entries[to] = Hash /\ UNCHANGED events
  <2>1. HistoryOK'  BY <1>4, <1>5 DEF TypeInv, HistoryOK
  <2>2. Hash' = Hash  BY <1>1, <1>2, <1>5 DEF Hash
  <2>3. Synced' <=> Synced  BY <1>2, <2>2 DEF Synced
  <2> QED  BY <1>2, <1>3, <1>5, <2>1, <2>3 DEF TypeInv, EchoInv
<1>6. CASE Len(events) < MaxEvents /\ events' = Append(events, "nav")
  <2>1. events \in Seq({"own", "nav"})  BY DEF TypeInv, HistoryOK
  <2>2. events' \in Seq({"own", "nav"}) /\ Len(events') = Len(events) + 1
    BY <1>6, <2>1, AppendProperties
  <2>3. Len(events') <= MaxEvents  BY <1>6, <2>1, <2>2, BoundsPositive
  <2>4. HistoryOK'  BY <1>4, <2>2, <2>3 DEF HistoryOK
  <2>5. EchoInv'  BY <1>2, <1>6, NavigationQueued DEF TypeInv
  <2> QED  BY <1>3, <2>4, <2>5 DEF TypeInv
<1> QED  BY <1>1, <1>5, <1>6

LEMMA PasteKeeps ==
  ASSUME TypeInv, EchoInv, Paste
  PROVE  TypeInv' /\ EchoInv'
<1>1. PICK h \in Links \cup {Malformed} : Push(h, "nav")  BY DEF Paste
<1>2. UNCHANGED <<groups, product, error, ignore, active, pend>>  BY DEF Paste, routing
<1>3. h \in Hashes  BY LinksAreWritten DEF Hashes
<1>4. HistoryOK' /\ events' = Append(events, "nav")  BY <1>1, <1>3, PushKeeps DEF TypeInv
<1>5. EchoInv'  BY <1>2, <1>4, NavigationQueued DEF TypeInv
<1> QED  BY <1>2, <1>4, <1>5 DEF TypeInv, RoutingOK, EditorOK

LEMMA ReloadKeeps ==
  ASSUME TypeInv, EchoInv, Reload
  PROVE  TypeInv' /\ EchoInv'
<1>1. /\ FromHash(Hash) /\ UNCHANGED <<entries, pos>>
      /\ events' = <<>> /\ ignore' = FALSE /\ active' = 1 /\ pend' = <<>>
  BY DEF Reload
<1>2. /\ Synced' /\ groups' \in Trips /\ product' \in ProductChoices /\ error' \in BOOLEAN
  BY <1>1, FromHashSyncs DEF TypeInv
<1>3. HistoryOK'
  <2>1. events' \in Seq({"own", "nav"}) /\ Len(events') = 0  BY <1>1, EmptySeq
  <2> QED  BY <1>1, <2>1, BoundsPositive DEF TypeInv, HistoryOK
<1>4. RoutingOK'  BY <1>1, <1>2 DEF RoutingOK
<1>5. EditorOK'  BY <1>1, BoundsPositive DEF EditorOK
<1> QED  BY <1>1, <1>2, <1>3, <1>4, <1>5 DEF TypeInv, EchoInv

LEMMA StepKeeps ==
  ASSUME IInv, [Next]_vars
  PROVE  IInv'
<1> USE DEF IInv
<1>1. CASE Edit
  <2>1. EditorOK' /\ (Untouched \/ Rewritten)  BY <1>1, EditKeeps DEF TypeInv
  <2>2. CASE Untouched
    <3>1. UNCHANGED <<groups, product, error, ignore, entries, pos, events>>
      BY <2>2 DEF Untouched, routing, history
    <3> QED  BY <2>1, <3>1 DEF TypeInv, RoutingOK, HistoryOK, EchoInv, Synced, Hash
  <2>3. CASE Rewritten
    BY <2>1, <2>3, RewrittenKeeps DEF TypeInv
  <2> QED  BY <2>1, <2>2, <2>3
<1>2. CASE HashChange  BY <1>2, HashChangeKeeps
<1>3. CASE Traverse  BY <1>3, TraverseKeeps
<1>4. CASE Paste  BY <1>4, PasteKeeps
<1>5. CASE Reload  BY <1>5, ReloadKeeps
<1>6. CASE UNCHANGED vars
  <2>1. UNCHANGED <<groups, product, error, ignore, entries, pos, events, active, pend>>
    BY <1>6 DEF vars, routing, history
  <2> QED
    BY <2>1 DEF TypeInv, RoutingOK, HistoryOK, EditorOK, EchoInv, Synced, Hash
<1> QED  BY <1>1, <1>2, <1>3, <1>4, <1>5, <1>6 DEF Next

\* The inductive invariant: the types and the order of the events.
THEOREM Invariant == Spec => []IInv
<1>1. IInv /\ [Next]_vars => IInv'  BY StepKeeps
<1> QED  BY InitKeeps, <1>1, PTL DEF Spec

-----------------------------------------------------------------------------
(***************************************************************************)
(* What follows.                                                           *)
(***************************************************************************)

\* The values of every variable, for any airports, links and bounds: the active
\* tab and the airports kept for empty groups stay indexes of the editor, and the
\* current entry one of the session history.
THEOREM TypesHold == Spec => []TypeOK
<1>1. IInv => TypeOK
  <2> SUFFICES ASSUME IInv
               PROVE  TypeOK
    OBVIOUS
  <2>1. groups \in Seq(Seq(Legs)) /\ groups # <<>>
    BY DEF IInv, TypeInv, RoutingOK, Trips
  <2> QED
    BY <2>1 DEF IInv, TypeInv, RoutingOK, HistoryOK, EditorOK, TypeOK, ProductChoices
<1> QED  BY <1>1, Invariant, PTL

\* Every group is a connected route, whatever is appended, attached, dragged or
\* taken out of it, loaded, pasted or followed back in the history.
THEOREM RoutesStayConnected == Spec => []Connected
<1>1. IInv => Connected  BY DEF IInv, TypeInv, RoutingOK, Trips, Connected
<1> QED  BY <1>1, Invariant, PTL

\* Once the browser has dispatched its events the address bar tells the itinerary
\* that is shown and the flag is down (use-routing-state.ts: one flag for the
\* echoes of any number of edits between any number of navigations).
THEOREM AddressBarTells == Spec => []UrlTellsRouting
<1>1. IInv => UrlTellsRouting
  <2> SUFFICES ASSUME IInv, events = <<>>
               PROVE  ~ignore /\ Synced
    BY DEF UrlTellsRouting, Synced
  <2>1. DOMAIN events = {}  OBVIOUS
  <2> QED  BY <2>1 DEF IInv, EchoInv
<1> QED  BY <1>1, Invariant, PTL

\* An event that only edits can have caused takes nothing back that the address bar
\* can tell, although the handler parses the hash again when the flag is down.
THEOREM EchoTakesNothingBack == Spec => EchoHarmless
<1> DEFINE Harmless ==
      events # <<>> /\ events' = Tail(events) /\ ~Contains(events, "nav") =>
        \/ Encode(groups, product)' = Encode(groups, product)
        \/ ~HasLegs(groups) /\ ~HasLegs(groups')
<1>1. IInv /\ [Next]_vars => [Harmless]_vars
  <2> SUFFICES ASSUME IInv, Next, events # <<>>, events' = Tail(events),
                      ~Contains(events, "nav")
               PROVE  \/ Encode(groups', product') = Encode(groups, product)
                      \/ ~HasLegs(groups) /\ ~HasLegs(groups')
    OBVIOUS
  <2>1. /\ events \in Seq({"own", "nav"}) /\ Len(events) \in Nat
        /\ DOMAIN events = 1..Len(events)
        /\ Len(events') = Len(events) - 1
    BY HeadTailProperties, LenProperties DEF IInv, TypeInv, HistoryOK
  <2>2. Synced
    <3>1. \A i \in DOMAIN events : events[i] # "nav"  BY <2>1 DEF Contains
    <3> QED  BY <3>1 DEF IInv, EchoInv
  <2>3. ~(events' = events) /\ \A e \in {"own", "nav"} : ~(events' = Append(events, e))
    <3> DEFINE l == Len(events)
    <3>1. l \in Nat /\ Len(events') = l - 1  BY <2>1
    <3>2. \A e \in {"own", "nav"} : Len(Append(events, e)) = l + 1
      BY <2>1, AppendProperties
    <3> HIDE DEF l
    <3>3. l - 1 # l /\ l - 1 # l + 1  BY <3>1
    <3>4. ~(events' = events)  BY <3>1, <3>3 DEF l
    <3>5. ASSUME NEW e \in {"own", "nav"}, events' = Append(events, e)
          PROVE  FALSE
      BY <3>1, <3>2, <3>3, <3>5
    <3> QED  BY <3>4, <3>5
  <2>4. ASSUME FromHash(Hash), UNCHANGED <<entries, pos>>
        PROVE  \/ Encode(groups', product') = Encode(groups, product)
               \/ ~HasLegs(groups) /\ ~HasLegs(groups')
    <3>1. Synced' /\ Hash' = Hash  BY <2>4, FromHashSyncs DEF IInv, TypeInv, Hash
    <3> QED  BY <2>2, <3>1 DEF Synced
  <2>5. CASE HashChange  BY <2>4, <2>5 DEF HashChange
  <2>6. CASE Reload  BY <2>4, <2>6 DEF Reload
  <2>7. CASE Traverse  BY <2>3, <2>7 DEF Traverse
  <2>8. CASE Paste  BY <2>3, <2>8 DEF Paste, Push
  <2>9. CASE Edit
    <3>1. Untouched \/ Rewritten  BY <2>9, EditKeeps DEF IInv, TypeInv
    <3>2. ~Untouched  BY <2>3 DEF Untouched, history
    <3>3. PICK gs \in Trips, p \in ProductChoices : SetRouting(gs, p)
      BY <3>1, <3>2 DEF Rewritten
    <3>4. UNCHANGED events \/ events' = Append(events, "own")
      BY <3>3, SetRoutingKeeps DEF IInv, TypeInv
    <3> QED  BY <2>3, <3>4
  <2> QED  BY <2>5, <2>6, <2>7, <2>8, <2>9 DEF Next
<1>2. Spec => [][Harmless]_vars  BY <1>1, Invariant, PTL DEF Spec
<1> QED  BY <1>2 DEF EchoHarmless

\* A drag moves one airport of the chain that is shown and leaves the others in
\* their order, however often an airport occurs in the chain (App.tsx: reindexLegs
\* rebuilds the legs from the positions of the airports).
THEOREM DragsMoveOne == Spec => DragMovesOneAirport
<1> DEFINE Moves ==
      Reorder => \E i, j \in DOMAIN Chain(Group) :
        Chain(Group)' = InsertAt(RemoveAt(Chain(Group), i), j, Chain(Group)[i])
<1>1. IInv /\ [Next]_vars => [Moves]_vars
  BY ReorderMoves DEF IInv, TypeInv
<1>2. Spec => [][Moves]_vars  BY <1>1, Invariant, PTL DEF Spec
<1> QED  BY <1>2 DEF DragMovesOneAirport
=============================================================================
