------------------------------ MODULE Planner ------------------------------
(***************************************************************************)
(* The itinerary editor: the mutators of src/App.tsx, the routing state    *)
(* that mirrors itself in the URL hash (src/state/use-routing-state.ts),   *)
(* and the browser's session history between them.                         *)
(*                                                                         *)
(* Every mutator ends in setRouting, which writes the hash; the browser    *)
(* answers each change of the hash with a hashchange event LATER, and the  *)
(* handler must tell the echo of an edit, to be ignored, from Back,        *)
(* Forward or a pasted link, to be followed. One flag does that.           *)
(*                                                                         *)
(* A leg is its two airports; the RTW product stands for the settings that *)
(* the URL carries beside the legs. Airport aliases are one airport here.  *)
(***************************************************************************)
EXTENDS Integers, Sequences, FiniteSets, SequencesExt

CONSTANTS
  Airports,
  Products,     \* RTW products (None: not chosen)
  None,
  Links,        \* share links and samples that can be pasted, saved or loaded
  MaxLegs,      \* bound on the legs of a group
  MaxGroups,    \* bound on the groups
  MaxHistory,   \* entries the browser keeps in the session history
  MaxEvents     \* bound on hashchange events not dispatched yet

ASSUME PlannerAssumption ==
  /\ None \notin Airports \cup Products
  /\ {MaxLegs, MaxGroups, MaxHistory, MaxEvents} \subseteq Nat \ {0}

Leg(a, b) == [from |-> a, to |-> b]
Legs == [from : Airports, to : Airports]

Joined(legs) == \A j \in 1..Len(legs) - 1 : legs[j].to = legs[j + 1].from

\* A link has passed parseShareUrl: it has groups (no more than the bound), and each
\* of them has legs, which are written as one path of airports.
ASSUME LinksAssumption ==
  \A h \in Links :
    /\ h \in [kind : {"link"}, groups : Seq(Seq(Legs)), product : Products \cup {None}]
    /\ h.groups # <<>> /\ Len(h.groups) <= MaxGroups
    /\ \A i \in DOMAIN h.groups : h.groups[i] # <<>> /\ Joined(h.groups[i])

VARIABLES
  groups,       \* routing.groups: a sequence of sequences of legs
  product,      \* routing.rtwProductId
  error,        \* whether the last hash could not be parsed
  ignore,       \* ignoreNextHashChange
  active,       \* activeGroupIndex, from 1
  pend,         \* pendingByGroup: a function from some group indexes
  entries, pos, \* session history: hashes, and the current one
  events        \* hashchange events to come, by cause: "own" or "nav"

routing == <<groups, product, error, ignore>>
history == <<entries, pos, events>>
vars == <<routing, history, active, pend>>

-----------------------------------------------------------------------------
Blank     == [kind |-> "blank"]
Malformed == [kind |-> "malformed"]
Link(gs, p) == [kind |-> "link", groups |-> gs, product |-> p]
Hash      == entries[pos]

NonEmpty(gs) == {i \in DOMAIN gs : gs[i] # <<>>}
HasLegs(gs)  == NonEmpty(gs) # {}

\* The n-th group that has legs is the one with n of them up to it.
UpTo(gs, i) == {j \in NonEmpty(gs) : j <= i}
WithLegs(gs) ==
  [n \in 1..Cardinality(NonEmpty(gs)) |->
     gs[CHOOSE i \in NonEmpty(gs) : Cardinality(UpTo(gs, i)) = n]]

\* encodeShareUrl drops the groups without legs.
Encode(gs, p) == Link(WithLegs(gs), p)

\* getInitialFromHash
ParsedGroups(h)  == IF h.kind = "link" THEN h.groups ELSE << <<>> >>
ParsedProduct(h) == IF h.kind = "link" THEN h.product ELSE None

FromHash(h) ==
  /\ groups' = ParsedGroups(h)
  /\ product' = ParsedProduct(h)
  /\ error' = (h.kind = "malformed")

Init ==
  /\ \E h \in Links \cup {Blank, Malformed} :
       /\ entries = <<h>>
       /\ groups = ParsedGroups(h)
       /\ product = ParsedProduct(h)
       /\ error = (h.kind = "malformed")
  /\ pos = 1 /\ events = <<>>
  /\ ignore = FALSE
  /\ active = 1
  /\ pend = <<>>

-----------------------------------------------------------------------------
(***************************************************************************)
(* use-routing-state.ts                                                    *)
(***************************************************************************)

\* (Fault: the flag is left up although replaceState has no echo.)
ReplaceHashFlagged == ignore' = TRUE
ReplaceHash == ignore' = FALSE

\* (Fault: the address bar keeps the link of the legs that were cleared.)
KeepHash == UNCHANGED <<ignore, history>>
\* An itinerary without legs is not a link: the entry is replaced, silently.
ClearHash ==
  \/ /\ Hash = Blank
     /\ UNCHANGED <<ignore, history>>
  \/ /\ Hash # Blank
     /\ ReplaceHash
     /\ entries' = [entries EXCEPT ![pos] = Blank]
     /\ UNCHANGED <<pos, events>>

\* The entries ahead are cut off; a full history loses its oldest entry.
Push(h, cause) ==
  /\ Len(events) < MaxEvents
  /\ LET past == SubSeq(entries, IF pos < MaxHistory THEN 1 ELSE 2, pos)
     IN  /\ entries' = Append(past, h)
         /\ pos' = Len(past) + 1
  /\ events' = Append(events, cause)

ExpectEcho == ignore' = TRUE

WriteHash(target) ==
  \/ /\ Hash = target
     /\ UNCHANGED <<ignore, history>>
  \/ /\ Hash # target
     /\ ExpectEcho
     /\ Push(target, "own")

SetRouting(gs, p) ==
  /\ groups' = gs
  /\ product' = p
  /\ error' = FALSE
  /\ \/ ~HasLegs(gs) /\ ClearHash
     \/ HasLegs(gs) /\ WriteHash(Encode(gs, p))

\* onHashChange reads the location as it is by now.
HashChange ==
  /\ events # <<>>
  /\ events' = Tail(events)
  /\ \/ /\ ignore
        /\ ignore' = FALSE
        /\ UNCHANGED <<groups, product, error>>
     \/ /\ ~ignore
        /\ FromHash(Hash)
        /\ UNCHANGED ignore
  /\ UNCHANGED <<entries, pos, active, pend>>

\* Back and Forward: no event between entries with one and the same hash.
Traverse ==
  /\ \E to \in {pos - 1, pos + 1} \cap DOMAIN entries :
       /\ pos' = to
       /\ \/ entries[to] = Hash /\ UNCHANGED events
          \/ /\ entries[to] # Hash
             /\ Len(events) < MaxEvents
             /\ events' = Append(events, "nav")
  /\ UNCHANGED <<routing, entries, active, pend>>

\* A link, or something else, is put into the address bar.
Paste ==
  /\ \E h \in Links \cup {Malformed} : Hash # h /\ Push(h, "nav")
  /\ UNCHANGED <<routing, active, pend>>

Reload ==
  /\ FromHash(Hash)
  /\ events' = <<>> /\ ignore' = FALSE
  /\ active' = 1 /\ pend' = <<>>
  /\ UNCHANGED <<entries, pos>>

-----------------------------------------------------------------------------
(***************************************************************************)
(* The mutators of App.tsx.                                                *)
(***************************************************************************)
Current == IF active <= Len(groups) THEN active ELSE Len(groups)
Group   == groups[Current]
Pending == IF Current \in DOMAIN pend THEN pend[Current] ELSE None

SetPending(a) ==
  pend' = [i \in DOMAIN pend \cup {Current} |-> IF i = Current THEN a ELSE pend[i]]
ClearPending == pend' = [i \in DOMAIN pend \ {Current} |-> pend[i]]

UpdateActive(legs) ==
  /\ Len(legs) <= MaxLegs
  /\ SetRouting([groups EXCEPT ![Current] = legs], product)
  /\ UNCHANGED active

BufferFirst(a) ==
  /\ Group = <<>> /\ Pending = None
  /\ SetPending(a)
  /\ UNCHANGED <<routing, history, active>>

PromotePending(a) ==
  /\ Group = <<>> /\ Pending \notin {None, a}
  /\ UpdateActive(<<Leg(Pending, a)>>)
  /\ ClearPending

AppendAirport(a) ==
  /\ Group # <<>>
  /\ LET end == Last(Group).to
     IN  UpdateActive(IF end = a THEN Group ELSE Append(Group, Leg(end, a)))
  /\ UNCHANGED pend

AddAirport(a) == BufferFirst(a) \/ PromotePending(a) \/ AppendAirport(a)

Chain(legs) == IF legs = <<>> THEN <<>>
               ELSE <<legs[1].from>> \o [i \in DOMAIN legs |-> legs[i].to]

\* (Fault: a leg survives although its airports changed places.)
ReindexEitherWay(legs, order) ==
  [i \in 1..Len(order) - 1 |->
     IF order[i] \in DOMAIN legs /\ order[i+1] - order[i] \in {-1, 1} THEN legs[order[i]]
     ELSE Leg(Chain(legs)[order[i]], Chain(legs)[order[i+1]])]

\* reindexLegs: a leg survives when its two airport occurrences stay adjacent.
Reindex(legs, order) ==
  [i \in 1..Len(order) - 1 |->
     IF order[i+1] = order[i] + 1 THEN legs[order[i]]
     ELSE Leg(Chain(legs)[order[i]], Chain(legs)[order[i+1]])]

RemovePending ==
  /\ Group = <<>> /\ Pending # None
  /\ ClearPending
  /\ UNCHANGED <<routing, history, active>>

\* Of two airports one is left: it is the pending one again.
RemoveOfTwo(i) ==
  /\ Len(Group) = 1
  /\ SetPending(Chain(Group)[3 - i])
  /\ UpdateActive(<<>>)

RemoveOfMany(i) ==
  /\ Len(Group) > 1
  /\ UpdateActive(Reindex(Group, RemoveAt([j \in 1..Len(Group) + 1 |-> j], i)))
  /\ UNCHANGED pend

RemoveAirport ==
  \/ RemovePending
  \/ \E i \in DOMAIN Chain(Group) : RemoveOfTwo(i) \/ RemoveOfMany(i)

\* A drag takes one airport out and puts it in elsewhere.
Reorder ==
  /\ Group # <<>>
  /\ \E i, j \in DOMAIN Chain(Group) :
       /\ i # j
       /\ LET all == [n \in DOMAIN Chain(Group) |-> n]
          IN  UpdateActive(Reindex(Group, InsertAt(RemoveAt(all, i), j, i)))
  /\ UNCHANGED pend

ChainEnd == IF Group # <<>> THEN Last(Group).to ELSE Pending

\* (Fault: the pair is attached wherever the chain ends.)
AttachesAnywhere(a, b) == a # b
Attaches(a, b) == a # b /\ ChainEnd \in {None, a}

\* addExplorerPair and addSurfacePair
AddPair(a, b) ==
  /\ Attaches(a, b)
  /\ UpdateActive(Append(Group, Leg(a, b)))
  /\ IF Group = <<>> THEN ClearPending ELSE UNCHANGED pend

ClearAll ==
  /\ SetRouting(<< <<>> >>, product)
  /\ active' = 1 /\ pend' = <<>>

AddGroup ==
  /\ Len(groups) < MaxGroups
  /\ SetRouting(Append(groups, <<>>), product)
  /\ active' = Len(groups) + 1
  /\ UNCHANGED pend

\* (Fault: the airport of the group that goes moves down too.)
RekeyAll(i) ==
  LET kept == {k \in DOMAIN pend : k < i} \cup {k - 1 : k \in {n \in DOMAIN pend : n >= i}}
  IN  [k \in kept |-> IF k \in 1..i - 1 THEN pend[k] ELSE pend[k + 1]]

\* The buffered airports of the later groups move down with them.
Rekeyed(i) ==
  LET kept == {k \in DOMAIN pend : k < i} \cup {k - 1 : k \in {n \in DOMAIN pend : n > i}}
  IN  [k \in kept |-> IF k < i THEN pend[k] ELSE pend[k + 1]]

RemoveGroup(i) ==
  /\ Len(groups) > 1
  /\ SetRouting(RemoveAt(groups, i), product)
  /\ active' = IF Current <= Len(groups) - 1 THEN Current ELSE Len(groups) - 1
  /\ pend' = Rekeyed(i)

Activate(i) ==
  /\ active' = i
  /\ UNCHANGED <<routing, history, pend>>

\* enterPlan
ChooseProduct(p) ==
  /\ SetRouting(groups, p)
  /\ UNCHANGED <<active, pend>>

\* A flight chosen in the route catalogue; the editor was unmounted meanwhile.
PlanRoute(a, b) ==
  /\ a # b
  /\ SetRouting(<< <<Leg(a, b)>> >>, product)
  /\ active' = 1 /\ pend' = <<>>

\* loadSaved, loadExternalRouting: a link without a product keeps the present one.
Load(h) ==
  /\ SetRouting(h.groups, IF h.product = None THEN product ELSE h.product)
  /\ active' = 1 /\ pend' = <<>>

-----------------------------------------------------------------------------
Edit ==
  \/ \E a \in Airports : AddAirport(a)
  \/ \E a, b \in Airports : AddPair(a, b) \/ PlanRoute(a, b)
  \/ RemoveAirport \/ Reorder \/ ClearAll \/ AddGroup
  \/ \E i \in DOMAIN groups : RemoveGroup(i) \/ Activate(i)
  \/ \E p \in Products : ChooseProduct(p)
  \/ \E h \in Links : Load(h)

Next == Edit \/ HashChange \/ Traverse \/ Paste \/ Reload

Spec == Init /\ [][Next]_vars

-----------------------------------------------------------------------------
(***************************************************************************)
(* Properties.                                                             *)
(***************************************************************************)
\* The values every variable may take; the active tab and the airports kept for
\* empty groups are indexes of the editor.
TypeOK ==
  /\ groups # <<>> /\ \A i \in DOMAIN groups : groups[i] \in Seq(Legs)
  /\ product \in Products \cup {None}
  /\ error \in BOOLEAN /\ ignore \in BOOLEAN
  /\ active \in 1..MaxGroups
  /\ DOMAIN pend \subseteq 1..MaxGroups
  /\ \A i \in DOMAIN pend : pend[i] \in Airports
  /\ pos \in DOMAIN entries /\ Len(entries) <= MaxHistory
  /\ events \in Seq({"own", "nav"}) /\ Len(events) <= MaxEvents

\* Every group is a connected route whatever is appended, attached, dragged or
\* taken out of it.
Connected == \A i \in DOMAIN groups : Joined(groups[i])

\* A drag moves one airport of the chain that is shown and leaves the others in
\* their order, although the code rebuilds legs from occurrence indexes, and an
\* airport may occur in the chain more than once.
DragMovesOneAirport ==
  [][Reorder => \E i, j \in DOMAIN Chain(Group) :
       Chain(Group)' = InsertAt(RemoveAt(Chain(Group), i), j, Chain(Group)[i])]_vars

\* Once the browser has dispatched its events the address bar tells the
\* itinerary that is shown, and the flag is down, so that the next Back is
\* followed: no order of edits, clearings and navigation loses an event.
UrlTellsRouting ==
  events = <<>> =>
    /\ ~ignore
    /\ Hash.kind = "link" => Encode(groups, product) = Hash
    /\ Hash.kind # "link" => ~HasLegs(groups)
    /\ Hash.kind = "malformed" => error

\* The echo of an edit never takes back what the URL can tell of a later edit:
\* it may come after the next edit, when the flag is up once for two echoes.
EchoHarmless ==
  [][events # <<>> /\ events' = Tail(events) /\ ~Contains(events, "nav") =>
       \/ Encode(groups, product)' = Encode(groups, product)
       \/ ~HasLegs(groups) /\ ~HasLegs(groups')]_vars

\* "Keyed by group array index; kept in sync on group removal" (App.tsx, of
\* pendingByGroup). Back, a pasted link and a late echo remove groups as well,
\* and the airport waits for the next group that gets the index.
PendingInSync == DOMAIN pend \subseteq DOMAIN groups
=============================================================================
