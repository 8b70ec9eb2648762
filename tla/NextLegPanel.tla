---------------------------- MODULE NextLegPanel ----------------------------
(***************************************************************************)
(* The next-leg panel (src/components/DestinationsPanel.tsx) with the      *)
(* selection it shares with the map through src/App.tsx, and the mutators  *)
(* of App.tsx that take what it offers.                                    *)
(*                                                                         *)
(* The panel keeps drafts: a flight, a change of airports, a leg by hand,  *)
(* and the flight whose dates are open. Each remembers the origin it was   *)
(* made at and comes back into view when the route ends there again; the   *)
(* map, other editors and the evidence change under them at any time.      *)
(*                                                                         *)
(* A flight is a carrier with or without a flight number.                  *)
(***************************************************************************)
EXTENDS Naturals

CONSTANTS
  Airports,
  Discoveries, \* what discovery may come to: sets of [from, to, flight]
  SameCity,    \* SameCity[a]: the other airports of a's city
  Found,       \* airports the manual search finds
  None

VARIABLES
  end,       \* activeOrigin: where the chain ends, or the buffered airport, or None
  hidden,    \* the last leg goes on to an airport nobody knows, which the chain leaves out
  offers,    \* options of the index, with the live listings merged in
  selection, \* nextLegSelection of App.tsx: None or [origin, to]
  draft,     \* flightDraft; `chosenFor`: None, or the flight its timing or cabin was chosen for
  target,    \* flightTarget: the flight whose dates are open
  surface,   \* surfaceDraft
  manual     \* manualDraft

panel == <<draft, target, surface, manual>>
vars == <<end, hidden, offers, selection, panel>>

\* A route of the network has two ends (src/src/lib/schemas/route-network.ts:179).
OfferAssumption == \A D \in Discoveries : \A o \in D : o.from # o.to

Route(a, b) == [from |-> a, to |-> b]
Flight(a, b, f) == [from |-> a, to |-> b, flight |-> f]
Drafts(a, b, f, dated, chosenFor) ==
  [from |-> a, to |-> b, flight |-> f, dated |-> dated, chosenFor |-> chosenFor]

Options == UNION Discoveries

Init ==
  /\ end \in Airports \cup {None} /\ hidden = FALSE
  /\ offers \in Discoveries
  /\ selection = None
  /\ draft = None /\ target = None /\ surface = None /\ manual = None

-----------------------------------------------------------------------------
(***************************************************************************)
(* What is in view.                                                        *)
(***************************************************************************)
Destinations == {o.to : o \in {p \in offers : p.from = end}}

SelectedRoute ==
  IF selection # None /\ selection.origin = end /\ selection.to \in Destinations
  THEN selection.to ELSE None

AtOrigin(d) == d # None /\ d.from = end

ActiveSurface == AtOrigin(surface)
RouteCard == end # None /\ ~ActiveSurface /\ SelectedRoute # None
List      == end # None /\ ~ActiveSurface /\ SelectedRoute = None
ActiveDraft == AtOrigin(draft) /\ draft.to = SelectedRoute
DatesOpen == end # None /\ AtOrigin(target)

FlightsOf(to) == {o.flight : o \in {p \in offers : p.from = end /\ p.to = to}}

-----------------------------------------------------------------------------
(***************************************************************************)
(* Choosing.                                                               *)
(***************************************************************************)
Select(to) == selection' = IF to = None THEN None ELSE [origin |-> end, to |-> to]

Cleared == draft' = None /\ target' = None /\ surface' = None /\ manual' = None

\* chooseDestination: None is "another destination".
ChooseDestination(to) ==
  /\ \/ List /\ to \in Destinations
     \/ RouteCard /\ to = None
  /\ Select(to) /\ Cleared
  /\ UNCHANGED <<end, hidden, offers>>

\* A stop on the map is App.tsx's selection; the panel's drafts stay.
MapClick(to) ==
  /\ to \in Destinations
  /\ Select(to)
  /\ UNCHANGED <<end, hidden, offers, panel>>

ChooseSurface(to) ==
  /\ List /\ to \in SameCity[end]
  /\ selection' = None /\ draft' = None /\ target' = None /\ manual' = None
  /\ surface' = Route(end, to)
  /\ UNCHANGED <<end, hidden, offers>>

CancelSurface ==
  /\ ActiveSurface
  /\ surface' = None
  /\ UNCHANGED <<end, hidden, offers, selection, draft, target, manual>>

\* (Fault: the dates of the flight drafted before stay open.)
KeepTarget == UNCHANGED target
CloseTarget == target' = None

\* A flight number, or its airline with the number left for later.
SelectFlight(f) ==
  /\ RouteCard /\ f \in FlightsOf(SelectedRoute)
  /\ draft' = Drafts(end, SelectedRoute, f, FALSE, None)
  /\ CloseTarget
  /\ UNCHANGED <<end, hidden, offers, selection, surface, manual>>

\* A carrier that is only listed: its dates are opened without a draft.
VerifyCarrier(f) ==
  /\ RouteCard /\ f \in FlightsOf(SelectedRoute)
  /\ draft' = None
  /\ target' = Flight(end, SelectedRoute, f)
  /\ UNCHANGED <<end, hidden, offers, selection, surface, manual>>

OpenDates ==
  /\ RouteCard /\ ActiveDraft
  /\ target' = Flight(end, draft.to, draft.flight)
  /\ UNCHANGED <<end, hidden, offers, selection, draft, surface, manual>>

\* Timing or cabin, for the flight in view.
ChooseTiming(chosen) ==
  /\ RouteCard /\ ActiveDraft
  /\ draft' = [draft EXCEPT !.chosenFor =
                 IF chosen THEN Flight(draft.from, draft.to, draft.flight) ELSE None]
  /\ UNCHANGED <<end, hidden, offers, selection, target, surface, manual>>

\* onUsePlannedDate: what was chosen for the draft in view goes on.
UsePlannedDate ==
  /\ DatesOpen
  /\ draft' = Drafts(target.from, target.to, target.flight, TRUE,
                     IF ActiveDraft THEN draft.chosenFor ELSE None)
  /\ target' = None
  /\ UNCHANGED <<end, hidden, offers, selection, surface, manual>>

CloseDates ==
  /\ DatesOpen
  /\ target' = None
  /\ UNCHANGED <<end, hidden, offers, selection, draft, surface, manual>>

\* A change of the search, or "another destination" of the manual planner.
DropManual ==
  /\ List
  /\ manual' = None
  /\ UNCHANGED <<end, hidden, offers, selection, draft, target, surface>>

DraftManual(to) ==
  /\ List /\ to \in Found \ {end} /\ ~AtOrigin(manual)
  /\ manual' = [from |-> end, to |-> to, mode |-> "flight", carrier |-> FALSE]
  /\ UNCHANGED <<end, hidden, offers, selection, draft, target, surface>>

\* The mode, and the carrier a flight must name.
EditManual(mode, carrier) ==
  /\ List /\ AtOrigin(manual)
  /\ \/ mode # manual.mode /\ carrier = (mode = "flight" /\ manual.carrier)
     \/ mode = "flight" /\ manual.mode = "flight" /\ carrier # manual.carrier
  /\ manual' = [manual EXCEPT !.mode = mode, !.carrier = carrier]
  /\ UNCHANGED <<end, hidden, offers, selection, draft, target, surface>>

-----------------------------------------------------------------------------
(***************************************************************************)
(* Adding.                                                                 *)
(***************************************************************************)
\* What the buttons in view would hand to onAddPair and onAddSurface, with what
\* the timing or cabin that goes along was chosen for.
Addition(a, b, f, chosenFor) ==
  [from |-> a, to |-> b, flight |-> f, chosenFor |-> chosenFor]

OfDraft   == IF RouteCard /\ ActiveDraft
             THEN {Addition(end, SelectedRoute, draft.flight, draft.chosenFor)} ELSE {}
OfSurface == IF end # None /\ ActiveSurface /\ surface.from # surface.to
             THEN {Addition(surface.from, surface.to, None, None)} ELSE {}
OfManual  == IF List /\ AtOrigin(manual) /\ (manual.mode = "flight" => manual.carrier)
                /\ end # manual.to
             THEN {Addition(end, manual.to, None, None)} ELSE {}
OfDates   == IF DatesOpen /\ target.from # target.to
             THEN {Addition(target.from, target.to, target.flight,
                            IF ActiveDraft THEN draft.chosenFor ELSE None)}
             ELSE {}

\* addExplorerPair and addSurfacePair refuse what does not continue the legs,
\* without a word to the panel.
Attaches(x) == x.from # x.to /\ ~hidden /\ end \in {None, x.from}

Attach(x) ==
  IF Attaches(x) THEN end' = x.to /\ selection' = None ELSE UNCHANGED <<end, selection>>

AddDraft ==
  /\ \E x \in OfDraft : IF Attaches(x) THEN end' = x.to ELSE UNCHANGED end
  /\ selection' = None /\ Cleared
  /\ UNCHANGED <<hidden, offers>>

AddSurface ==
  /\ \E x \in OfSurface : Attach(x)
  /\ surface' = None
  /\ UNCHANGED <<hidden, offers, draft, target, manual>>

AddManual ==
  /\ \E x \in OfManual : Attach(x)
  /\ manual' = None
  /\ UNCHANGED <<hidden, offers, draft, target, surface>>

\* onChoose of the dates panel.
AddDated ==
  /\ \E x \in OfDates : IF Attaches(x) THEN end' = x.to ELSE UNCHANGED end
  /\ selection' = None /\ Cleared
  /\ UNCHANGED <<hidden, offers>>

-----------------------------------------------------------------------------
(***************************************************************************)
(* What happens around the panel.                                          *)
(***************************************************************************)
\* The chain changes elsewhere: Back, a link, a chip removed or dragged, the
\* airport box. A route that is cleared or replaced whole clears the selection.
Reroute(a, beyond) ==
  /\ end' = a /\ hidden' = (beyond /\ a # None)
  /\ UNCHANGED <<offers, panel>>
  /\ selection' \in {selection, None}

\* Another product or group is another panel.
Remount(a) ==
  /\ end' = a /\ hidden' = FALSE
  /\ Cleared
  /\ UNCHANGED <<offers, selection>>

\* Evidence expires or arrives, or the reference date is moved.
Rediscover(found) ==
  /\ offers' = found
  /\ UNCHANGED <<end, hidden, selection, panel>>

Next ==
  \/ \E to \in Airports \cup {None} : ChooseDestination(to)
  \/ \E to \in Airports : MapClick(to) \/ ChooseSurface(to) \/ DraftManual(to)
  \/ CancelSurface \/ OpenDates \/ UsePlannedDate \/ CloseDates \/ DropManual
  \/ \E o \in Options : SelectFlight(o.flight) \/ VerifyCarrier(o.flight)
  \/ \E chosen \in BOOLEAN : ChooseTiming(chosen)
  \/ \E mode \in {"flight", "surface"}, carrier \in BOOLEAN : EditManual(mode, carrier)
  \/ AddDraft \/ AddSurface \/ AddManual \/ AddDated
  \/ \E a \in Airports \cup {None} : Remount(a) \/ \E beyond \in BOOLEAN : Reroute(a, beyond)
  \/ \E found \in Discoveries : Rediscover(found)

Spec == Init /\ [][Next]_vars
-----------------------------------------------------------------------------
(***************************************************************************)
(* Properties.                                                             *)
(***************************************************************************)
\* Type invariant.
TypeOK ==
  /\ end \in Airports \cup {None} /\ hidden \in BOOLEAN /\ offers \in Discoveries
  /\ selection # None => selection.origin \in Airports /\ selection.to \in Airports
  /\ draft # None => Flight(draft.from, draft.to, draft.flight) \in Options
  /\ target # None => target \in Options
  /\ surface # None => surface.to \in SameCity[surface.from]
  /\ manual # None => manual.to \in Found /\ (manual.mode = "surface" => ~manual.carrier)

Offered == OfDraft \cup OfSurface \cup OfManual \cup OfDates

\* "The panel only enables chips that can legally attach ..., so this trusts its
\* caller" (App.tsx:522): whatever navigation, map clicks and other edits came
\* between a draft and its button, what the button adds continues the route,
\* unless the route goes on to an airport nobody knows.
OffersAttach == ~hidden => \A x \in Offered : Attaches(x)

\* The cabin and timing handed over with a flight were chosen for that flight
\* (onUsePlannedDate and onChoose copy them from whatever draft is in view).
ChoicesOfTheFlight ==
  \A x \in Offered : x.chosenFor # None => x.chosenFor = Flight(x.from, x.to, x.flight)

\* Nothing the panel offers is refused, or takes over what was chosen for another
\* flight.
OffersSound == OffersAttach /\ ChoicesOfTheFlight
=============================================================================
