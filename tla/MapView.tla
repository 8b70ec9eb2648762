------------------------------ MODULE MapView ------------------------------
(***************************************************************************)
(* The map of the planner (src/components/MapView.tsx, map-layout.ts) in a *)
(* projection that repeats: the view, which is fitted to the route and     *)
(* moved by hand, and the next stops, drawn one by one or as clusters.     *)
(* Which airport the pointer finds is left out.                            *)
(*                                                                         *)
(* The map is one-dimensional. World coordinates are whole, a screen       *)
(* coordinate is in half pixels and `scale` is doubled, so that both agree *)
(* at scale 1. Scales are powers of two and a scale that the code computes *)
(* from a span is rounded down to one. A view is kept by the world         *)
(* coordinate of the screen's left edge (-tx / scale), and the pointer     *)
(* only is where this is whole.                                            *)
(***************************************************************************)
EXTENDS Integers, Sequences, FiniteSets, FiniteSetsExt, Functions

CONSTANTS
  Lon,          \* longitude of each airport
  Routes,       \* what the parent may show: sequences of airports
  Others,       \* airports of the other routings
  Guides,       \* what the next-leg panel may show: [origin, destinations], or None
  WorldWidth, Width,
  Pad,          \* of a fitted route
  MaxFit,       \* largest scale of a fit to a route, and to a selected next stop
  MaxZoom,      \* largest scale that a cluster leads to
  MinScale, MaxScale,
  NetworkLimit, \* more next stops than these are an overview (12)
  Radius,       \* of the clusters at each level of detail
  Pointers,
  None,
  MaxMoves      \* bound: gestures that move the view, and changes of what is shown

VARIABLES
  route,     \* activeAirports
  guide,     \* nextLegGuide
  selection, \* nextLegSelection: None or [origin, to]
  view,      \* pz: [scale, left]
  fitted,    \* lastAutoFitKeyRef
  drag,      \* dragRef: None or [start, origin]
  held,      \* the point of the world that a hand moved to a point of the screen, if any
  moves

shown == <<route, guide, selection>>
vars == <<shown, view, fitted, drag, held, moves>>

\* A guide is for the airport that a route ends at.
MapAssumption ==
  /\ Routes \subseteq Seq(DOMAIN Lon)
  /\ \A g \in Guides \ {None} : g.origin # None

-----------------------------------------------------------------------------
\* Normalized to half a turn to either side.
Turned(x) == WorldWidth \div 2 - ((WorldWidth \div 2 - x) % WorldWidth)
View(scale, left) == [scale |-> scale, left |-> Turned(left)]
Identity == View(2, 0)

Screen(v, x) == (x - v.left) * v.scale
World(v, at) == v.left + at \div v.scale

\* The projection is centered on the first airport of the route.
Center(r) == IF r = <<>> THEN 0 ELSE Lon[r[1]]
Projected(r, airport) == Width \div 4 + Turned(Lon[airport] - Center(r))

\* Copies of the world are drawn on both sides.
CeilDiv(m, n) == (m + n - 1) \div n
EachSide(v) == Max({1, CeilDiv(Width + WorldWidth * v.scale, 2 * WorldWidth * v.scale)})

Distance(m, n) == Max({m - n, n - m})

\* The drawn copy of a point that is nearest to the middle of the screen.
Copy(v, x) ==
  LET turns == CeilDiv(World(v, Width \div 2) - WorldWidth \div 2 - x, WorldWidth)
      drawn == Max({0 - EachSide(v), Min({turns, EachSide(v)})})
  IN x + drawn * WorldWidth

-----------------------------------------------------------------------------
(***************************************************************************)
(* What is shown of the next leg.                                          *)
(***************************************************************************)
Endpoint(r) == IF r = <<>> THEN None ELSE r[Len(r)]
Available(r, g) == IF g # None /\ Endpoint(r) = g.origin THEN g.destinations ELSE {}
Guided(r, g) == g # None /\ Endpoint(r) = g.origin

\* The parent passes the selection of this guide's origin only.
Code(g, s) == IF g # None /\ s # None /\ s.origin = g.origin THEN s.to ELSE None
Selected(r, g, s) == IF Code(g, s) \in Available(r, g) THEN Code(g, s) ELSE None

-----------------------------------------------------------------------------
(***************************************************************************)
(* Fitting the view.                                                       *)
(***************************************************************************)
Mode(r, g, s) ==
  IF Selected(r, g, s) # None THEN "selection"
  ELSE IF Cardinality(Available(r, g)) > NetworkLimit THEN "network" ELSE "route"

\* An airport that comes again is left out.
Distinct(seq) ==
  LET first == {i \in DOMAIN seq : \A j \in 1..(i - 1) : seq[j] # seq[i]}
  IN [k \in 1..Cardinality(first) |->
        seq[CHOOSE i \in first : Cardinality({j \in first : j <= i}) = k]]

FitAirports(r, g, s) ==
  CASE Mode(r, g, s) = "network"   -> <<>>
    [] Mode(r, g, s) = "route"     -> Distinct(r)
    [] Mode(r, g, s) = "selection" -> Distinct(Append(r, Selected(r, g, s)))

FitKey(r, g, s) == [mode |-> Mode(r, g, s), airports |-> FitAirports(r, g, s)]

\* Each point is brought to within half a turn of the one before.
Unwrapped(points) ==
  LET at[i \in DOMAIN points] ==
        IF i = 1 THEN points[1] ELSE at[i - 1] + Turned(points[i] - at[i - 1])
  IN [i \in DOMAIN points |-> at[i]]

Fit(points, maxScale) ==
  LET xs     == Range(Unwrapped(points))
      span   == Max({1, Max(xs) - Min(xs)})
      usable == Width - 2 * Pad
      scales == {s \in {1, 2, 4, 8, 16} : s <= maxScale /\ s * span <= usable}
      scale  == Max({MinScale} \cup scales)
  IN View(scale, (Min(xs) + Max(xs)) \div 2 - (Width \div 2) \div scale)

Preferred(r, g, s) ==
  LET airports == FitAirports(r, g, s)
  IN IF Len(airports) < 2 THEN Identity
     ELSE Fit([i \in DOMAIN airports |-> Projected(r, airports[i])], MaxFit[Mode(r, g, s)])

PreferredView == Preferred(route, guide, selection)

-----------------------------------------------------------------------------
(***************************************************************************)
(* Detail: background airports, and clusters of next stops.                *)
(***************************************************************************)
Detail(v, preferred) ==
  IF 10 * v.scale >= 26 * preferred.scale THEN "local"
  ELSE IF 100 * v.scale >= 145 * preferred.scale THEN "regional" ELSE "overview"

RouteCodes == Range(route) \cup Others

\* Airports of the background are there, if nothing guides, once one has zoomed in.
Hittable ==
  IF ~Guided(route, guide) /\ 10 * view.scale >= 18 * PreferredView.scale
  THEN DOMAIN Lon ELSE RouteCodes

StopAt(stop) == Copy(view, Projected(route, stop))

\* Stops that hang together are one cluster; the one that is selected stands alone.
ClusterStops == Available(route, guide) \ {Code(guide, selection)}
Clusters ==
  LET radius == Radius[Detail(view, PreferredView)]
      at     == [s \in ClusterStops |-> StopAt(s)]
      near   == [s \in ClusterStops |->
                   {t \in ClusterStops : radius > 0 /\ Distance(at[s], at[t]) * view.scale <= radius}]
      closed == {set \in SUBSET ClusterStops : \A s \in set : near[s] \subseteq set}
  IN {{t \in ClusterStops : \A set \in closed : s \in set => t \in set} : s \in ClusterStops}

MultiStop == {cluster \in Clusters : Cardinality(cluster) > 1}
Drawn == Available(route, guide) \ UNION MultiStop

-----------------------------------------------------------------------------
(***************************************************************************)
(* The parent shows something else, and the view is fitted to it unless it *)
(* was fitted to the same before.                                          *)
(***************************************************************************)
Show(r, g, s) ==
  /\ moves < MaxMoves /\ moves' = moves + 1
  /\ route' = r /\ guide' = g /\ selection' = s
  /\ fitted' = FitKey(r, g, s)
  /\ IF FitKey(r, g, s) # fitted
     THEN view' = Preferred(r, g, s) /\ held' = {}
     ELSE UNCHANGED <<view, held>>

EditRoute(r) ==
  /\ r # route /\ Show(r, guide, selection)
  /\ UNCHANGED drag

Guide(g) ==
  /\ g # guide /\ Show(route, g, selection)
  /\ UNCHANGED drag

\* The next-leg panel selects a destination, or drops the selection.
SelectInPanel(to) ==
  /\ guide # None /\ to \in guide.destinations \cup {None}
  /\ Show(route, guide, IF to = None THEN None ELSE [origin |-> guide.origin, to |-> to])
  /\ UNCHANGED drag

\* A click on a stop that is drawn by itself.
ClickStop(stop) ==
  /\ Show(route, guide, [origin |-> guide.origin, to |-> stop])
  /\ UNCHANGED drag

\* The popover of an airport and its button; the parent adds the airport to its route.
Commit(airport) ==
  /\ route # <<>> /\ airport # Endpoint(route)
  /\ Show(Append(route, airport), guide, selection)
  /\ UNCHANGED drag

-----------------------------------------------------------------------------
(***************************************************************************)
(* The pointer.                                                            *)
(***************************************************************************)
Gesture == moves < MaxMoves /\ moves' = moves + 1

Down(at) ==
  /\ drag = None
  /\ drag' = [start |-> at, origin |-> view]
  /\ UNCHANGED <<shown, view, fitted, held, moves>>

Dragged(d, at) == View(d.origin.scale, d.origin.left - (at - d.start) \div d.origin.scale)

Drag(at) ==
  /\ drag # None /\ Gesture
  /\ view' = Dragged(drag, at)
  /\ held' = {[world |-> World(drag.origin, drag.start), at |-> at]}
  /\ UNCHANGED <<shown, fitted, drag>>

Up ==
  /\ drag # None /\ drag' = None
  /\ UNCHANGED <<shown, view, fitted, held, moves>>

\* The wheel doubles or halves the scale, and what lies under the pointer stays there.
Wheel(at, scale) ==
  /\ scale \in {view.scale * 2, view.scale \div 2} /\ scale \in MinScale..MaxScale /\ Gesture
  /\ view' = View(scale, World(view, at) - at \div scale)
  /\ held' = {[world |-> World(view, at), at |-> at]}
  /\ UNCHANGED <<shown, fitted, drag>>

\* A click on a cluster brings its center to the middle of the map.
ClusterCenter(cluster) == MapThenSumSet(StopAt, cluster) \div Cardinality(cluster)
ZoomIntoCluster(cluster) ==
  /\ Gesture
  /\ LET scale == Min({MaxZoom, Max({view.scale * 2, 4})})
     IN view' = View(scale, ClusterCenter(cluster) - (Width \div 2) \div scale)
  /\ held' = {[world |-> ClusterCenter(cluster), at |-> Width \div 2]}
  /\ UNCHANGED <<shown, fitted, drag>>

\* The button is there if the view is not the fitted one.
ResetView ==
  /\ view # PreferredView
  /\ view' = PreferredView /\ held' = {}
  /\ UNCHANGED <<shown, fitted, drag, moves>>

Init ==
  /\ route \in Routes /\ guide \in Guides /\ selection = None
  /\ fitted = FitKey(route, guide, selection) /\ view = PreferredView
  /\ drag = None /\ held = {}
  /\ moves = 0

Next ==
  \/ \E r \in Routes : EditRoute(r)
  \/ \E g \in Guides : Guide(g)
  \/ \E to \in DOMAIN Lon \cup {None} : SelectInPanel(to)
  \/ \E stop \in Drawn : ClickStop(stop)
  \/ \E airport \in Hittable : Commit(airport)
  \/ Up \/ ResetView
  \/ \E at \in Pointers : Down(at) \/ Drag(at)
  \/ \E at \in Pointers, scale \in {view.scale * 2, view.scale \div 2} : Wheel(at, scale)
  \/ \E cluster \in MultiStop : ZoomIntoCluster(cluster)

Spec == Init /\ [][Next]_vars
-----------------------------------------------------------------------------
(***************************************************************************)
(* Properties.                                                             *)
(***************************************************************************)
\* Type invariant.
TypeOK ==
  /\ route \in Seq(DOMAIN Lon) /\ guide \in Guides
  /\ view.scale \in MinScale..MaxScale /\ moves \in 0..MaxMoves

\* A view that no hand has moved is the one that fits what is shown, though it is only
\* fitted again when the mode or the airports of the fit change.
ViewIsFitted == held = {} => view = PreferredView

\* A fit shows every airport it is made for, whichever way around the world they lie,
\* unless the route is too long for the smallest scale.
FitShowsAll ==
  held = {} =>
    LET airports == FitAirports(route, guide, selection)
    IN Len(airports) >= 2 /\ view.scale > MinScale =>
         \A a \in Range(airports) :
           Screen(view, Copy(view, Projected(route, a))) \in Pad..(Width - Pad)

\* What a hand has moved to a point is there, on one of the copies, until the view is
\* fitted again: dragging takes along what was grabbed, the wheel keeps what is under
\* the pointer, and a cluster comes to the middle.
GripHolds ==
  \A grip \in held : (Screen(view, grip.world) - grip.at) % (WorldWidth * view.scale) = 0

\* Every stop is drawn once, by itself or in one cluster, and the selected one by itself.
StopsDrawnOnce ==
  LET clusters == MultiStop
      drawn    == Drawn
  IN /\ \A stop \in Available(route, guide) :
          Cardinality({c \in clusters : stop \in c}) = IF stop \in drawn THEN 0 ELSE 1
     /\ Selected(route, guide, selection) \in drawn \cup {None}

\* Stops that are drawn apart do not touch, and a cluster is drawn inside its stops.
StopsApart ==
  LET level == Detail(view, PreferredView)
      at    == [stop \in Available(route, guide) |-> Screen(view, StopAt(stop))]
  IN /\ level # "local" =>
          \A s, t \in Drawn \ {Code(guide, selection)} :
            s = t \/ Distance(at[s], at[t]) > Radius[level]
     /\ \A c \in MultiStop :
          LET center == Screen(view, ClusterCenter(c))
          IN \E s, t \in c : at[s] <= center /\ center <= at[t]

\* All of these: what is seen of the map is what its state and its hands ask for.
MapSound == ViewIsFitted /\ FitShowsAll /\ GripHolds /\ StopsDrawnOnce /\ StopsApart
=============================================================================
