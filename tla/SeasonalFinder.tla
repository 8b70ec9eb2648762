-------------------------- MODULE SeasonalFinder --------------------------
(***************************************************************************)
(* The finder of flyable dates for a classic route                         *)
(* (SeasonalItineraryFinder.tsx): it loads a template of seasonal          *)
(* timetables when it is opened, searches flights from a wanted date on    *)
(* (seasonal-itinerary.ts), and its button replaces the itinerary          *)
(* (App.tsx).                                                              *)
(*                                                                         *)
(* A date is a day; a pattern is named by its rank among those that leave  *)
(* at one time.                                                            *)
(***************************************************************************)
EXTENDS Integers, Sequences, FiniteSets, TLC

CONSTANTS
  Templates,  \* [product, from, until, stay, segments]: a segment is [from, to, patterns], a
              \* pattern [rank, from, until, weekdays, departs, offset]; `from` and `until`
              \* are the days of the search window, `stay` the full days at each stop
  Products, OwnProduct,  \* products, and the one that is offered before a template is known
  Today,      \* the date that the field begins with
  Days, WeekLength,
  None

VARIABLES
  product,   \* the product that is chosen
  unfolded,  \* the finder is open
  loading,   \* a fetch is under way (loadingRef)
  loadState, \* "idle", "ready" or "error"
  template,  \* None until it is loaded
  wanted,    \* the date in the field; None if it is none
  result,    \* what the last search said, or None
  applied    \* the itinerary that the button made last, or None

vars == <<product, unfolded, loading, loadState, template, wanted, result, applied>>

-----------------------------------------------------------------------------
(***************************************************************************)
(* The search (findSeasonalItinerary): flight by flight, the first day     *)
(* that has one, and of that day the first to leave.                       *)
(***************************************************************************)
Operates(pattern, day) ==
  /\ pattern.from <= day /\ day <= pattern.until
  /\ day % WeekLength \in pattern.weekdays
Operating(segment, day) == {p \in segment.patterns : Operates(p, day)}
FirstToLeave(patterns) ==
  CHOOSE p \in patterns : \A q \in patterns :
    p.departs < q.departs \/ (p.departs = q.departs /\ p.rank <= q.rank)

FlightOn(segment, pattern, day) ==
  [from |-> segment.from, to |-> segment.to, pattern |-> pattern, day |-> day,
   arrives |-> day + pattern.offset]
EarliestAfter(flight, t) == flight.arrives + t.stay + 1

\* What is found of the first n segments, and of all if none of them is `stuck`.
Search(t, start) ==
  LET after[n \in 0 .. Len(t.segments)] ==
        IF n = 0 THEN [flights |-> <<>>, earliest |-> start, stuck |-> 0]
        ELSE LET before == after[n - 1]
                 segment == t.segments[n]
                 days == {d \in before.earliest .. t.until : Operating(segment, d) # {}}
                 day == CHOOSE d \in days : \A e \in days : d <= e
                 flight == FlightOn(segment, FirstToLeave(Operating(segment, day)), day)
             IN IF before.stuck # 0 THEN before
                ELSE IF days = {} THEN [before EXCEPT !.stuck = n]
                ELSE [flights |-> Append(before.flights, flight), stuck |-> 0,
                      earliest |-> EarliestAfter(flight, t)]
  IN after[Len(t.segments)]

Refusal(reason) == [ok |-> FALSE, reason |-> reason]
Find(t, start) ==
  IF start = None THEN Refusal("invalid-start-date")
  ELSE IF start \notin t.from .. t.until THEN Refusal("outside-search-window")
  ELSE LET found == Search(t, start)
       IN IF found.stuck # 0
          THEN Refusal("no-flight") @@ [segment |-> found.stuck, earliest |-> found.earliest]
          ELSE [ok |-> TRUE, flights |-> found.flights, start |-> found.flights[1].day,
                end |-> found.flights[Len(t.segments)].arrives]

-----------------------------------------------------------------------------
(***************************************************************************)
(* The component.                                                          *)
(***************************************************************************)
Visible == IF template = None THEN product = OwnProduct ELSE product = template.product

\* The effect that follows each change: an open finder without a template loads it.
MustLoad(isOpen, state) == isOpen /\ template = None /\ state = "idle" /\ ~loading

Init ==
  /\ product \in Products /\ wanted = Today
  /\ unfolded = FALSE /\ loading = FALSE /\ loadState = "idle" /\ template = None
  /\ result = None /\ applied = None

\* Opening it after a failure tries again.
Toggle ==
  LET state == IF ~unfolded /\ loadState = "error" THEN "idle" ELSE loadState
  IN /\ Visible
     /\ unfolded' = ~unfolded /\ loadState' = state
     /\ loading' = (loading \/ MustLoad(~unfolded, state))
     /\ UNCHANGED <<product, template, wanted, result, applied>>

Loaded(t) ==
  /\ loading /\ loading' = FALSE
  /\ template' = t /\ loadState' = "ready"
  /\ UNCHANGED <<product, unfolded, wanted, result, applied>>

LoadFails ==
  /\ loading /\ loading' = FALSE
  /\ loadState' = "error"
  /\ UNCHANGED <<product, unfolded, template, wanted, result, applied>>

PickDate(day) ==
  /\ Visible /\ unfolded /\ template # None
  /\ wanted' = day /\ result' = None
  /\ UNCHANGED <<product, unfolded, loading, loadState, template, applied>>

Run ==
  /\ Visible /\ unfolded /\ template # None
  /\ result' = Find(template, wanted)
  /\ UNCHANGED <<product, unfolded, loading, loadState, template, wanted, applied>>

\* The button replaces the itinerary, its dates and its product.
Legs(flights) ==
  [i \in DOMAIN flights |->
     [from |-> flights[i].from, to |-> flights[i].to, pattern |-> flights[i].pattern,
      departs |-> flights[i].day, stopover |-> i < Len(flights)]]
Apply ==
  /\ Visible /\ unfolded /\ template # None /\ result # None /\ result.ok
  /\ applied' = [legs |-> Legs(result.flights), product |-> product,
                 start |-> result.start, end |-> result.end]
  /\ UNCHANGED <<product, unfolded, loading, loadState, template, wanted, result>>

\* The product is chosen elsewhere on the page; the finder stays mounted.
ChooseProduct(p) ==
  /\ product' = p
  /\ UNCHANGED <<unfolded, loading, loadState, template, wanted, result, applied>>

Next ==
  \/ Toggle \/ LoadFails \/ Run \/ Apply
  \/ \E t \in Templates : Loaded(t)
  \/ \E d \in Days \union {None} : PickDate(d)
  \/ \E p \in Products : ChooseProduct(p)

Spec == Init /\ [][Next]_vars

-----------------------------------------------------------------------------
(***************************************************************************)
(* Properties.                                                             *)
(***************************************************************************)
TypeOK ==
  /\ product \in Products /\ {unfolded, loading} \subseteq BOOLEAN
  /\ loadState \in {"idle", "ready", "error"} /\ template \in Templates \union {None}
  /\ wanted \in Days \union {Today, None}
  /\ result = None \/ result.ok \in BOOLEAN

\* All the ways to fly a template from a day on: every flight runs on its day, and every
\* stop has its full days between an arrival and the next departure.
Flyable(t, start, flights) ==
  /\ Len(flights) = Len(t.segments)
  /\ \A i \in DOMAIN flights :
       LET f == flights[i]
       IN /\ f.from = t.segments[i].from /\ f.to = t.segments[i].to
          /\ f.pattern \in t.segments[i].patterns /\ Operates(f.pattern, f.day)
          /\ f.arrives = f.day + f.pattern.offset /\ f.day <= t.until
          /\ IF i = 1 THEN f.day >= start
             ELSE Cardinality(flights[i - 1].arrives + 1 .. f.day - 1) >= t.stay
                  /\ f.day > flights[i - 1].arrives
Choices(t, start) ==
  LET flightsOf(i) == UNION {{FlightOn(t.segments[i], p, d) : p \in Operating(t.segments[i], d)} :
                             d \in start .. t.until}
      all == UNION {flightsOf(i) : i \in DOMAIN t.segments}
  IN {c \in [DOMAIN t.segments -> all] :
        (\A i \in DOMAIN c : c[i] \in flightsOf(i)) /\ Flyable(t, start, c)}

\* Flights do not overtake each other: who leaves first arrives first.
Overtaking(t) ==
  \E i \in DOMAIN t.segments : \E d, e \in t.from .. t.until :
    \E p \in Operating(t.segments[i], d), q \in Operating(t.segments[i], e) :
      /\ d < e \/ (d = e /\ p = FirstToLeave(Operating(t.segments[i], d)))
      /\ d + p.offset > e + q.offset

\* The flights that are shown can be flown one after the other from the wanted date on;
\* where no flight overtakes another none arrive earlier, and "no flight" is only said
\* when there is no way at all to fly the route inside its window.
SearchSound ==
  template # None /\ wanted # None /\ wanted \in template.from .. template.until =>
    LET found == Find(template, wanted)
        choices == Choices(template, wanted)
    IN /\ found.ok => found.flights \in choices
       /\ ~Overtaking(template) =>
            /\ found.ok <=> choices # {}
            /\ found.ok => \A c \in choices : c[Len(c)].arrives >= found.end

\* What is shown was searched for the date that is shown; what is applied can be flown
\* from stop to stop on the days that the itinerary begins and ends, for the product that
\* the template is of; and an open finder is never left waiting for a load that nobody
\* has begun.
ResultIsCurrent ==
  result # None => result = Find(template, wanted)
AppliedSound ==
  applied # None =>
    /\ applied.product = template.product
    /\ \A i \in 1 .. Len(applied.legs) - 1 :
         LET a == applied.legs[i]  b == applied.legs[i + 1]
         IN a.to = b.from /\ a.stopover /\ b.departs > a.departs + a.pattern.offset
    /\ applied.start = applied.legs[1].departs
    /\ LET last == applied.legs[Len(applied.legs)]
       IN applied.end = last.departs + last.pattern.offset /\ ~last.stopover
NothingAwaited == unfolded /\ loadState = "idle" => loading

SeasonalSound == SearchSound /\ ResultIsCurrent /\ AppliedSound /\ NothingAwaited
=============================================================================
