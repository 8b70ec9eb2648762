-------------------------- MODULE NextLegEvidence --------------------------
(***************************************************************************)
(* What the next-leg panel offers a traveller of one carrier on one sector *)
(* (src/lib/rtw/next-leg-discovery.ts): network rows, schedules, official  *)
(* services, flight-number references, gaps and passenger rules are put    *)
(* together for a reference date and a time, and a live listing is added   *)
(* to the result (live-next-leg-discovery.ts). The traveller picks dates,  *)
(* the clock runs, and the listing comes and goes.                         *)
(*                                                                         *)
(* An option belongs to the carrier code alone (entity None) or to one of  *)
(* the operators that share it. Dates and instants are numbers.            *)
(***************************************************************************)
EXTENDS Integers, SequencesExt, FiniteSetsExt

CONSTANTS
  Catalogs,   \* the evidence to look at, see Init
  Sources,    \* of official services: id -> [checked, review]
  Entities,   \* operators sharing the carrier code
  Product,    \* the product planned for, None before one is chosen
  Dates,      \* reference dates to pick
  Weekday,    \* date -> weekday
  MonthDay,   \* date -> day in the year
  Skew,       \* how far ahead of the clock a source may be checked
  MaxNow,     \* bound of the instance
  None

VARIABLES
  catalog,  \* [routes, schedules, services, references, gaps, uses]
  date,     \* referenceDate
  now,      \* evidenceNow
  listed    \* whether the live listing names the carrier

vars == <<catalog, date, now, listed>>

Keys == Entities \cup {None}

\* Every service and reference has a source, which was checked before the page opened
\* (give or take the skew of the clocks); schedules are rows in an order.
EvidenceAssumption ==
  /\ Skew \in Int
  /\ \A source \in DOMAIN Sources : /\ Sources[source].checked \in Int
                                    /\ Sources[source].review \in Int
                                    /\ Sources[source].checked <= Skew
  /\ \A c \in Catalogs :
       /\ \A row \in c.services \cup c.references : row.source \in DOMAIN Sources
       /\ c.schedules \in Seq({c.schedules[i] : i \in DOMAIN c.schedules})

-----------------------------------------------------------------------------
(***************************************************************************)
(* Windows.                                                                *)
(***************************************************************************)
In(row, day) == (row.from = None \/ row.from <= day) /\ (row.until = None \/ day <= row.until)

\* A season may wrap around the end of the year, and lack a bound.
SeasonContains(start, end, day) ==
  LET after  == start = None \/ start <= MonthDay[day]
      before == end = None \/ MonthDay[day] <= end
  IN IF start # None /\ end # None /\ start > end THEN after \/ before ELSE after /\ before

InSeason(row, day) == In(row, day) /\ SeasonContains(row.start, row.end, day)

\* isScheduleActiveOn
Active(row, day) == row.status # "suspended" /\ InSeason(row, day)

\* routeSourceReviewWindow: the bounds of a listing are those of its review.
HasReviewWindow(route) ==
  /\ route.identity = "provider-listed" /\ route.status # "suspended"
  /\ route.review = <<route.from, route.until>>

\* routeWithinExplicitServiceWindow
InWindow(route) == HasReviewWindow(route) \/ In(route, date)

\* freshSource
Fresh(row) == Sources[row.source].checked <= now + Skew /\ now < Sources[row.source].review

-----------------------------------------------------------------------------
(***************************************************************************)
(* passengerRouteUseDecision: rules about one operator of a shared code    *)
(* hold for it alone, but a caller that does not know the operator is      *)
(* refused.                                                                *)
(***************************************************************************)
Permits(use) ==
  /\ use.sale /\ In(use, date)
  /\ \E p \in use.products : p.id = Product /\ In(p, date)

CanUse(entity) ==
  LET scoped == {use \in catalog.uses : use.entity # None}
      own    == {use \in catalog.uses : use.entity = entity}
  IN CASE scoped = {}                                  -> \A use \in catalog.uses : Permits(use)
       [] scoped # {} /\ entity = None                 -> FALSE
       [] scoped # {} /\ entity # None /\ own = {}     -> TRUE
       [] scoped # {} /\ entity # None /\ own # {}     -> \A use \in own : Permits(use)

-----------------------------------------------------------------------------
(***************************************************************************)
(* buildNextLegIndex.                                                      *)
(***************************************************************************)
NoRow == [status |-> None]

\* The first row of the network, or the last that is not merely published.
Route(entity) ==
  LET rows  == {i \in DOMAIN catalog.routes : catalog.routes[i].entity = entity}
      other == {i \in rows : catalog.routes[i].status # "published"}
  IN IF rows = {} THEN NoRow
     ELSE catalog.routes[IF other # {} THEN Max(other) ELSE Min(rows)]

\* Schedules and references name a carrier code only.
Schedules(entity) == IF entity = None THEN catalog.schedules ELSE <<>>
Positive(entity) == {row \in ToSet(Schedules(entity)) : row.status # "suspended"}
Services(entity) == {row \in catalog.services : row.entity = entity}
ActiveServices(entity) == {row \in Services(entity) : Fresh(row) /\ In(row, date)}

ActiveReferences(entity) == {row \in catalog.references : entity = None /\ Fresh(row)}

\* hasNetworkGap; a month is a date here.
Gap == \E gap \in catalog.gaps : In(gap, date)

Suspended(entity) ==
  \/ Route(entity).status = "suspended" /\ InWindow(Route(entity))
  \/ \E i \in DOMAIN Schedules(entity) :
       Schedules(entity)[i].status = "suspended" /\ InSeason(Schedules(entity)[i], date)

Offered(entity) ==
  /\ CanUse(entity) /\ ~Gap /\ ~Suspended(entity)
  /\ Route(entity).status # "identity-unresolved"
  /\ \/ Route(entity).status = "published"
     \/ Positive(entity) # {}
     \/ ActiveServices(entity) # {}
     \/ ActiveReferences(entity) # {}

RunsToday(service) ==
  date \notin service.removed /\ (date \in service.added \/ Weekday[date] \in service.days)

\* operatingDaysForDate: the first row active on the date decides.
FirstActive(entity) ==
  LET active == {i \in DOMAIN Schedules(entity) : Active(Schedules(entity)[i], date)}
  IN IF active = {} THEN NoRow ELSE Schedules(entity)[Min(active)]

ScheduleStatus(entity) ==
  IF \E service \in ActiveServices(entity) : RunsToday(service) THEN "covered"
  ELSE IF FirstActive(entity) # NoRow
  THEN IF Weekday[date] \in FirstActive(entity).days THEN "covered" ELSE "weekday-mismatch"
  ELSE IF ActiveServices(entity) # {} THEN "weekday-mismatch"
  ELSE IF \/ Positive(entity) # {} \/ Services(entity) # {}
          \/ Route(entity).status = "published" /\ ~InWindow(Route(entity))
  THEN "outside-window" ELSE "unknown"

\* A row that only lists the carrier, with nothing published beside it.
Unverified(entity) ==
  /\ Route(entity) # NoRow /\ Route(entity).identity # "operating"
  /\ Positive(entity) = {} /\ ActiveServices(entity) = {} /\ ActiveReferences(entity) = {}

RouteNumbers(entity) == IF Route(entity) = NoRow THEN {} ELSE Route(entity).numbers

Numbers(entity) ==
  (IF Unverified(entity) THEN {} ELSE RouteNumbers(entity))
    \cup UNION {row.numbers : row \in Positive(entity)}
    \cup {service.number : service \in ActiveServices(entity)}
    \cup UNION {reference.numbers : reference \in ActiveReferences(entity)}

Candidates(entity) ==
  ((IF Route(entity) = NoRow THEN {} ELSE Route(entity).candidates)
    \cup IF Unverified(entity) THEN RouteNumbers(entity) ELSE {}) \ Numbers(entity)

Option(entity) ==
  [status     |-> ScheduleStatus(entity),
   numbers    |-> Numbers(entity),
   candidates |-> Candidates(entity),
   identity   |-> IF ~Unverified(entity) THEN "confirmed"
                  ELSE IF Route(entity).identity = "provider-listed" THEN "provider-listed" ELSE "unknown",
   live       |-> FALSE]

Index == [entity \in {e \in Keys : Offered(e)} |-> Option(entity)]

-----------------------------------------------------------------------------
(***************************************************************************)
(* mergeLiveNextLegDestinations: a listing knows a code, and is attached   *)
(* to no operator.                                                         *)
(***************************************************************************)
Listed == [status |-> "unknown", numbers |-> {}, candidates |-> {},
           identity |-> "provider-listed", live |-> TRUE]

Shown ==
  LET qualified == DOMAIN Index \ {None} # {}
  IN IF ~listed \/ qualified \/ ~CanUse(None) THEN Index
     ELSE IF None \in DOMAIN Index THEN [Index EXCEPT ![None].live = TRUE]
     ELSE [entity \in {None} |-> Listed]

-----------------------------------------------------------------------------
Init == catalog \in Catalogs /\ date \in Dates /\ now = 0 /\ listed = FALSE

PickDate(day) == date' = day /\ UNCHANGED <<catalog, now, listed>>

\* The evidence clock is read again at the next deadline.
Tick == now < MaxNow /\ now' = now + 1 /\ UNCHANGED <<catalog, date, listed>>

\* The listing of the airport comes in, or the airport is left.
Listing == listed' = ~listed /\ UNCHANGED <<catalog, date, now>>

Next == Tick \/ Listing \/ \E day \in Dates : PickDate(day)

Spec == Init /\ [][Next]_vars
-----------------------------------------------------------------------------
(***************************************************************************)
(* Properties.                                                             *)
(***************************************************************************)
\* Type invariant.
TypeOK ==
  /\ catalog \in Catalogs /\ date \in Dates /\ now \in 0 .. MaxNow /\ listed \in BOOLEAN
  /\ \A entity \in DOMAIN Shown :
       /\ Shown[entity].status \in {"covered", "weekday-mismatch", "unknown", "outside-window"}
       /\ Shown[entity].numbers \cap Shown[entity].candidates = {}

\* While a suspension or a gap is in force, or an operator's rule refuses a caller
\* that does not know the operator, nothing but a live listing brings the sector
\* back, and that claims neither a day, nor a number, nor an operator.
RefusalsHold ==
  LET InForce(rows) == \E i \in DOMAIN rows : rows[i].status = "suspended" /\ InSeason(rows[i], date)
  IN \A entity \in DOMAIN Shown :
       /\ CanUse(entity)
       /\ Gap \/ (entity = None /\ InForce(catalog.schedules)) => Shown[entity] = Listed

\* A date is called covered only on the word of a row that is fresh, in its window
\* and not withdrawn for that date.
CoveredRests ==
  \A entity \in DOMAIN Shown : Shown[entity].status = "covered" =>
    \/ \E row \in catalog.services :
         /\ row.entity = entity /\ In(row, date) /\ Fresh(row) /\ date \notin row.removed
         /\ date \in row.added \/ Weekday[date] \in row.days
    \/ /\ entity = None
       /\ \E i \in DOMAIN catalog.schedules :
            Active(catalog.schedules[i], date) /\ Weekday[date] \in catalog.schedules[i].days

EvidenceSound == RefusalsHold /\ CoveredRests

\* Time alone only withdraws: no option, number, covered date or confirmed operator
\* appears on a page because its clock ran on, except that a live listing shows
\* again where it stood back for an operator's option that has gone.
TimeWithdraws ==
  now' > now =>
    \A entity \in DOMAIN Shown' :
      \/ Shown'[entity] = Listed
      \/ /\ entity \in DOMAIN Shown
         /\ Shown'[entity].numbers \subseteq Shown[entity].numbers
         /\ Shown'[entity].status = "covered" => Shown[entity].status = "covered"
         /\ Shown'[entity].identity = "confirmed" => Shown[entity].identity = "confirmed"

\* A live listing changes nothing that evidence says.
ListingAddsOnly ==
  listed' # listed =>
    \A entity \in DOMAIN Index :
      entity \in DOMAIN Shown' /\ [Shown'[entity] EXCEPT !.live = FALSE] = Index[entity]

EvidenceKept == TimeWithdraws /\ ListingAddsOnly
=============================================================================
