--------------------------- MODULE RouteEvidence ---------------------------
(***************************************************************************)
(* The route network as the pages read it: which catalogues the schema     *)
(* lets through (src/lib/schemas/route-network.ts), how fresh the flight   *)
(* numbers of a route are (time-bound-flight-numbers.ts), and the clock by *)
(* which an open page looks again (use-evidence-clock.ts).                 *)
(*                                                                         *)
(* A route is [code, entity, pair, service, status, identity, numbers,     *)
(* generic, dated, candidates, hinted]: `generic` and `hinted` tell        *)
(* whether its numbers and candidates have sources, `dated` holds records  *)
(* [number, source, times], the observations of a snapshot. A network is   *)
(* [routes, deadline]: `deadline` maps each source that has one to the     *)
(* instant its snapshot expires. Instants are numbers of milliseconds.     *)
(***************************************************************************)
EXTENDS Integers, FiniteSets, FiniteSetsExt, Functions

CONSTANTS
  SharedCodes,  \* carrier codes that name several operators
  DayLength,    \* from one UTC midnight to the next
  MaxTime,      \* bound of the instance
  None

VARIABLES
  now,          \* Date.now
  evidenceNow,  \* the instant the page's evidence was looked at
  due           \* when the timer fires, None while there is none

clock == <<now, evidenceNow, due>>

ClockAssumption == DayLength \in Nat \ {0} /\ None \notin Nat

\* carrierIdentityKey
Key(row) == IF row.entity # None THEN row.entity ELSE row.code

DatedNumbers(row) == {e.number : e \in row.dated}
GenericNumbers(row) == row.numbers \ DatedNumbers(row)
-----------------------------------------------------------------------------
(***************************************************************************)
(* parseRouteNetworkCatalog: what a file must satisfy to be used.          *)
(***************************************************************************)
EntryParses(row) ==
  /\ row.code \in SharedCodes => row.entity # None
  /\ row.pair[1] # row.pair[2]
  /\ row.service = "scheduled-endpoint-pair" =>
       row.status = "published" /\ row.identity = "provider-listed" /\ row.dated # {}
  /\ row.candidates \cap row.numbers = {}
  /\ row.generic <=> GenericNumbers(row) # {}
  /\ row.hinted <=> row.candidates # {}

DatedParses(row, deadline) ==
  /\ \A e \in row.dated :
       /\ e.source \in DOMAIN deadline
       /\ e.number \in row.numbers \ row.candidates
       /\ e.times # {}
  /\ Cardinality({<<e.number, e.source>> : e \in row.dated}) = Cardinality(row.dated)

CatalogParses(network) ==
  LET routes == network.routes
  IN /\ \A row \in routes : EntryParses(row) /\ DatedParses(row, network.deadline)
     /\ Cardinality({<<Key(row), row.pair>> : row \in routes}) = Cardinality(routes)
     /\ \A row, other \in routes :
          row.code = other.code /\ Key(row) # Key(other) => row.entity # None
-----------------------------------------------------------------------------
(***************************************************************************)
(* routeFlightNumberFreshness.                                             *)
(***************************************************************************)
SourceFresh(e, deadline, at) == at < deadline[e.source]

ObservationCurrent(e, deadline, at) ==
  SourceFresh(e, deadline, at) /\ \E t \in e.times : at < t /\ t <= deadline[e.source]

Observations(row, number) == {e \in row.dated : e.number = number}

CurrentNumbers(row, deadline, at) ==
  {n \in row.numbers :
     \/ Observations(row, n) = {}
     \/ \E e \in Observations(row, n) : ObservationCurrent(e, deadline, at)}

StaleNumbers(row, deadline, at) ==
  {n \in row.numbers \ CurrentNumbers(row, deadline, at) :
     \A e \in Observations(row, n) : ~SourceFresh(e, deadline, at)}

PassedNumbers(row, deadline, at) ==
  row.numbers \ (CurrentNumbers(row, deadline, at) \cup StaleNumbers(row, deadline, at))

CandidateNumbers(row, deadline, at) ==
  (row.candidates \cup StaleNumbers(row, deadline, at) \cup PassedNumbers(row, deadline, at))
    \ CurrentNumbers(row, deadline, at)
-----------------------------------------------------------------------------
(***************************************************************************)
(* useEvidenceClock: look again when the evidence changes next.            *)
(***************************************************************************)
\* (Fault: the departures that pass are forgotten.)
Expiries(network) == Range(network.deadline)

\* nextEvidenceDeadline
Deadlines(network) ==
  Range(network.deadline) \cup UNION {e.times : e \in UNION {row.dated : row \in network.routes}}

NextMidnight(at) == (at \div DayLength) * DayLength + DayLength

NextChange(network, at) ==
  Min({NextMidnight(at)} \cup {d \in Deadlines(network) : d >= at})

\* arm: one millisecond after the change.
Armed(network, at) == Max({1, NextChange(network, at) - at + 1}) + at

\* The page is mounted: its first look is now.
Mount(network) ==
  /\ evidenceNow' = now
  /\ due' = Armed(network, now)

Unmount ==
  /\ due' = None
  /\ UNCHANGED evidenceNow

\* The effect runs again because the deadlines have changed: the timer is set anew,
\* the page does not look again.
Rearm(network) ==
  /\ due' = Armed(network, now)
  /\ UNCHANGED evidenceNow

Refresh(network) ==
  /\ due # None
  /\ evidenceNow' = now
  /\ due' = Armed(network, now)
  /\ UNCHANGED now

\* The timer fires when it is due or, in a throttled tab, later.
TimerFires(network) == due # None /\ now >= due /\ Refresh(network)

Tick ==
  /\ now < MaxTime
  /\ now' = now + 1
  /\ UNCHANGED <<evidenceNow, due>>

InitClock == now = 0 /\ evidenceNow = 0 /\ due = None
=============================================================================
