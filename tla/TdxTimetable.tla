--------------------------- MODULE TdxTimetable ---------------------------
(***************************************************************************)
(* What the TDX gateway makes of a route's timetable rows                  *)
(* (normalizeTdxSchedules, summarizeTdxSnapshot) and of the catalogues of  *)
(* who operates a flight number (operator-evidence.ts). TdxGateway says    *)
(* how the rows come; here one ordered pair of airports is asked about.    *)
(*                                                                         *)
(* A flight is <<airline, number>>, without padding. Rows that the schema  *)
(* of a row refuses are left out, and so are names and addresses of        *)
(* sources. A week has WeekLength days.                                    *)
(***************************************************************************)
EXTENDS Integers, Sequences, FiniteSets, SequencesExt

CONSTANTS
  Snapshots,  \* what TDX may answer: sequences of rows [airline, flight, here, from, until,
              \* weekdays, passenger, departure, arrival, shares, updated]; a clock is
              \* [time, offset], a share [airline, carrier, number]
  Reviewed,   \* reviewed operators, in order: [flight, from, until, checked, review]
  Services,   \* official services, in order, with [weekdays, added, removed] besides
  Charts,     \* timetable charts, in order, with [weekdays, verified, known] besides
  Others,     \* operators of other airlines' numbers, in order, with [operator] besides
  Dates, WeekLength,
  TTL,        \* how long rows are used after they were fetched (TTL)
  MaxAge,     \* and after TDX updated them (MAX_AGE)
  Skew,       \* how far ahead a time stamp may be
  Limit,      \* examples in a diagnosis (16)
  MaxTime,    \* bound of the model: times
  None

VARIABLES
  rows,     \* the snapshot of the route
  fetched,  \* when it was fetched
  now,
  answer    \* [at, days] of the last question to these rows, or None

vars == <<rows, fetched, now, answer>>

-----------------------------------------------------------------------------
(***************************************************************************)
(* Who operates a flight number (findOperatorEvidence).                    *)
(***************************************************************************)
Weekday(date) == date % WeekLength
Holds(source, at) == source.checked <= at + Skew /\ source.review > at
Covers(record, flight, date) ==
  record.flight = flight /\ record.from <= date /\ date <= record.until
FirstOrNone(records) == IF records = <<>> THEN None ELSE records[1]

\* The first service of that day counts, and only if its own review holds.
OfficialService(flight, date, at) ==
  LET first == FirstOrNone(SelectSeq(Services, LAMBDA s :
                 /\ Covers(s, flight, date) /\ date \notin s.removed
                 /\ date \in s.added \/ Weekday(date) \in s.weekdays))
  IN IF first # None /\ Holds(first, at) THEN first ELSE None
Chart(flight, date, at) ==
  LET first == FirstOrNone(SelectSeq(Charts, LAMBDA c :
                 c.verified /\ Covers(c, flight, date) /\ Weekday(date) \in c.weekdays))
  IN IF first # None /\ first.known /\ Holds(first, at) THEN first ELSE None

OperatorEvidence(flight, date, at) ==
  LET first == FirstOrNone(SelectSeq(Reviewed, LAMBDA r : Covers(r, flight, date)))
  IN IF first # None /\ Holds(first, at) THEN first
     ELSE IF OfficialService(flight, date, at) # None THEN OfficialService(flight, date, at)
     ELSE Chart(flight, date, at)

OtherOperator(flight, date, at) ==
  LET first == FirstOrNone(SelectSeq(Others, LAMBDA o : Covers(o, flight, date)))
  IN IF first # None /\ Holds(first, at) THEN first ELSE None

-----------------------------------------------------------------------------
(***************************************************************************)
(* The answer (normalizeTdxSchedules).                                     *)
(***************************************************************************)
\* A number without an airline belongs to none, and one with another airline's code is
\* not that airline's.
ShareIdentity(share) ==
  IF share.carrier = None
  THEN IF share.airline = None THEN None ELSE <<share.airline, share.number>>
  ELSE IF share.airline \in {None, share.carrier} THEN <<share.carrier, share.number>>
  ELSE None

Earlier(a, b) == IF a < b THEN a ELSE b
ReviewBy(row, since) == Earlier(since + TTL, row.updated + MaxAge)

CurrentPassengerRow(row, date, at) ==
  /\ row.here /\ row.from <= date /\ date <= row.until
  /\ Weekday(date) \in row.weekdays
  /\ row.passenger
  /\ row.flight # None /\ row.flight[1] = row.airline
  /\ row.updated <= fetched + Skew /\ at < ReviewBy(row, fetched)
  /\ row.departure # None => row.departure.offset \in {None, 0}

ActiveRows(list, date, at) == SelectSeq(list, LAMBDA r : CurrentPassengerRow(r, date, at))

\* Numbers that another row of that day claims as its own.
Aliases(active) ==
  UNION {{ShareIdentity(s) : s \in r.shares} \ {None, r.flight} : r \in Range(active)}

ArrivalDate(row, date) ==
  IF row.arrival = None \/ row.arrival.offset = None THEN None ELSE date + row.arrival.offset
ClockTime(clock) == IF clock = None THEN None ELSE clock.time
Times(row, date) ==
  [departure |-> ClockTime(row.departure), arrival |-> ClockTime(row.arrival),
   arrives |-> ArrivalDate(row, date)]

Entry(row, date, at) ==
  [flight |-> row.flight, times |-> Times(row, date), until |-> ReviewBy(row, fetched),
   evidence |-> OperatorEvidence(row.flight, date, at),
   other |-> IF OperatorEvidence(row.flight, date, at) # None THEN None
             ELSE OtherOperator(row.flight, date, at)]

\* The last row of a flight is told, and none if its rows disagree on the times.
DayEntries(list, date, at) ==
  LET active == ActiveRows(list, date, at)
      shown == SelectSeq(active, LAMBDA r : r.flight \notin Aliases(active))
      rowsOf(flight) == SelectSeq(shown, LAMBDA r : r.flight = flight)
      agreed == {f \in {r.flight : r \in Range(shown)} :
                   \A r, s \in Range(rowsOf(f)) : Times(r, date) = Times(s, date)}
  IN {Entry(Last(rowsOf(f)), date, at) : f \in agreed}

Published(entries) == {e \in entries : e.evidence # None}
References(entries) == {e \in entries : e.evidence = None}
Day(list, date, at) ==
  LET entries == DayEntries(list, date, at)
  IN [published |-> Published(entries), references |-> References(entries),
      issue |-> IF References(entries) = {} THEN "partial" ELSE "operator-unverified"]

-----------------------------------------------------------------------------
(***************************************************************************)
(* The diagnosis of the snapshot (summarizeTdxSnapshot): one example of    *)
(* each flight first, then what the limit leaves room for.                 *)
(***************************************************************************)
FirstOfFlight(i) == rows[i].flight # None /\ \A j \in 1 .. i - 1 : rows[j].flight # rows[i].flight
ExampleOrder ==
  LET first == SetToSortSeq({i \in DOMAIN rows : FirstOfFlight(i)}, <)
      other == SetToSortSeq({i \in DOMAIN rows : rows[i].flight # None /\ ~FirstOfFlight(i)}, <)
  IN [k \in 1 .. Len(first) + Len(other) |-> rows[(first \o other)[k]]]
Distinct == Range(ExampleOrder)
Examples ==
  {ExampleOrder[k] : k \in {i \in DOMAIN ExampleOrder :
     Cardinality({ExampleOrder[j] : j \in 1 .. i}) <= Limit}}
Omitted == Cardinality(Distinct) - Cardinality(Examples)

-----------------------------------------------------------------------------
Init ==
  /\ rows \in Snapshots /\ fetched = 0 /\ now = 0
  /\ answer = None

\* The gateway asks TDX again when its rows are too old (see TdxGateway).
Fetch(snapshot) ==
  /\ now >= fetched + TTL
  /\ rows' = snapshot /\ fetched' = now /\ answer' = None
  /\ UNCHANGED now

Ask ==
  /\ now < fetched + TTL
  /\ answer' = [at |-> now, days |-> [d \in Dates |-> Day(rows, d, now)]]
  /\ UNCHANGED <<rows, fetched, now>>

Pass ==
  /\ now < MaxTime
  /\ now' = now + 1
  /\ UNCHANGED <<rows, fetched, answer>>

Next == Ask \/ Pass \/ \E snapshot \in Snapshots : Fetch(snapshot)

Spec == Init /\ [][Next]_vars

-----------------------------------------------------------------------------
(***************************************************************************)
(* Properties.                                                             *)
(***************************************************************************)
TypeOK ==
  /\ rows \in Snapshots /\ now \in 0 .. MaxTime /\ fetched \in 0 .. now
  /\ answer # None => answer.at \in 0 .. now /\ DOMAIN answer.days = Dates

Answered == IF answer = None THEN {} ELSE
  UNION {{[date |-> d, entry |-> e] : e \in answer.days[d].published
            \union answer.days[d].references} : d \in Dates}

\* What is told has a row that says so: of this pair, on that day and weekday, leaving on
\* that day, updated recently enough for all of the time it is told for, and claimed by no
\* other row of the day. A flight is told as an airline's own only on evidence for that
\* number on that day which held when it was told; a number is either an airline's own or
\* another's, never both, and has one timetable.
RowSays(row, date, e) ==
  /\ row.flight = e.flight /\ row.airline = e.flight[1] /\ row.here /\ row.passenger
  /\ row.from <= date /\ date <= row.until /\ date % WeekLength \in row.weekdays
  /\ e.until <= row.updated + MaxAge
  /\ row.departure # None => row.departure.offset # 1
AnswersGrounded ==
  \A a \in Answered :
    LET e == a.entry
    IN /\ answer.at < e.until /\ e.until <= fetched + TTL
       /\ \E r \in Range(rows) : RowSays(r, a.date, e)
       /\ \A r \in Range(ActiveRows(rows, a.date, answer.at)) : \A s \in r.shares :
            ShareIdentity(s) = e.flight => r.flight = e.flight
       /\ e.evidence # None =>
            /\ e.other = None /\ e.evidence.flight = e.flight
            /\ e.evidence.from <= a.date /\ a.date <= e.evidence.until
            /\ e.evidence.checked - Skew <= answer.at /\ answer.at < e.evidence.review
       /\ e.other # None => answer.at < e.other.review
       /\ \A b \in Answered : a.date = b.date /\ e.flight = b.entry.flight => a = b

\* The answer does not depend on the order in which TDX lists its rows, but for the
\* time until which a flight is good.
Told(day) ==
  {[flight |-> e.flight, times |-> e.times, own |-> e.evidence # None, other |-> e.other] :
     e \in day.published \union day.references}
Reordered(p) == [i \in DOMAIN rows |-> rows[p[i]]]
OrderFree ==
  \A d \in Dates : \A p \in SetToSeqs(DOMAIN rows) :
    Told(Day(Reordered(p), d, now)) = Told(Day(rows, d, now))

\* What a reader keeps of an answer while the times it states have not passed is what
\* the gateway would say again: no row of the snapshot that has lapsed since can take it
\* back.
KeptAnswersHold ==
  \A a \in Answered : now < a.entry.until =>
    \E e \in DayEntries(rows, a.date, now) :
      /\ e.flight = a.entry.flight /\ e.times = a.entry.times
      /\ a.entry.evidence # None => now >= a.entry.evidence.review \/ e.evidence # None

\* A diagnosis says what it leaves out, and leaves out a flight only when the flights
\* alone are more than it may show.
DiagnosisFair ==
  LET flights == {r.flight : r \in Distinct}
  IN /\ Cardinality(Examples) <= Limit /\ (Omitted = 0 <=> Examples = Distinct)
     /\ Cardinality(flights) <= Limit => {r.flight : r \in Examples} = flights

TimetableSound == AnswersGrounded /\ OrderFree /\ KeptAnswersHold /\ DiagnosisFair
=============================================================================
