---------------------------- MODULE FlightDates ----------------------------
(***************************************************************************)
(* The flight dates panel (src/components/FlightDatesPanel.tsx) with the   *)
(* view of a day it shows (dated-flight-status.ts), the client that        *)
(* fetches a month (flight-schedule-client.ts) and the bundled timetables  *)
(* merged into the answer (official-schedules.ts).                         *)
(*                                                                         *)
(* A date is a day of the shown month; a month is a number. A flight is a  *)
(* designator. A source of evidence is when it was checked and until when  *)
(* it may be shown.                                                        *)
(***************************************************************************)
EXTENDS Integers, FiniteSetsExt

CONSTANTS
  Months,      \* consecutive months the user can turn to
  Dates,       \* 1..n, the days of a month
  Designators, \* flight designators
  Wanted,      \* designators of the carriers and flight the panel is for
  DayKinds,    \* what a supplier may say of a day, with times relative to now
  Official,    \* rows of the bundled timetables: [date, flight, source, operator]
  HasBase,     \* a gateway is configured (VITE_SCHEDULE_API_BASE)
  OfficialTTL, \* how long a day made from the timetables may be shown
  Skew,        \* tolerated difference of clocks (60000 ms)
  MaxDelay,    \* longest delay setTimeout can take (2^31 - 1 ms)
  None,
  MaxSerial,   \* bound: month queries of one mounted panel
  MaxClock     \* bound: time

VARIABLES
  time,      \* Date.now()
  month,     \* the month shown
  selected,  \* selectedDate
  answer,    \* `response`: None or [serial, month, days]
  status,    \* `state`: idle, loading, ready or error
  clock,     \* the time views are computed for
  serial,    \* serial.current
  picked,    \* datePicked.current: the user clicked a date of this month
  requests,  \* [serial, month] of fetches not yet settled
  chosen     \* what onChoose was called with last: None or [date, flight, live]

vars == <<time, month, selected, answer, status, clock, serial, picked, requests, chosen>>

Source == [checked : Int, until : Int]
Row    == [flight : Designators, source : Source, operator : Source \cup {None}]
Issues == {None, "partial", "operator-unverified", "other"}

\* A day of a month, as a supplier or the timetables have it.
DayRecords ==
  [complete : BOOLEAN, issue : Issues, flights : SUBSET Designators,
   published : SUBSET Row, references : SUBSET Source, live : Source]

PanelAssumption ==
  /\ None \notin Source /\ OfficialTTL \in Int /\ Skew \in Int
  /\ DayKinds \subseteq DayRecords
  /\ \A r \in Official : /\ r.flight \in Designators /\ r.source \in Source
                         /\ r.operator \in Source \cup {None}

Fresh(source, t) == source.checked <= t + Skew /\ source.until > t

-----------------------------------------------------------------------------
(***************************************************************************)
(* flightDayView: what may be said of a day at time t.                     *)
(***************************************************************************)
RowFresh(row, t) ==
  Fresh(row.source, t) /\ (row.operator = None \/ Fresh(row.operator, t))

View(status_, flights, published, references) ==
  [status |-> status_, flights |-> flights, published |-> published, references |-> references]

DayView(day, t) ==
  LET published  == {row \in day.published : row.flight \in Wanted /\ RowFresh(row, t)}
      references == {source \in day.references : Fresh(source, t)}
      live       == Fresh(day.live, t)
      flights    == day.flights \cap Wanted
  IN CASE published # {} /\ ~(day.complete /\ live) ->
            LET fs == IF live /\ day.issue \in {None, "partial"} THEN flights ELSE {}
            IN View(IF fs # {} THEN "scheduled" ELSE "published", fs, published, references)
       [] published = {} /\ references # {} /\ ~day.complete
          /\ day.issue \in {None, "partial", "operator-unverified"} ->
            LET fs == IF live THEN flights ELSE {}
            IN View(IF fs # {} THEN "scheduled" ELSE "unknown", fs, {}, references)
       [] OTHER ->
            IF day.issue \notin {None, "partial"} \/ ~live THEN View("unknown", {}, {}, {})
            ELSE IF flights # {} THEN View("scheduled", flights, {}, {})
            ELSE View(IF day.complete THEN "none" ELSE "unknown", {}, {}, {})

Positive(view) == view.status \in {"scheduled", "published"}

-----------------------------------------------------------------------------
(***************************************************************************)
(* queryOfficialSchedules and mergeOfficialSchedules.                      *)
(***************************************************************************)
OfficialRows(date, t) ==
  {[flight |-> row.flight, source |-> row.source, operator |-> row.operator] :
     row \in {r \in Official : r.date = date /\ Fresh(r.source, t)}}

OfficialDays(t) ==
  [d \in Dates |-> [complete |-> FALSE, issue |-> "partial", flights |-> {},
                    published |-> OfficialRows(d, t), references |-> {},
                    live |-> [checked |-> t, until |-> t + OfficialTTL]]]

\* A fresh complete day stands; otherwise rows are added for designators the
\* supplier does not list, its own rows before those of the timetables.
MergeDay(primary, fallback, t) ==
  LET live     == Fresh(primary.live, t)
      occupied == IF live THEN primary.flights ELSE {}
      usable(rows) == {r \in rows : r.flight \notin occupied /\ Fresh(r.source, t)}
      own   == usable(primary.published)
      added == {r \in usable(fallback.published) : \A o \in own : o.flight # r.flight}
  IN IF primary.complete /\ live THEN primary
     ELSE [primary EXCEPT !.published = own \cup added]

\* A supplier's day, its times made absolute.
Dated(kind, t) ==
  LET at(source) == [checked |-> source.checked + t, until |-> source.until + t]
  IN [kind EXCEPT !.live = at(@),
                  !.references = {at(s) : s \in @},
                  !.published = {[r EXCEPT !.source = at(@),
                                           !.operator = IF @ = None THEN None ELSE at(@)] : r \in @}]
-----------------------------------------------------------------------------
Init ==
  /\ time = 0 /\ month \in Months
  /\ selected = 1 /\ answer = None /\ status = "idle" /\ clock = time
  /\ serial = 0 /\ picked = FALSE /\ requests = {} /\ chosen = None

Tick ==
  /\ time < MaxClock
  /\ time' = time + 1
  /\ UNCHANGED <<month, selected, answer, status, clock, serial, picked, requests, chosen>>

\* The response is shown only while it is of the month shown.
Current == answer # None /\ answer.month = month

ChangeMonth(m) ==
  /\ m \in Months /\ m \in {month - 1, month + 1}
  /\ serial < MaxSerial
  /\ serial' = serial + 1
  /\ month' = m /\ selected' = 1 /\ picked' = FALSE
  /\ answer' = None /\ status' = "idle"
  /\ UNCHANGED <<time, clock, requests, chosen>>

PickDate(d) ==
  /\ selected' = d /\ picked' = TRUE
  /\ UNCHANGED <<time, month, answer, status, clock, serial, requests, chosen>>

\* The button is disabled while loading, and without anything to ask.
QueryMonth ==
  /\ status # "loading"
  /\ HasBase \/ Official # {}
  /\ serial < MaxSerial
  /\ serial' = serial + 1
  /\ requests' = requests \cup {[serial |-> serial + 1, month |-> month]}
  /\ status' = "loading" /\ answer' = None
  /\ UNCHANGED <<time, month, selected, clock, picked, chosen>>

\* (Fault: an answer is taken whichever request it is of.)
IsLatestFault(q) == TRUE

IsLatest(q) == q.serial = serial

\* The date moves to the first one with flights unless the user picked one or
\* the date selected is itself worth showing.
MayMove(view) == ~picked /\ ~Positive(view) /\ view.references = {}

FirstWith(days, t, P(_)) ==
  LET good == {d \in Dates : P(DayView(days[d], t))}
  IN IF good = {} THEN None ELSE Min(good)

DateToShow(days) ==
  LET positive == FirstWith(days, time, Positive)
      listed   == FirstWith(days, time, LAMBDA view : view.references # {})
      first    == IF positive # None THEN positive ELSE listed
  IN IF MayMove(DayView(days[selected], time)) /\ first # None THEN first ELSE selected

\* The gateway's days arrive, or without a gateway those of the timetables. An
\* aborted request may still come to this point when its body was already read.
Answered(q, kinds) ==
  LET primary == IF HasBase THEN [d \in Dates |-> Dated(kinds[d], time)] ELSE OfficialDays(time)
      days == IF HasBase THEN [d \in Dates |-> MergeDay(primary[d], OfficialDays(time)[d], time)]
              ELSE primary
  IN /\ q \in requests
     /\ requests' = requests \ {q}
     /\ IF IsLatest(q)
        THEN /\ clock' = time
             /\ answer' = [serial |-> q.serial, month |-> q.month, days |-> days]
             /\ status' = "ready"
             /\ selected' = DateToShow(days)
        ELSE UNCHANGED <<clock, answer, status, selected>>
     /\ UNCHANGED <<time, month, serial, picked, chosen>>

\* Aborted, timed out after 70 s, refused, invalid, or of another query.
Failed(q) ==
  /\ HasBase
  /\ q \in requests
  /\ requests' = requests \ {q}
  /\ IF q.serial = serial
     THEN /\ clock' = time
          /\ answer' = [serial |-> q.serial, month |-> q.month, days |-> OfficialDays(time)]
          /\ status' = "error"
     ELSE UNCHANGED <<clock, answer, status>>
  /\ UNCHANGED <<time, month, selected, serial, picked, chosen>>

\* The timer waits for the first of these after `clock`.
Expiries ==
  IF Current
  THEN UNION {{day.live.until} \cup {r.source.until : r \in day.published}
                \cup {s.until : s \in day.references} : day \in {answer.days[d] : d \in Dates}}
  ELSE {}

TimerDue ==
  LET pending == {e \in Expiries : e > clock}
  IN pending # {} /\ (time >= Min(pending) \/ Min(pending) - clock > MaxDelay)

TimerFires ==
  /\ TimerDue
  /\ clock' = time
  /\ UNCHANGED <<time, month, selected, answer, status, serial, picked, requests, chosen>>

Shown(d) == DayView(answer.days[d], clock)

\* (Fault: the click is checked against the view that was drawn.)
NowForChoiceFault == clock

NowForChoice == time

Listed(view, f, live) ==
  IF live THEN f \in view.flights ELSE \E r \in view.published : r.flight = f

\* A click on a supplier's flight or on a published row; it is looked up again.
Choose(f, live) ==
  /\ Current /\ Listed(Shown(selected), f, live)
  /\ IF Listed(DayView(answer.days[selected], NowForChoice), f, live)
     THEN chosen' = [date |-> selected, flight |-> f, live |-> live] /\ UNCHANGED clock
     ELSE clock' = time /\ UNCHANGED chosen
  /\ UNCHANGED <<time, month, selected, answer, status, serial, picked, requests>>

\* Closed and opened again: a new panel, whose predecessor's answers are void.
Reopen ==
  /\ selected' = 1 /\ answer' = None /\ status' = "idle" /\ clock' = time
  /\ serial' = 0 /\ picked' = FALSE /\ requests' = {} /\ chosen' = None
  /\ month' \in Months
  /\ UNCHANGED time

Next ==
  \/ Tick
  \/ \E m \in Months : ChangeMonth(m)
  \/ \E d \in Dates : PickDate(d)
  \/ QueryMonth
  \/ \E q \in requests, kinds \in [Dates -> DayKinds] : Answered(q, kinds)
  \/ \E q \in requests : Failed(q)
  \/ TimerFires
  \/ \E f \in Wanted, live \in BOOLEAN : Choose(f, live)
  \/ Reopen

Spec == Init /\ [][Next]_vars
-----------------------------------------------------------------------------
(***************************************************************************)
(* Properties.                                                             *)
(***************************************************************************)
\* Type invariant.
TypeOK ==
  /\ time \in 0..MaxClock /\ clock \in 0..time
  /\ month \in Months /\ selected \in Dates /\ serial \in 0..MaxSerial
  /\ status \in {"idle", "loading", "ready", "error"} /\ picked \in BOOLEAN
  /\ requests \subseteq [serial : 1..MaxSerial, month : Months]
  /\ answer # None => answer.serial \in 1..MaxSerial /\ DOMAIN answer.days = Dates

\* Whatever order aborted, superseded and late answers come in, the panel shows
\* that of its last query, for the month it is on, and says it is loading only
\* while that query can still be answered (queryMonth, changeMonth).
OnlyTheLastQuery ==
  /\ answer # None => answer.serial = serial /\ answer.month = month
  /\ status = "loading" => [serial |-> serial, month |-> month] \in requests

\* With no timer due, nothing is shown as scheduled or published on a supplier's
\* answer or a publication that has expired by now.
ShownEvidenceFresh ==
  Current /\ ~TimerDue => \A d \in Dates :
    /\ Shown(d).flights # {} => Fresh(answer.days[d].live, time)
    /\ \A r \in Shown(d).published : Fresh(r.source, time)

\* Both: what is drawn is the last query's answer, as far as it holds by now.
ShownIsCurrent == OnlyTheLastQuery /\ ShownEvidenceFresh

\* The same of the evidence for who operates the flight: "A displayed positive
\* must expire even when the user leaves the page open" (FlightDatesPanel.tsx:88).
ShownOperatorsFresh ==
  Current /\ ~TimerDue => \A d \in Dates : \A r \in Shown(d).published :
    r.operator = None \/ Fresh(r.operator, time)

\* A flight handed to the itinerary rests on evidence that holds at that moment,
\* however long ago it was drawn (choose).
ChoiceHolds ==
  chosen' # chosen /\ chosen' # None =>
    LET day == answer.days[chosen'.date] IN
    IF chosen'.live THEN Fresh(day.live, time)
    ELSE \E r \in day.published : r.flight = chosen'.flight /\ RowFresh(r, time)

ChoiceHoldsNow == [][ChoiceHolds]_vars
=============================================================================
