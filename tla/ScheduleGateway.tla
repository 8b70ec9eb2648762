-------------------------- MODULE ScheduleGateway --------------------------
(***************************************************************************)
(* The dated-schedule gateway of server/flight-schedules.ts: one object    *)
(* per server process that turns month queries into provider requests, one *)
(* per (airport pair, date), behind a cache, a map of pending requests,    *)
(* four request slots with a FIFO of waiters, and a request budget per UTC *)
(* day.                                                                    *)
(*                                                                         *)
(* The code is single-threaded JavaScript: what runs between two awaits is *)
(* one action, and every await is a point where other actions interleave.  *)
(* A "task" is one promise made by fetchDay; its phases are                *)
(*   queued  - suspended in `waiters`, holding no slot                     *)
(*   handed  - a finishing task resolved its waiter: slot held, not resumed *)
(*   calling - the provider request is outstanding                         *)
(*   settled - result computed and slot released; `.then` has not run      *)
(*   stored  - the cache is written; `.finally` has not run                *)
(***************************************************************************)
EXTENDS Integers, Sequences, FiniteSets, TLC

CONSTANTS
  Queries,     \* concurrent callers of query()
  Routes,      \* ordered airport pairs
  Tasks,       \* identities of fetchDay promises
  None,        \* JavaScript's undefined
  Slots,       \* concurrent provider requests (4 in the code)
  Budget,      \* provider requests per UTC day (dailyBudget)
  PendingCap,  \* queued work (128 in the code)
  CacheCap,    \* cache entries (1000 in the code)
  TTL,         \* freshness of a result, in clock ticks (15 minutes)
  DayLength,   \* ticks in a UTC day
  MaxTime,     \* bound on the clock
  MaxDate,     \* the last departure date a caller may ask for
  MaxSpan,     \* dates in one query (31 in the code)
  Horizon      \* days ahead the gateway will ask for (330 in the code)

ASSUME GatewayAssumption ==
  /\ None \notin Tasks /\ None \notin Queries /\ None \notin Nat
  /\ IsFiniteSet(Tasks)
  /\ Slots \in Nat \ {0} /\ Budget \in Nat \ {0}
  /\ PendingCap \in Nat /\ CacheCap \in Nat \ {0}
  /\ TTL \in Nat \ {0} /\ DayLength \in Nat \ {0}
  /\ MaxTime \in Nat /\ MaxDate \in Nat
  /\ MaxSpan \in Nat \ {0} /\ Horizon \in Nat

VARIABLES
  clock,       \* now()
  budgetDate, used, active, waiters, pending, cache,
  phase,       \* phase of each task, "idle" when the promise does not exist
  key,         \* the (route, date) a task fetches
  outcome,     \* what a settled task resolves to
  running,     \* the query whose synchronous loop over its dates is executing
  status,      \* of each query: idle, open (awaiting its days), done
  ask,         \* route, next date to map, first and last date, time of the call
  awaits,      \* the tasks a query holds promises of
  served,      \* the days a query has received
  spent        \* history: provider requests started on each UTC day

budgetVars == <<budgetDate, used, spent>>
taskVars   == <<phase, key, outcome>>
slotVars   == <<active, waiters>>
queryVars  == <<status, ask, awaits, served>>
vars == <<clock, budgetVars, slotVars, taskVars, pending, cache, running, queryVars>>

-----------------------------------------------------------------------------
Dates   == 0..MaxDate
Keys    == Routes \X Dates
DayOf(t) == t \div DayLength
Today   == DayOf(clock)
UTCDays == 0..DayOf(MaxTime)

Phases  == {"idle", "queued", "handed", "calling", "settled", "stored"}
\* Data is abstracted to the issue: every normalised answer, complete or
\* partial, is "answered".
FetchIssues == {"answered", "provider-error"}
Issues  == FetchIssues \cup {"budget-exceeded", "out-of-range"}
\* A DatedScheduleDay; checkedAt is `at` and expiresAt is at + TTL.
Result  == [date : Dates, issue : Issues, at : 0..MaxTime]
Entry   == [key : Keys, issue : Issues, at : 0..MaxTime]
Ask     == [route : Routes, next : Nat, first : Dates, last : Dates, since : 0..MaxTime]

\* (Fault: a day is served at the very instant it expires.)
NotYetPast(at) == at + TTL >= clock
Fresh(at)    == at + TTL > clock
InRange(d)   == Today - 1 <= d /\ d <= Today + Horizon
Day(d, issue) == [date |-> d, issue |-> issue, at |-> clock]
Pending      == {k \in Keys : pending[k] # None}
Holders      == {t \in Tasks : phase[t] \in {"handed", "calling"}}

\* The cache is a JavaScript Map: a key keeps the position of its first
\* insertion, and at capacity the first entry goes even when the key is there.
CacheSet(entry) ==
  LET room == IF Len(cache) >= CacheCap THEN Tail(cache) ELSE cache
  IN  IF \E i \in DOMAIN room : room[i].key = entry.key
      THEN [i \in DOMAIN room |-> IF room[i].key = entry.key THEN entry ELSE room[i]]
      ELSE Append(room, entry)

\* (Fault: only answers are reused, errors are asked for again.)
CachedAnswers(k) == {i \in DOMAIN cache : /\ cache[i].key = k /\ Fresh(cache[i].at)
                                         /\ cache[i].issue = "answered"}
Cached(k) == {i \in DOMAIN cache : cache[i].key = k /\ Fresh(cache[i].at)}

-----------------------------------------------------------------------------
Init ==
  /\ clock = 0
  /\ budgetDate = None /\ used = 0
  /\ spent = [d \in UTCDays |-> 0]
  /\ active = 0 /\ waiters = <<>>
  /\ phase = [t \in Tasks |-> "idle"]
  /\ key = [t \in Tasks |-> None]
  /\ outcome = [t \in Tasks |-> None]
  /\ pending = [k \in Keys |-> None]
  /\ cache = <<>>
  /\ running = None
  /\ status = [q \in Queries |-> "idle"]
  /\ ask = [q \in Queries |-> None]
  /\ awaits = [q \in Queries |-> {}]
  /\ served = [q \in Queries |-> {}]

Tick ==
  /\ clock < MaxTime
  /\ clock' = clock + 1
  /\ UNCHANGED <<budgetVars, slotVars, taskVars, pending, cache, running, queryVars>>

-----------------------------------------------------------------------------
(***************************************************************************)
(* fetchDay.                                                               *)
(***************************************************************************)

\* (Fault: the slot is freed and the waiters are never told.)
ReleaseForgetsWaiters(t, held) ==
  /\ active' = held - 1
  /\ phase' = [phase EXCEPT ![t] = "settled"]
  /\ UNCHANGED waiters

\* `finally`: a finishing task gives its slot to the first waiter, and only
\* when nobody waits does the count of slots in use go down.
ReleaseSlot(t, held) ==
  \/ /\ waiters = <<>>
     /\ active' = held - 1
     /\ phase' = [phase EXCEPT ![t] = "settled"]
     /\ UNCHANGED waiters
  \/ /\ waiters # <<>>
     /\ active' = held
     /\ waiters' = Tail(waiters)
     /\ phase' = [phase EXCEPT ![t] = "settled", ![Head(waiters)] = "handed"]

\* Either outcome of fetchDay, an answer or an error, is a day: it never throws.
Settle(t, d, issue, held) ==
  /\ outcome' = [outcome EXCEPT ![t] = Day(d, issue)]
  /\ ReleaseSlot(t, held)

\* (Fault: the count is not reset at midnight.)
UsedNeverReset == used
UsedToday == IF budgetDate = Today THEN used ELSE 0

\* (Fault: the last request of the day is allowed twice.)
MaySpendOnceMore == UsedToday <= Budget
MaySpend == UsedToday < Budget

\* From getting a slot to the provider request, with no await between. The
\* budget is read after the wait for a slot, on the day the wait ended.
UseSlot(t, d, held) ==
  /\ budgetDate' = Today
  /\ \/ /\ MaySpend
        /\ used' = UsedToday + 1
        /\ spent' = [spent EXCEPT ![Today] = @ + 1]
        /\ phase' = [phase EXCEPT ![t] = "calling"]
        /\ active' = held
        /\ UNCHANGED <<waiters, outcome>>
     \/ /\ ~MaySpend
        /\ used' = UsedToday
        /\ Settle(t, d, "budget-exceeded", held)
        /\ UNCHANGED spent

\* A waiter's promise was resolved by ReleaseSlot: it resumes with the slot.
Resume(t) ==
  /\ running = None
  /\ phase[t] = "handed"
  /\ UseSlot(t, key[t][2], active)
  /\ UNCHANGED <<clock, key, pending, cache, running, queryVars>>

\* The provider answers, fails, sends too much, or the 8 s timeout aborts it.
ProviderReturns(t) ==
  /\ running = None
  /\ phase[t] = "calling"
  /\ \E issue \in FetchIssues : Settle(t, key[t][2], issue, active)
  /\ UNCHANGED <<clock, budgetVars, key, pending, cache, running, queryVars>>

\* `.then`: the day is cached, whatever its issue.
StoreDay(t) ==
  /\ running = None
  /\ phase[t] = "settled"
  /\ cache' = CacheSet([key |-> key[t], issue |-> outcome[t].issue, at |-> outcome[t].at])
  /\ phase' = [phase EXCEPT ![t] = "stored"]
  /\ UNCHANGED <<clock, budgetVars, slotVars, key, outcome, pending, running, queryVars>>

\* `.finally(() => pending.delete(key))`, then every holder of the promise is
\* given the day.
Deliver(t) ==
  /\ running = None
  /\ phase[t] = "stored"
  /\ pending' = [pending EXCEPT ![key[t]] = None]
  /\ phase' = [phase EXCEPT ![t] = "idle"]
  /\ key' = [key EXCEPT ![t] = None]
  /\ outcome' = [outcome EXCEPT ![t] = None]
  /\ served' = [q \in Queries |-> IF t \in awaits[q] THEN served[q] \cup {outcome[t]}
                                                    ELSE served[q]]
  /\ awaits' = [q \in Queries |-> awaits[q] \ {t}]
  /\ UNCHANGED <<clock, budgetVars, slotVars, cache, running, status, ask>>

-----------------------------------------------------------------------------
(***************************************************************************)
(* query and getDay.                                                       *)
(***************************************************************************)

\* (Fault: the cap ignores the dates about to be queued.)
TooMuchWorkAlready(n) == Cardinality(Pending) >= PendingCap
TooMuchWork(n) == Cardinality(Pending) + n > PendingCap

\* The whole query is refused at once when its dates would overfill the queue.
Refuse(q, first, last) ==
  /\ TooMuchWork(last - first + 1)
  /\ status' = [status EXCEPT ![q] = "done"]
  /\ served' = [served EXCEPT ![q] = {Day(d, "budget-exceeded") : d \in first..last}]
  /\ UNCHANGED running

Accept(q, first, last) ==
  /\ ~TooMuchWork(last - first + 1)
  /\ status' = [status EXCEPT ![q] = "open"]
  /\ served' = [served EXCEPT ![q] = {}]
  /\ running' = q

\* schedule-http.ts calls query() straight from a request event, and Node runs
\* every due promise callback before the next event.
BetweenEvents ==
  /\ running = None
  /\ \A t \in Tasks : phase[t] \in {"idle", "queued", "calling"}
  /\ \A q \in Queries : status[q] = "open" => awaits[q] # {}

Query(q) ==
  /\ BetweenEvents
  /\ status[q] # "open"
  /\ \E r \in Routes, first, last \in Dates :
       /\ first <= last /\ last - first < MaxSpan
       /\ ask' = [ask EXCEPT ![q] = [route |-> r, next |-> first, first |-> first,
                                     last |-> last, since |-> clock]]
       /\ Refuse(q, first, last) \/ Accept(q, first, last)
  /\ UNCHANGED <<clock, budgetVars, slotVars, taskVars, pending, cache, awaits>>

\* The loop `dates.map((date) => getDay(query, date))` runs to its end before
\* anything else of the process does.
NextDate(q) ==
  /\ ask' = [ask EXCEPT ![q].next = @ + 1]
  /\ running' = IF ask[q].next = ask[q].last THEN None ELSE q

Serve(q, day) ==
  /\ served' = [served EXCEPT ![q] = @ \cup {day}]
  /\ UNCHANGED <<budgetVars, slotVars, taskVars, pending, awaits>>

OutOfRange(q, d) ==
  /\ ~InRange(d)
  /\ Serve(q, Day(d, "out-of-range"))

ServeCached(q, k) ==
  /\ InRange(k[2])
  /\ \E i \in Cached(k) :
       Serve(q, [date |-> k[2], issue |-> cache[i].issue, at |-> cache[i].at])

\* (Fault: pending requests are not looked up.)
NeverInFlight(k) == FALSE
InFlight(k) == pending[k] # None

JoinInFlight(q, k) ==
  /\ InRange(k[2]) /\ Cached(k) = {}
  /\ InFlight(k)
  /\ awaits' = [awaits EXCEPT ![q] = @ \cup {pending[k]}]
  /\ UNCHANGED <<budgetVars, slotVars, taskVars, pending, served>>

\* (Fault: one slot too many.)
SlotFreeOrLast == active <= Slots
SlotFree == active < Slots

\* A new promise: fetchDay runs synchronously up to its first await, which is
\* the queue when the slots are taken and the provider request otherwise.
StartTask(q, k) ==
  /\ InRange(k[2]) /\ Cached(k) = {}
  /\ ~InFlight(k)
  /\ \E t \in Tasks :
       /\ phase[t] = "idle"
       /\ key' = [key EXCEPT ![t] = k]
       /\ pending' = [pending EXCEPT ![k] = t]
       /\ awaits' = [awaits EXCEPT ![q] = @ \cup {t}]
       /\ \/ /\ ~SlotFree
             /\ waiters' = Append(waiters, t)
             /\ phase' = [phase EXCEPT ![t] = "queued"]
             /\ UNCHANGED <<budgetVars, active, outcome>>
          \/ /\ SlotFree
             /\ UseSlot(t, k[2], active + 1)
  /\ UNCHANGED served

GetDay(q) ==
  /\ running = q
  /\ NextDate(q)
  /\ LET k == <<ask[q].route, ask[q].next>>
     IN  \/ OutOfRange(q, ask[q].next)
         \/ ServeCached(q, k)
         \/ JoinInFlight(q, k)
         \/ StartTask(q, k)
  /\ UNCHANGED <<clock, cache, status>>

\* (Fault: the response is sent without awaiting its days.)
RespondAtOnce(q) ==
  /\ running = None
  /\ status[q] = "open"
  /\ status' = [status EXCEPT ![q] = "done"]
  /\ UNCHANGED <<clock, budgetVars, slotVars, taskVars, pending, cache, running,
                 ask, awaits, served>>

\* Promise.all has resolved: the response is sent.
Respond(q) ==
  /\ running = None
  /\ status[q] = "open"
  /\ awaits[q] = {}
  /\ status' = [status EXCEPT ![q] = "done"]
  /\ UNCHANGED <<clock, budgetVars, slotVars, taskVars, pending, cache, running,
                 ask, awaits, served>>

-----------------------------------------------------------------------------
Next ==
  \/ Tick
  \/ \E t \in Tasks : Resume(t) \/ ProviderReturns(t) \/ StoreDay(t) \/ Deliver(t)
  \/ \E q \in Queries : Query(q) \/ GetDay(q) \/ Respond(q)

\* Callers may stop calling, and time need not pass. Synchronous code and
\* promise callbacks run to the end. AbortSignal.timeout(8000) bounds every
\* provider request, its body included, and the event loop does not pass over
\* a ready event for ever while other requests keep arriving: strong fairness.
Fairness ==
  /\ \A t \in Tasks : /\ WF_vars(Resume(t)) /\ SF_vars(ProviderReturns(t))
                     /\ WF_vars(StoreDay(t)) /\ WF_vars(Deliver(t))
  /\ \A q \in Queries : WF_vars(GetDay(q)) /\ WF_vars(Respond(q))

Spec == Init /\ [][Next]_vars
FairSpec == Spec /\ Fairness

-----------------------------------------------------------------------------
(***************************************************************************)
(* Properties.                                                             *)
(***************************************************************************)

\* The values every variable may take.
TypeOK ==
  /\ clock \in 0..MaxTime
  /\ budgetDate \in UTCDays \cup {None} /\ used \in Nat
  /\ spent \in [UTCDays -> Nat]
  /\ active \in Nat /\ waiters \in Seq(Tasks)
  /\ phase \in [Tasks -> Phases]
  /\ key \in [Tasks -> Keys \cup {None}]
  /\ outcome \in [Tasks -> Result \cup {None}]
  /\ pending \in [Keys -> Tasks \cup {None}]
  /\ cache \in Seq(Entry)
  /\ running \in Queries \cup {None}
  /\ status \in [Queries -> {"idle", "open", "done"}]
  /\ ask \in [Queries -> Ask \cup {None}]
  /\ awaits \in [Queries -> SUBSET Tasks]
  /\ served \in [Queries -> SUBSET Result]

\* The slot hand-off in fetchDay's `finally` neither leaks nor mints a slot:
\* `active` counts exactly the tasks that hold one, there are never more than
\* Slots, and no slot is free while a task waits in the queue.
SlotAccounting ==
  /\ active = Cardinality(Holders)
  /\ active <= Slots
  /\ waiters # <<>> => active = Slots
  /\ {waiters[i] : i \in DOMAIN waiters} = {t \in Tasks : phase[t] = "queued"}
  /\ \A i, j \in DOMAIN waiters : waiters[i] = waiters[j] => i = j

\* The `pending` map coalesces: two promises never exist for one (pair, date),
\* and the map holds exactly the promises that have not run their `.finally`.
SingleFlight ==
  /\ \A t \in Tasks : phase[t] # "idle" => pending[key[t]] = t
  /\ \A k \in Pending : phase[pending[k]] # "idle" /\ key[pending[k]] = k

\* The ceiling counts requests on the UTC day they start, whatever the queue
\* and midnight do between the query and the request.
DailyCeiling == \A d \in UTCDays : spent[d] <= Budget

\* Neither map grows without bound: query()'s one check, made before its loop,
\* keeps the queue within PendingCap, and eviction keeps one entry per key.
BoundedMemory ==
  /\ Cardinality(Pending) <= PendingCap
  /\ Len(cache) <= CacheCap
  /\ \A i, j \in DOMAIN cache : cache[i].key = cache[j].key => i = j

\* A request is refused for want of budget only on a day whose budget has all
\* been spent, also when its answer is still cached afterwards.
HonestRefusal ==
  /\ \A t \in Tasks : phase[t] \in {"settled", "stored"} =>
       (outcome[t].issue = "budget-exceeded" => spent[DayOf(outcome[t].at)] = Budget)
  /\ \A i \in DOMAIN cache :
       cache[i].issue = "budget-exceeded" => spent[DayOf(cache[i].at)] = Budget

\* A response has one day for each date asked for, and no other, although its
\* days come from the cache, from promises of other queries, and from its own.
ExactResponse ==
  \A q \in Queries : status[q] = "done" =>
    /\ {day.date : day \in served[q]} = ask[q].first..ask[q].last
    /\ Cardinality(served[q]) = ask[q].last - ask[q].first + 1

\* No day of a response had expired when its query was made.
FreshWhenAsked ==
  \A q \in Queries : status[q] # "idle" =>
    \A day \in served[q] : day.at + TTL > ask[q].since

\* No provider request starts for a (pair, date) while the cache holds an
\* unexpired day for it, an error or a refusal included: the cached check and
\* the request are separated by the wait for a slot.
NoCallWhileFresh ==
  [][\A t \in Tasks : phase[t] # "calling" /\ phase'[t] = "calling" =>
       ~\E i \in DOMAIN cache : cache[i].key = key'[t] /\ cache[i].at + TTL > clock]_vars

\* Every accepted query is answered, however long the queue: the hand-off
\* never loses a waiter.
QueriesAnswered == \A q \in Queries : status[q] = "open" ~> status[q] = "done"

\* The gateway is a metered provider client (ProviderBudget).
PB == INSTANCE ProviderBudget WITH
        Callers <- Tasks, Days <- UTCDays, day <- Today,
        calls <- {t \in Tasks : phase[t] = "calling"}
ImplementsBudget == PB!Spec
-----------------------------------------------------------------------------
\* Queries and tasks are interchangeable; no property names one.
Symmetry == Permutations(Queries) \cup Permutations(Tasks)
=============================================================================
