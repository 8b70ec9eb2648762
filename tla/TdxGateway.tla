----------------------------- MODULE TdxGateway -----------------------------
(***************************************************************************)
(* The TDX gateway of server/tdx-schedules.ts: month queries are answered  *)
(* from one paged snapshot per airport pair, fetched under an access token *)
(* that all requests share.                                                *)
(*                                                                         *)
(* A "task" is one promise made by fetchRoute. Its phases are              *)
(*   queued   - suspended in `waiters`, holding no slot                    *)
(*   handed   - a finishing task resolved its waiter: slot held            *)
(*   token    - awaiting the shared token request (`tokenTask`)            *)
(*   armed    - getToken has resolved; the page is not asked for yet       *)
(*   asking   - a page request is outstanding                              *)
(*   returned - the provider's reply is there and has not been looked at   *)
(*   denied   - getToken or spend has thrown; `finally` has not run        *)
(*   settled  - slot released; `.then` has not run                         *)
(*   stored   - `.finally` has not run                                     *)
(* As in ScheduleGateway one action is what runs between two awaits.       *)
(***************************************************************************)
EXTENDS Integers, Sequences, FiniteSets, TLC

CONSTANTS
  Queries,     \* concurrent callers of query()
  Routes,      \* ordered airport pairs
  Served,      \* the pairs that touch Taiwan
  Tasks,       \* identities of fetchRoute promises
  None,        \* null, undefined
  Slots,       \* routes fetched at once (4 in the code)
  Budget,      \* provider requests per UTC day, tokens and retries included
  PendingCap,  \* routes in flight or queued (16 in the code)
  CacheCap,    \* snapshots kept (64 in the code)
  MaxPages,    \* pages of one snapshot (5 in the code)
  TTL,         \* freshness of a snapshot (4 hours)
  Margin,      \* a token this close to its end is not used (60 s)
  Lifetimes,   \* what the provider may answer for expires_in
  DayLength,   \* ticks in a UTC day
  MaxTime      \* bound on the clock

ASSUME TdxAssumption ==
  /\ None \notin Tasks /\ None \notin Queries /\ None \notin Nat
  /\ Served \subseteq Routes
  /\ IsFiniteSet(Tasks) /\ IsFiniteSet(Routes)
  /\ Slots \in Nat \ {0} /\ Budget \in Nat \ {0}
  /\ PendingCap \in Nat \ {0} /\ CacheCap \in Nat \ {0} /\ MaxPages \in Nat \ {0}
  /\ TTL \in Nat \ {0} /\ Margin \in Nat /\ Lifetimes \subseteq Nat
  /\ DayLength \in Nat \ {0} /\ MaxTime \in Nat

VARIABLES
  clock,       \* now()
  budgetDay, used, active, waiters, token, tokenTask, pending, cache,
  phase,       \* phase of each task, "idle" when the promise does not exist
  route,       \* the pair a task fetches
  page,        \* the loop variable of fetchRoute
  rows,        \* the pages collected: page number and whether it was full
  access,      \* the token value the task uses
  refused,     \* the token a 401 refused on this page, None before a retry
  reply,       \* what the provider replied
  result,      \* what the promise resolves or rejects with
  status,      \* of each query: idle, open, done
  ask,         \* route and time of a query
  awaits,      \* the task a query awaits
  answer,      \* the response of a query
  tokenCalls,  \* history: tasks whose token request is outstanding
  issued,      \* history: tokens the provider has issued
  spent        \* history: provider requests started on each UTC day

budgetVars == <<budgetDay, used, spent>>
slotVars   == <<active, waiters>>
tokenVars  == <<token, tokenTask, tokenCalls, issued>>
pageVars   == <<route, page, rows, access, refused, reply>>
queryVars  == <<status, ask, awaits, answer>>
vars == <<clock, budgetVars, slotVars, tokenVars, pageVars, phase, result,
          pending, cache, queryVars>>

-----------------------------------------------------------------------------
DayOf(t) == t \div DayLength
Today    == DayOf(clock)
UTCDays  == 0..DayOf(MaxTime)

Phases   == {"idle", "queued", "handed", "token", "armed", "asking", "returned",
             "denied", "settled", "stored"}
Replies  == {"full", "short", "failed", "refused"}
Issues   == {"answered", "provider-error", "budget-exceeded", "out-of-range"}
Page     == [page : Nat, full : BOOLEAN]
\* { rows, fetchedAt }, or the error: data is abstracted to the pages' shape.
Result   == [issue : Issues, rows : Seq(Page), at : 0..MaxTime]
Snapshot == [route : Routes, rows : Seq(Page), at : 0..MaxTime]

Unknown(issue) == [issue |-> issue, rows |-> <<>>, at |-> clock]
Answered(pages, at) == [issue |-> "answered", rows |-> pages, at |-> at]

Holders  == {t \in Tasks : phase[t] \in {"handed", "token", "armed", "asking",
                                         "returned", "denied"}}
Pending  == {r \in Routes : pending[r] # None}
Calls    == tokenCalls \cup {t \in Tasks : phase[t] = "asking"}

Cached(r) == {i \in DOMAIN cache : cache[i].route = r /\ cache[i].at + TTL > clock}

\* A Map at capacity loses its first entry even when the key is present, and a
\* key keeps its position.
CacheSet(entry) ==
  LET room == IF Len(cache) >= CacheCap THEN Tail(cache) ELSE cache
  IN  IF \E i \in DOMAIN room : room[i].route = entry.route
      THEN [i \in DOMAIN room |-> IF room[i].route = entry.route THEN entry ELSE room[i]]
      ELSE Append(room, entry)

Init ==
  /\ clock = 0
  /\ budgetDay = None /\ used = 0 /\ spent = [d \in UTCDays |-> 0]
  /\ active = 0 /\ waiters = <<>>
  /\ token = None /\ tokenTask = None /\ tokenCalls = {} /\ issued = 0
  /\ phase = [t \in Tasks |-> "idle"]
  /\ route = [t \in Tasks |-> None]
  /\ page = [t \in Tasks |-> 0]
  /\ rows = [t \in Tasks |-> <<>>]
  /\ access = [t \in Tasks |-> None]
  /\ refused = [t \in Tasks |-> None]
  /\ reply = [t \in Tasks |-> None]
  /\ result = [t \in Tasks |-> None]
  /\ pending = [r \in Routes |-> None]
  /\ cache = <<>>
  /\ status = [q \in Queries |-> "idle"]
  /\ ask = [q \in Queries |-> None]
  /\ awaits = [q \in Queries |-> None]
  /\ answer = [q \in Queries |-> None]

Tick ==
  /\ clock < MaxTime
  /\ clock' = clock + 1
  /\ UNCHANGED <<budgetVars, slotVars, tokenVars, pageVars, phase, result,
                 pending, cache, queryVars>>

-----------------------------------------------------------------------------
(***************************************************************************)
(* spend and getToken.                                                     *)
(***************************************************************************)
UsedToday == IF budgetDay = Today THEN used ELSE 0
\* (Fault: yesterday's requests count.)
MaySpendNeverReset == used < Budget
MaySpend  == UsedToday < Budget

Spend ==
  /\ MaySpend
  /\ budgetDay' = Today
  /\ used' = UsedToday + 1
  /\ spent' = [spent EXCEPT ![Today] = @ + 1]

\* spend() throws; the counter has still been reset at midnight.
SpendThrows ==
  /\ ~MaySpend
  /\ budgetDay' = Today
  /\ used' = UsedToday
  /\ UNCHANGED spent

\* The task's promise is going to reject.
Deny(t, issue) ==
  /\ phase' = [phase EXCEPT ![t] = "denied"]
  /\ result' = [result EXCEPT ![t] = Unknown(issue)]

UsableToken(tok) == tok # None /\ tok.until > clock + Margin

HaveToken(t, tok) ==
  /\ UsableToken(tok)
  /\ phase' = [phase EXCEPT ![t] = "armed"]
  /\ access' = [access EXCEPT ![t] = tok.id]
  /\ UNCHANGED <<budgetVars, tokenTask, tokenCalls, result>>

\* (Fault: a token request in flight is not shared.)
NoTokenTask == TRUE
NeedsTokenRequest == tokenTask = None

JoinToken(t, tok) ==
  /\ ~UsableToken(tok)
  /\ ~NeedsTokenRequest
  /\ phase' = [phase EXCEPT ![t] = "token"]
  /\ UNCHANGED <<budgetVars, access, tokenTask, tokenCalls, result>>

RequestToken(t, tok) ==
  /\ ~UsableToken(tok)
  /\ NeedsTokenRequest
  /\ \/ /\ Spend
        /\ tokenTask' = t
        /\ tokenCalls' = tokenCalls \cup {t}
        /\ phase' = [phase EXCEPT ![t] = "token"]
        /\ UNCHANGED result
     \/ /\ SpendThrows
        /\ Deny(t, "budget-exceeded")
        /\ UNCHANGED <<tokenTask, tokenCalls>>
  /\ UNCHANGED access

\* getToken, up to its first await, when `token` is tok.
GetToken(t, tok) ==
  /\ HaveToken(t, tok) \/ JoinToken(t, tok) \/ RequestToken(t, tok)
  /\ UNCHANGED issued

\* A token lives from its answer on. All who await the promise are resumed;
\* tokenTask is cleared before any of them.
TokenReturns(t) ==
  /\ t \in tokenCalls
  /\ tokenCalls' = tokenCalls \ {t}
  /\ tokenTask' = None
  /\ LET joined == {u \in Tasks : phase[u] = "token"}
     IN  \/ \E life \in Lifetimes :
              /\ issued' = issued + 1
              /\ token' = [id |-> issued + 1, until |-> clock + life]
              /\ access' = [u \in Tasks |-> IF u \in joined THEN issued + 1 ELSE access[u]]
              /\ phase' = [u \in Tasks |-> IF u \in joined THEN "armed" ELSE phase[u]]
              /\ UNCHANGED result
         \/ /\ phase' = [u \in Tasks |-> IF u \in joined THEN "denied" ELSE phase[u]]
            /\ result' = [u \in Tasks |-> IF u \in joined
                                          THEN Unknown("provider-error") ELSE result[u]]
            /\ UNCHANGED <<token, issued, access>>
  /\ UNCHANGED <<clock, budgetVars, slotVars, route, page, rows, refused, reply,
                 pending, cache, queryVars>>

-----------------------------------------------------------------------------
(***************************************************************************)
(* fetchRoute.                                                             *)
(***************************************************************************)

\* (Fault: the slot is always given back, also when it has just been handed on.)
ReleaseTwice(t) ==
  /\ active' = active - 1
  /\ waiters' = IF waiters = <<>> THEN waiters ELSE Tail(waiters)
  /\ phase' = [u \in Tasks |-> IF u = t THEN "settled"
                              ELSE IF waiters # <<>> /\ u = Head(waiters) THEN "handed"
                              ELSE phase[u]]

\* (Fault: the slot is freed and the waiters are never told.)
ReleaseForgetsWaiters(t) ==
  /\ active' = active - 1
  /\ phase' = [phase EXCEPT ![t] = "settled"]
  /\ UNCHANGED waiters

\* `finally`: the slot passes to the first waiter, or is free.
ReleaseSlot(t) ==
  \/ /\ waiters = <<>>
     /\ active' = active - 1
     /\ phase' = [phase EXCEPT ![t] = "settled"]
     /\ UNCHANGED waiters
  \/ /\ waiters # <<>>
     /\ waiters' = Tail(waiters)
     /\ phase' = [phase EXCEPT ![t] = "settled", ![Head(waiters)] = "handed"]
     /\ UNCHANGED active

Settle(t, res) ==
  /\ result' = [result EXCEPT ![t] = res]
  /\ ReleaseSlot(t)
  /\ UNCHANGED <<budgetVars, tokenVars, access>>

\* The waiter of a released slot resumes and starts its first page.
Resume(t) ==
  /\ phase[t] = "handed"
  /\ GetToken(t, token)
  /\ UNCHANGED <<clock, slotVars, token, route, page, rows, refused, reply,
                 pending, cache, queryVars>>

\* `spend(); await fetchImpl(url, ...)`
AskPage(t) ==
  /\ phase[t] = "armed"
  /\ \/ /\ Spend
        /\ phase' = [phase EXCEPT ![t] = "asking"]
        /\ UNCHANGED result
     \/ /\ SpendThrows
        /\ Deny(t, "budget-exceeded")
  /\ UNCHANGED <<clock, slotVars, tokenVars, pageVars, pending, cache, queryVars>>

\* A full page, a short one, a 401, or anything else: an error status, too much
\* data, a body that does not parse, the 8 s timeout.
ProviderReturns(t) ==
  /\ phase[t] = "asking"
  /\ \E r \in Replies : reply' = [reply EXCEPT ![t] = r]
  /\ phase' = [phase EXCEPT ![t] = "returned"]
  /\ UNCHANGED <<clock, budgetVars, slotVars, tokenVars, route, page, rows, access,
                 refused, result, pending, cache, queryVars>>

AddPage(t, full) ==
  rows' = [rows EXCEPT ![t] = Append(@, [page |-> page[t], full |-> full])]

\* (Fault: the bound is tested too late.)
LastPageLate(t) == page[t] = MaxPages
LastPage(t) == page[t] + 1 = MaxPages

\* A full page is followed by the next one.
NextPage(t) ==
  /\ phase[t] = "returned" /\ reply[t] = "full" /\ ~LastPage(t)
  /\ AddPage(t, TRUE)
  /\ page' = [page EXCEPT ![t] = @ + 1]
  /\ refused' = [refused EXCEPT ![t] = None]
  /\ reply' = [reply EXCEPT ![t] = None]
  /\ GetToken(t, token)
  /\ UNCHANGED <<clock, slotVars, token, route, pending, cache, queryVars>>

\* (Fault: the last page allowed ends the snapshot even when it is full.)
ShortOrLast(t) == reply[t] = "short" \/ (reply[t] = "full" /\ LastPage(t))
EndsSnapshot(t) == reply[t] = "short"

\* A short page ends the snapshot.
Finish(t) ==
  /\ phase[t] = "returned" /\ EndsSnapshot(t)
  /\ AddPage(t, reply[t] = "full")
  /\ Settle(t, Answered(rows'[t], clock))
  /\ UNCHANGED <<clock, route, page, refused, reply, pending, cache, queryVars>>

\* (Fault: the refused token stays in place.)
KeepToken == token
DropToken == None

\* The first 401 of a page discards the shared token, whichever it is by now.
Retry(t) ==
  /\ phase[t] = "returned" /\ reply[t] = "refused" /\ refused[t] = None
  /\ token' = DropToken
  /\ refused' = [refused EXCEPT ![t] = access[t]]
  /\ reply' = [reply EXCEPT ![t] = None]
  /\ GetToken(t, token')
  /\ UNCHANGED <<clock, slotVars, route, page, rows, pending, cache, queryVars>>

\* Errors, a second 401, and a full page at the pagination bound.
Fail(t) ==
  /\ phase[t] = "returned"
  /\ \/ reply[t] = "failed"
     \/ reply[t] = "refused" /\ refused[t] # None
     \/ reply[t] = "full" /\ LastPage(t)
  /\ Settle(t, Unknown("provider-error"))
  /\ UNCHANGED <<clock, route, page, rows, refused, reply, pending, cache, queryVars>>

\* An error of getToken or spend reaches `finally`.
Unwind(t) ==
  /\ phase[t] = "denied"
  /\ Settle(t, result[t])
  /\ UNCHANGED <<clock, route, page, rows, refused, reply, pending, cache, queryVars>>

-----------------------------------------------------------------------------
(***************************************************************************)
(* query.                                                                  *)
(***************************************************************************)

\* `.then`: only a snapshot is cached; an error skips it.
Store(t) ==
  /\ phase[t] = "settled"
  /\ phase' = [phase EXCEPT ![t] = "stored"]
  /\ cache' = IF result[t].issue = "answered"
              THEN CacheSet([route |-> route[t], rows |-> result[t].rows, at |-> result[t].at])
              ELSE cache
  /\ UNCHANGED <<clock, budgetVars, slotVars, tokenVars, pageVars, result,
                 pending, queryVars>>

\* `.finally(() => pending.delete(key))`, then every query that awaits the
\* promise answers; an error is answered as of now.
Deliver(t) ==
  /\ phase[t] = "stored"
  /\ pending' = [pending EXCEPT ![route[t]] = None]
  /\ LET joined == {q \in Queries : awaits[q] = t}
         res == IF result[t].issue = "answered" THEN result[t] ELSE Unknown(result[t].issue)
     IN  /\ answer' = [q \in Queries |-> IF q \in joined THEN res ELSE answer[q]]
         /\ status' = [q \in Queries |-> IF q \in joined THEN "done" ELSE status[q]]
         /\ awaits' = [q \in Queries |-> IF q \in joined THEN None ELSE awaits[q]]
  /\ phase' = [phase EXCEPT ![t] = "idle"]
  /\ route' = [route EXCEPT ![t] = None]
  /\ page' = [page EXCEPT ![t] = 0]
  /\ rows' = [rows EXCEPT ![t] = <<>>]
  /\ access' = [access EXCEPT ![t] = None]
  /\ refused' = [refused EXCEPT ![t] = None]
  /\ reply' = [reply EXCEPT ![t] = None]
  /\ result' = [result EXCEPT ![t] = None]
  /\ UNCHANGED <<clock, budgetVars, slotVars, tokenVars, cache, ask>>

AnswerNow(q, res) ==
  /\ answer' = [answer EXCEPT ![q] = res]
  /\ status' = [status EXCEPT ![q] = "done"]
  /\ UNCHANGED <<budgetVars, slotVars, tokenVars, route, access, phase, result,
                 pending, awaits>>

\* A pair without a Taiwan airport, or dates outside [today - 1, today + 365].
OutOfRange(q, r, inWindow) ==
  /\ r \notin Served \/ ~inWindow
  /\ AnswerNow(q, Unknown("out-of-range"))

ServeCached(q, r) ==
  \E i \in Cached(r) : AnswerNow(q, Answered(cache[i].rows, cache[i].at))

\* (Fault: one route too many.)
TooManyRoutesLate == Cardinality(Pending) > PendingCap
TooManyRoutes == Cardinality(Pending) >= PendingCap

RefuseRoute(q, r) ==
  /\ Cached(r) = {} /\ pending[r] = None /\ TooManyRoutes
  /\ AnswerNow(q, Unknown("budget-exceeded"))

Await(q, t) ==
  /\ awaits' = [awaits EXCEPT ![q] = t]
  /\ status' = [status EXCEPT ![q] = "open"]
  /\ answer' = [answer EXCEPT ![q] = None]

JoinRoute(q, r) ==
  /\ Cached(r) = {} /\ pending[r] # None
  /\ Await(q, pending[r])
  /\ UNCHANGED <<budgetVars, slotVars, tokenVars, route, access, phase, result, pending>>

\* (Fault: one slot too many.)
SlotFreeOrLast == active <= Slots
SlotFree == active < Slots

\* fetchRoute runs synchronously to its first await: the queue of slots, or
\* getToken for page 0.
StartRoute(q, r) ==
  /\ Cached(r) = {} /\ pending[r] = None /\ ~TooManyRoutes
  /\ \E t \in Tasks :
       /\ phase[t] = "idle"
       /\ Await(q, t)
       /\ pending' = [pending EXCEPT ![r] = t]
       /\ route' = [route EXCEPT ![t] = r]
       /\ \/ /\ ~SlotFree
             /\ waiters' = Append(waiters, t)
             /\ phase' = [phase EXCEPT ![t] = "queued"]
             /\ UNCHANGED <<budgetVars, active, tokenVars, access, result>>
          \/ /\ SlotFree
             /\ active' = active + 1
             /\ GetToken(t, token)
             /\ UNCHANGED <<waiters, token>>

\* A request event: no promise callback is due.
BetweenEvents == \A t \in Tasks : phase[t] \in {"idle", "queued", "token", "asking"}

Query(q) ==
  /\ BetweenEvents
  /\ status[q] # "open"
  /\ \E r \in Routes, inWindow \in BOOLEAN :
       /\ ask' = [ask EXCEPT ![q] = [route |-> r, since |-> clock]]
       /\ \/ OutOfRange(q, r, inWindow)
          \/ /\ r \in Served /\ inWindow
             /\ \/ ServeCached(q, r) \/ RefuseRoute(q, r)
                \/ JoinRoute(q, r) \/ StartRoute(q, r)
  /\ UNCHANGED <<clock, page, rows, refused, reply, cache>>

-----------------------------------------------------------------------------
Next ==
  \/ Tick
  \/ \E t \in Tasks :
       \/ Resume(t) \/ AskPage(t) \/ ProviderReturns(t) \/ TokenReturns(t)
       \/ NextPage(t) \/ Finish(t) \/ Retry(t) \/ Fail(t) \/ Unwind(t)
       \/ Store(t) \/ Deliver(t)
  \/ \E q \in Queries : Query(q)

\* Promise callbacks run; AbortSignal.timeout(8000) ends every request, and a
\* ready event is not passed over for ever. Callers and time need not go on.
Fairness ==
  \A t \in Tasks :
    /\ SF_vars(ProviderReturns(t)) /\ SF_vars(TokenReturns(t))
    /\ WF_vars(Resume(t) \/ AskPage(t) \/ NextPage(t) \/ Finish(t) \/ Retry(t)
               \/ Fail(t) \/ Unwind(t) \/ Store(t) \/ Deliver(t))

Spec == Init /\ [][Next]_vars
FairSpec == Spec /\ Fairness

-----------------------------------------------------------------------------
(***************************************************************************)
(* Properties.                                                             *)
(***************************************************************************)

\* The values every variable may take.
TypeOK ==
  /\ clock \in 0..MaxTime
  /\ budgetDay \in UTCDays \cup {None} /\ used \in Nat
  /\ spent \in [UTCDays -> Nat]
  /\ active \in Nat /\ waiters \in Seq(Tasks)
  /\ token \in [id : Nat, until : Nat] \cup {None}
  /\ tokenTask \in Tasks \cup {None} /\ tokenCalls \subseteq Tasks /\ issued \in Nat
  /\ phase \in [Tasks -> Phases]
  /\ route \in [Tasks -> Routes \cup {None}]
  /\ page \in [Tasks -> 0..MaxPages-1]
  /\ rows \in [Tasks -> Seq(Page)]
  /\ access \in [Tasks -> Nat \cup {None}]
  /\ refused \in [Tasks -> Nat \cup {None}]
  /\ reply \in [Tasks -> Replies \cup {None}]
  /\ result \in [Tasks -> Result \cup {None}]
  /\ pending \in [Routes -> Tasks \cup {None}]
  /\ cache \in Seq(Snapshot)
  /\ status \in [Queries -> {"idle", "open", "done"}]
  /\ ask \in [Queries -> [route : Routes, since : 0..MaxTime] \cup {None}]
  /\ awaits \in [Queries -> Tasks \cup {None}]
  /\ answer \in [Queries -> Result \cup {None}]

\* The slot is handed on exactly once by each of fetchRoute's exits.
SlotAccounting ==
  /\ active = Cardinality(Holders)
  /\ active <= Slots
  /\ waiters # <<>> => active = Slots
  /\ {waiters[i] : i \in DOMAIN waiters} = {t \in Tasks : phase[t] = "queued"}
  /\ \A i, j \in DOMAIN waiters : waiters[i] = waiters[j] => i = j

\* However many pages need a token, one request for it is outstanding, and
\* whoever waits for a token waits for that request.
OneTokenRequest ==
  /\ tokenCalls = {tokenTask} \ {None}
  /\ \A t \in tokenCalls : phase[t] = "token"
  /\ (\E t \in Tasks : phase[t] = "token") => tokenTask # None

\* The one retry after a 401 never repeats the token that was refused, though
\* other tasks may have replaced, joined or discarded the shared token since.
RetryUsesAnotherToken ==
  \A t \in Tasks : phase[t] \in {"armed", "asking"} => access[t] # refused[t]

Complete(pages) ==
  /\ pages # <<>> /\ Len(pages) <= MaxPages
  /\ \A i \in DOMAIN pages : pages[i] = [page |-> i - 1, full |-> i < Len(pages)]

\* Nothing is answered from part of a timetable: every snapshot cached or
\* answered is pages 0, 1, ... in order, each once although it may have been
\* asked for twice, up to the first page that is not full.
SnapshotsComplete ==
  /\ \A i \in DOMAIN cache : Complete(cache[i].rows)
  /\ \A q \in Queries : status[q] = "done" /\ answer[q].issue = "answered" =>
       /\ Complete(answer[q].rows)
       /\ answer[q].at + TTL > ask[q].since

\* A request is refused for want of budget only when the budget of that day is
\* spent, tokens and retries included.
HonestRefusal ==
  \A t \in Tasks : phase[t] \in {"denied", "settled", "stored"} =>
    (result[t].issue = "budget-exceeded" => spent[DayOf(result[t].at)] = Budget)

\* One promise for a pair, no more pairs than PendingCap, one cache entry a pair.
BoundedMemory ==
  /\ Cardinality(Pending) <= PendingCap
  /\ \A t \in Tasks : phase[t] # "idle" => pending[route[t]] = t
  /\ \A r \in Pending : phase[pending[r]] # "idle"
  /\ Len(cache) <= CacheCap
  /\ \A i, j \in DOMAIN cache : cache[i].route = cache[j].route => i = j

\* Every query is answered, however its tokens and pages fail.
QueriesAnswered == \A q \in Queries : status[q] = "open" ~> status[q] = "done"

\* The gateway is a metered provider client: token requests, pages and retries
\* share one budget and never exceed the slots.
PB == INSTANCE ProviderBudget WITH
        Callers <- Tasks, Days <- UTCDays, day <- Today, calls <- Calls
ImplementsBudget == PB!Spec
-----------------------------------------------------------------------------
\* Tasks, queries and routes are interchangeable; no property names one.
Symmetry == Permutations(Tasks) \cup Permutations(Queries) \cup Permutations(Routes)
=============================================================================
