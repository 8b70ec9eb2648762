----------------------------- MODULE LiveRoutes -----------------------------
(***************************************************************************)
(* The live-route gateway of server/live-routes.ts: what flies from an     *)
(* airport today, asked of one free provider. It has the cache, the map of *)
(* pending requests and the daily budget of the other gateways, but no     *)
(* slots: the cap on pending requests is what bounds its concurrency. And  *)
(* it rejects where they answer "unknown", so a failure is not cached.     *)
(*                                                                         *)
(* A "task" is one promise made by fetchOrigin: calling, settled (`.then`  *)
(* has not run), stored (`.finally` has not run).                          *)
(***************************************************************************)
EXTENDS Integers, Sequences, FiniteSets

CONSTANTS
  Queries,     \* concurrent callers of query()
  Origins,     \* airports
  Tasks,       \* identities of fetchOrigin promises
  None,        \* undefined
  PendingCap,  \* requests in flight (16 in the code)
  CacheCap,    \* responses kept (250 in the code)
  Budget,      \* provider requests per UTC day (dailyBudget)
  TTL,         \* freshness of a response (5 minutes)
  DayLength,   \* ticks in a UTC day
  MaxTime      \* bound on the clock

ASSUME LiveRoutesAssumption ==
  /\ None \notin Tasks /\ None \notin Queries /\ None \notin Nat
  /\ IsFiniteSet(Tasks) /\ IsFiniteSet(Origins)
  /\ PendingCap \in Nat \ {0} /\ CacheCap \in Nat \ {0} /\ Budget \in Nat \ {0}
  /\ TTL \in Nat \ {0} /\ DayLength \in Nat \ {0} /\ MaxTime \in Nat

VARIABLES
  clock,       \* now()
  budgetDate, used, pending, cache,
  phase,       \* phase of each task, "idle" when the promise does not exist
  origin,      \* the airport a task fetches
  outcome,     \* what a settled task resolves or rejects with
  awaits,      \* the task a query awaits
  answer,      \* what a query got, None while it has nothing
  asked,       \* airport and time of a query
  spent        \* history: provider requests started on each UTC day

budgetVars == <<budgetDate, used, spent>>
taskVars   == <<phase, origin, outcome>>
queryVars  == <<awaits, answer, asked>>
vars == <<clock, budgetVars, taskVars, pending, cache, queryVars>>

-----------------------------------------------------------------------------
DayOf(t) == t \div DayLength
Today    == DayOf(clock)
UTCDays  == 0..DayOf(MaxTime)

Phases   == {"idle", "calling", "settled", "stored"}
\* checkedAt is `at`, expiresAt is at + TTL; routes are abstracted away.
Result   == [ok : BOOLEAN, at : 0..MaxTime]
Response == [origin : Origins, at : 0..MaxTime]

Resolved == [ok |-> TRUE, at |-> clock]
Rejected == [ok |-> FALSE, at |-> clock]
Pending  == {o \in Origins : pending[o] # None}

\* (Fault: a response is served at the very instant it expires.)
NotYetPast(at) == at + TTL >= clock
Fresh(at)   == at + TTL > clock
Cached(o)   == {i \in DOMAIN cache : cache[i].origin = o /\ Fresh(cache[i].at)}

\* A Map at capacity loses its first entry even when the key is present, and a
\* key keeps its position.
CacheSet(entry) ==
  LET room == IF Len(cache) >= CacheCap THEN Tail(cache) ELSE cache
  IN  IF \E i \in DOMAIN room : room[i].origin = entry.origin
      THEN [i \in DOMAIN room |-> IF room[i].origin = entry.origin THEN entry ELSE room[i]]
      ELSE Append(room, entry)

Init ==
  /\ clock = 0
  /\ budgetDate = None /\ used = 0 /\ spent = [d \in UTCDays |-> 0]
  /\ phase = [t \in Tasks |-> "idle"]
  /\ origin = [t \in Tasks |-> None]
  /\ outcome = [t \in Tasks |-> None]
  /\ pending = [o \in Origins |-> None]
  /\ cache = <<>>
  /\ awaits = [q \in Queries |-> None]
  /\ answer = [q \in Queries |-> None]
  /\ asked = [q \in Queries |-> None]

Tick ==
  /\ clock < MaxTime
  /\ clock' = clock + 1
  /\ UNCHANGED <<budgetVars, taskVars, pending, cache, queryVars>>

-----------------------------------------------------------------------------
(***************************************************************************)
(* fetchOrigin.                                                            *)
(***************************************************************************)
UsedToday == IF budgetDate = Today THEN used ELSE 0

\* Up to the provider request, without an await: at the end of the budget the
\* promise is rejected at once.
FetchOrigin(t, o) ==
  /\ phase[t] = "idle"
  /\ origin' = [origin EXCEPT ![t] = o]
  /\ budgetDate' = Today
  /\ \/ /\ UsedToday < Budget
        /\ used' = UsedToday + 1
        /\ spent' = [spent EXCEPT ![Today] = @ + 1]
        /\ phase' = [phase EXCEPT ![t] = "calling"]
        /\ UNCHANGED outcome
     \/ /\ UsedToday >= Budget
        /\ used' = UsedToday
        /\ phase' = [phase EXCEPT ![t] = "settled"]
        /\ outcome' = [outcome EXCEPT ![t] = Rejected]
        /\ UNCHANGED spent

\* An answer, or an error status, too much data, a body that does not parse, a
\* different airport, the 8 s timeout.
ProviderReturns(t) ==
  /\ phase[t] = "calling"
  /\ phase' = [phase EXCEPT ![t] = "settled"]
  /\ \E res \in {Resolved, Rejected} : outcome' = [outcome EXCEPT ![t] = res]
  /\ UNCHANGED <<clock, budgetVars, origin, pending, cache, queryVars>>

\* (Fault: a failure is cached like a response.)
CacheAnything(t) == TRUE
Cacheable(t) == outcome[t].ok

\* `.then`: a rejection skips it.
Store(t) ==
  /\ phase[t] = "settled"
  /\ phase' = [phase EXCEPT ![t] = "stored"]
  /\ cache' = IF Cacheable(t) THEN CacheSet([origin |-> origin[t], at |-> outcome[t].at])
                              ELSE cache
  /\ UNCHANGED <<clock, budgetVars, origin, outcome, pending, queryVars>>

\* `.finally(() => pending.delete(origin))`; all who await the promise go on.
Deliver(t) ==
  /\ phase[t] = "stored"
  /\ pending' = [pending EXCEPT ![origin[t]] = None]
  /\ answer' = [q \in Queries |-> IF awaits[q] = t THEN outcome[t] ELSE answer[q]]
  /\ awaits' = [q \in Queries |-> IF awaits[q] = t THEN None ELSE awaits[q]]
  /\ phase' = [phase EXCEPT ![t] = "idle"]
  /\ origin' = [origin EXCEPT ![t] = None]
  /\ outcome' = [outcome EXCEPT ![t] = None]
  /\ UNCHANGED <<clock, budgetVars, cache, asked>>

-----------------------------------------------------------------------------
(***************************************************************************)
(* query.                                                                  *)
(***************************************************************************)
AnswerNow(q, res) ==
  /\ answer' = [answer EXCEPT ![q] = res]
  /\ UNCHANGED <<budgetVars, taskVars, pending, awaits>>

ServeCached(q, o) ==
  \E i \in Cached(o) : AnswerNow(q, [ok |-> TRUE, at |-> cache[i].at])

Await(q, t) ==
  /\ awaits' = [awaits EXCEPT ![q] = t]
  /\ answer' = [answer EXCEPT ![q] = None]

JoinInFlight(q, o) ==
  /\ Cached(o) = {} /\ pending[o] # None
  /\ Await(q, pending[o])
  /\ UNCHANGED <<budgetVars, taskVars, pending>>

\* (Fault: one request too many.)
TooManyLate == Cardinality(Pending) > PendingCap
TooMany == Cardinality(Pending) >= PendingCap

Refuse(q, o) ==
  /\ Cached(o) = {} /\ pending[o] = None /\ TooMany
  /\ AnswerNow(q, Rejected)

Start(q, o) ==
  /\ Cached(o) = {} /\ pending[o] = None /\ ~TooMany
  /\ \E t \in Tasks :
       /\ FetchOrigin(t, o)
       /\ pending' = [pending EXCEPT ![o] = t]
       /\ Await(q, t)

\* A request event: no promise callback is due.
BetweenEvents == \A t \in Tasks : phase[t] \in {"idle", "calling"}

Query(q, o) ==
  /\ BetweenEvents
  /\ awaits[q] = None
  /\ asked' = [asked EXCEPT ![q] = [origin |-> o, since |-> clock]]
  /\ ServeCached(q, o) \/ JoinInFlight(q, o) \/ Refuse(q, o) \/ Start(q, o)
  /\ UNCHANGED <<clock, cache>>

-----------------------------------------------------------------------------
TaskStep(t) == ProviderReturns(t) \/ Store(t) \/ Deliver(t)

Next ==
  \/ Tick
  \/ \E t \in Tasks : TaskStep(t)
  \/ \E q \in Queries, o \in Origins : Query(q, o)

\* As for the other gateways: callbacks run, the timeout ends every request.
Fairness ==
  \A t \in Tasks : WF_vars(Store(t) \/ Deliver(t)) /\ SF_vars(ProviderReturns(t))

Spec == Init /\ [][Next]_vars
FairSpec == Spec /\ Fairness

-----------------------------------------------------------------------------
(***************************************************************************)
(* Properties.                                                             *)
(***************************************************************************)

\* The values every variable may take.
TypeOK ==
  /\ clock \in 0..MaxTime
  /\ budgetDate \in UTCDays \cup {None} /\ used \in Nat
  /\ spent \in [UTCDays -> Nat]
  /\ phase \in [Tasks -> Phases]
  /\ origin \in [Tasks -> Origins \cup {None}]
  /\ outcome \in [Tasks -> Result \cup {None}]
  /\ pending \in [Origins -> Tasks \cup {None}]
  /\ cache \in Seq(Response)
  /\ awaits \in [Queries -> Tasks \cup {None}]
  /\ answer \in [Queries -> Result \cup {None}]
  /\ asked \in [Queries -> [origin : Origins, since : 0..MaxTime] \cup {None}]

\* A response was fresh when it was asked for, also when it waited with others
\* for a request somebody else had started.
FreshWhenAsked ==
  \A q \in Queries : answer[q] # None /\ answer[q].ok =>
    answer[q].at + TTL > asked[q].since

\* The gateway is a metered provider client whose slots are its pending cap.
PB == INSTANCE ProviderBudget WITH
        Callers <- Tasks, Slots <- PendingCap, Days <- UTCDays, day <- Today,
        calls <- {t \in Tasks : phase[t] = "calling"}
ImplementsBudget == PB!Spec

\* A failure is forgotten: while its promise is gone, an airport whose last
\* request failed is asked for again and not answered from the cache.
FailuresForgotten ==
  [][\A t \in Tasks : phase[t] = "stored" /\ phase'[t] = "idle" /\ ~outcome[t].ok =>
       /\ pending'[origin[t]] = None
       /\ ~\E i \in DOMAIN cache : cache[i].origin = origin[t] /\ cache[i].at = outcome[t].at]_vars
=============================================================================
