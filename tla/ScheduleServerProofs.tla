------------------------ MODULE ScheduleServerProofs ------------------------
(***************************************************************************)
(* Theorems about ScheduleServer, for every number of addresses, requests  *)
(* and promises, and whichever suppliers are configured: what a request    *)
(* pays for, how long its calls may run, what the limiter's table holds    *)
(* and what the live-route gateway does inside the process.                *)
(***************************************************************************)
EXTENDS ScheduleServer, TLAPS, FiniteSetTheorems

-----------------------------------------------------------------------------
(***************************************************************************)
(* The handlers.                                                           *)
(***************************************************************************)
Codes == {200, 404, 405, 429, 502, None}

\* The types of what the front end keeps for each request, and of its calls.
HandlerTypes ==
  /\ http \in [Requests -> {"idle", "open", "gone", "done"}]
  /\ job \in [Requests -> {"routes", "schedules", None}]
  /\ code \in [Requests -> Codes]
  /\ provider \in [Requests -> Suppliers \cup {"official", None}]
  /\ calls \in [Suppliers -> SUBSET Requests]
  /\ charged \in [Requests -> SUBSET Suppliers]

LEMMA SelectedType ==
  ASSUME NEW b \in BOOLEAN
  PROVE  Selected(b) \in Suppliers \cup {"official"}
BY ServerAssumption DEF Selected, Suppliers

\* What an open request of one sort or the other, or one that is answered, looks
\* like.
LEMMA ReceiveCases ==
  ASSUME NEW r \in Requests, Receive(r)
  PROVE  /\ http[r] \in {"idle", "done"}
         /\ charged' = [charged EXCEPT ![r] = {}]
         /\ UNCHANGED calls
         /\ \/ \E status \in {404, 405, 429} : Send(r, status)
            \/ Open(r, "routes", None)
            \/ \E p \in Suppliers \cup {"official"} : Open(r, "schedules", p)
<1>1. http[r] \in {"idle", "done"} /\ charged' = [charged EXCEPT ![r] = {}] /\ UNCHANGED calls
  BY DEF Receive
<1>2. CASE Preliminary(r)
  BY <1>1, <1>2 DEF Preliminary
<1>3. ASSUME NEW c \in Clients, Forgotten(r, c) \/ OverLimit(r, c) \/ Immediate(r, c)
      PROVE  \E status \in {404, 405, 429} : Send(r, status)
  BY <1>3 DEF Forgotten, OverLimit, Immediate
<1>4. ASSUME NEW c \in Clients, LiveRoute(r, c) PROVE Open(r, "routes", None)
  BY <1>4 DEF LiveRoute
<1>5. ASSUME NEW c \in Clients, Schedule(r, c)
      PROVE  \E p \in Suppliers \cup {"official"} : Open(r, "schedules", p)
  BY <1>5, SelectedType DEF Schedule
<1> QED BY <1>1, <1>2, <1>3, <1>4, <1>5 DEF Receive

LEMMA HandlersInit == Init => HandlerTypes
BY DEF Init, HandlerTypes, Codes

LEMMA HandlersStep == HandlerTypes /\ [Next]_vars => HandlerTypes'
<1> SUFFICES ASSUME HandlerTypes, [Next]_vars PROVE HandlerTypes'
  OBVIOUS
<1> USE DEF HandlerTypes
<1>1. CASE Tick \/ UNCHANGED vars
  BY <1>1 DEF Tick, vars, httpVars, supplierVars
<1>2. ASSUME NEW t \in Tasks, LiveStep(t) PROVE HandlerTypes'
  BY <1>2 DEF LiveStep, httpVars, supplierVars
<1>3. ASSUME NEW r \in Requests, NEW status \in Codes, Send(r, status)
      PROVE  /\ http' \in [Requests -> {"idle", "open", "gone", "done"}]
             /\ job' \in [Requests -> {"routes", "schedules", None}]
             /\ code' \in [Requests -> Codes]
             /\ provider' \in [Requests -> Suppliers \cup {"official", None}]
  BY <1>3 DEF Send, Codes
<1>4. ASSUME NEW r \in Requests, NEW work \in {"routes", "schedules"}, NEW p \in Suppliers \cup {"official", None}, Open(r, work, p)
      PROVE  /\ http' \in [Requests -> {"idle", "open", "gone", "done"}]
             /\ job' \in [Requests -> {"routes", "schedules", None}]
             /\ code' \in [Requests -> Codes]
             /\ provider' \in [Requests -> Suppliers \cup {"official", None}]
  BY <1>4 DEF Open, Codes
<1>5. ASSUME NEW r \in Requests, Receive(r) PROVE HandlerTypes'
  <2>1. calls' \in [Suppliers -> SUBSET Requests] /\ charged' \in [Requests -> SUBSET Suppliers]
    BY <1>5, ReceiveCases
  <2> QED BY <1>3, <1>4, <1>5, <2>1, ReceiveCases DEF Codes
<1>6. ASSUME NEW r \in Requests, Disconnect(r) PROVE HandlerTypes'
  BY <1>6 DEF Disconnect, supplierVars
<1>7. ASSUME NEW r \in Requests, Reply(r) PROVE HandlerTypes'
  <2>1. UNCHANGED <<calls, charged>> /\ \E status \in Codes : Send(r, status)
    BY <1>7 DEF Reply, ReplyRoutes, ReplySchedules, supplierVars, Codes
  <2> QED BY <1>3, <2>1
<1>8. ASSUME NEW r \in Requests, NEW p \in Suppliers, SupplierCall(r, p) PROVE HandlerTypes'
  BY <1>8 DEF SupplierCall, httpVars
<1>9. ASSUME NEW r \in Requests, NEW p \in Suppliers, SupplierReturn(r, p) PROVE HandlerTypes'
  BY <1>9 DEF SupplierReturn, httpVars
<1> QED BY <1>1, <1>2, <1>5, <1>6, <1>7, <1>8, <1>9 DEF Next
-----------------------------------------------------------------------------
(***************************************************************************)
(* What a request pays for.                                                *)
(***************************************************************************)

\* What has been charged for a request is charged by one supplier, by the selected
\* one while the query runs.
PaysOnce ==
  \A r \in Requests :
    /\ charged[r] = {} \/ \E p \in Suppliers : charged[r] = {p}
    /\ provider[r] \in Suppliers => charged[r] \subseteq {provider[r]}

LEMMA PaysOnceInit == Init => PaysOnce
BY DEF Init, PaysOnce

LEMMA PaysOnceStep == HandlerTypes /\ PaysOnce /\ [Next]_vars => PaysOnce'
<1> SUFFICES ASSUME HandlerTypes, PaysOnce, [Next]_vars PROVE PaysOnce'
  OBVIOUS
<1>0. None \notin Suppliers
  BY ServerAssumption DEF Suppliers
<1>1. CASE UNCHANGED <<provider, charged>>
  BY <1>1 DEF PaysOnce
<1>2. ASSUME NEW r \in Requests, Receive(r) PROVE PaysOnce'
  <2>1. charged' = [charged EXCEPT ![r] = {}]
        /\ \A u \in Requests \ {r} : provider'[u] = provider[u]
    BY <1>2, ReceiveCases DEF HandlerTypes, Send, Open
  <2> QED BY <2>1 DEF HandlerTypes, PaysOnce
<1>3. ASSUME NEW r \in Requests, Reply(r) PROVE PaysOnce'
  <2>1. UNCHANGED charged /\ provider' = [provider EXCEPT ![r] = None]
    BY <1>3 DEF Reply, ReplyRoutes, ReplySchedules, Send, supplierVars
  <2> QED BY <1>0, <2>1 DEF HandlerTypes, PaysOnce
<1>4. ASSUME NEW r \in Requests, NEW p \in Suppliers, SupplierCall(r, p) PROVE PaysOnce'
  <2>1. /\ provider[r] = p /\ UNCHANGED provider
        /\ charged' = [charged EXCEPT ![r] = @ \cup {p}]
    BY <1>4 DEF SupplierCall, Charges, httpVars
  <2>2. charged'[r] = {p}
    BY <2>1 DEF HandlerTypes, PaysOnce
  <2> QED BY <2>1, <2>2 DEF HandlerTypes, PaysOnce
<1> QED
  <2>1. ASSUME NEW r \in Requests, NEW p \in Suppliers, SupplierReturn(r, p)
        PROVE  UNCHANGED <<provider, charged>>
    BY <2>1 DEF SupplierReturn, httpVars
  <2>2. ASSUME NEW r \in Requests, Disconnect(r) PROVE UNCHANGED <<provider, charged>>
    BY <2>2 DEF Disconnect, supplierVars
  <2>3. ASSUME NEW t \in Tasks, LiveStep(t) PROVE UNCHANGED <<provider, charged>>
    BY <2>3 DEF LiveStep, httpVars, supplierVars
  <2>4. Tick \/ UNCHANGED vars => UNCHANGED <<provider, charged>>
    BY DEF Tick, vars, httpVars, supplierVars
  <2> QED BY <1>1, <1>2, <1>3, <1>4, <2>1, <2>2, <2>3, <2>4 DEF Next

\* "one user action cannot silently spend two supplier quotas"
THEOREM OneSupplierIsCharged == Spec => []OneSupplierPerAction
<1>1. PaysOnce => OneSupplierPerAction
  <2> SUFFICES ASSUME PaysOnce, NEW r \in Requests PROVE Cardinality(charged[r]) <= 1
    BY DEF OneSupplierPerAction
  <2>1. CASE charged[r] = {}
    <3>1. Cardinality(charged[r]) = 0
      BY <2>1, FS_EmptySet
    <3> QED BY <3>1
  <2>2. ASSUME NEW p \in Suppliers, charged[r] = {p} PROVE Cardinality(charged[r]) <= 1
    <3>1. Cardinality(charged[r]) = 1
      BY <2>2, FS_Singleton
    <3> QED BY <3>1
  <2> QED BY <2>1, <2>2 DEF PaysOnce
<1> QED BY <1>1, HandlersInit, HandlersStep, PaysOnceInit, PaysOnceStep, PTL DEF Spec

-----------------------------------------------------------------------------
(***************************************************************************)
(* How long a call may run.                                                *)
(***************************************************************************)

\* A request has a provider as long as its schedule query runs and nothing has
\* been sent, and the calls made for it are of that provider.
QueryRuns ==
  \A r \in Requests :
    /\ provider[r] # None => http[r] \in {"open", "gone"} /\ code[r] = None /\ job[r] = "schedules"
    /\ \A p \in Suppliers : r \in calls[p] => provider[r] = p

LEMMA QueryRunsInit == Init => QueryRuns
BY DEF Init, QueryRuns

LEMMA QueryRunsStep == HandlerTypes /\ QueryRuns /\ [Next]_vars => QueryRuns'
<1> SUFFICES ASSUME HandlerTypes, QueryRuns, [Next]_vars PROVE QueryRuns'
  OBVIOUS
<1>0. None \notin Suppliers /\ None # "routes"
  BY ServerAssumption DEF Suppliers
<1>1. CASE UNCHANGED <<http, job, provider, code, calls>>
  BY <1>1 DEF QueryRuns
<1>2. ASSUME NEW r \in Requests, NEW status, Send(r, status), \A p \in Suppliers : r \notin calls[p],
             UNCHANGED calls
      PROVE  QueryRuns'
  <2>1. provider'[r] = None
    BY <1>2 DEF Send, HandlerTypes
  <2>2. \A u \in Requests \ {r} : /\ http'[u] = http[u] /\ job'[u] = job[u]
                                  /\ provider'[u] = provider[u] /\ code'[u] = code[u]
    BY <1>2 DEF Send, HandlerTypes
  <2> QED BY <1>2, <2>1, <2>2 DEF QueryRuns
<1>3. ASSUME NEW r \in Requests, Receive(r) PROVE QueryRuns'
  <2>1. UNCHANGED calls /\ \A p \in Suppliers : r \notin calls[p]
    BY <1>0, <1>3, ReceiveCases DEF QueryRuns
  <2>2. CASE \E work \in {"routes", "schedules"}, p \in Suppliers \cup {"official", None} :
               Open(r, work, p) /\ (p # None => work = "schedules")
    <3>1. http'[r] = "open" /\ code'[r] = None /\ (provider'[r] # None => job'[r] = "schedules")
      BY <2>2 DEF Open, HandlerTypes
    <3>2. \A u \in Requests \ {r} : /\ http'[u] = http[u] /\ job'[u] = job[u]
                                    /\ provider'[u] = provider[u] /\ code'[u] = code[u]
      BY <2>2 DEF Open, HandlerTypes
    <3> QED BY <2>1, <3>1, <3>2 DEF QueryRuns
  <2> QED BY <1>2, <1>3, <2>1, <2>2, ReceiveCases
<1>4. ASSUME NEW r \in Requests, Disconnect(r) PROVE QueryRuns'
  BY <1>4 DEF Disconnect, HandlerTypes, QueryRuns, supplierVars
<1>5. ASSUME NEW r \in Requests, Reply(r) PROVE QueryRuns'
  <2>1. UNCHANGED calls /\ \E status : Send(r, status)
    BY <1>5 DEF Reply, ReplyRoutes, ReplySchedules, supplierVars
  <2>2. CASE ReplyRoutes(r)
    BY <1>0, <1>2, <2>1, <2>2 DEF ReplyRoutes, QueryRuns
  <2>3. CASE ReplySchedules(r)
    BY <1>2, <2>1, <2>3 DEF ReplySchedules, ScheduleDue
  <2> QED BY <1>5, <2>2, <2>3 DEF Reply
<1>6. ASSUME NEW r \in Requests, NEW p \in Suppliers, SupplierCall(r, p) PROVE QueryRuns'
  BY <1>6 DEF SupplierCall, Charges, HandlerTypes, QueryRuns, httpVars
<1>7. ASSUME NEW r \in Requests, NEW p \in Suppliers, SupplierReturn(r, p) PROVE QueryRuns'
  BY <1>7 DEF SupplierReturn, HandlerTypes, QueryRuns, httpVars
<1> QED
  <2>1. ASSUME NEW t \in Tasks, LiveStep(t) PROVE UNCHANGED <<http, job, provider, code, calls>>
    BY <2>1 DEF LiveStep, httpVars, supplierVars
  <2>2. Tick \/ UNCHANGED vars => UNCHANGED <<http, job, provider, code, calls>>
    BY DEF Tick, vars, httpVars, supplierVars
  <2> QED BY <1>1, <1>3, <1>4, <1>5, <1>6, <1>7, <2>1, <2>2 DEF Next

\* A request is answered after all it paid for has come back.
THEOREM CallsEndBeforeTheirRequest == Spec => []NoCallOutlivesItsRequest
<1>1. HandlerTypes /\ QueryRuns => NoCallOutlivesItsRequest
  BY ServerAssumption DEF HandlerTypes, QueryRuns, NoCallOutlivesItsRequest, Suppliers
<1> QED BY <1>1, HandlersInit, HandlersStep, QueryRunsInit, QueryRunsStep, PTL DEF Spec
-----------------------------------------------------------------------------
(***************************************************************************)
(* The limiter's table.                                                    *)
(***************************************************************************)
TableBounded == Cardinality(Known(clients)) <= TableCap

LEMMA KnownFinite == ASSUME NEW table PROVE IsFiniteSet(Known(table)) /\ Cardinality(Known(table)) \in Nat
BY ServerAssumption, FS_Subset, FS_CardinalityType DEF Known

\* Dropping the expired records makes no more of them.
LEMMA PurgedKnown ==
  /\ Known(Purged) \subseteq Known(clients)
  /\ Cardinality(Known(Purged)) <= Cardinality(Known(clients))
<1>1. Known(Purged) \subseteq Known(clients)
  BY DEF Known, Purged
<1> QED BY <1>1, KnownFinite, FS_Subset

\* A request that is counted adds no record to a full table.
LEMMA CountedKnown ==
  ASSUME TableBounded, NEW c \in Clients, ~TableFull(c),
         clients' = [Purged EXCEPT ![c] = Count(c)]
  PROVE  TableBounded'
<1>1. Known(clients') \subseteq Known(Purged) \cup {c}
  BY DEF Known, Purged
<1>2. Cardinality(Known(Purged)) \in Nat /\ Cardinality(Known(clients')) \in Nat
      /\ Cardinality(Known(clients)) \in Nat /\ TableCap \in Nat
  BY KnownFinite, ServerAssumption
<1>3. CASE c \in Known(Purged)
  <2>1. Known(clients') \subseteq Known(Purged)
    BY <1>1, <1>3
  <2>2. Cardinality(Known(clients')) <= Cardinality(Known(Purged))
    BY <2>1, KnownFinite, FS_Subset
  <2> QED BY <1>2, <2>2, PurgedKnown DEF TableBounded
<1>4. CASE c \notin Known(Purged)
  <2>1. Cardinality(Known(Purged)) < TableCap
    BY <1>2, <1>4 DEF TableFull, Known
  <2>2. /\ IsFiniteSet(Known(Purged) \cup {c})
        /\ Cardinality(Known(Purged) \cup {c}) = Cardinality(Known(Purged)) + 1
    BY <1>4, KnownFinite, FS_AddElement
  <2>3. Cardinality(Known(clients')) <= Cardinality(Known(Purged) \cup {c})
    BY <1>1, <2>2, FS_Subset
  <2> QED BY <1>2, <2>1, <2>2, <2>3 DEF TableBounded
<1> QED BY <1>3, <1>4

LEMMA TableStep == TableBounded /\ [Next]_vars => TableBounded'
<1> SUFFICES ASSUME TableBounded, [Next]_vars PROVE TableBounded'
  OBVIOUS
<1>1. CASE UNCHANGED clients
  BY <1>1 DEF TableBounded, Known
<1>2. ASSUME NEW r \in Requests, Receive(r) PROVE TableBounded'
  <2>1. ASSUME NEW c \in Clients, Forgotten(r, c) PROVE TableBounded'
    <3>1. Cardinality(Known(Purged)) \in Nat /\ Cardinality(Known(clients)) \in Nat /\ TableCap \in Nat
      BY KnownFinite, ServerAssumption
    <3> QED BY <2>1, <3>1, PurgedKnown DEF Forgotten, TableBounded
  <2>2. ASSUME NEW c \in Clients, OverLimit(r, c) \/ Admit(c) PROVE TableBounded'
    BY <2>2, CountedKnown DEF OverLimit, Admit
  <2>3. CASE Preliminary(r)
    BY <1>1, <2>3 DEF Preliminary
  <2> QED BY <1>2, <2>1, <2>2, <2>3 DEF Receive, Immediate, LiveRoute, Schedule
<1> QED
  <2>1. ASSUME NEW t \in Tasks, LiveStep(t) PROVE UNCHANGED clients
    BY <2>1 DEF LiveStep
  <2>2. ASSUME NEW r \in Requests, Disconnect(r) \/ Reply(r) PROVE UNCHANGED clients
    BY <2>2 DEF Disconnect, Reply
  <2>3. ASSUME NEW r \in Requests, NEW p \in Suppliers, SupplierCall(r, p) \/ SupplierReturn(r, p)
        PROVE  UNCHANGED clients
    BY <2>3 DEF SupplierCall, SupplierReturn
  <2>4. Tick \/ UNCHANGED vars => UNCHANGED clients
    BY DEF Tick, vars
  <2> QED BY <1>1, <1>2, <2>1, <2>2, <2>3, <2>4 DEF Next

\* However many addresses come and go, the table never outgrows its cap: a full
\* one refuses whoever is not in it.
THEOREM TableNeverOverflows == Spec => []TableBounded
<1>1. Init => TableBounded
  <2>1. ASSUME Init PROVE Known(clients) = {}
    BY <2>1 DEF Init, Known
  <2> QED BY <2>1, FS_EmptySet, ServerAssumption DEF TableBounded
<1> QED BY <1>1, TableStep, PTL DEF Spec
-----------------------------------------------------------------------------
(***************************************************************************)
(* The gateways inside the process.                                        *)
(***************************************************************************)

\* The steps of the live-route gateway are those of LiveRoutes.
LEMMA ServerTakesLiveSteps == [Next]_vars => [LR!Next]_(LR!vars)
<1> SUFFICES ASSUME [Next]_vars PROVE LR!Next \/ UNCHANGED LR!vars
  OBVIOUS
<1> USE DEF liveVars, LR!vars, LR!budgetVars, LR!taskVars, LR!queryVars
<1>1. CASE UNCHANGED <<clock, liveVars>>
  BY <1>1
<1>2. CASE Tick
  BY <1>2 DEF Tick, LR!Next
<1>3. ASSUME NEW t \in Tasks, LiveStep(t) PROVE LR!Next
  BY <1>3 DEF LiveStep, LR!Next
<1>4. ASSUME NEW r \in Requests, Receive(r) PROVE LR!Next \/ UNCHANGED LR!vars
  <2>1. ASSUME NEW c \in Clients, LiveRoute(r, c) PROVE LR!Next
    BY <2>1 DEF LiveRoute, LR!Next
  <2>2. CASE UNCHANGED liveVars
    BY <1>4, <2>2 DEF Receive
  <2> QED BY <1>4, <2>1, <2>2 DEF Receive, Preliminary, Immediate, Schedule
<1> QED
  <2>1. ASSUME NEW r \in Requests, Disconnect(r) \/ Reply(r) PROVE UNCHANGED <<clock, liveVars>>
    BY <2>1 DEF Disconnect, Reply
  <2>2. ASSUME NEW r \in Requests, NEW p \in Suppliers, SupplierCall(r, p) \/ SupplierReturn(r, p)
        PROVE  UNCHANGED <<clock, liveVars>>
    BY <2>2 DEF SupplierCall, SupplierReturn
  <2>3. CASE UNCHANGED vars
    BY <2>3 DEF vars
  <2> QED BY <1>1, <1>2, <1>3, <1>4, <2>1, <2>2, <2>3 DEF Next

\* Whatever the process does besides, its live-route gateway is that of LiveRoutes:
\* what LiveRoutesProofs proves of it holds in the server.
THEOREM ServerRunsLiveRoutes == Spec => LR!Spec
<1>1. Init => LR!Init
  BY DEF Init
<1> QED BY <1>1, ServerTakesLiveSteps, PTL DEF Spec, LR!Spec
\* The day goes forward, and only by the clock.
LEMMA DaysGoOn ==
  ASSUME clock \in 0..MaxTime, Tick
  PROVE  LR!Today' \in LR!UTCDays /\ (LR!Today' = LR!Today \/ LR!Today' > LR!Today)
<1>1. /\ clock \in Nat /\ clock' = clock + 1 /\ clock' \in Nat /\ clock' <= MaxTime
      /\ DayLength \in Nat \ {0} /\ MaxTime \in Nat
  BY ServerAssumption DEF Tick, LR!Tick
<1>2. /\ clock \div DayLength \in Nat /\ clock' \div DayLength \in Nat /\ MaxTime \div DayLength \in Nat
      /\ clock \div DayLength <= clock' \div DayLength
      /\ clock' \div DayLength <= MaxTime \div DayLength
  BY <1>1
<1> QED BY <1>2 DEF LR!Today, LR!DayOf, LR!UTCDays

LEMMA ClockStep == clock \in 0..MaxTime /\ [Next]_vars => clock' \in 0..MaxTime
<1> SUFFICES ASSUME clock \in 0..MaxTime, [Next]_vars PROVE clock' \in 0..MaxTime
  OBVIOUS
<1>1. [LR!Next]_(LR!vars)
  BY ServerTakesLiveSteps
<1>2. UNCHANGED clock \/ LR!Tick
  BY <1>1 DEF LR!Next, LR!vars, LR!TaskStep, LR!ProviderReturns, LR!Store, LR!Deliver, LR!Query
<1> QED BY <1>2, ServerAssumption DEF LR!Tick

\* What the process does for one supplier.
LEMMA SupplierSteps ==
  ASSUME NEW p \in Suppliers, HandlerTypes, paid \in [Suppliers -> [LR!UTCDays -> Nat]],
         clock \in 0..MaxTime, [Next]_vars
  PROVE  [Supplier(p)!Next]_<<LR!Today, calls[p], paid[p]>>
<1>1. CASE UNCHANGED <<clock, calls, paid>>
  BY <1>1 DEF LR!Today
<1>2. CASE Tick
  <2>1. UNCHANGED <<calls, paid>>
    BY <1>2 DEF Tick, supplierVars
  <2>2. CASE LR!Today' = LR!Today
    BY <2>1, <2>2
  <2>3. CASE LR!Today' > LR!Today
    BY <1>2, <2>1, <2>3, DaysGoOn DEF Supplier!Midnight, Supplier!Next
  <2> QED BY <1>2, <2>2, <2>3, DaysGoOn
<1>3. ASSUME NEW r \in Requests, NEW s \in Suppliers, SupplierCall(r, s)
      PROVE  [Supplier(p)!Next]_<<LR!Today, calls[p], paid[p]>>
  <2>1. CASE s = p
    BY <1>3, <2>1 DEF SupplierCall, Supplier!Next
  <2>2. CASE s # p
    <3>1. calls'[p] = calls[p] /\ paid'[p] = paid[p] /\ UNCHANGED clock
      BY <1>3, <2>2 DEF SupplierCall, HandlerTypes
    <3> QED BY <3>1 DEF LR!Today
  <2> QED BY <2>1, <2>2
<1>4. ASSUME NEW r \in Requests, NEW s \in Suppliers, SupplierReturn(r, s)
      PROVE  [Supplier(p)!Next]_<<LR!Today, calls[p], paid[p]>>
  <2>1. CASE s = p
    BY <1>4, <2>1 DEF SupplierReturn, Supplier!Next
  <2>2. CASE s # p
    <3>1. calls'[p] = calls[p] /\ paid'[p] = paid[p] /\ UNCHANGED clock
      BY <1>4, <2>2 DEF SupplierReturn, HandlerTypes
    <3> QED BY <3>1 DEF LR!Today
  <2> QED BY <2>1, <2>2
<1> QED
  <2>1. ASSUME NEW t \in Tasks, LiveStep(t) PROVE UNCHANGED <<clock, calls, paid>>
    BY <2>1 DEF LiveStep, supplierVars, LR!TaskStep, LR!ProviderReturns, LR!Store, LR!Deliver
  <2>2. ASSUME NEW r \in Requests, Receive(r) \/ Disconnect(r) \/ Reply(r)
        PROVE  UNCHANGED <<clock, calls, paid>>
    BY <2>2 DEF Receive, Disconnect, Reply, supplierVars
  <2>3. UNCHANGED vars => UNCHANGED <<clock, calls, paid>>
    BY DEF vars, supplierVars
  <2> QED BY <1>1, <1>2, <1>3, <1>4, <2>1, <2>2, <2>3 DEF Next
\* Each supplier has its own count of each day, and it stays within the budget.
Accounts ==
  /\ clock \in 0..MaxTime
  /\ paid \in [Suppliers -> [LR!UTCDays -> 0..DailyBudget]]

LEMMA AccountsInit == Init => Accounts
BY ServerAssumption DEF Init, LR!Init, Accounts

LEMMA AccountsStep == Accounts /\ [Next]_vars => Accounts'
<1> SUFFICES ASSUME Accounts, [Next]_vars PROVE Accounts'
  OBVIOUS
<1>1. clock' \in 0..MaxTime
  BY ClockStep DEF Accounts
<1>2. CASE UNCHANGED paid
  BY <1>1, <1>2 DEF Accounts, LR!UTCDays, LR!DayOf
<1>3. ASSUME NEW r \in Requests, NEW p \in Suppliers, SupplierCall(r, p) PROVE Accounts'
  <2>1. paid' = [paid EXCEPT ![p][LR!Today] = @ + 1] /\ paid[p][LR!Today] < DailyBudget
    BY <1>3 DEF SupplierCall, Supplier!Call
  <2>2. [paid[p] EXCEPT ![LR!Today] = @ + 1] \in [LR!UTCDays -> 0..DailyBudget]
    <3>1. paid[p] \in [LR!UTCDays -> 0..DailyBudget]
      BY DEF Accounts
    <3> HIDE DEF Accounts
    <3>2. LR!Today \in LR!UTCDays => paid[p][LR!Today] + 1 \in 0..DailyBudget
      BY <2>1, <3>1, ServerAssumption
    <3> QED BY <3>1, <3>2
  <2>3. paid' = [paid EXCEPT ![p] = [paid[p] EXCEPT ![LR!Today] = @ + 1]]
    BY <2>1
  <2>4. paid' \in [Suppliers -> [LR!UTCDays -> 0..DailyBudget]]
    BY <2>2, <2>3 DEF Accounts
  <2> QED BY <1>1, <2>4 DEF Accounts, LR!UTCDays, LR!DayOf
<1> QED
  <2>1. ASSUME NEW r \in Requests, NEW p \in Suppliers, SupplierReturn(r, p) PROVE UNCHANGED paid
    BY <2>1 DEF SupplierReturn
  <2>2. ASSUME NEW t \in Tasks, LiveStep(t) PROVE UNCHANGED paid
    BY <2>2 DEF LiveStep, supplierVars
  <2>3. ASSUME NEW r \in Requests, Receive(r) \/ Disconnect(r) \/ Reply(r) PROVE UNCHANGED paid
    BY <2>3 DEF Receive, Disconnect, Reply, supplierVars
  <2>4. Tick \/ UNCHANGED vars => UNCHANGED paid
    BY DEF Tick, vars, supplierVars
  <2> QED BY <1>2, <1>3, <2>1, <2>2, <2>3, <2>4 DEF Next

\* Each supplier has a bounded number of calls outstanding and its own daily
\* budget, whatever the mix of requests: both are ProviderBudget in the process.
THEOREM SuppliersAreMetered ==
  ASSUME NEW p \in Suppliers
  PROVE  Spec => Supplier(p)!Init /\ [][Supplier(p)!Next]_<<LR!Today, calls[p], paid[p]>>
<1>1. Init => Supplier(p)!Init
  <2> SUFFICES ASSUME Init PROVE Supplier(p)!Init
    OBVIOUS
  <2>1. LR!Today = 0
    BY ServerAssumption DEF Init, LR!Init, LR!Today, LR!DayOf
  <2> QED BY <2>1 DEF Init, Supplier!Init
<1>2. HandlerTypes /\ Accounts /\ [Next]_vars =>
        [Supplier(p)!Next]_<<LR!Today, calls[p], paid[p]>>
  <2>1. Accounts => paid \in [Suppliers -> [LR!UTCDays -> Nat]] /\ clock \in 0..MaxTime
    BY ServerAssumption DEF Accounts
  <2> QED BY <2>1, SupplierSteps
<1> QED BY <1>1, <1>2, HandlersInit, HandlersStep, AccountsInit, AccountsStep, PTL DEF Spec
-----------------------------------------------------------------------------
(***************************************************************************)
(* The limiter. A record counts the last requests of an address that got   *)
(* past it, those of the window the first of them opened; the requests     *)
(* before these, but for one window's worth, came a window before it.      *)
(***************************************************************************)
Records == [since : 0..MaxTime, count : 1..MaxCount]

\* The requests of a record that got past the limiter.
Passed(rec) == IF rec.count <= Limit THEN rec.count ELSE Limit

Ordered(a, now) == \A i, j \in DOMAIN a : i <= j => a[i] <= a[j] /\ a[j] <= now

Paced(a) == \A i \in DOMAIN a : i >= 2 * Limit => a[i] - a[i + 1 - 2 * Limit] >= Window

\* Of the first k requests all but the last Limit - 1 are a window ago.
PastBut(a, k, now) == \A i \in DOMAIN a : i + Limit <= k + 1 => a[i] + Window <= now

Remembers(a, rec, now) ==
  IF rec = None THEN PastBut(a, Len(a), now)
  ELSE /\ rec.since <= now /\ Passed(rec) <= Len(a)
       /\ a[Len(a) + 1 - Passed(rec)] <= rec.since
       /\ PastBut(a, Len(a) - Passed(rec), rec.since)

\* What holds of the requests of one address.
Kept(a, rec, now) == Ordered(a, now) /\ Paced(a) /\ Remembers(a, rec, now)

LEMMA LimitFacts ==
  /\ Limit \in Nat /\ Limit >= 1 /\ Window \in Nat /\ Window >= 1 /\ MaxCount \in Nat /\ MaxTime \in Nat
  /\ \A rec \in Records : /\ rec # None /\ rec.since \in Nat /\ rec.count \in Nat
                          /\ Passed(rec) \in 1..Limit
BY ServerAssumption DEF Records, Passed

\* Time alone changes nothing of it.
LEMMA KeptAsTimeGoes ==
  ASSUME NEW a \in Seq(Nat), NEW rec \in Records \cup {None}, NEW now \in Nat, Kept(a, rec, now)
  PROVE  Kept(a, rec, now + 1)
<1>1. \A i \in DOMAIN a : a[i] \in Nat
  OBVIOUS
<1>2. Ordered(a, now + 1)
  BY <1>1 DEF Kept, Ordered
<1>3. CASE rec = None
  <2> SUFFICES ASSUME NEW i \in DOMAIN a, i + Limit <= Len(a) + 1
               PROVE  a[i] + Window <= now + 1
    BY <1>2, <1>3 DEF Kept, Remembers, PastBut
  <2>1. a[i] \in Nat /\ Window \in Nat /\ a[i] + Window <= now
    BY <1>1, <1>3, LimitFacts DEF Kept, Remembers, PastBut
  <2> QED BY <2>1
<1>4. CASE rec # None
  <2>1. rec.since \in Nat /\ rec.since <= now
    BY <1>4, LimitFacts DEF Kept, Remembers
  <2>2. rec.since <= now + 1
    BY <2>1
  <2> QED BY <1>2, <1>4, <2>2 DEF Kept, Remembers
<1> QED BY <1>3, <1>4

\* A record that has expired is not needed: all it counts is a window ago, but for
\* less than a window's worth.
LEMMA KeptWhenPurged ==
  ASSUME NEW a \in Seq(Nat), NEW rec \in Records, NEW now \in Nat, Kept(a, rec, now),
         now - rec.since >= Window
  PROVE  Kept(a, None, now)
<1> SUFFICES ASSUME NEW i \in DOMAIN a, i + Limit <= Len(a) + 1
             PROVE  a[i] + Window <= now
  BY DEF Kept, Remembers, PastBut
<1> DEFINE first == Len(a) + 1 - Passed(rec)
<1>1. /\ rec # None /\ rec.since \in Nat /\ Passed(rec) \in 1..Limit /\ Limit \in Nat /\ Window \in Nat
  BY LimitFacts
<1>2. Len(a) \in Nat /\ DOMAIN a = 1..Len(a) /\ \A j \in DOMAIN a : a[j] \in Nat
  OBVIOUS
<1>3. Passed(rec) <= Len(a) /\ a[first] <= rec.since
  BY <1>1 DEF Kept, Remembers
<1>4. first \in DOMAIN a /\ i <= first
  BY <1>1, <1>2, <1>3
<1>5. a[i] <= a[first] /\ a[i] \in Nat /\ a[first] \in Nat
  BY <1>2, <1>4 DEF Kept, Ordered
<1> DEFINE since == rec.since
           early == a[i]
           late == a[first]
<1>6. /\ since \in Nat /\ early \in Nat /\ late \in Nat /\ Window \in Nat
      /\ early <= late /\ late <= since /\ now - since >= Window
  BY <1>1, <1>3, <1>5
<1> HIDE DEF since, early, late
<1>7. early + Window <= now
  BY <1>6
<1> QED BY <1>7 DEF early

\* A request that gets past the limiter, with the record it leaves.
LEMMA KeptWhenAdmitted ==
  ASSUME NEW a \in Seq(Nat), NEW rec \in Records \cup {None}, NEW next \in Records, NEW now \in Nat,
         Kept(a, rec, now), next.count <= Limit,
         \/ rec = None /\ next.since = now /\ next.count = 1
         \/ rec # None /\ next.since = rec.since /\ next.count = rec.count + 1
  PROVE  Kept(Append(a, now), next, now)
<1> DEFINE b == Append(a, now)
           n == Len(a)
           m == next.count
           since == next.since
<1>1. /\ Limit \in Nat /\ Limit >= 1 /\ Window \in Nat /\ next # None
      /\ since \in Nat /\ m \in Nat /\ m >= 1 /\ m <= Limit /\ Passed(next) = m
  BY LimitFacts DEF Passed
<1>2. /\ n \in Nat /\ DOMAIN a = 1..n /\ \A i \in 1..n : a[i] \in Nat
      /\ Len(b) = n + 1 /\ DOMAIN b = 1..(n + 1) /\ b[n + 1] = now /\ \A i \in 1..n : b[i] = a[i]
  OBVIOUS
<1>3. /\ since <= now /\ m <= n + 1 /\ PastBut(a, n + 1 - m, since)
      /\ m >= 2 => a[n + 2 - m] <= since
      /\ m = 1 => since = now
  <2>1. CASE rec = None
    <3>1. n + 1 - m = n /\ since = now /\ m = 1
      BY <1>1, <1>2, <2>1
    <3>2. PastBut(a, n, now)
      BY <2>1 DEF Kept, Remembers
    <3> QED BY <1>2, <3>1, <3>2
  <2>2. CASE rec # None
    <3> DEFINE k == rec.count
    <3>1. since = rec.since /\ m = k + 1 /\ k \in Nat /\ k >= 1 /\ Passed(rec) = k
      BY <1>1, <2>2, LimitFacts DEF Passed
    <3>2. rec.since <= now /\ k <= n /\ a[n + 1 - k] <= rec.since /\ PastBut(a, n - k, rec.since)
      BY <2>2, <3>1 DEF Kept, Remembers
    <3> HIDE DEF k, m, since, n
    <3>3. n + 1 - m = n - k /\ n + 2 - m = n + 1 - k /\ m <= n + 1 /\ m >= 2
      BY <1>1, <1>2, <3>1, <3>2
    <3> QED BY <3>1, <3>2, <3>3
  <2> QED BY <2>1, <2>2
<1> HIDE DEF b, n, m, since
<1>4. Ordered(b, now)
  BY <1>2 DEF Kept, Ordered, n
<1>5. PastBut(b, n + 1 - m, since)
  <2> SUFFICES ASSUME NEW i \in DOMAIN b, i + Limit <= (n + 1 - m) + 1
               PROVE  b[i] + Window <= since
    BY DEF PastBut
  <2>1. i \in 1..n
    BY <1>1, <1>2, <1>3
  <2>2. a[i] + Window <= since
    BY <1>2, <1>3, <2>1 DEF PastBut
  <2> QED BY <1>2, <2>1, <2>2
<1>6. Remembers(b, next, now)
  <2>1. Len(b) + 1 - m = n + 2 - m /\ Len(b) - m = n + 1 - m
    BY <1>1, <1>2
  <2>2. b[n + 2 - m] <= since
    <3>1. CASE m = 1
      <4>1. n + 2 - m = n + 1
        BY <1>2, <3>1
      <4> QED BY <1>2, <1>3, <3>1, <4>1
    <3>2. CASE m >= 2
      <4>1. n + 2 - m \in 1..n
        BY <1>1, <1>2, <1>3, <3>2
      <4> QED BY <1>2, <1>3, <3>2, <4>1
    <3> QED BY <1>1, <3>1, <3>2
  <2> QED BY <1>1, <1>2, <1>3, <1>5, <2>1, <2>2 DEF Remembers, since
<1>7. Paced(b)
  <2> SUFFICES ASSUME NEW i \in DOMAIN b, i >= 2 * Limit
               PROVE  b[i] - b[i + 1 - 2 * Limit] >= Window
    BY DEF Paced
  <2> DEFINE j == i + 1 - 2 * Limit
  <2>1. i \in 1..(n + 1) /\ j \in Nat /\ j >= 1 /\ j <= i
    BY <1>1, <1>2
  <2>2. CASE i <= n
    <3>1. i \in 1..n /\ j \in 1..n
      BY <1>2, <2>1, <2>2
    <3>2. a[i] - a[j] >= Window
      BY <1>2, <3>1 DEF Kept, Paced
    <3> QED BY <1>2, <3>1, <3>2
  <2>3. CASE i = n + 1
    <3>1. j + Limit <= (n + 1 - m) + 1 /\ j \in 1..n
      BY <1>1, <1>2, <1>3, <2>1, <2>3
    <3>2. a[j] + Window <= since /\ b[j] = a[j] /\ b[i] = now /\ a[j] \in Nat
      BY <1>2, <1>3, <2>3, <3>1 DEF PastBut
    <3> HIDE DEF j
    <3>3. b[i] - b[j] >= Window
      BY <1>1, <1>3, <3>2
    <3> QED BY <3>3 DEF j
  <2> QED BY <1>2, <2>1, <2>2, <2>3
<1> QED BY <1>4, <1>6, <1>7 DEF Kept, b

\* A request that is over the limit is counted all the same.
LEMMA KeptWhenRefused ==
  ASSUME NEW a \in Seq(Nat), NEW rec \in Records, NEW next \in Records, NEW now \in Nat,
         Kept(a, rec, now), next.since = rec.since, next.count = rec.count + 1, next.count > Limit
  PROVE  Kept(a, next, now)
<1>1. Passed(next) = Passed(rec) /\ next # None /\ rec # None
  BY LimitFacts DEF Passed
<1> QED BY <1>1 DEF Kept, Remembers

\* What the limiter remembers of every address.
LimiterInv ==
  /\ clock \in 0..MaxTime
  /\ clients \in [Clients -> Records \cup {None}]
  /\ admitted \in [Clients -> Seq(0..MaxTime)]
  /\ \A c \in Clients : Kept(admitted[c], clients[c], clock)

LEMMA LimiterInit == Init => LimiterInv
<1> SUFFICES ASSUME Init PROVE LimiterInv
  OBVIOUS
<1>1. /\ clock = 0 /\ clients = [c \in Clients |-> None] /\ admitted = [c \in Clients |-> << >>]
  BY DEF Init, LR!Init
<1>2. ASSUME NEW c \in Clients PROVE Kept(admitted[c], clients[c], clock)
  <2>1. clients[c] = None /\ DOMAIN admitted[c] = {}
    BY <1>1
  <2> QED BY <2>1 DEF Kept, Ordered, Paced, Remembers, PastBut
<1>3. << >> \in Seq(0..MaxTime)
  OBVIOUS
<1> QED BY <1>1, <1>2, <1>3, LimitFacts DEF LimiterInv

\* Dropping the expired records forgets nothing that matters.
LEMMA PurgedKeeps ==
  ASSUME LimiterInv, NEW c \in Clients
  PROVE  /\ Purged[c] \in Records \cup {None} /\ admitted[c] \in Seq(Nat) /\ clock \in Nat
         /\ Kept(admitted[c], Purged[c], clock)
<1>1. admitted[c] \in Seq(Nat) /\ clock \in Nat /\ clients[c] \in Records \cup {None}
      /\ Kept(admitted[c], clients[c], clock)
  BY LimitFacts DEF LimiterInv
<1>2. CASE Expired(clients[c])
  <2>1. clients[c] \in Records /\ clock - clients[c].since >= Window
    BY <1>1, <1>2 DEF Expired
  <2> QED BY <1>1, <1>2, <2>1, KeptWhenPurged DEF Purged
<1>3. CASE ~Expired(clients[c])
  BY <1>1, <1>3 DEF Purged
<1> QED BY <1>2, <1>3

\* The record that one more request leaves.
LEMMA CountFacts ==
  ASSUME LimiterInv, NEW c \in Clients, Count(c).count <= MaxCount
  PROVE  /\ Count(c) \in Records
         /\ \/ Purged[c] = None /\ Count(c).since = clock /\ Count(c).count = 1
            \/ /\ Purged[c] # None /\ Count(c).since = Purged[c].since
               /\ Count(c).count = Purged[c].count + 1
<1>1. Purged[c] \in Records \cup {None} /\ clock \in 0..MaxTime
  BY PurgedKeeps DEF LimiterInv
<1>2. CASE Purged[c] = None
  BY <1>1, <1>2, LimitFacts, ServerAssumption DEF Count, Records
<1>3. CASE Purged[c] # None
  <2>1. Purged[c] \in Records
    BY <1>1, <1>3
  <2>2. Count(c) = [Purged[c] EXCEPT !.count = Purged[c].count + 1]
    BY <1>3 DEF Count
  <2> QED BY <1>3, <2>1, <2>2, LimitFacts DEF Records
<1> QED BY <1>2, <1>3

\* One request: it may leave a record of its address, and be admitted.
LEMMA LimiterReceives ==
  ASSUME LimiterInv, NEW c \in Clients, UNCHANGED clock,
         \/ clients' = Purged /\ UNCHANGED admitted
         \/ /\ clients' = [Purged EXCEPT ![c] = Count(c)] /\ UNCHANGED admitted
            /\ Count(c).count > Limit /\ Count(c).count <= MaxCount
         \/ Admit(c)
  PROVE  LimiterInv'
<1>1. Purged \in [Clients -> Records \cup {None}]
  BY PurgedKeeps DEF Purged
<1>2. CASE clients' = Purged /\ UNCHANGED admitted
  BY <1>1, <1>2, PurgedKeeps DEF LimiterInv
<1>3. ASSUME NEW d \in Clients, d # c, clients' = [Purged EXCEPT ![c] = Count(c)],
             admitted'[d] = admitted[d]
      PROVE  Kept(admitted'[d], clients'[d], clock')
  BY <1>1, <1>3, PurgedKeeps
<1>4. CASE /\ clients' = [Purged EXCEPT ![c] = Count(c)] /\ UNCHANGED admitted
           /\ Count(c).count > Limit /\ Count(c).count <= MaxCount
  <2>1. /\ Count(c) \in Records /\ Purged[c] \in Records
        /\ Count(c).since = Purged[c].since /\ Count(c).count = Purged[c].count + 1
    BY <1>1, <1>4, CountFacts, LimitFacts
  <2>2. Kept(admitted[c], Count(c), clock)
    BY <1>4, <2>1, PurgedKeeps, KeptWhenRefused
  <2>3. clients'[c] = Count(c) /\ clients' \in [Clients -> Records \cup {None}]
    BY <1>1, <1>4, <2>1
  <2> QED BY <1>3, <1>4, <2>2, <2>3 DEF LimiterInv
<1>5. CASE Admit(c)
  <2>1. /\ Count(c).count <= Limit /\ clients' = [Purged EXCEPT ![c] = Count(c)]
        /\ admitted' = [admitted EXCEPT ![c] = Append(admitted[c], clock)]
    BY <1>5 DEF Admit
  <2>2. Count(c).count <= MaxCount
    <3>1. Count(c).count \in Nat
      BY <1>1, LimitFacts DEF Count
    <3> QED BY <2>1, <3>1, ServerAssumption
  <2>3. Kept(Append(admitted[c], clock), Count(c), clock)
    BY <2>1, <2>2, CountFacts, PurgedKeeps, KeptWhenAdmitted
  <2>4. /\ clients'[c] = Count(c) /\ clients' \in [Clients -> Records \cup {None}]
        /\ admitted'[c] = Append(admitted[c], clock) /\ admitted' \in [Clients -> Seq(0..MaxTime)]
        /\ \A d \in Clients : d # c => admitted'[d] = admitted[d]
    BY <1>1, <2>1, <2>2, CountFacts DEF LimiterInv
  <2> QED BY <1>3, <2>1, <2>3, <2>4 DEF LimiterInv
<1> QED BY <1>2, <1>4, <1>5

LEMMA LimiterStep == LimiterInv /\ [Next]_vars => LimiterInv'
<1> SUFFICES ASSUME LimiterInv, [Next]_vars PROVE LimiterInv'
  OBVIOUS
<1>1. CASE UNCHANGED <<clock, clients, admitted>>
  BY <1>1 DEF LimiterInv
<1>2. CASE Tick
  <2>1. clock' = clock + 1 /\ clock' \in 0..MaxTime /\ UNCHANGED <<clients, admitted>>
    BY <1>2, LimitFacts DEF Tick, LR!Tick, LimiterInv
  <2>2. ASSUME NEW c \in Clients PROVE Kept(admitted[c], clients[c], clock + 1)
    <3>1. admitted[c] \in Seq(Nat) /\ clients[c] \in Records \cup {None} /\ clock \in Nat
      BY LimitFacts DEF LimiterInv
    <3> QED BY <3>1, KeptAsTimeGoes DEF LimiterInv
  <2> QED BY <2>1, <2>2 DEF LimiterInv
<1>3. ASSUME NEW r \in Requests, Receive(r) PROVE LimiterInv'
  <2>1. UNCHANGED clock
    BY <1>3 DEF Receive
  <2>2. CASE Preliminary(r)
    BY <1>1, <2>1, <2>2 DEF Preliminary
  <2>3. ASSUME NEW c \in Clients,
               Forgotten(r, c) \/ OverLimit(r, c) \/ Immediate(r, c) \/ LiveRoute(r, c) \/ Schedule(r, c)
        PROVE  LimiterInv'
    <3>1. \/ clients' = Purged /\ UNCHANGED admitted
          \/ /\ clients' = [Purged EXCEPT ![c] = Count(c)] /\ UNCHANGED admitted
             /\ Count(c).count > Limit /\ Count(c).count <= MaxCount
          \/ Admit(c)
      BY <2>3 DEF Forgotten, OverLimit, Immediate, LiveRoute, Schedule
    <3> QED BY <2>1, <3>1, LimiterReceives
  <2> QED BY <1>3, <2>2, <2>3 DEF Receive
<1> QED
  <2>1. ASSUME NEW t \in Tasks, LiveStep(t) PROVE UNCHANGED <<clock, clients, admitted>>
    BY <2>1 DEF LiveStep, LR!TaskStep, LR!ProviderReturns, LR!Store, LR!Deliver
  <2>2. ASSUME NEW r \in Requests, Disconnect(r) \/ Reply(r) PROVE UNCHANGED <<clock, clients, admitted>>
    BY <2>2 DEF Disconnect, Reply
  <2>3. ASSUME NEW r \in Requests, NEW p \in Suppliers, SupplierCall(r, p) \/ SupplierReturn(r, p)
        PROVE  UNCHANGED <<clock, clients, admitted>>
    BY <2>3 DEF SupplierCall, SupplierReturn
  <2>4. UNCHANGED vars => UNCHANGED <<clock, clients, admitted>>
    BY DEF vars
  <2> QED BY <1>1, <1>2, <1>3, <2>1, <2>2, <2>3, <2>4 DEF Next
-----------------------------------------------------------------------------
(***************************************************************************)
(* The types of the whole process.                                         *)
(***************************************************************************)
LRP == INSTANCE LiveRoutesProofs WITH Queries <- Requests, Budget <- LiveBudget

LEMMA LiveRoutesAssumed == LRP!LiveRoutesAssumption
BY ServerAssumption DEF LRP!LiveRoutesAssumption, IsFiniteSet, LRP!IsFiniteSet

\* The two instances of LiveRoutes are one.
LEMMA SameInit == LR!Init = LRP!Init
BY DEF LR!Init, LRP!Init, LR!UTCDays, LRP!UTCDays, LR!DayOf, LRP!DayOf

LEMMA SameTick == LR!Tick = LRP!Tick
BY DEF LR!Tick, LRP!Tick, LR!budgetVars, LRP!budgetVars, LR!taskVars, LRP!taskVars,
       LR!queryVars, LRP!queryVars

LEMMA SameTaskSteps == \A t \in Tasks : LR!TaskStep(t) = LRP!TaskStep(t)
BY DEF LR!TaskStep, LRP!TaskStep, LR!ProviderReturns, LRP!ProviderReturns, LR!Store, LRP!Store,
       LR!Deliver, LRP!Deliver, LR!budgetVars, LRP!budgetVars, LR!queryVars, LRP!queryVars,
       LR!Resolved, LRP!Resolved, LR!Rejected, LRP!Rejected, LR!Cacheable, LRP!Cacheable,
       LR!CacheSet, LRP!CacheSet

LEMMA SameQueries == \A q \in Requests, o \in Origins : LR!Query(q, o) = LRP!Query(q, o)
<1>1. LR!TooMany = LRP!TooMany
  BY DEF LR!TooMany, LRP!TooMany, LR!Pending, LRP!Pending, LR!Cardinality, LRP!Cardinality
<1>2. \A o \in Origins : LR!Cached(o) = LRP!Cached(o)
  BY DEF LR!Cached, LRP!Cached, LR!Fresh, LRP!Fresh
<1>3. \A t \in Tasks, o \in Origins : LR!FetchOrigin(t, o) = LRP!FetchOrigin(t, o)
  BY DEF LR!FetchOrigin, LRP!FetchOrigin, LR!UsedToday, LRP!UsedToday, LR!Today, LRP!Today,
         LR!DayOf, LRP!DayOf, LR!Rejected, LRP!Rejected
<1> QED
  BY <1>1, <1>2, <1>3
     DEF LR!Query, LRP!Query, LR!BetweenEvents, LRP!BetweenEvents, LR!ServeCached,
         LRP!ServeCached, LR!JoinInFlight, LRP!JoinInFlight, LR!Refuse, LRP!Refuse, LR!Start,
         LRP!Start, LR!AnswerNow, LRP!AnswerNow, LR!Await, LRP!Await, LR!Rejected, LRP!Rejected,
         LR!budgetVars, LRP!budgetVars, LR!taskVars, LRP!taskVars

\* What LiveRoutesProofs proves of the types of its gateway holds in the process.
LEMMA RunsAsProved == Spec => LRP!Spec
<1>1. Init => LRP!Init
  BY SameInit DEF Init
<1>2. LR!Next = LRP!Next
  BY SameTick, SameTaskSteps, SameQueries DEF LR!Next, LRP!Next
<1>3. [Next]_vars => [LRP!Next]_(LRP!vars)
  <2> SUFFICES ASSUME [Next]_vars PROVE LRP!Next \/ UNCHANGED LRP!vars
    OBVIOUS
  <2>1. CASE LR!Next
    BY <1>2, <2>1
  <2>2. CASE UNCHANGED LR!vars
    BY <2>2 DEF LR!vars, LRP!vars, LR!budgetVars, LRP!budgetVars, LR!taskVars, LRP!taskVars,
       LR!queryVars, LRP!queryVars
  <2> QED BY <2>1, <2>2, ServerTakesLiveSteps
<1> QED BY <1>1, <1>3, PTL DEF Spec, LRP!Spec

LEMMA SameTypes == LR!TypeOK = LRP!TypeOK
BY DEF LR!TypeOK, LRP!TypeOK, LR!UTCDays, LRP!UTCDays, LR!DayOf, LRP!DayOf, LR!Phases,
       LRP!Phases, LR!Result, LRP!Result, LR!Response, LRP!Response


LEMMA LiveTypes == Spec => []LR!TypeOK
<1>1. LRP!Spec => []LRP!TypeOK
  BY LiveRoutesAssumed, LRP!TypesHold
<1>2. LRP!TypeOK => LR!TypeOK
  BY SameTypes
<1> QED BY <1>1, <1>2, RunsAsProved, PTL

\* The limiter keeps its types and lets no more of one address past it than two
\* windows' worth less one in any stretch of a window, however often its record is
\* dropped and made again; and its table does not overflow.
THEOREM LimiterHolds == Spec => []LimiterSound
<1>1. LimiterInv /\ TableBounded => AdmissionBounded
  BY DEF LimiterInv, TableBounded, AdmissionBounded, Kept, Paced
<1>2. LR!TypeOK /\ LimiterInv /\ HandlerTypes /\ Accounts => TypeOK
  BY DEF LimiterInv, Records, HandlerTypes, Codes, Accounts, TypeOK
<1>3. Spec => [](HandlerTypes /\ Accounts /\ LimiterInv)
  BY HandlersInit, HandlersStep, AccountsInit, AccountsStep, LimiterInit, LimiterStep, PTL DEF Spec
<1> QED BY <1>1, <1>2, <1>3, LiveTypes, TableNeverOverflows, PTL DEF LimiterSound
=============================================================================
