-------------------------- MODULE LiveRoutesProofs --------------------------
(***************************************************************************)
(* Theorems about LiveRoutes, for every number of callers, airports and    *)
(* promises: its types, its budget as a metered provider client whose      *)
(* slots are the cap on pending requests, the freshness of what it         *)
(* answers, and that it forgets a failure.                                 *)
(***************************************************************************)
EXTENDS LiveRoutes, TLAPS, FiniteSetTheorems, SequenceTheorems, FunctionTheorems

-----------------------------------------------------------------------------
(***************************************************************************)
(* Types, with the data of the live tasks.                                 *)
(***************************************************************************)
Ask == [origin : Origins, since : 0..MaxTime]

\* A live task has its airport, and one that has ended has its outcome.
TaskData ==
  \A t \in Tasks :
    /\ phase[t] # "idle" => origin[t] \in Origins
    /\ phase[t] \in {"settled", "stored"} => outcome[t] \in Result

TypeInv == TypeOK /\ TaskData

LEMMA DayOfNat == ASSUME NEW t \in Nat PROVE DayOf(t) \in Nat
BY LiveRoutesAssumption DEF DayOf

LEMMA DayOfMonotone ==
  ASSUME NEW s \in Nat, NEW t \in Nat, s <= t PROVE DayOf(s) <= DayOf(t)
BY LiveRoutesAssumption DEF DayOf

LEMMA TodayType == ASSUME clock \in 0..MaxTime PROVE Today \in UTCDays /\ Today \in Nat
BY DayOfNat, DayOfMonotone, LiveRoutesAssumption DEF Today, UTCDays

LEMMA CacheSetType ==
  ASSUME cache \in Seq(Response), NEW entry \in Response
  PROVE  CacheSet(entry) \in Seq(Response)
<1> DEFINE room == IF Len(cache) >= CacheCap THEN Tail(cache) ELSE cache
<1>1. room \in Seq(Response)
  <2>1. CASE Len(cache) >= CacheCap
    BY <2>1, LiveRoutesAssumption
  <2>2. CASE ~(Len(cache) >= CacheCap)
    BY <2>2
  <2> QED BY <2>1, <2>2
<1> HIDE DEF room
<1>2. [i \in DOMAIN room |-> IF room[i].origin = entry.origin THEN entry ELSE room[i]] \in Seq(Response)
  <2>1. DOMAIN room = 1..Len(room) /\ Len(room) \in Nat
    BY <1>1
  <2>2. \A i \in 1..Len(room) : room[i] \in Response
    BY <1>1
  <2> QED BY <2>1, <2>2, IsASeq
<1>3. Append(room, entry) \in Seq(Response)
  BY <1>1
<1> QED BY <1>2, <1>3 DEF CacheSet, room

LEMMA CacheSetEntries ==
  ASSUME cache \in Seq(Response), NEW entry \in Response, cache' = CacheSet(entry),
         NEW i \in DOMAIN cache'
  PROVE  cache'[i] = entry \/ \E j \in DOMAIN cache : cache'[i] = cache[j]
<1> DEFINE room == IF Len(cache) >= CacheCap THEN Tail(cache) ELSE cache
<1>1. /\ room \in Seq(Response)
      /\ \A j \in 1..Len(room) : \E k \in DOMAIN cache : room[j] = cache[k]
  <2>1. CASE Len(cache) >= CacheCap
    <3>1. cache # <<>> /\ Len(cache) \in Nat
      BY <2>1, LiveRoutesAssumption
    <3>2. /\ Tail(cache) \in Seq(Response) /\ Len(Tail(cache)) = Len(cache) - 1
          /\ \A j \in 1..Len(Tail(cache)) : Tail(cache)[j] = cache[j + 1]
      BY <3>1
    <3>3. \A j \in 1..Len(Tail(cache)) : j + 1 \in DOMAIN cache
      BY <3>1, <3>2
    <3> QED BY <2>1, <3>2, <3>3
  <2>2. CASE ~(Len(cache) >= CacheCap)
    BY <2>2
  <2> QED BY <2>1, <2>2
<1> HIDE DEF room
<1>2. CASE \E j \in DOMAIN room : room[j].origin = entry.origin
  <2>1. cache' = [j \in DOMAIN room |-> IF room[j].origin = entry.origin THEN entry ELSE room[j]]
    BY <1>2 DEF CacheSet, room
  <2>2. i \in 1..Len(room) /\ (cache'[i] = entry \/ cache'[i] = room[i])
    BY <1>1, <2>1
  <2> QED BY <1>1, <2>2
<1>3. CASE ~\E j \in DOMAIN room : room[j].origin = entry.origin
  <2>1. cache' = Append(room, entry)
    BY <1>3 DEF CacheSet, room
  <2>2. i \in 1..Len(room) + 1 /\ (i = Len(room) + 1 => cache'[i] = entry)
        /\ (i # Len(room) + 1 => i \in 1..Len(room) /\ cache'[i] = room[i])
    BY <1>1, <2>1
  <2> QED BY <1>1, <2>2
<1> QED BY <1>2, <1>3

LEMMA TypeInit == Init => TypeInv
<1> SUFFICES ASSUME Init PROVE TypeInv
  OBVIOUS
<1>1. TypeOK
  BY LiveRoutesAssumption, DayOfNat DEF Init, TypeOK, Phases, UTCDays
<1>2. TaskData
  BY DEF Init, TaskData
<1> QED BY <1>1, <1>2 DEF TypeInv

\* A new promise asks the provider, or is rejected for want of budget.
LEMMA FetchTypes ==
  ASSUME TypeInv, NEW t \in Tasks, NEW o \in Origins, FetchOrigin(t, o)
  PROVE  /\ budgetDate' \in UTCDays \cup {None} /\ used' \in Nat /\ spent' \in [UTCDays -> Nat]
         /\ phase' \in [Tasks -> Phases] /\ origin' \in [Tasks -> Origins \cup {None}]
         /\ outcome' \in [Tasks -> Result \cup {None}] /\ TaskData'
         /\ \/ /\ phase' = [phase EXCEPT ![t] = "calling"] /\ outcome' = outcome
               /\ UsedToday < Budget /\ spent' = [spent EXCEPT ![Today] = @ + 1]
            \/ /\ phase' = [phase EXCEPT ![t] = "settled"]
               /\ outcome' = [outcome EXCEPT ![t] = Rejected] /\ spent' = spent
<1>1. Today \in UTCDays /\ UsedToday \in Nat /\ Rejected \in Result
  BY TodayType DEF TypeInv, TypeOK, UsedToday, Rejected, Result
<1>2. budgetDate' = Today /\ origin' = [origin EXCEPT ![t] = o]
  BY DEF FetchOrigin
<1>3. CASE /\ used' = UsedToday + 1 /\ spent' = [spent EXCEPT ![Today] = @ + 1]
           /\ phase' = [phase EXCEPT ![t] = "calling"] /\ outcome' = outcome /\ UsedToday < Budget
  BY <1>1, <1>2, <1>3 DEF TypeInv, TypeOK, TaskData, Phases
<1>4. CASE /\ used' = UsedToday /\ spent' = spent /\ phase' = [phase EXCEPT ![t] = "settled"]
           /\ outcome' = [outcome EXCEPT ![t] = Rejected]
  BY <1>1, <1>2, <1>4 DEF TypeInv, TypeOK, TaskData, Phases
<1> QED BY <1>3, <1>4 DEF FetchOrigin

\* A request is answered at once, joins a promise, or starts one.
LEMMA QueryCases ==
  ASSUME NEW q \in Queries, NEW o \in Origins, Query(q, o)
  PROVE  /\ UNCHANGED <<clock, cache>> /\ BetweenEvents /\ awaits[q] = None
         /\ asked' = [asked EXCEPT ![q] = [origin |-> o, since |-> clock]]
         /\ \/ ServeCached(q, o)
            \/ AnswerNow(q, Rejected)
            \/ /\ pending[o] # None /\ Await(q, pending[o])
               /\ UNCHANGED <<budgetVars, taskVars, pending>>
            \/ /\ Cached(o) = {} /\ pending[o] = None /\ ~TooMany
               /\ \E t \in Tasks :
                    FetchOrigin(t, o) /\ pending' = [pending EXCEPT ![o] = t] /\ Await(q, t)
BY DEF Query, JoinInFlight, Refuse, Start

LEMMA TypeStep == TypeInv /\ [Next]_vars => TypeInv'
<1> SUFFICES ASSUME TypeInv, [Next]_vars PROVE TypeInv'
  OBVIOUS
<1>0. TypeOK /\ TaskData /\ clock \in 0..MaxTime /\ Resolved \in Result /\ Rejected \in Result
  BY DEF TypeInv, TypeOK, Resolved, Rejected, Result
<1> USE DEF budgetVars, taskVars, queryVars
<1>1. CASE Tick
  BY <1>0, <1>1, LiveRoutesAssumption DEF Tick, TypeInv, TypeOK, TaskData
<1>2. ASSUME NEW t \in Tasks, ProviderReturns(t) PROVE TypeInv'
  <2>1. PICK res \in Result : outcome' = [outcome EXCEPT ![t] = res]
    BY <1>0, <1>2 DEF ProviderReturns
  <2>2. TypeOK'
    BY <1>0, <1>2, <2>1 DEF ProviderReturns, TypeOK, Phases
  <2>3. TaskData'
    BY <1>0, <1>2, <2>1 DEF ProviderReturns, TypeOK, TaskData
  <2> QED BY <2>2, <2>3 DEF TypeInv
<1>3. ASSUME NEW t \in Tasks, Store(t) PROVE TypeInv'
  <2> DEFINE entry == [origin |-> origin[t], at |-> outcome[t].at]
  <2>1. phase[t] = "settled" /\ phase' = [phase EXCEPT ![t] = "stored"]
        /\ cache' = IF outcome[t].ok THEN CacheSet(entry) ELSE cache
    BY <1>3 DEF Store, Cacheable
  <2>2. entry \in Response
    BY <1>0, <2>1 DEF TaskData, Result, Response
  <2> HIDE DEF entry
  <2>3. cache' \in Seq(Response)
    BY <1>0, <2>1, <2>2, CacheSetType DEF TypeOK
  <2>4. TypeOK'
    BY <1>0, <1>3, <2>1, <2>3 DEF Store, TypeOK, Phases
  <2>5. TaskData'
    BY <1>0, <1>3, <2>1 DEF Store, TypeOK, TaskData
  <2> QED BY <2>4, <2>5 DEF TypeInv
<1>4. ASSUME NEW t \in Tasks, Deliver(t) PROVE TypeInv'
  <2>1. outcome[t] \in Result
    BY <1>0, <1>4 DEF Deliver, TaskData
  <2>2. TypeOK'
    BY <1>0, <1>4, <2>1 DEF Deliver, TypeOK, Phases
  <2>3. TaskData'
    BY <1>0, <1>4 DEF Deliver, TypeOK, TaskData
  <2> QED BY <2>2, <2>3 DEF TypeInv
<1>5. ASSUME NEW q \in Queries, NEW o \in Origins, Query(q, o) PROVE TypeInv'
  <2>1. /\ UNCHANGED <<clock, cache>>
        /\ asked' \in [Queries -> Ask \cup {None}]
    <3>1. [origin |-> o, since |-> clock] \in Ask
      BY <1>0 DEF Ask
    <3> QED BY <1>0, <1>5, <3>1, QueryCases DEF TypeOK, Ask
  <2>2. ASSUME NEW res \in Result, AnswerNow(q, res) PROVE TypeInv'
    BY <1>0, <2>1, <2>2 DEF AnswerNow, TypeInv, TypeOK, TaskData, Ask
  <2>3. CASE ServeCached(q, o)
    <3>1. PICK i \in Cached(o) : AnswerNow(q, [ok |-> TRUE, at |-> cache[i].at])
      BY <2>3 DEF ServeCached
    <3>2. cache[i] \in Response
      BY <1>0 DEF Cached, TypeOK
    <3>3. [ok |-> TRUE, at |-> cache[i].at] \in Result
      BY <3>2 DEF Response, Result
    <3> QED BY <2>2, <3>1, <3>3
  <2>4. CASE pending[o] # None /\ Await(q, pending[o]) /\ UNCHANGED <<budgetVars, taskVars, pending>>
    BY <1>0, <2>1, <2>4 DEF Await, TypeInv, TypeOK, TaskData, Ask
  <2>5. ASSUME NEW t \in Tasks, FetchOrigin(t, o), pending' = [pending EXCEPT ![o] = t], Await(q, t)
        PROVE  TypeInv'
    BY <1>0, <2>1, <2>5, FetchTypes DEF Await, TypeInv, TypeOK, Ask
  <2> QED BY <1>0, <1>5, <2>2, <2>3, <2>4, <2>5, QueryCases
<1>6. CASE UNCHANGED vars
  BY <1>0, <1>6 DEF vars, TypeInv, TypeOK, TaskData
<1> QED BY <1>1, <1>2, <1>3, <1>4, <1>5, <1>6 DEF Next, TaskStep

\* Every variable keeps its type.
THEOREM TypesHold == Spec => []TypeOK
<1>1. TypeInv => TypeOK
  BY DEF TypeInv
<1> QED BY <1>1, TypeInit, TypeStep, PTL DEF Spec

-----------------------------------------------------------------------------
(***************************************************************************)
(* The budget of a UTC day.                                                *)
(***************************************************************************)
DailyCeiling == \A d \in UTCDays : spent[d] <= Budget

\* `used` counts the requests of budgetDate, and no later day has any.
BudgetInv ==
  /\ DailyCeiling
  /\ budgetDate # None => budgetDate <= Today /\ used = spent[budgetDate]
  /\ \A d \in UTCDays : (budgetDate = None \/ d > budgetDate) => spent[d] = 0

LEMMA UsedTodayIsSpent ==
  ASSUME TypeOK, BudgetInv
  PROVE  Today \in UTCDays /\ UsedToday = spent[Today] /\ UsedToday \in Nat
<1>1. Today \in UTCDays /\ Today \in Nat
  BY TodayType DEF TypeOK
<1>2. CASE budgetDate = Today
  BY <1>1, <1>2, LiveRoutesAssumption DEF BudgetInv, UsedToday, TypeOK
<1>3. CASE budgetDate # Today
  <2>1. UsedToday = 0
    BY <1>3 DEF UsedToday
  <2>2. budgetDate = None \/ Today > budgetDate
    BY <1>1, <1>3 DEF BudgetInv, TypeOK, UTCDays
  <2> QED BY <1>1, <2>1, <2>2 DEF BudgetInv
<1> QED BY <1>2, <1>3

LEMMA BudgetInit == Init => BudgetInv
BY LiveRoutesAssumption DEF Init, BudgetInv, DailyCeiling

LEMMA FetchBudget ==
  ASSUME TypeOK, BudgetInv, NEW t \in Tasks, NEW o \in Origins, FetchOrigin(t, o), UNCHANGED clock
  PROVE  BudgetInv'
<1>1. Today \in UTCDays /\ UsedToday = spent[Today] /\ UsedToday \in Nat /\ Today # None
  BY UsedTodayIsSpent, LiveRoutesAssumption DEF UTCDays
<1>2. Today' = Today /\ budgetDate' = Today
  BY DEF Today, FetchOrigin
<1>3. \A e \in UTCDays : e > Today => spent[e] = 0
  BY <1>1 DEF BudgetInv, TypeOK, UTCDays
<1>4. CASE used' = UsedToday + 1 /\ spent' = [spent EXCEPT ![Today] = @ + 1] /\ UsedToday < Budget
  <2>1. DailyCeiling'
    BY <1>1, <1>4, LiveRoutesAssumption DEF BudgetInv, DailyCeiling, TypeOK
  <2> QED BY <1>1, <1>2, <1>3, <1>4, <2>1 DEF BudgetInv, TypeOK, UTCDays
<1>5. CASE used' = UsedToday /\ spent' = spent
  BY <1>1, <1>2, <1>3, <1>5 DEF BudgetInv, DailyCeiling, UTCDays
<1> QED BY <1>4, <1>5 DEF FetchOrigin

LEMMA BudgetStep == TypeOK /\ BudgetInv /\ [Next]_vars => BudgetInv'
<1> SUFFICES ASSUME TypeOK, BudgetInv, [Next]_vars PROVE BudgetInv'
  OBVIOUS
<1>1. CASE Tick
  <2>1. clock \in Nat /\ clock' \in Nat /\ clock <= clock'
    BY <1>1, LiveRoutesAssumption DEF Tick, TypeOK
  <2>2. Today <= Today' /\ Today \in Nat /\ Today' \in Nat
    BY <2>1, DayOfMonotone, DayOfNat DEF Today
  <2>3. UNCHANGED budgetVars
    BY <1>1 DEF Tick
  <2> HIDE DEF Today
  <2>4. budgetDate # None => budgetDate <= Today'
    BY <2>2 DEF BudgetInv, TypeOK, UTCDays
  <2> QED BY <2>3, <2>4 DEF BudgetInv, DailyCeiling, budgetVars
<1>2. ASSUME UNCHANGED <<clock, budgetVars>> PROVE BudgetInv'
  BY <1>2 DEF BudgetInv, DailyCeiling, Today, budgetVars
<1>3. ASSUME NEW t \in Tasks, TaskStep(t) PROVE BudgetInv'
  BY <1>2, <1>3 DEF TaskStep, ProviderReturns, Store, Deliver
<1>4. ASSUME NEW q \in Queries, NEW o \in Origins, Query(q, o) PROVE BudgetInv'
  <2>1. UNCHANGED clock
    BY <1>4, QueryCases
  <2>2. UNCHANGED budgetVars \/ \E t \in Tasks : FetchOrigin(t, o)
    BY <1>4, QueryCases DEF ServeCached, AnswerNow
  <2> QED BY <1>2, <2>1, <2>2, FetchBudget
<1>5. CASE UNCHANGED vars
  BY <1>2, <1>5 DEF vars
<1> QED BY <1>1, <1>3, <1>4, <1>5 DEF Next

-----------------------------------------------------------------------------
(***************************************************************************)
(* The map of promises: the promise of an airport is the one that fetches  *)
(* it, every promise that is not delivered has its entry, and the map is   *)
(* within its cap.                                                         *)
(***************************************************************************)
Promises ==
  /\ IsFiniteSet(Pending) /\ Cardinality(Pending) <= PendingCap
  /\ \A t \in Tasks : phase[t] # "idle" => pending[origin[t]] = t
  /\ \A o \in Pending : phase[pending[o]] # "idle" /\ origin[pending[o]] = o

LEMMA PromisesInit == Init => Promises
<1> SUFFICES ASSUME Init PROVE Promises
  OBVIOUS
<1>1. Pending = {} /\ \A t \in Tasks : phase[t] = "idle"
  BY DEF Init, Pending
<1> QED BY <1>1, FS_EmptySet, LiveRoutesAssumption DEF Promises

LEMMA SamePromises ==
  ASSUME Promises, TypeInv, UNCHANGED <<pending, origin>>,
         \A t \in Tasks : phase'[t] = "idle" <=> phase[t] = "idle"
  PROVE  Promises'
<1>1. Pending' = Pending /\ \A o \in Pending : pending[o] \in Tasks
  BY DEF Pending, TypeInv, TypeOK
<1> QED BY <1>1 DEF Promises

LEMMA PromiseMade ==
  ASSUME Promises, TypeInv, NEW t \in Tasks, NEW o \in Origins, FetchOrigin(t, o),
         pending[o] = None, ~TooMany, pending' = [pending EXCEPT ![o] = t]
  PROVE  Promises'
<1>0. /\ pending \in [Origins -> Tasks \cup {None}] /\ origin \in [Tasks -> Origins \cup {None}]
      /\ None \notin Tasks /\ \A u \in Tasks : phase[u] # "idle" => origin[u] \in Origins
      /\ phase \in [Tasks -> Phases] /\ phase[t] = "idle"
  BY LiveRoutesAssumption DEF TypeInv, TypeOK, TaskData, FetchOrigin
<1>1. origin' = [origin EXCEPT ![t] = o] /\ \E p \in {"calling", "settled"} : phase' = [phase EXCEPT ![t] = p]
  BY DEF FetchOrigin
<1>2. Pending' = Pending \cup {o} /\ o \notin Pending
  BY <1>0 DEF Pending
<1>3. IsFiniteSet(Pending') /\ Cardinality(Pending') <= PendingCap
  <2>1. IsFiniteSet(Pending) /\ Cardinality(Pending) \in Nat
    BY FS_CardinalityType DEF Promises
  <2>2. Cardinality(Pending) < PendingCap
    BY <2>1, LiveRoutesAssumption DEF TooMany
  <2>3. IsFiniteSet(Pending') /\ Cardinality(Pending') = Cardinality(Pending) + 1
    BY <1>2, <2>1, FS_AddElement
  <2> QED BY <2>1, <2>2, <2>3, LiveRoutesAssumption
<1>4. ASSUME NEW u \in Tasks, phase'[u] # "idle" PROVE pending'[origin'[u]] = u
  <2>1. CASE u = t
    BY <1>0, <1>1, <2>1
  <2>2. CASE u # t
    <3>1. origin'[u] = origin[u] /\ pending[origin[u]] = u /\ origin[u] \in Origins
      BY <1>0, <1>1, <1>4, <2>2 DEF Promises
    <3> QED BY <1>0, <3>1
  <2> QED BY <2>1, <2>2
<1>5. ASSUME NEW s \in Pending' PROVE phase'[pending'[s]] # "idle" /\ origin'[pending'[s]] = s
  <2>1. CASE s = o
    BY <1>0, <1>1, <2>1
  <2>2. CASE s \in Pending
    <3>1. s \in Origins /\ pending[s] \in Tasks /\ s # o
      BY <1>0, <1>2, <2>2 DEF Pending
    <3>2. pending'[s] = pending[s] /\ pending[s] # t
      BY <1>0, <2>2, <3>1 DEF Promises
    <3> QED BY <1>0, <1>1, <2>2, <3>1, <3>2 DEF Promises
  <2> QED BY <1>2, <2>1, <2>2
<1> QED BY <1>3, <1>4, <1>5 DEF Promises

LEMMA PromiseKept ==
  ASSUME Promises, TypeInv, NEW t \in Tasks, Deliver(t)
  PROVE  Promises'
<1>0. /\ pending \in [Origins -> Tasks \cup {None}] /\ origin \in [Tasks -> Origins \cup {None}]
      /\ None \notin Tasks /\ \A u \in Tasks : phase[u] # "idle" => origin[u] \in Origins
      /\ phase \in [Tasks -> Phases]
  BY LiveRoutesAssumption DEF TypeInv, TypeOK, TaskData
<1>1. /\ phase[t] = "stored" /\ pending' = [pending EXCEPT ![origin[t]] = None]
      /\ phase' = [phase EXCEPT ![t] = "idle"] /\ origin' = [origin EXCEPT ![t] = None]
  BY DEF Deliver
<1>2. origin[t] \in Origins /\ pending[origin[t]] = t
  BY <1>0, <1>1 DEF Promises
<1>3. Pending' = Pending \ {origin[t]} /\ origin[t] \in Pending
  BY <1>0, <1>1, <1>2 DEF Pending
<1>4. IsFiniteSet(Pending') /\ Cardinality(Pending') <= PendingCap
  <2>1. IsFiniteSet(Pending) /\ Cardinality(Pending) \in Nat
    BY FS_CardinalityType DEF Promises
  <2>2. IsFiniteSet(Pending') /\ Cardinality(Pending') <= Cardinality(Pending)
        /\ Cardinality(Pending') \in Nat
    BY <1>3, <2>1, FS_Subset, FS_CardinalityType
  <2> QED BY <2>1, <2>2, LiveRoutesAssumption DEF Promises
<1>5. ASSUME NEW u \in Tasks, phase'[u] # "idle" PROVE pending'[origin'[u]] = u
  <2>1. u # t /\ origin'[u] = origin[u] /\ pending[origin[u]] = u /\ origin[u] \in Origins
    BY <1>0, <1>1, <1>5 DEF Promises
  <2>2. origin[u] # origin[t]
    BY <1>2, <2>1
  <2> QED BY <1>0, <1>1, <2>1, <2>2
<1>6. ASSUME NEW s \in Pending' PROVE phase'[pending'[s]] # "idle" /\ origin'[pending'[s]] = s
  <2>1. s \in Pending /\ s # origin[t] /\ s \in Origins /\ pending[s] \in Tasks
    BY <1>0, <1>3 DEF Pending
  <2>2. pending'[s] = pending[s] /\ origin[pending[s]] = s /\ phase[pending[s]] # "idle"
    BY <1>0, <1>1, <2>1 DEF Promises
  <2>3. pending[s] # t
    BY <2>1, <2>2
  <2> QED BY <1>0, <1>1, <2>1, <2>2, <2>3
<1> QED BY <1>4, <1>5, <1>6 DEF Promises

LEMMA PromisesStep == TypeInv /\ Promises /\ [Next]_vars => Promises'
<1> SUFFICES ASSUME TypeInv, Promises, [Next]_vars PROVE Promises'
  OBVIOUS
<1>t. phase \in [Tasks -> Phases]
  BY DEF TypeInv, TypeOK
<1>1. ASSUME NEW t \in Tasks, ProviderReturns(t) \/ Store(t) PROVE Promises'
  BY <1>t, <1>1, SamePromises DEF ProviderReturns, Store
<1>2. ASSUME NEW q \in Queries, NEW o \in Origins, Query(q, o) PROVE Promises'
  <2>1. CASE UNCHANGED <<taskVars, pending>>
    BY <2>1, SamePromises DEF taskVars
  <2> QED BY <1>2, <2>1, QueryCases, PromiseMade DEF ServeCached, AnswerNow
<1>3. Tick \/ UNCHANGED vars => Promises'
  BY SamePromises DEF Tick, vars, taskVars
<1> QED BY <1>1, <1>2, <1>3, PromiseKept DEF Next, TaskStep

LiveInv == TypeInv /\ BudgetInv /\ Promises

LEMMA LiveInit == Init => LiveInv
BY TypeInit, BudgetInit, PromisesInit DEF LiveInv

LEMMA LiveStep == LiveInv /\ [Next]_vars => LiveInv'
BY TypeStep, BudgetStep, PromisesStep DEF LiveInv, TypeInv

-----------------------------------------------------------------------------
(***************************************************************************)
(* The gateway is a metered provider client: it has no slots of its own,   *)
(* the cap on its map of promises bounds its requests.                     *)
(***************************************************************************)
Calling == {t \in Tasks : phase[t] = "calling"}

\* Each request outstanding has an entry of its own.
LEMMA CallingPending ==
  ASSUME TypeInv, Promises
  PROVE  /\ IsFiniteSet(Calling) /\ Cardinality(Calling) \in Nat
         /\ Cardinality(Calling) <= Cardinality(Pending)
<1> DEFINE f == [t \in Calling |-> origin[t]]
<1>1. \A t \in Calling : origin[t] \in Pending /\ pending[origin[t]] = t
  BY LiveRoutesAssumption DEF Calling, TypeInv, TaskData, Promises, Pending
<1>2. f \in Injection(Calling, Pending)
  BY <1>1 DEF Injection, IsInjective
<1> QED BY <1>2, FS_Injection, FS_CardinalityType DEF Promises

LEMMA FetchCalls ==
  ASSUME LiveInv, NEW t \in Tasks, NEW o \in Origins, FetchOrigin(t, o), UNCHANGED clock, ~TooMany
  PROVE  PB!Call(t) \/ UNCHANGED <<Today, Calling, spent>>
<1>0. TypeInv /\ TypeOK /\ BudgetInv /\ Promises /\ phase \in [Tasks -> Phases] /\ phase[t] = "idle"
  BY DEF LiveInv, TypeInv, TypeOK, FetchOrigin
<1>1. Today' = Today /\ UsedToday = spent[Today]
  BY <1>0, UsedTodayIsSpent DEF Today
<1>2. CASE /\ phase' = [phase EXCEPT ![t] = "calling"] /\ UsedToday < Budget
           /\ spent' = [spent EXCEPT ![Today] = @ + 1]
  <2>1. t \notin Calling /\ Calling' = Calling \cup {t}
    BY <1>0, <1>2 DEF Calling
  <2>2. Cardinality(Calling) < PendingCap
    <3>1. Cardinality(Pending) \in Nat
      BY <1>0, FS_CardinalityType DEF Promises
    <3> QED BY <1>0, <3>1, CallingPending, LiveRoutesAssumption DEF TooMany
  <2>3. PB!Cardinality(Calling) = Cardinality(Calling)
    BY DEF PB!Cardinality, Cardinality
  <2>4. PB!Call(t) <=> /\ t \notin Calling /\ Cardinality(Calling) < PendingCap
                       /\ spent[Today] < Budget
                       /\ Calling' = Calling \cup {t}
                       /\ spent' = [spent EXCEPT ![Today] = @ + 1]
                       /\ Today' = Today
    BY <2>3 DEF PB!Call, Calling
  <2> QED BY <1>1, <1>2, <2>1, <2>2, <2>4
<1>3. CASE phase' = [phase EXCEPT ![t] = "settled"] /\ spent' = spent
  BY <1>0, <1>1, <1>3 DEF Calling
<1> QED BY <1>0, <1>2, <1>3, FetchTypes

LEMMA MeteredStep == LiveInv /\ [Next]_vars => [PB!Next]_(PB!vars)
<1> SUFFICES ASSUME LiveInv, [Next]_vars PROVE PB!Next \/ UNCHANGED <<Today, Calling, spent>>
  BY DEF PB!vars, Calling
<1>0. TypeOK /\ phase \in [Tasks -> Phases]
  BY DEF LiveInv, TypeInv, TypeOK
<1>1. CASE Tick
  <2>1. clock \in Nat /\ clock' \in 0..MaxTime /\ clock <= clock'
    BY <1>0, <1>1, LiveRoutesAssumption DEF Tick, TypeOK
  <2>2. Today <= Today' /\ Today \in Nat
    BY <2>1, DayOfMonotone, DayOfNat DEF Today
  <2>3. Today' \in UTCDays /\ Today' \in Nat
    BY <2>1, DayOfMonotone, DayOfNat, LiveRoutesAssumption DEF Today, UTCDays
  <2>4. spent' = spent /\ Calling' = Calling
    BY <1>1 DEF Tick, budgetVars, taskVars, Calling
  <2>5. Today' = Today \/ Today' > Today
    BY <2>2, <2>3
  <2> QED BY <2>3, <2>4, <2>5 DEF PB!Next, PB!Midnight, Calling
<1>2. ASSUME NEW t \in Tasks, ProviderReturns(t) PROVE PB!Next
  <2>1. t \in Calling /\ Calling' = Calling \ {t} /\ Today' = Today /\ spent' = spent
    BY <1>0, <1>2 DEF ProviderReturns, Calling, Today, budgetVars
  <2> QED BY <2>1 DEF PB!Next, PB!Return, Calling
<1>3. ASSUME NEW t \in Tasks, Store(t) \/ Deliver(t) PROVE UNCHANGED <<Today, Calling, spent>>
  BY <1>0, <1>3 DEF Store, Deliver, Calling, Today, budgetVars
<1>4. ASSUME NEW q \in Queries, NEW o \in Origins, Query(q, o)
      PROVE  PB!Next \/ UNCHANGED <<Today, Calling, spent>>
  <2>1. UNCHANGED clock
    BY <1>4, QueryCases
  <2>2. CASE UNCHANGED <<budgetVars, taskVars>>
    BY <2>1, <2>2 DEF Today, Calling, budgetVars, taskVars
  <2>3. ASSUME NEW t \in Tasks, FetchOrigin(t, o), ~TooMany
        PROVE  PB!Next \/ UNCHANGED <<Today, Calling, spent>>
    <3>1. PB!Call(t) \/ UNCHANGED <<Today, Calling, spent>>
      BY <2>1, <2>3, FetchCalls
    <3> QED BY <3>1 DEF PB!Next
  <2> QED BY <1>4, <2>2, <2>3, QueryCases DEF ServeCached, AnswerNow
<1>5. CASE UNCHANGED vars
  BY <1>5 DEF vars, Today, Calling, budgetVars, taskVars
<1> QED BY <1>1, <1>2, <1>3, <1>4, <1>5 DEF Next, TaskStep

\* The safety part of ImplementsBudget: however callers and airports interleave,
\* no more requests are outstanding than promises may be pending, and no UTC day
\* sees more of them than the budget.
THEOREM LiveRoutesAreMetered == Spec => PB!Init /\ [][PB!Next]_(PB!vars)
<1>1. Init => PB!Init
  BY LiveRoutesAssumption DEF Init, PB!Init, Today, DayOf
<1> QED BY <1>1, MeteredStep, LiveInit, LiveStep, PTL DEF Spec

-----------------------------------------------------------------------------
(***************************************************************************)
(* What is answered was fresh when it was asked for.                       *)
(***************************************************************************)

\* A query that waits asked no later than now, and the response it waits for
\* is of no earlier.
Recent(q) ==
  /\ awaits[q] # None =>
       /\ asked[q] \in Ask /\ asked[q].since <= clock
       /\ \A t \in Tasks : awaits[q] = t /\ phase[t] \in {"settled", "stored"} /\ outcome[t].ok =>
                             outcome[t].at >= asked[q].since
  /\ answer[q] # None /\ answer[q].ok => answer[q].at + TTL > asked[q].since

AllRecent == \A q \in Queries : Recent(q)

LEMMA RecentInit == Init => AllRecent
BY DEF Init, AllRecent, Recent

\* A step that leaves the query alone, and settles promises as of now.
LEMMA RecentKept ==
  ASSUME NEW q \in Queries, Recent(q), TypeOK, clock' \in {clock, clock + 1},
         awaits'[q] = awaits[q], asked'[q] = asked[q], answer'[q] = answer[q],
         \A t \in Tasks : phase'[t] \in {"settled", "stored"} /\ outcome'[t].ok =>
           \/ (phase[t] \in {"settled", "stored"} /\ outcome'[t] = outcome[t])
           \/ outcome'[t].at = clock
  PROVE  Recent(q)'
<1>1. clock \in Nat /\ (asked[q] \in Ask => asked[q].since \in Nat)
  BY LiveRoutesAssumption DEF TypeOK, Ask
<1>2. CASE awaits[q] = None
  BY <1>2 DEF Recent
<1>3. CASE awaits[q] # None
  <2>1. asked[q] \in Ask /\ asked[q].since <= clock /\ asked[q].since \in Nat
    BY <1>1, <1>3 DEF Recent
  <2>2. asked[q].since <= clock'
    BY <1>1, <2>1
  <2>3. ASSUME NEW t \in Tasks, awaits[q] = t, phase'[t] \in {"settled", "stored"}, outcome'[t].ok
        PROVE  outcome'[t].at >= asked[q].since
    <3>1. CASE phase[t] \in {"settled", "stored"} /\ outcome'[t] = outcome[t]
      BY <1>3, <2>3, <3>1 DEF Recent
    <3>2. CASE outcome'[t].at = clock
      BY <1>1, <2>1, <3>2
    <3> QED BY <2>3, <3>1, <3>2
  <2> QED BY <2>1, <2>2, <2>3 DEF Recent
<1> QED BY <1>2, <1>3

LEMMA RecentStep == TypeInv /\ AllRecent /\ [Next]_vars => AllRecent'
<1> SUFFICES ASSUME TypeInv, AllRecent, [Next]_vars, NEW p \in Queries PROVE Recent(p)'
  BY DEF AllRecent
<1>0. /\ TypeOK /\ TaskData /\ Recent(p) /\ clock \in Nat /\ TTL \in Nat \ {0}
      /\ phase \in [Tasks -> Phases] /\ outcome \in [Tasks -> Result \cup {None}]
      /\ awaits \in [Queries -> Tasks \cup {None}] /\ answer \in [Queries -> Result \cup {None}]
      /\ asked \in [Queries -> Ask \cup {None}] /\ None \notin Tasks
  BY LiveRoutesAssumption DEF TypeInv, TypeOK, AllRecent, Ask
<1>1. ASSUME NEW t \in Tasks, ProviderReturns(t) PROVE Recent(p)'
  <2>1. /\ clock' = clock /\ phase' = [phase EXCEPT ![t] = "settled"]
        /\ UNCHANGED <<awaits, asked, answer>>
    BY <1>1 DEF ProviderReturns, queryVars
  <2>2. \/ outcome' = [outcome EXCEPT ![t] = Resolved]
        \/ outcome' = [outcome EXCEPT ![t] = Rejected]
    BY <1>1 DEF ProviderReturns
  <2>3. outcome'[t].at = clock /\ \A u \in Tasks \ {t} : outcome'[u] = outcome[u] /\ phase'[u] = phase[u]
    BY <1>0, <2>1, <2>2 DEF Resolved, Rejected
  <2> QED BY <1>0, <2>1, <2>3, RecentKept
<1>2. ASSUME NEW t \in Tasks, Store(t) PROVE Recent(p)'
  <2>1. /\ UNCHANGED <<clock, outcome, awaits, asked, answer>>
        /\ phase[t] = "settled" /\ phase' = [phase EXCEPT ![t] = "stored"]
    BY <1>2 DEF Store, queryVars
  <2> QED BY <1>0, <2>1, RecentKept
<1>3. ASSUME NEW t \in Tasks, Deliver(t) PROVE Recent(p)'
  <2>1. /\ phase[t] = "stored" /\ UNCHANGED <<clock, asked>>
        /\ answer' = [q \in Queries |-> IF awaits[q] = t THEN outcome[t] ELSE answer[q]]
        /\ awaits' = [q \in Queries |-> IF awaits[q] = t THEN None ELSE awaits[q]]
        /\ phase' = [phase EXCEPT ![t] = "idle"] /\ outcome' = [outcome EXCEPT ![t] = None]
    BY <1>3 DEF Deliver
  <2>2. CASE awaits[p] = t
    <3>1. answer'[p] = outcome[t] /\ awaits'[p] = None
      BY <2>1, <2>2
    <3>2. asked[p] \in Ask /\ asked[p].since \in Nat /\ outcome[t].at \in Nat
          /\ (outcome[t].ok => outcome[t].at >= asked[p].since)
      BY <1>0, <2>1, <2>2 DEF Recent, TaskData, Result, Ask
    <3>3. outcome[t].ok => outcome[t].at + TTL > asked[p].since
      BY <1>0, <3>2
    <3> QED BY <2>1, <3>1, <3>3 DEF Recent
  <2>3. CASE awaits[p] # t
    <3>1. answer'[p] = answer[p] /\ awaits'[p] = awaits[p] /\ asked'[p] = asked[p]
      BY <2>1, <2>3
    <3>2. \A u \in Tasks \ {t} : phase'[u] = phase[u] /\ outcome'[u] = outcome[u]
      BY <1>0, <2>1
    <3>3. phase'[t] = "idle"
      BY <1>0, <2>1
    <3> QED BY <1>0, <2>1, <3>1, <3>2, <3>3, RecentKept
  <2> QED BY <2>2, <2>3
<1>4. ASSUME NEW q \in Queries, NEW o \in Origins, Query(q, o) PROVE Recent(p)'
  <2>1. /\ UNCHANGED clock /\ awaits[q] = None
        /\ asked' = [asked EXCEPT ![q] = [origin |-> o, since |-> clock]]
        /\ \A t \in Tasks : phase[t] \in {"idle", "calling"}
    BY <1>4, QueryCases DEF BetweenEvents
  <2>2. asked'[q] \in Ask /\ asked'[q].since = clock
    BY <1>0, <2>1 DEF TypeOK, Ask
  <2>3. \A t \in Tasks : phase'[t] \in {"settled", "stored"} => ~outcome'[t].ok
    <3>1. CASE UNCHANGED phase
      BY <2>1, <3>1
    <3>2. ASSUME NEW t \in Tasks, FetchOrigin(t, o)
          PROVE  \A u \in Tasks : phase'[u] \in {"settled", "stored"} => ~outcome'[u].ok
      <4>1. \A u \in Tasks \ {t} : phase'[u] = phase[u]
        BY <1>0, <3>2 DEF FetchOrigin
      <4>2. phase'[t] = "settled" => outcome'[t] = Rejected
        BY <1>0, <3>2 DEF FetchOrigin
      <4>3. phase'[t] \in {"calling", "settled"}
        BY <1>0, <3>2 DEF FetchOrigin
      <4> QED BY <2>1, <4>1, <4>2, <4>3 DEF Rejected
    <3> QED BY <1>4, <3>1, <3>2, QueryCases DEF ServeCached, AnswerNow, taskVars
  <2>4. CASE p # q
    <3>1. awaits'[p] = awaits[p] /\ asked'[p] = asked[p] /\ answer'[p] = answer[p]
      BY <1>0, <1>4, <2>1, <2>4, QueryCases DEF ServeCached, AnswerNow, Await
    <3> QED BY <1>0, <2>1, <2>3, <3>1, RecentKept
  <2>5. CASE p = q
    <3>1. ASSUME NEW t, Await(q, t) PROVE Recent(q)'
      <4>1. answer'[q] = None
        BY <1>0, <3>1 DEF Await
      <4> QED BY <1>0, <2>1, <2>2, <2>3, <4>1 DEF Recent
    <3>2. ASSUME NEW res \in Result, AnswerNow(q, res), res.ok => res.at + TTL > clock PROVE Recent(q)'
      <4>1. answer'[q] = res /\ awaits'[q] = None
        BY <1>0, <2>1, <3>2 DEF AnswerNow
      <4> QED BY <2>2, <3>2, <4>1 DEF Recent
    <3>3. CASE ServeCached(q, o)
      <4>1. PICK i \in Cached(o) : AnswerNow(q, [ok |-> TRUE, at |-> cache[i].at])
        BY <3>3 DEF ServeCached
      <4> DEFINE res == [ok |-> TRUE, at |-> cache[i].at]
      <4>2. res.at + TTL > clock
        BY DEF Cached, Fresh
      <4>3. cache[i] \in Response
        BY <1>0 DEF Cached, TypeOK
      <4>4. AnswerNow(q, res) /\ res \in Result
        BY <4>1, <4>3 DEF Response, Result
      <4> HIDE DEF res
      <4> QED BY <2>5, <3>2, <4>2, <4>4
    <3>4. CASE AnswerNow(q, Rejected)
      <4>1. ~Rejected.ok /\ Rejected \in Result
        BY <1>0 DEF Rejected, Result, TypeOK
      <4> QED BY <2>5, <3>2, <3>4, <4>1
    <3> QED BY <1>4, <2>5, <3>1, <3>3, <3>4, QueryCases
  <2> QED BY <2>4, <2>5
<1>5. Tick \/ UNCHANGED vars => Recent(p)'
  BY <1>0, RecentKept DEF Tick, vars, taskVars, queryVars
<1> QED BY <1>1, <1>2, <1>3, <1>4, <1>5 DEF Next, TaskStep

\* A response was fresh when it was asked for, from the cache or from a request
\* somebody else had started.
THEOREM ResponsesAreFresh == Spec => []FreshWhenAsked
<1>1. AllRecent => FreshWhenAsked
  BY DEF AllRecent, Recent, FreshWhenAsked
<1> QED BY <1>1, TypeInit, TypeStep, RecentInit, RecentStep, PTL DEF Spec

-----------------------------------------------------------------------------
(***************************************************************************)
(* A failure is forgotten.                                                 *)
(***************************************************************************)

\* While an airport is asked for, and after that has failed, what the cache has
\* of it had expired before: no other promise for it has stored anything since.
Behind ==
  \A t \in Tasks : \A i \in DOMAIN cache : cache[i].origin = origin[t] =>
    /\ phase[t] = "calling" => cache[i].at + TTL <= clock
    /\ phase[t] \in {"settled", "stored"} /\ ~outcome[t].ok => cache[i].at + TTL <= outcome[t].at

LEMMA BehindInit == Init => Behind
BY DEF Init, Behind

LEMMA BehindStep == LiveInv /\ Behind /\ [Next]_vars => Behind'
<1> SUFFICES ASSUME LiveInv, Behind, [Next]_vars PROVE Behind'
  OBVIOUS
<1>0. /\ TypeOK /\ TaskData /\ Promises /\ clock \in Nat /\ TTL \in Nat \ {0}
      /\ phase \in [Tasks -> Phases] /\ origin \in [Tasks -> Origins \cup {None}]
      /\ outcome \in [Tasks -> Result \cup {None}] /\ cache \in Seq(Response)
      /\ \A i \in DOMAIN cache : cache[i].at \in Nat /\ cache[i].origin \in Origins
  <2>1. cache \in Seq(Response) /\ TypeOK /\ TaskData /\ Promises
    BY DEF LiveInv, TypeInv, TypeOK
  <2>2. \A i \in DOMAIN cache : cache[i] \in Response
    BY <2>1
  <2> QED BY <2>1, <2>2, LiveRoutesAssumption DEF TypeOK, Response
<1>1. CASE Tick
  BY <1>0, <1>1 DEF Tick, Behind, taskVars
<1>2. ASSUME NEW t \in Tasks, ProviderReturns(t) PROVE Behind'
  <2>1. /\ UNCHANGED <<clock, origin, cache>> /\ phase[t] = "calling"
        /\ phase' = [phase EXCEPT ![t] = "settled"]
        /\ outcome'[t].at = clock
        /\ \A u \in Tasks \ {t} : outcome'[u] = outcome[u]
    BY <1>0, <1>2 DEF ProviderReturns, Resolved, Rejected
  <2> QED BY <1>0, <2>1 DEF Behind
<1>3. ASSUME NEW t \in Tasks, Store(t) PROVE Behind'
  <2> DEFINE entry == [origin |-> origin[t], at |-> outcome[t].at]
  <2>1. /\ phase[t] = "settled" /\ phase' = [phase EXCEPT ![t] = "stored"]
        /\ cache' = IF outcome[t].ok THEN CacheSet(entry) ELSE cache
        /\ UNCHANGED <<clock, origin, outcome>>
    BY <1>3 DEF Store, Cacheable
  <2>2. CASE cache' = cache
    BY <1>0, <2>1, <2>2 DEF Behind
  <2>3. CASE outcome[t].ok /\ cache' = CacheSet(entry)
    <3>1. entry \in Response /\ entry.origin = origin[t]
      BY <1>0, <2>1 DEF TaskData, Result, Response
    <3> HIDE DEF entry
    <3>2. \A i \in DOMAIN cache' : cache'[i] = entry \/ \E j \in DOMAIN cache : cache'[i] = cache[j]
      BY <1>0, <2>3, <3>1, CacheSetEntries
    <3>3. \A u \in Tasks \ {t} : phase[u] # "idle" => origin[u] # origin[t]
      BY <1>0, <2>1 DEF Promises
    <3>4. \A u \in Tasks \ {t} : phase'[u] = phase[u]
      BY <1>0, <2>1
    <3>5. ASSUME NEW u \in Tasks \ {t}, NEW i \in DOMAIN cache', cache'[i].origin = origin[u]
          PROVE  /\ phase[u] = "calling" => cache'[i].at + TTL <= clock
                 /\ phase[u] \in {"settled", "stored"} /\ ~outcome[u].ok =>
                      cache'[i].at + TTL <= outcome[u].at
      <4>1. CASE cache'[i] = entry
        BY <3>1, <3>3, <3>5, <4>1
      <4>2. CASE \E j \in DOMAIN cache : cache'[i] = cache[j]
        BY <3>5, <4>2 DEF Behind
      <4> QED BY <3>2, <4>1, <4>2
    <3>6. phase'[t] = "stored" /\ outcome[t].ok
      BY <1>0, <2>1, <2>3
    <3> QED BY <2>1, <3>4, <3>5, <3>6 DEF Behind
  <2> QED BY <2>1, <2>2, <2>3
<1>4. ASSUME NEW t \in Tasks, Deliver(t) PROVE Behind'
  <2>1. /\ phase' = [phase EXCEPT ![t] = "idle"] /\ origin' = [origin EXCEPT ![t] = None]
        /\ outcome' = [outcome EXCEPT ![t] = None] /\ UNCHANGED <<clock, cache>>
    BY <1>4 DEF Deliver
  <2>2. phase'[t] = "idle" /\ \A u \in Tasks \ {t} : /\ phase'[u] = phase[u] /\ origin'[u] = origin[u]
                                                     /\ outcome'[u] = outcome[u]
    BY <1>0, <2>1
  <2> QED BY <2>1, <2>2 DEF Behind
<1>5. ASSUME NEW q \in Queries, NEW o \in Origins, Query(q, o) PROVE Behind'
  <2>1. UNCHANGED <<clock, cache>>
    BY <1>5, QueryCases
  <2>2. CASE UNCHANGED taskVars
    BY <2>1, <2>2 DEF Behind, taskVars
  <2>3. ASSUME NEW t \in Tasks, FetchOrigin(t, o), Cached(o) = {} PROVE Behind'
    <3>1. /\ origin'[t] = o /\ \A u \in Tasks \ {t} : /\ phase'[u] = phase[u] /\ origin'[u] = origin[u]
                                                      /\ outcome'[u] = outcome[u]
      BY <1>0, <2>3 DEF FetchOrigin
    <3>2. \/ phase'[t] = "calling"
          \/ phase'[t] = "settled" /\ outcome'[t].at = clock
      BY <1>0, <2>3 DEF FetchOrigin, Rejected
    <3>3. \A i \in DOMAIN cache : cache[i].origin = o => cache[i].at + TTL <= clock
      BY <1>0, <2>3 DEF Cached, Fresh
    <3> QED BY <2>1, <3>1, <3>2, <3>3 DEF Behind
  <2> QED BY <1>5, <2>2, <2>3, QueryCases DEF ServeCached, AnswerNow
<1>6. CASE UNCHANGED vars
  BY <1>6 DEF vars, Behind, taskVars
<1> QED BY <1>1, <1>2, <1>3, <1>4, <1>5, <1>6 DEF Next, TaskStep

LEMMA ForgetsFailure ==
  LiveInv /\ Behind /\ [Next]_vars =>
    \A t \in Tasks : phase[t] = "stored" /\ phase'[t] = "idle" /\ ~outcome[t].ok =>
      /\ pending'[origin[t]] = None
      /\ ~\E i \in DOMAIN cache : cache[i].origin = origin[t] /\ cache[i].at = outcome[t].at
<1> SUFFICES ASSUME LiveInv, Behind, [Next]_vars, NEW t \in Tasks, phase[t] = "stored",
                    phase'[t] = "idle", ~outcome[t].ok
             PROVE  /\ pending'[origin[t]] = None
                    /\ \A i \in DOMAIN cache : cache[i].origin = origin[t] => cache[i].at # outcome[t].at
  OBVIOUS
<1>0. /\ TypeOK /\ TaskData /\ TTL \in Nat \ {0} /\ cache \in Seq(Response)
      /\ phase \in [Tasks -> Phases] /\ pending \in [Origins -> Tasks \cup {None}]
  BY LiveRoutesAssumption DEF LiveInv, TypeInv, TypeOK
<1>1. Deliver(t)
  <2>1. ASSUME NEW u \in Tasks, ProviderReturns(u) \/ Store(u) PROVE FALSE
    BY <1>0, <2>1 DEF ProviderReturns, Store
  <2>2. ASSUME NEW u \in Tasks, Deliver(u) PROVE u = t
    BY <1>0, <2>2 DEF Deliver
  <2>3. ASSUME NEW q \in Queries, NEW o \in Origins, Query(q, o) PROVE FALSE
    BY <2>3 DEF Query, BetweenEvents
  <2>4. ~(Tick \/ UNCHANGED vars)
    BY DEF Tick, vars, taskVars
  <2> QED BY <2>1, <2>2, <2>3, <2>4 DEF Next, TaskStep
<1>2. pending'[origin[t]] = None
  BY <1>0, <1>1 DEF Deliver, TaskData
<1>3. ASSUME NEW i \in DOMAIN cache, cache[i].origin = origin[t] PROVE cache[i].at # outcome[t].at
  <2>1. cache[i].at + TTL <= outcome[t].at
    BY <1>3 DEF Behind
  <2>2. cache[i] \in Response
    BY <1>0
  <2>3. cache[i].at \in Nat
    BY <2>2 DEF Response
  <2> QED BY <1>0, <2>1, <2>3
<1> QED BY <1>2, <1>3

\* While the promise of a failed request is gone, its airport is asked for again
\* and not answered from the cache with the time of the failure.
THEOREM FailuresAreForgotten == Spec => FailuresForgotten
<1>1. LiveInv /\ Behind /\ [Next]_vars =>
        [\A t \in Tasks : phase[t] = "stored" /\ phase'[t] = "idle" /\ ~outcome[t].ok =>
           /\ pending'[origin[t]] = None
           /\ ~\E i \in DOMAIN cache : cache[i].origin = origin[t] /\ cache[i].at = outcome[t].at]_vars
  BY ForgetsFailure
<1> QED BY <1>1, LiveInit, LiveStep, BehindInit, BehindStep, PTL DEF Spec, FailuresForgotten
=============================================================================
