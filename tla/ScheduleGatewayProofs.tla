----------------------- MODULE ScheduleGatewayProofs -----------------------
(***************************************************************************)
(* Theorems about ScheduleGateway, for every number of callers, routes,    *)
(* tasks, slots and dates.                                                 *)
(***************************************************************************)
EXTENDS ScheduleGateway, TLAPS, FiniteSetTheorems, FunctionTheorems, SequenceTheorems

\* A day number is a natural number, and days do not go back.
LEMMA DayOfNat == ASSUME NEW t \in Nat PROVE DayOf(t) \in Nat
BY GatewayAssumption DEF DayOf

LEMMA DayOfMonotone ==
  ASSUME NEW s \in Nat, NEW t \in Nat, s <= t PROVE DayOf(s) <= DayOf(t)
BY GatewayAssumption DEF DayOf

-----------------------------------------------------------------------------
(***************************************************************************)
(* The slots.                                                              *)
(***************************************************************************)

\* What the slot argument needs to know of the types.
SlotTypes ==
  /\ active \in Nat
  /\ waiters \in Seq(Tasks)
  /\ phase \in [Tasks -> Phases]

\* A set of tasks is finite, and has as many elements as the model says.
LEMMA TasksFinite ==
  ASSUME NEW S \in SUBSET Tasks PROVE IsFiniteSet(S) /\ Cardinality(S) \in Nat
BY GatewayAssumption, FS_Subset, FS_CardinalityType

\* ReleaseSlot keeps the books when the slot it gives up, counted in `held`,
\* is the slot of t: the count goes down with the holders, or the slot passes
\* to the first waiter.
LEMMA ReleaseKeepsAccounts ==
  ASSUME SlotTypes, SlotAccounting, NEW t \in Tasks, NEW held \in Nat,
         phase[t] # "queued", held = Cardinality(Holders \cup {t}), held <= Slots,
         waiters # <<>> => held = Slots,
         ReleaseSlot(t, held)
  PROVE  SlotTypes' /\ SlotAccounting'
<1> DEFINE H == Holders \cup {t}
<1>0. H \in SUBSET Tasks /\ t \in H
  BY DEF Holders
<1>1. IsFiniteSet(H) /\ Cardinality(H \ {t}) = held - 1 /\ held - 1 \in Nat
  <2>1. IsFiniteSet(H) /\ IsFiniteSet(H \ {t}) /\ Cardinality(H \ {t}) \in Nat
    BY <1>0, TasksFinite
  <2>2. Cardinality(H \ {t}) = Cardinality(H) - 1
    BY <1>0, <2>1, FS_RemoveElement
  <2> QED BY <2>1, <2>2
<1>2. CASE waiters = <<>>
  <2>1. /\ active' = held - 1 /\ waiters' = waiters
        /\ phase' = [phase EXCEPT ![t] = "settled"]
    BY <1>2 DEF ReleaseSlot
  <2>2. Holders' = H \ {t}
    BY <2>1 DEF Holders, SlotTypes, Phases
  <2>3. {u \in Tasks : phase'[u] = "queued"} = {u \in Tasks : phase[u] = "queued"}
    BY <2>1 DEF SlotTypes, Phases
  <2>4. SlotTypes'
    BY <1>1, <1>2, <2>1 DEF SlotTypes, Phases
  <2>5. active' = Cardinality(Holders') /\ active' <= Slots
    BY <1>1, <2>1, <2>2, GatewayAssumption
  <2> QED BY <1>2, <2>1, <2>3, <2>4, <2>5 DEF SlotAccounting
<1>3. CASE waiters # <<>>
  <2> DEFINE w == Head(waiters)
  <2>1. /\ active' = held /\ waiters' = Tail(waiters)
        /\ phase' = [phase EXCEPT ![t] = "settled", ![w] = "handed"]
    BY <1>3 DEF ReleaseSlot
  <2>2. /\ w \in Tasks /\ w = waiters[1] /\ 1 \in DOMAIN waiters
        /\ waiters' \in Seq(Tasks) /\ Len(waiters') = Len(waiters) - 1
        /\ \A i \in 1..Len(waiters') : waiters'[i] = waiters[i + 1]
        /\ DOMAIN waiters = 1..Len(waiters) /\ DOMAIN waiters' = 1..Len(waiters')
        /\ Len(waiters) \in Nat /\ Len(waiters') \in Nat
    BY <1>3, <2>1 DEF SlotTypes
  <2>3. w # t /\ phase[w] = "queued"
    BY <2>2 DEF SlotAccounting
  <2>4. Holders' = (H \ {t}) \cup {w} /\ w \notin H \ {t}
    BY <2>1, <2>2, <2>3 DEF Holders, SlotTypes, Phases
  <2>5. Cardinality(Holders') = held
    <3>1. IsFiniteSet(H \ {t})
      BY <1>0, TasksFinite
    <3>2. Cardinality((H \ {t}) \cup {w}) = Cardinality(H \ {t}) + 1
      BY <2>4, <3>1, FS_AddElement
    <3> QED BY <1>1, <2>4, <3>2
  <2>6. {u \in Tasks : phase'[u] = "queued"} = {u \in Tasks : phase[u] = "queued"} \ {w}
    BY <2>1, <2>2, <2>3 DEF SlotTypes, Phases
  <2> DEFINE n == Len(waiters)
  <2>d. \A i, j \in 1..n : waiters[i] = waiters[j] => i = j
    BY <2>2 DEF SlotAccounting
  <2>7. {waiters'[i] : i \in DOMAIN waiters'} = {waiters[i] : i \in DOMAIN waiters} \ {w}
    <3>1. ASSUME NEW i \in 1..n - 1 PROVE waiters[i + 1] # w /\ i + 1 \in 1..n
      BY <2>2, <2>d
    <3>2. ASSUME NEW i \in 1..n, waiters[i] # w PROVE i - 1 \in 1..n - 1 /\ waiters'[i - 1] = waiters[i]
      BY <2>2, <3>2
    <3>3. {waiters'[i] : i \in 1..n - 1} \subseteq {waiters[i] : i \in 1..n} \ {w}
      BY <2>2, <3>1
    <3>4. {waiters[i] : i \in 1..n} \ {w} \subseteq {waiters'[i] : i \in 1..n - 1}
      BY <3>2
    <3> QED BY <2>2, <3>3, <3>4
  <2>8. \A i, j \in DOMAIN waiters' : waiters'[i] = waiters'[j] => i = j
    <3> SUFFICES ASSUME NEW i \in 1..n - 1, NEW j \in 1..n - 1, waiters'[i] = waiters'[j]
                 PROVE  i = j
      BY <2>2
    <3>1. i + 1 \in 1..n /\ j + 1 \in 1..n /\ waiters[i + 1] = waiters[j + 1]
      BY <2>2
    <3>2. i + 1 = j + 1
      BY <3>1, <2>d
    <3> QED BY <3>2
  <2>9. SlotTypes'
    BY <2>1, <2>2 DEF SlotTypes, Phases
  <2>10. {waiters'[i] : i \in DOMAIN waiters'} = {u \in Tasks : phase'[u] = "queued"}
    BY <2>6, <2>7 DEF SlotAccounting
  <2>11. active' = Cardinality(Holders') /\ active' <= Slots /\ active' = Slots
    BY <1>3, <2>1, <2>5
  <2> QED BY <2>8, <2>9, <2>10, <2>11 DEF SlotAccounting
<1> QED BY <1>2, <1>3

\* A task that is given a slot either keeps it for its request or, refused for
\* want of budget, gives it up in the same step.
LEMMA UseKeepsAccounts ==
  ASSUME SlotTypes, SlotAccounting, NEW t \in Tasks, NEW d, NEW held \in Nat,
         phase[t] # "queued", held = Cardinality(Holders \cup {t}), held <= Slots,
         waiters # <<>> => held = Slots,
         UseSlot(t, d, held)
  PROVE  SlotTypes' /\ SlotAccounting'
<1>1. CASE MaySpend
  <2>1. /\ active' = held /\ waiters' = waiters
        /\ phase' = [phase EXCEPT ![t] = "calling"]
    BY <1>1 DEF UseSlot
  <2>2. Holders' = Holders \cup {t}
    BY <2>1 DEF Holders, SlotTypes, Phases
  <2>3. {u \in Tasks : phase'[u] = "queued"} = {u \in Tasks : phase[u] = "queued"}
    BY <2>1 DEF SlotTypes, Phases
  <2>4. SlotTypes'
    BY <2>1 DEF SlotTypes, Phases
  <2> QED BY <2>1, <2>2, <2>3, <2>4 DEF SlotAccounting
<1>2. CASE ~MaySpend
  <2>1. ReleaseSlot(t, held)
    BY <1>2 DEF UseSlot, Settle
  <2> QED BY <2>1, ReleaseKeepsAccounts
<1> QED BY <1>1, <1>2

\* The books are the same when only tasks that hold no slot and do not wait
\* for one change phase.
LEMMA OtherPhasesKeepAccounts ==
  ASSUME SlotTypes, SlotAccounting, UNCHANGED slotVars,
         phase' \in [Tasks -> Phases],
         \A t \in Tasks : \/ phase'[t] = phase[t]
                         \/ {phase[t], phase'[t]} \subseteq {"idle", "settled", "stored"}
  PROVE  SlotTypes' /\ SlotAccounting'
<1>1. Holders' = Holders
  BY DEF Holders
<1>2. {u \in Tasks : phase'[u] = "queued"} = {u \in Tasks : phase[u] = "queued"}
  OBVIOUS
<1> QED BY <1>1, <1>2 DEF SlotTypes, SlotAccounting, slotVars

SlotsOK == SlotTypes /\ SlotAccounting

LEMMA SlotsInit == Init => SlotsOK
<1> SUFFICES ASSUME Init PROVE SlotsOK
  OBVIOUS
<1>1. Holders = {} /\ {u \in Tasks : phase[u] = "queued"} = {}
  BY DEF Init, Holders
<1>2. waiters = <<>> /\ active = 0 /\ DOMAIN waiters = {}
  BY DEF Init
<1>3. SlotTypes
  BY DEF Init, SlotTypes, Phases
<1> QED BY <1>1, <1>2, <1>3, FS_EmptySet, GatewayAssumption DEF SlotsOK, SlotAccounting

\* Every step keeps the books, whatever the rest of the state is.
LEMMA SlotsStep == SlotsOK /\ [Next]_vars => SlotsOK'
<1> SUFFICES ASSUME SlotsOK, [Next]_vars PROVE SlotsOK'
  OBVIOUS
<1> USE DEF SlotsOK
<1>1. ASSUME NEW t \in Tasks, Resume(t) PROVE SlotsOK'
  <2>1. phase[t] = "handed" /\ UseSlot(t, key[t][2], active)
    BY <1>1 DEF Resume
  <2>2. Holders \cup {t} = Holders
    BY <2>1 DEF Holders
  <2> QED BY <2>1, <2>2, UseKeepsAccounts DEF SlotTypes, SlotAccounting
<1>2. ASSUME NEW t \in Tasks, ProviderReturns(t) PROVE SlotsOK'
  <2>1. phase[t] = "calling" /\ ReleaseSlot(t, active)
    BY <1>2 DEF ProviderReturns, Settle
  <2>2. Holders \cup {t} = Holders
    BY <2>1 DEF Holders
  <2> QED BY <2>1, <2>2, ReleaseKeepsAccounts DEF SlotTypes, SlotAccounting
<1>3. ASSUME NEW t \in Tasks, StoreDay(t) \/ Deliver(t) PROVE SlotsOK'
  <2>1. /\ UNCHANGED slotVars /\ phase' \in [Tasks -> Phases]
        /\ \A u \in Tasks : \/ phase'[u] = phase[u]
                            \/ {phase[u], phase'[u]} \subseteq {"idle", "settled", "stored"}
    BY <1>3 DEF StoreDay, Deliver, SlotTypes, Phases
  <2> QED BY <2>1, OtherPhasesKeepAccounts
<1>4. ASSUME NEW q \in Queries, NEW k, NEW t \in Tasks,
             phase[t] = "idle", ~SlotFree, waiters' = Append(waiters, t),
             phase' = [phase EXCEPT ![t] = "queued"], UNCHANGED active
      PROVE  SlotsOK'
  <2>1. Holders' = Holders
    BY <1>4 DEF Holders, SlotTypes, Phases
  <2>2. /\ waiters' \in Seq(Tasks) /\ Len(waiters') = Len(waiters) + 1
        /\ waiters'[Len(waiters) + 1] = t
        /\ \A i \in 1..Len(waiters) : waiters'[i] = waiters[i]
    BY <1>4 DEF SlotTypes
  <2>3. {u \in Tasks : phase'[u] = "queued"} = {u \in Tasks : phase[u] = "queued"} \cup {t}
    BY <1>4 DEF SlotTypes, Phases
  <2>4. {waiters'[i] : i \in DOMAIN waiters'} = {waiters[i] : i \in DOMAIN waiters} \cup {t}
    BY <2>2 DEF SlotTypes
  <2>5. \A i \in DOMAIN waiters : waiters[i] # t
    BY <1>4 DEF SlotAccounting
  <2>6. \A i, j \in DOMAIN waiters' : waiters'[i] = waiters'[j] => i = j
    BY <2>2, <2>5 DEF SlotTypes, SlotAccounting
  <2>7. active' = Slots
    BY <1>4, GatewayAssumption DEF SlotFree, SlotTypes, SlotAccounting
  <2>8. SlotTypes'
    BY <1>4, <2>2 DEF SlotTypes, Phases
  <2>9. {waiters'[i] : i \in DOMAIN waiters'} = {u \in Tasks : phase'[u] = "queued"}
    BY <2>3, <2>4 DEF SlotAccounting
  <2>10. active' = Cardinality(Holders') /\ active' <= Slots
    BY <1>4, <2>1 DEF SlotAccounting
  <2> QED BY <2>6, <2>7, <2>8, <2>9, <2>10 DEF SlotAccounting
<1>5. ASSUME NEW q \in Queries, NEW k, StartTask(q, k) PROVE SlotsOK'
  <2> PICK t \in Tasks :
        /\ phase[t] = "idle"
        /\ \/ /\ ~SlotFree
              /\ waiters' = Append(waiters, t)
              /\ phase' = [phase EXCEPT ![t] = "queued"]
              /\ UNCHANGED active
           \/ SlotFree /\ UseSlot(t, k[2], active + 1)
    BY <1>5 DEF StartTask
  <2>1. CASE ~SlotFree
    BY <1>4, <2>1
  <2>2. CASE SlotFree
    <3>1. UseSlot(t, k[2], active + 1) /\ active < Slots /\ waiters = <<>>
      BY <2>2, GatewayAssumption DEF SlotFree, SlotAccounting, SlotTypes
    <3>2. t \notin Holders /\ Cardinality(Holders \cup {t}) = active + 1
      BY TasksFinite, FS_AddElement DEF Holders, SlotAccounting
    <3> QED BY <3>1, <3>2, UseKeepsAccounts, GatewayAssumption DEF SlotTypes
  <2> QED BY <2>1, <2>2
<1>6. ASSUME UNCHANGED <<slotVars, phase>> PROVE SlotsOK'
  BY <1>6, OtherPhasesKeepAccounts DEF SlotTypes
<1>7. ASSUME NEW q \in Queries, GetDay(q) PROVE SlotsOK'
  <2>1. UNCHANGED <<slotVars, phase>> \/ \E k : StartTask(q, k)
    BY <1>7 DEF GetDay, OutOfRange, ServeCached, JoinInFlight, Serve, taskVars
  <2> QED BY <2>1, <1>5, <1>6
<1>8. ASSUME Tick \/ (\E q \in Queries : Query(q) \/ Respond(q)) \/ UNCHANGED vars
      PROVE SlotsOK'
  BY <1>8, <1>6 DEF Tick, Query, Respond, vars, taskVars
<1> QED BY <1>1, <1>2, <1>3, <1>7, <1>8 DEF Next

\* The hand-off of slots neither leaks one nor mints one.
THEOREM SlotsAreAccountedFor == Spec => []SlotAccounting
<1>1. SlotsOK => SlotAccounting
  BY DEF SlotsOK
<1> QED BY <1>1, SlotsInit, SlotsStep, PTL DEF Spec

-----------------------------------------------------------------------------
(***************************************************************************)
(* Types. A live task has a key, a settled one has its day, and the loop   *)
(* of a running query is at one of its dates: TypeOK is inductive only     *)
(* with these.                                                             *)
(***************************************************************************)

TaskData ==
  \A t \in Tasks :
    /\ phase[t] # "idle" => key[t] \in Keys
    /\ phase[t] \in {"settled", "stored"} => outcome[t] \in Result

LoopData ==
  running \in Queries =>
    /\ ask[running] \in Ask
    /\ ask[running].next \in Dates
    /\ ask[running].next <= ask[running].last

TypeInv == TypeOK /\ TaskData /\ LoopData

LEMMA FirstWaiter ==
  ASSUME SlotsOK, waiters # <<>>
  PROVE  Head(waiters) \in Tasks /\ phase[Head(waiters)] = "queued"
<1>1. Head(waiters) = waiters[1] /\ 1 \in DOMAIN waiters /\ Head(waiters) \in Tasks
  BY DEF SlotsOK, SlotTypes
<1> QED BY <1>1 DEF SlotsOK, SlotAccounting

LEMMA TodayType == ASSUME clock \in 0..MaxTime PROVE Today \in UTCDays /\ Today \in Nat
BY DayOfNat, DayOfMonotone, GatewayAssumption DEF Today, UTCDays

LEMMA DayType ==
  ASSUME NEW d \in Dates, NEW issue \in Issues, clock \in 0..MaxTime
  PROVE  Day(d, issue) \in Result
BY DEF Day, Result

LEMMA CacheSetType ==
  ASSUME cache \in Seq(Entry), NEW entry \in Entry
  PROVE  CacheSet(entry) \in Seq(Entry)
<1> DEFINE room == IF Len(cache) >= CacheCap THEN Tail(cache) ELSE cache
<1>1. room \in Seq(Entry)
  <2>1. CASE Len(cache) >= CacheCap
    BY <2>1, GatewayAssumption
  <2>2. CASE ~(Len(cache) >= CacheCap)
    BY <2>2
  <2> QED BY <2>1, <2>2
<1> HIDE DEF room
<1>2. [i \in DOMAIN room |-> IF room[i].key = entry.key THEN entry ELSE room[i]] \in Seq(Entry)
  <2>1. DOMAIN room = 1..Len(room) /\ Len(room) \in Nat
    BY <1>1
  <2>2. \A i \in 1..Len(room) : room[i] \in Entry
    BY <1>1
  <2> QED BY <2>1, <2>2, IsASeq
<1>3. Append(room, entry) \in Seq(Entry)
  BY <1>1
<1> QED BY <1>2, <1>3 DEF CacheSet, room

\* A task that is given a slot ends up calling, or with a day.
LEMMA UseSlotTypes ==
  ASSUME SlotsOK, SlotsOK', TypeOK, NEW t \in Tasks, NEW d \in Dates, NEW held \in Nat,
         UseSlot(t, d, held)
  PROVE  /\ budgetDate' \in UTCDays /\ used' \in Nat /\ spent' \in [UTCDays -> Nat]
         /\ outcome' \in [Tasks -> Result \cup {None}]
         /\ \A u \in Tasks : phase'[u] # "idle" => u = t \/ phase[u] # "idle"
         /\ \A u \in Tasks : phase'[u] \in {"settled", "stored"} =>
              outcome'[u] \in Result \/ (phase'[u] = phase[u] /\ outcome'[u] = outcome[u])
<1>1. Today \in UTCDays /\ UsedToday \in Nat
  BY TodayType DEF TypeOK, UsedToday
<1>2. budgetDate' \in UTCDays
  BY <1>1 DEF UseSlot
<1>3. CASE MaySpend
  <2>1. /\ used' = UsedToday + 1 /\ outcome' = outcome
        /\ spent' = [spent EXCEPT ![Today] = @ + 1]
        /\ phase' = [phase EXCEPT ![t] = "calling"]
    BY <1>3 DEF UseSlot
  <2> QED BY <1>1, <1>2, <2>1 DEF TypeOK
<1>4. CASE ~MaySpend
  <2>1. /\ used' = UsedToday /\ spent' = spent /\ ReleaseSlot(t, held)
        /\ outcome' = [outcome EXCEPT ![t] = Day(d, "budget-exceeded")]
    BY <1>4 DEF UseSlot, Settle
  <2>2. Day(d, "budget-exceeded") \in Result
    BY DayType DEF TypeOK, Issues
  <2>3. \A u \in Tasks : u # t => phase'[u] = phase[u] \/ (phase[u] = "queued" /\ phase'[u] = "handed")
    BY <2>1, FirstWaiter DEF ReleaseSlot, TypeOK
  <2> QED BY <1>1, <1>2, <2>1, <2>2, <2>3 DEF TypeOK
<1> QED BY <1>3, <1>4

LEMMA TypeInit == Init => TypeInv
<1> SUFFICES ASSUME Init PROVE TypeInv
  OBVIOUS
<1>1. TypeOK
  BY GatewayAssumption, DayOfNat DEF Init, TypeOK, Phases, UTCDays
<1>2. TaskData /\ LoopData
  BY GatewayAssumption DEF Init, TaskData, LoopData
<1> QED BY <1>1, <1>2 DEF TypeInv

\* What every step of a query's loop leaves well typed.
LEMMA NextDateTypes ==
  ASSUME TypeInv, NEW q \in Queries, running = q, NextDate(q)
  PROVE  /\ running' \in Queries \cup {None}
         /\ ask' \in [Queries -> Ask \cup {None}]
         /\ LoopData'
         /\ ask[q].route \in Routes /\ ask[q].next \in Dates
         /\ <<ask[q].route, ask[q].next>> \in Keys
<1>1. /\ ask[q] \in Ask /\ ask[q].next \in Dates /\ ask[q].next <= ask[q].last
      /\ ask \in [Queries -> Ask \cup {None}]
  BY DEF TypeInv, LoopData, TypeOK
<1>2. ask' = [ask EXCEPT ![q].next = @ + 1]
  BY DEF NextDate
<1>3. /\ ask'[q] = [ask[q] EXCEPT !.next = @ + 1]
      /\ ask'[q] \in Ask /\ ask'[q].next = ask[q].next + 1 /\ ask'[q].last = ask[q].last
  BY <1>1, <1>2 DEF Ask, Dates
<1>4. ask' \in [Queries -> Ask \cup {None}]
  BY <1>1, <1>2, <1>3
<1>5. running' = q => ask[q].next + 1 \in Dates /\ ask[q].next + 1 <= ask[q].last
  <2>1. ask[q].last \in Dates
    BY <1>1 DEF Ask
  <2> SUFFICES ASSUME running' = q PROVE ask[q].next # ask[q].last
    BY <1>1, <2>1, GatewayAssumption DEF Dates
  <2> QED BY GatewayAssumption DEF NextDate
<1>6. running' \in {q, None}
  BY DEF NextDate
<1> QED BY <1>1, <1>3, <1>4, <1>5, <1>6, GatewayAssumption DEF LoopData, Ask, Keys

LEMMA StartTaskTypes ==
  ASSUME SlotsOK, SlotsOK', TypeInv, NEW q \in Queries, NEW k \in Keys,
         StartTask(q, k), UNCHANGED <<clock, cache, status>>,
         running' \in Queries \cup {None}, ask' \in [Queries -> Ask \cup {None}]
  PROVE  TypeOK' /\ TaskData'
<1>1. PICK t \in Tasks :
        /\ phase[t] = "idle"
        /\ key' = [key EXCEPT ![t] = k]
        /\ pending' = [pending EXCEPT ![k] = t]
        /\ awaits' = [awaits EXCEPT ![q] = @ \cup {t}]
        /\ \/ /\ phase' = [phase EXCEPT ![t] = "queued"]
              /\ UNCHANGED <<budgetVars, active, outcome>>
           \/ SlotFree /\ UseSlot(t, k[2], active + 1)
  BY DEF StartTask
<1>2. served' = served /\ k[2] \in Dates
  BY DEF StartTask, Keys
<1>3. /\ key' \in [Tasks -> Keys \cup {None}] /\ pending' \in [Keys -> Tasks \cup {None}]
      /\ awaits' \in [Queries -> SUBSET Tasks] /\ key'[t] = k
      /\ \A u \in Tasks : u # t => key'[u] = key[u]
  BY <1>1 DEF TypeInv, TypeOK
<1>4. CASE phase' = [phase EXCEPT ![t] = "queued"] /\ UNCHANGED <<budgetVars, active, outcome>>
  <2>1. TypeOK'
    BY <1>2, <1>3, <1>4 DEF TypeInv, TypeOK, SlotsOK, SlotTypes, budgetVars
  <2>2. TaskData'
    BY <1>3, <1>4 DEF TypeInv, TypeOK, TaskData
  <2> QED BY <2>1, <2>2
<1>5. CASE UseSlot(t, k[2], active + 1)
  <2>1. active + 1 \in Nat
    BY DEF SlotsOK, SlotTypes
  <2>2. /\ budgetDate' \in UTCDays /\ used' \in Nat /\ spent' \in [UTCDays -> Nat]
        /\ outcome' \in [Tasks -> Result \cup {None}]
        /\ \A u \in Tasks : phase'[u] # "idle" => u = t \/ phase[u] # "idle"
        /\ \A u \in Tasks : phase'[u] \in {"settled", "stored"} =>
             outcome'[u] \in Result \/ (phase'[u] = phase[u] /\ outcome'[u] = outcome[u])
    BY <1>2, <1>5, <2>1, UseSlotTypes DEF TypeInv
  <2>3. TypeOK'
    BY <1>2, <1>3, <2>2 DEF TypeInv, TypeOK, SlotsOK, SlotTypes
  <2>4. TaskData'
    BY <1>3, <2>2 DEF TypeInv, TypeOK, TaskData
  <2> QED BY <2>3, <2>4
<1> QED BY <1>1, <1>4, <1>5

LEMMA TypeStep == SlotsOK /\ SlotsOK' /\ TypeInv /\ [Next]_vars => TypeInv'
<1> SUFFICES ASSUME SlotsOK, SlotsOK', TypeInv, [Next]_vars PROVE TypeInv'
  OBVIOUS
<1>0. /\ phase' \in [Tasks -> Phases] /\ active' \in Nat /\ waiters' \in Seq(Tasks)
  BY DEF SlotsOK, SlotTypes
<1>1. CASE Tick
  <2>1. clock' \in 0..MaxTime
    BY <1>1, GatewayAssumption DEF Tick, TypeInv, TypeOK
  <2> QED BY <1>0, <1>1, <2>1
       DEF Tick, TypeInv, TypeOK, TaskData, LoopData, budgetVars, taskVars, queryVars
<1>2. ASSUME NEW t \in Tasks, Resume(t) PROVE TypeInv'
  <2>1. /\ phase[t] = "handed" /\ UseSlot(t, key[t][2], active)
        /\ UNCHANGED <<clock, key, pending, cache, running, queryVars>>
    BY <1>2 DEF Resume
  <2>2. key[t] \in Keys /\ key[t][2] \in Dates /\ active \in Nat
    BY <2>1 DEF TypeInv, TaskData, Keys, TypeOK
  <2>3. /\ budgetDate' \in UTCDays /\ used' \in Nat /\ spent' \in [UTCDays -> Nat]
        /\ outcome' \in [Tasks -> Result \cup {None}]
        /\ \A u \in Tasks : phase'[u] # "idle" => u = t \/ phase[u] # "idle"
        /\ \A u \in Tasks : phase'[u] \in {"settled", "stored"} =>
             outcome'[u] \in Result \/ (phase'[u] = phase[u] /\ outcome'[u] = outcome[u])
    BY <2>1, <2>2, UseSlotTypes DEF TypeInv
  <2>4. TypeOK'
    BY <1>0, <2>1, <2>3 DEF TypeInv, TypeOK, queryVars
  <2>5. TaskData' /\ LoopData'
    BY <2>1, <2>3 DEF TypeInv, TaskData, LoopData, queryVars
  <2> QED BY <2>4, <2>5 DEF TypeInv
<1>3. ASSUME NEW t \in Tasks, ProviderReturns(t) PROVE TypeInv'
  <2>1. PICK issue \in FetchIssues : Settle(t, key[t][2], issue, active)
    BY <1>3 DEF ProviderReturns
  <2>2. /\ phase[t] = "calling"
        /\ UNCHANGED <<clock, budgetVars, key, pending, cache, running, queryVars>>
    BY <1>3 DEF ProviderReturns
  <2>3. outcome' = [outcome EXCEPT ![t] = Day(key[t][2], issue)] /\ ReleaseSlot(t, active)
    BY <2>1 DEF Settle
  <2>4. Day(key[t][2], issue) \in Result
    BY <2>2, DayType DEF TypeInv, TypeOK, TaskData, Keys, Issues
  <2>5. \A u \in Tasks : u # t => phase'[u] = phase[u] \/ (phase[u] = "queued" /\ phase'[u] = "handed")
    BY <2>3, FirstWaiter DEF ReleaseSlot, TypeInv, TypeOK
  <2>6. TypeOK'
    BY <1>0, <2>2, <2>3, <2>4 DEF TypeInv, TypeOK, budgetVars, queryVars
  <2>7. TaskData' /\ LoopData'
    BY <2>2, <2>3, <2>4, <2>5 DEF TypeInv, TypeOK, TaskData, LoopData, queryVars
  <2> QED BY <2>6, <2>7 DEF TypeInv
<1>4. ASSUME NEW t \in Tasks, StoreDay(t) PROVE TypeInv'
  <2>1. outcome[t] \in Result /\ key[t] \in Keys
    BY <1>4 DEF StoreDay, TypeInv, TaskData
  <2>2. [key |-> key[t], issue |-> outcome[t].issue, at |-> outcome[t].at] \in Entry
    BY <2>1 DEF Result, Entry
  <2>3. cache' \in Seq(Entry)
    BY <1>4, <2>2, CacheSetType DEF StoreDay, TypeInv, TypeOK
  <2>4. TypeOK'
    BY <1>0, <1>4, <2>3 DEF StoreDay, TypeInv, TypeOK, budgetVars, queryVars
  <2>5. TaskData' /\ LoopData'
    BY <1>4, <2>1 DEF StoreDay, TypeInv, TypeOK, TaskData, LoopData, queryVars
  <2> QED BY <2>4, <2>5 DEF TypeInv
<1>5. ASSUME NEW t \in Tasks, Deliver(t) PROVE TypeInv'
  <2>1. outcome[t] \in Result /\ key[t] \in Keys
    BY <1>5 DEF Deliver, TypeInv, TaskData
  <2>2. served' \in [Queries -> SUBSET Result] /\ awaits' \in [Queries -> SUBSET Tasks]
    BY <1>5, <2>1 DEF Deliver, TypeInv, TypeOK
  <2>3. pending' \in [Keys -> Tasks \cup {None}] /\ key' \in [Tasks -> Keys \cup {None}]
        /\ outcome' \in [Tasks -> Result \cup {None}]
    BY <1>5, <2>1 DEF Deliver, TypeInv, TypeOK
  <2>4. TypeOK'
    BY <1>0, <1>5, <2>2, <2>3 DEF Deliver, TypeInv, TypeOK, budgetVars
  <2>5. TaskData' /\ LoopData'
    BY <1>5 DEF Deliver, TypeInv, TypeOK, TaskData, LoopData
  <2> QED BY <2>4, <2>5 DEF TypeInv
<1>6. ASSUME NEW q \in Queries, Query(q) PROVE TypeInv'
  <2>1. PICK r \in Routes, first \in Dates, last \in Dates :
          /\ first <= last
          /\ ask' = [ask EXCEPT ![q] = [route |-> r, next |-> first, first |-> first,
                                        last |-> last, since |-> clock]]
          /\ Refuse(q, first, last) \/ Accept(q, first, last)
    BY <1>6 DEF Query
  <2>2. UNCHANGED <<clock, budgetVars, slotVars, taskVars, pending, cache, awaits>>
    BY <1>6 DEF Query
  <2>3. ask'[q] \in Ask /\ ask'[q].next = first /\ ask'[q].last = last
        /\ ask' \in [Queries -> Ask \cup {None}]
    BY <2>1 DEF TypeInv, TypeOK, Ask, Dates
  <2>4. \A d \in first..last : Day(d, "budget-exceeded") \in Result
    <3>1. \A d \in first..last : d \in Dates
      BY GatewayAssumption DEF Dates
    <3> QED BY <3>1, DayType DEF TypeInv, TypeOK, Issues
  <2>5. /\ status' \in [Queries -> {"idle", "open", "done"}]
        /\ served' \in [Queries -> SUBSET Result]
    <3>1. {Day(d, "budget-exceeded") : d \in first..last} \in SUBSET Result
      BY <2>4
    <3>2. CASE Refuse(q, first, last)
      BY <3>1, <3>2 DEF Refuse, TypeInv, TypeOK
    <3>3. CASE Accept(q, first, last)
      BY <3>3 DEF Accept, TypeInv, TypeOK
    <3> QED BY <2>1, <3>2, <3>3
  <2>6. running = None /\ running' \in {q, None}
    BY <1>6, <2>1 DEF Query, BetweenEvents, Refuse, Accept
  <2>7. TypeOK'
    BY <1>0, <2>2, <2>3, <2>5, <2>6 DEF TypeInv, TypeOK, budgetVars, taskVars
  <2>8. TaskData'
    BY <2>2 DEF TypeInv, TaskData, taskVars
  <2>9. LoopData'
    BY <2>1, <2>3, <2>6, GatewayAssumption DEF LoopData
  <2> QED BY <2>7, <2>8, <2>9 DEF TypeInv
<1>7. ASSUME NEW q \in Queries, GetDay(q) PROVE TypeInv'
  <2> DEFINE k == <<ask[q].route, ask[q].next>>
  <2>1. running = q /\ NextDate(q) /\ UNCHANGED <<clock, cache, status>>
    BY <1>7 DEF GetDay
  <2>2. /\ running' \in Queries \cup {None} /\ ask' \in [Queries -> Ask \cup {None}]
        /\ LoopData' /\ k \in Keys /\ ask[q].next \in Dates
    BY <2>1, NextDateTypes
  <2>3. ASSUME NEW day \in Result, Serve(q, day) PROVE TypeOK' /\ TaskData'
    BY <1>0, <2>1, <2>2, <2>3 DEF Serve, TypeInv, TypeOK, TaskData, budgetVars, taskVars
  <2>4. CASE OutOfRange(q, ask[q].next)
    <3>1. Day(ask[q].next, "out-of-range") \in Result
      BY <2>2, DayType DEF TypeInv, TypeOK, Issues
    <3> QED BY <2>2, <2>3, <2>4, <3>1 DEF OutOfRange, TypeInv
  <2>5. CASE ServeCached(q, k)
    <3>1. PICK i \in DOMAIN cache :
            Serve(q, [date |-> k[2], issue |-> cache[i].issue, at |-> cache[i].at])
      BY <2>5 DEF ServeCached, Cached
    <3>2. cache[i] \in Entry
      BY DEF TypeInv, TypeOK
    <3>3. [date |-> k[2], issue |-> cache[i].issue, at |-> cache[i].at] \in Result
      BY <2>2, <3>2 DEF Entry, Result
    <3> QED BY <2>2, <2>3, <3>1, <3>3 DEF TypeInv
  <2>6. CASE JoinInFlight(q, k)
    <3>1. pending[k] \in Tasks
      BY <2>2, <2>6 DEF JoinInFlight, InFlight, TypeInv, TypeOK
    <3>2. awaits' \in [Queries -> SUBSET Tasks]
      BY <2>6, <3>1 DEF JoinInFlight, TypeInv, TypeOK
    <3>3. TypeOK' /\ TaskData'
      BY <1>0, <2>1, <2>2, <2>6, <3>2 DEF JoinInFlight, TypeInv, TypeOK, TaskData, budgetVars, taskVars
    <3> QED BY <2>2, <3>3 DEF TypeInv
  <2>7. CASE StartTask(q, k)
    BY <2>1, <2>2, <2>7, StartTaskTypes DEF TypeInv
  <2> QED BY <1>7, <2>4, <2>5, <2>6, <2>7 DEF GetDay
<1>8. ASSUME NEW q \in Queries, Respond(q) PROVE TypeInv'
  BY <1>0, <1>8 DEF Respond, TypeInv, TypeOK, TaskData, LoopData, budgetVars, taskVars
<1>9. CASE UNCHANGED vars
  BY <1>0, <1>9 DEF vars, TypeInv, TypeOK, TaskData, LoopData, budgetVars, taskVars, queryVars
<1> QED BY <1>1, <1>2, <1>3, <1>4, <1>5, <1>6, <1>7, <1>8, <1>9 DEF Next

\* Every variable keeps to its type.
THEOREM TypeCorrect == Spec => []TypeOK
<1>1. SlotsOK /\ TypeInv => TypeOK
  BY DEF TypeInv
<1> QED BY <1>1, SlotsInit, SlotsStep, TypeInit, TypeStep, PTL DEF Spec

-----------------------------------------------------------------------------
(***************************************************************************)
(* The budget. What makes the ceiling inductive: the count kept by the     *)
(* code is the number of requests of the day it is kept for, and no        *)
(* request was made on a later day.                                        *)
(***************************************************************************)

BudgetInv ==
  /\ DailyCeiling
  /\ \A d \in UTCDays : (budgetDate = None \/ d > budgetDate) => spent[d] = 0
  /\ budgetDate # None => budgetDate <= Today /\ used = spent[budgetDate]

\* The count the code consults is the number of requests made today, also
\* when it is still kept for an earlier day or for none.
LEMMA UsedTodayIsSpent ==
  ASSUME TypeOK, BudgetInv
  PROVE  Today \in UTCDays /\ UsedToday = spent[Today] /\ UsedToday \in Nat
<1>1. Today \in UTCDays /\ Today \in Nat
  BY TodayType DEF TypeOK
<1>2. CASE budgetDate = Today
  BY <1>1, <1>2, GatewayAssumption DEF BudgetInv, UsedToday, TypeOK
<1>3. CASE budgetDate # Today
  <2>1. UsedToday = 0
    BY <1>3 DEF UsedToday
  <2>2. budgetDate = None \/ Today > budgetDate
    BY <1>1, <1>3 DEF BudgetInv, TypeOK, UTCDays
  <2> QED BY <1>1, <2>1, <2>2 DEF BudgetInv
<1> QED BY <1>2, <1>3

LEMMA UseSlotBudget ==
  ASSUME TypeOK, BudgetInv, NEW t, NEW d, NEW held, UseSlot(t, d, held), UNCHANGED clock
  PROVE  BudgetInv'
<1>1. Today \in UTCDays /\ UsedToday = spent[Today] /\ UsedToday \in Nat
  BY UsedTodayIsSpent
<1>2. Today' = Today /\ budgetDate' = Today /\ Today # None
  BY <1>1, GatewayAssumption DEF Today, UseSlot, UTCDays
<1>3. \A e \in UTCDays : e > Today => spent[e] = 0
  BY <1>1 DEF BudgetInv, TypeOK, UTCDays
<1>4. CASE MaySpend
  <2>1. used' = UsedToday + 1 /\ spent' = [spent EXCEPT ![Today] = @ + 1] /\ UsedToday < Budget
    BY <1>4 DEF UseSlot, MaySpend
  <2>2. DailyCeiling'
    BY <1>1, <2>1, GatewayAssumption DEF BudgetInv, DailyCeiling, TypeOK
  <2> QED BY <1>1, <1>2, <1>3, <2>1, <2>2 DEF BudgetInv, TypeOK, UTCDays
<1>5. CASE ~MaySpend
  <2>1. used' = UsedToday /\ spent' = spent
    BY <1>5 DEF UseSlot
  <2> QED BY <1>1, <1>2, <1>3, <2>1 DEF BudgetInv, DailyCeiling, UTCDays
<1> QED BY <1>4, <1>5

LEMMA BudgetInit == Init => BudgetInv
BY GatewayAssumption DEF Init, BudgetInv, DailyCeiling

LEMMA BudgetStep == TypeInv /\ BudgetInv /\ [Next]_vars => BudgetInv'
<1> SUFFICES ASSUME TypeInv, BudgetInv, [Next]_vars PROVE BudgetInv'
  OBVIOUS
<1>0. TypeOK
  BY DEF TypeInv
<1>1. CASE Tick
  <2>1. clock \in Nat /\ clock' \in Nat /\ clock <= clock'
    BY <1>0, <1>1, GatewayAssumption DEF Tick, TypeOK
  <2>2. Today <= Today' /\ Today \in Nat /\ Today' \in Nat
    BY <2>1, DayOfMonotone, DayOfNat DEF Today
  <2>3. UNCHANGED budgetVars
    BY <1>1 DEF Tick
  <2> HIDE DEF Today
  <2>4. budgetDate # None => budgetDate <= Today'
    BY <1>0, <2>2 DEF BudgetInv, TypeOK, UTCDays
  <2> QED BY <2>3, <2>4 DEF BudgetInv, DailyCeiling, budgetVars
<1>2. ASSUME NEW t \in Tasks, Resume(t) PROVE BudgetInv'
  BY <1>0, <1>2, UseSlotBudget DEF Resume
<1>3. ASSUME UNCHANGED <<clock, budgetVars>> PROVE BudgetInv'
  BY <1>3 DEF BudgetInv, DailyCeiling, Today, budgetVars
<1>4. ASSUME NEW q \in Queries, GetDay(q) PROVE BudgetInv'
  <2>1. UNCHANGED clock
    BY <1>4 DEF GetDay
  <2>2. UNCHANGED budgetVars \/ \E t \in Tasks : \E d, held : UseSlot(t, d, held)
    BY <1>4 DEF GetDay, OutOfRange, ServeCached, JoinInFlight, Serve, StartTask
  <2> QED BY <1>0, <1>3, <2>1, <2>2, UseSlotBudget
<1>5. ASSUME NEW t \in Tasks, ProviderReturns(t) \/ StoreDay(t) \/ Deliver(t) PROVE BudgetInv'
  BY <1>3, <1>5 DEF ProviderReturns, StoreDay, Deliver
<1>6. ASSUME NEW q \in Queries, Query(q) \/ Respond(q) PROVE BudgetInv'
  BY <1>3, <1>6 DEF Query, Respond
<1>7. CASE UNCHANGED vars
  BY <1>3, <1>7 DEF vars
<1> QED BY <1>1, <1>2, <1>4, <1>5, <1>6, <1>7 DEF Next

\* No UTC day sees more provider requests than the budget, however queries,
\* waits and midnights interleave.
THEOREM BudgetIsACeiling == Spec => []DailyCeiling
<1>1. BudgetInv => DailyCeiling
  BY DEF BudgetInv
<1> QED BY <1>1, SlotsInit, SlotsStep, TypeInit, TypeStep, BudgetInit, BudgetStep, PTL DEF Spec

-----------------------------------------------------------------------------
(***************************************************************************)
(* The gateway is a metered provider client.                               *)
(***************************************************************************)

Calling == {t \in Tasks : phase[t] = "calling"}

\* A task that gets a slot makes one call within the limits, or none.
LEMMA UseSlotCalls ==
  ASSUME SlotsOK, TypeOK, BudgetInv, NEW t \in Tasks, NEW d, NEW held,
         phase[t] \in {"idle", "handed"}, phase[t] = "idle" => active < Slots,
         UseSlot(t, d, held), UNCHANGED clock
  PROVE  PB!Call(t) \/ UNCHANGED <<Today, Calling, spent>>
<1>1. Today' = Today /\ UsedToday = spent[Today]
  BY UsedTodayIsSpent DEF Today
<1>2. CASE MaySpend
  <2>1. spent' = [spent EXCEPT ![Today] = @ + 1] /\ phase' = [phase EXCEPT ![t] = "calling"]
    BY <1>2 DEF UseSlot
  <2>2. t \notin Calling /\ Calling' = Calling \cup {t} /\ spent[Today] < Budget
    BY <1>1, <1>2, <2>1 DEF Calling, TypeOK, MaySpend
  <2>3. Cardinality(Calling) < Slots
    <3>1. Calling \subseteq Holders /\ IsFiniteSet(Holders) /\ Cardinality(Calling) \in Nat
          /\ IsFiniteSet(Calling)
      BY TasksFinite DEF Calling, Holders
    <3>2. CASE phase[t] = "handed"
      <4>1. Calling \cup {t} \subseteq Holders /\ Cardinality(Calling \cup {t}) = Cardinality(Calling) + 1
        BY <2>2, <3>1, <3>2, FS_AddElement DEF Holders
      <4>2. Cardinality(Calling \cup {t}) <= Cardinality(Holders)
        BY <3>1, <4>1, FS_Subset
      <4> QED BY <3>1, <4>1, <4>2, GatewayAssumption DEF SlotsOK, SlotTypes, SlotAccounting
    <3>3. CASE phase[t] = "idle"
      <4>1. Cardinality(Calling) <= active /\ active < Slots
        BY <3>1, <3>3, FS_Subset DEF SlotsOK, SlotAccounting
      <4> QED BY <3>1, <4>1, GatewayAssumption DEF SlotsOK, SlotTypes
    <3> QED BY <3>2, <3>3
  <2>c. PB!Cardinality(Calling) = Cardinality(Calling)
    BY DEF PB!Cardinality, Cardinality
  <2>4. PB!Call(t) <=> /\ t \notin Calling /\ Cardinality(Calling) < Slots
                       /\ spent[Today] < Budget
                       /\ Calling' = Calling \cup {t}
                       /\ spent' = [spent EXCEPT ![Today] = @ + 1]
                       /\ Today' = Today
    BY <2>c DEF PB!Call, Calling
  <2> QED BY <1>1, <2>1, <2>2, <2>3, <2>4
<1>3. CASE ~MaySpend
  <2>1. spent' = spent /\ ReleaseSlot(t, held)
    BY <1>3 DEF UseSlot, Settle
  <2>2. Calling' = Calling
    BY <2>1, FirstWaiter DEF ReleaseSlot, Calling, TypeOK
  <2> QED BY <1>1, <2>1, <2>2
<1> QED BY <1>2, <1>3

LEMMA MeteredStep ==
  SlotsOK /\ TypeInv /\ BudgetInv /\ [Next]_vars => [PB!Next]_(PB!vars)
<1> SUFFICES ASSUME SlotsOK, TypeInv, BudgetInv, [Next]_vars
             PROVE  PB!Next \/ UNCHANGED <<Today, Calling, spent>>
  BY DEF PB!vars, Calling
<1>0. TypeOK
  BY DEF TypeInv
<1>1. CASE Tick
  <2>1. clock \in Nat /\ clock' \in 0..MaxTime /\ clock <= clock'
    BY <1>0, <1>1, GatewayAssumption DEF Tick, TypeOK
  <2>2. Today <= Today' /\ Today \in Nat
    BY <2>1, DayOfMonotone, DayOfNat DEF Today
  <2>3. Today' \in UTCDays /\ Today' \in Nat
    BY <2>1, DayOfMonotone, DayOfNat, GatewayAssumption DEF Today, UTCDays
  <2>4. UNCHANGED <<spent, phase>>
    BY <1>1 DEF Tick, budgetVars, taskVars
  <2>5. Calling' = Calling
    BY <2>4 DEF Calling
  <2>6. Today' = Today \/ Today' > Today
    BY <2>2, <2>3
  <2> QED BY <2>3, <2>4, <2>5, <2>6 DEF PB!Next, PB!Midnight, Calling
<1>2. ASSUME NEW t \in Tasks, Resume(t) PROVE PB!Next \/ UNCHANGED <<Today, Calling, spent>>
  <2>1. PB!Call(t) \/ UNCHANGED <<Today, Calling, spent>>
    BY <1>0, <1>2, UseSlotCalls DEF Resume
  <2> QED BY <2>1 DEF PB!Next
<1>3. ASSUME NEW t \in Tasks, ProviderReturns(t) PROVE PB!Next
  <2>1. /\ phase[t] = "calling" /\ ReleaseSlot(t, active)
        /\ UNCHANGED <<clock, spent>>
    BY <1>3 DEF ProviderReturns, Settle, budgetVars
  <2>2. t \in Calling /\ Calling' = Calling \ {t}
    BY <1>0, <2>1, FirstWaiter DEF ReleaseSlot, Calling, TypeOK
  <2>3. Today' = Today
    BY <2>1 DEF Today
  <2> QED BY <2>1, <2>2, <2>3 DEF PB!Next, PB!Return, Calling
<1>4. ASSUME NEW t \in Tasks, StoreDay(t) \/ Deliver(t) PROVE UNCHANGED <<Today, Calling, spent>>
  BY <1>0, <1>4 DEF StoreDay, Deliver, Today, Calling, TypeOK, budgetVars
<1>5. ASSUME NEW q \in Queries, GetDay(q) PROVE PB!Next \/ UNCHANGED <<Today, Calling, spent>>
  <2>1. UNCHANGED clock /\ Today' = Today
    BY <1>5 DEF GetDay, Today
  <2>2. CASE UNCHANGED <<budgetVars, taskVars>>
    BY <2>1, <2>2 DEF Calling, budgetVars, taskVars
  <2>3. ASSUME NEW k, StartTask(q, k) PROVE PB!Next \/ UNCHANGED <<Today, Calling, spent>>
    <3>1. PICK t \in Tasks :
            /\ phase[t] = "idle"
            /\ \/ phase' = [phase EXCEPT ![t] = "queued"] /\ UNCHANGED budgetVars
               \/ SlotFree /\ UseSlot(t, k[2], active + 1)
      BY <2>3 DEF StartTask
    <3>2. CASE phase' = [phase EXCEPT ![t] = "queued"] /\ UNCHANGED budgetVars
      BY <1>0, <2>1, <3>1, <3>2 DEF Calling, TypeOK, budgetVars
    <3>3. CASE SlotFree /\ UseSlot(t, k[2], active + 1)
      <4>1. PB!Call(t) \/ UNCHANGED <<Today, Calling, spent>>
        BY <1>0, <2>1, <3>1, <3>3, UseSlotCalls DEF SlotFree
      <4> QED BY <4>1 DEF PB!Next
    <3> QED BY <3>1, <3>2, <3>3
  <2> QED BY <1>5, <2>2, <2>3 DEF GetDay, OutOfRange, ServeCached, JoinInFlight, Serve
<1>6. ASSUME NEW q \in Queries, Query(q) \/ Respond(q) PROVE UNCHANGED <<Today, Calling, spent>>
  BY <1>6 DEF Query, Respond, Today, Calling, budgetVars, taskVars
<1>7. CASE UNCHANGED vars
  BY <1>7 DEF vars, Today, Calling, budgetVars, taskVars
<1> QED BY <1>1, <1>2, <1>3, <1>4, <1>5, <1>6, <1>7 DEF Next

\* The safety part of ImplementsBudget: the provider sees a client that never
\* exceeds its concurrency and never its daily budget.
THEOREM GatewayIsMetered == Spec => PB!Init /\ [][PB!Next]_(PB!vars)
<1>1. Init => PB!Init
  BY GatewayAssumption DEF Init, PB!Init, Today, DayOf
<1> QED BY <1>1, MeteredStep, SlotsInit, SlotsStep, TypeInit, TypeStep, BudgetInit,
           BudgetStep, PTL DEF Spec

-----------------------------------------------------------------------------
(***************************************************************************)
(* Coalescing.                                                             *)
(***************************************************************************)

\* The steps that neither make nor end a promise.
LEMMA SamePromises ==
  ASSUME SingleFlight, UNCHANGED <<key, pending>>,
         \A u \in Tasks : phase'[u] = "idle" <=> phase[u] = "idle",
         TypeOK
  PROVE  SingleFlight'
BY GatewayAssumption DEF SingleFlight, Pending, TypeOK

LEMMA UseSlotPromises ==
  ASSUME SlotsOK, NEW t \in Tasks, NEW d, NEW held, UseSlot(t, d, held)
  PROVE  /\ phase'[t] # "idle"
         /\ \A u \in Tasks \ {t} : phase'[u] = "idle" <=> phase[u] = "idle"
<1>1. CASE MaySpend
  BY <1>1 DEF UseSlot, SlotsOK, SlotTypes
<1>2. CASE ~MaySpend
  <2>1. ReleaseSlot(t, held)
    BY <1>2 DEF UseSlot, Settle
  <2> QED BY <2>1, FirstWaiter DEF ReleaseSlot, SlotsOK, SlotTypes
<1> QED BY <1>1, <1>2

LEMMA FlightInit == Init => SingleFlight
BY GatewayAssumption DEF Init, SingleFlight, Pending

LEMMA FlightStep == SlotsOK /\ TypeInv /\ SingleFlight /\ [Next]_vars => SingleFlight'
<1> SUFFICES ASSUME SlotsOK, TypeInv, SingleFlight, [Next]_vars PROVE SingleFlight'
  OBVIOUS
<1>0. TypeOK
  BY DEF TypeInv
<1>1. ASSUME NEW t \in Tasks, Resume(t) PROVE SingleFlight'
  <2>1. phase[t] = "handed" /\ UseSlot(t, key[t][2], active) /\ UNCHANGED <<key, pending>>
    BY <1>1 DEF Resume
  <2> QED BY <1>0, <2>1, UseSlotPromises, SamePromises
<1>2. ASSUME NEW t \in Tasks, ProviderReturns(t) PROVE SingleFlight'
  <2>1. phase[t] = "calling" /\ ReleaseSlot(t, active) /\ UNCHANGED <<key, pending>>
    BY <1>2 DEF ProviderReturns, Settle
  <2>2. \A u \in Tasks : phase'[u] = "idle" <=> phase[u] = "idle"
    BY <1>0, <2>1, FirstWaiter DEF ReleaseSlot, TypeOK
  <2> QED BY <1>0, <2>1, <2>2, SamePromises
<1>3. ASSUME NEW t \in Tasks, StoreDay(t) PROVE SingleFlight'
  BY <1>0, <1>3, SamePromises DEF StoreDay, TypeOK
<1>4. ASSUME NEW t \in Tasks, Deliver(t) PROVE SingleFlight'
  <2>1. /\ phase[t] = "stored" /\ key[t] \in Keys /\ pending[key[t]] = t
        /\ pending' = [pending EXCEPT ![key[t]] = None]
        /\ phase' = [phase EXCEPT ![t] = "idle"] /\ key' = [key EXCEPT ![t] = None]
    BY <1>4 DEF Deliver, TypeInv, TaskData, SingleFlight
  <2>2. \A u \in Tasks : phase'[u] # "idle" => u # t /\ key[u] # key[t] /\ key[u] \in Keys
    BY <1>0, <2>1 DEF SingleFlight, TypeOK, TypeInv, TaskData
  <2>3. \A u \in Tasks : phase'[u] # "idle" => pending'[key'[u]] = u
    BY <1>0, <2>1, <2>2 DEF SingleFlight, TypeOK
  <2>4. \A k \in Pending' : k # key[t] /\ k \in Pending
    BY <1>0, <2>1 DEF Pending, TypeOK
  <2>5. \A k \in Pending' : phase'[pending'[k]] # "idle" /\ key'[pending'[k]] = k
    BY <1>0, <2>1, <2>4 DEF SingleFlight, TypeOK, Pending
  <2> QED BY <2>3, <2>5 DEF SingleFlight
<1>5. ASSUME NEW q \in Queries, NEW k \in Keys, StartTask(q, k) PROVE SingleFlight'
  <2>1. PICK t \in Tasks :
          /\ phase[t] = "idle" /\ pending[k] = None
          /\ key' = [key EXCEPT ![t] = k] /\ pending' = [pending EXCEPT ![k] = t]
          /\ \/ phase' = [phase EXCEPT ![t] = "queued"]
             \/ UseSlot(t, k[2], active + 1)
    BY <1>5 DEF StartTask, InFlight
  <2>2. phase'[t] # "idle" /\ \A u \in Tasks \ {t} : phase'[u] = "idle" <=> phase[u] = "idle"
    BY <1>0, <2>1, UseSlotPromises DEF TypeOK
  <2>3. \A u \in Tasks : phase[u] # "idle" => key[u] # k /\ key[u] \in Keys
    BY <2>1, GatewayAssumption DEF SingleFlight, TypeInv, TaskData
  <2>4. \A u \in Tasks : phase'[u] # "idle" => pending'[key'[u]] = u
    BY <1>0, <2>1, <2>2, <2>3 DEF SingleFlight, TypeOK
  <2>5. \A j \in Pending' : j = k \/ j \in Pending
    BY <1>0, <2>1 DEF Pending, TypeOK
  <2>6. \A j \in Pending' : phase'[pending'[j]] # "idle" /\ key'[pending'[j]] = j
    <3> SUFFICES ASSUME NEW j \in Pending' PROVE phase'[pending'[j]] # "idle" /\ key'[pending'[j]] = j
      OBVIOUS
    <3>1. CASE j = k
      BY <1>0, <2>1, <2>2, <3>1 DEF TypeOK
    <3>2. CASE j # k
      <4>1. j \in Pending /\ j \in Keys /\ pending'[j] = pending[j] /\ pending[j] \in Tasks
        BY <1>0, <2>1, <2>5, <3>2 DEF Pending, TypeOK
      <4>2. phase[pending[j]] # "idle" /\ key[pending[j]] = j /\ pending[j] # t
        BY <2>1, <4>1 DEF SingleFlight
      <4> QED BY <1>0, <2>1, <2>2, <4>1, <4>2 DEF TypeOK
    <3> QED BY <3>1, <3>2
  <2> QED BY <2>4, <2>6 DEF SingleFlight
<1>6. ASSUME UNCHANGED <<taskVars, pending>> PROVE SingleFlight'
  BY <1>0, <1>6, SamePromises DEF taskVars
<1>7. ASSUME NEW q \in Queries, GetDay(q) PROVE SingleFlight'
  <2>1. <<ask[q].route, ask[q].next>> \in Keys
    BY <1>7, NextDateTypes DEF GetDay
  <2>2. UNCHANGED <<taskVars, pending>> \/ StartTask(q, <<ask[q].route, ask[q].next>>)
    BY <1>7 DEF GetDay, OutOfRange, ServeCached, JoinInFlight, Serve
  <2> QED BY <1>5, <1>6, <2>1, <2>2
<1>8. ASSUME Tick \/ (\E q \in Queries : Query(q) \/ Respond(q)) \/ UNCHANGED vars
      PROVE SingleFlight'
  BY <1>6, <1>8 DEF Tick, Query, Respond, vars
<1> QED BY <1>1, <1>2, <1>3, <1>4, <1>7, <1>8 DEF Next

\* Two provider requests never run for one (pair, date).
THEOREM RequestsCoalesce == Spec => []SingleFlight
BY SlotsInit, SlotsStep, TypeInit, TypeStep, FlightInit, FlightStep, PTL DEF Spec

-----------------------------------------------------------------------------
(***************************************************************************)
(* What the gateway answers and fetches.                                   *)
(***************************************************************************)

\* What the earlier theorems establish of every state.
Base == SlotsOK /\ TypeInv /\ BudgetInv /\ SingleFlight

LEMMA BaseInit == Init => Base
BY SlotsInit, TypeInit, BudgetInit, FlightInit DEF Base

LEMMA BaseStep == Base /\ [Next]_vars => Base'
BY SlotsStep, TypeStep, BudgetStep, FlightStep DEF Base

LEMMA BaseHolds == Spec => []Base
BY BaseInit, BaseStep, PTL DEF Spec

-----------------------------------------------------------------------------
(***************************************************************************)
(* Steps, by what they leave alone.                                        *)
(***************************************************************************)

\* How a task that is given a slot leaves the tasks.
LEMMA UseSlotTasks ==
  ASSUME SlotsOK, TypeOK, NEW t \in Tasks, NEW d, NEW held, UseSlot(t, d, held)
  PROVE  /\ phase'[t] \in {"calling", "settled"}
         /\ phase'[t] = "settled" =>
              /\ ~MaySpend /\ spent' = spent /\ outcome'[t] = Day(d, "budget-exceeded")
         /\ \A u \in Tasks \ {t} :
              /\ outcome'[u] = outcome[u]
              /\ phase'[u] = phase[u] \/ (phase[u] = "queued" /\ phase'[u] = "handed")
<1>1. CASE MaySpend
  BY <1>1 DEF UseSlot, TypeOK
<1>2. CASE ~MaySpend
  <2>1. /\ ReleaseSlot(t, held) /\ spent' = spent
        /\ outcome' = [outcome EXCEPT ![t] = Day(d, "budget-exceeded")]
    BY <1>2 DEF UseSlot, Settle
  <2> QED BY <1>2, <2>1, FirstWaiter DEF ReleaseSlot, TypeOK
<1> QED BY <1>1, <1>2

\* A date of a query's loop is out of range, served from the cache, joined or
\* started; only the last touches a task.
LEMMA GetDayCases ==
  ASSUME TypeInv, NEW q \in Queries, GetDay(q)
  PROVE  /\ running = q /\ UNCHANGED <<clock, cache, status>>
         /\ <<ask[q].route, ask[q].next>> \in Keys
         /\ \/ UNCHANGED <<budgetVars, slotVars, taskVars, pending>>
            \/ StartTask(q, <<ask[q].route, ask[q].next>>)
BY NextDateTypes DEF GetDay, OutOfRange, ServeCached, JoinInFlight, Serve

-----------------------------------------------------------------------------
(***************************************************************************)
(* Refusals. What makes HonestRefusal inductive is that the count of a day *)
(* never falls and stops at the budget.                                    *)
(***************************************************************************)

LEMMA SpentStays ==
  ASSUME TypeOK, BudgetInv, NEW t, NEW d, NEW held, UseSlot(t, d, held),
         NEW e \in UTCDays, spent[e] = Budget
  PROVE  spent'[e] = Budget
<1>1. Today \in UTCDays /\ UsedToday = spent[Today]
  BY UsedTodayIsSpent
<1>2. CASE MaySpend
  <2>1. e # Today /\ spent' = [spent EXCEPT ![Today] = @ + 1]
    BY <1>1, <1>2, GatewayAssumption DEF UseSlot, MaySpend
  <2> QED BY <2>1 DEF TypeOK
<1>3. CASE ~MaySpend
  BY <1>3 DEF UseSlot
<1> QED BY <1>2, <1>3

\* A refusal is made on a day whose budget is spent.
LEMMA RefusalIsTrue ==
  ASSUME TypeOK, BudgetInv, ~MaySpend PROVE spent[DayOf(clock)] = Budget
<1>1. Today \in UTCDays /\ UsedToday = spent[Today] /\ UsedToday \in Nat
  BY UsedTodayIsSpent
<1>2. spent[Today] <= Budget /\ spent[Today] >= Budget
  BY <1>1, GatewayAssumption DEF BudgetInv, DailyCeiling, MaySpend
<1> QED BY <1>1, <1>2, GatewayAssumption DEF Today

\* Every entry after CacheSet is the new one or was there before.
LEMMA CacheSetEntries ==
  ASSUME cache \in Seq(Entry), NEW entry \in Entry, cache' = CacheSet(entry),
         NEW i \in DOMAIN cache'
  PROVE  cache'[i] = entry \/ \E j \in DOMAIN cache : cache'[i] = cache[j]
<1> DEFINE room == IF Len(cache) >= CacheCap THEN Tail(cache) ELSE cache
<1>1. /\ room \in Seq(Entry)
      /\ \A j \in 1..Len(room) : \E k \in DOMAIN cache : room[j] = cache[k]
  <2>1. CASE Len(cache) >= CacheCap
    <3>1. cache # <<>> /\ Len(cache) \in Nat
      BY <2>1, GatewayAssumption
    <3>2. /\ Tail(cache) \in Seq(Entry) /\ Len(Tail(cache)) = Len(cache) - 1
          /\ \A j \in 1..Len(Tail(cache)) : Tail(cache)[j] = cache[j + 1]
      BY <3>1
    <3>3. \A j \in 1..Len(Tail(cache)) : j + 1 \in DOMAIN cache
      BY <3>1, <3>2
    <3> QED BY <2>1, <3>2, <3>3
  <2>2. CASE ~(Len(cache) >= CacheCap)
    BY <2>2
  <2> QED BY <2>1, <2>2
<1> HIDE DEF room
<1>2. CASE \E j \in DOMAIN room : room[j].key = entry.key
  <2>1. cache' = [j \in DOMAIN room |-> IF room[j].key = entry.key THEN entry ELSE room[j]]
    BY <1>2 DEF CacheSet, room
  <2>2. i \in 1..Len(room) /\ (cache'[i] = entry \/ cache'[i] = room[i])
    BY <1>1, <2>1
  <2> QED BY <1>1, <2>2
<1>3. CASE ~\E j \in DOMAIN room : room[j].key = entry.key
  <2>1. cache' = Append(room, entry)
    BY <1>3 DEF CacheSet, room
  <2>2. i \in 1..Len(room) + 1 /\ (i = Len(room) + 1 => cache'[i] = entry)
        /\ (i # Len(room) + 1 => i \in 1..Len(room) /\ cache'[i] = room[i])
    BY <1>1, <2>1
  <2> QED BY <1>1, <2>2
<1> QED BY <1>2, <1>3

LEMMA HonestStep == Base /\ HonestRefusal /\ [Next]_vars => HonestRefusal'
<1> SUFFICES ASSUME Base, HonestRefusal, [Next]_vars PROVE HonestRefusal'
  OBVIOUS
<1>0. SlotsOK /\ TypeOK /\ TypeInv /\ TaskData /\ BudgetInv
  BY DEF Base, TypeInv
<1>d. /\ \A t \in Tasks : phase[t] \in {"settled", "stored"} => DayOf(outcome[t].at) \in UTCDays
      /\ \A i \in DOMAIN cache : DayOf(cache[i].at) \in UTCDays
  <2>1. \A at \in 0..MaxTime : DayOf(at) \in UTCDays
    BY DayOfNat, DayOfMonotone, GatewayAssumption DEF UTCDays
  <2>2. \A i \in DOMAIN cache : cache[i] \in Entry
    BY <1>0 DEF TypeOK
  <2> QED BY <1>0, <2>1, <2>2 DEF TaskData, Result, Entry
<1>1. ASSUME NEW t \in Tasks, NEW d, NEW held, UseSlot(t, d, held), UNCHANGED <<clock, cache>>
      PROVE  HonestRefusal'
  <2>1. \A e \in UTCDays : spent[e] = Budget => spent'[e] = Budget
    BY <1>0, <1>1, SpentStays
  <2>2. ASSUME NEW u \in Tasks, phase'[u] \in {"settled", "stored"},
               outcome'[u].issue = "budget-exceeded"
        PROVE  spent'[DayOf(outcome'[u].at)] = Budget
    <3>1. CASE u = t
      <4>1. /\ phase'[t] \in {"calling", "settled"}
            /\ phase'[t] = "settled" =>
                 ~MaySpend /\ spent' = spent /\ outcome'[t] = Day(d, "budget-exceeded")
        BY <1>0, <1>1, UseSlotTasks
      <4>2. ~MaySpend /\ spent' = spent /\ outcome'[t].at = clock
        BY <2>2, <3>1, <4>1 DEF Day
      <4> QED BY <1>0, <3>1, <4>2, RefusalIsTrue
    <3>2. CASE u # t
      <4>1. outcome'[u] = outcome[u] /\ phase[u] \in {"settled", "stored"}
        BY <1>0, <1>1, <2>2, <3>2, UseSlotTasks
      <4> QED BY <1>d, <2>1, <2>2, <4>1 DEF HonestRefusal
    <3> QED BY <3>1, <3>2
  <2>3. \A i \in DOMAIN cache' :
          cache'[i].issue = "budget-exceeded" => spent'[DayOf(cache'[i].at)] = Budget
    BY <1>1, <1>d, <2>1 DEF HonestRefusal
  <2> QED BY <2>2, <2>3 DEF HonestRefusal
<1>2. ASSUME NEW t \in Tasks, Resume(t) PROVE HonestRefusal'
  BY <1>1, <1>2 DEF Resume
<1>3. ASSUME NEW t \in Tasks, ProviderReturns(t) PROVE HonestRefusal'
  <2>1. PICK issue \in FetchIssues : Settle(t, key[t][2], issue, active)
    BY <1>3 DEF ProviderReturns
  <2>2. UNCHANGED <<spent, cache>>
    BY <1>3 DEF ProviderReturns, budgetVars
  <2>3. outcome'[t].issue # "budget-exceeded"
    BY <1>0, <2>1 DEF Settle, Day, FetchIssues, TypeOK
  <2>4. \A u \in Tasks : u # t => /\ outcome'[u] = outcome[u]
                                 /\ (phase'[u] = phase[u] \/ phase'[u] = "handed")
    BY <1>0, <2>1 DEF Settle, ReleaseSlot, TypeOK
  <2> QED BY <2>2, <2>3, <2>4 DEF HonestRefusal
<1>4. ASSUME NEW t \in Tasks, StoreDay(t) PROVE HonestRefusal'
  <2> DEFINE entry == [key |-> key[t], issue |-> outcome[t].issue, at |-> outcome[t].at]
  <2>1. /\ phase[t] = "settled" /\ cache' = CacheSet(entry)
        /\ phase' = [phase EXCEPT ![t] = "stored"] /\ UNCHANGED <<outcome, spent>>
    BY <1>4 DEF StoreDay, budgetVars
  <2>2. entry \in Entry /\ cache \in Seq(Entry)
    BY <1>0, <2>1 DEF TaskData, Result, Entry, TypeOK
  <2>3. entry.issue = "budget-exceeded" => spent[DayOf(entry.at)] = Budget
    BY <2>1 DEF HonestRefusal
  <2>4. ASSUME NEW i \in DOMAIN cache', cache'[i].issue = "budget-exceeded"
        PROVE  spent'[DayOf(cache'[i].at)] = Budget
    <3>1. cache'[i] = entry \/ \E j \in DOMAIN cache : cache'[i] = cache[j]
      BY <2>1, <2>2, CacheSetEntries
    <3> QED BY <2>1, <2>3, <2>4, <3>1 DEF HonestRefusal
  <2>5. \A u \in Tasks : phase'[u] \in {"settled", "stored"} => phase[u] \in {"settled", "stored"}
    BY <1>0, <2>1 DEF TypeOK
  <2> QED BY <2>1, <2>4, <2>5 DEF HonestRefusal
<1>5. ASSUME NEW t \in Tasks, Deliver(t) PROVE HonestRefusal'
  BY <1>0, <1>5 DEF Deliver, HonestRefusal, TypeOK, budgetVars
<1>6. ASSUME UNCHANGED <<budgetVars, taskVars, cache>> PROVE HonestRefusal'
  BY <1>6 DEF HonestRefusal, budgetVars, taskVars
<1>7. ASSUME NEW q \in Queries, GetDay(q) PROVE HonestRefusal'
  <2>1. CASE UNCHANGED <<budgetVars, taskVars>>
    BY <1>0, <1>6, <1>7, <2>1, GetDayCases
  <2>2. ASSUME NEW k, StartTask(q, k) PROVE HonestRefusal'
    <3>1. UNCHANGED <<clock, cache>>
      BY <1>7 DEF GetDay
    <3>2. PICK t \in Tasks :
            \/ phase' = [phase EXCEPT ![t] = "queued"] /\ UNCHANGED <<budgetVars, outcome>>
            \/ UseSlot(t, k[2], active + 1)
      BY <2>2 DEF StartTask
    <3>3. CASE phase' = [phase EXCEPT ![t] = "queued"] /\ UNCHANGED <<budgetVars, outcome>>
      BY <1>0, <3>1, <3>3 DEF HonestRefusal, TypeOK, budgetVars
    <3> QED BY <1>1, <3>1, <3>2, <3>3
  <2> QED BY <1>0, <1>7, <2>1, <2>2, GetDayCases
<1>8. ASSUME Tick \/ (\E q \in Queries : Query(q) \/ Respond(q)) \/ UNCHANGED vars
      PROVE HonestRefusal'
  BY <1>6, <1>8 DEF Tick, Query, Respond, vars
<1> QED BY <1>2, <1>3, <1>4, <1>5, <1>7, <1>8 DEF Next

\* A refusal for want of budget is a true one, and stays true of the day it
\* was given on while it waits in the cache.
THEOREM RefusalsAreHonest == Spec => []HonestRefusal
<1>1. Init => HonestRefusal
  BY GatewayAssumption DEF Init, HonestRefusal
<1> QED BY <1>1, HonestStep, BaseInit, BaseStep, PTL DEF Spec

-----------------------------------------------------------------------------
(***************************************************************************)
(* No request for what is fresh in the cache. While a task waits for its   *)
(* slot the cache gains no fresh day of its key: only the task itself      *)
(* could store one, and days only grow older.                              *)
(***************************************************************************)

WaitersLackDays ==
  \A t \in Tasks : phase[t] \in {"queued", "handed"} => Cached(key[t]) = {}

LEMMA LackStep == Base /\ WaitersLackDays /\ [Next]_vars => WaitersLackDays'
<1> SUFFICES ASSUME Base, WaitersLackDays, [Next]_vars PROVE WaitersLackDays'
  OBVIOUS
<1>0. SlotsOK /\ TypeOK /\ TypeInv /\ TaskData /\ SingleFlight
  BY DEF Base, TypeInv
<1>1. ASSUME NEW t \in Tasks, NEW d, NEW held, UseSlot(t, d, held),
             UNCHANGED <<clock, cache>>, \A u \in Tasks \ {t} : key'[u] = key[u]
      PROVE  WaitersLackDays'
  <2>1. phase'[t] \notin {"queued", "handed"}
    BY <1>0, <1>1, UseSlotTasks
  <2>2. \A u \in Tasks \ {t} : phase'[u] = phase[u] \/ (phase[u] = "queued" /\ phase'[u] = "handed")
    BY <1>0, <1>1, UseSlotTasks
  <2> QED BY <1>1, <2>1, <2>2 DEF WaitersLackDays, Cached, Fresh
<1>2. CASE Tick
  <2>1. /\ clock \in Nat /\ clock' = clock + 1 /\ UNCHANGED <<cache, phase, key>>
        /\ \A i \in DOMAIN cache : cache[i].at \in Nat
    <3>1. \A i \in DOMAIN cache : cache[i] \in Entry
      BY <1>0 DEF TypeOK
    <3> QED BY <1>0, <1>2, <3>1 DEF Tick, taskVars, TypeOK, Entry
  <2>2. \A i \in DOMAIN cache : Fresh(cache[i].at)' => Fresh(cache[i].at)
    BY <2>1, GatewayAssumption DEF Fresh
  <2> QED BY <2>1, <2>2 DEF WaitersLackDays, Cached
<1>3. ASSUME NEW t \in Tasks, Resume(t) PROVE WaitersLackDays'
  BY <1>1, <1>3 DEF Resume
<1>4. ASSUME NEW t \in Tasks, ProviderReturns(t) PROVE WaitersLackDays'
  <2>1. PICK issue \in FetchIssues : Settle(t, key[t][2], issue, active)
    BY <1>4 DEF ProviderReturns
  <2>2. UNCHANGED <<clock, key, cache>>
    BY <1>4 DEF ProviderReturns
  <2>3. \A u \in Tasks : phase'[u] \in {"queued", "handed"} => phase[u] \in {"queued", "handed"}
    BY <1>0, <2>1, FirstWaiter DEF Settle, ReleaseSlot, TypeOK
  <2> QED BY <2>2, <2>3 DEF WaitersLackDays, Cached, Fresh
<1>5. ASSUME NEW t \in Tasks, StoreDay(t) PROVE WaitersLackDays'
  <2> DEFINE entry == [key |-> key[t], issue |-> outcome[t].issue, at |-> outcome[t].at]
  <2>1. /\ phase[t] = "settled" /\ cache' = CacheSet(entry)
        /\ phase' = [phase EXCEPT ![t] = "stored"] /\ UNCHANGED <<clock, key>>
    BY <1>5 DEF StoreDay
  <2>2. entry \in Entry /\ cache \in Seq(Entry)
    BY <1>0, <2>1 DEF TaskData, Result, Entry, TypeOK
  <2>3. SUFFICES ASSUME NEW u \in Tasks, phase'[u] \in {"queued", "handed"},
                        NEW i \in DOMAIN cache', cache'[i].key = key[u], Fresh(cache'[i].at)
                 PROVE  FALSE
    BY <2>1 DEF WaitersLackDays, Cached, Fresh
  <2>4. u # t /\ phase[u] = phase'[u] /\ phase[u] # "idle" /\ phase[t] # "idle"
    BY <1>0, <2>1, <2>3 DEF TypeOK
  <2>5. key[u] # key[t]
    BY <1>0, <2>4 DEF SingleFlight
  <2>6. PICK j \in DOMAIN cache : cache'[i] = cache[j]
    BY <2>1, <2>2, <2>3, <2>5, CacheSetEntries
  <2>7. j \in Cached(key[u])
    BY <2>3, <2>6 DEF Cached
  <2> QED BY <2>3, <2>4, <2>7 DEF WaitersLackDays
<1>6. ASSUME NEW t \in Tasks, Deliver(t) PROVE WaitersLackDays'
  BY <1>0, <1>6 DEF Deliver, WaitersLackDays, Cached, Fresh, TypeOK
<1>7. ASSUME UNCHANGED <<clock, taskVars, cache>> PROVE WaitersLackDays'
  BY <1>7 DEF WaitersLackDays, Cached, Fresh, taskVars
<1>8. ASSUME NEW q \in Queries, GetDay(q) PROVE WaitersLackDays'
  <2>1. CASE UNCHANGED taskVars
    BY <1>0, <1>7, <1>8, <2>1, GetDayCases
  <2>2. ASSUME NEW k, StartTask(q, k) PROVE WaitersLackDays'
    <3>1. UNCHANGED <<clock, cache>>
      BY <1>8 DEF GetDay
    <3>2. PICK t \in Tasks :
            /\ key' = [key EXCEPT ![t] = k]
            /\ \/ phase' = [phase EXCEPT ![t] = "queued"]
               \/ UseSlot(t, k[2], active + 1)
      BY <2>2 DEF StartTask
    <3>3. /\ Cached(k) = {} /\ key'[t] = k
          /\ \A u \in Tasks \ {t} : key'[u] = key[u]
      BY <1>0, <2>2, <3>2 DEF StartTask, TypeOK
    <3>4. CASE phase' = [phase EXCEPT ![t] = "queued"]
      BY <1>0, <3>1, <3>3, <3>4 DEF WaitersLackDays, Cached, Fresh, TypeOK
    <3> QED BY <1>1, <3>1, <3>2, <3>3, <3>4
  <2> QED BY <1>0, <1>8, <2>1, <2>2, GetDayCases
<1>9. ASSUME (\E q \in Queries : Query(q) \/ Respond(q)) \/ UNCHANGED vars
      PROVE WaitersLackDays'
  BY <1>7, <1>9 DEF Query, Respond, vars
<1> QED BY <1>2, <1>3, <1>4, <1>5, <1>6, <1>8, <1>9 DEF Next

\* A step that begins a request begins it for a key of which the cache has no
\* fresh day.
LEMMA CallsLackDays ==
  ASSUME Base, WaitersLackDays, [Next]_vars,
         NEW t \in Tasks, phase[t] # "calling", phase'[t] = "calling"
  PROVE  Cached(key'[t]) = {}
<1>0. SlotsOK /\ TypeOK /\ TypeInv
  BY DEF Base, TypeInv
<1>1. ASSUME NEW u \in Tasks, NEW d, NEW held, UseSlot(u, d, held) PROVE u = t
  BY <1>0, <1>1, UseSlotTasks
<1>2. ASSUME NEW u \in Tasks, Resume(u) PROVE Cached(key'[t]) = {}
  BY <1>1, <1>2 DEF Resume, WaitersLackDays
<1>3. ASSUME NEW q \in Queries, GetDay(q) PROVE Cached(key'[t]) = {}
  <2>1. phase' # phase
    OBVIOUS
  <2> DEFINE k == <<ask[q].route, ask[q].next>>
  <2>2. StartTask(q, k)
    BY <1>0, <1>3, <2>1, GetDayCases DEF taskVars
  <2> HIDE DEF k
  <2>3. PICK u \in Tasks :
          /\ Cached(k) = {} /\ key' = [key EXCEPT ![u] = k]
          /\ phase' = [phase EXCEPT ![u] = "queued"] \/ UseSlot(u, k[2], active + 1)
    BY <2>2 DEF StartTask
  <2>4. u = t
    <3>1. CASE phase' = [phase EXCEPT ![u] = "queued"]
      BY <1>0, <3>1 DEF TypeOK
    <3>2. CASE UseSlot(u, k[2], active + 1)
      BY <1>1, <3>2
    <3> QED BY <2>3, <3>1, <3>2
  <2> QED BY <1>0, <2>3, <2>4 DEF TypeOK
<1>4. ASSUME NEW u \in Tasks, ProviderReturns(u) PROVE FALSE
  BY <1>0, <1>4, FirstWaiter DEF ProviderReturns, Settle, ReleaseSlot, TypeOK
<1>5. ASSUME NEW u \in Tasks, StoreDay(u) \/ Deliver(u) PROVE FALSE
  BY <1>0, <1>5 DEF StoreDay, Deliver, TypeOK
<1>6. ASSUME Tick \/ (\E q \in Queries : Query(q) \/ Respond(q)) \/ UNCHANGED vars PROVE FALSE
  BY <1>6 DEF Tick, Query, Respond, vars, taskVars
<1> QED BY <1>2, <1>3, <1>4, <1>5, <1>6 DEF Next

\* The supplier is not asked for what the cache can still answer, although the
\* cache is looked at before the wait for a slot and the request comes after.
THEOREM FreshDaysAreNotFetched == Spec => NoCallWhileFresh
<1>1. Init => WaitersLackDays
  BY DEF Init, WaitersLackDays
<1>2. Base /\ WaitersLackDays /\ [Next]_vars =>
        [\A t \in Tasks : phase[t] # "calling" /\ phase'[t] = "calling" =>
           ~\E i \in DOMAIN cache : cache[i].key = key'[t] /\ cache[i].at + TTL > clock]_vars
  BY CallsLackDays DEF Cached, Fresh
<1> QED BY <1>1, <1>2, LackStep, BaseInit, BaseStep, PTL DEF Spec, NoCallWhileFresh

-----------------------------------------------------------------------------
(***************************************************************************)
(* The responses and the memory they take: every day of a response is one  *)
(* that was asked for and had not expired, and neither the queue nor the   *)
(* cache outgrows its bound.                                               *)
(***************************************************************************)

(***************************************************************************)
(* The shape of a query: only an open one holds promises or runs its loop, *)
(* and the loop has come as far as ask[q].next.                            *)
(***************************************************************************)

Reached(q) ==
  /\ ask[q].first <= ask[q].next /\ ask[q].next <= ask[q].last + 1
  /\ running # q => ask[q].next = ask[q].last + 1

QueryShape ==
  \A q \in Queries :
    /\ status[q] # "open" => awaits[q] = {} /\ running # q
    /\ status[q] # "idle" => /\ ask[q] \in Ask /\ ask[q].first <= ask[q].last
                             /\ ask[q].since <= clock
    /\ status[q] = "open" => Reached(q)

LEMMA ShapeInit == Init => QueryShape
BY GatewayAssumption DEF Init, QueryShape

\* The record of an accepted or refused query.
LEMMA QueryAsks ==
  ASSUME TypeOK, NEW q \in Queries, Query(q)
  PROVE  /\ running = None /\ status[q] # "open"
         /\ ask'[q] \in Ask /\ \A p \in Queries \ {q} : ask'[p] = ask[p]
         /\ ask'[q].first <= ask'[q].last /\ ask'[q].next = ask'[q].first
         /\ ask'[q].since = clock
         /\ UNCHANGED <<clock, taskVars, pending, cache, awaits>>
         /\ \/ /\ Refuse(q, ask'[q].first, ask'[q].last) /\ running' = None
            \/ /\ Accept(q, ask'[q].first, ask'[q].last) /\ running' = q
<1>1. PICK r \in Routes, first \in Dates, last \in Dates :
        /\ first <= last
        /\ ask' = [ask EXCEPT ![q] = [route |-> r, next |-> first, first |-> first,
                                      last |-> last, since |-> clock]]
        /\ Refuse(q, first, last) \/ Accept(q, first, last)
  BY DEF Query
<1>2. ask'[q] = [route |-> r, next |-> first, first |-> first, last |-> last, since |-> clock]
  BY <1>1 DEF TypeOK
<1>3. ask'[q] \in Ask
  <2>1. r \in Routes /\ first \in Nat /\ first \in Dates /\ last \in Dates /\ clock \in 0..MaxTime
    BY DEF TypeOK, Dates
  <2>2. [route |-> r, next |-> first, first |-> first, last |-> last, since |-> clock] \in Ask
    BY <2>1 DEF Ask
  <2> QED BY <1>2, <2>2
<1>4. running = None /\ status[q] # "open"
  BY DEF Query, BetweenEvents
<1>5. UNCHANGED <<clock, taskVars, pending, cache, awaits>>
  BY DEF Query
<1>6. /\ \A p \in Queries \ {q} : ask'[p] = ask[p]
      /\ ask'[q].since = clock
      /\ ask'[q].first = first /\ ask'[q].next = first /\ ask'[q].last = last
  BY <1>1, <1>2 DEF TypeOK
<1>7. \/ Refuse(q, first, last) /\ running' = None
      \/ Accept(q, first, last) /\ running' = q
  BY <1>1, <1>4 DEF Refuse, Accept
<1> QED BY <1>1, <1>3, <1>4, <1>5, <1>6, <1>7

LEMMA ShapeStep == TypeInv /\ QueryShape /\ [Next]_vars => QueryShape'
<1> SUFFICES ASSUME TypeInv, QueryShape, [Next]_vars PROVE QueryShape'
  OBVIOUS
<1>0. TypeOK /\ LoopData
  BY DEF TypeInv
<1>1. CASE Tick
  <2>1. /\ clock \in Nat /\ clock' = clock + 1 /\ UNCHANGED <<running, status, ask, awaits>>
        /\ \A q \in Queries : ask[q] \in Ask => ask[q].since \in Nat
    BY <1>0, <1>1 DEF Tick, queryVars, TypeOK, Ask
  <2> QED BY <2>1 DEF QueryShape, Reached
<1>2. ASSUME UNCHANGED <<clock, running, status, ask>>,
             \A q \in Queries : awaits'[q] \subseteq awaits[q]
      PROVE  QueryShape'
  BY <1>2 DEF QueryShape, Reached
<1>3. ASSUME NEW t \in Tasks, Resume(t) \/ ProviderReturns(t) \/ StoreDay(t) \/ Deliver(t)
      PROVE  QueryShape'
  <2>1. UNCHANGED <<clock, running, status, ask>>
    BY <1>3 DEF Resume, ProviderReturns, StoreDay, Deliver, queryVars
  <2>2. awaits' = awaits \/ awaits' = [q \in Queries |-> awaits[q] \ {t}]
    BY <1>3 DEF Resume, ProviderReturns, StoreDay, Deliver, queryVars
  <2> QED BY <1>2, <2>1, <2>2
<1>4. ASSUME NEW q \in Queries, Query(q) PROVE QueryShape'
  <2>1. /\ running = None /\ status[q] # "open" /\ clock' = clock /\ awaits' = awaits
        /\ ask'[q] \in Ask /\ \A p \in Queries \ {q} : ask'[p] = ask[p]
        /\ ask'[q].first <= ask'[q].last /\ ask'[q].next = ask'[q].first
        /\ ask'[q].since = clock
        /\ \/ status' = [status EXCEPT ![q] = "done"] /\ running' = None
           \/ status' = [status EXCEPT ![q] = "open"] /\ running' = q
    BY <1>0, <1>4, QueryAsks DEF Refuse, Accept
  <2>2. clock \in Nat /\ ask'[q].first \in Nat /\ ask'[q].last \in Nat
    BY <1>0, <2>1 DEF TypeOK, Ask, Dates
  <2>3. ASSUME NEW p \in Queries, p # q
        PROVE  status'[p] = status[p] /\ ask'[p] = ask[p] /\ running # p /\ running' # p
    BY <1>0, <2>1, <2>3, GatewayAssumption DEF TypeOK
  <2>4. ASSUME NEW p \in Queries, p # q
        PROVE  /\ status'[p] # "open" => awaits'[p] = {} /\ running' # p
               /\ status'[p] # "idle" => /\ ask'[p] \in Ask /\ ask'[p].first <= ask'[p].last
                                         /\ ask'[p].since <= clock'
               /\ status'[p] = "open" => Reached(p)'
    BY <2>1, <2>3, <2>4 DEF QueryShape, Reached
  <2>5. /\ status'[q] # "open" => awaits'[q] = {} /\ running' # q
        /\ status'[q] # "idle" => /\ ask'[q] \in Ask /\ ask'[q].first <= ask'[q].last
                                  /\ ask'[q].since <= clock'
        /\ status'[q] = "open" => Reached(q)'
    BY <1>0, <2>1, <2>2, GatewayAssumption DEF QueryShape, Reached, TypeOK
  <2> QED BY <2>4, <2>5 DEF QueryShape
<1>5. ASSUME NEW q \in Queries, GetDay(q) PROVE QueryShape'
  <2>1. /\ running = q /\ clock' = clock /\ status' = status
        /\ ask' = [ask EXCEPT ![q].next = @ + 1]
        /\ running' = IF ask[q].next = ask[q].last THEN None ELSE q
    BY <1>5 DEF GetDay, NextDate
  <2>2. \A p \in Queries : p # q => awaits'[p] = awaits[p]
    BY <1>0, <1>5 DEF GetDay, OutOfRange, ServeCached, JoinInFlight, StartTask, Serve, TypeOK
  <2>3. /\ ask[q] \in Ask /\ ask[q].next \in Nat /\ ask[q].last \in Nat /\ ask[q].first \in Nat
        /\ ask[q].next <= ask[q].last
    BY <1>0, <2>1 DEF LoopData, Ask, Dates
  <2>4. /\ ask'[q] = [ask[q] EXCEPT !.next = ask[q].next + 1]
        /\ \A p \in Queries : p # q => ask'[p] = ask[p]
    BY <1>0, <2>1 DEF TypeOK
  <2>5. /\ ask'[q] \in Ask /\ ask'[q].next = ask[q].next + 1 /\ ask'[q].first = ask[q].first
        /\ ask'[q].last = ask[q].last /\ ask'[q].since = ask[q].since
    BY <2>3, <2>4 DEF Ask
  <2>6. status[q] = "open"
    BY <2>1 DEF QueryShape
  <2>7. ASSUME NEW p \in Queries, p # q
        PROVE  /\ status'[p] # "open" => awaits'[p] = {} /\ running' # p
               /\ status'[p] # "idle" => /\ ask'[p] \in Ask /\ ask'[p].first <= ask'[p].last
                                         /\ ask'[p].since <= clock'
               /\ status'[p] = "open" => Reached(p)'
    BY <2>1, <2>2, <2>4, <2>7, GatewayAssumption DEF QueryShape, Reached
  <2>8. /\ status'[q] # "open" => awaits'[q] = {} /\ running' # q
        /\ status'[q] # "idle" => /\ ask'[q] \in Ask /\ ask'[q].first <= ask'[q].last
                                  /\ ask'[q].since <= clock'
        /\ status'[q] = "open" => Reached(q)'
    BY <2>1, <2>3, <2>5, <2>6 DEF QueryShape, Reached
  <2> QED
    <3> SUFFICES ASSUME NEW p \in Queries
                 PROVE  /\ status'[p] # "open" => awaits'[p] = {} /\ running' # p
                        /\ status'[p] # "idle" => /\ ask'[p] \in Ask /\ ask'[p].first <= ask'[p].last
                                                  /\ ask'[p].since <= clock'
                        /\ status'[p] = "open" => Reached(p)'
      BY DEF QueryShape
    <3>1. CASE p = q
      BY <2>8, <3>1 DEF Reached
    <3>2. CASE p # q
      BY <2>7, <3>2
    <3> QED BY <3>1, <3>2
<1>6. ASSUME NEW q \in Queries, Respond(q) PROVE QueryShape'
  BY <1>0, <1>6, GatewayAssumption DEF Respond, QueryShape, Reached, TypeOK
<1>7. CASE UNCHANGED vars
  BY <1>2, <1>7 DEF vars, queryVars
<1> QED BY <1>1, <1>3, <1>4, <1>5, <1>6, <1>7 DEF Next

\* What a date of a query's loop does for the query: it brings a day, one that
\* is not yet past, or the promise of one.
NewDay(q, day) ==
  /\ day.date = ask[q].next /\ day.at + TTL > clock
  /\ served' = [served EXCEPT ![q] = @ \cup {day}]
  /\ UNCHANGED <<taskVars, pending, awaits>>

OldPromise(q, t) ==
  /\ phase[t] # "idle" /\ key[t] = <<ask[q].route, ask[q].next>>
  /\ awaits' = [awaits EXCEPT ![q] = @ \cup {t}]
  /\ UNCHANGED <<taskVars, pending, served>>

NewPromise(q, t) ==
  /\ phase[t] = "idle" /\ phase'[t] # "idle"
  /\ key' = [key EXCEPT ![t] = <<ask[q].route, ask[q].next>>]
  /\ pending' = [pending EXCEPT ![<<ask[q].route, ask[q].next>>] = t]
  /\ awaits' = [awaits EXCEPT ![q] = @ \cup {t}]
  /\ phase'[t] \in {"settled", "stored"} =>
       outcome'[t].date = ask[q].next /\ outcome'[t].at = clock
  /\ \A u \in Tasks \ {t} :
       /\ outcome'[u] = outcome[u]
       /\ phase'[u] = phase[u] \/ (phase[u] = "queued" /\ phase'[u] = "handed")
  /\ UNCHANGED served

LEMMA GetDayEffect ==
  ASSUME Base, QueryShape, NEW q \in Queries, GetDay(q)
  PROVE  /\ running = q /\ status[q] = "open" /\ UNCHANGED <<clock, cache, status>>
         /\ ask[q] \in Ask /\ ask[q].next \in Dates /\ ask[q].next <= ask[q].last
         /\ \A p \in Queries \ {q} : ask'[p] = ask[p]
         /\ ask'[q].route = ask[q].route /\ ask'[q].next = ask[q].next + 1
         /\ ask'[q].first = ask[q].first /\ ask'[q].last = ask[q].last
         /\ ask'[q].since = ask[q].since
         /\ running' = IF ask[q].next = ask[q].last THEN None ELSE q
         /\ \/ \E day \in Result : NewDay(q, day)
            \/ \E t \in Tasks : OldPromise(q, t) \/ NewPromise(q, t)
<1>0. SlotsOK /\ TypeInv /\ TypeOK /\ LoopData /\ SingleFlight /\ TaskData
  BY DEF Base, TypeInv
<1> DEFINE k == <<ask[q].route, ask[q].next>>
<1>1. /\ running = q /\ UNCHANGED <<clock, cache, status>> /\ k \in Keys
      /\ ask' = [ask EXCEPT ![q].next = @ + 1]
      /\ running' = IF ask[q].next = ask[q].last THEN None ELSE q
      /\ OutOfRange(q, ask[q].next) \/ ServeCached(q, k) \/ JoinInFlight(q, k) \/ StartTask(q, k)
  BY <1>0, GetDayCases DEF GetDay, NextDate
<1>2. /\ status[q] = "open" /\ ask[q] \in Ask
      /\ ask[q].next \in Dates /\ ask[q].next <= ask[q].last /\ k[2] = ask[q].next
  BY <1>0, <1>1 DEF QueryShape, LoopData
<1> HIDE DEF k
<1>3. ask'[q] = [ask[q] EXCEPT !.next = ask[q].next + 1]
  BY <1>0, <1>1 DEF TypeOK
<1>4. /\ \A p \in Queries \ {q} : ask'[p] = ask[p]
      /\ ask'[q].route = ask[q].route /\ ask'[q].next = ask[q].next + 1
      /\ ask'[q].first = ask[q].first /\ ask'[q].last = ask[q].last
      /\ ask'[q].since = ask[q].since
  BY <1>0, <1>1, <1>2, <1>3 DEF TypeOK, Ask
<1>5. ASSUME NEW day \in Result, Serve(q, day), day.date = ask[q].next, day.at + TTL > clock
      PROVE  \E d \in Result : NewDay(q, d)
  BY <1>5 DEF Serve, NewDay
<1>6. ASSUME OutOfRange(q, ask[q].next) PROVE \E day \in Result : NewDay(q, day)
  <2>1. Day(ask[q].next, "out-of-range") \in Result /\ clock \in Nat
    BY <1>0, <1>2, DayType DEF TypeOK, Issues
  <2>2. /\ Day(ask[q].next, "out-of-range").date = ask[q].next
        /\ Day(ask[q].next, "out-of-range").at + TTL > clock
    BY <2>1, GatewayAssumption DEF Day
  <2>3. Serve(q, Day(ask[q].next, "out-of-range"))
    BY <1>6 DEF OutOfRange
  <2> QED BY <1>5, <2>1, <2>2, <2>3
<1>7. ASSUME ServeCached(q, k) PROVE \E day \in Result : NewDay(q, day)
  <2>1. PICK i \in Cached(k) : Serve(q, [date |-> k[2], issue |-> cache[i].issue, at |-> cache[i].at])
    BY <1>7 DEF ServeCached
  <2>2. cache[i] \in Entry /\ cache[i].at + TTL > clock
    BY <1>0, <2>1 DEF Cached, Fresh, TypeOK
  <2> DEFINE day == [date |-> k[2], issue |-> cache[i].issue, at |-> cache[i].at]
  <2>3. day \in Result /\ day.date = ask[q].next /\ day.at + TTL > clock /\ Serve(q, day)
    BY <1>2, <2>1, <2>2 DEF Entry, Result
  <2> HIDE DEF day
  <2> QED BY <1>5, <2>3
<1>8. ASSUME JoinInFlight(q, k) PROVE \E t \in Tasks : OldPromise(q, t)
  <2>1. /\ k \in Pending /\ awaits' = [awaits EXCEPT ![q] = @ \cup {pending[k]}]
        /\ UNCHANGED <<taskVars, pending, served>>
    BY <1>1, <1>8 DEF JoinInFlight, InFlight, Pending
  <2>2. pending[k] \in Tasks /\ phase[pending[k]] # "idle" /\ key[pending[k]] = k
    BY <1>0, <2>1 DEF SingleFlight, Pending, TypeOK
  <2>3. OldPromise(q, pending[k])
    BY <2>1, <2>2 DEF OldPromise, k
  <2> QED BY <2>2, <2>3
<1>9. ASSUME StartTask(q, k) PROVE \E t \in Tasks : NewPromise(q, t)
  <2>1. PICK t \in Tasks :
          /\ phase[t] = "idle" /\ key' = [key EXCEPT ![t] = k]
          /\ pending' = [pending EXCEPT ![k] = t]
          /\ awaits' = [awaits EXCEPT ![q] = @ \cup {t}]
          /\ \/ phase' = [phase EXCEPT ![t] = "queued"] /\ UNCHANGED outcome
             \/ UseSlot(t, k[2], active + 1)
    BY <1>9 DEF StartTask
  <2>2. UNCHANGED served
    BY <1>9 DEF StartTask
  <2>3. /\ phase'[t] # "idle"
        /\ phase'[t] \in {"settled", "stored"} =>
             outcome'[t].date = ask[q].next /\ outcome'[t].at = clock
        /\ \A u \in Tasks \ {t} :
             /\ outcome'[u] = outcome[u]
             /\ (phase'[u] = phase[u] \/ (phase[u] = "queued" /\ phase'[u] = "handed"))
    <3>1. CASE phase' = [phase EXCEPT ![t] = "queued"] /\ UNCHANGED outcome
      BY <1>0, <3>1 DEF TypeOK
    <3>2. CASE UseSlot(t, k[2], active + 1)
      <4>1. /\ phase'[t] \in {"calling", "settled"}
            /\ phase'[t] = "settled" => outcome'[t] = Day(k[2], "budget-exceeded")
            /\ \A u \in Tasks \ {t} :
                 /\ outcome'[u] = outcome[u]
                 /\ (phase'[u] = phase[u] \/ (phase[u] = "queued" /\ phase'[u] = "handed"))
        BY <1>0, <3>2, UseSlotTasks
      <4> QED BY <1>2, <4>1 DEF Day
    <3> QED BY <2>1, <3>1, <3>2
  <2>4. NewPromise(q, t)
    BY <2>1, <2>2, <2>3 DEF NewPromise, k
  <2> QED BY <2>4
<1> QED BY <1>1, <1>2, <1>4, <1>6, <1>7, <1>8, <1>9

-----------------------------------------------------------------------------
\* What a query has received, and what its promises will bring, is no older
\* than it may be. While its loop runs it may join any promise there is, so
\* none may be settled with a day from before the query.
Recent ==
  \A q \in Queries : status[q] # "idle" =>
    /\ \A day \in served[q] : day.at + TTL > ask[q].since
    /\ \A t \in Tasks : /\ phase[t] \in {"settled", "stored"}
                        /\ t \in awaits[q] \/ running = q
                        => outcome[t].at >= ask[q].since

LEMMA RecentInit == Init => Recent
BY DEF Init, Recent

\* A step that settles a task settles it with the day of this instant.
LEMMA RecentTasks ==
  ASSUME Base, QueryShape, Recent, UNCHANGED <<status, ask, running, served, awaits>>,
         \A t \in Tasks : phase'[t] \in {"settled", "stored"} =>
           \/ phase[t] \in {"settled", "stored"} /\ outcome'[t] = outcome[t]
           \/ outcome'[t].at = clock
  PROVE  Recent'
<1>1. \A q \in Queries : status[q] # "idle" => ask[q].since <= clock
  BY DEF QueryShape
<1> QED BY <1>1 DEF Recent

LEMMA RecentStep == Base /\ QueryShape /\ Recent /\ [Next]_vars => Recent'
<1> SUFFICES ASSUME Base, QueryShape, Recent, [Next]_vars PROVE Recent'
  OBVIOUS
<1>0. SlotsOK /\ TypeInv /\ TypeOK /\ TaskData
  BY DEF Base, TypeInv
<1>1. CASE Tick
  BY <1>1, RecentTasks DEF Tick, queryVars, taskVars
<1>2. ASSUME NEW t \in Tasks, Resume(t) PROVE Recent'
  <2>1. UseSlot(t, key[t][2], active) /\ UNCHANGED <<status, ask, running, served, awaits>>
    BY <1>2 DEF Resume, queryVars
  <2>2. /\ phase'[t] \in {"calling", "settled"}
        /\ phase'[t] = "settled" => outcome'[t] = Day(key[t][2], "budget-exceeded")
        /\ \A u \in Tasks \ {t} :
              /\ outcome'[u] = outcome[u]
              /\ (phase'[u] = phase[u] \/ (phase[u] = "queued" /\ phase'[u] = "handed"))
    BY <1>0, <2>1, UseSlotTasks
  <2>3. \A u \in Tasks : phase'[u] \in {"settled", "stored"} =>
           \/ phase[u] \in {"settled", "stored"} /\ outcome'[u] = outcome[u]
           \/ outcome'[u].at = clock
    BY <2>2 DEF Day
  <2> QED BY <2>1, <2>3, RecentTasks
<1>3. ASSUME NEW t \in Tasks, ProviderReturns(t) PROVE Recent'
  <2>1. PICK issue \in FetchIssues : Settle(t, key[t][2], issue, active)
    BY <1>3 DEF ProviderReturns
  <2>2. UNCHANGED <<status, ask, running, served, awaits>>
    BY <1>3 DEF ProviderReturns, queryVars
  <2>3. outcome'[t].at = clock
    BY <1>0, <2>1 DEF Settle, Day, TypeOK
  <2>4. \A u \in Tasks : u # t => /\ outcome'[u] = outcome[u]
                                 /\ (phase'[u] = phase[u] \/ phase'[u] = "handed")
    BY <1>0, <2>1 DEF Settle, ReleaseSlot, TypeOK
  <2> QED BY <2>2, <2>3, <2>4, RecentTasks
<1>4. ASSUME NEW t \in Tasks, StoreDay(t) PROVE Recent'
  BY <1>0, <1>4, RecentTasks DEF StoreDay, queryVars, TypeOK
<1>5. ASSUME NEW t \in Tasks, Deliver(t) PROVE Recent'
  <2>1. /\ running = None /\ phase[t] = "stored"
        /\ phase' = [phase EXCEPT ![t] = "idle"] /\ outcome' = [outcome EXCEPT ![t] = None]
        /\ served' = [q \in Queries |-> IF t \in awaits[q] THEN served[q] \cup {outcome[t]}
                                                          ELSE served[q]]
        /\ awaits' = [q \in Queries |-> awaits[q] \ {t}]
        /\ UNCHANGED <<running, status, ask>>
    BY <1>5 DEF Deliver
  <2>2. SUFFICES ASSUME NEW q \in Queries, status[q] # "idle"
                 PROVE  /\ \A day \in served'[q] : day.at + TTL > ask[q].since
                        /\ \A u \in Tasks : /\ phase'[u] \in {"settled", "stored"}
                                            /\ u \in awaits'[q] \/ running' = q
                                            => outcome'[u].at >= ask[q].since
    BY <2>1 DEF Recent
  <2>3. ask[q].since \in Nat
    BY <2>2 DEF QueryShape, Ask
  <2>4. outcome[t].at \in Nat /\ (t \in awaits[q] => outcome[t].at + TTL > ask[q].since)
    <3>1. outcome[t].at \in Nat
      BY <1>0, <2>1 DEF TaskData, Result
    <3>2. t \in awaits[q] => outcome[t].at >= ask[q].since
      BY <2>1, <2>2 DEF Recent
    <3> QED BY <2>3, <3>1, <3>2, GatewayAssumption
  <2>5. \A day \in served'[q] : day.at + TTL > ask[q].since
    BY <2>1, <2>2, <2>4 DEF Recent
  <2>6. \A u \in Tasks : phase'[u] \in {"settled", "stored"} /\ (u \in awaits'[q] \/ running' = q)
          => outcome'[u].at >= ask[q].since
    BY <1>0, <2>1, <2>2 DEF Recent, TypeOK
  <2> QED BY <2>5, <2>6
<1>6. ASSUME NEW q \in Queries, Query(q) PROVE Recent'
  <2>1. /\ running = None /\ status[q] # "open" /\ UNCHANGED <<clock, taskVars, awaits>>
        /\ ask'[q].since = clock /\ \A p \in Queries \ {q} : ask'[p] = ask[p]
        /\ \/ Refuse(q, ask'[q].first, ask'[q].last)
           \/ Accept(q, ask'[q].first, ask'[q].last)
        /\ running' \in {None, q}
    BY <1>0, <1>6, QueryAsks
  <2>2. \A t \in Tasks : phase'[t] \notin {"settled", "stored"}
    BY <1>6, <2>1 DEF Query, BetweenEvents, taskVars
  <2>3. \A p \in Queries \ {q} : served'[p] = served[p] /\ status'[p] = status[p]
    BY <1>0, <2>1 DEF Refuse, Accept, TypeOK
  <2>4. \A day \in served'[q] : day.at = clock
    BY <1>0, <2>1 DEF Refuse, Accept, Day, TypeOK
  <2>5. clock + TTL > clock
    BY <1>0, GatewayAssumption DEF TypeOK
  <2> QED BY <2>1, <2>2, <2>3, <2>4, <2>5 DEF Recent
<1>7. ASSUME NEW q \in Queries, GetDay(q) PROVE Recent'
  <2>1. /\ running = q /\ status[q] = "open" /\ UNCHANGED <<clock, status>>
        /\ \A p \in Queries \ {q} : ask'[p] = ask[p]
        /\ ask'[q].since = ask[q].since
        /\ running' \in {None, q}
        /\ \/ \E day \in Result : NewDay(q, day)
           \/ \E t \in Tasks : OldPromise(q, t) \/ NewPromise(q, t)
    BY <1>7, GetDayEffect
  <2>2. \A p \in Queries : ask'[p].since = ask[p].since /\ p # None
    BY <2>1, GatewayAssumption
  <2>3. ask[q].since \in Nat /\ ask[q].since <= clock /\ clock \in Nat
    BY <1>0, <2>1 DEF QueryShape, Ask, TypeOK
  <2>4. ASSUME NEW day \in Result, NewDay(q, day) PROVE Recent'
    <3>1. day.at + TTL > ask[q].since
      BY <2>3, <2>4, GatewayAssumption DEF NewDay, Result
    <3>2. /\ \A p \in Queries : served'[p] = IF p = q THEN served[q] \cup {day} ELSE served[p]
          /\ UNCHANGED <<phase, outcome, awaits>>
      BY <1>0, <2>4 DEF NewDay, TypeOK, taskVars
    <3> QED BY <2>1, <2>2, <3>1, <3>2 DEF Recent
  <2>5. ASSUME NEW t \in Tasks, OldPromise(q, t) PROVE Recent'
    <3>1. /\ \A p \in Queries : awaits'[p] = IF p = q THEN awaits[q] \cup {t} ELSE awaits[p]
          /\ UNCHANGED <<phase, outcome, served>>
      BY <1>0, <2>5 DEF OldPromise, TypeOK, taskVars
    <3> QED BY <2>1, <2>2, <3>1 DEF Recent
  <2>6. ASSUME NEW t \in Tasks, NewPromise(q, t) PROVE Recent'
    <3>1. /\ \A p \in Queries : awaits'[p] = IF p = q THEN awaits[q] \cup {t} ELSE awaits[p]
          /\ UNCHANGED served
      BY <1>0, <2>6 DEF NewPromise, TypeOK
    <3>2. \A u \in Tasks : phase'[u] \in {"settled", "stored"} =>
            \/ u # t /\ phase[u] \in {"settled", "stored"} /\ outcome'[u] = outcome[u]
            \/ outcome'[u].at = clock
      BY <2>6 DEF NewPromise
    <3>3. \A p \in Queries : status[p] # "idle" => ask[p].since <= clock
      BY DEF QueryShape
    <3> QED BY <2>1, <2>2, <3>1, <3>2, <3>3 DEF Recent
  <2> QED BY <2>1, <2>4, <2>5, <2>6
<1>8. ASSUME NEW q \in Queries, Respond(q) PROVE Recent'
  BY <1>0, <1>8 DEF Respond, Recent, taskVars, TypeOK
<1>9. CASE UNCHANGED vars
  BY <1>9, RecentTasks DEF vars, taskVars, queryVars
<1> QED BY <1>1, <1>2, <1>3, <1>4, <1>5, <1>6, <1>7, <1>8, <1>9 DEF Next

\* No day of a response had expired when its query was made, although a query
\* may wait for promises that other queries made before it.
THEOREM DaysAreFreshWhenAsked == Spec => []FreshWhenAsked
<1>1. Recent => FreshWhenAsked
  BY DEF Recent, FreshWhenAsked
<1> QED BY <1>1, BaseInit, BaseStep, ShapeInit, ShapeStep, RecentInit, RecentStep, PTL
        DEF Spec, Base

-----------------------------------------------------------------------------
\* The days a query has and the promises it holds stand for the dates its
\* loop has passed, each exactly once.
Received(q) == {day.date : day \in served[q]}
Promised(q) == {key[t][2] : t \in awaits[q]}
OncePerDate(q) == \A day, other \in served[q] : day.date = other.date => day = other

Covered ==
  /\ \A t \in Tasks : phase[t] \in {"settled", "stored"} => outcome[t].date = key[t][2]
  /\ \A q \in Queries : status[q] # "idle" => OncePerDate(q)
  /\ \A q \in Queries : status[q] = "done" => Received(q) = ask[q].first..ask[q].last
  /\ \A q \in Queries : status[q] = "open" =>
       /\ \A t \in awaits[q] : phase[t] # "idle" /\ key[t][1] = ask[q].route
       /\ Received(q) \cup Promised(q) = ask[q].first..(ask[q].next - 1)
       /\ Received(q) \cap Promised(q) = {}

LEMMA CoveredInit == Init => Covered
BY DEF Init, Covered

\* Two promises a query holds are of two of its dates.
LEMMA PromisesDiffer ==
  ASSUME Base, Covered, NEW q \in Queries, status[q] = "open",
         NEW t \in Tasks, NEW u \in Tasks, t \in awaits[q], u \in awaits[q], t # u
  PROVE  key[t][2] # key[u][2]
<1>1. phase[t] # "idle" /\ phase[u] # "idle" /\ key[t][1] = key[u][1]
  BY DEF Covered
<1>2. key[t] \in Keys /\ key[u] \in Keys /\ key[t] # key[u]
  BY <1>1 DEF Base, SingleFlight, TypeInv, TaskData
<1> QED BY <1>1, <1>2 DEF Keys

\* A step of the tasks alone: they stay alive, and what settles has its date.
LEMMA CoveredTasks ==
  ASSUME Covered, UNCHANGED <<key, status, ask, served, awaits>>,
         \A t \in Tasks : /\ phase[t] # "idle" => phase'[t] # "idle"
                          /\ phase'[t] \in {"settled", "stored"} =>
                               \/ phase[t] \in {"settled", "stored"} /\ outcome'[t] = outcome[t]
                               \/ outcome'[t].date = key[t][2],
         TypeOK
  PROVE  Covered'
<1>1. \A t \in Tasks : phase'[t] \in {"settled", "stored"} => outcome'[t].date = key'[t][2]
  BY DEF Covered
<1>2. \A q \in Queries : \A t \in awaits[q] : t \in Tasks
  BY DEF TypeOK
<1>3. \A q \in Queries : /\ OncePerDate(q)' <=> OncePerDate(q)
                         /\ Received(q)' = Received(q) /\ Promised(q)' = Promised(q)
  BY DEF OncePerDate, Received, Promised
<1> QED BY <1>1, <1>2, <1>3 DEF Covered

\* A promise that is delivered gives the query the day of its date.
LEMMA CoveredDeliver ==
  ASSUME Base, QueryShape, Covered, NEW t \in Tasks, Deliver(t) PROVE Covered'
<1>0. TypeOK /\ TaskData /\ SingleFlight
  BY DEF Base, TypeInv
<1>1. /\ phase[t] = "stored" /\ UNCHANGED <<status, ask>>
      /\ phase' = [phase EXCEPT ![t] = "idle"] /\ key' = [key EXCEPT ![t] = None]
      /\ outcome' = [outcome EXCEPT ![t] = None]
      /\ \A q \in Queries :
           /\ served'[q] = IF t \in awaits[q] THEN served[q] \cup {outcome[t]} ELSE served[q]
           /\ awaits'[q] = awaits[q] \ {t} /\ awaits[q] \subseteq Tasks
  BY <1>0 DEF Deliver, TypeOK
<1>2. outcome[t].date = key[t][2]
  BY <1>1 DEF Covered
<1>3. \A u \in Tasks \ {t} : phase'[u] = phase[u] /\ key'[u] = key[u] /\ outcome'[u] = outcome[u]
  BY <1>0, <1>1 DEF TypeOK
<1>4. \A u \in Tasks : phase'[u] \in {"settled", "stored"} => outcome'[u].date = key'[u][2]
  BY <1>0, <1>1, <1>3 DEF Covered, TypeOK
<1>5. ASSUME NEW q \in Queries, t \notin awaits[q]
      PROVE  served'[q] = served[q] /\ awaits'[q] = awaits[q] /\ Promised(q)' = Promised(q)
  <2>1. served'[q] = served[q] /\ awaits'[q] = awaits[q]
    BY <1>1, <1>5
  <2>2. \A u \in awaits[q] : key'[u] = key[u]
    BY <1>1, <1>3, <1>5
  <2> QED BY <2>1, <2>2 DEF Promised
<1>6. ASSUME NEW q \in Queries, t \in awaits[q]
      PROVE  /\ status[q] = "open"
             /\ served'[q] = served[q] \cup {outcome[t]}
             /\ Received(q)' = Received(q) \cup {key[t][2]}
             /\ Promised(q)' = Promised(q) \ {key[t][2]}
             /\ key[t][2] \in Promised(q)
  <2>1. status[q] = "open"
    BY <1>6 DEF QueryShape
  <2>2. Received(q)' = Received(q) \cup {key[t][2]}
    <3>1. served'[q] = served[q] \cup {outcome[t]}
      BY <1>1, <1>6
    <3> QED BY <1>2, <3>1 DEF Received
  <2>3. \A u \in awaits[q] \ {t} : key'[u] = key[u] /\ key[u][2] # key[t][2]
    <3> SUFFICES ASSUME NEW u \in awaits[q] \ {t} PROVE key'[u] = key[u] /\ key[u][2] # key[t][2]
      OBVIOUS
    <3>1. u \in Tasks \ {t}
      BY <1>1
    <3> QED BY <1>3, <1>6, <2>1, <3>1, PromisesDiffer
  <2>4. Promised(q)' = Promised(q) \ {key[t][2]} /\ key[t][2] \in Promised(q)
    <3>1. awaits'[q] = awaits[q] \ {t}
      BY <1>1
    <3> QED BY <1>6, <2>3, <3>1 DEF Promised
  <2> QED BY <1>1, <1>6, <2>1, <2>2, <2>4
<1>7. ASSUME NEW q \in Queries, status'[q] # "idle" PROVE OncePerDate(q)'
  <2>1. CASE t \notin awaits[q]
    BY <1>1, <1>5, <1>7, <2>1 DEF Covered, OncePerDate
  <2>2. CASE t \in awaits[q]
    <3>1. \A day \in served[q] : day.date # outcome[t].date
      BY <1>2, <1>6, <2>2 DEF Covered, Received
    <3> QED BY <1>1, <1>6, <1>7, <2>2, <3>1 DEF Covered, OncePerDate
  <2> QED BY <2>1, <2>2
<1>8. ASSUME NEW q \in Queries, status'[q] = "done"
      PROVE  Received(q)' = ask'[q].first..ask'[q].last
  <2>1. served'[q] = served[q]
    BY <1>1, <1>5, <1>6, <1>8
  <2> QED BY <1>1, <1>8, <2>1 DEF Covered, Received
<1>9. ASSUME NEW q \in Queries, status'[q] = "open"
      PROVE  /\ \A u \in awaits'[q] : phase'[u] # "idle" /\ key'[u][1] = ask'[q].route
             /\ Received(q)' \cup Promised(q)' = ask'[q].first..(ask'[q].next - 1)
             /\ Received(q)' \cap Promised(q)' = {}
  <2>1. \A u \in awaits'[q] : phase'[u] # "idle" /\ key'[u][1] = ask'[q].route
    <3> SUFFICES ASSUME NEW u \in awaits'[q] PROVE phase'[u] # "idle" /\ key'[u][1] = ask'[q].route
      OBVIOUS
    <3>1. u \in awaits[q] /\ u \in Tasks \ {t}
      BY <1>1
    <3>2. phase'[u] = phase[u] /\ key'[u] = key[u]
      BY <1>3, <3>1
    <3> QED BY <1>1, <1>9, <3>1, <3>2 DEF Covered
  <2>2. CASE t \notin awaits[q]
    <3>1. Received(q)' = Received(q) /\ Promised(q)' = Promised(q)
      BY <1>5, <2>2 DEF Received
    <3> QED BY <1>1, <1>9, <2>1, <3>1 DEF Covered
  <2>3. CASE t \in awaits[q]
    <3>1. /\ Received(q)' = Received(q) \cup {key[t][2]}
          /\ Promised(q)' = Promised(q) \ {key[t][2]} /\ key[t][2] \in Promised(q)
      BY <1>6, <2>3
    <3> QED BY <1>1, <1>9, <2>1, <3>1 DEF Covered
  <2> QED BY <2>2, <2>3
<1> QED BY <1>4, <1>7, <1>8, <1>9 DEF Covered

\* A date of the loop adds the next date to what the query has or is promised.
LEMMA CoveredGetDay ==
  ASSUME Base, QueryShape, Covered, NEW q \in Queries, GetDay(q) PROVE Covered'
<1>0. TypeOK /\ TaskData
  BY DEF Base, TypeInv
<1> DEFINE n == ask[q].next
<1>1. /\ status[q] = "open" /\ UNCHANGED <<clock, status>> /\ ask[q] \in Ask /\ n \in Dates
      /\ \A p \in Queries \ {q} : ask'[p] = ask[p]
      /\ ask'[q].route = ask[q].route /\ ask'[q].next = n + 1 /\ ask'[q].first = ask[q].first
      /\ \/ \E day \in Result : NewDay(q, day)
         \/ \E t \in Tasks : OldPromise(q, t) \/ NewPromise(q, t)
  BY GetDayEffect
<1>2. /\ Received(q) \cup Promised(q) = ask[q].first..(n - 1)
      /\ Received(q) \cap Promised(q) = {}
      /\ n \notin Received(q) /\ n \notin Promised(q)
      /\ (ask[q].first..(n - 1)) \cup {n} = ask'[q].first..(ask'[q].next - 1)
  <2>1. n \in Nat /\ ask[q].first \in Nat /\ ask[q].first <= n
    BY <1>1 DEF Ask, Dates, QueryShape, Reached
  <2> QED BY <1>1, <2>1 DEF Covered
<1>4. ASSUME NEW day \in Result, NewDay(q, day) PROVE Covered'
  <2>1. /\ \A p \in Queries : served'[p] = IF p = q THEN served[q] \cup {day} ELSE served[p]
        /\ UNCHANGED <<phase, key, outcome, awaits>> /\ day.date = n
    BY <1>0, <1>4 DEF NewDay, TypeOK, taskVars
  <2>2. Received(q)' = Received(q) \cup {n} /\ \A p \in Queries : Promised(p)' = Promised(p)
    BY <2>1 DEF Received, Promised
  <2>3. \A p \in Queries \ {q} : Received(p)' = Received(p) /\ (OncePerDate(p)' <=> OncePerDate(p))
    BY <2>1 DEF Received, OncePerDate
  <2>4. OncePerDate(q)'
    BY <1>1, <1>2, <2>1 DEF Covered, OncePerDate, Received
  <2>5. \A t \in Tasks : phase'[t] \in {"settled", "stored"} => outcome'[t].date = key'[t][2]
    BY <2>1 DEF Covered
  <2>6. /\ \A t \in awaits'[q] : phase'[t] # "idle" /\ key'[t][1] = ask'[q].route
        /\ Received(q)' \cup Promised(q)' = ask'[q].first..(ask'[q].next - 1)
        /\ Received(q)' \cap Promised(q)' = {}
    BY <1>1, <1>2, <2>1, <2>2 DEF Covered
  <2>7. /\ \A p \in Queries : status'[p] # "idle" => OncePerDate(p)'
        /\ \A p \in Queries : status'[p] = "done" => Received(p)' = ask'[p].first..ask'[p].last
        /\ \A p \in Queries \ {q} : status'[p] = "open" =>
             /\ \A t \in awaits'[p] : phase'[t] # "idle" /\ key'[t][1] = ask'[p].route
             /\ Received(p)' \cup Promised(p)' = ask'[p].first..(ask'[p].next - 1)
             /\ Received(p)' \cap Promised(p)' = {}
    BY <1>1, <2>1, <2>2, <2>3, <2>4 DEF Covered
  <2> QED BY <2>5, <2>6, <2>7 DEF Covered
<1>5. ASSUME NEW t \in Tasks, UNCHANGED served,
             awaits' = [awaits EXCEPT ![q] = @ \cup {t}],
             phase'[t] # "idle", key'[t] = <<ask[q].route, n>>,
             \A u \in Tasks : phase'[u] \in {"settled", "stored"} => outcome'[u].date = key'[u][2],
             \A u \in Tasks : phase[u] # "idle" => phase'[u] # "idle" /\ key'[u] = key[u]
      PROVE  Covered'
  <2>1. \A p \in Queries : /\ awaits'[p] = IF p = q THEN awaits[q] \cup {t} ELSE awaits[p]
                           /\ awaits[p] \subseteq Tasks
    BY <1>0, <1>5 DEF TypeOK
  <2>2. \A p \in Queries : status[p] = "open" =>
          \A u \in awaits[p] : phase'[u] # "idle" /\ key'[u] = key[u]
    BY <1>5, <2>1 DEF Covered
  <2>3. \A p \in Queries : Received(p)' = Received(p) /\ (OncePerDate(p)' <=> OncePerDate(p))
    BY <1>5 DEF Received, OncePerDate
  <2>4. \A p \in Queries \ {q} : status[p] = "open" => Promised(p)' = Promised(p)
    BY <2>1, <2>2 DEF Promised
  <2>5. Promised(q)' = Promised(q) \cup {n}
    BY <1>1, <1>5, <2>1, <2>2 DEF Promised
  <2>6. /\ \A u \in awaits'[q] : phase'[u] # "idle" /\ key'[u][1] = ask'[q].route
        /\ Received(q)' \cup Promised(q)' = ask'[q].first..(ask'[q].next - 1)
        /\ Received(q)' \cap Promised(q)' = {}
    BY <1>1, <1>2, <1>5, <2>1, <2>2, <2>3, <2>5 DEF Covered
  <2>7. \A p \in Queries \ {q} : status'[p] = "open" =>
             /\ \A u \in awaits'[p] : phase'[u] # "idle" /\ key'[u][1] = ask'[p].route
             /\ Received(p)' \cup Promised(p)' = ask'[p].first..(ask'[p].next - 1)
             /\ Received(p)' \cap Promised(p)' = {}
    BY <1>1, <2>1, <2>2, <2>3, <2>4 DEF Covered
  <2>8. /\ \A p \in Queries : status'[p] # "idle" => OncePerDate(p)'
        /\ \A p \in Queries : status'[p] = "done" => Received(p)' = ask'[p].first..ask'[p].last
    BY <1>1, <2>3 DEF Covered
  <2> QED BY <1>5, <2>6, <2>7, <2>8 DEF Covered
<1>6. ASSUME NEW t \in Tasks, OldPromise(q, t) PROVE Covered'
  BY <1>5, <1>6 DEF OldPromise, taskVars, Covered
<1>7. ASSUME NEW t \in Tasks, NewPromise(q, t) PROVE Covered'
  <2>1. /\ UNCHANGED served /\ awaits' = [awaits EXCEPT ![q] = @ \cup {t}]
        /\ phase[t] = "idle" /\ phase'[t] # "idle" /\ key'[t] = <<ask[q].route, n>>
        /\ \A u \in Tasks \ {t} : key'[u] = key[u] /\ outcome'[u] = outcome[u]
        /\ \A u \in Tasks \ {t} :
             phase'[u] = phase[u] \/ (phase[u] = "queued" /\ phase'[u] = "handed")
        /\ phase'[t] \in {"settled", "stored"} => outcome'[t].date = n
    BY <1>0, <1>7 DEF NewPromise, TypeOK
  <2>2. \A u \in Tasks : phase'[u] \in {"settled", "stored"} => outcome'[u].date = key'[u][2]
    BY <2>1 DEF Covered
  <2>3. \A u \in Tasks : phase[u] # "idle" => phase'[u] # "idle" /\ key'[u] = key[u]
    BY <2>1
  <2> QED BY <1>5, <2>1, <2>2, <2>3
<1> QED BY <1>1, <1>4, <1>6, <1>7

LEMMA CoveredStep == Base /\ QueryShape /\ Covered /\ [Next]_vars => Covered'
<1> SUFFICES ASSUME Base, QueryShape, Covered, [Next]_vars PROVE Covered'
  OBVIOUS
<1>0. SlotsOK /\ TypeInv /\ TypeOK
  BY DEF Base, TypeInv
<1>1. ASSUME UNCHANGED <<taskVars, status, ask, served, awaits>> PROVE Covered'
  BY <1>0, <1>1, CoveredTasks DEF taskVars
<1>2. ASSUME NEW t \in Tasks, Resume(t) PROVE Covered'
  <2>1. /\ UseSlot(t, key[t][2], active) /\ UNCHANGED <<key, status, ask, served, awaits>>
    BY <1>2 DEF Resume, queryVars
  <2>2. /\ phase'[t] \in {"calling", "settled"}
        /\ phase'[t] = "settled" => outcome'[t] = Day(key[t][2], "budget-exceeded")
        /\ \A u \in Tasks \ {t} :
              /\ outcome'[u] = outcome[u]
              /\ (phase'[u] = phase[u] \/ (phase[u] = "queued" /\ phase'[u] = "handed"))
    BY <1>0, <2>1, UseSlotTasks
  <2>3. phase'[t] = "settled" => outcome'[t].date = key[t][2]
    BY <2>2 DEF Day
  <2> QED BY <1>0, <2>1, <2>2, <2>3, CoveredTasks
<1>3. ASSUME NEW t \in Tasks, ProviderReturns(t) PROVE Covered'
  <2>1. PICK issue \in FetchIssues : Settle(t, key[t][2], issue, active)
    BY <1>3 DEF ProviderReturns
  <2>2. UNCHANGED <<key, status, ask, served, awaits>>
    BY <1>3 DEF ProviderReturns, queryVars
  <2>3. outcome'[t].date = key[t][2]
    BY <1>0, <2>1 DEF Settle, Day, TypeOK
  <2>4. /\ phase'[t] # "idle"
        /\ \A u \in Tasks : u # t => /\ outcome'[u] = outcome[u]
                                    /\ (phase'[u] = phase[u] \/ phase'[u] = "handed")
    BY <1>0, <2>1, FirstWaiter DEF Settle, ReleaseSlot, TypeOK
  <2> QED BY <1>0, <2>2, <2>3, <2>4, CoveredTasks
<1>4. ASSUME NEW t \in Tasks, StoreDay(t) PROVE Covered'
  BY <1>0, <1>4, CoveredTasks DEF StoreDay, queryVars, TypeOK
<1>5. ASSUME NEW q \in Queries, Query(q) PROVE Covered'
  <2>1. /\ status[q] # "open" /\ UNCHANGED <<taskVars, awaits>> /\ awaits[q] = {}
        /\ \A p \in Queries \ {q} : ask'[p] = ask[p]
        /\ ask'[q] \in Ask /\ ask'[q].next = ask'[q].first
        /\ \/ Refuse(q, ask'[q].first, ask'[q].last)
           \/ Accept(q, ask'[q].first, ask'[q].last)
    BY <1>0, <1>5, QueryAsks DEF QueryShape
  <2>2. \A p \in Queries \ {q} : served'[p] = served[p] /\ status'[p] = status[p]
    BY <1>0, <2>1 DEF Refuse, Accept, TypeOK
  <2>3. /\ status'[q] # "idle" => OncePerDate(q)'
        /\ status'[q] = "done" => Received(q)' = ask'[q].first..ask'[q].last
        /\ status'[q] = "open" => Received(q)' \cup Promised(q)' = ask'[q].first..(ask'[q].next - 1)
    <3>1. CASE Accept(q, ask'[q].first, ask'[q].last)
      <4>1. status'[q] = "open" /\ served'[q] = {} /\ awaits'[q] = {}
        BY <1>0, <2>1, <3>1 DEF Accept, TypeOK
      <4>2. ask'[q].first..(ask'[q].next - 1) = {}
        BY <2>1 DEF Ask, Dates
      <4> QED BY <4>1, <4>2 DEF OncePerDate, Received, Promised
    <3>2. CASE Refuse(q, ask'[q].first, ask'[q].last)
      <4>1. /\ status'[q] = "done"
            /\ served'[q] = {Day(d, "budget-exceeded") : d \in ask'[q].first..ask'[q].last}
        BY <1>0, <3>2 DEF Refuse, TypeOK
      <4>2. \A d : Day(d, "budget-exceeded").date = d
        BY DEF Day
      <4> QED BY <4>1, <4>2 DEF OncePerDate, Received
    <3> QED BY <2>1, <3>1, <3>2
  <2>4. /\ \A t \in Tasks : phase'[t] \in {"settled", "stored"} => outcome'[t].date = key'[t][2]
        /\ \A p \in Queries \ {q} : /\ (OncePerDate(p)' <=> OncePerDate(p))
                                    /\ Received(p)' = Received(p) /\ Promised(p)' = Promised(p)
    BY <2>1, <2>2 DEF Covered, OncePerDate, Received, Promised, taskVars
  <2>5. awaits'[q] = {} /\ Promised(q)' = {}
    BY <2>1 DEF Promised
  <2>6. /\ \A p \in Queries : status'[p] # "idle" => OncePerDate(p)'
        /\ \A p \in Queries : status'[p] = "done" => Received(p)' = ask'[p].first..ask'[p].last
    BY <2>1, <2>2, <2>3, <2>4 DEF Covered
  <2>7. \A p \in Queries : status'[p] = "open" =>
             /\ \A u \in awaits'[p] : phase'[u] # "idle" /\ key'[u][1] = ask'[p].route
             /\ Received(p)' \cup Promised(p)' = ask'[p].first..(ask'[p].next - 1)
             /\ Received(p)' \cap Promised(p)' = {}
    <3> SUFFICES ASSUME NEW p \in Queries, status'[p] = "open"
                 PROVE  /\ \A u \in awaits'[p] : phase'[u] # "idle" /\ key'[u][1] = ask'[p].route
                        /\ Received(p)' \cup Promised(p)' = ask'[p].first..(ask'[p].next - 1)
                        /\ Received(p)' \cap Promised(p)' = {}
      OBVIOUS
    <3>1. CASE p = q
      BY <2>3, <2>5, <3>1 DEF Received, Promised
    <3>2. CASE p # q
      BY <2>1, <2>2, <2>4, <3>2 DEF Covered, taskVars
    <3> QED BY <3>1, <3>2
  <2> QED BY <2>4, <2>6, <2>7 DEF Covered
<1>6. ASSUME NEW q \in Queries, Respond(q) PROVE Covered'
  <2>1. /\ running = None /\ status[q] = "open" /\ awaits[q] = {}
        /\ UNCHANGED <<taskVars, ask, awaits, served>>
        /\ \A p \in Queries : status'[p] = IF p = q THEN "done" ELSE status[p]
    BY <1>0, <1>6 DEF Respond, TypeOK
  <2>2. ask[q].next = ask[q].last + 1 /\ ask[q].last \in Nat
    BY <2>1, GatewayAssumption DEF QueryShape, Reached, Ask, Dates
  <2>3. Received(q) = ask[q].first..ask[q].last
    <3>1. Promised(q) = {} /\ Received(q) \cup Promised(q) = ask[q].first..(ask[q].next - 1)
      BY <2>1 DEF Covered, Promised
    <3>2. ask[q].next - 1 = ask[q].last
      BY <2>2
    <3> QED BY <3>1, <3>2
  <2>4. \A p \in Queries : /\ (OncePerDate(p)' <=> OncePerDate(p))
                           /\ Received(p)' = Received(p) /\ Promised(p)' = Promised(p)
    BY <2>1 DEF OncePerDate, Received, Promised, taskVars
  <2> QED BY <2>1, <2>3, <2>4 DEF Covered, taskVars
<1>7. Tick \/ UNCHANGED vars => Covered'
  BY <1>1 DEF Tick, vars, queryVars
<1> QED BY <1>2, <1>3, <1>4, <1>5, <1>6, <1>7, CoveredDeliver, CoveredGetDay DEF Next

\* A response has one day for each date asked for, and no other.
THEOREM ResponsesAreExact == Spec => []ExactResponse
<1>1. QueryShape /\ Covered /\ TypeOK => ExactResponse
  <2> SUFFICES ASSUME QueryShape, Covered, TypeOK, NEW q \in Queries, status[q] = "done"
               PROVE  /\ {day.date : day \in served[q]} = ask[q].first..ask[q].last
                      /\ Cardinality(served[q]) = ask[q].last - ask[q].first + 1
    BY DEF ExactResponse
  <2> DEFINE D == ask[q].first..ask[q].last
             f == [day \in served[q] |-> day.date]
  <2>1. Received(q) = D /\ OncePerDate(q)
    BY DEF Covered
  <2>2. ask[q].first \in Nat /\ ask[q].last \in Nat /\ ask[q].first <= ask[q].last
    BY DEF QueryShape, Ask, Dates
  <2>3. IsFiniteSet(D) /\ Cardinality(D) = ask[q].last - ask[q].first + 1
    <3>1. ask[q].first \in Int /\ ask[q].last \in Int /\ ~(ask[q].first > ask[q].last)
      BY <2>2
    <3> QED BY <3>1, FS_Interval
  <2>4. f \in Bijection(served[q], D)
    <3>1. f \in [served[q] -> D] /\ \A d \in D : \E day \in served[q] : f[day] = d
      BY <2>1 DEF Received
    <3>2. \A a, b \in served[q] : f[a] = f[b] => a = b
      BY <2>1 DEF OncePerDate
    <3> QED BY <3>1, <3>2 DEF Bijection, Injection, Surjection, IsInjective
  <2>5. Cardinality(served[q]) = Cardinality(D)
    <3>1. ExistsBijection(D, served[q])
      BY <2>4, Fun_ExistsBij, Fun_ExistsBijSymmetric
    <3> QED BY <2>3, <3>1, FS_Bijection
  <2> QED BY <2>1, <2>3, <2>5 DEF Received
<1> QED BY <1>1, BaseInit, BaseStep, ShapeInit, ShapeStep, CoveredInit, CoveredStep, PTL
        DEF Spec, Base, TypeInv

-----------------------------------------------------------------------------
\* A loop that was let in has room for the dates it has left.
Room ==
  /\ IsFiniteSet(Pending) /\ Cardinality(Pending) <= PendingCap
  /\ \A q \in Queries : running = q =>
       Cardinality(Pending) + (ask[q].last - ask[q].next + 1) <= PendingCap

LEMMA RoomInit == Init => Room
<1> SUFFICES ASSUME Init PROVE Room
  OBVIOUS
<1>1. Pending = {} /\ \A q \in Queries : running # q
  BY GatewayAssumption DEF Init, Pending
<1> QED BY <1>1, FS_EmptySet, GatewayAssumption DEF Room

LEMMA RoomStep == Base /\ QueryShape /\ Room /\ [Next]_vars => Room'
<1> SUFFICES ASSUME Base, QueryShape, Room, [Next]_vars PROVE Room'
  OBVIOUS
<1>0. TypeOK /\ TypeInv /\ TaskData /\ LoopData
  BY DEF Base, TypeInv
<1>n. Cardinality(Pending) \in Nat
  BY FS_CardinalityType DEF Room
<1>1. ASSUME UNCHANGED <<pending, running, ask>> PROVE Room'
  BY <1>1 DEF Room, Pending
<1>2. ASSUME NEW t \in Tasks, Resume(t) \/ ProviderReturns(t) \/ StoreDay(t) PROVE Room'
  BY <1>1, <1>2 DEF Resume, ProviderReturns, StoreDay, queryVars
<1>3. ASSUME NEW t \in Tasks, Deliver(t) PROVE Room'
  <2>1. /\ running = None /\ UNCHANGED running
        /\ pending' = [pending EXCEPT ![key[t]] = None]
    BY <1>3 DEF Deliver
  <2>2. Pending' \subseteq Pending
    BY <1>0, <2>1 DEF Pending, TypeOK
  <2>3. IsFiniteSet(Pending') /\ Cardinality(Pending') <= Cardinality(Pending)
    BY <2>2, FS_Subset DEF Room
  <2>4. Cardinality(Pending') \in Nat
    BY <2>3, FS_CardinalityType
  <2> QED BY <1>n, <2>1, <2>3, <2>4, GatewayAssumption DEF Room
<1>4. ASSUME NEW q \in Queries, Query(q) PROVE Room'
  <2>1. /\ UNCHANGED pending /\ Pending' = Pending
        /\ ask'[q].next = ask'[q].first /\ ask'[q] \in Ask
        /\ \/ running' = None
           \/ Accept(q, ask'[q].first, ask'[q].last) /\ running' = q
    BY <1>0, <1>4, QueryAsks DEF Pending
  <2>2. CASE running' = None
    BY <2>1, <2>2, GatewayAssumption DEF Room
  <2>3. CASE Accept(q, ask'[q].first, ask'[q].last) /\ running' = q
    <3>1. ~(Cardinality(Pending) + (ask'[q].last - ask'[q].first + 1) > PendingCap)
      BY <2>3 DEF Accept, TooMuchWork
    <3>2. ask'[q].first \in Nat /\ ask'[q].last \in Nat
      BY <2>1 DEF Ask, Dates
    <3>3. Cardinality(Pending) + (ask'[q].last - ask'[q].next + 1) <= PendingCap
      BY <1>n, <2>1, <3>1, <3>2, GatewayAssumption
    <3> QED BY <2>1, <2>3, <3>3 DEF Room
  <2> QED BY <2>1, <2>2, <2>3
<1>5. ASSUME NEW q \in Queries, GetDay(q) PROVE Room'
  <2>1. /\ running = q /\ ask[q] \in Ask /\ ask[q].next \in Dates /\ ask[q].next <= ask[q].last
        /\ ask'[q].next = ask[q].next + 1 /\ ask'[q].last = ask[q].last
        /\ running' \in {None, q}
        /\ \/ \E day \in Result : NewDay(q, day)
           \/ \E t \in Tasks : OldPromise(q, t) \/ NewPromise(q, t)
    BY <1>5, GetDayEffect
  <2>2. /\ ask[q].next \in Nat /\ ask[q].last \in Nat
        /\ Cardinality(Pending) + (ask[q].last - ask[q].next + 1) <= PendingCap
    BY <2>1 DEF Room, Ask, Dates
  <2>3. IsFiniteSet(Pending') /\ Cardinality(Pending') <= Cardinality(Pending) + 1
    <3>1. CASE UNCHANGED pending
      <4>1. Pending' = Pending
        BY <3>1 DEF Pending
      <4> QED BY <1>n, <4>1 DEF Room
    <3>2. ASSUME NEW t \in Tasks, NewPromise(q, t)
          PROVE  IsFiniteSet(Pending') /\ Cardinality(Pending') <= Cardinality(Pending) + 1
      <4> DEFINE k == <<ask[q].route, ask[q].next>>
      <4>1. Pending' \subseteq Pending \cup {k}
        BY <1>0, <3>2 DEF NewPromise, Pending, TypeOK
      <4> HIDE DEF k
      <4>2. /\ IsFiniteSet(Pending \cup {k})
            /\ Cardinality(Pending \cup {k}) <= Cardinality(Pending) + 1
            /\ Cardinality(Pending \cup {k}) \in Nat
        <5>1. IsFiniteSet(Pending)
          BY DEF Room
        <5>2. /\ IsFiniteSet(Pending \cup {k})
              /\ \/ Cardinality(Pending \cup {k}) = Cardinality(Pending)
                 \/ Cardinality(Pending \cup {k}) = Cardinality(Pending) + 1
          BY <5>1, FS_AddElement
        <5> QED BY <1>n, <5>2
      <4>3. /\ IsFiniteSet(Pending') /\ Cardinality(Pending') \in Nat
            /\ Cardinality(Pending') <= Cardinality(Pending \cup {k})
        BY <4>1, <4>2, FS_Subset, FS_CardinalityType
      <4> QED BY <1>n, <4>2, <4>3
    <3> QED BY <2>1, <3>1, <3>2 DEF NewDay, OldPromise
  <2>4. Cardinality(Pending') \in Nat
    BY <2>3, FS_CardinalityType
  <2>5. /\ Cardinality(Pending') <= PendingCap
        /\ Cardinality(Pending') + (ask'[q].last - ask'[q].next + 1) <= PendingCap
    BY <1>n, <2>1, <2>2, <2>3, <2>4, GatewayAssumption
  <2> QED BY <2>1, <2>3, <2>5, GatewayAssumption DEF Room
<1>6. Tick \/ (\E q \in Queries : Respond(q)) \/ UNCHANGED vars => Room'
  BY <1>1 DEF Tick, Respond, vars, queryVars
<1> QED BY <1>2, <1>3, <1>4, <1>5, <1>6 DEF Next

\* The cache keeps one entry per key, and at most CacheCap.
OneEntryPerKey ==
  /\ Len(cache) <= CacheCap
  /\ \A i, j \in DOMAIN cache : cache[i].key = cache[j].key => i = j

LEMMA CacheSetKeepsBounds ==
  ASSUME cache \in Seq(Entry), OneEntryPerKey, NEW entry \in Entry, cache' = CacheSet(entry)
  PROVE  OneEntryPerKey'
<1> DEFINE room == IF Len(cache) >= CacheCap THEN Tail(cache) ELSE cache
<1>1. /\ room \in Seq(Entry) /\ Len(room) \in Nat /\ Len(room) < CacheCap
      /\ \A i, j \in 1..Len(room) : room[i].key = room[j].key => i = j
  <2>1. /\ Len(cache) \in Nat /\ Len(cache) <= CacheCap
        /\ \A i, j \in 1..Len(cache) : cache[i].key = cache[j].key => i = j
    BY DEF OneEntryPerKey
  <2>2. CASE Len(cache) >= CacheCap
    <3>1. cache # <<>>
      BY <2>2, GatewayAssumption
    <3>2. /\ Tail(cache) \in Seq(Entry) /\ Len(Tail(cache)) = Len(cache) - 1
          /\ \A i \in 1..Len(Tail(cache)) : Tail(cache)[i] = cache[i + 1]
      BY <3>1
    <3>3. ASSUME NEW i \in 1..Len(Tail(cache)), NEW j \in 1..Len(Tail(cache)),
                 Tail(cache)[i].key = Tail(cache)[j].key
          PROVE  i = j
      <4>1. i + 1 \in 1..Len(cache) /\ j + 1 \in 1..Len(cache)
        BY <2>1, <3>2
      <4>2. cache[i + 1].key = cache[j + 1].key
        BY <3>2, <3>3
      <4>3. i + 1 = j + 1
        BY <2>1, <4>1, <4>2
      <4> QED BY <4>3
    <3> QED BY <2>1, <2>2, <3>2, <3>3, GatewayAssumption
  <2>3. CASE ~(Len(cache) >= CacheCap)
    BY <2>1, <2>3, GatewayAssumption
  <2> QED BY <2>2, <2>3
<1> HIDE DEF room
<1>2. DOMAIN room = 1..Len(room)
  BY <1>1
<1>3. CASE \E i \in DOMAIN room : room[i].key = entry.key
  <2>1. cache' = [i \in DOMAIN room |-> IF room[i].key = entry.key THEN entry ELSE room[i]]
    BY <1>3 DEF CacheSet, room
  <2>2. /\ DOMAIN cache' = 1..Len(room) /\ cache' \in Seq(Entry)
        /\ \A i \in 1..Len(room) : cache'[i].key = room[i].key
    <3>1. /\ DOMAIN cache' = 1..Len(room)
          /\ \A i \in 1..Len(room) : cache'[i].key = room[i].key
      BY <1>2, <2>1
    <3> QED BY <3>1, CacheSetType
  <2>3. Len(cache') = Len(room)
    BY <1>1, <2>2
  <2> QED BY <1>1, <2>2, <2>3, GatewayAssumption DEF OneEntryPerKey
<1>4. CASE ~\E i \in DOMAIN room : room[i].key = entry.key
  <2>1. cache' = Append(room, entry)
    BY <1>4 DEF CacheSet, room
  <2>2. /\ Len(cache') = Len(room) + 1 /\ DOMAIN cache' = 1..Len(room) + 1
        /\ cache'[Len(room) + 1] = entry
        /\ \A i \in 1..Len(room) : cache'[i] = room[i]
    BY <1>1, <2>1
  <2>3. \A i \in 1..Len(room) : cache'[i].key # entry.key
    BY <1>2, <1>4, <2>2
  <2>4. ASSUME NEW i \in 1..Len(room) + 1, NEW j \in 1..Len(room) + 1,
               cache'[i].key = cache'[j].key
        PROVE  i = j
    <3>1. (i \in 1..Len(room) \/ i = Len(room) + 1) /\ (j \in 1..Len(room) \/ j = Len(room) + 1)
      BY <1>1
    <3> QED BY <1>1, <2>2, <2>3, <2>4, <3>1
  <2> QED BY <1>1, <2>2, <2>4, GatewayAssumption DEF OneEntryPerKey
<1> QED BY <1>3, <1>4

LEMMA CacheStep == Base /\ OneEntryPerKey /\ [Next]_vars => OneEntryPerKey'
<1> SUFFICES ASSUME Base, OneEntryPerKey, [Next]_vars PROVE OneEntryPerKey'
  OBVIOUS
<1>0. TypeOK /\ TaskData
  BY DEF Base, TypeInv
<1>1. ASSUME NEW t \in Tasks, StoreDay(t) PROVE OneEntryPerKey'
  <2> DEFINE entry == [key |-> key[t], issue |-> outcome[t].issue, at |-> outcome[t].at]
  <2>1. cache \in Seq(Entry) /\ entry \in Entry
    BY <1>0, <1>1 DEF StoreDay, TaskData, Result, Entry, TypeOK
  <2>2. cache' = CacheSet(entry)
    BY <1>1 DEF StoreDay
  <2> HIDE DEF entry
  <2> QED BY <2>1, <2>2, CacheSetKeepsBounds
<1>2. CASE UNCHANGED cache
  BY <1>2 DEF OneEntryPerKey
<1> QED BY <1>1, <1>2 DEF Next, Tick, Resume, ProviderReturns, Deliver, Query, GetDay, Respond, vars

\* Neither map outgrows its bound, although the check on the queue is made
\* once, before the loop that fills it.
THEOREM MemoryIsBounded == Spec => []BoundedMemory
<1>1. Init => OneEntryPerKey
  BY GatewayAssumption DEF Init, OneEntryPerKey
<1>2. Room /\ OneEntryPerKey => BoundedMemory
  BY DEF Room, OneEntryPerKey, BoundedMemory
<1> QED BY <1>1, <1>2, BaseInit, BaseStep, ShapeInit, ShapeStep, RoomInit, RoomStep, CacheStep,
           PTL DEF Spec, Base
=============================================================================
