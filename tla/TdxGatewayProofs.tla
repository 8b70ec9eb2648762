-------------------------- MODULE TdxGatewayProofs --------------------------
(***************************************************************************)
(* Theorems about TdxGateway, for every number of callers, airport pairs,  *)
(* tasks, slots, pages and token lifetimes: its slots, its types, its      *)
(* budget, its tokens, its maps and the snapshots it answers from.         *)
(***************************************************************************)
EXTENDS TdxGateway, TLAPS, FiniteSetTheorems, SequenceTheorems

-----------------------------------------------------------------------------
(***************************************************************************)
(* The slots.                                                              *)
(***************************************************************************)

\* What the slot argument needs to know of the types.
SlotTypes ==
  /\ active \in Nat /\ waiters \in Seq(Tasks) /\ phase \in [Tasks -> Phases]

SlotsOK == SlotTypes /\ SlotAccounting

HoldingPhases == {"handed", "token", "armed", "asking", "returned", "denied"}
RestPhases == {"idle", "settled", "stored"}

LEMMA TasksFinite ==
  ASSUME NEW S \in SUBSET Tasks PROVE IsFiniteSet(S) /\ Cardinality(S) \in Nat
BY TdxAssumption, FS_Subset, FS_CardinalityType

LEMMA FirstWaiter ==
  ASSUME SlotsOK, waiters # <<>>
  PROVE  Head(waiters) \in Tasks /\ phase[Head(waiters)] = "queued"
<1>1. Head(waiters) = waiters[1] /\ 1 \in DOMAIN waiters /\ Head(waiters) \in Tasks
  BY DEF SlotsOK, SlotTypes
<1> QED BY <1>1 DEF SlotsOK, SlotAccounting

\* What a page's wait for a token, and the answer to it, do to the phases.
LEMMA GetTokenPhase ==
  ASSUME NEW t \in Tasks, NEW tok, GetToken(t, tok)
  PROVE  \E p \in {"armed", "token", "denied"} : phase' = [phase EXCEPT ![t] = p]
BY DEF GetToken, HaveToken, JoinToken, RequestToken, Deny

LEMMA TokenReturnsPhase ==
  ASSUME SlotTypes, NEW t \in Tasks, TokenReturns(t)
  PROVE  /\ phase' \in [Tasks -> Phases]
         /\ \E p \in {"armed", "denied"} :
              \A u \in Tasks : phase'[u] = IF phase[u] = "token" THEN p ELSE phase[u]
<1>1. \E p \in {"armed", "denied"} :
        phase' = [u \in Tasks |-> IF u \in {v \in Tasks : phase[v] = "token"} THEN p ELSE phase[u]]
  BY DEF TokenReturns
<1> QED BY <1>1 DEF SlotTypes, Phases

\* A task that gives up its slot settles, and the first waiter has it.
LEMMA ReleasePhase ==
  ASSUME SlotsOK, NEW t \in Tasks, phase[t] # "queued", ReleaseSlot(t)
  PROVE  /\ phase'[t] = "settled"
         /\ \A u \in Tasks \ {t} :
              phase'[u] = phase[u] \/ (phase[u] = "queued" /\ phase'[u] = "handed")
BY FirstWaiter DEF ReleaseSlot, SlotsOK, SlotTypes

LEMMA ReleaseKeepsAccounts ==
  ASSUME SlotsOK, NEW t \in Tasks, phase[t] \in HoldingPhases, ReleaseSlot(t)
  PROVE  SlotsOK'
<1> USE DEF SlotsOK
<1>0. t \in Holders /\ Holders \subseteq Tasks
  BY DEF Holders, HoldingPhases
<1>1. IsFiniteSet(Holders \ {t}) /\ Cardinality(Holders \ {t}) = active - 1 /\ active - 1 \in Nat
  <2>1. IsFiniteSet(Holders) /\ IsFiniteSet(Holders \ {t}) /\ Cardinality(Holders \ {t}) \in Nat
    BY <1>0, TasksFinite
  <2>2. Cardinality(Holders \ {t}) = Cardinality(Holders) - 1
    BY <1>0, <2>1, FS_RemoveElement
  <2> QED BY <2>1, <2>2 DEF SlotAccounting
<1>2. CASE waiters = <<>>
  <2>1. /\ active' = active - 1 /\ waiters' = waiters
        /\ phase' = [phase EXCEPT ![t] = "settled"]
    BY <1>2 DEF ReleaseSlot
  <2>2. Holders' = Holders \ {t}
    BY <2>1 DEF Holders, SlotTypes, Phases
  <2>3. {u \in Tasks : phase'[u] = "queued"} = {u \in Tasks : phase[u] = "queued"}
    BY <1>0, <2>1 DEF Holders, SlotTypes, Phases
  <2>4. SlotTypes'
    BY <1>1, <1>2, <2>1 DEF SlotTypes, Phases
  <2>5. active' = Cardinality(Holders') /\ active' <= Slots
    BY <1>1, <2>1, <2>2, TdxAssumption DEF SlotAccounting, SlotTypes
  <2> QED BY <1>2, <2>1, <2>3, <2>4, <2>5 DEF SlotAccounting
<1>3. CASE waiters # <<>>
  <2> DEFINE w == Head(waiters)
             n == Len(waiters)
  <2>1. /\ active' = active /\ waiters' = Tail(waiters)
        /\ phase' = [phase EXCEPT ![t] = "settled", ![w] = "handed"]
    BY <1>3 DEF ReleaseSlot
  <2>2. /\ w \in Tasks /\ w = waiters[1] /\ 1 \in DOMAIN waiters
        /\ waiters' \in Seq(Tasks) /\ Len(waiters') = n - 1
        /\ \A i \in 1..Len(waiters') : waiters'[i] = waiters[i + 1]
        /\ DOMAIN waiters = 1..n /\ DOMAIN waiters' = 1..Len(waiters')
        /\ n \in Nat /\ Len(waiters') \in Nat
    BY <1>3, <2>1 DEF SlotTypes
  <2>3. w # t /\ phase[w] = "queued"
    BY <1>0, <1>3, FirstWaiter DEF Holders
  <2>4. Holders' = (Holders \ {t}) \cup {w} /\ w \notin Holders \ {t}
    BY <2>1, <2>2, <2>3 DEF Holders, SlotTypes, Phases
  <2>5. Cardinality(Holders') = active
    <3> DEFINE others == Holders \ {t}
    <3>1. IsFiniteSet(others) /\ Cardinality(others) = active - 1 /\ w \notin others
      BY <1>1, <2>4
    <3>2. Cardinality(others \cup {w}) = Cardinality(others) + 1
      BY <3>1, FS_AddElement
    <3> QED BY <2>4, <3>1, <3>2 DEF SlotTypes
  <2>6. {u \in Tasks : phase'[u] = "queued"} = {u \in Tasks : phase[u] = "queued"} \ {w}
    BY <1>0, <2>1, <2>2, <2>3 DEF Holders, SlotTypes, Phases
  <2>d. \A i, j \in 1..n : waiters[i] = waiters[j] => i = j
    BY <2>2 DEF SlotAccounting
  <2>7. {waiters'[i] : i \in DOMAIN waiters'} = {waiters[i] : i \in DOMAIN waiters} \ {w}
    <3>1. ASSUME NEW i \in 1..n - 1 PROVE waiters[i + 1] # w /\ i + 1 \in 1..n
      BY <2>2, <2>d
    <3>2. ASSUME NEW i \in 1..n, waiters[i] # w PROVE i - 1 \in 1..n - 1 /\ waiters'[i - 1] = waiters[i]
      BY <2>2, <3>2
    <3>3. {waiters'[i] : i \in 1..n - 1} \subseteq {waiters[i] : i \in 1..n} \ {w}
      BY <2>2, <3>1
    <3>4. {waiters[i] : i \in 1..n} \ {w} \subseteq {waiters'[i] : i \in 1..n - 1}
      BY <3>2
    <3> QED BY <2>2, <3>3, <3>4
  <2>8. \A i, j \in DOMAIN waiters' : waiters'[i] = waiters'[j] => i = j
    <3> SUFFICES ASSUME NEW i \in 1..n - 1, NEW j \in 1..n - 1, waiters'[i] = waiters'[j]
                 PROVE  i = j
      BY <2>2
    <3>1. i + 1 \in 1..n /\ j + 1 \in 1..n /\ waiters[i + 1] = waiters[j + 1]
      BY <2>2
    <3>2. i + 1 = j + 1
      BY <3>1, <2>d
    <3> QED BY <3>2
  <2>9. SlotTypes'
    BY <2>1, <2>2 DEF SlotTypes, Phases
  <2>10. {waiters'[i] : i \in DOMAIN waiters'} = {u \in Tasks : phase'[u] = "queued"}
    BY <2>6, <2>7 DEF SlotAccounting
  <2>11. active' = Cardinality(Holders') /\ active' <= Slots /\ active' = Slots
    BY <1>3, <2>1, <2>5 DEF SlotAccounting
  <2> QED BY <2>8, <2>9, <2>10, <2>11 DEF SlotAccounting
<1> QED BY <1>2, <1>3

\* The books are the same when holders stay holders and the others that change
\* neither hold a slot nor wait for one.
LEMMA MovesKeepAccounts ==
  ASSUME SlotsOK, UNCHANGED slotVars, phase' \in [Tasks -> Phases],
         \A t \in Tasks : \/ phase'[t] = phase[t]
                         \/ {phase[t], phase'[t]} \subseteq HoldingPhases
                         \/ {phase[t], phase'[t]} \subseteq RestPhases
  PROVE  SlotsOK'
<1>1. Holders' = Holders
  BY DEF Holders, HoldingPhases, RestPhases
<1>2. {u \in Tasks : phase'[u] = "queued"} = {u \in Tasks : phase[u] = "queued"}
  BY DEF HoldingPhases, RestPhases
<1> QED BY <1>1, <1>2 DEF SlotsOK, SlotTypes, SlotAccounting, slotVars

LEMMA SlotsInit == Init => SlotsOK
<1> SUFFICES ASSUME Init PROVE SlotsOK
  OBVIOUS
<1>1. Holders = {} /\ {u \in Tasks : phase[u] = "queued"} = {}
  BY DEF Init, Holders
<1>2. waiters = <<>> /\ active = 0 /\ DOMAIN waiters = {}
  BY DEF Init
<1>3. SlotTypes
  BY DEF Init, SlotTypes, Phases
<1> QED BY <1>1, <1>2, <1>3, FS_EmptySet, TdxAssumption DEF SlotsOK, SlotAccounting

\* A new promise either waits in the queue or takes a free slot.
Queues(t) ==
  /\ ~SlotFree /\ waiters' = Append(waiters, t)
  /\ phase' = [phase EXCEPT ![t] = "queued"]
  /\ UNCHANGED <<budgetVars, active, tokenVars, access, result>>

Starts(t) ==
  SlotFree /\ active' = active + 1 /\ GetToken(t, token) /\ UNCHANGED <<waiters, token>>

LEMMA QueryCases ==
  ASSUME NEW q \in Queries, Query(q)
  PROVE  \/ UNCHANGED <<budgetVars, slotVars, tokenVars, route, access, phase, result, pending>>
         \/ \E r \in Routes, t \in Tasks :
              /\ Cached(r) = {} /\ pending[r] = None /\ ~TooManyRoutes /\ phase[t] = "idle"
              /\ pending' = [pending EXCEPT ![r] = t] /\ route' = [route EXCEPT ![t] = r]
              /\ Await(q, t)
              /\ Queues(t) \/ Starts(t)
BY DEF Query, OutOfRange, ServeCached, RefuseRoute, JoinRoute, StartRoute, AnswerNow, Queues, Starts

LEMMA StartKeepsAccounts ==
  ASSUME SlotsOK, NEW t \in Tasks, phase[t] = "idle", Queues(t) \/ Starts(t)
  PROVE  SlotsOK'
<1> USE DEF SlotsOK
<1>1. CASE Queues(t)
  <2>1. /\ ~SlotFree /\ waiters' = Append(waiters, t) /\ active' = active
        /\ phase' = [phase EXCEPT ![t] = "queued"]
    BY <1>1 DEF Queues
  <2>2. Holders' = Holders
    BY <2>1 DEF Holders, SlotTypes, Phases
  <2>3. /\ waiters' \in Seq(Tasks) /\ Len(waiters') = Len(waiters) + 1
        /\ waiters'[Len(waiters) + 1] = t
        /\ \A i \in 1..Len(waiters) : waiters'[i] = waiters[i]
    BY <2>1 DEF SlotTypes
  <2>4. {u \in Tasks : phase'[u] = "queued"} = {u \in Tasks : phase[u] = "queued"} \cup {t}
    BY <2>1 DEF SlotTypes, Phases
  <2>5. {waiters'[i] : i \in DOMAIN waiters'} = {waiters[i] : i \in DOMAIN waiters} \cup {t}
    BY <2>3 DEF SlotTypes
  <2>6. \A i \in DOMAIN waiters : waiters[i] # t
    BY DEF SlotAccounting
  <2>7. \A i, j \in DOMAIN waiters' : waiters'[i] = waiters'[j] => i = j
    BY <2>3, <2>6 DEF SlotTypes, SlotAccounting
  <2>8. active' = Slots
    BY <2>1, TdxAssumption DEF SlotFree, SlotTypes, SlotAccounting
  <2>9. SlotTypes'
    BY <2>1, <2>3 DEF SlotTypes, Phases
  <2>10. {waiters'[i] : i \in DOMAIN waiters'} = {u \in Tasks : phase'[u] = "queued"}
    BY <2>4, <2>5 DEF SlotAccounting
  <2> QED BY <2>1, <2>2, <2>7, <2>8, <2>9, <2>10 DEF SlotAccounting
<1>2. CASE Starts(t)
  <2>1. /\ active < Slots /\ active' = active + 1 /\ waiters' = waiters
        /\ \E p \in {"armed", "token", "denied"} : phase' = [phase EXCEPT ![t] = p]
    BY <1>2, GetTokenPhase DEF Starts, SlotFree
  <2>2. waiters = <<>>
    BY <2>1, TdxAssumption DEF SlotAccounting, SlotTypes
  <2>3. Holders' = Holders \cup {t} /\ t \notin Holders
    BY <2>1 DEF Holders, SlotTypes, Phases
  <2>4. Cardinality(Holders') = active + 1
    <3>1. IsFiniteSet(Holders)
      BY TasksFinite DEF Holders
    <3> QED BY <2>3, <3>1, FS_AddElement DEF SlotAccounting
  <2>5. {u \in Tasks : phase'[u] = "queued"} = {u \in Tasks : phase[u] = "queued"}
    BY <2>1 DEF SlotTypes, Phases
  <2>6. SlotTypes'
    BY <2>1 DEF SlotTypes, Phases
  <2> QED BY <2>1, <2>2, <2>4, <2>5, <2>6, TdxAssumption DEF SlotAccounting, SlotTypes
<1> QED BY <1>1, <1>2

LEMMA SlotsStep == SlotsOK /\ [Next]_vars => SlotsOK'
<1> SUFFICES ASSUME SlotsOK, [Next]_vars PROVE SlotsOK'
  OBVIOUS
<1>t. SlotTypes
  BY DEF SlotsOK
<1>1. ASSUME NEW t \in Tasks, NEW p, phase[t] \in HoldingPhases, p \in HoldingPhases,
             phase' = [phase EXCEPT ![t] = p], UNCHANGED slotVars
      PROVE  SlotsOK'
  BY <1>t, <1>1, MovesKeepAccounts DEF SlotTypes, Phases, HoldingPhases
<1>2. ASSUME NEW t \in Tasks, Resume(t) \/ NextPage(t) \/ Retry(t) PROVE SlotsOK'
  <2>1. /\ phase[t] \in {"handed", "returned"} /\ UNCHANGED slotVars
        /\ GetToken(t, token) \/ GetToken(t, token')
    BY <1>2 DEF Resume, NextPage, Retry
  <2>2. \E p \in {"armed", "token", "denied"} : phase' = [phase EXCEPT ![t] = p]
    BY <2>1, GetTokenPhase
  <2> QED BY <1>1, <2>1, <2>2 DEF HoldingPhases
<1>3. ASSUME NEW t \in Tasks, AskPage(t) \/ ProviderReturns(t) PROVE SlotsOK'
  BY <1>1, <1>3 DEF AskPage, ProviderReturns, Deny, HoldingPhases
<1>4. ASSUME NEW t \in Tasks, TokenReturns(t) PROVE SlotsOK'
  <2>1. UNCHANGED slotVars
    BY <1>4 DEF TokenReturns
  <2> QED BY <1>t, <1>4, <2>1, TokenReturnsPhase, MovesKeepAccounts DEF HoldingPhases
<1>5. ASSUME NEW t \in Tasks, Finish(t) \/ Fail(t) \/ Unwind(t) PROVE SlotsOK'
  BY <1>5, ReleaseKeepsAccounts DEF Finish, Fail, Unwind, Settle, HoldingPhases
<1>6. ASSUME NEW t \in Tasks, Store(t) \/ Deliver(t) PROVE SlotsOK'
  BY <1>t, <1>6, MovesKeepAccounts DEF Store, Deliver, SlotTypes, Phases, RestPhases
<1>7. ASSUME UNCHANGED <<slotVars, phase>> PROVE SlotsOK'
  BY <1>t, <1>7, MovesKeepAccounts DEF SlotTypes
<1>8. ASSUME NEW q \in Queries, Query(q) PROVE SlotsOK'
  BY <1>7, <1>8, QueryCases, StartKeepsAccounts
<1>9. Tick \/ UNCHANGED vars => SlotsOK'
  BY <1>7 DEF Tick, vars
<1> QED BY <1>2, <1>3, <1>4, <1>5, <1>6, <1>8, <1>9 DEF Next

\* Each of fetchRoute's exits hands its slot on exactly once.
THEOREM SlotsAreAccountedFor == Spec => []SlotAccounting
<1>1. SlotsOK => SlotAccounting
  BY DEF SlotsOK
<1> QED BY <1>1, SlotsInit, SlotsStep, PTL DEF Spec

-----------------------------------------------------------------------------
(***************************************************************************)
(* Types. TypeOK is inductive only with the data of the live tasks.        *)
(***************************************************************************)

\* A live task has its pair, and one that has ended has its result.
TaskData ==
  \A t \in Tasks :
    /\ phase[t] # "idle" => route[t] \in Routes
    /\ phase[t] \in {"denied", "settled", "stored"} => result[t] \in Result

TypeInv == TypeOK /\ TaskData

TokenValue == [id : Nat, until : Nat] \cup {None}

LEMMA DayOfNat == ASSUME NEW t \in Nat PROVE DayOf(t) \in Nat
BY TdxAssumption DEF DayOf

LEMMA DayOfMonotone ==
  ASSUME NEW s \in Nat, NEW t \in Nat, s <= t PROVE DayOf(s) <= DayOf(t)
BY TdxAssumption DEF DayOf

LEMMA TodayType == ASSUME clock \in 0..MaxTime PROVE Today \in UTCDays /\ Today \in Nat
BY DayOfNat, DayOfMonotone, TdxAssumption DEF Today, UTCDays

LEMMA UnknownType ==
  ASSUME NEW issue \in Issues, clock \in 0..MaxTime PROVE Unknown(issue) \in Result
BY DEF Unknown, Result

\* Requests are counted nowhere but in Spend, and only when one is made.
LEMMA StepBudget ==
  ASSUME [Next]_vars
  PROVE  \/ Tick
         \/ UNCHANGED clock /\ (UNCHANGED budgetVars \/ Spend \/ SpendThrows)
<1>1. ASSUME NEW t, NEW tok, GetToken(t, tok) PROVE UNCHANGED budgetVars \/ Spend \/ SpendThrows
  BY <1>1 DEF GetToken, HaveToken, JoinToken, RequestToken
<1>2. ASSUME NEW t \in Tasks, Resume(t) \/ NextPage(t) \/ Retry(t) PROVE
        UNCHANGED clock /\ (UNCHANGED budgetVars \/ Spend \/ SpendThrows)
  BY <1>1, <1>2 DEF Resume, NextPage, Retry
<1>3. ASSUME NEW t \in Tasks,
             AskPage(t) \/ ProviderReturns(t) \/ TokenReturns(t) \/ Store(t) \/ Deliver(t)
      PROVE  UNCHANGED clock /\ (UNCHANGED budgetVars \/ Spend \/ SpendThrows)
  BY <1>3 DEF AskPage, ProviderReturns, TokenReturns, Store, Deliver
<1>4. ASSUME NEW t \in Tasks, Finish(t) \/ Fail(t) \/ Unwind(t)
      PROVE  UNCHANGED clock /\ UNCHANGED budgetVars
  BY <1>4 DEF Finish, Fail, Unwind, Settle
<1>5. ASSUME NEW q \in Queries, Query(q)
      PROVE  UNCHANGED clock /\ (UNCHANGED budgetVars \/ Spend \/ SpendThrows)
  <2>1. UNCHANGED clock
    BY <1>5 DEF Query
  <2> QED BY <1>1, <1>5, <2>1, QueryCases DEF Queues, Starts
<1>6. UNCHANGED vars => UNCHANGED clock /\ UNCHANGED budgetVars
  BY DEF vars
<1> QED BY <1>2, <1>3, <1>4, <1>5, <1>6 DEF Next

LEMMA BudgetTypes ==
  ASSUME TypeOK, [Next]_vars
  PROVE  /\ clock' \in 0..MaxTime /\ budgetDay' \in UTCDays \cup {None}
         /\ used' \in Nat /\ spent' \in [UTCDays -> Nat]
<1>1. Today \in UTCDays /\ UsedToday \in Nat
  BY TodayType DEF TypeOK, UsedToday
<1>2. CASE Tick
  BY <1>2, TdxAssumption DEF Tick, TypeOK, budgetVars
<1>3. CASE UNCHANGED clock /\ UNCHANGED budgetVars
  BY <1>3 DEF TypeOK, budgetVars
<1>4. CASE UNCHANGED clock /\ Spend
  BY <1>1, <1>4 DEF TypeOK, Spend
<1>5. CASE UNCHANGED clock /\ SpendThrows
  BY <1>1, <1>5 DEF TypeOK, SpendThrows
<1> QED BY <1>2, <1>3, <1>4, <1>5, StepBudget

\* getToken concerns its own task and the shared token request.
LEMMA GetTokenTypes ==
  ASSUME TypeOK, NEW t \in Tasks, NEW tok \in TokenValue, GetToken(t, tok)
  PROVE  /\ tokenTask' \in Tasks \cup {None} /\ tokenCalls' \subseteq Tasks
         /\ issued' = issued /\ access' \in [Tasks -> Nat \cup {None}]
         /\ result' \in [Tasks -> Result \cup {None}]
         /\ phase'[t] = "denied" => result'[t] = Unknown("budget-exceeded") /\ result'[t] \in Result
         /\ \A u \in Tasks \ {t} : phase'[u] = phase[u] /\ result'[u] = result[u]
<1>1. Unknown("budget-exceeded") \in Result
  BY UnknownType DEF TypeOK, Issues
<1>2. CASE HaveToken(t, tok)
  <2>1. tok.id \in Nat
    BY <1>2 DEF HaveToken, UsableToken, TokenValue
  <2> QED BY <1>2, <2>1 DEF HaveToken, GetToken, TypeOK
<1>3. CASE JoinToken(t, tok)
  BY <1>3 DEF JoinToken, GetToken, TypeOK
<1>4. CASE RequestToken(t, tok)
  <2>1. UNCHANGED <<access, issued>>
    BY <1>4 DEF RequestToken, GetToken
  <2>2. CASE /\ tokenTask' = t /\ tokenCalls' = tokenCalls \cup {t}
             /\ phase' = [phase EXCEPT ![t] = "token"] /\ UNCHANGED result
    BY <2>1, <2>2 DEF TypeOK
  <2>3. CASE Deny(t, "budget-exceeded") /\ UNCHANGED <<tokenTask, tokenCalls>>
    <3>1. /\ phase' = [phase EXCEPT ![t] = "denied"]
          /\ result' = [result EXCEPT ![t] = Unknown("budget-exceeded")]
      BY <2>3 DEF Deny
    <3> QED BY <1>1, <2>1, <2>3, <3>1 DEF TypeOK
  <2> QED BY <1>4, <2>2, <2>3 DEF RequestToken
<1> QED BY <1>2, <1>3, <1>4 DEF GetToken

TokensTyped ==
  /\ token \in TokenValue /\ tokenTask \in Tasks \cup {None}
  /\ tokenCalls \subseteq Tasks /\ issued \in Nat
  /\ access \in [Tasks -> Nat \cup {None}]

LEMMA TokenTypes == TypeOK /\ [Next]_vars => TokensTyped'
<1> SUFFICES ASSUME TypeOK, [Next]_vars PROVE TokensTyped'
  OBVIOUS
<1>0. token \in TokenValue /\ None \in TokenValue
  BY DEF TypeOK, TokenValue
<1>1. ASSUME UNCHANGED <<tokenVars, access>> PROVE TokensTyped'
  BY <1>0, <1>1 DEF TypeOK, tokenVars, TokensTyped
<1>2. ASSUME NEW t \in Tasks, NEW tok \in TokenValue, GetToken(t, tok), token' \in TokenValue
      PROVE TokensTyped'
  BY <1>2, GetTokenTypes DEF TypeOK, TokensTyped
<1>3. ASSUME NEW t \in Tasks, Resume(t) \/ NextPage(t) PROVE GetToken(t, token) /\ token' = token
  BY <1>3 DEF Resume, NextPage
<1>4. ASSUME NEW t \in Tasks, Retry(t) PROVE GetToken(t, None) /\ token' = None
  BY <1>4 DEF Retry, DropToken
<1>5. ASSUME NEW t \in Tasks, TokenReturns(t) PROVE TokensTyped'
  <2>1. tokenTask' = None /\ tokenCalls' \subseteq Tasks
    BY <1>5 DEF TokenReturns, TypeOK
  <2>2. CASE UNCHANGED <<token, issued, access>>
    BY <1>0, <2>1, <2>2 DEF TypeOK, TokensTyped
  <2>3. ASSUME NEW life \in Lifetimes, issued' = issued + 1,
               token' = [id |-> issued + 1, until |-> clock + life],
               access' = [u \in Tasks |-> IF u \in {v \in Tasks : phase[v] = "token"}
                                          THEN issued + 1 ELSE access[u]]
        PROVE  token' \in TokenValue /\ issued' \in Nat /\ access' \in [Tasks -> Nat \cup {None}]
    <3>1. life \in Nat /\ clock \in Nat /\ issued \in Nat
      BY TdxAssumption DEF TypeOK
    <3>2. token' \in TokenValue /\ issued' \in Nat
      BY <2>3, <3>1 DEF TokenValue
    <3>3. access' \in [Tasks -> Nat \cup {None}]
      BY <2>3, <3>1 DEF TypeOK
    <3> QED BY <3>2, <3>3
  <2> QED BY <1>5, <2>1, <2>2, <2>3 DEF TokenReturns, TokensTyped
<1>6. ASSUME NEW t \in Tasks, AskPage(t) \/ ProviderReturns(t) \/ Store(t)
      PROVE  UNCHANGED <<tokenVars, access>>
  BY <1>6 DEF AskPage, ProviderReturns, Store, pageVars
<1>7. ASSUME NEW t \in Tasks, Finish(t) \/ Fail(t) \/ Unwind(t) PROVE UNCHANGED <<tokenVars, access>>
  BY <1>7 DEF Finish, Fail, Unwind, Settle
<1>8. ASSUME NEW t \in Tasks, Deliver(t) PROVE TokensTyped'
  BY <1>0, <1>8 DEF Deliver, TypeOK, tokenVars, TokensTyped
<1>9. ASSUME NEW q \in Queries, Query(q) PROVE
         \/ UNCHANGED <<tokenVars, access>>
         \/ \E t \in Tasks : GetToken(t, token) /\ token' = token
  BY <1>9, QueryCases DEF Queues, Starts
<1>10. Tick \/ UNCHANGED vars => UNCHANGED <<tokenVars, access>>
  BY DEF Tick, vars, pageVars
<1>11. ASSUME NEW t \in Tasks, Resume(t) \/ NextPage(t) \/ Retry(t) PROVE TokensTyped'
  BY <1>0, <1>2, <1>3, <1>4, <1>11
<1>12. ASSUME NEW q \in Queries, Query(q) PROVE TokensTyped'
  BY <1>0, <1>1, <1>2, <1>9, <1>12
<1> QED BY <1>1, <1>5, <1>6, <1>7, <1>8, <1>10, <1>11, <1>12 DEF Next

PagesTyped ==
  /\ route \in [Tasks -> Routes \cup {None}] /\ page \in [Tasks -> 0..MaxPages-1]
  /\ rows \in [Tasks -> Seq(Page)] /\ refused \in [Tasks -> Nat \cup {None}]
  /\ reply \in [Tasks -> Replies \cup {None}] /\ result \in [Tasks -> Result \cup {None}]

\* What keeps the data of the tasks: a task keeps its pair while it lives, and
\* one that ends, or was about to, has its result.
LEMMA DataKept ==
  ASSUME TaskData, TypeOK,
         \A t \in Tasks :
           /\ phase'[t] # "idle" =>
                (route'[t] = route[t] /\ phase[t] # "idle") \/ route'[t] \in Routes
           /\ phase'[t] \in {"denied", "settled", "stored"} =>
                \/ (phase[t] \in {"denied", "settled", "stored"} /\ result'[t] = result[t])
                \/ result'[t] \in Result
  PROVE  TaskData'
BY DEF TaskData

\* A step that changes no data of the tasks, and ends none of them.
LEMMA SamePages ==
  ASSUME PagesTyped, TaskData, TypeOK, route' = route, page' = page, rows' = rows,
         refused' = refused, reply' = reply, result' = result,
         \A t \in Tasks :
           \/ phase'[t] = phase[t]
           \/ (phase[t] # "idle" /\ phase'[t] \notin {"denied", "settled", "stored"})
           \/ phase[t] \in {"settled", "stored"}
  PROVE  PagesTyped' /\ TaskData'
<1>1. PagesTyped'
  BY DEF PagesTyped
<1>2. TaskData'
  BY DEF TaskData
<1> QED BY <1>1, <1>2

LEMMA PageTypes == SlotsOK /\ TypeInv /\ [Next]_vars => PagesTyped' /\ TaskData'
<1> SUFFICES ASSUME SlotsOK, TypeInv, [Next]_vars PROVE PagesTyped' /\ TaskData'
  OBVIOUS
<1>0. TypeOK /\ TaskData /\ PagesTyped /\ token \in TokenValue /\ None \in TokenValue
  BY DEF TypeInv, TypeOK, PagesTyped, TokenValue
<1>c. clock \in 0..MaxTime /\ MaxPages \in Nat \ {0} /\ \A t \in Tasks : page[t] \in 0..MaxPages-1
  BY <1>0, TdxAssumption DEF TypeOK
<1>2. ASSUME NEW t \in Tasks, NEW tok \in TokenValue, GetToken(t, tok), phase[t] # "idle",
             UNCHANGED route
      PROVE  TaskData'
  <2>1. /\ phase'[t] = "denied" => result'[t] \in Result
        /\ phase'[t] \notin {"settled", "stored"}
        /\ \A u \in Tasks \ {t} : phase'[u] = phase[u] /\ result'[u] = result[u]
    BY <1>0, <1>2, GetTokenTypes, GetTokenPhase DEF TypeOK
  <2> QED BY <1>0, <1>2, <2>1, DataKept
<1>3. ASSUME NEW t \in Tasks, Resume(t) PROVE PagesTyped' /\ TaskData'
  <2>1. /\ GetToken(t, token) /\ phase[t] = "handed"
        /\ UNCHANGED <<route, page, rows, refused, reply>>
    BY <1>3 DEF Resume
  <2>2. result' \in [Tasks -> Result \cup {None}]
    BY <1>0, <2>1, GetTokenTypes
  <2> QED BY <1>0, <1>2, <2>1, <2>2 DEF PagesTyped
<1>4. ASSUME NEW t \in Tasks, NextPage(t) PROVE PagesTyped' /\ TaskData'
  <2>1. /\ GetToken(t, token) /\ phase[t] = "returned" /\ page[t] + 1 # MaxPages
        /\ page' = [page EXCEPT ![t] = @ + 1]
        /\ rows' = [rows EXCEPT ![t] = Append(@, [page |-> page[t], full |-> TRUE])]
        /\ refused' = [refused EXCEPT ![t] = None] /\ reply' = [reply EXCEPT ![t] = None]
        /\ UNCHANGED route
    BY <1>4 DEF NextPage, AddPage, LastPage
  <2>2. result' \in [Tasks -> Result \cup {None}]
    BY <1>0, <2>1, GetTokenTypes
  <2>3. page' \in [Tasks -> 0..MaxPages-1]
    BY <1>0, <1>c, <2>1 DEF PagesTyped
  <2>4. rows' \in [Tasks -> Seq(Page)]
    <3>1. [page |-> page[t], full |-> TRUE] \in Page
      BY <1>c DEF Page
    <3>2. Append(rows[t], [page |-> page[t], full |-> TRUE]) \in Seq(Page)
      BY <1>0, <3>1 DEF PagesTyped
    <3> QED BY <1>0, <2>1, <3>2 DEF PagesTyped
  <2> QED BY <1>0, <1>2, <2>1, <2>2, <2>3, <2>4 DEF PagesTyped
<1>5. ASSUME NEW t \in Tasks, Retry(t) PROVE PagesTyped' /\ TaskData'
  <2>1. /\ GetToken(t, None) /\ phase[t] = "returned"
        /\ refused' = [refused EXCEPT ![t] = access[t]] /\ reply' = [reply EXCEPT ![t] = None]
        /\ UNCHANGED <<route, page, rows>>
    BY <1>5 DEF Retry, DropToken
  <2>2. result' \in [Tasks -> Result \cup {None}] /\ access[t] \in Nat \cup {None}
    BY <1>0, <2>1, GetTokenTypes DEF TypeOK
  <2> QED BY <1>0, <1>2, <2>1, <2>2 DEF PagesTyped
<1>6. ASSUME NEW t \in Tasks, AskPage(t) PROVE PagesTyped' /\ TaskData'
  <2>1. phase[t] = "armed" /\ UNCHANGED <<route, page, rows, refused, reply>>
    BY <1>6 DEF AskPage, pageVars
  <2>2. CASE phase' = [phase EXCEPT ![t] = "asking"] /\ UNCHANGED result
    BY <1>0, <2>1, <2>2, SamePages DEF TypeOK
  <2>3. CASE Deny(t, "budget-exceeded")
    <3>1. Unknown("budget-exceeded") \in Result
      BY <1>c, UnknownType DEF Issues
    <3>2. /\ phase' = [phase EXCEPT ![t] = "denied"]
          /\ result' = [result EXCEPT ![t] = Unknown("budget-exceeded")]
      BY <2>3 DEF Deny
    <3>3. PagesTyped'
      BY <1>0, <2>1, <3>1, <3>2 DEF PagesTyped
    <3>4. TaskData'
      BY <1>0, <2>1, <3>1, <3>2, DataKept DEF TypeOK
    <3> QED BY <3>3, <3>4
  <2> QED BY <1>6, <2>2, <2>3 DEF AskPage
<1>7. ASSUME NEW t \in Tasks, ProviderReturns(t) PROVE PagesTyped' /\ TaskData'
  <2>1. /\ phase[t] = "asking" /\ phase' = [phase EXCEPT ![t] = "returned"]
        /\ \E r \in Replies : reply' = [reply EXCEPT ![t] = r]
        /\ UNCHANGED <<route, page, rows, refused, result>>
    BY <1>7 DEF ProviderReturns
  <2>2. PagesTyped'
    BY <1>0, <2>1 DEF PagesTyped
  <2>3. TaskData'
    BY <1>0, <2>1, DataKept DEF TypeOK
  <2> QED BY <2>2, <2>3
<1>8. ASSUME NEW t \in Tasks, TokenReturns(t) PROVE PagesTyped' /\ TaskData'
  <2> DEFINE joined == {u \in Tasks : phase[u] = "token"}
  <2>1. UNCHANGED <<route, page, rows, refused, reply>>
    BY <1>8 DEF TokenReturns
  <2>2. CASE /\ phase' = [u \in Tasks |-> IF u \in joined THEN "armed" ELSE phase[u]]
             /\ UNCHANGED result
    BY <1>0, <2>1, <2>2, SamePages DEF TypeOK
  <2>3. CASE /\ phase' = [u \in Tasks |-> IF u \in joined THEN "denied" ELSE phase[u]]
             /\ result' = [u \in Tasks |-> IF u \in joined THEN Unknown("provider-error") ELSE result[u]]
    <3>1. Unknown("provider-error") \in Result
      BY <1>c, UnknownType DEF Issues
    <3>2. PagesTyped'
      BY <1>0, <2>1, <2>3, <3>1 DEF PagesTyped
    <3>3. TaskData'
      BY <1>0, <2>1, <2>3, <3>1, DataKept DEF TypeOK
    <3> QED BY <3>2, <3>3
  <2> QED BY <1>8, <2>2, <2>3 DEF TokenReturns
<1>9. ASSUME NEW t \in Tasks, NEW res \in Result, phase[t] \in {"returned", "denied"},
             ReleaseSlot(t), result' = [result EXCEPT ![t] = res],
             UNCHANGED <<route, page, refused, reply>>, rows' \in [Tasks -> Seq(Page)]
      PROVE  PagesTyped' /\ TaskData'
  <2>1. PagesTyped'
    BY <1>0, <1>9 DEF PagesTyped
  <2>2. /\ phase'[t] = "settled" /\ result'[t] \in Result
        /\ \A u \in Tasks \ {t} :
             /\ (phase'[u] = phase[u] \/ (phase[u] = "queued" /\ phase'[u] = "handed"))
             /\ result'[u] = result[u]
    BY <1>0, <1>9, ReleasePhase DEF TypeOK
  <2>3. TaskData'
    BY <1>0, <1>9, <2>2, DataKept
  <2> QED BY <2>1, <2>3
<1>10. ASSUME NEW t \in Tasks, Finish(t) PROVE PagesTyped' /\ TaskData'
  <2>1. /\ phase[t] = "returned" /\ ReleaseSlot(t) /\ UNCHANGED <<route, page, refused, reply>>
        /\ result' = [result EXCEPT ![t] = Answered(rows'[t], clock)]
        /\ rows' = [rows EXCEPT ![t] = Append(@, [page |-> page[t], full |-> reply[t] = "full"])]
    BY <1>10 DEF Finish, Settle, AddPage
  <2>2. [page |-> page[t], full |-> reply[t] = "full"] \in Page
    BY <1>c DEF Page
  <2>3. rows' \in [Tasks -> Seq(Page)]
    <3>1. Append(rows[t], [page |-> page[t], full |-> reply[t] = "full"]) \in Seq(Page)
      BY <1>0, <2>2 DEF PagesTyped
    <3> QED BY <1>0, <2>1, <3>1 DEF PagesTyped
  <2>4. Answered(rows'[t], clock) \in Result
    BY <1>c, <2>3 DEF Answered, Result, Issues
  <2> QED BY <1>9, <2>1, <2>3, <2>4
<1>11. ASSUME NEW t \in Tasks, Fail(t) PROVE PagesTyped' /\ TaskData'
  <2>1. Unknown("provider-error") \in Result
    BY <1>c, UnknownType DEF Issues
  <2>2. /\ phase[t] = "returned" /\ ReleaseSlot(t) /\ UNCHANGED <<route, page, rows, refused, reply>>
        /\ result' = [result EXCEPT ![t] = Unknown("provider-error")]
    BY <1>11 DEF Fail, Settle
  <2> QED BY <1>0, <1>9, <2>1, <2>2 DEF PagesTyped
<1>12. ASSUME NEW t \in Tasks, Unwind(t) PROVE PagesTyped' /\ TaskData'
  <2>1. /\ phase[t] = "denied" /\ ReleaseSlot(t) /\ UNCHANGED <<route, page, rows, refused, reply>>
        /\ result' = [result EXCEPT ![t] = result[t]] /\ result[t] \in Result
    BY <1>0, <1>12 DEF Unwind, Settle, TaskData
  <2> QED BY <1>0, <1>9, <2>1 DEF PagesTyped
<1>13. ASSUME NEW t \in Tasks, Store(t) PROVE PagesTyped' /\ TaskData'
  <2>1. /\ phase[t] = "settled" /\ phase' = [phase EXCEPT ![t] = "stored"]
        /\ UNCHANGED <<route, page, rows, refused, reply, result>>
    BY <1>13 DEF Store, pageVars
  <2> QED BY <1>0, <2>1, SamePages DEF TypeOK
<1>14. ASSUME NEW t \in Tasks, Deliver(t) PROVE PagesTyped' /\ TaskData'
  <2>1. PagesTyped'
    BY <1>0, <1>c, <1>14 DEF Deliver, PagesTyped
  <2>2. TaskData'
    BY <1>0, <1>14, DataKept DEF Deliver, TypeOK
  <2> QED BY <2>1, <2>2
<1>15. ASSUME NEW q \in Queries, Query(q) PROVE PagesTyped' /\ TaskData'
  <2>1. UNCHANGED <<page, rows, refused, reply>>
    BY <1>15 DEF Query
  <2>2. CASE UNCHANGED <<route, phase, result>>
    BY <1>0, <2>1, <2>2, SamePages
  <2>3. ASSUME NEW r \in Routes, NEW t \in Tasks, phase[t] = "idle",
               route' = [route EXCEPT ![t] = r], Queues(t) \/ Starts(t)
        PROVE  PagesTyped' /\ TaskData'
    <3>1. /\ result' \in [Tasks -> Result \cup {None}]
          /\ phase'[t] = "denied" => result'[t] \in Result
          /\ phase'[t] \notin {"settled", "stored"}
          /\ \A u \in Tasks \ {t} : phase'[u] = phase[u] /\ result'[u] = result[u]
      <4>1. CASE Queues(t)
        BY <1>0, <4>1 DEF Queues, TypeOK
      <4>2. CASE Starts(t)
        <5>1. GetToken(t, token)
          BY <4>2 DEF Starts
        <5> QED BY <1>0, <5>1, GetTokenTypes, GetTokenPhase DEF TypeOK
      <4> QED BY <2>3, <4>1, <4>2
    <3>2. PagesTyped'
      BY <1>0, <2>1, <2>3, <3>1 DEF PagesTyped
    <3>3. \A u \in Tasks : route'[u] = IF u = t THEN r ELSE route[u]
      BY <1>0, <2>3 DEF PagesTyped
    <3>4. TaskData'
      BY <1>0, <3>1, <3>3, DataKept
    <3> QED BY <3>2, <3>4
  <2> QED BY <1>15, <2>2, <2>3, QueryCases
<1>16. Tick \/ UNCHANGED vars => PagesTyped' /\ TaskData'
  BY <1>0, SamePages DEF Tick, vars, pageVars
<1> QED BY <1>3, <1>4, <1>5, <1>6, <1>7, <1>8, <1>10, <1>11, <1>12, <1>13, <1>14, <1>15, <1>16
        DEF Next

\* What the map of snapshots, the map of promises and the queries hold.
LEMMA CacheSetType ==
  ASSUME cache \in Seq(Snapshot), NEW entry \in Snapshot
  PROVE  CacheSet(entry) \in Seq(Snapshot)
<1> DEFINE room == IF Len(cache) >= CacheCap THEN Tail(cache) ELSE cache
<1>1. room \in Seq(Snapshot)
  <2>1. CASE Len(cache) >= CacheCap
    BY <2>1, TdxAssumption
  <2>2. CASE ~(Len(cache) >= CacheCap)
    BY <2>2
  <2> QED BY <2>1, <2>2
<1> HIDE DEF room
<1>2. [i \in DOMAIN room |-> IF room[i].route = entry.route THEN entry ELSE room[i]] \in Seq(Snapshot)
  <2>1. DOMAIN room = 1..Len(room) /\ Len(room) \in Nat
    BY <1>1
  <2>2. \A i \in 1..Len(room) : room[i] \in Snapshot
    BY <1>1
  <2> QED BY <2>1, <2>2, IsASeq
<1>3. Append(room, entry) \in Seq(Snapshot)
  BY <1>1
<1> QED BY <1>2, <1>3 DEF CacheSet, room

QueriesTyped ==
  /\ pending \in [Routes -> Tasks \cup {None}] /\ cache \in Seq(Snapshot)
  /\ status \in [Queries -> {"idle", "open", "done"}]
  /\ ask \in [Queries -> [route : Routes, since : 0..MaxTime] \cup {None}]
  /\ awaits \in [Queries -> Tasks \cup {None}]
  /\ answer \in [Queries -> Result \cup {None}]

\* A request asks, and is answered at once or awaits a promise.
LEMMA QueryAsks ==
  ASSUME TypeOK, NEW q \in Queries, Query(q)
  PROVE  \E r \in Routes :
           /\ ask' = [ask EXCEPT ![q] = [route |-> r, since |-> clock]]
           /\ \/ \E res \in Result : AnswerNow(q, res)
              \/ JoinRoute(q, r)
              \/ StartRoute(q, r)
<1>1. PICK r \in Routes, inWindow \in BOOLEAN :
        /\ ask' = [ask EXCEPT ![q] = [route |-> r, since |-> clock]]
        /\ \/ OutOfRange(q, r, inWindow)
           \/ ServeCached(q, r) \/ RefuseRoute(q, r) \/ JoinRoute(q, r) \/ StartRoute(q, r)
  BY DEF Query
<1>2. OutOfRange(q, r, inWindow) \/ RefuseRoute(q, r) => \E res \in Result : AnswerNow(q, res)
  BY UnknownType DEF OutOfRange, RefuseRoute, TypeOK, Issues
<1>3. ASSUME ServeCached(q, r) PROVE \E res \in Result : AnswerNow(q, res)
  <2>1. PICK i \in Cached(r) : AnswerNow(q, Answered(cache[i].rows, cache[i].at))
    BY <1>3 DEF ServeCached
  <2>2. cache[i] \in Snapshot
    BY DEF TypeOK, Cached
  <2>3. Answered(cache[i].rows, cache[i].at) \in Result
    BY <2>2 DEF Snapshot, Answered, Result, Issues
  <2> QED BY <2>1, <2>3
<1> QED BY <1>1, <1>2, <1>3

LEMMA QueryTypes == TypeInv /\ [Next]_vars => QueriesTyped'
<1> SUFFICES ASSUME TypeInv, [Next]_vars PROVE QueriesTyped'
  OBVIOUS
<1>0. TypeOK /\ TaskData /\ QueriesTyped /\ clock \in 0..MaxTime
  BY DEF TypeInv, TypeOK, QueriesTyped
<1>1. ASSUME UNCHANGED <<pending, cache, queryVars>> PROVE QueriesTyped'
  BY <1>0, <1>1 DEF QueriesTyped, queryVars
<1>2. ASSUME NEW t \in Tasks,
             \/ Resume(t) \/ AskPage(t) \/ ProviderReturns(t) \/ TokenReturns(t)
             \/ NextPage(t) \/ Finish(t) \/ Retry(t) \/ Fail(t) \/ Unwind(t)
      PROVE  UNCHANGED <<pending, cache, queryVars>>
  BY <1>2 DEF Resume, AskPage, ProviderReturns, TokenReturns, NextPage, Finish, Retry, Fail, Unwind
<1>3. ASSUME NEW t \in Tasks, Store(t) PROVE QueriesTyped'
  <2>1. /\ phase[t] = "settled" /\ UNCHANGED <<pending, queryVars>>
        /\ cache' = IF result[t].issue = "answered"
                    THEN CacheSet([route |-> route[t], rows |-> result[t].rows, at |-> result[t].at])
                    ELSE cache
    BY <1>3 DEF Store
  <2>2. [route |-> route[t], rows |-> result[t].rows, at |-> result[t].at] \in Snapshot
    BY <1>0, <2>1 DEF TaskData, Snapshot, Result
  <2>3. cache' \in Seq(Snapshot)
    BY <1>0, <2>1, <2>2, CacheSetType DEF QueriesTyped
  <2> QED BY <1>0, <2>1, <2>3 DEF QueriesTyped, queryVars
<1>4. ASSUME NEW t \in Tasks, Deliver(t) PROVE QueriesTyped'
  <2> DEFINE res == IF result[t].issue = "answered" THEN result[t] ELSE Unknown(result[t].issue)
             joined == {q \in Queries : awaits[q] = t}
  <2>1. result[t] \in Result
    BY <1>0, <1>4 DEF Deliver, TaskData
  <2>2. result[t].issue \in Issues
    BY <2>1 DEF Result
  <2>3. res \in Result
    BY <1>0, <2>1, <2>2, UnknownType
  <2>4. /\ pending' = [pending EXCEPT ![route[t]] = None] /\ UNCHANGED <<cache, ask>>
        /\ answer' = [q \in Queries |-> IF q \in joined THEN res ELSE answer[q]]
        /\ status' = [q \in Queries |-> IF q \in joined THEN "done" ELSE status[q]]
        /\ awaits' = [q \in Queries |-> IF q \in joined THEN None ELSE awaits[q]]
    BY <1>4 DEF Deliver
  <2> HIDE DEF res, joined
  <2> QED BY <1>0, <2>3, <2>4 DEF QueriesTyped
<1>5. ASSUME NEW q \in Queries, Query(q) PROVE QueriesTyped'
  <2>1. PICK r \in Routes :
          /\ ask' = [ask EXCEPT ![q] = [route |-> r, since |-> clock]]
          /\ \/ \E res \in Result : AnswerNow(q, res)
             \/ JoinRoute(q, r)
             \/ StartRoute(q, r)
    BY <1>0, <1>5, QueryAsks
  <2>2. ask' \in [Queries -> [route : Routes, since : 0..MaxTime] \cup {None}] /\ UNCHANGED cache
    <3>1. [route |-> r, since |-> clock] \in [route : Routes, since : 0..MaxTime]
      BY <1>0
    <3> QED BY <1>0, <1>5, <2>1, <3>1 DEF Query, QueriesTyped
  <2>3. ASSUME NEW res \in Result, AnswerNow(q, res) PROVE QueriesTyped'
    BY <1>0, <2>2, <2>3 DEF AnswerNow, QueriesTyped
  <2>4. ASSUME NEW t \in Tasks, Await(q, t), pending' \in [Routes -> Tasks \cup {None}]
        PROVE  QueriesTyped'
    BY <1>0, <2>2, <2>4 DEF Await, QueriesTyped
  <2>5. CASE JoinRoute(q, r)
    <3>1. pending[r] \in Tasks /\ Await(q, pending[r]) /\ UNCHANGED pending
      BY <1>0, <2>5 DEF JoinRoute, QueriesTyped
    <3> QED BY <1>0, <2>4, <3>1 DEF QueriesTyped
  <2>6. CASE StartRoute(q, r)
    <3>1. PICK t \in Tasks : Await(q, t) /\ pending' = [pending EXCEPT ![r] = t]
      BY <2>6 DEF StartRoute
    <3> QED BY <1>0, <2>4, <3>1 DEF QueriesTyped
  <2> QED BY <2>1, <2>3, <2>5, <2>6
<1>6. Tick \/ UNCHANGED vars => UNCHANGED <<pending, cache, queryVars>>
  BY DEF Tick, vars
<1> QED BY <1>1, <1>2, <1>3, <1>4, <1>5, <1>6 DEF Next

LEMMA TypeInit == Init => TypeInv
<1> SUFFICES ASSUME Init PROVE TypeInv
  OBVIOUS
<1>1. TypeOK
  BY TdxAssumption, DayOfNat DEF Init, TypeOK, Phases, UTCDays
<1>2. TaskData
  BY DEF Init, TaskData
<1> QED BY <1>1, <1>2 DEF TypeInv

LEMMA TypeStep == SlotsOK /\ SlotsOK' /\ TypeInv /\ [Next]_vars => TypeInv'
<1> SUFFICES ASSUME SlotsOK, SlotsOK', TypeInv, [Next]_vars PROVE TypeInv'
  OBVIOUS
<1>1. /\ clock' \in 0..MaxTime /\ budgetDay' \in UTCDays \cup {None}
      /\ used' \in Nat /\ spent' \in [UTCDays -> Nat]
  BY BudgetTypes DEF TypeInv
<1>2. TokensTyped'
  BY TokenTypes DEF TypeInv
<1>3. PagesTyped' /\ TaskData'
  BY PageTypes
<1>4. QueriesTyped'
  BY QueryTypes
<1>5. SlotTypes'
  BY DEF SlotsOK
<1>6. TypeOK'
  BY <1>1, <1>2, <1>3, <1>4, <1>5
     DEF TypeOK, TokensTyped, TokenValue, PagesTyped, QueriesTyped, SlotTypes
<1> QED BY <1>3, <1>6 DEF TypeInv

\* Every variable keeps its type, however pages, tokens and callbacks interleave.
THEOREM TypesHold == Spec => []TypeOK
<1>1. TypeInv => TypeOK
  BY DEF TypeInv
<1> QED BY <1>1, SlotsInit, SlotsStep, TypeInit, TypeStep, PTL DEF Spec

-----------------------------------------------------------------------------
(***************************************************************************)
(* The budget of a UTC day.                                                *)
(***************************************************************************)

\* `used` counts the requests of budgetDay, and no later day has any.
DailyCeiling == \A d \in UTCDays : spent[d] <= Budget

BudgetInv ==
  /\ DailyCeiling
  /\ budgetDay # None => budgetDay <= Today /\ used = spent[budgetDay]
  /\ \A d \in UTCDays : (budgetDay = None \/ d > budgetDay) => spent[d] = 0

LEMMA UsedTodayIsSpent ==
  ASSUME TypeOK, BudgetInv
  PROVE  Today \in UTCDays /\ UsedToday = spent[Today] /\ UsedToday \in Nat /\ UsedToday <= Budget
<1>1. Today \in UTCDays /\ Today \in Nat
  BY TodayType DEF TypeOK
<1>2. spent[Today] \in Nat /\ spent[Today] <= Budget
  BY <1>1 DEF TypeOK, BudgetInv, DailyCeiling
<1>3. CASE budgetDay = Today
  BY <1>1, <1>2, <1>3, TdxAssumption DEF BudgetInv, UsedToday, TypeOK
<1>4. CASE budgetDay # Today
  <2>1. UsedToday = 0
    BY <1>4 DEF UsedToday
  <2>2. budgetDay = None \/ Today > budgetDay
    BY <1>1, <1>4 DEF BudgetInv, TypeOK, UTCDays
  <2> QED BY <1>1, <1>2, <2>1, <2>2 DEF BudgetInv
<1> QED BY <1>3, <1>4

LEMMA BudgetInit == Init => BudgetInv
BY TdxAssumption DEF Init, BudgetInv, DailyCeiling

LEMMA BudgetStep == TypeOK /\ BudgetInv /\ [Next]_vars => BudgetInv'
<1> SUFFICES ASSUME TypeOK, BudgetInv, [Next]_vars PROVE BudgetInv'
  OBVIOUS
<1>1. Today \in UTCDays /\ UsedToday = spent[Today] /\ UsedToday \in Nat /\ Today # None
  BY UsedTodayIsSpent, TdxAssumption DEF UTCDays
<1>2. \A e \in UTCDays : e > Today => spent[e] = 0
  BY <1>1 DEF BudgetInv, TypeOK, UTCDays
<1>3. CASE Tick
  <2>1. clock \in Nat /\ clock' \in Nat /\ clock <= clock'
    BY <1>3, TdxAssumption DEF Tick, TypeOK
  <2>2. Today <= Today' /\ Today \in Nat /\ Today' \in Nat
    BY <2>1, DayOfMonotone, DayOfNat DEF Today
  <2>3. UNCHANGED budgetVars
    BY <1>3 DEF Tick
  <2> HIDE DEF Today
  <2>4. budgetDay # None => budgetDay <= Today'
    BY <2>2 DEF BudgetInv, TypeOK, UTCDays
  <2> QED BY <2>3, <2>4 DEF BudgetInv, DailyCeiling, budgetVars
<1>4. CASE UNCHANGED <<clock, budgetVars>>
  BY <1>4 DEF BudgetInv, DailyCeiling, Today, budgetVars
<1>5. CASE UNCHANGED clock /\ Spend
  <2>1. /\ budgetDay' = Today /\ Today' = Today /\ used' = UsedToday + 1
        /\ spent' = [spent EXCEPT ![Today] = @ + 1] /\ UsedToday < Budget
    BY <1>5 DEF Spend, MaySpend, Today
  <2>2. DailyCeiling'
    BY <1>1, <2>1, TdxAssumption DEF BudgetInv, DailyCeiling, TypeOK
  <2> QED BY <1>1, <1>2, <2>1, <2>2 DEF BudgetInv, TypeOK, UTCDays
<1>6. CASE UNCHANGED clock /\ SpendThrows
  <2>1. budgetDay' = Today /\ Today' = Today /\ used' = UsedToday /\ spent' = spent
    BY <1>6 DEF SpendThrows, Today
  <2> QED BY <1>1, <1>2, <2>1 DEF BudgetInv, DailyCeiling, UTCDays
<1> QED BY <1>3, <1>4, <1>5, <1>6, StepBudget

TdxBase == SlotsOK /\ TypeInv /\ BudgetInv

LEMMA TdxBaseInit == Init => TdxBase
BY SlotsInit, TypeInit, BudgetInit DEF TdxBase

LEMMA TdxBaseStep == TdxBase /\ [Next]_vars => TdxBase'
BY SlotsStep, TypeStep, BudgetStep DEF TdxBase, TypeInv

\* Token requests, pages and retries together stay within the budget of a day.
THEOREM BudgetIsACeiling == Spec => []DailyCeiling
<1>1. TdxBase => DailyCeiling
  BY DEF TdxBase, BudgetInv
<1> QED BY <1>1, TdxBaseInit, TdxBaseStep, PTL DEF Spec

\* A day whose budget is spent stays so.
LEMMA SpentStays ==
  ASSUME TypeOK, BudgetInv, [Next]_vars, NEW d \in UTCDays, spent[d] = Budget
  PROVE  spent'[d] = Budget
<1>1. CASE Spend
  <2>1. Today # d /\ Today \in UTCDays /\ spent' = [spent EXCEPT ![Today] = @ + 1]
    BY <1>1, UsedTodayIsSpent, TdxAssumption DEF Spend, MaySpend
  <2> QED BY <2>1 DEF TypeOK
<1>2. CASE UNCHANGED spent
  BY <1>2
<1>3. Tick \/ SpendThrows \/ UNCHANGED budgetVars => UNCHANGED spent
  BY DEF Tick, SpendThrows, budgetVars
<1> QED BY <1>1, <1>2, <1>3, StepBudget

LEMMA RefusalIsTrue ==
  ASSUME TypeOK, BudgetInv, SpendThrows
  PROVE  spent'[DayOf(clock)] = Budget
<1>1. UsedToday = spent[Today] /\ UsedToday \in Nat /\ UsedToday <= Budget /\ ~(UsedToday < Budget)
  BY UsedTodayIsSpent DEF SpendThrows, MaySpend
<1>2. spent' = spent
  BY DEF SpendThrows
<1> QED BY <1>1, <1>2, TdxAssumption DEF Today

Ending == {"denied", "settled", "stored"}
Refusal == [issue |-> "budget-exceeded", rows |-> <<>>, at |-> clock]

\* Where a promise's result comes from: it is the one it had, no refusal for
\* want of budget, or such a refusal that has just been made.
LEMMA ResultSources ==
  ASSUME SlotsOK, TypeInv, [Next]_vars, NEW t \in Tasks, phase'[t] \in Ending
  PROVE  \/ (phase[t] \in Ending /\ result'[t] = result[t])
         \/ result'[t].issue # "budget-exceeded"
         \/ (SpendThrows /\ result'[t] = Refusal)
<1> DEFINE Sources ==
      \/ (phase[t] \in Ending /\ result'[t] = result[t])
      \/ result'[t].issue # "budget-exceeded"
      \/ (SpendThrows /\ result'[t] = Refusal)
<1>0. TypeOK /\ TaskData
  BY DEF TypeInv
<1>u. \A issue : Unknown(issue).issue = issue /\ Unknown("budget-exceeded") = Refusal
  BY DEF Unknown, Refusal
<1>1. ASSUME NEW u \in Tasks, NEW tok, GetToken(u, tok) PROVE Sources
  <2>1. CASE t = u
    BY <1>0, <1>1, <1>u, <2>1
       DEF GetToken, HaveToken, JoinToken, RequestToken, Deny, TypeOK, Ending
  <2>2. CASE t # u
    BY <1>0, <1>1, <2>2 DEF GetToken, HaveToken, JoinToken, RequestToken, Deny, TypeOK
  <2> QED BY <2>1, <2>2
<1>2. ASSUME NEW u \in Tasks, Resume(u) \/ NextPage(u) \/ Retry(u) PROVE Sources
  BY <1>1, <1>2 DEF Resume, NextPage, Retry
<1>3. ASSUME NEW u \in Tasks, AskPage(u) PROVE Sources
  BY <1>0, <1>3, <1>u DEF AskPage, Deny, TypeOK, Ending
<1>4. ASSUME NEW u \in Tasks, ProviderReturns(u) \/ Store(u) PROVE Sources
  BY <1>0, <1>4 DEF ProviderReturns, Store, TypeOK, Ending
<1>5. ASSUME NEW u \in Tasks, TokenReturns(u) PROVE Sources
  <2> DEFINE joined == {v \in Tasks : phase[v] = "token"}
  <2>1. CASE /\ phase' = [v \in Tasks |-> IF v \in joined THEN "armed" ELSE phase[v]]
             /\ UNCHANGED result
    BY <2>1 DEF Ending
  <2>2. CASE /\ phase' = [v \in Tasks |-> IF v \in joined THEN "denied" ELSE phase[v]]
             /\ result' = [v \in Tasks |-> IF v \in joined THEN Unknown("provider-error")
                                                           ELSE result[v]]
    BY <1>u, <2>2 DEF Ending
  <2> QED BY <1>5, <2>1, <2>2 DEF TokenReturns
<1>6. ASSUME NEW u \in Tasks, phase[u] \in {"returned", "denied"}, NEW res, Settle(u, res),
             \/ res.issue # "budget-exceeded"
             \/ (phase[u] = "denied" /\ res = result[u])
      PROVE  Sources
  <2>1. ReleaseSlot(u) /\ result' = [result EXCEPT ![u] = res]
    BY <1>6 DEF Settle
  <2>2. \A v \in Tasks \ {u} : phase'[v] = phase[v] \/ phase'[v] = "handed"
    BY <1>6, <2>1, ReleasePhase
  <2> QED BY <1>0, <1>6, <2>1, <2>2 DEF TypeOK, Ending
<1>7. ASSUME NEW u \in Tasks, Finish(u) \/ Fail(u) \/ Unwind(u) PROVE Sources
  BY <1>6, <1>7, <1>u DEF Finish, Fail, Unwind, Answered
<1>8. ASSUME NEW u \in Tasks, Deliver(u) PROVE Sources
  BY <1>0, <1>8 DEF Deliver, TypeOK, Ending
<1>9. ASSUME NEW q \in Queries, Query(q) PROVE Sources
  <2>1. CASE UNCHANGED <<phase, result>>
    BY <2>1
  <2>2. ASSUME NEW u \in Tasks, Queues(u) PROVE Sources
    BY <1>0, <2>2 DEF Queues, TypeOK, Ending
  <2>3. ASSUME NEW u \in Tasks, Starts(u) PROVE Sources
    BY <1>1, <2>3 DEF Starts
  <2> QED BY <1>9, <2>1, <2>2, <2>3, QueryCases
<1>10. Tick \/ UNCHANGED vars => UNCHANGED <<phase, result>>
  BY DEF Tick, vars
<1> QED BY <1>2, <1>3, <1>4, <1>5, <1>7, <1>8, <1>9, <1>10 DEF Next

LEMMA HonestStep == TdxBase /\ HonestRefusal /\ [Next]_vars => HonestRefusal'
<1> SUFFICES ASSUME TdxBase, HonestRefusal, [Next]_vars, NEW t \in Tasks, phase'[t] \in Ending,
                    result'[t].issue = "budget-exceeded"
             PROVE  spent'[DayOf(result'[t].at)] = Budget
  BY DEF HonestRefusal, Ending
<1>0. SlotsOK /\ TypeInv /\ TypeOK /\ TaskData /\ BudgetInv
  BY DEF TdxBase, TypeInv
<1>1. CASE phase[t] \in Ending /\ result'[t] = result[t]
  <2>1. result[t].at \in 0..MaxTime /\ spent[DayOf(result[t].at)] = Budget
    BY <1>0, <1>1 DEF TaskData, Result, HonestRefusal, Ending
  <2>2. DayOf(result[t].at) \in UTCDays
    BY <2>1, DayOfNat, DayOfMonotone, TdxAssumption DEF UTCDays
  <2> QED BY <1>0, <1>1, <2>1, <2>2, SpentStays
<1>2. CASE SpendThrows /\ result'[t] = Refusal
  <2>1. result'[t].at = clock
    BY <1>2 DEF Refusal
  <2> QED BY <1>0, <1>2, <2>1, RefusalIsTrue
<1> QED BY <1>0, <1>1, <1>2, ResultSources

\* A route is refused for want of budget only when that day's budget is spent.
THEOREM RefusalsAreHonest == Spec => []HonestRefusal
<1>1. Init => HonestRefusal
  BY DEF Init, HonestRefusal
<1> QED BY <1>1, TdxBaseInit, TdxBaseStep, HonestStep, PTL DEF Spec

-----------------------------------------------------------------------------
(***************************************************************************)
(* The shared token.                                                       *)
(***************************************************************************)

\* getToken ends with a token, as one who waits for the token request, which it
\* has made when there was none, or denied.
LEMMA GetTokenCases ==
  ASSUME TypeOK, NEW t \in Tasks, NEW tok, GetToken(t, tok)
  PROVE  \/ /\ tok # None /\ phase' = [phase EXCEPT ![t] = "armed"]
            /\ access' = [access EXCEPT ![t] = tok.id]
            /\ UNCHANGED <<budgetVars, tokenTask, tokenCalls, issued>>
         \/ /\ tokenTask # None /\ phase' = [phase EXCEPT ![t] = "token"]
            /\ UNCHANGED <<budgetVars, tokenTask, tokenCalls, access, issued>>
         \/ /\ tokenTask = None /\ Spend /\ phase' = [phase EXCEPT ![t] = "token"]
            /\ tokenTask' = t /\ tokenCalls' = tokenCalls \cup {t}
            /\ UNCHANGED <<access, issued>>
         \/ /\ SpendThrows /\ phase' = [phase EXCEPT ![t] = "denied"]
            /\ UNCHANGED <<tokenTask, tokenCalls, access, issued>>
BY DEF GetToken, HaveToken, UsableToken, JoinToken, RequestToken, NeedsTokenRequest, Deny

\* What a step that leaves the shared request alone may do to the phases.
LEMMA SameTokenRequest ==
  ASSUME OneTokenRequest, tokenCalls \subseteq Tasks, UNCHANGED <<tokenTask, tokenCalls>>,
         \A t \in Tasks : phase'[t] = "token" <=> phase[t] = "token"
  PROVE  OneTokenRequest'
BY TdxAssumption DEF OneTokenRequest

LEMMA TokenInit == Init => OneTokenRequest
BY DEF Init, OneTokenRequest

LEMMA TokenStep == SlotsOK /\ TypeOK /\ OneTokenRequest /\ [Next]_vars => OneTokenRequest'
<1> SUFFICES ASSUME SlotsOK, TypeOK, OneTokenRequest, [Next]_vars PROVE OneTokenRequest'
  OBVIOUS
<1>t. phase \in [Tasks -> Phases] /\ tokenCalls \subseteq Tasks /\ tokenTask \in Tasks \cup {None}
      /\ None \notin Tasks
  BY TdxAssumption DEF TypeOK
<1>1. ASSUME NEW t \in Tasks, NEW tok, GetToken(t, tok), phase[t] # "token"
      PROVE  OneTokenRequest'
  <2>1. CASE /\ tokenTask = None /\ phase' = [phase EXCEPT ![t] = "token"]
             /\ tokenTask' = t /\ tokenCalls' = tokenCalls \cup {t}
    BY <1>t, <2>1 DEF OneTokenRequest
  <2>2. CASE /\ tokenTask # None /\ phase' = [phase EXCEPT ![t] = "token"]
             /\ UNCHANGED <<tokenTask, tokenCalls>>
    BY <1>t, <2>2 DEF OneTokenRequest
  <2>3. ASSUME NEW p \in {"armed", "denied"}, phase' = [phase EXCEPT ![t] = p],
               UNCHANGED <<tokenTask, tokenCalls>>
        PROVE  OneTokenRequest'
    BY <1>1, <1>t, <2>3, SameTokenRequest
  <2> QED BY <1>1, <2>1, <2>2, <2>3, GetTokenCases
<1>2. ASSUME NEW t \in Tasks, Resume(t) \/ NextPage(t) \/ Retry(t) PROVE OneTokenRequest'
  BY <1>1, <1>2 DEF Resume, NextPage, Retry
<1>3. ASSUME NEW t \in Tasks, AskPage(t) \/ ProviderReturns(t) \/ Store(t) \/ Deliver(t)
      PROVE  OneTokenRequest'
  BY <1>3, <1>t, SameTokenRequest DEF AskPage, Deny, ProviderReturns, Store, Deliver, tokenVars
<1>4. ASSUME NEW t \in Tasks, TokenReturns(t) PROVE OneTokenRequest'
  <2>1. /\ t \in tokenCalls /\ tokenCalls' = tokenCalls \ {t} /\ tokenTask' = None
        /\ \A u \in Tasks : phase'[u] # "token"
    BY <1>4, TokenReturnsPhase DEF TokenReturns, SlotsOK
  <2>2. tokenCalls' = {}
    BY <2>1 DEF OneTokenRequest
  <2> QED BY <2>1, <2>2 DEF OneTokenRequest
<1>5. ASSUME NEW t \in Tasks, Finish(t) \/ Fail(t) \/ Unwind(t) PROVE OneTokenRequest'
  <2>1. phase[t] \in {"returned", "denied"} /\ ReleaseSlot(t) /\ UNCHANGED <<tokenTask, tokenCalls>>
    BY <1>5 DEF Finish, Fail, Unwind, Settle, tokenVars
  <2>2. \A u \in Tasks : phase'[u] = "token" <=> phase[u] = "token"
    BY <2>1, ReleasePhase
  <2> QED BY <1>t, <2>1, <2>2, SameTokenRequest
<1>6. ASSUME NEW q \in Queries, Query(q) PROVE OneTokenRequest'
  <2>1. CASE UNCHANGED <<tokenVars, phase>>
    BY <1>t, <2>1, SameTokenRequest DEF tokenVars
  <2>2. ASSUME NEW t \in Tasks, phase[t] = "idle", Queues(t) PROVE OneTokenRequest'
    BY <1>t, <2>2, SameTokenRequest DEF Queues, tokenVars
  <2>3. ASSUME NEW t \in Tasks, phase[t] = "idle", Starts(t) PROVE OneTokenRequest'
    BY <1>1, <2>3 DEF Starts
  <2> QED BY <1>6, <2>1, <2>2, <2>3, QueryCases
<1>7. Tick \/ UNCHANGED vars => OneTokenRequest'
  BY <1>t, SameTokenRequest DEF Tick, vars, tokenVars
<1> QED BY <1>2, <1>3, <1>4, <1>5, <1>6, <1>7 DEF Next

\* One token request is outstanding however many pages wait for it, and whoever
\* waits for a token waits for that request.
THEOREM TokenRequestsAreShared == Spec => []OneTokenRequest
<1>1. TdxBase => SlotsOK /\ TypeOK
  BY DEF TdxBase, TypeInv
<1> QED BY <1>1, TdxBaseInit, TdxBaseStep, TokenInit, TokenStep, PTL DEF Spec

\* Tokens are numbered as they are issued, so the next one is new to everyone;
\* a task that has not begun a page has no refused token.
TokenIds ==
  /\ token # None => token.id <= issued
  /\ \A t \in Tasks :
       /\ access[t] # None => access[t] <= issued
       /\ refused[t] # None => refused[t] <= issued
       /\ phase[t] \in {"idle", "queued", "handed"} => refused[t] = None

RetryInv == TokenIds /\ RetryUsesAnotherToken

\* A step that issues no token and neither arms a task nor refuses its token.
LEMMA SameTokens ==
  ASSUME RetryInv, UNCHANGED <<token, issued>>,
         \A t \in Tasks :
           /\ \/ (access'[t] = access[t] /\ refused'[t] = refused[t])
              \/ (access'[t] = None /\ refused'[t] = None)
           /\ phase'[t] \in {"armed", "asking"} =>
                /\ phase[t] \in {"armed", "asking"}
                /\ access'[t] = access[t] /\ refused'[t] = refused[t]
           /\ phase'[t] \in {"idle", "queued", "handed"} =>
                phase[t] \in {"idle", "queued", "handed"} \/ refused'[t] = None
  PROVE  RetryInv'
<1>1. TokenIds'
  BY DEF RetryInv, TokenIds
<1>2. RetryUsesAnotherToken'
  BY DEF RetryInv, RetryUsesAnotherToken
<1> QED BY <1>1, <1>2 DEF RetryInv

LEMMA RetryInit == Init => RetryInv
BY DEF Init, RetryInv, TokenIds, RetryUsesAnotherToken

\* getToken for a task whose page has refused no token, or when no token is left.
LEMMA GetTokenKeepsRetry ==
  ASSUME TypeOK, RetryInv, NEW t \in Tasks, NEW tok, GetToken(t, tok), token' \in {token, None},
         tok \in {token, None}, refused' \in [Tasks -> Nat \cup {None}],
         \A u \in Tasks \ {t} : refused'[u] = refused[u],
         refused'[t] # None => refused'[t] = access[t] /\ tok = None
  PROVE  RetryInv'
<1>0. /\ issued' = issued /\ issued \in Nat /\ None \notin Nat
      /\ phase \in [Tasks -> Phases] /\ access \in [Tasks -> Nat \cup {None}]
  BY TdxAssumption DEF TypeOK, GetToken
<1>1. \A u \in Tasks : refused'[u] # None => refused'[u] <= issued'
  BY <1>0 DEF RetryInv, TokenIds
<1>2. \E p \in {"armed", "token", "denied"} : phase' = [phase EXCEPT ![t] = p]
  BY GetTokenPhase
<1>3. token' # None => token'.id <= issued'
  BY <1>0 DEF RetryInv, TokenIds
<1>4. CASE access' = access /\ phase'[t] # "armed"
  BY <1>0, <1>1, <1>2, <1>3, <1>4 DEF RetryInv, TokenIds, RetryUsesAnotherToken
<1>5. CASE tok # None /\ access' = [access EXCEPT ![t] = tok.id]
  <2>1. tok = token /\ token # None /\ token.id \in Nat /\ token.id <= issued /\ refused'[t] = None
    BY <1>5 DEF RetryInv, TokenIds, TypeOK
  <2>2. access'[t] = token.id /\ \A u \in Tasks \ {t} : access'[u] = access[u] /\ phase'[u] = phase[u]
    BY <1>0, <1>2, <1>5, <2>1
  <2>3. phase'[t] \notin {"idle", "queued", "handed"}
    BY <1>0, <1>2
  <2>4. TokenIds'
    BY <1>0, <1>1, <1>3, <2>1, <2>2, <2>3 DEF RetryInv, TokenIds
  <2>5. RetryUsesAnotherToken'
    BY <1>0, <2>1, <2>2 DEF RetryInv, RetryUsesAnotherToken
  <2> QED BY <2>4, <2>5 DEF RetryInv
<1> QED BY <1>0, <1>4, <1>5, GetTokenCases

LEMMA RetryStep == SlotsOK /\ TypeOK /\ RetryInv /\ [Next]_vars => RetryInv'
<1> SUFFICES ASSUME SlotsOK, TypeOK, RetryInv, [Next]_vars PROVE RetryInv'
  OBVIOUS
<1>t. /\ phase \in [Tasks -> Phases] /\ issued \in Nat /\ None \notin Nat
      /\ access \in [Tasks -> Nat \cup {None}] /\ refused \in [Tasks -> Nat \cup {None}]
  BY TdxAssumption DEF TypeOK
<1>1. ASSUME NEW t \in Tasks, Resume(t) PROVE RetryInv'
  <2>1. GetToken(t, token) /\ phase[t] = "handed" /\ UNCHANGED <<token, refused>>
    BY <1>1 DEF Resume
  <2>2. refused[t] = None
    BY <2>1 DEF RetryInv, TokenIds
  <2> QED BY <1>t, <2>1, <2>2, GetTokenKeepsRetry
<1>2. ASSUME NEW t \in Tasks, NextPage(t) PROVE RetryInv'
  <2>1. GetToken(t, token) /\ refused' = [refused EXCEPT ![t] = None] /\ UNCHANGED token
    BY <1>2 DEF NextPage
  <2> QED BY <1>t, <2>1, GetTokenKeepsRetry
<1>3. ASSUME NEW t \in Tasks, Retry(t) PROVE RetryInv'
  <2>1. GetToken(t, None) /\ refused' = [refused EXCEPT ![t] = access[t]] /\ token' = None
    BY <1>3 DEF Retry, DropToken
  <2> QED BY <1>t, <2>1, GetTokenKeepsRetry
<1>4. ASSUME NEW t \in Tasks, AskPage(t) \/ ProviderReturns(t) \/ Store(t) PROVE RetryInv'
  BY <1>4, <1>t, SameTokens DEF AskPage, Deny, ProviderReturns, Store, tokenVars, pageVars
<1>5. ASSUME NEW t \in Tasks, TokenReturns(t) PROVE RetryInv'
  <2> DEFINE joined == {u \in Tasks : phase[u] = "token"}
  <2>1. UNCHANGED refused
    BY <1>5 DEF TokenReturns
  <2>2. CASE /\ phase' = [u \in Tasks |-> IF u \in joined THEN "denied" ELSE phase[u]]
             /\ UNCHANGED <<token, issued, access>>
    BY <1>t, <2>1, <2>2, SameTokens
  <2>3. ASSUME NEW life, issued' = issued + 1,
               token' = [id |-> issued + 1, until |-> clock + life],
               access' = [u \in Tasks |-> IF u \in joined THEN issued + 1 ELSE access[u]],
               phase' = [u \in Tasks |-> IF u \in joined THEN "armed" ELSE phase[u]]
        PROVE  RetryInv'
    <3>1. \A u \in Tasks : refused'[u] = refused[u] /\ (refused[u] # None => refused[u] < issued + 1)
      BY <1>t, <2>1 DEF RetryInv, TokenIds
    <3>2. \A u \in Tasks : access[u] # None => access[u] <= issued'
      BY <1>t, <2>3 DEF RetryInv, TokenIds
    <3>3. TokenIds'
      BY <1>t, <2>3, <3>1, <3>2 DEF RetryInv, TokenIds
    <3>4. RetryUsesAnotherToken'
      BY <1>t, <2>3, <3>1 DEF RetryInv, RetryUsesAnotherToken
    <3> QED BY <3>3, <3>4 DEF RetryInv
  <2> QED BY <1>5, <2>2, <2>3 DEF TokenReturns
<1>6. ASSUME NEW t \in Tasks, Finish(t) \/ Fail(t) \/ Unwind(t) PROVE RetryInv'
  <2>1. /\ phase[t] \in {"returned", "denied"} /\ ReleaseSlot(t)
        /\ UNCHANGED <<token, issued, access, refused>>
    BY <1>6 DEF Finish, Fail, Unwind, Settle, tokenVars
  <2>2. /\ phase'[t] = "settled"
        /\ \A u \in Tasks \ {t} : phase'[u] = phase[u] \/ (phase[u] = "queued" /\ phase'[u] = "handed")
    BY <2>1, ReleasePhase
  <2> QED BY <2>1, <2>2, SameTokens
<1>7. ASSUME NEW t \in Tasks, Deliver(t) PROVE RetryInv'
  BY <1>7, <1>t, SameTokens DEF Deliver, tokenVars
<1>8. ASSUME NEW q \in Queries, Query(q) PROVE RetryInv'
  <2>0. UNCHANGED refused
    BY <1>8 DEF Query
  <2>1. CASE UNCHANGED <<tokenVars, access, phase>>
    BY <2>0, <2>1, SameTokens DEF tokenVars
  <2>2. ASSUME NEW t \in Tasks, phase[t] = "idle", Queues(t) PROVE RetryInv'
    BY <1>t, <2>0, <2>2, SameTokens DEF Queues, tokenVars
  <2>3. ASSUME NEW t \in Tasks, phase[t] = "idle", Starts(t) PROVE RetryInv'
    <3>1. GetToken(t, token) /\ UNCHANGED token /\ refused[t] = None
      BY <2>3 DEF Starts, RetryInv, TokenIds
    <3> QED BY <1>t, <2>0, <3>1, GetTokenKeepsRetry
  <2> QED BY <1>8, <2>1, <2>2, <2>3, QueryCases
<1>9. Tick \/ UNCHANGED vars => RetryInv'
  BY SameTokens DEF Tick, vars, tokenVars, pageVars
<1> QED BY <1>1, <1>2, <1>3, <1>4, <1>5, <1>6, <1>7, <1>8, <1>9 DEF Next

\* The retry after a 401 never repeats the token that was refused.
THEOREM RetriesUseAnotherToken == Spec => []RetryUsesAnotherToken
<1>1. TdxBase => SlotsOK /\ TypeOK
  BY DEF TdxBase, TypeInv
<1>2. RetryInv => RetryUsesAnotherToken
  BY DEF RetryInv
<1> QED BY <1>1, <1>2, TdxBaseInit, TdxBaseStep, RetryInit, RetryStep, PTL DEF Spec

-----------------------------------------------------------------------------
(***************************************************************************)
(* The gateway is a metered provider client.                               *)
(***************************************************************************)

\* A task that holds a slot, or has just been given a free one, and makes the
\* request that spend() allows makes a call within the limits.
LEMMA SpendIsACall ==
  ASSUME SlotsOK, TypeOK, BudgetInv, NEW t \in Tasks, t \notin Calls, Calls \subseteq Holders,
         t \in Holders \/ (t \notin Holders /\ active < Slots),
         Spend, UNCHANGED clock, Calls' = Calls \cup {t}
  PROVE  PB!Call(t)
<1>1. /\ Today' = Today /\ spent[Today] < Budget
      /\ spent' = [spent EXCEPT ![Today] = @ + 1]
  BY UsedTodayIsSpent DEF Today, Spend, MaySpend
<1>2. IsFiniteSet(Holders) /\ IsFiniteSet(Calls) /\ Cardinality(Calls) \in Nat
  BY TasksFinite DEF Holders
<1>3. Cardinality(Calls) < Slots
  <2>1. CASE t \in Holders
    <3>1. Calls \cup {t} \subseteq Holders /\ Cardinality(Calls \cup {t}) = Cardinality(Calls) + 1
      BY <1>2, <2>1, FS_AddElement
    <3>2. Cardinality(Calls \cup {t}) <= Cardinality(Holders)
      BY <1>2, <3>1, FS_Subset
    <3> QED BY <1>2, <3>1, <3>2, TdxAssumption DEF SlotsOK, SlotTypes, SlotAccounting
  <2>2. CASE active < Slots
    <3>1. Cardinality(Calls) <= active
      BY <1>2, FS_Subset DEF SlotsOK, SlotAccounting
    <3> QED BY <1>2, <2>2, <3>1, TdxAssumption DEF SlotsOK, SlotTypes
  <2> QED BY <2>1, <2>2
<1>4. PB!Cardinality(Calls) = Cardinality(Calls)
  BY DEF PB!Cardinality, Cardinality
<1> HIDE DEF Calls
<1> QED BY <1>1, <1>3, <1>4 DEF PB!Call

LEMMA CallsHoldSlots ==
  ASSUME TypeOK, OneTokenRequest
  PROVE  /\ Calls \subseteq Holders /\ tokenCalls \subseteq Tasks
         /\ \A t \in Tasks : t \in Calls => phase[t] \in {"token", "asking"}
BY DEF TypeOK, OneTokenRequest, Calls, Holders

\* The calls change with the token requests and with the tasks that ask for a page.
LEMMA CallsChange ==
  ASSUME UNCHANGED tokenCalls, \A t \in Tasks : phase'[t] = "asking" <=> phase[t] = "asking"
  PROVE  Calls' = Calls
BY DEF Calls

LEMMA GetTokenCalls ==
  ASSUME SlotsOK, TypeOK, BudgetInv, OneTokenRequest, NEW t \in Tasks, NEW tok,
         phase[t] \in {"idle", "handed", "returned"}, phase[t] = "idle" => active < Slots,
         GetToken(t, tok), UNCHANGED clock
  PROVE  PB!Call(t) \/ UNCHANGED <<Today, Calls, spent>>
<1>1. Today' = Today /\ t \notin Calls /\ Calls \subseteq Holders
  BY CallsHoldSlots DEF Today
<1>2. t \in Holders \/ (t \notin Holders /\ active < Slots)
  BY DEF Holders
<1>3. \A u \in Tasks : phase'[u] = "asking" <=> phase[u] = "asking"
  BY GetTokenPhase DEF TypeOK
<1>4. CASE Spend /\ tokenCalls' = tokenCalls \cup {t}
  <2>1. Calls' = Calls \cup {t}
    BY <1>3, <1>4 DEF Calls
  <2> QED BY <1>1, <1>2, <1>4, <2>1, SpendIsACall
<1>5. CASE UNCHANGED <<tokenCalls, spent>>
  BY <1>1, <1>3, <1>5, CallsChange
<1> QED BY <1>4, <1>5, GetTokenCases DEF SpendThrows, budgetVars

LEMMA MeteredStep ==
  TdxBase /\ OneTokenRequest /\ [Next]_vars => [PB!Next]_(PB!vars)
<1> SUFFICES ASSUME TdxBase, OneTokenRequest, [Next]_vars
             PROVE  PB!Next \/ UNCHANGED <<Today, Calls, spent>>
  BY DEF PB!vars
<1> DEFINE Metered == PB!Next \/ UNCHANGED <<Today, Calls, spent>>
<1>0. SlotsOK /\ TypeInv /\ TypeOK /\ BudgetInv /\ phase \in [Tasks -> Phases]
  BY DEF TdxBase, TypeInv, TypeOK
<1>1. CASE Tick
  <2>1. clock \in Nat /\ clock' \in 0..MaxTime /\ clock <= clock'
    BY <1>0, <1>1, TdxAssumption DEF Tick, TypeOK
  <2>2. Today <= Today' /\ Today \in Nat
    BY <2>1, DayOfMonotone, DayOfNat DEF Today
  <2>3. Today' \in UTCDays /\ Today' \in Nat
    BY <2>1, DayOfMonotone, DayOfNat, TdxAssumption DEF Today, UTCDays
  <2>4. UNCHANGED <<spent, phase, tokenCalls>>
    BY <1>1 DEF Tick, budgetVars, tokenVars
  <2>5. Calls' = Calls
    BY <2>4, CallsChange
  <2>6. Today' = Today \/ Today' > Today
    BY <2>2, <2>3
  <2> QED BY <2>3, <2>4, <2>5, <2>6 DEF PB!Next, PB!Midnight
<1>2. ASSUME NEW t \in Tasks, NEW tok, GetToken(t, tok), UNCHANGED clock,
             phase[t] \in {"idle", "handed", "returned"}, phase[t] = "idle" => active < Slots
      PROVE  Metered
  <2>1. PB!Call(t) \/ UNCHANGED <<Today, Calls, spent>>
    BY <1>0, <1>2, GetTokenCalls
  <2> QED BY <2>1 DEF PB!Next
<1>3. ASSUME NEW t \in Tasks, Resume(t) \/ NextPage(t) \/ Retry(t) PROVE Metered
  BY <1>2, <1>3 DEF Resume, NextPage, Retry
<1>4. ASSUME NEW t \in Tasks, AskPage(t) PROVE Metered
  <2>1. phase[t] = "armed" /\ UNCHANGED <<clock, tokenCalls>>
    BY <1>4 DEF AskPage, tokenVars
  <2>2. CASE Spend /\ phase' = [phase EXCEPT ![t] = "asking"]
    <3>1. t \notin Calls /\ Calls \subseteq Holders /\ t \in Holders
      BY <1>0, <2>1, CallsHoldSlots DEF Holders
    <3>2. Calls' = Calls \cup {t}
      BY <1>0, <2>1, <2>2 DEF Calls
    <3> QED BY <1>0, <2>1, <2>2, <3>1, <3>2, SpendIsACall DEF PB!Next
  <2>3. CASE SpendThrows /\ phase' = [phase EXCEPT ![t] = "denied"]
    <3>1. Calls' = Calls
      BY <1>0, <2>1, <2>3, CallsChange
    <3> QED BY <2>1, <2>3, <3>1 DEF Today, SpendThrows
  <2> QED BY <1>4, <2>2, <2>3 DEF AskPage, Deny
<1>5. ASSUME NEW t \in Tasks, t \in Calls, Calls' = Calls \ {t}, UNCHANGED <<clock, spent>>
      PROVE  Metered
  BY <1>5 DEF PB!Next, PB!Return, Today
<1>6. ASSUME NEW t \in Tasks, ProviderReturns(t) PROVE Metered
  <2>1. /\ phase[t] = "asking" /\ phase' = [phase EXCEPT ![t] = "returned"]
        /\ UNCHANGED <<clock, spent, tokenCalls>>
    BY <1>6 DEF ProviderReturns, budgetVars, tokenVars
  <2>2. t \in Calls /\ Calls' = Calls \ {t}
    BY <1>0, <2>1 DEF Calls, OneTokenRequest
  <2> QED BY <1>5, <2>1, <2>2
<1>7. ASSUME NEW t \in Tasks, TokenReturns(t) PROVE Metered
  <2>1. t \in tokenCalls /\ tokenCalls' = tokenCalls \ {t} /\ UNCHANGED <<clock, spent>>
    BY <1>7 DEF TokenReturns, budgetVars
  <2>2. \A u \in Tasks : phase'[u] = "asking" <=> phase[u] = "asking"
    BY <1>0, <1>7, TokenReturnsPhase DEF SlotsOK
  <2>3. phase[t] = "token"
    BY <2>1 DEF OneTokenRequest
  <2>4. t \in Calls /\ Calls' = Calls \ {t}
    BY <2>1, <2>2, <2>3 DEF Calls
  <2> QED BY <1>5, <2>1, <2>4
<1>8. ASSUME NEW t \in Tasks, Finish(t) \/ Fail(t) \/ Unwind(t) PROVE Metered
  <2>1. /\ phase[t] \in {"returned", "denied"} /\ ReleaseSlot(t)
        /\ UNCHANGED <<clock, spent, tokenCalls>>
    BY <1>8 DEF Finish, Fail, Unwind, Settle, tokenVars, budgetVars
  <2>2. Calls' = Calls
    BY <1>0, <2>1, ReleasePhase, CallsChange
  <2> QED BY <2>1, <2>2 DEF Today
<1>9. ASSUME NEW t \in Tasks, Store(t) \/ Deliver(t) PROVE Metered
  <2>1. /\ phase[t] \in {"settled", "stored"} /\ UNCHANGED <<clock, spent, tokenCalls>>
        /\ \E p \in {"stored", "idle"} : phase' = [phase EXCEPT ![t] = p]
    BY <1>9 DEF Store, Deliver, tokenVars, budgetVars
  <2>2. Calls' = Calls
    BY <1>0, <2>1, CallsChange
  <2> QED BY <2>1, <2>2 DEF Today
<1>10. ASSUME NEW q \in Queries, Query(q) PROVE Metered
  <2>0. UNCHANGED clock
    BY <1>10 DEF Query
  <2>1. CASE UNCHANGED <<budgetVars, tokenVars, phase>>
    <3>1. Calls' = Calls
      BY <2>1, CallsChange DEF tokenVars
    <3> QED BY <2>0, <2>1, <3>1 DEF Today, budgetVars
  <2>2. ASSUME NEW t \in Tasks, phase[t] = "idle", Queues(t) PROVE Metered
    <3>1. Calls' = Calls
      BY <1>0, <2>2, CallsChange DEF Queues, tokenVars
    <3> QED BY <2>0, <2>2, <3>1 DEF Queues, Today, budgetVars
  <2>3. ASSUME NEW t \in Tasks, phase[t] = "idle", Starts(t) PROVE Metered
    BY <1>2, <2>0, <2>3 DEF Starts, SlotFree
  <2> QED BY <1>10, <2>1, <2>2, <2>3, QueryCases
<1>11. CASE UNCHANGED vars
  BY <1>11, CallsChange DEF vars, Today, tokenVars, budgetVars
<1> QED BY <1>1, <1>3, <1>4, <1>6, <1>7, <1>8, <1>9, <1>10, <1>11 DEF Next

\* The safety part of ImplementsBudget: token requests, pages and retries make
\* a client that never exceeds its concurrency and never its daily budget.
THEOREM GatewayIsMetered == Spec => PB!Init /\ [][PB!Next]_(PB!vars)
<1>1. Init => PB!Init
  <2>1. Init => Calls = {} /\ Today = 0
    BY TdxAssumption DEF Init, Calls, Today, DayOf
  <2> QED BY <2>1 DEF Init, PB!Init
<1>2. TdxBase => SlotsOK /\ TypeOK
  BY DEF TdxBase, TypeInv
<1> QED BY <1>1, <1>2, MeteredStep, TdxBaseInit, TdxBaseStep, TokenInit, TokenStep, PTL DEF Spec
-----------------------------------------------------------------------------
(***************************************************************************)
(* The map of snapshots.                                                   *)
(***************************************************************************)

\* Every entry after CacheSet is the new one or was there before.
LEMMA CacheSetEntries ==
  ASSUME cache \in Seq(Snapshot), NEW entry \in Snapshot, cache' = CacheSet(entry),
         NEW i \in DOMAIN cache'
  PROVE  cache'[i] = entry \/ \E j \in DOMAIN cache : cache'[i] = cache[j]
<1> DEFINE room == IF Len(cache) >= CacheCap THEN Tail(cache) ELSE cache
<1>1. /\ room \in Seq(Snapshot)
      /\ \A j \in 1..Len(room) : \E k \in DOMAIN cache : room[j] = cache[k]
  <2>1. CASE Len(cache) >= CacheCap
    <3>1. cache # <<>> /\ Len(cache) \in Nat
      BY <2>1, TdxAssumption
    <3>2. /\ Tail(cache) \in Seq(Snapshot) /\ Len(Tail(cache)) = Len(cache) - 1
          /\ \A j \in 1..Len(Tail(cache)) : Tail(cache)[j] = cache[j + 1]
      BY <3>1
    <3>3. \A j \in 1..Len(Tail(cache)) : j + 1 \in DOMAIN cache
      BY <3>1, <3>2
    <3> QED BY <2>1, <3>2, <3>3
  <2>2. CASE ~(Len(cache) >= CacheCap)
    BY <2>2
  <2> QED BY <2>1, <2>2
<1> HIDE DEF room
<1>2. CASE \E j \in DOMAIN room : room[j].route = entry.route
  <2>1. cache' = [j \in DOMAIN room |-> IF room[j].route = entry.route THEN entry ELSE room[j]]
    BY <1>2 DEF CacheSet, room
  <2>2. i \in 1..Len(room) /\ (cache'[i] = entry \/ cache'[i] = room[i])
    BY <1>1, <2>1
  <2> QED BY <1>1, <2>2
<1>3. CASE ~\E j \in DOMAIN room : room[j].route = entry.route
  <2>1. cache' = Append(room, entry)
    BY <1>3 DEF CacheSet, room
  <2>2. i \in 1..Len(room) + 1 /\ (i = Len(room) + 1 => cache'[i] = entry)
        /\ (i # Len(room) + 1 => i \in 1..Len(room) /\ cache'[i] = room[i])
    BY <1>1, <2>1
  <2> QED BY <1>1, <2>2
<1> QED BY <1>2, <1>3

\* The cache keeps one entry a pair, and at most CacheCap.
OneEntryPerRoute ==
  /\ Len(cache) <= CacheCap
  /\ \A i, j \in DOMAIN cache : cache[i].route = cache[j].route => i = j

LEMMA CacheSetKeepsBounds ==
  ASSUME cache \in Seq(Snapshot), OneEntryPerRoute, NEW entry \in Snapshot, cache' = CacheSet(entry)
  PROVE  OneEntryPerRoute'
<1> DEFINE room == IF Len(cache) >= CacheCap THEN Tail(cache) ELSE cache
<1>1. /\ room \in Seq(Snapshot) /\ Len(room) \in Nat /\ Len(room) < CacheCap
      /\ \A i, j \in 1..Len(room) : room[i].route = room[j].route => i = j
  <2>1. /\ Len(cache) \in Nat /\ Len(cache) <= CacheCap
        /\ \A i, j \in 1..Len(cache) : cache[i].route = cache[j].route => i = j
    BY DEF OneEntryPerRoute
  <2>2. CASE Len(cache) >= CacheCap
    <3>1. cache # <<>>
      BY <2>2, TdxAssumption
    <3>2. /\ Tail(cache) \in Seq(Snapshot) /\ Len(Tail(cache)) = Len(cache) - 1
          /\ \A i \in 1..Len(Tail(cache)) : Tail(cache)[i] = cache[i + 1]
      BY <3>1
    <3>3. ASSUME NEW i \in 1..Len(Tail(cache)), NEW j \in 1..Len(Tail(cache)),
                 Tail(cache)[i].route = Tail(cache)[j].route
          PROVE  i = j
      <4>1. i + 1 \in 1..Len(cache) /\ j + 1 \in 1..Len(cache)
        BY <2>1, <3>2
      <4>2. cache[i + 1].route = cache[j + 1].route
        BY <3>2, <3>3
      <4>3. i + 1 = j + 1
        BY <2>1, <4>1, <4>2
      <4> QED BY <4>3
    <3> QED BY <2>1, <2>2, <3>2, <3>3, TdxAssumption
  <2>3. CASE ~(Len(cache) >= CacheCap)
    BY <2>1, <2>3, TdxAssumption
  <2> QED BY <2>2, <2>3
<1> HIDE DEF room
<1>2. DOMAIN room = 1..Len(room)
  BY <1>1
<1>3. CASE \E i \in DOMAIN room : room[i].route = entry.route
  <2>1. cache' = [i \in DOMAIN room |-> IF room[i].route = entry.route THEN entry ELSE room[i]]
    BY <1>3 DEF CacheSet, room
  <2>2. /\ DOMAIN cache' = 1..Len(room) /\ cache' \in Seq(Snapshot)
        /\ \A i \in 1..Len(room) : cache'[i].route = room[i].route
    <3>1. /\ DOMAIN cache' = 1..Len(room)
          /\ \A i \in 1..Len(room) : cache'[i].route = room[i].route
      BY <1>2, <2>1
    <3> QED BY <3>1, CacheSetType
  <2>3. Len(cache') = Len(room)
    BY <1>1, <2>2
  <2> QED BY <1>1, <2>2, <2>3, TdxAssumption DEF OneEntryPerRoute
<1>4. CASE ~\E i \in DOMAIN room : room[i].route = entry.route
  <2>1. cache' = Append(room, entry)
    BY <1>4 DEF CacheSet, room
  <2>2. /\ Len(cache') = Len(room) + 1 /\ DOMAIN cache' = 1..Len(room) + 1
        /\ cache'[Len(room) + 1] = entry
        /\ \A i \in 1..Len(room) : cache'[i] = room[i]
    BY <1>1, <2>1
  <2>3. \A i \in 1..Len(room) : cache'[i].route # entry.route
    BY <1>2, <1>4, <2>2
  <2>4. ASSUME NEW i \in 1..Len(room) + 1, NEW j \in 1..Len(room) + 1,
               cache'[i].route = cache'[j].route
        PROVE  i = j
    <3>1. (i \in 1..Len(room) \/ i = Len(room) + 1) /\ (j \in 1..Len(room) \/ j = Len(room) + 1)
      BY <1>1
    <3> QED BY <1>1, <2>2, <2>3, <2>4, <3>1
  <2> QED BY <1>1, <2>2, <2>4, TdxAssumption DEF OneEntryPerRoute
<1> QED BY <1>3, <1>4

\* The only step that writes the cache stores an answered snapshot.
LEMMA CacheWrites ==
  ASSUME TypeInv, [Next]_vars
  PROVE  \/ UNCHANGED cache
         \/ \E t \in Tasks : \E entry \in Snapshot :
              /\ phase[t] = "settled" /\ result[t].issue = "answered"
              /\ entry.rows = result[t].rows
              /\ cache' = CacheSet(entry)
<1>1. ASSUME NEW t \in Tasks, Store(t), cache' # cache
      PROVE  \E entry \in Snapshot :
               /\ phase[t] = "settled" /\ result[t].issue = "answered"
               /\ entry.rows = result[t].rows
               /\ cache' = CacheSet(entry)
  <2> DEFINE entry == [route |-> route[t], rows |-> result[t].rows, at |-> result[t].at]
  <2>1. /\ phase[t] = "settled" /\ result[t].issue = "answered" /\ cache' = CacheSet(entry)
    BY <1>1 DEF Store
  <2>2. entry \in Snapshot
    BY <2>1 DEF TypeInv, TaskData, Snapshot, Result
  <2> QED BY <2>1, <2>2
<1>2. ASSUME NEW t \in Tasks,
             \/ Resume(t) \/ AskPage(t) \/ ProviderReturns(t) \/ TokenReturns(t)
             \/ NextPage(t) \/ Finish(t) \/ Retry(t) \/ Fail(t) \/ Unwind(t) \/ Deliver(t)
      PROVE  UNCHANGED cache
  BY <1>2 DEF Resume, AskPage, ProviderReturns, TokenReturns, NextPage, Finish, Retry, Fail,
              Unwind, Deliver
<1>3. Tick \/ (\E q \in Queries : Query(q)) \/ UNCHANGED vars => UNCHANGED cache
  BY DEF Tick, Query, vars
<1> QED BY <1>1, <1>2, <1>3 DEF Next

LEMMA CacheStep == TypeInv /\ OneEntryPerRoute /\ [Next]_vars => OneEntryPerRoute'
<1> SUFFICES ASSUME TypeInv, OneEntryPerRoute, [Next]_vars PROVE OneEntryPerRoute'
  OBVIOUS
<1>1. ASSUME NEW entry \in Snapshot, cache' = CacheSet(entry) PROVE OneEntryPerRoute'
  BY <1>1, CacheSetKeepsBounds DEF TypeInv, TypeOK
<1>2. CASE UNCHANGED cache
  BY <1>2 DEF OneEntryPerRoute
<1> QED BY <1>1, <1>2, CacheWrites

-----------------------------------------------------------------------------
(***************************************************************************)
(* The map of promises.                                                    *)
(***************************************************************************)

\* The entry of a pair is the promise that fetches it, and every promise that
\* has not been delivered has its entry.
Promises ==
  /\ IsFiniteSet(Pending) /\ Cardinality(Pending) <= PendingCap
  /\ \A t \in Tasks : phase[t] # "idle" => pending[route[t]] = t
  /\ \A r \in Pending : phase[pending[r]] # "idle" /\ route[pending[r]] = r

LEMMA PromisesInit == Init => Promises
<1> SUFFICES ASSUME Init PROVE Promises
  OBVIOUS
<1>1. Pending = {} /\ \A t \in Tasks : phase[t] = "idle"
  BY DEF Init, Pending
<1> QED BY <1>1, FS_EmptySet, TdxAssumption DEF Promises

LEMMA SamePromises ==
  ASSUME Promises, TypeInv, UNCHANGED <<pending, route>>,
         \A t \in Tasks : phase'[t] = "idle" <=> phase[t] = "idle"
  PROVE  Promises'
<1>1. Pending' = Pending /\ \A r \in Pending : pending[r] \in Tasks
  BY DEF Pending, TypeInv, TypeOK
<1> QED BY <1>1 DEF Promises

\* A new promise makes its entry while there is room for one.
LEMMA PromiseMade ==
  ASSUME Promises, TypeInv, NEW t \in Tasks, NEW r \in Routes, phase[t] = "idle",
         pending[r] = None, ~TooManyRoutes, pending' = [pending EXCEPT ![r] = t],
         route' = [route EXCEPT ![t] = r], phase'[t] # "idle",
         \A u \in Tasks \ {t} : phase'[u] = phase[u]
  PROVE  Promises'
<1>0. /\ pending \in [Routes -> Tasks \cup {None}] /\ route \in [Tasks -> Routes \cup {None}]
      /\ None \notin Tasks /\ \A u \in Tasks : phase[u] # "idle" => route[u] \in Routes
  BY TdxAssumption DEF TypeInv, TypeOK, TaskData
<1>1. Pending' = Pending \cup {r} /\ r \notin Pending
  BY <1>0 DEF Pending
<1>2. IsFiniteSet(Pending') /\ Cardinality(Pending') <= PendingCap
  <2>1. IsFiniteSet(Pending) /\ Cardinality(Pending) \in Nat
    BY FS_CardinalityType DEF Promises
  <2>2. Cardinality(Pending) < PendingCap
    BY <2>1, TdxAssumption DEF TooManyRoutes
  <2>3. IsFiniteSet(Pending') /\ Cardinality(Pending') = Cardinality(Pending) + 1
    BY <1>1, <2>1, FS_AddElement
  <2> QED BY <2>1, <2>2, <2>3, TdxAssumption
<1>3. ASSUME NEW u \in Tasks, phase'[u] # "idle" PROVE pending'[route'[u]] = u
  <2>1. CASE u = t
    BY <1>0, <2>1
  <2>2. CASE u # t
    <3>1. route'[u] = route[u] /\ pending[route[u]] = u /\ route[u] \in Routes
      BY <1>0, <1>3, <2>2 DEF Promises
    <3>2. route[u] # r
      BY <1>0, <3>1
    <3> QED BY <1>0, <3>1, <3>2
  <2> QED BY <2>1, <2>2
<1>4. ASSUME NEW s \in Pending' PROVE phase'[pending'[s]] # "idle" /\ route'[pending'[s]] = s
  <2>1. CASE s = r
    BY <1>0, <2>1
  <2>2. CASE s \in Pending
    <3>1. s \in Routes /\ pending[s] \in Tasks /\ s # r
      BY <1>0, <1>1, <2>2 DEF Pending
    <3>2. pending'[s] = pending[s] /\ pending[s] # t
      BY <1>0, <2>2, <3>1 DEF Promises
    <3> QED BY <1>0, <2>2, <3>1, <3>2 DEF Promises
  <2> QED BY <1>1, <2>1, <2>2
<1> QED BY <1>2, <1>3, <1>4 DEF Promises

LEMMA PromiseKept ==
  ASSUME Promises, TypeInv, NEW t \in Tasks, Deliver(t)
  PROVE  Promises'
<1>0. /\ pending \in [Routes -> Tasks \cup {None}] /\ route \in [Tasks -> Routes \cup {None}]
      /\ None \notin Tasks /\ \A u \in Tasks : phase[u] # "idle" => route[u] \in Routes
      /\ phase \in [Tasks -> Phases]
  BY TdxAssumption DEF TypeInv, TypeOK, TaskData
<1>1. /\ phase[t] = "stored" /\ pending' = [pending EXCEPT ![route[t]] = None]
      /\ phase' = [phase EXCEPT ![t] = "idle"] /\ route' = [route EXCEPT ![t] = None]
  BY DEF Deliver
<1>2. route[t] \in Routes /\ pending[route[t]] = t
  BY <1>0, <1>1 DEF Promises
<1>3. Pending' = Pending \ {route[t]} /\ route[t] \in Pending
  BY <1>0, <1>1, <1>2 DEF Pending
<1>4. IsFiniteSet(Pending') /\ Cardinality(Pending') <= PendingCap
  <2>1. IsFiniteSet(Pending) /\ Cardinality(Pending) \in Nat
    BY FS_CardinalityType DEF Promises
  <2>2. IsFiniteSet(Pending') /\ Cardinality(Pending') <= Cardinality(Pending)
        /\ Cardinality(Pending') \in Nat
    BY <1>3, <2>1, FS_Subset, FS_CardinalityType
  <2> QED BY <2>1, <2>2, TdxAssumption DEF Promises
<1>5. ASSUME NEW u \in Tasks, phase'[u] # "idle" PROVE pending'[route'[u]] = u
  <2>1. u # t /\ route'[u] = route[u] /\ pending[route[u]] = u /\ route[u] \in Routes
    BY <1>0, <1>1, <1>5 DEF Promises
  <2>2. route[u] # route[t]
    BY <1>2, <2>1
  <2> QED BY <1>0, <1>1, <2>1, <2>2
<1>6. ASSUME NEW s \in Pending' PROVE phase'[pending'[s]] # "idle" /\ route'[pending'[s]] = s
  <2>1. s \in Pending /\ s # route[t] /\ s \in Routes /\ pending[s] \in Tasks
    BY <1>0, <1>3 DEF Pending
  <2>2. pending'[s] = pending[s] /\ route[pending[s]] = s /\ phase[pending[s]] # "idle"
    BY <1>0, <1>1, <2>1 DEF Promises
  <2>3. pending[s] # t
    BY <2>1, <2>2
  <2> QED BY <1>0, <1>1, <2>1, <2>2, <2>3
<1> QED BY <1>4, <1>5, <1>6 DEF Promises

LEMMA PromisesStep == SlotsOK /\ TypeInv /\ Promises /\ [Next]_vars => Promises'
<1> SUFFICES ASSUME SlotsOK, TypeInv, Promises, [Next]_vars PROVE Promises'
  OBVIOUS
<1>t. phase \in [Tasks -> Phases] /\ phase' \in [Tasks -> Phases]
  BY SlotsStep DEF SlotsOK, SlotTypes
<1>1. ASSUME NEW t \in Tasks, NEW p, phase[t] # "idle", p # "idle",
             phase' = [phase EXCEPT ![t] = p], UNCHANGED <<pending, route>>
      PROVE  Promises'
  BY <1>t, <1>1, SamePromises
<1>2. ASSUME NEW t \in Tasks, Resume(t) \/ NextPage(t) \/ Retry(t) PROVE Promises'
  <2>1. /\ phase[t] # "idle" /\ UNCHANGED <<pending, route>>
        /\ \E tok : GetToken(t, tok)
    BY <1>2 DEF Resume, NextPage, Retry
  <2> QED BY <1>1, <2>1, GetTokenPhase
<1>3. ASSUME NEW t \in Tasks, AskPage(t) \/ ProviderReturns(t) \/ Store(t) PROVE Promises'
  BY <1>1, <1>3 DEF AskPage, Deny, ProviderReturns, Store, pageVars
<1>4. ASSUME NEW t \in Tasks, TokenReturns(t) PROVE Promises'
  <2>1. UNCHANGED <<pending, route>>
    BY <1>4 DEF TokenReturns
  <2>2. \A u \in Tasks : phase'[u] = "idle" <=> phase[u] = "idle"
    BY <1>4, TokenReturnsPhase DEF SlotsOK
  <2> QED BY <2>1, <2>2, SamePromises
<1>5. ASSUME NEW t \in Tasks, Finish(t) \/ Fail(t) \/ Unwind(t) PROVE Promises'
  <2>1. /\ phase[t] \in {"returned", "denied"} /\ ReleaseSlot(t) /\ UNCHANGED <<pending, route>>
    BY <1>5 DEF Finish, Fail, Unwind, Settle
  <2>2. \A u \in Tasks : phase'[u] = "idle" <=> phase[u] = "idle"
    BY <2>1, ReleasePhase
  <2> QED BY <2>1, <2>2, SamePromises
<1>6. ASSUME NEW q \in Queries, Query(q) PROVE Promises'
  <2>1. CASE UNCHANGED <<pending, route, phase>>
    BY <2>1, SamePromises
  <2>2. ASSUME NEW r \in Routes, NEW t \in Tasks, phase[t] = "idle", pending[r] = None,
               ~TooManyRoutes, pending' = [pending EXCEPT ![r] = t],
               route' = [route EXCEPT ![t] = r], Queues(t) \/ Starts(t)
        PROVE  Promises'
    <3>1. \E p \in {"queued", "armed", "token", "denied"} : phase' = [phase EXCEPT ![t] = p]
      BY <2>2, GetTokenPhase DEF Queues, Starts
    <3>2. phase'[t] # "idle" /\ \A u \in Tasks \ {t} : phase'[u] = phase[u]
      BY <1>t, <3>1
    <3> QED BY <2>2, <3>2, PromiseMade
  <2> QED BY <1>6, <2>1, <2>2, QueryCases
<1>7. Tick \/ UNCHANGED vars => Promises'
  BY SamePromises DEF Tick, vars, pageVars
<1> QED BY <1>2, <1>3, <1>4, <1>5, <1>6, <1>7, PromiseKept DEF Next

\* One promise for a pair, no more pairs than the bound, and one cache entry a
\* pair, within its bound.
THEOREM MemoryIsBounded == Spec => []BoundedMemory
<1>1. Init => OneEntryPerRoute
  BY TdxAssumption DEF Init, OneEntryPerRoute
<1>2. Promises /\ OneEntryPerRoute => BoundedMemory
  BY DEF Promises, OneEntryPerRoute, BoundedMemory
<1>3. TdxBase => SlotsOK /\ TypeInv
  BY DEF TdxBase
<1> QED BY <1>1, <1>2, <1>3, TdxBaseInit, TdxBaseStep, PromisesInit, PromisesStep, CacheStep,
           PTL DEF Spec

-----------------------------------------------------------------------------
(***************************************************************************)
(* The snapshots.                                                          *)
(***************************************************************************)

\* Until it ends a task has collected the pages before its page, all full.
Collected(pages, n) ==
  /\ Len(pages) = n
  /\ \A i \in 1..n : pages[i] = [page |-> i - 1, full |-> TRUE]

InOrder(t) ==
  /\ phase[t] \in {"idle", "queued", "handed"} => page[t] = 0
  /\ phase[t] \notin {"settled", "stored"} => Collected(rows[t], page[t])
  /\ phase[t] = "denied" => result[t].issue # "answered"
  /\ phase[t] \in {"settled", "stored"} /\ result[t].issue = "answered" =>
       Complete(result[t].rows)

PagesInOrder == \A t \in Tasks : InOrder(t)

\* One full page more.
LEMMA FullPage ==
  ASSUME NEW pages \in Seq(Page), NEW n \in Nat, Collected(pages, n)
  PROVE  Collected(Append(pages, [page |-> n, full |-> TRUE]), n + 1)
<1> DEFINE last == [page |-> n, full |-> TRUE]
           more == Append(pages, last)
<1>1. /\ Len(more) = Len(pages) + 1 /\ more[Len(pages) + 1] = last
      /\ \A i \in 1..Len(pages) : more[i] = pages[i]
  OBVIOUS
<1>2. Len(pages) = n /\ \A i \in 1..n : pages[i] = [page |-> i - 1, full |-> TRUE]
  BY DEF Collected
<1>3. Len(more) = n + 1 /\ more[n + 1] = last /\ \A i \in 1..n : more[i] = pages[i]
  BY <1>1, <1>2
<1> HIDE DEF more
<1>4. ASSUME NEW i \in 1..n + 1 PROVE more[i] = [page |-> i - 1, full |-> TRUE]
  <2>1. CASE i = n + 1
    BY <1>3, <2>1
  <2>2. CASE i \in 1..n
    BY <1>2, <1>3, <2>2
  <2> QED BY <2>1, <2>2
<1> QED BY <1>3, <1>4 DEF Collected, more

\* A short page makes a whole timetable of them.
LEMMA ShortPage ==
  ASSUME NEW pages \in Seq(Page), NEW n \in 0..MaxPages-1, Collected(pages, n)
  PROVE  Complete(Append(pages, [page |-> n, full |-> FALSE]))
<1> DEFINE last == [page |-> n, full |-> FALSE]
           all == Append(pages, last)
<1>1. /\ Len(all) = Len(pages) + 1 /\ all[Len(pages) + 1] = last
      /\ \A i \in 1..Len(pages) : all[i] = pages[i]
      /\ all # <<>> /\ DOMAIN all = 1..Len(pages) + 1
  OBVIOUS
<1>2. n \in Nat /\ n + 1 <= MaxPages /\ Len(pages) = n
      /\ \A i \in 1..n : pages[i] = [page |-> i - 1, full |-> TRUE]
  BY TdxAssumption DEF Collected
<1>3. /\ Len(all) = n + 1 /\ all[n + 1] = last /\ \A i \in 1..n : all[i] = pages[i]
      /\ DOMAIN all = 1..n + 1 /\ all # <<>>
  BY <1>1, <1>2
<1> HIDE DEF all
<1>4. ASSUME NEW i \in 1..n + 1 PROVE all[i] = [page |-> i - 1, full |-> i < Len(all)]
  <2>1. CASE i = n + 1
    <3>1. i - 1 = n /\ (i < Len(all)) = FALSE
      BY <1>2, <1>3, <2>1
    <3> QED BY <1>3, <2>1, <3>1
  <2>2. CASE i \in 1..n
    <3>1. (i < Len(all)) = TRUE
      BY <1>2, <1>3, <2>2
    <3> QED BY <1>2, <1>3, <2>2, <3>1
  <2> QED BY <1>2, <2>1, <2>2
<1> QED BY <1>2, <1>3, <1>4 DEF Complete, all

\* A task whose step neither moves its page nor gives it an answer.
LEMMA StaysInOrder ==
  ASSUME NEW t \in Tasks, InOrder(t), page'[t] = page[t], rows'[t] = rows[t],
         \/ (phase'[t] = phase[t] /\ result'[t] = result[t])
         \/ (phase[t] \notin {"settled", "stored"} /\ phase'[t] \in {"token", "armed", "asking", "returned"})
         \/ (phase[t] = "queued" /\ phase'[t] = "handed")
         \/ (phase[t] = "idle" /\ phase'[t] = "queued")
         \/ (phase[t] \notin {"settled", "stored"} /\ phase'[t] = "denied" /\ result'[t].issue # "answered")
         \/ (phase'[t] = "settled" /\ result'[t].issue # "answered")
         \/ (phase[t] = "settled" /\ phase'[t] = "stored" /\ result'[t] = result[t])
  PROVE  InOrder(t)'
BY DEF InOrder

LEMMA OrderInit == Init => PagesInOrder
<1> SUFFICES ASSUME Init, NEW t \in Tasks PROVE InOrder(t)
  BY DEF PagesInOrder
<1>1. phase[t] = "idle" /\ page[t] = 0 /\ rows[t] = <<>>
  BY DEF Init
<1>2. Collected(<<>>, 0)
  BY DEF Collected
<1> QED BY <1>1, <1>2 DEF InOrder

\* getToken for a task that holds a slot or begins: only its own order can change.
LEMMA GetTokenInOrder ==
  ASSUME TypeOK, NEW t \in Tasks, NEW tok, GetToken(t, tok)
  PROVE  /\ \/ phase'[t] \in {"token", "armed"}
            \/ (phase'[t] = "denied" /\ result'[t].issue # "answered")
         /\ \A u \in Tasks \ {t} : phase'[u] = phase[u] /\ result'[u] = result[u]
<1>1. Unknown("budget-exceeded").issue # "answered"
  BY DEF Unknown
<1> QED BY <1>1 DEF GetToken, HaveToken, JoinToken, RequestToken, Deny, TypeOK

LEMMA OrderStep == SlotsOK /\ TypeOK /\ PagesInOrder /\ [Next]_vars => PagesInOrder'
<1> SUFFICES ASSUME SlotsOK, TypeOK, PagesInOrder, [Next]_vars, NEW u \in Tasks PROVE InOrder(u)'
  BY DEF PagesInOrder
<1>0. InOrder(u)
  BY DEF PagesInOrder
<1>t. /\ phase \in [Tasks -> Phases] /\ page \in [Tasks -> 0..MaxPages-1]
      /\ rows \in [Tasks -> Seq(Page)] /\ result \in [Tasks -> Result \cup {None}]
  BY DEF TypeOK
<1>i. \A issue : Unknown(issue).issue = issue
  BY DEF Unknown
<1>1. ASSUME NEW t \in Tasks, NEW tok, GetToken(t, tok), phase[t] \notin {"settled", "stored"},
             UNCHANGED <<page, rows>>
      PROVE  InOrder(u)'
  BY <1>0, <1>1, GetTokenInOrder, StaysInOrder
<1>2. ASSUME NEW t \in Tasks, Resume(t) \/ Retry(t) PROVE InOrder(u)'
  BY <1>1, <1>2 DEF Resume, Retry
<1>3. ASSUME NEW t \in Tasks, NextPage(t) PROVE InOrder(u)'
  <2>1. /\ GetToken(t, token) /\ phase[t] = "returned" /\ page' = [page EXCEPT ![t] = @ + 1]
        /\ rows' = [rows EXCEPT ![t] = Append(@, [page |-> page[t], full |-> TRUE])]
    BY <1>3 DEF NextPage, AddPage
  <2>2. CASE u = t
    <3>1. page[t] \in Nat /\ rows[t] \in Seq(Page) /\ Collected(rows[t], page[t])
      BY <1>0, <1>t, <2>1, <2>2, TdxAssumption DEF InOrder
    <3>2. Collected(rows'[t], page'[t])
      BY <1>t, <2>1, <3>1, FullPage
    <3> QED BY <2>1, <2>2, <3>2, GetTokenInOrder DEF InOrder
  <2>3. CASE u # t
    BY <1>0, <1>t, <2>1, <2>3, GetTokenInOrder, StaysInOrder
  <2> QED BY <2>2, <2>3
<1>4. ASSUME NEW t \in Tasks, AskPage(t) PROVE InOrder(u)'
  <2>1. phase[t] = "armed" /\ UNCHANGED <<page, rows>>
    BY <1>4 DEF AskPage, pageVars
  <2>2. CASE phase' = [phase EXCEPT ![t] = "asking"] /\ UNCHANGED result
    BY <1>0, <1>t, <2>1, <2>2, StaysInOrder
  <2>3. CASE Deny(t, "budget-exceeded")
    <3>1. /\ phase' = [phase EXCEPT ![t] = "denied"]
          /\ result' = [result EXCEPT ![t] = Unknown("budget-exceeded")]
      BY <2>3 DEF Deny
    <3> QED BY <1>0, <1>i, <1>t, <2>1, <3>1, StaysInOrder
  <2> QED BY <1>4, <2>2, <2>3 DEF AskPage
<1>5. ASSUME NEW t \in Tasks, ProviderReturns(t) \/ Store(t) PROVE InOrder(u)'
  BY <1>0, <1>5, <1>t, StaysInOrder DEF ProviderReturns, Store, pageVars
<1>6. ASSUME NEW t \in Tasks, TokenReturns(t) PROVE InOrder(u)'
  <2> DEFINE joined == {v \in Tasks : phase[v] = "token"}
  <2>1. UNCHANGED <<page, rows>>
    BY <1>6 DEF TokenReturns
  <2>2. CASE /\ phase' = [v \in Tasks |-> IF v \in joined THEN "armed" ELSE phase[v]]
             /\ UNCHANGED result
    BY <1>0, <2>1, <2>2, StaysInOrder
  <2>3. CASE /\ phase' = [v \in Tasks |-> IF v \in joined THEN "denied" ELSE phase[v]]
             /\ result' = [v \in Tasks |-> IF v \in joined THEN Unknown("provider-error")
                                                           ELSE result[v]]
    BY <1>0, <1>i, <2>1, <2>3, StaysInOrder
  <2> QED BY <1>6, <2>2, <2>3 DEF TokenReturns
<1>7. ASSUME NEW t \in Tasks, phase[t] \in {"returned", "denied"}, ReleaseSlot(t),
             NEW res, result' = [result EXCEPT ![t] = res], UNCHANGED page,
             \A v \in Tasks \ {t} : rows'[v] = rows[v],
             res.issue = "answered" => Complete(res.rows)
      PROVE  InOrder(u)'
  <2>1. /\ phase'[t] = "settled" /\ result'[t] = res
        /\ \A v \in Tasks \ {t} : /\ (phase'[v] = phase[v] \/ (phase[v] = "queued" /\ phase'[v] = "handed"))
                                  /\ result'[v] = result[v]
    BY <1>7, <1>t, ReleasePhase
  <2>2. CASE u = t
    BY <1>7, <2>1, <2>2 DEF InOrder
  <2>3. CASE u # t
    BY <1>0, <1>7, <2>1, <2>3, StaysInOrder
  <2> QED BY <2>2, <2>3
<1>8. ASSUME NEW t \in Tasks, Finish(t) PROVE InOrder(u)'
  <2>1. /\ phase[t] = "returned" /\ reply[t] = "short" /\ ReleaseSlot(t) /\ UNCHANGED page
        /\ rows' = [rows EXCEPT ![t] = Append(@, [page |-> page[t], full |-> FALSE])]
        /\ result' = [result EXCEPT ![t] = Answered(rows'[t], clock)]
    BY <1>8 DEF Finish, EndsSnapshot, AddPage, Settle
  <2>2. InOrder(t)
    BY DEF PagesInOrder
  <2>3. page[t] \in 0..MaxPages-1 /\ rows[t] \in Seq(Page) /\ Collected(rows[t], page[t])
    BY <1>t, <2>1, <2>2 DEF InOrder
  <2>4. Complete(rows'[t])
    BY <1>t, <2>1, <2>3, ShortPage
  <2>5. Answered(rows'[t], clock).rows = rows'[t]
    BY DEF Answered
  <2>6. \A v \in Tasks \ {t} : rows'[v] = rows[v]
    BY <1>t, <2>1
  <2> QED BY <1>7, <2>1, <2>4, <2>5, <2>6
<1>9. ASSUME NEW t \in Tasks, Fail(t) PROVE InOrder(u)'
  <2>1. /\ phase[t] = "returned" /\ ReleaseSlot(t) /\ UNCHANGED <<page, rows>>
        /\ result' = [result EXCEPT ![t] = Unknown("provider-error")]
    BY <1>9 DEF Fail, Settle
  <2> QED BY <1>7, <1>i, <2>1
<1>10. ASSUME NEW t \in Tasks, Unwind(t) PROVE InOrder(u)'
  <2>1. InOrder(t)
    BY DEF PagesInOrder
  <2>2. /\ phase[t] = "denied" /\ ReleaseSlot(t) /\ UNCHANGED <<page, rows>>
        /\ result' = [result EXCEPT ![t] = result[t]]
    BY <1>10 DEF Unwind, Settle
  <2>3. result[t].issue # "answered"
    BY <2>1, <2>2 DEF InOrder
  <2> QED BY <1>7, <2>2, <2>3
<1>11. ASSUME NEW t \in Tasks, Deliver(t) PROVE InOrder(u)'
  <2>1. /\ phase' = [phase EXCEPT ![t] = "idle"] /\ page' = [page EXCEPT ![t] = 0]
        /\ rows' = [rows EXCEPT ![t] = <<>>] /\ result' = [result EXCEPT ![t] = None]
    BY <1>11 DEF Deliver
  <2>2. CASE u = t
    <3>1. Collected(<<>>, 0)
      BY DEF Collected
    <3> QED BY <1>t, <2>1, <2>2, <3>1 DEF InOrder
  <2>3. CASE u # t
    BY <1>0, <1>t, <2>1, <2>3, StaysInOrder
  <2> QED BY <2>2, <2>3
<1>12. ASSUME NEW q \in Queries, Query(q) PROVE InOrder(u)'
  <2>0. UNCHANGED <<page, rows>>
    BY <1>12 DEF Query
  <2>1. CASE UNCHANGED <<phase, result>>
    BY <1>0, <2>0, <2>1, StaysInOrder
  <2>2. ASSUME NEW t \in Tasks, phase[t] = "idle", Queues(t) PROVE InOrder(u)'
    BY <1>0, <1>t, <2>0, <2>2, StaysInOrder DEF Queues
  <2>3. ASSUME NEW t \in Tasks, phase[t] = "idle", Starts(t) PROVE InOrder(u)'
    BY <1>1, <2>0, <2>3 DEF Starts
  <2> QED BY <1>12, <2>1, <2>2, <2>3, QueryCases
<1>13. Tick \/ UNCHANGED vars => InOrder(u)'
  BY <1>0, StaysInOrder DEF Tick, vars, pageVars
<1> QED BY <1>2, <1>3, <1>4, <1>5, <1>6, <1>8, <1>9, <1>10, <1>11, <1>12, <1>13 DEF Next

\* Whatever is cached is a whole timetable.
CacheComplete == \A i \in DOMAIN cache : Complete(cache[i].rows)

LEMMA CacheCompleteStep ==
  TypeInv /\ PagesInOrder /\ CacheComplete /\ [Next]_vars => CacheComplete'
<1> SUFFICES ASSUME TypeInv, PagesInOrder, CacheComplete, [Next]_vars PROVE CacheComplete'
  OBVIOUS
<1>1. ASSUME NEW t \in Tasks, NEW entry \in Snapshot, phase[t] = "settled",
             result[t].issue = "answered", entry.rows = result[t].rows, cache' = CacheSet(entry)
      PROVE  CacheComplete'
  <2>1. Complete(entry.rows)
    BY <1>1 DEF PagesInOrder, InOrder
  <2> SUFFICES ASSUME NEW i \in DOMAIN cache' PROVE Complete(cache'[i].rows)
    BY DEF CacheComplete
  <2>2. cache'[i] = entry \/ \E j \in DOMAIN cache : cache'[i] = cache[j]
    BY <1>1, CacheSetEntries DEF TypeInv, TypeOK
  <2> QED BY <2>1, <2>2 DEF CacheComplete
<1>2. CASE UNCHANGED cache
  BY <1>2 DEF CacheComplete
<1> QED BY <1>1, <1>2, CacheWrites

Ask == [route : Routes, since : 0..MaxTime]

\* An open query awaits a snapshot no older than the query itself, and what is
\* answered is whole and was fresh when it was asked for.
Awaiting ==
  \A q \in Queries :
    /\ status[q] # "open" => awaits[q] = None
    /\ status[q] # "idle" => ask[q] \in Ask /\ ask[q].since <= clock
    /\ status[q] = "open" =>
         \A t \in Tasks : awaits[q] = t /\ phase[t] \in {"settled", "stored"}
                            /\ result[t].issue = "answered" => result[t].at >= ask[q].since
    /\ status[q] = "done" /\ answer[q].issue = "answered" =>
         /\ Complete(answer[q].rows)
         /\ answer[q].at + TTL > ask[q].since

LEMMA AwaitingInit == Init => Awaiting
BY DEF Init, Awaiting

\* A step that touches no query and settles no promise with an answer, unless
\* the answer is of now.
LEMMA AwaitingKept ==
  ASSUME Awaiting, TypeOK, UNCHANGED queryVars, clock' \in {clock, clock + 1},
         \A t \in Tasks :
           phase'[t] \in {"settled", "stored"} /\ result'[t].issue = "answered" =>
             \/ (phase[t] \in {"settled", "stored"} /\ result'[t] = result[t])
             \/ result'[t].at = clock
  PROVE  Awaiting'
<1>1. clock \in Nat /\ \A q \in Queries : ask[q] \in Ask => ask[q].since \in Nat
  BY TdxAssumption DEF TypeOK, Ask
<1>2. status' = status /\ ask' = ask /\ awaits' = awaits /\ answer' = answer
  BY DEF queryVars
<1> SUFFICES ASSUME NEW q \in Queries
             PROVE  /\ status[q] # "idle" => ask[q].since <= clock'
                    /\ status[q] = "open" =>
                         \A t \in Tasks : awaits[q] = t /\ phase'[t] \in {"settled", "stored"}
                           /\ result'[t].issue = "answered" => result'[t].at >= ask[q].since
  BY <1>2 DEF Awaiting
<1>3. status[q] # "idle" => ask[q].since \in Nat /\ ask[q].since <= clock
  BY <1>1 DEF Awaiting
<1>4. status[q] # "idle" => ask[q].since <= clock'
  BY <1>1, <1>3
<1>5. ASSUME status[q] = "open", NEW t \in Tasks, awaits[q] = t,
             phase'[t] \in {"settled", "stored"}, result'[t].issue = "answered"
      PROVE  result'[t].at >= ask[q].since
  <2>1. CASE phase[t] \in {"settled", "stored"} /\ result'[t] = result[t]
    BY <1>5, <2>1 DEF Awaiting
  <2>2. CASE result'[t].at = clock
    BY <1>1, <1>3, <1>5, <2>2
  <2> QED BY <1>5, <2>1, <2>2
<1> QED BY <1>4, <1>5

\* A query that is answered at once, or that joins or starts a promise; no
\* promise has ended between two events.
LEMMA AwaitingAsked ==
  ASSUME Awaiting, TypeOK, CacheComplete, NEW q \in Queries, Query(q)
  PROVE  Awaiting'
<1>0. /\ clock' = clock /\ BetweenEvents /\ clock \in 0..MaxTime /\ clock \in Nat /\ None \notin Nat
      /\ status \in [Queries -> {"idle", "open", "done"}] /\ TTL \in Nat \ {0}
      /\ ask \in [Queries -> Ask \cup {None}]
      /\ awaits \in [Queries -> Tasks \cup {None}] /\ answer \in [Queries -> Result \cup {None}]
  BY TdxAssumption DEF Query, TypeOK, Ask
<1>1. PICK r \in Routes, inWindow \in BOOLEAN :
        /\ ask' = [ask EXCEPT ![q] = [route |-> r, since |-> clock]]
        /\ \/ OutOfRange(q, r, inWindow)
           \/ ServeCached(q, r) \/ RefuseRoute(q, r) \/ JoinRoute(q, r) \/ StartRoute(q, r)
  BY DEF Query
<1>2. /\ ask'[q].since = clock /\ ask'[q] \in Ask
      /\ \A p \in Queries \ {q} : ask'[p] = ask[p]
  <2>1. [route |-> r, since |-> clock].since = clock /\ [route |-> r, since |-> clock] \in Ask
    BY <1>0 DEF Ask
  <2> QED BY <1>0, <1>1, <2>1
<1>3. \A t \in Tasks : phase[t] \notin {"settled", "stored"} /\ phase'[t] \notin {"settled", "stored"}
  <2>1. \A t \in Tasks : phase[t] \notin {"settled", "stored"}
    BY <1>0 DEF BetweenEvents
  <2>2. CASE UNCHANGED phase
    BY <2>1, <2>2
  <2>3. ASSUME NEW t \in Tasks, Queues(t) \/ Starts(t)
        PROVE  \E p \in {"queued", "armed", "token", "denied"} : phase' = [phase EXCEPT ![t] = p]
    BY <2>3, GetTokenPhase DEF Queues, Starts
  <2> QED BY <2>1, <2>2, <2>3, QueryCases DEF TypeOK
<1>4. ASSUME NEW res, AnswerNow(q, res),
             res.issue = "answered" => Complete(res.rows) /\ res.at + TTL > clock
      PROVE  Awaiting'
  <2>1. /\ status[q] # "open" /\ answer' = [answer EXCEPT ![q] = res]
        /\ status' = [status EXCEPT ![q] = "done"] /\ awaits' = awaits
    BY <1>4 DEF AnswerNow, Query
  <2> QED BY <1>0, <1>2, <1>3, <1>4, <2>1 DEF Awaiting
<1>5. ASSUME NEW t, Await(q, t) PROVE Awaiting'
  BY <1>0, <1>2, <1>3, <1>5 DEF Await, Awaiting
<1>6. CASE OutOfRange(q, r, inWindow) \/ RefuseRoute(q, r)
  BY <1>4, <1>6 DEF OutOfRange, RefuseRoute, Unknown
<1>7. CASE ServeCached(q, r)
  <2>1. PICK i \in Cached(r) : AnswerNow(q, Answered(cache[i].rows, cache[i].at))
    BY <1>7 DEF ServeCached
  <2>2. Complete(cache[i].rows) /\ cache[i].at + TTL > clock
    BY DEF Cached, CacheComplete
  <2> QED BY <1>4, <2>1, <2>2 DEF Answered
<1>8. CASE JoinRoute(q, r) \/ StartRoute(q, r)
  BY <1>5, <1>8 DEF JoinRoute, StartRoute
<1> QED BY <1>1, <1>6, <1>7, <1>8

LEMMA AwaitingDelivered ==
  ASSUME Awaiting, TypeInv, PagesInOrder, NEW t \in Tasks, Deliver(t)
  PROVE  Awaiting'
<1> DEFINE res == IF result[t].issue = "answered" THEN result[t] ELSE Unknown(result[t].issue)
           joined == {q \in Queries : awaits[q] = t}
<1>1. /\ phase[t] = "stored" /\ UNCHANGED <<clock, ask>>
      /\ answer' = [q \in Queries |-> IF q \in joined THEN res ELSE answer[q]]
      /\ status' = [q \in Queries |-> IF q \in joined THEN "done" ELSE status[q]]
      /\ awaits' = [q \in Queries |-> IF q \in joined THEN None ELSE awaits[q]]
      /\ phase' = [phase EXCEPT ![t] = "idle"]
      /\ result' = [result EXCEPT ![t] = None]
  BY DEF Deliver
<1>2. /\ TTL \in Nat \ {0} /\ phase \in [Tasks -> Phases] /\ result \in [Tasks -> Result \cup {None}]
      /\ result[t].at \in Nat /\ None \notin Tasks
      /\ \A q \in Queries : ask[q] \in Ask => ask[q].since \in Nat
  BY <1>1, TdxAssumption DEF TypeInv, TypeOK, TaskData, Result, Ask
<1>3. res.issue = "answered" => res = result[t] /\ Complete(res.rows)
  BY <1>1 DEF PagesInOrder, InOrder, Unknown
<1>4. ASSUME NEW q \in joined
      PROVE  /\ status[q] = "open" /\ ask[q] \in Ask /\ ask[q].since <= clock
             /\ result[t].issue = "answered" => result[t].at + TTL > ask[q].since
  <2>1. q \in Queries /\ awaits[q] = t
    OBVIOUS
  <2>2. status[q] = "open" /\ ask[q] \in Ask /\ ask[q].since <= clock
    BY <1>2, <2>1 DEF Awaiting
  <2>3. result[t].issue = "answered" => result[t].at >= ask[q].since
    BY <1>1, <2>1, <2>2 DEF Awaiting
  <2>4. ask[q].since \in Nat
    BY <1>2, <2>1, <2>2
  <2> QED BY <1>2, <2>2, <2>3, <2>4
<1> HIDE DEF res
<1>5. ASSUME NEW q \in joined PROVE
        /\ status'[q] = "done" /\ answer'[q] = res /\ awaits'[q] = None /\ q \in Queries
  BY <1>1
<1>6. ASSUME NEW q \in Queries, q \notin joined PROVE
        /\ status'[q] = status[q] /\ answer'[q] = answer[q] /\ awaits'[q] = awaits[q]
        /\ awaits[q] # t
  BY <1>1, <1>6
<1>7. \A u \in Tasks \ {t} : phase'[u] = phase[u] /\ result'[u] = result[u]
  BY <1>1, <1>2
<1> SUFFICES ASSUME NEW q \in Queries
             PROVE  /\ status'[q] # "open" => awaits'[q] = None
                    /\ status'[q] # "idle" => ask[q] \in Ask /\ ask[q].since <= clock
                    /\ status'[q] = "open" =>
                         \A u \in Tasks : awaits'[q] = u /\ phase'[u] \in {"settled", "stored"}
                           /\ result'[u].issue = "answered" => result'[u].at >= ask[q].since
                    /\ status'[q] = "done" /\ answer'[q].issue = "answered" =>
                         Complete(answer'[q].rows) /\ answer'[q].at + TTL > ask[q].since
  BY <1>1 DEF Awaiting
<1>8. CASE q \in joined
  BY <1>3, <1>4, <1>5, <1>8
<1>9. CASE q \notin joined
  <2>1. \A u \in Tasks : awaits[q] = u => phase'[u] = phase[u] /\ result'[u] = result[u]
    BY <1>6, <1>7, <1>9
  <2> HIDE DEF joined
  <2> QED BY <1>6, <1>9, <2>1 DEF Awaiting
<1> QED BY <1>8, <1>9

LEMMA AwaitingStep ==
  SlotsOK /\ TypeInv /\ PagesInOrder /\ CacheComplete /\ Awaiting /\ [Next]_vars => Awaiting'
<1> SUFFICES ASSUME SlotsOK, TypeInv, PagesInOrder, CacheComplete, Awaiting, [Next]_vars
             PROVE  Awaiting'
  OBVIOUS
<1>0. TypeOK /\ phase \in [Tasks -> Phases] /\ result \in [Tasks -> Result \cup {None}]
  BY DEF TypeInv, TypeOK
<1> DEFINE NewAnswersOfNow ==
      \A u \in Tasks :
        phase'[u] \in {"settled", "stored"} /\ result'[u].issue = "answered" =>
          \/ (phase[u] \in {"settled", "stored"} /\ result'[u] = result[u])
          \/ result'[u].at = clock
<1>1. ASSUME UNCHANGED queryVars, clock' \in {clock, clock + 1}, NewAnswersOfNow PROVE Awaiting'
  BY <1>0, <1>1, AwaitingKept
<1>2. ASSUME NEW t \in Tasks, NEW tok, GetToken(t, tok), phase[t] \notin {"settled", "stored"}
      PROVE  NewAnswersOfNow
  BY <1>0, <1>2, GetTokenInOrder
<1>3. ASSUME NEW t \in Tasks, Resume(t) \/ NextPage(t) \/ Retry(t) PROVE Awaiting'
  <2>1. /\ UNCHANGED <<queryVars, clock>> /\ phase[t] \notin {"settled", "stored"}
        /\ \E tok : GetToken(t, tok)
    BY <1>3 DEF Resume, NextPage, Retry
  <2>2. NewAnswersOfNow
    BY <1>2, <2>1
  <2> HIDE DEF NewAnswersOfNow
  <2> QED BY <1>1, <2>1, <2>2
<1>4. ASSUME NEW t \in Tasks, AskPage(t) PROVE Awaiting'
  <2>1. UNCHANGED <<queryVars, clock>> /\ phase[t] = "armed"
    BY <1>4 DEF AskPage
  <2>2. \E p \in {"asking", "denied"} : phase' = [phase EXCEPT ![t] = p]
    BY <1>4 DEF AskPage, Deny
  <2>3. \A u \in Tasks \ {t} : result'[u] = result[u]
    BY <1>0, <1>4 DEF AskPage, Deny
  <2>4. NewAnswersOfNow
    BY <1>0, <2>1, <2>2, <2>3
  <2> HIDE DEF NewAnswersOfNow
  <2> QED BY <1>1, <2>1, <2>4
<1>5. ASSUME NEW t \in Tasks, ProviderReturns(t) \/ Store(t) PROVE Awaiting'
  <2>1. /\ UNCHANGED <<queryVars, clock, result>> /\ phase[t] \in {"asking", "settled"}
        /\ \/ phase' = [phase EXCEPT ![t] = "returned"]
           \/ phase[t] = "settled" /\ phase' = [phase EXCEPT ![t] = "stored"]
    BY <1>5 DEF ProviderReturns, Store
  <2>2. NewAnswersOfNow
    BY <1>0, <2>1
  <2> HIDE DEF NewAnswersOfNow
  <2> QED BY <1>1, <2>1, <2>2
<1>6. ASSUME NEW t \in Tasks, TokenReturns(t) PROVE Awaiting'
  <2>1. UNCHANGED <<queryVars, clock>>
    BY <1>6 DEF TokenReturns
  <2>2. \A u \in Tasks : phase'[u] \in {"settled", "stored"} => phase[u] = phase'[u] /\ phase[u] # "token"
    BY <1>6, TokenReturnsPhase DEF SlotsOK
  <2>3. \A u \in Tasks : phase[u] # "token" => result'[u] = result[u]
    BY <1>0, <1>6 DEF TokenReturns
  <2>4. NewAnswersOfNow
    BY <2>2, <2>3
  <2> HIDE DEF NewAnswersOfNow
  <2> QED BY <1>1, <2>1, <2>4
<1>7. ASSUME NEW t \in Tasks, Finish(t) \/ Fail(t) \/ Unwind(t) PROVE Awaiting'
  <2>1. /\ UNCHANGED <<queryVars, clock>> /\ phase[t] \in {"returned", "denied"} /\ ReleaseSlot(t)
        /\ \E res : result' = [result EXCEPT ![t] = res]
    BY <1>7 DEF Finish, Fail, Unwind, Settle
  <2>2. result'[t].issue = "answered" => result'[t].at = clock
    <3>1. CASE Finish(t)
      BY <1>0, <3>1 DEF Finish, Settle, Answered
    <3>2. CASE Fail(t)
      <4>1. result'[t] = Unknown("provider-error")
        BY <1>0, <3>2 DEF Fail, Settle
      <4> QED BY <4>1 DEF Unknown
    <3>3. CASE Unwind(t)
      BY <1>0, <3>3 DEF Unwind, Settle, PagesInOrder, InOrder
    <3> QED BY <1>7, <3>1, <3>2, <3>3
  <2>3. \A u \in Tasks \ {t} : /\ (phase'[u] = phase[u] \/ phase'[u] = "handed")
                               /\ result'[u] = result[u]
    BY <1>0, <2>1, ReleasePhase
  <2>4. NewAnswersOfNow
    BY <2>2, <2>3
  <2> HIDE DEF NewAnswersOfNow
  <2> QED BY <1>1, <2>1, <2>4
<1>8. Tick \/ UNCHANGED vars => Awaiting'
  BY <1>1 DEF Tick, vars
<1>9. ASSUME NEW t \in Tasks, Deliver(t) PROVE Awaiting'
  BY <1>9, AwaitingDelivered
<1>10. ASSUME NEW q \in Queries, Query(q) PROVE Awaiting'
  BY <1>0, <1>10, AwaitingAsked
<1> HIDE DEF NewAnswersOfNow
<1> QED BY <1>3, <1>4, <1>5, <1>6, <1>7, <1>8, <1>9, <1>10 DEF Next

\* Nothing is answered from part of a timetable, however its pages were asked
\* for, retried and shared, and nothing that was stale when it was asked for.
THEOREM AnswersAreWhole == Spec => []SnapshotsComplete
<1>1. Init => CacheComplete
  BY DEF Init, CacheComplete
<1>2. CacheComplete /\ Awaiting => SnapshotsComplete
  BY DEF CacheComplete, Awaiting, SnapshotsComplete
<1>3. TdxBase => SlotsOK /\ TypeInv /\ TypeOK
  BY DEF TdxBase, TypeInv
<1> QED BY <1>1, <1>2, <1>3, TdxBaseInit, TdxBaseStep, OrderInit, OrderStep, CacheCompleteStep,
           AwaitingInit, AwaitingStep, PTL DEF Spec
=============================================================================
