--------------------------- MODULE ScheduleServer ---------------------------
(***************************************************************************)
(* The whole server process of scripts/serve-schedules.ts: the HTTP front  *)
(* end with its limiter (server/schedule-http.ts), the live-route gateway  *)
(* (LiveRoutes), and the choice between two metered suppliers              *)
(* (server/hybrid-schedules.ts). The TDX and Cirium gateways appear as     *)
(* what they are shown to implement, one ProviderBudget each: the caller   *)
(* of a supplier request is the HTTP request whose query started it.       *)
(***************************************************************************)
EXTENDS Integers, Sequences, FiniteSets, FiniteSetsExt, TLC

CONSTANTS
  Clients,         \* remote addresses
  Requests,        \* HTTP requests being handled at once
  Origins,         \* airports of live-route requests
  Tasks,           \* identities of live-route promises
  None,
  Limit,           \* requests of a client in one window (10 in the code)
  Window,          \* 60 s
  TableCap,        \* clients remembered (1000 in the code)
  MaxCount,        \* bound on the requests of one client in one window
  Requested,       \* SCHEDULE_PROVIDER
  TdxConfigured, CiriumConfigured,
  DailyBudget,     \* SCHEDULE_DAILY_BUDGET
  SupplierSlots,   \* requests of one supplier outstanding at once
  LiveBudget, PendingCap, CacheCap, TTL,
  DayLength, MaxTime

ASSUME ServerAssumption ==
  /\ Limit \in Nat \ {0} /\ Window \in Nat \ {0} /\ TableCap \in Nat \ {0}
  /\ MaxCount \in Nat /\ MaxCount > Limit
  /\ Requested \in {"auto", "tdx", "official", "cirium"}
  /\ TdxConfigured \in BOOLEAN /\ CiriumConfigured \in BOOLEAN
  /\ DailyBudget \in Nat \ {0} /\ SupplierSlots \in Nat \ {0}
  /\ LiveBudget \in Nat \ {0} /\ PendingCap \in Nat \ {0} /\ CacheCap \in Nat \ {0}
  /\ TTL \in Nat \ {0} /\ DayLength \in Nat \ {0} /\ MaxTime \in Nat
  /\ IsFiniteSet(Clients) /\ IsFiniteSet(Origins) /\ IsFiniteSet(Tasks)
  /\ None \notin Nat /\ None \notin Tasks /\ None \notin Requests
  /\ None \notin {"tdx", "cirium", "official", "routes", "schedules"}
  /\ None \notin [since : 0..MaxTime, count : 1..MaxCount]

VARIABLES
  clock,
  budgetDate, used, pending, cache, phase, origin, outcome, awaits, answer, asked,
  spent,           \* LiveRoutes
  clients,         \* since and count of each remembered address
  http,            \* of each request: idle, open, gone (client left), done
  job,             \* what the handler of a request awaits
  provider,        \* the schedule provider selected for a request
  code,            \* status sent, one for all that are handled alike
  calls, paid,     \* of each supplier: callers outstanding; requests per day
  admitted,        \* history: when each request of a client got past the limiter
  charged          \* history: suppliers charged on behalf of a request

liveVars == <<budgetDate, used, pending, cache, phase, origin, outcome,
              awaits, answer, asked, spent>>
httpVars == <<http, job, provider, code>>
supplierVars == <<calls, paid, charged>>
vars == <<clock, liveVars, clients, httpVars, supplierVars, admitted>>

LR == INSTANCE LiveRoutes WITH Queries <- Requests, Budget <- LiveBudget

Suppliers == {"tdx", "cirium"}
Supplier(p) == INSTANCE ProviderBudget WITH
                 Callers <- Requests, Slots <- SupplierSlots, Budget <- DailyBudget,
                 Days <- LR!UTCDays, day <- LR!Today,
                 calls <- calls[p], spent <- paid[p]

Init ==
  /\ LR!Init
  /\ clients = [c \in Clients |-> None]
  /\ http = [r \in Requests |-> "idle"]
  /\ job = [r \in Requests |-> None]
  /\ provider = [r \in Requests |-> None]
  /\ code = [r \in Requests |-> None]
  /\ calls = [p \in Suppliers |-> {}]
  /\ paid = [p \in Suppliers |-> [d \in LR!UTCDays |-> 0]]
  /\ admitted = [c \in Clients |-> << >>]
  /\ charged = [r \in Requests |-> {}]

Tick ==
  /\ LR!Tick
  /\ UNCHANGED <<clients, httpVars, supplierVars, admitted>>

-----------------------------------------------------------------------------
(***************************************************************************)
(* Responses.                                                              *)
(***************************************************************************)

\* `send`: nothing is written once the client is gone.
Send(r, status) ==
  /\ http' = [http EXCEPT ![r] = "done"]
  /\ code' = [code EXCEPT ![r] = IF http[r] = "gone" THEN None ELSE status]
  /\ job' = [job EXCEPT ![r] = None]
  /\ provider' = [provider EXCEPT ![r] = None]

Open(r, work, p) ==
  /\ http' = [http EXCEPT ![r] = "open"]
  /\ code' = [code EXCEPT ![r] = None]
  /\ job' = [job EXCEPT ![r] = work]
  /\ provider' = [provider EXCEPT ![r] = p]

-----------------------------------------------------------------------------
(***************************************************************************)
(* The limiter: a fixed window per remote address, in a bounded table.     *)
(***************************************************************************)

\* (Fault: a record is dropped a tick too early.)
ExpiredEarly(rec) == rec # None /\ clock - rec.since >= Window - 1
Expired(rec) == rec # None /\ clock - rec.since >= Window

\* Every request first drops the expired records.
Purged == [c \in Clients |-> IF Expired(clients[c]) THEN None ELSE clients[c]]
Known(table) == {c \in Clients : table[c] # None}

TableFull(c) == Purged[c] = None /\ Cardinality(Known(Purged)) >= TableCap

Count(c) == IF Purged[c] = None THEN [since |-> clock, count |-> 1]
                                ELSE [Purged[c] EXCEPT !.count = @ + 1]

\* An address that is not remembered finds the table full.
Forgotten(r, c) ==
  /\ TableFull(c)
  /\ clients' = Purged
  /\ Send(r, 429)
  /\ UNCHANGED <<admitted>>

\* A request over the limit still counts.
OverLimit(r, c) ==
  /\ ~TableFull(c)
  /\ Count(c).count > Limit /\ Count(c).count <= MaxCount
  /\ clients' = [Purged EXCEPT ![c] = Count(c)]
  /\ Send(r, 429)
  /\ UNCHANGED <<admitted>>

Admit(c) ==
  /\ ~TableFull(c)
  /\ Count(c).count <= Limit
  /\ clients' = [Purged EXCEPT ![c] = Count(c)]
  /\ admitted' = [admitted EXCEPT ![c] = Append(@, clock)]

-----------------------------------------------------------------------------
(***************************************************************************)
(* Request handling.                                                       *)
(***************************************************************************)

\* Origin not allowed (403), OPTIONS (204), not a GET: answered before the limiter.
Preliminary(r) ==
  /\ Send(r, 405)
  /\ UNCHANGED <<liveVars, clients, admitted>>

\* Health (200), bad queries (400), unknown paths.
Immediate(r, c) ==
  /\ Admit(c)
  /\ Send(r, 404)
  /\ UNCHANGED liveVars

LiveRoute(r, c) ==
  /\ Admit(c)
  /\ \E o \in Origins : LR!Query(r, o)
  /\ Open(r, "routes", None)

\* selectScheduleProvider
Selected(touchesTaiwan) ==
  IF Requested # "auto" THEN Requested
  ELSE IF touchesTaiwan /\ TdxConfigured THEN "tdx"
  ELSE IF CiriumConfigured THEN "cirium" ELSE "official"

Configured(p) == (p = "tdx" /\ TdxConfigured) \/ (p = "cirium" /\ CiriumConfigured)

Schedule(r, c) ==
  /\ Admit(c)
  /\ \E touchesTaiwan \in BOOLEAN : Open(r, "schedules", Selected(touchesTaiwan))
  /\ UNCHANGED liveVars

\* Handlers whose promise is due run before the next request event.
BetweenEvents ==
  \A r \in Requests : http[r] \in {"open", "gone"} /\ job[r] = "routes" =>
    awaits[r] # None

Receive(r) ==
  /\ LR!BetweenEvents /\ BetweenEvents
  /\ http[r] \in {"idle", "done"}
  /\ charged' = [charged EXCEPT ![r] = {}]
  /\ \/ Preliminary(r)
     \/ \E c \in Clients :
          \/ (Forgotten(r, c) \/ OverLimit(r, c)) /\ UNCHANGED liveVars
          \/ Immediate(r, c)
          \/ LiveRoute(r, c)
          \/ Schedule(r, c)
  /\ UNCHANGED <<clock, calls, paid>>

\* The client closes the connection; the work it started goes on.
Disconnect(r) ==
  /\ http[r] = "open"
  /\ http' = [http EXCEPT ![r] = "gone"]
  /\ UNCHANGED <<clock, liveVars, clients, job, provider, code, supplierVars, admitted>>

LiveStep(t) ==
  /\ LR!TaskStep(t)
  /\ UNCHANGED <<clients, httpVars, supplierVars, admitted>>

\* (Fault: another configured supplier is tried after the selected one.)
FailsOver(r, p) == provider[r] \in Suppliers /\ Configured(p)
Charges(r, p) == provider[r] = p /\ Configured(p)

\* A step of the supplier's gateway for a query it was given.
SupplierCall(r, p) ==
  /\ Charges(r, p)
  /\ UNCHANGED <<clock, liveVars, clients, httpVars, admitted>>
  /\ \A other \in Suppliers : r \notin calls[other]
  /\ calls' = [calls EXCEPT ![p] = @ \cup {r}]
  /\ paid' = [paid EXCEPT ![p][LR!Today] = @ + 1]
  /\ Supplier(p)!Call(r)
  /\ charged' = [charged EXCEPT ![r] = @ \cup {p}]

SupplierReturn(r, p) ==
  /\ UNCHANGED <<clock, liveVars, clients, httpVars, paid, charged, admitted>>
  /\ calls' = [calls EXCEPT ![p] = @ \ {r}]
  /\ Supplier(p)!Return(r)

\* The handler's await is over: `send(200, ...)`, or 502 when it has thrown.
ReplyRoutes(r) ==
  /\ job[r] = "routes" /\ awaits[r] = None
  /\ Send(r, IF answer[r].ok THEN 200 ELSE 502)

\* (Fault: the response does not wait for the supplier.)
ScheduleDueAtOnce(r) == job[r] = "schedules"
ScheduleDue(r) == job[r] = "schedules" /\ \A p \in Suppliers : r \notin calls[p]

ReplySchedules(r) ==
  /\ ScheduleDue(r)
  /\ \E status \in {200, 502} : Send(r, status)

Reply(r) ==
  /\ http[r] \in {"open", "gone"}
  /\ ReplyRoutes(r) \/ ReplySchedules(r)
  /\ UNCHANGED <<clock, liveVars, clients, supplierVars, admitted>>

-----------------------------------------------------------------------------
Next ==
  \/ Tick
  \/ \E t \in Tasks : LiveStep(t)
  \/ \E r \in Requests : Receive(r) \/ Disconnect(r) \/ Reply(r)
  \/ \E r \in Requests, p \in Suppliers : SupplierCall(r, p) \/ SupplierReturn(r, p)

Spec == Init /\ [][Next]_vars

-----------------------------------------------------------------------------
(***************************************************************************)
(* Properties.                                                             *)
(***************************************************************************)

\* The values every variable may take.
TypeOK ==
  /\ LR!TypeOK
  /\ clients \in [Clients -> [since : 0..MaxTime, count : 1..MaxCount] \cup {None}]
  /\ http \in [Requests -> {"idle", "open", "gone", "done"}]
  /\ job \in [Requests -> {"routes", "schedules", None}]
  /\ provider \in [Requests -> Suppliers \cup {"official", None}]
  /\ code \in [Requests -> {200, 404, 405, 429, 502, None}]
  /\ calls \in [Suppliers -> SUBSET Requests]
  /\ paid \in [Suppliers -> [LR!UTCDays -> 0..DailyBudget]]
  /\ admitted \in [Clients -> Seq(0..MaxTime)]
  /\ charged \in [Requests -> SUBSET Suppliers]

\* Of any two windows' worth of requests of one address that get past the limiter,
\* the last comes at least a window after the first, although records are dropped and
\* made again; and the table never outgrows its cap (schedule-http.ts).
AdmissionBounded ==
  /\ \A c \in Clients : \A i \in DOMAIN admitted[c] :
       i >= 2 * Limit => admitted[c][i] - admitted[c][i + 1 - 2 * Limit] >= Window
  /\ Cardinality(Known(clients)) <= TableCap

\* The rate limiter keeps its types and lets no more past it than its windows allow.
LimiterSound == TypeOK /\ AdmissionBounded

\* "one user action cannot silently spend two supplier quotas"
OneSupplierPerAction == \A r \in Requests : Cardinality(charged[r]) <= 1

\* A request is answered after all it paid for has come back, never before.
NoCallOutlivesItsRequest ==
  \A p \in Suppliers : \A r \in calls[p] : http[r] \in {"open", "gone"} /\ code[r] = None

\* What the comment on `dailyBudget` promises: "Hard process-wide UTC-day
\* ceiling". Each gateway keeps it for itself only.
ProcessCeiling ==
  \A d \in LR!UTCDays : MapThenSumSet(LAMBDA p : paid[p][d], Suppliers) <= DailyBudget
-----------------------------------------------------------------------------
\* Clients, requests and tasks are interchangeable; no property names one.
Symmetry == Permutations(Clients) \cup Permutations(Requests) \cup Permutations(Tasks)
=============================================================================
