--------------------------- MODULE ProviderBudget ---------------------------
(***************************************************************************)
(* What a metered gateway promises the account that pays for it, whatever  *)
(* it does with caches, queues and retries: a bounded number of provider   *)
(* requests outstanding at any time, a hard ceiling on the requests of one *)
(* UTC day, and an end to every request.                                   *)
(*                                                                         *)
(* This is the contract stated beside the options of                       *)
(* server/flight-schedules.ts ("Hard process-wide UTC-day ceiling") and    *)
(* docs/dated-flight-search-2026-09-05.md; the gateways implement it.      *)
(***************************************************************************)
EXTENDS Integers, FiniteSets

CONSTANTS
  Callers,  \* whatever can have one provider request outstanding
  Slots,    \* requests outstanding at once
  Budget,   \* requests in one UTC day
  Days      \* the UTC days of the model

VARIABLES
  day,      \* the current UTC day
  calls,    \* the callers whose provider request is outstanding
  spent     \* requests made on each day

vars == <<day, calls, spent>>

Init ==
  /\ day = 0
  /\ calls = {}
  /\ spent = [d \in Days |-> 0]

Midnight ==
  /\ day' \in Days
  /\ day' > day
  /\ UNCHANGED <<calls, spent>>

Call(c) ==
  /\ c \notin calls
  /\ Cardinality(calls) < Slots
  /\ spent[day] < Budget
  /\ calls' = calls \cup {c}
  /\ spent' = [spent EXCEPT ![day] = @ + 1]
  /\ UNCHANGED day

Return(c) ==
  /\ c \in calls
  /\ calls' = calls \ {c}
  /\ UNCHANGED <<day, spent>>

Next == Midnight \/ \E c \in Callers : Call(c) \/ Return(c)

Spec == Init /\ [][Next]_vars /\ \A c \in Callers : WF_vars(Return(c))
=============================================================================
