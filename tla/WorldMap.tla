------------------------------ MODULE WorldMap ------------------------------
(***************************************************************************)
(* The world map of src/state/use-world-map.ts: one copy for the page, in  *)
(* module scope, loaded by the first component that subscribes.            *)
(***************************************************************************)
EXTENDS Naturals, FiniteSets

CONSTANTS
  Maps,      \* components that draw the map (useWorldMap)
  MaxLoads   \* bound: fetches started

VARIABLES
  snapshot,   \* none, features or error
  inFlight,   \* the promise of a load is kept
  fetches,    \* fetches of the atlas not yet settled
  loads,      \* fetches ever started
  listeners,  \* the components subscribed
  seen        \* seen[c]: the snapshot c rendered last

vars == <<snapshot, inFlight, fetches, loads, listeners, seen>>

Init ==
  /\ snapshot = "none" /\ inFlight = FALSE /\ fetches = 0 /\ loads = 0
  /\ listeners = {} /\ seen = [c \in Maps |-> "none"]

NeedsLoad == snapshot # "features" /\ ~inFlight

\* A component renders the snapshot, subscribes, and starts a load if needed.
\* A failed load is tried again here and nowhere else.
Subscribe(c) ==
  /\ c \notin listeners
  /\ listeners' = listeners \cup {c}
  /\ seen' = [seen EXCEPT ![c] = snapshot]
  /\ IF NeedsLoad
     THEN /\ loads < MaxLoads
          /\ loads' = loads + 1 /\ fetches' = fetches + 1 /\ inFlight' = TRUE
     ELSE UNCHANGED <<loads, fetches, inFlight>>
  /\ UNCHANGED snapshot

Unsubscribe(c) ==
  /\ c \in listeners
  /\ listeners' = listeners \ {c}
  /\ UNCHANGED <<snapshot, inFlight, fetches, loads, seen>>

\* The load ends either way, and every listener renders what it left.
Settle(result) ==
  /\ fetches > 0
  /\ fetches' = fetches - 1
  /\ snapshot' = result /\ inFlight' = FALSE
  /\ seen' = [c \in Maps |-> IF c \in listeners THEN result ELSE seen[c]]
  /\ UNCHANGED <<loads, listeners>>

Next ==
  \/ \E c \in Maps : Subscribe(c) \/ Unsubscribe(c)
  \/ \E result \in {"features", "error"} : Settle(result)

Spec == Init /\ [][Next]_vars
-----------------------------------------------------------------------------
\* Type invariant.
TypeOK ==
  /\ snapshot \in {"none", "features", "error"} /\ inFlight \in BOOLEAN
  /\ fetches \in 0..MaxLoads /\ loads \in 0..MaxLoads
  /\ listeners \subseteq Maps /\ seen \in [Maps -> {"none", "features", "error"}]

\* The atlas is fetched once at a time and never again once it is there, and
\* every subscribed component has rendered the same outcome: a failure that a
\* later component's load has repaired is repaired for all of them.
OneMapForAll ==
  /\ fetches <= 1
  /\ snapshot = "features" => fetches = 0
  /\ \A c \in listeners : seen[c] = snapshot
=============================================================================
