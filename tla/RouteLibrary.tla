---------------------------- MODULE RouteLibrary ----------------------------
(***************************************************************************)
(* The route library page (src/components/AllRoutesPage.tsx): what is      *)
(* selected decides which of three files to load, the shard of an origin   *)
(* letter, the shard of a carrier (found through a manifest) or the full   *)
(* network, and a shard that fails falls back to the full network.         *)
(*                                                                         *)
(* React runs an effect again when one of its dependencies has changed:    *)
(* the request of its last run is aborted, and one is made if still        *)
(* wanted. Each change of the page's state therefore is one step here,     *)
(* with the effects it causes. Digests are computed asynchronously, so a   *)
(* request aborted after its body was read still settles (`late`).         *)
(***************************************************************************)
EXTENDS Naturals

CONSTANTS
  Selections,  \* records [kind, letter, carrier]: the entities one can select
  OriginMeta,  \* letters that have an origin shard
  HasShards,   \* the data has carrier shards and a manifest of them
  Carriers,    \* carriers the manifest lists
  None,
  MaxAttempts  \* bound: full loads asked for

VARIABLES
  page,      \* the component's state
  requests,  \* requests[e]: what effect e is fetching, or None
  late       \* aborted requests that still settle: <<effect, key>>

vars == <<page, requests, late>>

\* An airport, and a route by its origin, has the letter its shard is found under.
LibraryAssumption ==
  /\ None \notin {"manifest", "full"} /\ None \notin OriginMeta /\ None \notin Carriers
  /\ None \notin Selections
  /\ \A s \in Selections : /\ s.kind \in {"route", "airport", "airline"}
                           /\ s.kind # "airline" => s.letter # None

Effects == {"manifest", "origin", "carrier", "full"}

Loaded(scope, of) == [scope |-> scope, of |-> of]
Nothing == Loaded("none", None)

Kind(p) == IF p.selection = None THEN "none" ELSE p.selection.kind
Letter(p) == IF Kind(p) \in {"route", "airport"} THEN p.selection.letter ELSE None
Full(p) == p.loaded.scope = "full"

\* The loaded network has the selected route, with its carrier's key: a route is
\* in the shard of its origin and in that of its carrier.
HasKeyedRoute(p) ==
  /\ Kind(p) = "route" /\ p.selection.carrier # None
  /\ p.loaded \in {Loaded("full", None), Loaded("origin", p.selection.letter),
                   Loaded("carrier", p.selection.carrier)}

CarrierKey(p) ==
  IF Kind(p) = "airline" \/ HasKeyedRoute(p) THEN p.selection.carrier ELSE None

\* displayNetwork is not null.
Displayed(p) ==
  \/ Full(p) \/ Kind(p) = "none"
  \/ p.loaded.scope = "origin" /\ Letter(p) = p.loaded.of
  \/ p.loaded.scope = "carrier" /\ CarrierKey(p) = p.loaded.of

-----------------------------------------------------------------------------
(***************************************************************************)
(* What each effect fetches, and what makes it run again.                  *)
(***************************************************************************)
NeedsManifest(p) ==
  /\ ~Full(p) /\ ~p.requested /\ Kind(p) \in {"airline", "route"}
  /\ HasShards /\ p.manifest = "none"

NeedsOrigin(p) ==
  /\ ~Full(p) /\ ~p.requested /\ Letter(p) \in OriginMeta
  /\ ~(p.loaded.scope = "carrier" /\ HasKeyedRoute(p))
  /\ p.shardFailure # Letter(p)
  /\ p.loaded # Loaded("origin", Letter(p))

NeedsCarrier(p) ==
  /\ ~Full(p) /\ ~p.requested /\ p.manifest = "loaded" /\ CarrierKey(p) \in Carriers
  /\ p.carrierFailure # CarrierKey(p)
  /\ p.loaded # Loaded("carrier", CarrierKey(p))

AirlineNeedsFull(p) ==
  /\ Kind(p) = "airline"
  /\ \/ ~HasShards \/ p.manifest = "failed"
     \/ p.manifest = "loaded" /\ p.selection.carrier \notin Carriers
     \/ p.carrierFailure = p.selection.carrier

RouteNeedsCarrier(p) ==
  /\ Kind(p) = "route" /\ CarrierKey(p) # None
  /\ p.loaded # Loaded("carrier", CarrierKey(p))

\* (Fault: a shard that failed is not replaced by the full network.)
OriginNeedsFullFault(p) == Letter(p) # None /\ Letter(p) \notin OriginMeta

OriginNeedsFull(p) ==
  Letter(p) # None /\ (Letter(p) \notin OriginMeta \/ p.shardFailure = Letter(p))

ShouldLoadFull(p) ==
  /\ ~Full(p)
  /\ \/ p.requested \/ p.advanced \/ AirlineNeedsFull(p)
     \/ OriginNeedsFull(p) /\ ~RouteNeedsCarrier(p)

Wanted(p) ==
  [manifest |-> IF NeedsManifest(p) THEN "manifest" ELSE None,
   origin   |-> IF NeedsOrigin(p) THEN Letter(p) ELSE None,
   carrier  |-> IF NeedsCarrier(p) THEN CarrierKey(p) ELSE None,
   full     |-> IF ShouldLoadFull(p) THEN "full" ELSE None]

Dependencies(p) ==
  [manifest |-> <<p.manifest, Full(p), p.requested, p.selection>>,
   origin   |-> <<Full(p), p.requested, p.loaded, p.selection, p.shardFailure>>,
   carrier  |-> <<p.carrierFailure, p.manifest, Full(p), p.requested, p.loaded,
                  Kind(p), CarrierKey(p)>>,
   full     |-> <<ShouldLoadFull(p), Full(p), p.attempt>>]

\* The effects that run again when the page's state becomes p.
Again(p) ==
  LET before == Dependencies(page)
      after == Dependencies(p)
  IN {e \in Effects : after[e] # before[e]}

Reissued(p, done) ==
  LET again == Again(p)
      wanted == Wanted(p)
  IN [e \in Effects |-> IF e \in again THEN wanted[e] ELSE IF e \in done THEN None ELSE requests[e]]

\* The manifest is parsed as its body arrives, so it cannot be late.
Aborted(p, done) ==
  {<<e, requests[e]>> : e \in {f \in Again(p) \ (done \cup {"manifest"}) : requests[f] # None}}

\* The page's state becomes p; `done` are the effects whose request has settled,
\* `settled` the late ones.
Become(p, done, settled) ==
  /\ page' = p
  /\ requests' = Reissued(p, done)
  /\ \E l \in SUBSET Aborted(p, done) : late' = (late \ settled) \cup l

-----------------------------------------------------------------------------
Init ==
  /\ \E s \in Selections \cup {None}, a \in BOOLEAN :
       page = [selection |-> s, advanced |-> a, loaded |-> Nothing, error |-> FALSE,
               manifest |-> "none", shardFailure |-> None, carrierFailure |-> None,
               requested |-> FALSE, attempt |-> 0]
  /\ requests = Wanted(page)
  /\ late = {}

\* selectEntity. Before a network is there only airports are offered, and none
\* once the full load has failed.
Select(s) ==
  /\ Displayed(page) \/ (~page.error /\ s # None /\ s.kind = "airport")
  /\ Become([page EXCEPT !.selection = s], {}, {})

ToggleAdvanced ==
  /\ Displayed(page)
  /\ Become([page EXCEPT !.advanced = ~@], {}, {})

\* popstate: an entry the user visited before, of this or an earlier page.
Navigate(s, advanced) ==
  Become([page EXCEPT !.selection = s, !.advanced = advanced], {}, {})

\* The button of the map is disabled while the full network is on its way, the
\* retry button of an error is not.
RequestFullNetwork ==
  /\ \/ page.error
     \/ /\ Displayed(page) /\ ~Full(page)
        /\ ~(Kind(page) \in {"none", "route"} /\ ShouldLoadFull(page))
  /\ page.attempt < MaxAttempts
  /\ Become([page EXCEPT !.error = FALSE, !.requested = TRUE, !.attempt = @ + 1], {}, {})

\* A shard does not replace the full network.
ReplacedBy(current, next) == IF current.scope = "full" THEN current ELSE next

Succeeded(e, key) ==
  CASE e = "manifest" -> [page EXCEPT !.manifest = "loaded"]
    [] e \in {"origin", "carrier"} -> [page EXCEPT !.loaded = ReplacedBy(@, Loaded(e, key))]
    [] e = "full" -> [page EXCEPT !.loaded = Loaded("full", None)]

Failed(e, key) ==
  CASE e = "manifest" -> [page EXCEPT !.manifest = "failed"]
    [] e = "origin" -> [page EXCEPT !.shardFailure = key]
    [] e = "carrier" -> [page EXCEPT !.carrierFailure = key]
    [] e = "full" -> [page EXCEPT !.error = TRUE]

Settle(e) ==
  /\ requests[e] # None
  /\ \/ Become(Succeeded(e, requests[e]), {e}, {})
     \/ Become(Failed(e, requests[e]), {e}, {})

SettleLate(r) ==
  \/ Become(Succeeded(r[1], r[2]), {}, {r})
  \/ Become(Failed(r[1], r[2]), {}, {r})

Next ==
  \/ \E s \in Selections \cup {None} : Select(s)
  \/ ToggleAdvanced
  \/ \E s \in Selections \cup {None}, a \in BOOLEAN : Navigate(s, a)
  \/ RequestFullNetwork
  \/ \E e \in Effects : Settle(e)
  \/ \E r \in late : SettleLate(r)

Spec == Init /\ [][Next]_vars
-----------------------------------------------------------------------------
(***************************************************************************)
(* Properties.                                                             *)
(***************************************************************************)
\* Type invariant.
TypeOK ==
  /\ page.selection \in Selections \cup {None} /\ page.attempt \in 0..MaxAttempts
  /\ page.loaded.scope \in {"none", "origin", "carrier", "full"}
  /\ page.manifest \in {"none", "loaded", "failed"}
  /\ {page.advanced, page.error, page.requested} \subseteq BOOLEAN
  /\ DOMAIN requests = Effects
  /\ \A r \in late : r[1] \in Effects \ {"manifest"}

\* Whatever was selected, failed, aborted or came late, a page that shows
\* neither a network nor an error with its retry button is waiting for a
\* request: no combination of the four effects leaves it loading for ever.
NeverStuck ==
  Displayed(page) \/ page.error \/ \E e \in Effects : requests[e] # None
=============================================================================
