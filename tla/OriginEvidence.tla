--------------------------- MODULE OriginEvidence ---------------------------
(***************************************************************************)
(* What the next-leg panel (src/components/DestinationsPanel.tsx) loads    *)
(* for the airport the route ends at: a shard of the bundled network, one  *)
(* for all airports of a letter, kept in module scope for the page, and    *)
(* the live route listing of that airport (live-route-client.ts), kept by  *)
(* the panel. Each effect aborts what it was loading when its airport, or  *)
(* letter, is left; an aborted fetch is rejected and delivers nothing.     *)
(***************************************************************************)
EXTENDS Naturals, FiniteSets

CONSTANTS
  Origins,
  Letter,  \* Letter[o]: the shard o's routes are in
  None

VARIABLES
  origin,   \* activeOrigin, or None
  asking,   \* origins whose live listing is being fetched
  live,     \* liveRouteState: the origin its listing is of, or None
  fetching, \* letters whose shard is being fetched
  cached,   \* routeOriginShardCache
  shard,    \* originShardState: its letter, or None
  failed    \* history: the origin's listing, or its shard, could not be had since it was asked for

vars == <<origin, asking, live, fetching, cached, shard, failed>>

\* Every airport's routes are in the shard of a letter.
OriginAssumption == None \notin Origins /\ \A o \in Origins : Letter[o] # None

LetterOf(o) == IF o = None THEN None ELSE Letter[o]
Wanted(letter) == IF letter = None THEN {} ELSE {letter} \ cached
Asked(o) == IF o = None THEN {} ELSE {o}
NoFailure == [live |-> FALSE, shard |-> FALSE]

Init ==
  /\ origin \in Origins \cup {None}
  /\ asking = Asked(origin) /\ live = None
  /\ cached = {} /\ shard = None
  /\ fetching = Wanted(LetterOf(origin))
  /\ failed = NoFailure

StillRunning(requests) == {}

\* The route ends elsewhere: the listing is asked for anew, the shard only for
\* another letter.
Move(o) ==
  /\ o # origin
  /\ origin' = o
  /\ asking' = StillRunning(asking) \cup Asked(o)
  /\ IF LetterOf(o) = LetterOf(origin)
     THEN fetching' = fetching /\ failed' = [failed EXCEPT !.live = FALSE]
     ELSE fetching' = Wanted(LetterOf(o)) /\ failed' = NoFailure
  /\ UNCHANGED <<live, cached, shard>>

\* Another group, product or page: a new panel, over the same cache.
Remount(o) ==
  /\ origin' = o
  /\ asking' = Asked(o) /\ live' = None
  /\ fetching' = Wanted(LetterOf(o)) /\ shard' = None
  /\ failed' = NoFailure
  /\ UNCHANGED cached

LiveArrives(o) ==
  /\ o \in asking
  /\ asking' = asking \ {o}
  /\ live' = o
  /\ UNCHANGED <<origin, fetching, cached, shard, failed>>

\* Refused, invalid, of another origin, or aborted after 10 s: not tried again.
LiveFails(o) ==
  /\ o \in asking
  /\ asking' = asking \ {o}
  /\ failed' = [failed EXCEPT !.live = TRUE]
  /\ UNCHANGED <<origin, live, fetching, cached, shard>>

ShardArrives(letter) ==
  /\ letter \in fetching
  /\ fetching' = fetching \ {letter}
  /\ cached' = cached \cup {letter}
  /\ shard' = letter
  /\ UNCHANGED <<origin, asking, live, failed>>

ShardFails(letter) ==
  /\ letter \in fetching
  /\ fetching' = fetching \ {letter}
  /\ failed' = [failed EXCEPT !.shard = TRUE]
  /\ UNCHANGED <<origin, asking, live, cached, shard>>

Next ==
  \/ \E o \in Origins \cup {None} : Move(o) \/ Remount(o)
  \/ \E o \in Origins : LiveArrives(o) \/ LiveFails(o)
  \/ \E o \in Origins : ShardArrives(Letter[o]) \/ ShardFails(Letter[o])

Spec == Init /\ [][Next]_vars
-----------------------------------------------------------------------------
(***************************************************************************)
(* Properties.                                                             *)
(***************************************************************************)
\* Type invariant.
TypeOK ==
  /\ origin \in Origins \cup {None} /\ asking \subseteq Origins
  /\ live \in Origins \cup {None}
  /\ LET letters == {Letter[o] : o \in Origins}
     IN  fetching \subseteq letters /\ cached \subseteq letters /\ shard \in letters \cup {None}

\* The panel's rule for what it may show (`liveRoutes`, `discoveryNetwork`).
ShowsLive  == origin # None /\ live = origin
ShowsShard == origin # None /\ (Letter[origin] \in cached \/ shard = Letter[origin])

\* However quickly the route's end changes and returns, the panel shows the
\* listing and the shard of the airport it is at, or is loading them, or failed
\* to: an answer for an airport that was left never takes the place of one for
\* the airport that is shown, and nothing is loaded twice.
EvidenceComes ==
  origin # None =>
    /\ ShowsLive \/ origin \in asking \/ failed.live
    /\ ShowsShard \/ Letter[origin] \in fetching \/ failed.shard
    /\ fetching \cap cached = {}
=============================================================================
