---------------------------- MODULE AvinorCapture ----------------------------
(***************************************************************************)
(* One capture of Oslo airport's flight feed after another                 *)
(* (scripts/refresh-avinor-xml-public.sh) is compared with the candidates  *)
(* of the route network by scripts/parse-avinor-xml-public-snapshot.py,    *)
(* which proposes a patch and writes no network. People make a release of  *)
(* what the patch supports, of all of it or of less, and the build lays it *)
(* over the network as it was without any (AvinorOverlay).                 *)
(***************************************************************************)
EXTENDS AvinorOverlay

CONSTANTS
  Base,    \* the network without any release
  Feeds,   \* what the feed may answer: sets of rows, of times relative to the capture
  Past,    \* the feed is asked from this long before the capture on (1 hour)
  MaxTime

VARIABLES
  now,      \* the time
  network,  \* the network that is published
  feed,     \* the capture on file: [at, rows], or None
  patch,    \* what the script proposed for it, or None
  packet,   \* the release made of it, or None
  outcome   \* of the build that ran on it, or None

vars == <<now, network, feed, patch, packet, outcome>>

-----------------------------------------------------------------------------
(***************************************************************************)
(* runtime_candidates: the candidates of the routes of Oslo, and again the *)
(* numbers whose dated evidence is no longer fresh.                        *)
(***************************************************************************)
Touches(route) == "OSL" \in {route.from, route.to}

\* The evidence of a release here is named by the time of its capture.
Fresh(evidence, at) == at < evidence.source + Scope

Lapsed(record, at) == {e \in record.dated : ~Fresh(e, at)}

CandidatesFor(net, at) ==
  UNION {{[route |-> r, number |-> n, cites |-> net[r].cites] : n \in net[r].candidates}
           \cup {[route |-> r, number |-> e.number, cites |-> e.cites] : e \in Lapsed(net[r], at)}
         : r \in {x \in DOMAIN net : Touches(x)}}

Reviewable(net, at) == {c \in CandidatesFor(net, at) : c.cites # {}}

-----------------------------------------------------------------------------
(***************************************************************************)
(* The rows, and those that match a candidate.                             *)
(***************************************************************************)
Departs(row) == row.side = "D"
Directed(row) == [from |-> IF Departs(row) THEN "OSL" ELSE row.end, to |-> IF Departs(row) THEN row.end ELSE "OSL"]

HasPrefix(row) == row.flight.code = row.operator

InEnvelope(row, at) == row.time # None /\ at - Past <= row.time /\ row.time <= at + Scope

Matches(row, c, at) ==
  /\ row.side \in {"A", "D"} /\ row.operator = c.route.carrier /\ row.flight = c.number
  /\ Directed(row).from = c.route.from /\ Directed(row).to = c.route.to
  /\ HasPrefix(row) /\ InEnvelope(row, at)

\* The class of a row that matches: what flew within the last hour counts too.
Class(row, at) ==
  CASE row.via                                              -> "via"
    [] ~row.via /\ row.status = "C"                         -> "cancelled"
    [] ~row.via /\ row.status # "C" /\ at <= row.time       -> "upcoming"
    [] ~row.via /\ row.status \in {"D", "A"} /\ row.time < at -> "recent"
    [] OTHER                                                -> "none"

\* What is kept of a row: not which side of which airport it was found at.
Kept(row, at) ==
  [class |-> Class(row, at), from |-> Directed(row).from, to |-> Directed(row).to,
   operator |-> row.operator, flight |-> row.flight, time |-> row.time,
   via |-> row.via, status |-> row.status]

RowsOf(c, at, rows, classes) ==
  {Kept(row, at) : row \in {x \in rows : Matches(x, c, at) /\ Class(x, at) \in classes}}

Supporting(c, at, rows) == RowsOf(c, at, rows, {"upcoming", "recent"})

\* A flight that another carrier operates under this number is told apart, and not counted.
SharedOnly(c, at, rows) ==
  \E row \in rows :
    /\ InEnvelope(row, at) /\ Class(row, at) = "upcoming" /\ row.side \in {"A", "D"}
    /\ c.number \in row.shares /\ Directed(row) = [from |-> c.route.from, to |-> c.route.to]
    /\ c.route.carrier # row.operator \/ c.number # row.flight

Assessment(c, at, rows) ==
  IF Supporting(c, at, rows) # {} THEN "supported"
  ELSE IF RowsOf(c, at, rows, {"via"}) # {} THEN "via"
  ELSE IF RowsOf(c, at, rows, {"cancelled"}) # {} THEN "cancelled"
  ELSE IF SharedOnly(c, at, rows) THEN "shared" ELSE "none"

-----------------------------------------------------------------------------
(***************************************************************************)
(* The patch: what a route becomes, and the associations to review.        *)
(***************************************************************************)
SupportedOnes(net, at, rows) ==
  {c \in Reviewable(net, at) : Assessment(c, at, rows) = "supported"}

Proposed(c, at, rows) ==
  Evidence(c.number, at, c.cites,
           {row.time : row \in RowsOf(c, at, rows, {"upcoming"})})

Associations(net, at, rows) ==
  {[route |-> c.route, number |-> c.number, cites |-> c.cites, rows |-> Supporting(c, at, rows)] :
     c \in SupportedOnes(net, at, rows)}

\* Evidence of the numbers that match is replaced, all of it.
After(net, at, rows) ==
  [r \in DOMAIN net |->
     LET supported == Of(SupportedOnes(net, at, rows), r)
         numbers   == NumbersOf(supported)
     IN IF supported = {} THEN net[r]
        ELSE [Promote(net[r], numbers) EXCEPT
                !.dated = {e \in @ : e.number \notin numbers}
                            \cup {Proposed(c, at, rows) : c \in supported}]]

-----------------------------------------------------------------------------
\* The network is one that the schema lets through (lib/schemas/route-network.ts), without
\* any release, and the rows of the feed have a time or none.
CapturesAssumption ==
  /\ Past \in Nat /\ Scope \in Nat /\ None \notin Int /\ None \notin {"written", "refused"}
  /\ \A r \in DOMAIN Base :
       /\ r = [carrier |-> r.carrier, from |-> r.from, to |-> r.to]
       /\ Base[r] = [status |-> Base[r].status, identity |-> Base[r].identity,
                     confirmed |-> Base[r].confirmed, candidates |-> Base[r].candidates,
                     cites |-> Base[r].cites, dated |-> {}]
       /\ Base[r].confirmed \cap Base[r].candidates = {}
       /\ Base[r].candidates # {} => Base[r].cites # {}
  /\ \A rows \in Feeds : \A row \in rows :
       "time" \in DOMAIN row /\ row.time \in Int \cup {None}

-----------------------------------------------------------------------------
Init ==
  /\ now = 0 /\ network = Base
  /\ feed = None /\ patch = None /\ packet = None /\ outcome = None

Tick ==
  /\ now < MaxTime /\ now' = now + 1
  /\ UNCHANGED <<network, feed, patch, packet, outcome>>

\* The feed is asked once, and what it answers is kept.
Refresh(rows) ==
  /\ feed' = [at |-> now,
              rows |-> {IF row.time = None THEN row ELSE [row EXCEPT !.time = now + @] : row \in rows}]
  /\ patch' = None /\ packet' = None /\ outcome' = None
  /\ UNCHANGED <<now, network>>

Parse ==
  /\ feed # None /\ patch = None
  /\ patch' = [before |-> network, after |-> After(network, feed.at, feed.rows),
               supported |-> Associations(network, feed.at, feed.rows)]
  /\ UNCHANGED <<now, network, feed, packet, outcome>>

\* People accept some of what is supported.
Review(associations) ==
  /\ patch # None /\ packet = None /\ associations # {}
  /\ packet' = [at |-> feed.at, associations |-> associations]
  /\ UNCHANGED <<now, network, feed, patch, outcome>>

\* The build throws at a release that its schema or the network refuses.
Build ==
  /\ packet # None /\ outcome = None
  /\ IF FirstValid(packet) /\ FirstBuilds(Base, packet)
     THEN /\ outcome' = "written"
          /\ network' = WithAssociations(Base, packet.associations,
               LAMBDA a : [FirstEvidence(packet, a) EXCEPT !.source = packet.at])
     ELSE outcome' = "refused" /\ UNCHANGED network
  /\ UNCHANGED <<now, feed, patch, packet>>

Next ==
  \/ Tick \/ Parse \/ Build
  \/ \E rows \in Feeds : Refresh(rows)
  \/ patch # None /\ \E associations \in SUBSET patch.supported : Review(associations)

Spec == Init /\ [][Next]_vars
-----------------------------------------------------------------------------
(***************************************************************************)
(* Properties.                                                             *)
(***************************************************************************)
\* Type invariant.
TypeOK ==
  /\ now \in 0..MaxTime /\ DOMAIN network = DOMAIN Base
  /\ outcome \in {None, "written", "refused"}

\* Rows of the capture that fly this key on its way, as the airport published them.
Flown(key, capture) ==
  {row \in capture.rows :
     /\ row.operator = key.route.carrier /\ row.operator = row.flight.code
     /\ row.side \in {"A", "D"}
     /\ row.flight = key.number /\ ~row.via /\ row.status # "C" /\ row.time # None
     /\ key.route = [carrier |-> row.operator,
                     from |-> IF row.side = "D" THEN "OSL" ELSE row.end,
                     to |-> IF row.side = "D" THEN row.end ELSE "OSL"]}

\* What the patch supports was seen to fly or is going to, and it misses no number that is
\* going to and is a candidate or was dated once; it forgets no number of a route and no
\* fresh evidence, and a number is dated at the times of these rows only.
PatchSound ==
  patch # None =>
    /\ \A a \in patch.supported : Flown(Key(a), feed) # {}
    /\ \A key \in Candidates(patch.before) \cup Dated(patch.before) :
         \/ key \in Keys(patch.supported) \/ ~Touches(key.route)
         \/ \E e \in patch.before[key.route].dated : e.number = key.number /\ Fresh(e, feed.at)
         \/ \A row \in Flown(key, feed) : row.time < feed.at \/ feed.at + Scope < row.time
    /\ Confirmed(patch.before) \subseteq Confirmed(patch.after)
    /\ Confirmed(patch.after) \cup Candidates(patch.after)
         = Confirmed(patch.before) \cup Candidates(patch.before)
    /\ Confirmed(patch.after) \cap Candidates(patch.after) = {}
    /\ \A r \in DOMAIN network :
         /\ \A e \in patch.before[r].dated : Fresh(e, feed.at) => e \in patch.after[r].dated
         /\ \A e \in patch.after[r].dated \ patch.before[r].dated :
              /\ e.times \subseteq {row.time : row \in Flown([route |-> r, number |-> e.number], feed)}
              /\ \A t \in e.times : feed.at <= t /\ t <= feed.at + Scope

\* What is published is what the patch proposed, but for flights that leave at the very
\* time of the capture, and dates a number by times that were still to come; and the
\* build refuses only what has none of these, or what is confirmed already.
ReleaseFollowsPatch ==
  /\ outcome = "written" =>
       \A a \in packet.associations :
         LET built == CHOOSE e \in network[a.route].dated : e.number = a.number
             made  == CHOOSE e \in patch.after[a.route].dated : e.number = a.number
         IN built = [made EXCEPT !.times = @ \ {feed.at}] /\ built.times # {}
  /\ outcome = "refused" =>
       \E a \in packet.associations : \A row \in a.rows : row.class = "recent" \/ row.time <= feed.at

CapturesAccounted == PatchSound /\ ReleaseFollowsPatch
=============================================================================
