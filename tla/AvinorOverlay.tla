---------------------------- MODULE AvinorOverlay ----------------------------
(***************************************************************************)
(* What the releases of Avinor's flight feed do to the route network: the  *)
(* conditions of their schemas (src/lib/schemas/avinor-*.ts) and the four  *)
(* overlays of scripts/build-runtime-route-network.ts. The first release   *)
(* is one capture of Oslo airport, the batch has captures of several, the  *)
(* follow-on ledger lists occurrences found in these, and the last release *)
(* adds the airports that remain. A release whose conditions fail stops    *)
(* the build, so an overlay is looked at only where they hold.             *)
(*                                                                         *)
(* A network is a function from routes ([carrier, from, to]) to what is    *)
(* known of their flight numbers: confirmed, candidates with the sources   *)
(* they are cited from, and dated evidence. A flight number has the code   *)
(* it begins with. Totals, hashes of files and texts are left out, and a   *)
(* carrier is its code.                                                    *)
(***************************************************************************)
EXTENDS Integers

CONSTANTS Scope,  \* a capture is fresh for this long (144 hours)
          None

NoRoute == [status |-> "published", identity |-> "provider-listed", confirmed |-> {},
            candidates |-> {}, cites |-> {}, dated |-> {}]

Key(row) == [route |-> row.route, number |-> row.number]
Keys(rows) == {Key(row) : row \in rows}
Of(rows, route) == {row \in rows : row.route = route}
NumbersOf(rows) == {row.number : row \in rows}
OneRowPerKey(rows) == \A a, b \in rows : Key(a) = Key(b) => a = b

\* The sources of the dated evidence: captures are named by their airport.
Source(release, airport) == [release |-> release, airport |-> airport]
Capture(airport) == Source("captures", airport)

\* The keys that the network has dated evidence for, and those it has confirmed otherwise.
Dated(net) ==
  UNION {{[route |-> r, number |-> e.number] : e \in net[r].dated} : r \in DOMAIN net}
Confirmed(net) == UNION {{[route |-> r, number |-> n] : n \in net[r].confirmed} : r \in DOMAIN net}
Candidates(net) == UNION {{[route |-> r, number |-> n] : n \in net[r].candidates} : r \in DOMAIN net}

Promote(record, numbers) ==
  LET left == record.candidates \ numbers
  IN [record EXCEPT !.confirmed = @ \cup numbers, !.candidates = left,
                    !.cites = IF left = {} THEN {} ELSE @]

-----------------------------------------------------------------------------
(***************************************************************************)
(* The first release: associations of a key with the rows of one capture.  *)
(***************************************************************************)
\* The row flies this number of this carrier on this route, without a stop.
Fits(row, association) ==
  /\ row.operator = association.route.carrier /\ row.flight = association.number
  /\ row.flight.code = row.operator /\ ~row.via
  /\ row.from = association.route.from /\ row.to = association.route.to

InScope(row, at) == row.class = "upcoming" /\ at < row.time /\ row.time <= at + Scope

FirstValid(release) ==
  /\ OneRowPerKey(release.associations)
  /\ \A a \in release.associations :
       /\ \A row \in a.rows : Fits(row, a) /\ (row.class = "upcoming" => row.status # "C")
       /\ \E row \in a.rows : InScope(row, release.at)

\* The key is still a candidate of the network, cited from the sources it was cited from.
StillCandidate(net, a) ==
  /\ a.route \in DOMAIN net
  /\ a.number \in net[a.route].candidates \ net[a.route].confirmed
  /\ a.cites \subseteq net[a.route].cites

FirstBuilds(net, release) == \A a \in release.associations : StillCandidate(net, a)

Evidence(number, source, cites, times) ==
  [number |-> number, source |-> source, cites |-> cites, times |-> times,
   details |-> {}, window |-> None, use |-> None]

FirstEvidence(release, a) ==
  Evidence(a.number, Capture("OSL"), a.cites,
           {row.time : row \in {x \in a.rows : InScope(x, release.at)}})

WithAssociations(net, associations, NewEvidence(_)) ==
  [r \in DOMAIN net |->
     IF Of(associations, r) = {} THEN net[r]
     ELSE [Promote(net[r], NumbersOf(Of(associations, r))) EXCEPT
             !.dated = @ \cup {NewEvidence(a) : a \in Of(associations, r)}]]

FirstOverlay(net, release) ==
  WithAssociations(net, release.associations, LAMBDA a : FirstEvidence(release, a))

-----------------------------------------------------------------------------
(***************************************************************************)
(* The batch: associations cite several captures, the last of which dates  *)
(* the number, for display only.                                           *)
(***************************************************************************)
Upcoming(a) == {row \in a.rows : row.class = "upcoming"}

BatchValid(batch) ==
  /\ OneRowPerKey(batch.associations)
  /\ \A a \in batch.associations :
       /\ a.number.code = a.route.carrier /\ a.airports \subseteq DOMAIN batch.captures
       /\ \A row \in a.rows : /\ row.airport \in a.airports /\ Fits(row, a)
                              /\ row.class = "upcoming" => row.status \notin {"C", "c"}
       /\ \E row \in a.rows : InScope(row, batch.captures[row.airport].at)

LastCapture(batch, a) ==
  CHOOSE airport \in {row.airport : row \in Upcoming(a)} :
    \A row \in Upcoming(a) : batch.captures[row.airport].at <= batch.captures[airport].at

BatchTimes(batch, a) ==
  {row.time : row \in {x \in a.rows : /\ x.airport = LastCapture(batch, a)
                                      /\ InScope(x, batch.captures[x.airport].at)}}

BatchBuilds(net, first, batch, weekly) ==
  \A a \in batch.associations :
    /\ Key(a) \notin Keys(first.associations) \cup weekly
    /\ StillCandidate(net, a) /\ BatchTimes(batch, a) # {}

BatchEvidence(batch, a) ==
  [number |-> a.number, source |-> Capture(LastCapture(batch, a)), cites |-> a.cites,
   times |-> BatchTimes(batch, a), details |-> {}, window |-> a.window, use |-> "display"]

BatchOverlay(net, batch) ==
  WithAssociations(net, batch.associations, LAMBDA a : BatchEvidence(batch, a))

-----------------------------------------------------------------------------
(***************************************************************************)
(* The follow-on ledger, and the ledger of the airports that remain: rows  *)
(* of a key with its occurrences, each of which can be planned on its own. *)
(***************************************************************************)
\* An occurrence expires as it departs, and its airport is an end of the route.
Occurs(o, row) ==
  /\ o.expires = o.time /\ ~o.via /\ o.operator = row.route.carrier /\ o.flight = row.number
  /\ <<o.from, o.to>> = <<row.route.from, row.route.to>>
  /\ o.from # o.to /\ o.airport \in {o.from, o.to}

LedgerValid(rows) ==
  \A row \in rows : row.occurrences # {} /\ \A o \in row.occurrences : Occurs(o, row)

\* No row of a capture is cited twice.
SameCitation(o, p) == o.airport = p.airport /\ o.id = p.id
CitedOnce(row) == \A o, p \in row.occurrences : SameCitation(o, p) => o = p

RemainingValid(rows) ==
  /\ LedgerValid(rows)
  /\ \A row \in rows : row.number.code = row.route.carrier /\ CitedOnce(row)

Known(net, row) == row.route \in DOMAIN net /\ row.number \in net[row.route].confirmed
WasCandidate(net, row) == row.route \in DOMAIN net /\ row.number \in net[row.route].candidates

Lineage(o, captures) == o.airport \in DOMAIN captures /\ o.hash = captures[o.airport].hash

\* `base` is the network without any release, `net` that with the first two.
FollowOnBuilds(base, net, release, first, captures) ==
  /\ OneRowPerKey(release.rows)
  /\ Keys(release.rows) \cap (Keys(first.associations) \cup release.held) = {}
  /\ \A row \in release.rows :
       /\ ~row.wasConfirmed
       /\ row.wasCandidate = WasCandidate(base, row) /\ (Known(base, row) => row.wasCandidate)
       /\ Known(net, row) = row.wasCandidate
       /\ \A o \in row.occurrences :
            Lineage(o, captures) /\ o.time <= captures[o.airport].at + Scope

RemainingBuilds(net, release) ==
  /\ OneRowPerKey(release.rows) /\ Keys(release.rows) \cap release.held = {}
  /\ {o.airport : o \in UNION {row.occurrences : row \in release.rows}} = DOMAIN release.captures
  /\ \A row \in release.rows :
       /\ ~Known(net, row) /\ ~WasCandidate(net, row)
       /\ \A o \in row.occurrences :
            /\ Lineage(o, release.captures)
            /\ release.captures[o.airport].at < o.time
            /\ o.time <= release.captures[o.airport].at + Scope

\* Nothing that was held is dated by the first two releases either.
FollowOnHolds(net, release) == Dated(net) \cap release.held = {}

\* The keys that occurrences are kept of.
Detailed(net) == UNION {UNION {Keys(e.details) : e \in net[r].dated} : r \in DOMAIN net}
RemainingHolds(net, release) == (Confirmed(net) \cup Detailed(net)) \cap release.held = {}

At(row, airport) == {o \in row.occurrences : o.airport = airport}
Detail(row, o) == [route |-> row.route, number |-> row.number, seen |-> o]
LedgerEvidence(row, source, cites) ==
  LET found == At(row, source.airport)
  IN [number |-> row.number, source |-> source, cites |-> cites, times |-> {o.time : o \in found},
      details |-> {Detail(row, o) : o \in found}, window |-> None, use |-> "dated"]

Existing(net, route) == IF route \in DOMAIN net THEN net[route] ELSE NoRoute

\* Of details that cite one row of a capture, one is kept.
OnePerCitation(details) ==
  {d \in details : d = CHOOSE x \in details : SameCitation(x.seen, d.seen)}

\* A row of a ledger publishes its route, and new evidence of a number from a source that
\* has dated it before adds to what is there, whose restriction stays.
Joined(old, new) ==
  [number |-> old.number, source |-> old.source, cites |-> old.cites \cup new.cites,
   times |-> old.times \cup new.times, details |-> OnePerCitation(old.details \cup new.details),
   window |-> old.window, use |-> IF old.use = None THEN "dated" ELSE old.use]

JoinAll(old, new) ==
  LET same(e, f) == e.number = f.number /\ e.source = f.source
  IN {e \in old : \A f \in new : ~same(e, f)}
       \cup {IF \E e \in old : same(e, f) THEN Joined(CHOOSE e \in old : same(e, f), f) ELSE f : f \in new}

Published(record, rows, new) ==
  [Promote(record, NumbersOf(rows)) EXCEPT
     !.status = IF @ = "identity-unresolved" THEN "published" ELSE @,
     !.identity = IF @ = "operating" THEN @ ELSE "provider-listed",
     !.dated = JoinAll(@, new)]

LedgerOverlay(net, rows, release, cites) ==
  [r \in DOMAIN net \cup {row.route : row \in rows} |->
     IF Of(rows, r) = {} THEN net[r]
     ELSE Published(Existing(net, r), Of(rows, r),
            UNION {{LedgerEvidence(row, Source(release, o.airport), cites[r]) :
                      o \in row.occurrences} : row \in Of(rows, r)})]

FollowOnOverlay(base, net, rows) ==
  LedgerOverlay(net, rows, "captures", [r \in {row.route : row \in rows} |-> Existing(base, r).cites])

RemainingOverlay(net, rows) ==
  LedgerOverlay(net, rows, "remaining", [r \in {row.route : row \in rows} |-> {}])
=============================================================================
