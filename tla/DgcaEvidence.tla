---------------------------- MODULE DgcaEvidence ----------------------------
(***************************************************************************)
(* The catalogue of approved Indian schedules. Four reviewed packets are   *)
(* joined and published by scripts/build-dgca-schedule-evidence.ts, and    *)
(* the published file is checked against the packets and the route network *)
(* by scripts/verify-dgca-schedule-evidence.ts. SpiceJet's packet is read  *)
(* before by scripts/build-spicejet-schedule-references.ts, which leaves   *)
(* its references in a file of their own that build takes as it finds it.  *)
(* build pins the hashes of the other three packets and of the network,    *)
(* verify those of all four and of the network, so that what changes stops *)
(* a script until somebody has reviewed it there too.                      *)
(*                                                                         *)
(* A packet is of one source: `spicejet` (claims, and the identities of    *)
(* the patch that was drawn up of them), `indigo` (records, their ledger   *)
(* and the conflicts reviewed), `india` (Air India: identity rows in the   *)
(* order of the file, and the movements behind them), `express` (Air India *)
(* Express: source rows, variants, identities and overlaps). An identity   *)
(* is a flight of a carrier from one airport to another. The totals that   *)
(* the first two scripts expect, the order of the rows a variant cites and *)
(* the airports and the few flights that are known by name are left out:   *)
(* they only refuse more.                                                  *)
(***************************************************************************)
EXTENDS Naturals, FiniteSets

CONSTANTS
  Packets,   \* editions of the packets, each [spicejet, indigo, india, express]
  Networks,  \* builds of the route network: [routes, confirmed, candidates]
  None

VARIABLES
  edition, base,  \* of the packets and of the network on file
  pinned,         \* the scripts whose hashes are those of what they pin
  normalized,     \* SpiceJet's references as last prepared
  catalog,        \* the published file: source -> identity -> its variants
  outcome         \* of the script that ran last on what is there

vars == <<edition, base, pinned, normalized, catalog, outcome>>

Scripts == {"build", "verify"}
ReviewSources == {"spicejet", "indigo", "india", "express"}

\* Each packet is of its carrier's flights.
DgcaAssumption ==
  /\ None \notin {"prepared", "written", "passed"}
  /\ \A e \in DOMAIN Packets :
       LET Ours(table) == \A id \in DOMAIN table : table[id].identity.carrier \in {"SG", "6E", "IX"}
       IN /\ Ours(Packets[e].spicejet.claims)
          /\ Ours(Packets[e].indigo.records) /\ Ours(Packets[e].express.variants)

packet == Packets[edition]
network == Networks[base]

\* An accepted record of a current or future period.
Live(record) == record.class = "accepted" /\ record.valid \in {"current", "future"}
LiveOnes(table) == {id \in DOMAIN table : Live(table[id])}
Of(table, identity) == {id \in DOMAIN table : table[id].identity = identity}
Identities(table, ids) == {table[id].identity : id \in ids}

\* A variant cites rows, each with its side of the movement if the source tells it.
Cited(table, rows) == {[row |-> row, side |-> table[row].side] : row \in rows}
Paired(cited) == \A side \in {"arrival", "departure"} : \E c \in cited : c.side = side
Variant(cited, flags) == [rows |-> cited, paired |-> Paired(cited), flags |-> flags]

\* The variants of a packet, each to be filed under its identity, one reference for each.
Record(identity, variant) == [of |-> identity, variant |-> variant]

Filed(records) ==
  [identity \in {records[id].of : id \in DOMAIN records} |->
     [id \in {i \in DOMAIN records : records[i].of = identity} |-> records[id].variant]]

\* Every number of the network, and every designator-and-direction of it.
Listed(net) == net.confirmed \cup net.candidates
OfCarriers(keys, carriers) == {key \in keys : key.carrier \in carriers}
RouteOf(identity) == [carrier |-> identity.carrier, from |-> identity.from, to |-> identity.to]

-----------------------------------------------------------------------------
(***************************************************************************)
(* SpiceJet, of which only what is current counts. The sides of its rows   *)
(* are not told, the pairing of a variant is that of its claim.            *)
(***************************************************************************)
LiveClaims(x) == {id \in LiveOnes(x.claims) : x.claims[id].valid = "current"}

SpiceJet(x) ==
  [id \in LiveClaims(x) |->
     Record(x.claims[id].identity,
            [rows |-> {[row |-> row, side |-> None] : row \in x.claims[id].rows},
             paired |-> x.claims[id].paired, flags |-> x.claims[id].flags])]

\* The normalizer, for which a packet has only to agree with itself: throws unless the
\* patch lists the identities of the claims.
Normalizes == packet.spicejet.patch = Identities(packet.spicejet.claims, LiveClaims(packet.spicejet))

Normalize ==
  /\ normalized' = IF Normalizes THEN Filed(SpiceJet(packet.spicejet)) ELSE normalized
  /\ outcome' = IF Normalizes THEN "prepared" ELSE "refused"
  /\ UNCHANGED <<edition, base, pinned, catalog>>

(***************************************************************************)
(* IndiGo. A record needs its ledger row, and a conflict its review.       *)
(***************************************************************************)
IndiGo(x) ==
  [id \in LiveOnes(x.records) |->
     Record(x.records[id].identity, Variant(x.records[id].rows, x.records[id].conflicts))]

InLedger(x) == \A id \in LiveOnes(x.records) : id \in DOMAIN x.ledger /\ x.ledger[id] = x.records[id].hash

IndiGoJoins(x) ==
  /\ Cardinality(DOMAIN x.ledger) = Cardinality(DOMAIN x.records) /\ InLedger(x)
  /\ \A id \in LiveOnes(x.records) :
       x.records[id].conflicts # {} => x.records[id].conflicts \cap x.reviewed # {}

(***************************************************************************)
(* Air India. A hold of one field keeps the identity and flags it.         *)
(***************************************************************************)
LiveIndia(x) ==
  {id \in DOMAIN x.ledger : /\ x.ledger[id].valid \in {"current", "future"}
                            /\ x.ledger[id].class \in {"accepted", "held_field_only"}}

India(x) ==
  [id \in LiveIndia(x) |->
     Record(x.ledger[id].identity,
            Variant(Cited(x.movements, x.ledger[id].movements),
                    IF x.ledger[id].class = "held_field_only" THEN {id} ELSE {}))]

\* mapAirIndia throws unless every movement cited is that of the row that cites it.
IndiaJoins(x) ==
  \A id \in LiveIndia(x) :
    /\ x.ledger[id].movements # {} /\ x.ledger[id].movements \subseteq DOMAIN x.movements
    /\ \A movement \in x.ledger[id].movements :
         x.movements[movement].of = id /\ x.movements[movement].identity = x.ledger[id].identity

(***************************************************************************)
(* Air India Express. A variant is joined to the rows it cites, and its    *)
(* overlaps with other variants of the identity are kept as flags, those   *)
(* with a variant that has expired too.                                    *)
(***************************************************************************)
Overlaps(x, id) == {pair \in x.overlaps : id \in {pair.a, pair.b}}

Express(x) ==
  [id \in LiveOnes(x.variants) |->
     Record(x.variants[id].identity, Variant(Cited(x.rows, x.variants[id].rows), Overlaps(x, id)))]

\* An overlap is of two variants of its identity.
OverlapsJoin(x) ==
  \A pair \in x.overlaps :
    \A id \in {pair.a, pair.b} : id \in DOMAIN x.variants /\ x.variants[id].identity = pair.identity

\* An accepted identity lists its variants and rows, no more and no less.
Joined(x, identity) ==
  /\ x.ledger[identity].status = "accepted"
  /\ x.ledger[identity].variants = Of(x.variants, identity)
  /\ x.ledger[identity].rows = Of(x.rows, identity)

Accepted(x) == {identity \in DOMAIN x.ledger : x.ledger[identity].accepted}

\* mapAirIndiaExpress throws unless
ExpressJoins(x) ==
  /\ \A id \in DOMAIN x.variants : x.variants[id].rows # {} /\ x.variants[id].rows \subseteq DOMAIN x.rows
  /\ OverlapsJoin(x)
  /\ \A identity \in Accepted(x) : Joined(x, identity)
  /\ Accepted(x) = Identities(x.variants, LiveOnes(x.variants))
  /\ \A id \in LiveOnes(x.variants) :
       /\ x.variants[id].rows \subseteq LiveOnes(x.rows) \cap Of(x.rows, x.variants[id].identity)
       /\ x.variants[id].paired = Express(x)[id].variant.paired
  /\ Accepted(x) \cap Listed(network) = {} /\ OfCarriers(network.routes, {"IX"}) = {}

-----------------------------------------------------------------------------
(***************************************************************************)
(* build: the four together, unless two of them know the same identity.    *)
(***************************************************************************)
Records(p) ==
  [spicejet |-> SpiceJet(p.spicejet), indigo |-> IndiGo(p.indigo), india |-> India(p.india),
   express |-> Express(p.express)]

Output ==
  [spicejet |-> normalized, indigo |-> Filed(IndiGo(packet.indigo)),
   india |-> Filed(India(packet.india)), express |-> Filed(Express(packet.express))]

Disjoint(sources) ==
  \A s, t \in ReviewSources : s # t => DOMAIN sources[s] \cap DOMAIN sources[t] = {}

Builds ==
  /\ "build" \in pinned /\ normalized # None
  /\ packet.spicejet.date = packet.indigo.date
  /\ IndiGoJoins(packet.indigo) /\ IndiaJoins(packet.india) /\ ExpressJoins(packet.express)
  /\ Disjoint(Output)

Build ==
  /\ outcome' = IF Builds THEN "written" ELSE "refused"
  /\ catalog' = IF Builds THEN Output ELSE catalog
  /\ UNCHANGED <<edition, base, pinned, normalized>>

-----------------------------------------------------------------------------
(***************************************************************************)
(* verify reads the packets again and finds the variants of the file by    *)
(* their names. It compares what they cite and what they flag, but for Air *)
(* India's holds, and of the identity they are filed under it compares all *)
(* only for Air India Express, the number for IndiGo and Air India, and    *)
(* nothing for SpiceJet.                                                   *)
(***************************************************************************)
Told(s, identity) ==
  CASE s = "express"            -> <<identity>>
    [] s \in {"indigo", "india"} -> <<identity.carrier, identity.number>>
    [] s = "spicejet"           -> <<>>

Seen(s, identity, variant) ==
  [of |-> Told(s, identity), rows |-> variant.rows, flags |-> IF s = "india" THEN {} ELSE variant.flags]

NamesIn(source) == UNION {DOMAIN source[identity] : identity \in DOMAIN source}

\* The variants of a source in the file are those of its packet, and its references as many.
Same(s, source, records) ==
  /\ NamesIn(source) = DOMAIN records
  /\ Cardinality(DOMAIN source) = Cardinality({records[id].of : id \in DOMAIN records})
  /\ \A identity \in DOMAIN source : \A id \in DOMAIN source[identity] :
       Seen(s, identity, source[identity][id]) = Seen(s, records[id].of, records[id].variant)

\* How the network knows a flight of Air India, which the ledger has to say too.
Baseline(identity) ==
  CASE identity \in network.confirmed                        -> "confirmed"
    [] identity \in network.candidates \ network.confirmed   -> "candidate"
    [] identity \notin Listed(network)                       -> "unlisted"

\* Of the rows of an identity, the last one speaks for it.
Last(x, id) ==
  \A other \in LiveIndia(x) :
    x.ledger[other].identity = x.ledger[id].identity => x.ledger[other].line <= x.ledger[id].line

IndiaVerifies(x) ==
  /\ \A id \in LiveIndia(x) : x.ledger[id].movements \subseteq DOMAIN x.movements
  /\ \A id \in LiveIndia(x) :
       Last(x, id) =>
         /\ RouteOf(x.ledger[id].identity) \in network.routes
         /\ Baseline(x.ledger[id].identity) = x.ledger[id].baseline

\* The joins again, overlaps listed once, nothing live on a row that is not, and a
\* reference for each identity accepted. None of them is in the network.
ExpressVerifies(x) ==
  LET active == {identity \in DOMAIN x.ledger : x.ledger[identity].status = "accepted"}
  IN /\ OverlapsJoin(x) /\ \A p, q \in x.overlaps : <<p.a, p.b>> = <<q.a, q.b>> => p = q
     /\ active \subseteq Accepted(x) /\ \A identity \in active : Joined(x, identity)
     /\ \A id \in LiveOnes(x.variants) : x.variants[id].rows \subseteq LiveOnes(x.rows)
     /\ DOMAIN catalog.express = active /\ active \cap Listed(network) = {}

\* verifyProtectedReleaseBase: what these packets know stays out of the network.
Kept == OfCarriers(network.routes \cup Listed(network), {"SG", "6E", "IX"}) = {}

Verifies ==
  /\ "verify" \in pinned /\ catalog # None
  /\ InLedger(packet.indigo) /\ IndiaVerifies(packet.india) /\ ExpressVerifies(packet.express)
  /\ \A s \in ReviewSources : Same(s, catalog[s], Records(packet)[s])
  /\ Kept

Verify ==
  /\ outcome' = IF Verifies THEN "passed" ELSE "refused"
  /\ UNCHANGED <<edition, base, pinned, normalized, catalog>>

-----------------------------------------------------------------------------
Init ==
  /\ edition \in DOMAIN Packets /\ base \in DOMAIN Networks
  /\ pinned = {} /\ normalized = None /\ catalog = None /\ outcome = None

\* What a script pins of the packets and the network.
Pins(script, p, net) ==
  IF script = "build" THEN <<p.indigo, p.india, p.express, net>> ELSE <<p, net>>

\* A packet is reviewed anew, or the network is built again.
Replace(e, net) ==
  /\ <<e, net>> # <<edition, base>>
  /\ edition' = e /\ base' = net
  /\ pinned' = {script \in pinned :
                  Pins(script, Packets[e], Networks[net]) = Pins(script, packet, network)}
  /\ outcome' = None /\ UNCHANGED <<normalized, catalog>>

\* The hashes and the totals in one of the scripts are brought up to date.
Pin(script) ==
  /\ pinned' = pinned \cup {script} /\ outcome' = None
  /\ UNCHANGED <<edition, base, normalized, catalog>>

Next ==
  \/ Normalize \/ Build \/ Verify
  \/ \E e \in DOMAIN Packets : Replace(e, base)
  \/ \E net \in DOMAIN Networks : Replace(edition, net)
  \/ \E script \in Scripts : Pin(script)

Spec == Init /\ [][Next]_vars
-----------------------------------------------------------------------------
(***************************************************************************)
(* Properties.                                                             *)
(***************************************************************************)
\* Type invariant.
TypeOK ==
  /\ edition \in DOMAIN Packets /\ base \in DOMAIN Networks /\ pinned \subseteq Scripts
  /\ outcome \in {None, "prepared", "written", "passed", "refused"}
  /\ catalog # None => DOMAIN catalog = ReviewSources

\* What is published rests on the packets: every identity is known to one source, each
\* variant of the sources that tell their rows cites live rows of its own, and is paired
\* if and only if both sides of the movement are among them.
RestsOnRows ==
  outcome = "written" =>
    /\ Disjoint(catalog)
    /\ \A s \in {"india", "express"} : \A identity \in DOMAIN catalog[s] :
         \A id \in DOMAIN catalog[s][identity] :
           LET variant == catalog[s][identity][id]
               table   == IF s = "india" THEN packet.india.movements ELSE packet.express.rows
           IN /\ variant.rows # {}
              /\ \A c \in variant.rows :
                   /\ c.row \in DOMAIN table
                   /\ table[c.row].side = c.side /\ table[c.row].identity = identity
                   /\ IF s = "india" THEN table[c.row].of = id ELSE Live(table[c.row])
              /\ variant.paired <=>
                   {"arrival", "departure"} \subseteq {table[c.row].side : c \in variant.rows}

\* What a variant says, up to SpiceJet's pairing and Air India's holds.
Settled(s, variant) ==
  [rows   |-> variant.rows,
   paired |-> IF s = "spicejet" THEN FALSE ELSE variant.paired,
   flags  |-> IF s = "india" THEN {} ELSE variant.flags]

\* The variants of a source in the file are those that are live today, and each says what
\* today's packet says of it, but for what verify does not compare: the airports a flight
\* of SpiceJet, IndiGo or Air India is filed under, SpiceJet's numbers and pairing, and Air
\* India's holds. Where no flight is filed astray, the references are those of today.
AsToday(s, source, today) ==
  /\ NamesIn(source) = DOMAIN today
  /\ \A identity \in DOMAIN source : \A id \in DOMAIN source[identity] :
       /\ Settled(s, source[identity][id]) = Settled(s, today[id].variant)
       /\ s \in {"indigo", "india"} => today[id].of.number = identity.number
       /\ s = "express" => today[id].of = identity
  /\ (\A identity \in DOMAIN source : \A id \in DOMAIN source[identity] : today[id].of = identity) =>
       /\ DOMAIN source = DOMAIN Filed(today)
       /\ \A identity \in DOMAIN source : DOMAIN source[identity] = DOMAIN Filed(today)[identity]

\* What passes, however old the file is, is as today's packets have it, no identity is of
\* two sources, and none of the carriers that are new to the network has got into it.
PassesOnlyCurrent ==
  outcome = "passed" =>
    /\ Disjoint(catalog)
    /\ \A s \in ReviewSources : AsToday(s, catalog[s], Records(packet)[s])
    /\ \A s \in ReviewSources \ {"india"} : \A identity \in DOMAIN catalog[s] :
         identity \notin Listed(network) /\ RouteOf(identity) \notin network.routes

EvidenceAccounted == RestsOnRows /\ PassesOnlyCurrent
=============================================================================
