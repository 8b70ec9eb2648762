----------------------------- MODULE RouteMerge -----------------------------
(***************************************************************************)
(* How one row of the runtime route network comes about                    *)
(* (scripts/build-runtime-route-network.ts, src/lib/rtw/                   *)
(* route-network-merge.ts): the evidence of a carrier on a directed pair   *)
(* passes through layers, corrections, number evidence, a gate, accepted   *)
(* rows, a quarantine and reviewed packets, in this order.                 *)
(*                                                                         *)
(* A row is its carrier identity, its status, the flight numbers confirmed *)
(* and those that are candidates, and what kinds of source confirm them.   *)
(* Rows of a catalogue do not interact, so one row is enough. Left out:    *)
(* hashes and totals checked against the pinned inputs, the timetables of  *)
(* packets, and routes that only a packet names.                           *)
(***************************************************************************)
EXTENDS Naturals

CONSTANTS Numbers, None, MaxLayers

Identities == {"operating", "provider-listed", "unknown"}
Statuses == {"published", "suspended", "identity-unresolved"}

\* A number is confirmed or a candidate, not both; confirmed ones have sources,
\* "observed" is the one that enforceObservedNumberOperatingGate gates.
Rows == {r \in [identity : Identities, status : Statuses, confirmed : SUBSET Numbers,
                candidates : SUBSET Numbers, sources : SUBSET {"observed", "official"}] :
           r.confirmed \cap r.candidates = {} /\ (r.sources = {} <=> r.confirmed = {})}

NetworkAssumption == None \notin Rows /\ MaxLayers \in Nat

VARIABLES
  row,       \* the row so far, or None
  stage,     \* how far the build is
  layers,    \* layers merged
  baseline,  \* the row as it was when the packets were reviewed
  proven,    \* history: numbers confirmed by an operating row, an accepted row or a packet
  blocked,   \* history: numbers quarantined
  reviewed   \* history: numbers of packets

vars == <<row, stage, layers, baseline, proven, blocked, reviewed>>

-----------------------------------------------------------------------------
(***************************************************************************)
(* route-network-merge.ts                                                  *)
(***************************************************************************)
\* Proof that the carrier operates the route does not promote the numbers of a
\* row without that proof.
LowerUnverified(lower, higher) ==
  higher.identity = "operating" /\ lower.identity # "operating"

\* (Fault: a number that was confirmed stays a candidate.)
CandidatesFault(lower, higher, confirmed) ==
  higher.candidates \cup lower.candidates \cup lower.confirmed

Candidates(lower, higher, confirmed) ==
  (higher.candidates \cup lower.candidates \cup lower.confirmed) \ confirmed

MergeRouteNumbers(lower, higher) ==
  LET demoted == LowerUnverified(lower, higher)
      confirmed == higher.confirmed \cup (IF demoted THEN {} ELSE lower.confirmed)
  IN [higher EXCEPT
        !.confirmed = confirmed,
        !.candidates = Candidates(lower, higher, confirmed),
        !.sources = @ \cup (IF demoted THEN {} ELSE lower.sources)]

\* mergeRouteNetworkCatalogs: an unknown identity keeps a provider's listing.
Merge(curated, observed) ==
  IF observed = None THEN curated
  ELSE IF curated = None THEN observed
  ELSE [MergeRouteNumbers(observed, curated) EXCEPT
          !.identity = IF @ = "unknown" /\ observed.identity = "provider-listed"
                       THEN "provider-listed" ELSE @]

OperatingGate(r) ==
  IF r.identity # "operating" /\ r.sources = {"observed"}
  THEN [r EXCEPT !.confirmed = {}, !.sources = {}, !.candidates = @ \cup r.confirmed]
  ELSE r

WithNumberEvidence(existing, evidence) ==
  LET merged == MergeRouteNumbers(evidence, existing)
  IN OperatingGate(IF evidence.status = "identity-unresolved"
                   THEN [merged EXCEPT !.status = "identity-unresolved"] ELSE merged)

\* applyRouteNumberQuarantines, of a row that a rule matches.
Quarantined(r, numbers) ==
  LET confirmed == r.confirmed \ numbers
      candidates == r.candidates \ numbers
  IN [r EXCEPT !.confirmed = confirmed, !.candidates = candidates,
               !.sources = IF confirmed = {} THEN {} ELSE @,
               !.status = IF @ = "published" /\ confirmed \cup candidates = {}
                          THEN "identity-unresolved" ELSE @]

-----------------------------------------------------------------------------
(***************************************************************************)
(* build-runtime-route-network.ts                                          *)
(***************************************************************************)
Init ==
  /\ row = None /\ stage = "layers" /\ layers = 0 /\ baseline = None
  /\ proven = {} /\ blocked = {} /\ reviewed = {}

ProvenBy(r) == IF r.identity = "operating" THEN r.confirmed ELSE {}

Layer(r) ==
  /\ stage = "layers" /\ layers < MaxLayers
  /\ row' = Merge(row, r)
  /\ layers' = layers + 1
  /\ proven' = proven \cup ProvenBy(r)
  /\ UNCHANGED <<stage, baseline, blocked, reviewed>>

Correct(r) ==
  /\ stage = "layers"
  /\ row' = Merge(r, row)
  /\ stage' = "numbers"
  /\ proven' = proven \cup ProvenBy(r)
  /\ UNCHANGED <<layers, baseline, blocked, reviewed>>

NotCorrected ==
  /\ stage = "layers" /\ row # None
  /\ stage' = "numbers"
  /\ UNCHANGED <<row, layers, baseline, proven, blocked, reviewed>>

\* Evidence for a route that is not there throws.
NumberEvidence(r) ==
  /\ stage = "numbers"
  /\ row' = WithNumberEvidence(row, r)
  /\ stage' = "gate"
  /\ proven' = proven \cup ProvenBy(r)
  /\ UNCHANGED <<layers, baseline, blocked, reviewed>>

\* A provider's listing without any number is not a current route.
Gate ==
  /\ stage \in {"numbers", "gate"}
  /\ row' = IF /\ row.status = "published" /\ row.identity = "provider-listed"
               /\ row.confirmed \cup row.candidates = {}
            THEN [row EXCEPT !.status = "identity-unresolved"] ELSE row
  /\ stage' = "preserve"
  /\ UNCHANGED <<layers, baseline, proven, blocked, reviewed>>

\* preserveRuntimeRoutesThenQuarantine: an accepted row replaces the row, then
\* the rules apply.
PreserveThenQuarantine(accepted, numbers) ==
  /\ stage = "preserve"
  /\ LET kept == IF accepted = None THEN row ELSE accepted
     IN row' = IF numbers = {} THEN kept ELSE Quarantined(kept, numbers)
  /\ stage' = "avinor"
  /\ baseline' = row'
  /\ proven' = IF accepted = None THEN proven ELSE proven \cup accepted.confirmed
  /\ blocked' = numbers
  /\ UNCHANGED <<layers, reviewed>>

Promoted(r, n) == [r EXCEPT !.confirmed = @ \cup {n}, !.candidates = @ \ {n},
                            !.sources = @ \cup {"official"}]

Review(n) == proven' = proven \cup {n} /\ reviewed' = reviewed \cup {n}

\* Both Avinor packets promote candidates only.
AvinorPacket(n) ==
  /\ stage = "avinor" /\ n \in row.candidates
  /\ row' = Promoted(row, n)
  /\ Review(n)
  /\ UNCHANGED <<stage, layers, baseline, blocked>>

\* The follow-on rows: promoted before, or new to the baseline. They make an
\* unresolved row a published one.
FollowOn(n) ==
  /\ stage = "avinor"
  /\ n \in baseline.candidates <=> n \in row.confirmed
  /\ n \notin baseline.confirmed
  /\ row' = [Promoted(row, n) EXCEPT
               !.status = IF @ = "identity-unresolved" THEN "published" ELSE @,
               !.identity = IF @ = "operating" THEN @ ELSE "provider-listed"]
  /\ stage' = "remaining"
  /\ Review(n)
  /\ UNCHANGED <<layers, baseline, blocked>>

NoFollowOn ==
  /\ stage = "avinor" /\ stage' = "remaining"
  /\ UNCHANGED <<row, layers, baseline, proven, blocked, reviewed>>

\* The rows of the remaining airports: neither confirmed nor candidates so far.
Remaining(n) ==
  /\ stage = "remaining" /\ n \notin row.confirmed \cup row.candidates
  /\ row' = [Promoted(row, n) EXCEPT
               !.status = IF @ = "identity-unresolved" THEN "published" ELSE @,
               !.identity = IF @ = "operating" THEN @ ELSE "provider-listed"]
  /\ stage' = "written"
  /\ Review(n)
  /\ UNCHANGED <<layers, baseline, blocked>>

NoRemaining ==
  /\ stage = "remaining" /\ stage' = "written"
  /\ UNCHANGED <<row, layers, baseline, proven, blocked, reviewed>>

Next ==
  \/ \E r \in Rows : Layer(r) \/ Correct(r) \/ NumberEvidence(r)
  \/ NotCorrected \/ Gate
  \/ \E accepted \in Rows \cup {None}, numbers \in SUBSET Numbers :
       PreserveThenQuarantine(accepted, numbers)
  \/ \E n \in Numbers : AvinorPacket(n) \/ FollowOn(n) \/ Remaining(n)
  \/ NoFollowOn \/ NoRemaining

Spec == Init /\ [][Next]_vars
-----------------------------------------------------------------------------
(***************************************************************************)
(* Properties.                                                             *)
(***************************************************************************)
\* Type invariant: the schema every stage's catalogue is parsed with.
TypeOK == row \in Rows \cup {None} /\ layers \in 0..MaxLayers

\* However layers, corrections and number evidence are stacked, a number
\* confirmed on an operating row was confirmed by some row with operating
\* proof, an accepted row or a reviewed packet, never by a provider's listing
\* alone; and a quarantined number comes back only through a reviewed packet.
MergeKeepsEvidence ==
  row # None =>
    /\ row.identity = "operating" => row.confirmed \subseteq proven
    /\ (row.confirmed \cup row.candidates) \cap blocked \subseteq reviewed
=============================================================================
