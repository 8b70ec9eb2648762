----------------------------- MODULE DataProofs -----------------------------
(***************************************************************************)
(* What is proved of the parts route data goes through, for any airports,  *)
(* carriers, files and packets, and for any number of runs. Each part is   *)
(* proved by itself, from its own specification; the last section puts     *)
(* them together.                                                          *)
(***************************************************************************)
EXTENDS DataParts, SequenceLemmas, WellFoundedInduction

-----------------------------------------------------------------------------
(***************************************************************************)
(* The collector of observed routes.                                       *)
(***************************************************************************)
\* The workers await answers for different airports that have been taken and have no file
\* yet, and what a run has of an airport is what its file says, unless it failed there.
Awaited ==
  \A w \in Workers : awaited[w] # Void =>
    /\ awaited[w] \in Collection!Origins /\ awaited[w] <= cursor
    /\ files[awaited[w]] = Void
    /\ \A v \in Workers : awaited[v] = awaited[w] => v = w

Recorded ==
  \A o \in Collection!Origins : records[o] # Void => o \in failures \/ files[o] = records[o]

\* A whole catalogue is of files that are whole, and none of them is written again.
Whole ==
  output # Void /\ ~output.partial =>
    output.records = files /\ \A o \in Collection!Origins : files[o] = "good"

FileStates == {Void, "good", "bad", "torn"}

CollectionInv ==
  /\ files \in [Collection!Origins -> FileStates]
  /\ records \in [Collection!Origins -> {Void, "good", "bad"}]
  /\ awaited \in [Workers -> Collection!Origins \cup {Void}] /\ cursor \in Nat
  /\ failures \subseteq Collection!Origins
  /\ process # Void => process \in [fetch : BOOLEAN, partial : BOOLEAN, max : Collection!Origins]
  /\ Awaited /\ Recorded /\ Whole

LEMMA CollectionBegins ==
  ASSUME Collection!CollectionAssumption PROVE Collection!Init => CollectionInv
BY DEF Collection!Init, Collection!Nothing, Collection!Idle, CollectionInv, Awaited, Recorded,
       Whole, Collection!CollectionAssumption, FileStates

\* When the process ends nothing is awaited and nothing is held in memory.
LEMMA Ended ==
  ASSUME CollectionInv, Collection!Exit, files' \in [Collection!Origins -> FileStates], Whole'
  PROVE  CollectionInv'
<1>1. /\ process' = Void /\ cursor' = 0 /\ failures' = {}
      /\ awaited' = [w \in Workers |-> Void]
      /\ records' = [o \in Collection!Origins |-> Void]
  BY DEF Collection!Exit, Collection!Idle, Collection!Nothing
<1>2. Awaited' /\ Recorded'
  BY <1>1 DEF Awaited, Recorded
<1> QED BY <1>1, <1>2 DEF CollectionInv

\* A worker that awaits an answer bars every catalogue that is whole.
LEMMA AwaitedBars ==
  ASSUME Collection!CollectionAssumption, CollectionInv, NEW w \in Workers, awaited[w] # Void
  PROVE  output = Void \/ output.partial
BY DEF CollectionInv, Awaited, Whole, Collection!CollectionAssumption

LEMMA AnswersKeep ==
  ASSUME Collection!CollectionAssumption, CollectionInv, NEW w \in Workers,
         NEW reply \in {"good", "bad"}, NEW file \in FileStates,
          Collection!Answered(w, reply, file),
         (failures' = failures /\ file = reply) \/ failures' = failures \cup {awaited[w]}
  PROVE  CollectionInv'
<1> DEFINE here == awaited[w]
<1>1. /\ here # Void /\ here \in Collection!Origins
      /\ \A v \in Workers : awaited[v] = here => v = w
  BY DEF Collection!Answered, CollectionInv, Awaited
<1>2. /\ records' = [records EXCEPT ![here] = reply] /\ files' = [files EXCEPT ![here] = file]
      /\ awaited' = [awaited EXCEPT ![w] = Void]
      /\ UNCHANGED <<process, cursor, output>>
  BY DEF Collection!Answered
<1>3. output' = Void \/ output'.partial
  BY <1>1, <1>2, AwaitedBars
<1>4. Awaited'
  <2> SUFFICES ASSUME NEW u \in Workers, awaited'[u] # Void
               PROVE  /\ awaited'[u] \in Collection!Origins /\ awaited'[u] <= cursor'
                      /\ files'[awaited'[u]] = Void
                      /\ \A v \in Workers : awaited'[v] = awaited'[u] => v = u
    BY DEF Awaited
  <2>1. u # w /\ awaited'[u] = awaited[u] /\ awaited[u] # here
    BY <1>1, <1>2 DEF CollectionInv
  <2> QED BY <1>2, <2>1 DEF CollectionInv, Awaited
<1>5. Recorded'
  <2> SUFFICES ASSUME NEW o \in Collection!Origins, records'[o] # Void
               PROVE  o \in failures' \/ files'[o] = records'[o]
    BY DEF Recorded
  <2>1. CASE o = here
    BY <1>2, <2>1 DEF CollectionInv
  <2>2. CASE o # here
    BY <1>2, <2>2 DEF CollectionInv, Recorded
  <2> QED BY <2>1, <2>2
<1>6. /\ records' \in [Collection!Origins -> {Void, "good", "bad"}]
      /\ awaited' \in [Workers -> Collection!Origins \cup {Void}]
      /\ files' \in [Collection!Origins -> FileStates] /\ failures' \subseteq Collection!Origins
  BY <1>1, <1>2 DEF CollectionInv
<1> QED BY <1>2, <1>3, <1>4, <1>5, <1>6 DEF CollectionInv, Whole

LEMMA CollectionSteps ==
  ASSUME Collection!CollectionAssumption, CollectionInv, [Collection!Next]_Collection!vars
  PROVE  CollectionInv'
<1>1. ASSUME NEW fetch \in BOOLEAN, NEW partial \in BOOLEAN, NEW max \in Collection!Origins,
             Collection!Start(fetch, partial, max)
      PROVE  CollectionInv'
  <2>1. /\ process' = [fetch |-> fetch, partial |-> partial, max |-> max]
        /\ cursor' = 0 /\ failures' = {} /\ UNCHANGED <<files, output>>
        /\ awaited' = [w \in Workers |-> Void]
        /\ records' = [o \in Collection!Origins |-> Void]
    BY <1>1 DEF Collection!Start, Collection!Idle, Collection!Nothing
  <2>2. Awaited' /\ Recorded' /\ Whole'
    BY <2>1 DEF Awaited, Recorded, Whole, CollectionInv
  <2> QED BY <2>1, <2>2 DEF CollectionInv
<1>2. ASSUME NEW w \in Workers, Collection!TakeTorn(w) PROVE CollectionInv'
  BY <1>2, Ended DEF Collection!TakeTorn, CollectionInv, Whole
<1>3. ASSUME NEW w \in Workers, Collection!TakeCached(w) PROVE CollectionInv'
  <2> DEFINE here == Collection!Origin
  <2>1. /\ files[here] \in {"good", "bad"} /\ cursor < process.max /\ process # Void
        /\ records' = [records EXCEPT ![here] = files[here]] /\ cursor' = here
        /\ UNCHANGED <<files, process, awaited, failures, output>>
    BY <1>3 DEF Collection!TakeCached, Collection!Free, Collection!Running
  <2>2. here \in Nat /\ cursor < here /\ here = cursor + 1
    BY DEF Collection!Origin, CollectionInv
  <2>3. Awaited'
    <3>1. \A w1 \in Workers : awaited[w1] # Void => awaited[w1] \in Nat /\ awaited[w1] <= here
      BY <2>2 DEF Awaited, CollectionInv, Collection!Origins
    <3> QED BY <2>1, <3>1 DEF Awaited, CollectionInv
  <2>4. Recorded'
    BY <2>1 DEF Recorded, CollectionInv
  <2>5. records' \in [Collection!Origins -> {Void, "good", "bad"}]
    BY <2>1 DEF CollectionInv
  <2> QED BY <2>1, <2>2, <2>3, <2>4, <2>5 DEF CollectionInv, Whole
<1>4. ASSUME NEW w \in Workers, Collection!TakeUncached(w) PROVE CollectionInv'
  <2> DEFINE here == Collection!Origin
  <2>1. /\ files[here] = Void /\ cursor < process.max /\ process # Void
        /\ awaited' = [awaited EXCEPT ![w] = IF process.fetch THEN here ELSE Void]
        /\ cursor' = here /\ awaited[w] = Void
        /\ UNCHANGED <<files, process, records, failures, output>>
    BY <1>4 DEF Collection!TakeUncached, Collection!Free, Collection!Running
  <2>2. here \in Nat /\ cursor < here /\ here = cursor + 1
    BY DEF Collection!Origin, CollectionInv
  <2>3. here \in Collection!Origins
    <3>1. process.max \in Nat /\ process.max <= Universe
      BY <2>1 DEF CollectionInv, Collection!Origins, Collection!CollectionAssumption
    <3> QED BY <2>1, <2>2, <3>1
           DEF CollectionInv, Collection!CollectionAssumption, Collection!Origins
  <2>4. \A v \in Workers : awaited[v] # Void => awaited[v] \in Nat /\ awaited[v] <= cursor
    BY DEF Awaited, CollectionInv, Collection!Origins
  <2>5. Awaited'
    <3> SUFFICES ASSUME NEW u \in Workers, awaited'[u] # Void
                 PROVE  /\ awaited'[u] \in Collection!Origins /\ awaited'[u] <= cursor'
                        /\ files'[awaited'[u]] = Void
                        /\ \A v \in Workers : awaited'[v] = awaited'[u] => v = u
      BY DEF Awaited
    <3>1. CASE u = w
      <4>1. awaited'[u] = here
        BY <2>1, <3>1 DEF CollectionInv
      <4>2. \A v \in Workers : v # w => awaited'[v] # here
        <5>1. \A v \in Workers : v # w => awaited'[v] = awaited[v] /\ awaited[v] # here
          BY <2>1, <2>2, <2>3, <2>4
             DEF CollectionInv, Collection!CollectionAssumption, Collection!Origins
        <5> QED BY <5>1
      <4> QED BY <2>1, <2>2, <2>3, <3>1, <4>1, <4>2
    <3>2. CASE u # w
      <4>1. awaited'[u] = awaited[u] /\ awaited[u] \in Nat /\ awaited[u] <= cursor
        BY <2>1, <2>4, <3>2 DEF CollectionInv
      <4>2. awaited'[w] # awaited[u]
        <5>1. awaited'[w] = here \/ awaited'[w] = Void
          BY <2>1 DEF CollectionInv
        <5>2. here # awaited[u]
          BY <2>2, <4>1 DEF CollectionInv
        <5> QED BY <4>1, <5>1, <5>2 DEF Collection!CollectionAssumption
      <4>3. awaited[u] \in Collection!Origins /\ awaited[u] <= here /\ files[awaited[u]] = Void
        BY <2>2, <4>1 DEF CollectionInv, Awaited, Collection!CollectionAssumption
      <4>4. \A v \in Workers : v # w => awaited'[v] = awaited[v]
        BY <2>1 DEF CollectionInv
      <4>5. \A v \in Workers : awaited[v] = awaited[u] => v = u
        BY <4>1 DEF CollectionInv, Awaited, Collection!CollectionAssumption
      <4> QED BY <2>1, <4>1, <4>2, <4>3, <4>4, <4>5
    <3> QED BY <3>1, <3>2
  <2>6. awaited' \in [Workers -> Collection!Origins \cup {Void}]
    BY <2>1, <2>3 DEF CollectionInv
  <2>7. Recorded' /\ Whole'
    BY <2>1 DEF CollectionInv, Recorded, Whole
  <2> QED BY <2>1, <2>2, <2>5, <2>6, <2>7 DEF CollectionInv
<1>5. ASSUME NEW w \in Workers, Collection!FetchFails(w) PROVE CollectionInv'
  <2>1. /\ awaited[w] # Void /\ failures' = failures \cup {awaited[w]}
        /\ awaited' = [awaited EXCEPT ![w] = Void]
        /\ UNCHANGED <<files, process, cursor, records, output>>
    BY <1>5 DEF Collection!FetchFails
  <2>2. Awaited'
    BY <2>1 DEF CollectionInv, Awaited
  <2>3. Recorded' /\ Whole'
    BY <2>1 DEF CollectionInv, Recorded, Whole
  <2>4. awaited[w] \in Collection!Origins
    BY <2>1 DEF CollectionInv, Awaited
  <2> QED BY <2>1, <2>2, <2>3, <2>4 DEF CollectionInv
<1>6. ASSUME NEW w \in Workers, NEW reply \in {"good", "bad"}, Collection!Fetched(w, reply)
      PROVE  CollectionInv'
  BY <1>6, AnswersKeep DEF Collection!Fetched, FileStates
<1>7. ASSUME NEW w \in Workers, NEW reply \in {"good", "bad"}, NEW file \in {Void, "torn"},
             Collection!WriteFails(w, reply, file)
      PROVE  CollectionInv'
  BY <1>7, AnswersKeep DEF Collection!WriteFails, FileStates
<1>8. ASSUME Collection!EndWithout PROVE CollectionInv'
  BY <1>8, Ended DEF Collection!EndWithout, CollectionInv, Whole
<1>9. ASSUME Collection!WriteOutput PROVE CollectionInv'
  <2>1. Collection!Exit /\ files' = files
    BY <1>9 DEF Collection!WriteOutput
  <2>2. Whole'
    <3>1. CASE output' = Void
      BY <3>1 DEF Whole
    <3>2. CASE output' = [partial |-> process.partial, records |-> records]
      <4> SUFFICES ASSUME ~process.partial
                   PROVE  records = files /\ \A o \in Collection!Origins : files[o] = "good"
        BY <2>1, <3>2 DEF Whole
      <4>1. /\ \A o \in Collection!Origins : records[o] # Void /\ records[o] # "bad"
            /\ failures = {}
        BY <1>9 DEF Collection!WriteOutput, Collection!Complete, Collection!Normalizes
      <4>2. \A o \in Collection!Origins : files[o] = records[o] /\ records[o] = "good"
        BY <4>1 DEF CollectionInv, Recorded
      <4> QED BY <4>2 DEF CollectionInv
    <3> QED BY <1>9, <3>1, <3>2 DEF Collection!WriteOutput
  <2> QED BY <2>1, <2>2, Ended DEF CollectionInv
<1>10. ASSUME Collection!Kill PROVE CollectionInv'
  <2>1. Collection!Exit /\ output' = output
    BY <1>10 DEF Collection!Kill
  <2>2. CASE files' = files
    BY <2>1, <2>2, Ended DEF CollectionInv, Whole
  <2>3. ASSUME NEW w \in Workers, awaited[w] # Void, files' = [files EXCEPT ![awaited[w]] = "torn"]
        PROVE  CollectionInv'
    BY <2>1, <2>3, AwaitedBars, Ended DEF CollectionInv, Whole, FileStates
  <2> QED BY <1>10, <2>2, <2>3 DEF Collection!Kill
<1>11. ASSUME UNCHANGED Collection!vars PROVE CollectionInv'
  BY <1>11 DEF Collection!vars, CollectionInv, Awaited, Recorded, Whole
<1> QED BY <1>1, <1>2, <1>3, <1>4, <1>5, <1>6, <1>7, <1>8, <1>9, <1>10, <1>11 DEF Collection!Next

\* collect-global-routes.ts: a catalogue that is not marked partial can be built again from
\* the cache, for any number of airports and workers, over runs that fail and are killed.
THEOREM CataloguesAreReproducible ==
  ASSUME Collection!CollectionAssumption PROVE Collection!Spec => []Collection!OutputReproducible
<1>1. CollectionInv => Collection!OutputReproducible
  BY DEF CollectionInv, Whole, Collection!OutputReproducible
<1> QED BY <1>1, CollectionBegins, CollectionSteps, PTL DEF Collection!Spec

-----------------------------------------------------------------------------
(***************************************************************************)
(* A row of the runtime route network.                                     *)
(***************************************************************************)
\* Before the quarantine nothing is blocked; from then on what is blocked is gone from the
\* row, but for the numbers of packets. A row that claims operating proof has it for every
\* number it confirms.
NetworkInv ==
  /\ row \in Network!Rows \cup {Void} /\ layers \in 0..MaxLayers
  /\ stage # "layers" => row # Void
  /\ stage \in {"layers", "numbers", "gate", "preserve"} => blocked = {}
  /\ Network!MergeKeepsEvidence

\* What merging the numbers of two rows gives.
LEMMA MergedNumbers ==
  ASSUME NEW lower \in Network!Rows, NEW higher \in Network!Rows
  PROVE  LET m == Network!MergeRouteNumbers(lower, higher)
         IN /\ m \in Network!Rows /\ m.identity = higher.identity /\ m.status = higher.status
            /\ Network!LowerUnverified(lower, higher) => m.confirmed = higher.confirmed
            /\ m.confirmed \subseteq higher.confirmed \cup lower.confirmed
<1> DEFINE demoted == Network!LowerUnverified(lower, higher)
           confirmed == higher.confirmed \cup (IF demoted THEN {} ELSE lower.confirmed)
           candidates == Network!Candidates(lower, higher, confirmed)
           sources == higher.sources \cup (IF demoted THEN {} ELSE lower.sources)
           m == Network!MergeRouteNumbers(lower, higher)
<1>1. m = [higher EXCEPT !.confirmed = confirmed, !.candidates = candidates,
                         !.sources = sources]
  BY DEF Network!MergeRouteNumbers
<1>2. /\ confirmed \in SUBSET LayerNumbers /\ candidates \in SUBSET LayerNumbers
      /\ sources \in SUBSET {"observed", "official"} /\ confirmed \cap candidates = {}
  BY DEF Network!Rows, Network!Candidates
<1>3. sources = {} <=> confirmed = {}
  BY DEF Network!Rows
<1>4. (demoted => confirmed = higher.confirmed)
        /\ confirmed \subseteq higher.confirmed \cup lower.confirmed
  OBVIOUS
<1> HIDE DEF demoted, confirmed, candidates, sources, m
<1>5. m \in Network!Rows /\ m.confirmed = confirmed /\ m.identity = higher.identity
        /\ m.status = higher.status
  BY <1>1, <1>2, <1>3 DEF Network!Rows
<1> QED BY <1>4, <1>5 DEF m, demoted

\* A row has proof of its numbers, given what has been proven.
Grounded(r, known) == r.identity = "operating" => r.confirmed \subseteq known

\* Merging keeps rows, and the proof of what they confirm.
LEMMA MergedRows ==
  ASSUME Network!NetworkAssumption,
         NEW curated \in Network!Rows \cup {Void}, NEW observed \in Network!Rows \cup {Void},
         curated # Void \/ observed # Void, NEW known,
         curated # Void => Grounded(curated, known), observed # Void => Grounded(observed, known)
  PROVE  /\ Network!Merge(curated, observed) \in Network!Rows
         /\ Grounded(Network!Merge(curated, observed), known)
<1>1. CASE observed = Void
  BY <1>1 DEF Network!Merge
<1>2. CASE observed # Void /\ curated = Void
  BY <1>2 DEF Network!Merge
<1>3. CASE observed # Void /\ curated # Void
  <2> DEFINE m == Network!MergeRouteNumbers(observed, curated)
             i == IF m.identity = "unknown" /\ observed.identity = "provider-listed"
                  THEN "provider-listed" ELSE m.identity
             n == Network!Merge(curated, observed)
  <2>1. /\ m \in Network!Rows /\ m.identity = curated.identity
        /\ Network!LowerUnverified(observed, curated) => m.confirmed = curated.confirmed
        /\ m.confirmed \subseteq curated.confirmed \cup observed.confirmed
    BY <1>3, MergedNumbers
  <2>2. n = [m EXCEPT !.identity = i]
    BY <1>3 DEF Network!Merge
  <2> HIDE DEF m, n
  <2>3. i \in Network!Identities /\ (i = "operating" => curated.identity = "operating")
    BY <2>1 DEF Network!Rows, Network!Identities
  <2> HIDE DEF i
  <2>4. n \in Network!Rows /\ n.identity = i /\ n.confirmed = m.confirmed
    BY <2>1, <2>2, <2>3 DEF Network!Rows
  <2>5. ASSUME n.identity = "operating" PROVE n.confirmed \subseteq known
    <3>1. curated.identity = "operating" /\ curated.confirmed \subseteq known
      BY <1>3, <2>3, <2>4, <2>5 DEF Grounded
    <3>2. CASE observed.identity = "operating"
      BY <1>3, <2>1, <2>4, <3>1, <3>2 DEF Grounded
    <3>3. CASE observed.identity # "operating"
      BY <2>1, <2>4, <3>1, <3>3 DEF Network!LowerUnverified
    <3> QED BY <3>2, <3>3
  <2> QED BY <2>4, <2>5 DEF Grounded, n
<1> QED BY <1>1, <1>2, <1>3

\* The gate for observed numbers takes nothing from a row with operating proof.
LEMMA EvidenceMerges ==
  ASSUME NEW existing \in Network!Rows, NEW evidence \in Network!Rows, NEW known,
         Grounded(existing, known), Grounded(evidence, known)
  PROVE  /\ Network!WithNumberEvidence(existing, evidence) \in Network!Rows
         /\ Grounded(Network!WithNumberEvidence(existing, evidence), known)
<1> DEFINE m == Network!MergeRouteNumbers(evidence, existing)
           g == IF evidence.status = "identity-unresolved"
                THEN [m EXCEPT !.status = "identity-unresolved"] ELSE m
<1>1. /\ m \in Network!Rows /\ m.identity = existing.identity
      /\ Network!LowerUnverified(evidence, existing) => m.confirmed = existing.confirmed
      /\ m.confirmed \subseteq existing.confirmed \cup evidence.confirmed
  BY MergedNumbers
<1>2. Network!WithNumberEvidence(existing, evidence) = Network!OperatingGate(g)
  BY DEF Network!WithNumberEvidence
<1> HIDE DEF m
<1>3. g \in Network!Rows /\ g.identity = m.identity /\ g.confirmed = m.confirmed
  BY <1>1 DEF Network!Rows, Network!Statuses
<1>4. Grounded(g, known)
  <2> SUFFICES ASSUME existing.identity = "operating" PROVE m.confirmed \subseteq known
    BY <1>1, <1>3 DEF Grounded
  <2>1. CASE evidence.identity = "operating"
    BY <1>1, <2>1 DEF Grounded
  <2>2. CASE evidence.identity # "operating"
    BY <1>1, <2>2 DEF Grounded, Network!LowerUnverified
  <2> QED BY <2>1, <2>2
<1> HIDE DEF g
<1>5. CASE g.identity # "operating" /\ g.sources = {"observed"}
  <2> DEFINE gated == [g EXCEPT !.confirmed = {}, !.sources = {},
                                !.candidates = @ \cup g.confirmed]
  <2>1. gated \in Network!Rows /\ gated.identity = g.identity
    BY <1>3 DEF Network!Rows
  <2>2. Network!OperatingGate(g) = gated
    BY <1>5 DEF Network!OperatingGate
  <2> HIDE DEF gated
  <2> QED BY <1>2, <1>5, <2>1, <2>2 DEF Grounded
<1>6. CASE ~(g.identity # "operating" /\ g.sources = {"observed"})
  BY <1>2, <1>3, <1>4, <1>6 DEF Network!OperatingGate
<1> QED BY <1>5, <1>6

\* A quarantine takes its numbers out of the row and adds none.
LEMMA QuarantinedRows ==
  ASSUME NEW r \in Network!Rows, NEW numbers \in SUBSET LayerNumbers
  PROVE  LET q == Network!Quarantined(r, numbers)
         IN /\ q \in Network!Rows /\ q.identity = r.identity /\ q.confirmed \subseteq r.confirmed
            /\ (q.confirmed \cup q.candidates) \cap numbers = {}
<1> DEFINE confirmed == r.confirmed \ numbers
           candidates == r.candidates \ numbers
           sources == IF confirmed = {} THEN {} ELSE r.sources
           status_ == IF r.status = "published" /\ confirmed \cup candidates = {}
                      THEN "identity-unresolved" ELSE r.status
           q == Network!Quarantined(r, numbers)
<1>1. q = [r EXCEPT !.confirmed = confirmed, !.candidates = candidates, !.sources = sources,
                    !.status = status_]
  BY DEF Network!Quarantined
<1>2. /\ confirmed \in SUBSET LayerNumbers /\ candidates \in SUBSET LayerNumbers
      /\ sources \in SUBSET {"observed", "official"} /\ confirmed \cap candidates = {}
      /\ sources = {} <=> confirmed = {}
      /\ confirmed \subseteq r.confirmed /\ (confirmed \cup candidates) \cap numbers = {}
  BY DEF Network!Rows
<1>3. status_ \in Network!Statuses
  BY DEF Network!Rows, Network!Statuses
<1> HIDE DEF confirmed, candidates, sources, status_, q
<1>4. /\ q \in Network!Rows /\ q.identity = r.identity /\ q.confirmed = confirmed
      /\ q.candidates = candidates
  BY <1>1, <1>2, <1>3 DEF Network!Rows
<1> QED BY <1>2, <1>4 DEF q

LEMMA PromotedRows ==
  ASSUME NEW r \in Network!Rows, NEW n \in LayerNumbers
  PROVE  LET p == Network!Promoted(r, n)
         IN /\ p \in Network!Rows /\ p.identity = r.identity /\ p.status = r.status
            /\ p.confirmed = r.confirmed \cup {n} /\ p.candidates \subseteq r.candidates
<1> DEFINE p == Network!Promoted(r, n)
<1>1. p = [r EXCEPT !.confirmed = @ \cup {n}, !.candidates = @ \ {n},
                    !.sources = @ \cup {"official"}]
  BY DEF Network!Promoted
<1> HIDE DEF p
<1>2. p \in Network!Rows /\ p.identity = r.identity /\ p.status = r.status
        /\ p.confirmed = r.confirmed \cup {n} /\ p.candidates \subseteq r.candidates
  BY <1>1 DEF Network!Rows
<1> QED BY <1>2 DEF p

\* A packet's number joins the row, whatever becomes of its status, and is accounted for.
LEMMA ReviewsKeep ==
  ASSUME Network!NetworkAssumption, NetworkInv, row # Void, NEW n \in LayerNumbers, Network!Review(n),
         UNCHANGED <<layers, blocked>>, stage' \in {"avinor", "remaining", "written"},
         NEW s \in Network!Statuses, NEW i \in Network!Identities,
         i = "operating" => row.identity = "operating",
         row' = [Network!Promoted(row, n) EXCEPT !.status = s, !.identity = i]
  PROVE  NetworkInv'
<1> DEFINE p == Network!Promoted(row, n)
<1>1. /\ p \in Network!Rows /\ p.identity = row.identity
      /\ p.confirmed = row.confirmed \cup {n} /\ p.candidates \subseteq row.candidates
  BY PromotedRows DEF NetworkInv
<1>2. row' = [p EXCEPT !.status = s, !.identity = i]
  OBVIOUS
<1> HIDE DEF p
<1>3. /\ row' \in Network!Rows /\ row'.identity = i /\ row'.confirmed = p.confirmed
      /\ row'.candidates = p.candidates
  BY <1>1, <1>2 DEF Network!Rows
<1>4. proven' = proven \cup {n} /\ reviewed' = reviewed \cup {n}
  BY DEF Network!Review
<1>5. /\ row.identity = "operating" => row.confirmed \subseteq proven
      /\ (row.confirmed \cup row.candidates) \cap blocked \subseteq reviewed
  BY DEF NetworkInv, Network!MergeKeepsEvidence
<1>6. row'.identity = "operating" => row'.confirmed \subseteq proven'
  BY <1>1, <1>3, <1>4, <1>5
<1>7. (row'.confirmed \cup row'.candidates) \cap blocked' \subseteq reviewed'
  BY <1>1, <1>3, <1>4, <1>5
<1> QED BY <1>3, <1>6, <1>7 DEF NetworkInv, Network!NetworkAssumption, Network!MergeKeepsEvidence

LEMMA NetworkSteps ==
  ASSUME Network!NetworkAssumption, NetworkInv, [Network!Next]_Network!vars
  PROVE  NetworkInv'
<1>1. ASSUME NEW r \in Network!Rows, Network!Layer(r) PROVE NetworkInv'
  <2>1. /\ stage = "layers" /\ layers < MaxLayers /\ row' = Network!Merge(row, r)
        /\ layers' = layers + 1 /\ proven' = proven \cup Network!ProvenBy(r)
        /\ UNCHANGED <<stage, blocked, reviewed>>
    BY <1>1 DEF Network!Layer
  <2>2. row # Void => Grounded(row, proven')
    BY <2>1 DEF NetworkInv, Network!MergeKeepsEvidence, Grounded
  <2>3. Grounded(r, proven')
    BY <2>1 DEF Grounded, Network!ProvenBy
  <2>4. r # Void
    BY DEF Network!NetworkAssumption
  <2>5. row' \in Network!Rows /\ Grounded(row', proven')
    BY <2>1, <2>2, <2>3, <2>4, MergedRows DEF NetworkInv
  <2>6. layers' \in 0..MaxLayers /\ blocked' = {}
    BY <2>1 DEF NetworkInv, Network!NetworkAssumption
  <2> QED BY <2>1, <2>5, <2>6 DEF NetworkInv, Network!MergeKeepsEvidence, Grounded
<1>2. ASSUME NEW r \in Network!Rows, Network!Correct(r) PROVE NetworkInv'
  <2>1. /\ stage = "layers" /\ row' = Network!Merge(r, row) /\ stage' = "numbers"
        /\ proven' = proven \cup Network!ProvenBy(r) /\ UNCHANGED <<layers, blocked, reviewed>>
    BY <1>2 DEF Network!Correct
  <2>2. row # Void => Grounded(row, proven')
    BY <2>1 DEF NetworkInv, Network!MergeKeepsEvidence, Grounded
  <2>3. Grounded(r, proven')
    BY <2>1 DEF Grounded, Network!ProvenBy
  <2>4. r # Void
    BY DEF Network!NetworkAssumption
  <2>5. row' \in Network!Rows /\ Grounded(row', proven')
    BY <2>1, <2>2, <2>3, <2>4, MergedRows DEF NetworkInv
  <2>6. layers' \in 0..MaxLayers /\ blocked' = {}
    BY <2>1 DEF NetworkInv
  <2> QED BY <2>1, <2>5, <2>6 DEF NetworkInv, Network!NetworkAssumption, Network!MergeKeepsEvidence,
                                  Grounded
<1>3. ASSUME NEW r \in Network!Rows, Network!NumberEvidence(r) PROVE NetworkInv'
  <2>1. /\ stage = "numbers" /\ row' = Network!WithNumberEvidence(row, r) /\ stage' = "gate"
        /\ proven' = proven \cup Network!ProvenBy(r) /\ UNCHANGED <<layers, blocked, reviewed>>
    BY <1>3 DEF Network!NumberEvidence
  <2>2. row \in Network!Rows /\ Grounded(row, proven')
    BY <2>1 DEF NetworkInv, Network!MergeKeepsEvidence, Grounded
  <2>3. Grounded(r, proven')
    BY <2>1 DEF Grounded, Network!ProvenBy
  <2>4. row' \in Network!Rows /\ Grounded(row', proven')
    BY <2>1, <2>2, <2>3, EvidenceMerges
  <2>5. layers' \in 0..MaxLayers /\ blocked' = {}
    BY <2>1 DEF NetworkInv
  <2> QED BY <2>1, <2>4, <2>5 DEF NetworkInv, Network!NetworkAssumption, Network!MergeKeepsEvidence,
                                  Grounded
<1>4. CASE Network!NotCorrected
  BY <1>4 DEF Network!NotCorrected, NetworkInv, Network!MergeKeepsEvidence
<1>5. CASE Network!Gate
  <2>1. /\ stage \in {"numbers", "gate"} /\ stage' = "preserve"
        /\ row' \in {row, [row EXCEPT !.status = "identity-unresolved"]}
        /\ UNCHANGED <<layers, proven, blocked, reviewed>>
    BY <1>5 DEF Network!Gate
  <2>2. row \in Network!Rows
    BY <2>1 DEF NetworkInv
  <2>3. /\ row' \in Network!Rows /\ row'.identity = row.identity
        /\ row'.confirmed = row.confirmed /\ row'.candidates = row.candidates
    BY <2>1, <2>2 DEF Network!Rows, Network!Statuses
  <2> QED BY <2>1, <2>3 DEF NetworkInv, Network!NetworkAssumption, Network!MergeKeepsEvidence
<1>6. ASSUME NEW accepted \in Network!Rows \cup {Void}, NEW numbers \in SUBSET LayerNumbers,
             Network!PreserveThenQuarantine(accepted, numbers)
      PROVE  NetworkInv'
  <2> DEFINE kept == IF accepted = Void THEN row ELSE accepted
  <2>1. /\ stage = "preserve" /\ stage' = "avinor"
        /\ row' = IF numbers = {} THEN kept ELSE Network!Quarantined(kept, numbers)
        /\ proven' = IF accepted = Void THEN proven ELSE proven \cup accepted.confirmed
        /\ blocked' = numbers /\ UNCHANGED <<layers, reviewed>>
    BY <1>6 DEF Network!PreserveThenQuarantine
  <2>2. kept \in Network!Rows /\ Grounded(kept, proven')
    BY <2>1 DEF NetworkInv, Network!MergeKeepsEvidence, Grounded
  <2> HIDE DEF kept
  <2>3. /\ row' \in Network!Rows /\ row'.identity = kept.identity
        /\ row'.confirmed \subseteq kept.confirmed
        /\ (row'.confirmed \cup row'.candidates) \cap numbers = {}
    BY <2>1, <2>2, QuarantinedRows
  <2> QED BY <2>1, <2>2, <2>3 DEF NetworkInv, Network!NetworkAssumption, Network!MergeKeepsEvidence,
                                  Grounded
<1>7. ASSUME NEW n \in LayerNumbers, Network!AvinorPacket(n) PROVE NetworkInv'
  <2> DEFINE p == Network!Promoted(row, n)
  <2>1. /\ stage = "avinor" /\ row' = p /\ Network!Review(n)
        /\ UNCHANGED <<stage, layers, blocked>>
    BY <1>7 DEF Network!AvinorPacket
  <2>2. row # Void /\ p \in Network!Rows /\ p.identity = row.identity
    BY <2>1, PromotedRows DEF NetworkInv
  <2> HIDE DEF p
  <2>3. p = [p EXCEPT !.status = p.status, !.identity = p.identity]
        /\ p.status \in Network!Statuses /\ p.identity \in Network!Identities
    BY <2>2 DEF Network!Rows
  <2> QED BY <2>1, <2>2, <2>3, ReviewsKeep DEF p
<1>8. ASSUME NEW n \in LayerNumbers, Network!FollowOn(n) \/ Network!Remaining(n) PROVE NetworkInv'
  <2> DEFINE p == Network!Promoted(row, n)
             s == IF p.status = "identity-unresolved" THEN "published" ELSE p.status
             i == IF p.identity = "operating" THEN p.identity ELSE "provider-listed"
  <2>1. /\ stage \in {"avinor", "remaining"} /\ stage' \in {"remaining", "written"}
        /\ row' = [p EXCEPT !.status = IF @ = "identity-unresolved" THEN "published" ELSE @,
                            !.identity = IF @ = "operating" THEN @ ELSE "provider-listed"]
        /\ Network!Review(n) /\ UNCHANGED <<layers, blocked>>
    BY <1>8 DEF Network!FollowOn, Network!Remaining
  <2>2. row # Void /\ p \in Network!Rows /\ p.identity = row.identity
    BY <2>1, PromotedRows DEF NetworkInv
  <2> HIDE DEF p
  <2>3. row' = [p EXCEPT !.status = s, !.identity = i]
    BY <2>1, <2>2 DEF Network!Rows
  <2>4. /\ s \in Network!Statuses /\ i \in Network!Identities
        /\ i = "operating" => row.identity = "operating"
    BY <2>2 DEF Network!Rows, Network!Statuses, Network!Identities
  <2> HIDE DEF s, i
  <2>5. row' = [Network!Promoted(row, n) EXCEPT !.status = s, !.identity = i]
    BY <2>3 DEF p
  <2>6. Network!Review(n) /\ UNCHANGED <<layers, blocked>> /\ row # Void
          /\ stage' \in {"avinor", "remaining", "written"}
    BY <2>1, <2>2
  <2> QED BY <2>4, <2>5, <2>6, ReviewsKeep
<1>9. CASE Network!NoFollowOn \/ Network!NoRemaining
  BY <1>9 DEF Network!NoFollowOn, Network!NoRemaining, NetworkInv, Network!MergeKeepsEvidence
<1>10. CASE UNCHANGED Network!vars
  BY <1>10 DEF Network!vars, NetworkInv, Network!MergeKeepsEvidence
<1> QED BY <1>1, <1>2, <1>3, <1>4, <1>5, <1>6, <1>7, <1>8, <1>9, <1>10 DEF Network!Next

\* However layers, corrections and number evidence are stacked, every stage of the build
\* hands on a row that its schema takes, an operating row confirms only what an operating
\* row, an accepted row or a packet confirmed, and a quarantined number comes back only
\* through a packet (src/src/lib/rtw/route-network-merge.ts,
\* src/scripts/build-runtime-route-network.ts).
THEOREM EvidenceSurvivesTheMerge ==
  ASSUME Network!NetworkAssumption
  PROVE  Network!Spec => [](Network!TypeOK /\ Network!MergeKeepsEvidence)
<1>1. Network!Init => NetworkInv
  BY DEF Network!Init, NetworkInv, Network!NetworkAssumption, Network!MergeKeepsEvidence
<1>2. NetworkInv /\ [Network!Next]_Network!vars => NetworkInv'
  BY NetworkSteps
<1>3. NetworkInv => Network!TypeOK /\ Network!MergeKeepsEvidence
  BY DEF NetworkInv, Network!TypeOK
<1> QED BY <1>1, <1>2, <1>3, PTL DEF Network!Spec

-----------------------------------------------------------------------------
(***************************************************************************)
(* The harvester of one carrier's timetable.                               *)
(***************************************************************************)
LEMMA HarvestCardinality == \A S : Harvest!Cardinality(S) = Cardinality(S)
  BY DEF Harvest!Cardinality, Cardinality

HarvestDates == {Harvest!Query, Harvest!Retry}
\* What a run has recorded of a pair is on file, and what it has passed without a record had
\* only cargo at the second attempt.
Filed(b, f, p) ==
  /\ f.result = "flights" => b[p][f.date] = "flights"
  /\ f.result = "empty" => b[p][Harvest!Query] = "empty" /\ b[p][Harvest!Retry] = "empty"

CargoOnly(b, p) == b[p][Harvest!Query] = "empty" /\ b[p][Harvest!Retry] = "cargo"

\* The files and the process: a request is out only for a body that is of no use, and the
\* second date is asked for only after an empty answer.
RunInv ==
  /\ bodies \in [Harvest!Pairs -> [HarvestDates -> Harvest!Bodies \cup {Void}]]
  /\ at \in [pair : Nat \ {0}, date : HarvestDates]
  /\ found \in [Harvest!Pairs -> [result : Harvest!Outcomes, date : HarvestDates] \cup {Void}]
  /\ run = Void => at = Harvest!Start /\ request = Void /\ found = Harvest!NothingFound
  /\ run # Void => run.last \in Harvest!Pairs
  /\ request # Void => Harvest!Asking /\ ~Harvest!Reusable(Harvest!OnFile)
  /\ Harvest!Asking /\ at.date = Harvest!Retry => bodies[at.pair][Harvest!Query] = "empty"
  /\ \A p \in Harvest!Pairs : found[p] # Void => Filed(bodies, found[p], p)
  /\ run # Void => \A p \in Harvest!Pairs :
       p < at.pair /\ p <= run.last /\ found[p] = Void => CargoOnly(bodies, p)

\* What was written: the entries and the rows have their timetables on file, the index was
\* right of every pair, and the catalogue has one row of the carrier for each pair.
HasTimetable(entry) == bodies[entry.pair][entry.date] = "flights"

OneRow(set, p) ==
  \E d : {r \in set : r.carrier = "JX" /\ r.pair = p} = {Harvest!Row("JX", p, d)}

IndexHolds(i, b) ==
  /\ i.last \in Harvest!Pairs
  /\ \A p \in 1..i.last :
       /\ i.found[p] # Void => Filed(b, i.found[p], p)
       /\ i.found[p] # Void => i.found[p].date \in HarvestDates
       /\ i.found[p] = Void => CargoOnly(b, p)

WrittenInv ==
  /\ entries # Void => \A e \in entries :
       e.pair \in Harvest!Pairs /\ e.date \in HarvestDates /\ HasTimetable(e)
  /\ index # Void => IndexHolds(index, bodies)
  /\ rows # Void =>
       /\ \A r \in rows : r.date # Void =>
            r.pair \in Harvest!Pairs /\ r.date \in HarvestDates /\ HasTimetable(r)
       /\ Harvest!Row("CI", 1, Void) \in rows
       /\ \A p \in Harvest!Pairs : OneRow(rows, p)

HarvestInv == RunInv /\ WrittenInv

\* A body that can be used again is not written over.
Standing ==
  \A p \in Harvest!Pairs, d \in HarvestDates :
    Harvest!Reusable(bodies[p][d]) => bodies'[p][d] = bodies[p][d]

LEMMA ReusableBodies == \A b \in {"flights", "cargo", "empty"} : Harvest!Reusable(b)
  BY DEF Harvest!Reusable

\* What is on file stays, and with it what was said of it.
LEMMA RecordsStand ==
  ASSUME Standing, NEW p \in Harvest!Pairs
  PROVE  /\ \A f : f.date \in HarvestDates /\ Filed(bodies, f, p) => Filed(bodies', f, p)
         /\ CargoOnly(bodies, p) => CargoOnly(bodies', p)
         /\ \A d \in HarvestDates : bodies[p][d] = "flights" => bodies'[p][d] = "flights"
         /\ bodies[p][Harvest!Query] = "empty" => bodies'[p][Harvest!Query] = "empty"
<1>1. \A d \in HarvestDates, b \in {"flights", "cargo", "empty"} :
        bodies[p][d] = b => bodies'[p][d] = b
  BY ReusableBodies DEF Standing
<1>2. Harvest!Query \in HarvestDates /\ Harvest!Retry \in HarvestDates
  BY DEF HarvestDates
<1>3. ASSUME NEW f, f.date \in HarvestDates, Filed(bodies, f, p) PROVE Filed(bodies', f, p)
  BY <1>1, <1>2, <1>3 DEF Filed
<1> QED BY <1>1, <1>2, <1>3 DEF CargoOnly

LEMMA AskedPairs ==
  ASSUME Harvest!HarvestAssumption, RunInv, Harvest!Asking
  PROVE  at.pair \in Harvest!Pairs /\ run.last \in Harvest!Pairs /\ at.date \in HarvestDates
<1> DEFINE p == at.pair
           l == run.last
<1>1. p \in Nat \ {0} /\ l \in Harvest!Pairs /\ p <= l /\ at.date \in HarvestDates
  BY DEF RunInv, Harvest!Asking
<1> HIDE DEF p, l
<1>2. p \in Harvest!Pairs
  BY <1>1 DEF Harvest!HarvestAssumption, HarvestDates, Harvest!Pairs
<1> QED BY <1>1, <1>2 DEF p, l

\* The only files written are those asked for, which were of no use.
LEMMA FilesStand ==
  ASSUME Harvest!HarvestAssumption, RunInv, [Harvest!Next]_Harvest!vars
  PROVE  Standing
<1>1. ASSUME NEW b, request # Void, bodies' = Harvest!Kept(b) PROVE Standing
  <2>1. at.pair \in Harvest!Pairs /\ at.date \in HarvestDates
        /\ ~Harvest!Reusable(bodies[at.pair][at.date])
    BY <1>1, AskedPairs DEF RunInv, Harvest!OnFile
  <2>2. bodies' = [bodies EXCEPT ![at.pair] = [bodies[at.pair] EXCEPT ![at.date] = b]]
    BY <1>1 DEF Harvest!Kept
  <2> SUFFICES ASSUME NEW p \in Harvest!Pairs, NEW d \in HarvestDates,
                      Harvest!Reusable(bodies[p][d])
               PROVE  bodies'[p][d] = bodies[p][d]
    BY DEF Standing
  <2>3. CASE p = at.pair
    <3>1. bodies'[p] = [bodies[p] EXCEPT ![at.date] = b] /\ d # at.date
      BY <2>1, <2>2, <2>3 DEF RunInv
    <3> QED BY <3>1 DEF RunInv
  <2>4. CASE p # at.pair
    BY <2>2, <2>4 DEF RunInv
  <2> QED BY <2>3, <2>4
<1>2. ASSUME UNCHANGED bodies PROVE Standing
  BY <1>2 DEF Standing
<1>3. ASSUME NEW body, Harvest!Answered(body) PROVE Standing
  BY <1>1, <1>3 DEF Harvest!Answered
<1>4. ASSUME Harvest!Kill PROVE Standing
  BY <1>1, <1>2, <1>4 DEF Harvest!Kill
<1>5. CASE UNCHANGED bodies
  BY <1>2, <1>5
<1> QED BY <1>3, <1>4, <1>5 DEF Harvest!Next, Harvest!vars, Harvest!Launch, Harvest!Resume,
           Harvest!Ask, Harvest!Unanswered, Harvest!WriteEntries, Harvest!WriteIndex,
           Harvest!Finish

\* Where a step that asks for nothing more leaves what has been recorded.
LEMMA FoundStands ==
  ASSUME RunInv, Standing, NEW p \in Harvest!Pairs, found'[p] = found[p], found[p] # Void
  PROVE  Filed(bodies', found'[p], p)
<1>1. Filed(bodies, found[p], p) /\ found[p].date \in HarvestDates
  BY DEF RunInv
<1> DEFINE f == found[p]
<1>2. f.date \in HarvestDates /\ Filed(bodies, f, p)
  BY <1>1
<1> HIDE DEF f
<1>3. f.date \in HarvestDates /\ Filed(bodies, f, p) => Filed(bodies', f, p)
  BY RecordsStand
<1>4. found'[p] = f
  BY DEF f
<1> QED BY <1>2, <1>3, <1>4 DEF Filed

\* A pair is recorded, and the next one is turned to.
LEMMA PairsRecorded ==
  ASSUME Harvest!HarvestAssumption, RunInv, Standing, Harvest!Asking, NEW x \in Harvest!Outcomes,
         Harvest!Record(x), Filed(bodies', [result |-> x, date |-> at.date], at.pair),
         bodies' \in [Harvest!Pairs -> [HarvestDates -> Harvest!Bodies \cup {Void}]],
         request' = Void, run' = run
  PROVE  RunInv'
<1> DEFINE p == at.pair
           r == [result |-> x, date |-> at.date]
<1>1. /\ p \in Harvest!Pairs /\ p \in Nat \ {0} /\ at.date \in HarvestDates
      /\ run # Void /\ run.last \in Harvest!Pairs
  BY AskedPairs DEF RunInv, Harvest!Asking
<1>2. \A q \in Harvest!Pairs :
        q < p /\ q <= run.last /\ found[q] = Void => CargoOnly(bodies', q)
  BY <1>1, RecordsStand DEF RunInv
<1>3. /\ found' = [found EXCEPT ![p] = r]
      /\ at' = [pair |-> p + 1, date |-> Harvest!Query]
  BY DEF Harvest!Record, Harvest!NextPair
<1>4. r \in [result : Harvest!Outcomes, date : HarvestDates] /\ r # Void
  BY <1>1 DEF Harvest!HarvestAssumption, HarvestDates
<1>5. Filed(bodies', r, p)
  OBVIOUS
<1> HIDE DEF r
<1>6. /\ found' \in [Harvest!Pairs -> [result : Harvest!Outcomes, date : HarvestDates] \cup {Void}]
      /\ found'[p] = r /\ \A q \in Harvest!Pairs : q # p => found'[q] = found[q]
  BY <1>1, <1>3, <1>4 DEF RunInv
<1>7. ASSUME NEW q \in Harvest!Pairs, found'[q] # Void PROVE Filed(bodies', found'[q], q)
  <2>1. CASE q = p
    BY <1>5, <1>6, <2>1
  <2>2. CASE q # p
    BY <1>6, <1>7, <2>2, FoundStands
  <2> QED BY <2>1, <2>2
<1>8. ASSUME NEW q \in Harvest!Pairs, q < p + 1, q <= run.last, found'[q] = Void
      PROVE  CargoOnly(bodies', q)
  <2>1. q # p /\ found[q] = Void
    BY <1>4, <1>6, <1>8
  <2>2. q \in Nat /\ q < p
    BY <1>1, <1>8, <2>1 DEF Harvest!Pairs
  <2> QED BY <1>2, <1>8, <2>1, <2>2
<1>9. /\ at' \in [pair : Nat \ {0}, date : HarvestDates] /\ at'.pair = p + 1
      /\ at'.date # Harvest!Retry
  BY <1>1, <1>3 DEF HarvestDates, Harvest!Query, Harvest!Retry
<1> QED BY <1>1, <1>6, <1>7, <1>8, <1>9 DEF RunInv, Harvest!Asking

\* What is made of a body that is on file: the pair is recorded, asked for again, or passed.
LEMMA TakenBodies ==
  ASSUME Harvest!HarvestAssumption, RunInv, Standing, Harvest!Asking,
         NEW body \in Harvest!Bodies, Harvest!Take(body),
         bodies' \in [Harvest!Pairs -> [HarvestDates -> Harvest!Bodies \cup {Void}]],
         bodies'[at.pair][at.date] = body, request' = Void, run' = run
  PROVE  RunInv'
<1> DEFINE p == at.pair
           r(x) == [result |-> x, date |-> at.date]
<1>1. /\ p \in Harvest!Pairs /\ p \in Nat \ {0} /\ at.date \in HarvestDates
      /\ at \in [pair : Nat \ {0}, date : HarvestDates] /\ run # Void
      /\ run.last \in Harvest!Pairs /\ p <= run.last
  BY AskedPairs DEF RunInv, Harvest!Asking
<1>2. at.date = Harvest!Retry => bodies'[p][Harvest!Query] = "empty"
  BY <1>1, RecordsStand DEF RunInv
<1>3. \A q \in Harvest!Pairs :
        q < p /\ q <= run.last /\ found[q] = Void => CargoOnly(bodies', q)
  BY <1>1, RecordsStand DEF RunInv
<1>4. ASSUME NEW x \in Harvest!Outcomes, Harvest!Record(x), Filed(bodies', r(x), p) PROVE RunInv'
  BY <1>4, PairsRecorded
<1>5. CASE body = "broken"
  <2>1. Harvest!Record("malformed-response")
    BY <1>5 DEF Harvest!Take, Harvest!Parsed
  <2> QED BY <1>4, <2>1 DEF Filed, Harvest!Outcomes, Harvest!Negatives
<1>6. CASE body = "flights"
  <2>1. Harvest!Record("flights")
    BY <1>6 DEF Harvest!Take, Harvest!Parsed
  <2> QED BY <1>4, <1>6, <2>1 DEF Filed, Harvest!Outcomes
<1>7. CASE body = "empty" /\ at.date = Harvest!Query
  <2>1. at' = [at EXCEPT !.date = Harvest!Retry] /\ found' = found
    BY <1>7 DEF Harvest!Take, Harvest!Parsed, Harvest!Query, Harvest!Retry
  <2>2. /\ at' \in [pair : Nat \ {0}, date : HarvestDates] /\ at'.pair = p
        /\ bodies'[at'.pair][Harvest!Query] = "empty"
    BY <1>1, <1>7, <2>1 DEF HarvestDates
  <2>3. \A q \in Harvest!Pairs : found'[q] # Void => Filed(bodies', found'[q], q)
    BY <2>1, FoundStands
  <2> QED BY <1>1, <1>3, <2>1, <2>2, <2>3 DEF RunInv
<1>8. CASE body = "empty" /\ at.date = Harvest!Retry
  <2>1. Harvest!Record("empty")
    BY <1>8 DEF Harvest!Take, Harvest!Parsed, Harvest!Query, Harvest!Retry
  <2> QED BY <1>2, <1>4, <1>8, <2>1 DEF Filed, Harvest!Outcomes, Harvest!Negatives
<1>9. CASE body = "cargo" /\ at.date = Harvest!Query
  <2>1. Harvest!Record("cargo-only")
    BY <1>9 DEF Harvest!Take, Harvest!Parsed
  <2> QED BY <1>4, <2>1 DEF Filed, Harvest!Outcomes
<1>10. CASE body = "cargo" /\ at.date = Harvest!Retry
  <2>1. at' = [pair |-> p + 1, date |-> Harvest!Query] /\ found' = found
    BY <1>10 DEF Harvest!Take, Harvest!Parsed, Harvest!NextPair, Harvest!Query, Harvest!Retry
  <2>2. CargoOnly(bodies', p)
    BY <1>2, <1>10 DEF CargoOnly
  <2>3. ASSUME NEW q \in Harvest!Pairs, q < p + 1, q <= run.last, found[q] = Void
        PROVE  CargoOnly(bodies', q)
    <3>1. CASE q = p
      BY <2>2, <3>1
    <3>2. CASE q # p
      <4>1. q \in Nat /\ q < p
        BY <1>1, <2>3, <3>2 DEF Harvest!Pairs
      <4> QED BY <1>3, <2>3, <4>1
    <3> QED BY <3>1, <3>2
  <2>4. /\ at' \in [pair : Nat \ {0}, date : HarvestDates] /\ at'.pair = p + 1
        /\ at'.date # Harvest!Retry
    BY <1>1, <2>1 DEF HarvestDates, Harvest!Query, Harvest!Retry
  <2>5. \A q \in Harvest!Pairs : found'[q] # Void => Filed(bodies', found'[q], q)
    BY <2>1, FoundStands
  <2> QED BY <1>1, <2>1, <2>3, <2>4, <2>5 DEF RunInv, Harvest!Asking
<1> QED BY <1>1, <1>5, <1>6, <1>7, <1>8, <1>9, <1>10 DEF Harvest!Bodies, HarvestDates

\* A step that leaves the process where it is keeps what holds of it.
LEMMA ProcessStands ==
  ASSUME Harvest!HarvestAssumption, RunInv, Standing, UNCHANGED <<at, found>>,
         run' = run \/ run = Void,
         bodies' \in [Harvest!Pairs -> [HarvestDates -> Harvest!Bodies \cup {Void}]],
         run' # Void => run'.last \in Harvest!Pairs,
         run' = Void => run = Void,
         request' # Void => Harvest!Asking' /\ ~Harvest!Reusable(Harvest!OnFile)',
         run' = Void => request' = Void
  PROVE  RunInv'
<1>1. \A p \in Harvest!Pairs : found'[p] # Void => Filed(bodies', found'[p], p)
  BY FoundStands
<1>2. CASE run = Void
  <2>1. at = [pair |-> 1, date |-> Harvest!Query]
    BY <1>2 DEF RunInv, Harvest!Start
  <2>2. at.pair = 1 /\ at.date # Harvest!Retry
    BY <2>1 DEF Harvest!Query, Harvest!Retry
  <2>3. \A p \in Harvest!Pairs : ~(p < at.pair)
    BY <2>2 DEF Harvest!Pairs
  <2> QED BY <1>1, <1>2, <2>2, <2>3 DEF RunInv, Harvest!Asking
<1>3. CASE run # Void /\ run' = run
  <2>1. \A p \in Harvest!Pairs :
          p < at.pair /\ p <= run.last /\ found[p] = Void => CargoOnly(bodies', p)
    BY <1>3, RecordsStand DEF RunInv
  <2>2. Harvest!Asking /\ at.date = Harvest!Retry => bodies'[at.pair][Harvest!Query] = "empty"
    BY AskedPairs, RecordsStand DEF RunInv
  <2> QED BY <1>1, <1>3, <2>1, <2>2 DEF RunInv, Harvest!Asking
<1> QED BY <1>2, <1>3

\* The end of a process.
LEMMA ProcessEnds ==
  ASSUME Harvest!HarvestAssumption, Harvest!Exit,
         bodies' \in [Harvest!Pairs -> [HarvestDates -> Harvest!Bodies \cup {Void}]]
  PROVE  RunInv'
<1>1. /\ run' = Void /\ at' = Harvest!Start /\ request' = Void /\ found' = Harvest!NothingFound
  BY DEF Harvest!Exit
<1>2. at' \in [pair : Nat \ {0}, date : HarvestDates]
  BY <1>1 DEF Harvest!Start, HarvestDates
<1>3. /\ found' \in [Harvest!Pairs -> [result : Harvest!Outcomes, date : HarvestDates] \cup {Void}]
      /\ \A p \in Harvest!Pairs : found'[p] = Void
  BY <1>1 DEF Harvest!NothingFound
<1> QED BY <1>1, <1>2, <1>3 DEF RunInv, Harvest!Asking

LEMMA FilesTyped ==
  ASSUME Harvest!HarvestAssumption, RunInv, Harvest!Asking, NEW b \in Harvest!Bodies,
         bodies' = Harvest!Kept(b)
  PROVE  /\ bodies' \in [Harvest!Pairs -> [HarvestDates -> Harvest!Bodies \cup {Void}]]
         /\ bodies'[at.pair][at.date] = b
<1>1. at.pair \in Harvest!Pairs /\ at.date \in HarvestDates
  BY AskedPairs
<1>2. bodies' = [bodies EXCEPT ![at.pair] = [bodies[at.pair] EXCEPT ![at.date] = b]]
  BY DEF Harvest!Kept
<1> QED BY <1>1, <1>2 DEF RunInv

\* Past its last pair the process only goes on.
LEMMA WritersMove ==
  ASSUME Harvest!HarvestAssumption, RunInv, NEW n \in Nat \ {0},
         Harvest!Writing(n), Harvest!NextPair, UNCHANGED <<bodies, run, request, found>>
  PROVE  RunInv'
<1> DEFINE p == at.pair
           l == run.last
<1>1. /\ p \in Nat \ {0} /\ l \in Harvest!Pairs /\ p = l + n /\ run # Void
      /\ at' = [pair |-> p + 1, date |-> Harvest!Query]
  BY DEF RunInv, Harvest!Writing, Harvest!NextPair
<1>2. /\ at' \in [pair : Nat \ {0}, date : HarvestDates] /\ at'.pair = p + 1
      /\ at'.date # Harvest!Retry
  BY <1>1 DEF HarvestDates, Harvest!Query, Harvest!Retry
<1>3. ~(p <= l)
  <2> HIDE DEF p, l
  <2> QED BY <1>1 DEF Harvest!Pairs
<1>4. ~Harvest!Asking
  BY <1>3 DEF Harvest!Asking
<1>5. request = Void
  BY <1>4 DEF RunInv
<1>6. ASSUME NEW q \in Harvest!Pairs, q <= l PROVE q < p
  <2> HIDE DEF p, l
  <2> QED BY <1>1, <1>6 DEF Harvest!Pairs
<1>7. \A q \in Harvest!Pairs : q <= l /\ found[q] = Void => CargoOnly(bodies, q)
  BY <1>1, <1>6 DEF RunInv
<1>8. found \in [Harvest!Pairs -> [result : Harvest!Outcomes, date : HarvestDates] \cup {Void}]
      /\ \A q \in Harvest!Pairs : found[q] # Void => Filed(bodies, found[q], q)
      /\ bodies \in [Harvest!Pairs -> [HarvestDates -> Harvest!Bodies \cup {Void}]]
  BY DEF RunInv
<1> HIDE DEF p
<1> QED BY <1>1, <1>2, <1>5, <1>7, <1>8 DEF RunInv, Harvest!Asking

LEMMA RunSteps ==
  ASSUME Harvest!HarvestAssumption, RunInv, [Harvest!Next]_Harvest!vars
  PROVE  RunInv'
<1>1. Standing
  BY FilesStand
<1>2. bodies \in [Harvest!Pairs -> [HarvestDates -> Harvest!Bodies \cup {Void}]]
  BY DEF RunInv
<1>3. ASSUME NEW last \in Harvest!Pairs, NEW merge \in BOOLEAN, Harvest!Launch(last, merge)
      PROVE  RunInv'
  <2>1. /\ run = Void /\ run' = [last |-> last, merge |-> merge] /\ request = Void
        /\ UNCHANGED <<bodies, at, request, found>>
    BY <1>3 DEF Harvest!Launch, RunInv
  <2>2. run'.last \in Harvest!Pairs
    BY <2>1
  <2> QED BY <1>1, <1>2, <2>1, <2>2, ProcessStands
<1>4. CASE Harvest!Resume
  <2>1. /\ Harvest!Asking /\ request = Void /\ Harvest!Reusable(Harvest!OnFile)
        /\ Harvest!Take(Harvest!OnFile) /\ UNCHANGED <<bodies, run, request>>
    BY <1>4 DEF Harvest!Resume
  <2>2. Harvest!OnFile \in Harvest!Bodies /\ bodies[at.pair][at.date] = Harvest!OnFile
    BY <2>1 DEF Harvest!OnFile, Harvest!Reusable, Harvest!Bodies
  <2> QED BY <1>1, <1>2, <2>1, <2>2, TakenBodies
<1>5. CASE Harvest!Ask
  <2>1. /\ Harvest!Asking /\ ~Harvest!Reusable(Harvest!OnFile)
        /\ UNCHANGED <<bodies, run, at, found>>
    BY <1>5 DEF Harvest!Ask
  <2>2. Harvest!Asking' /\ ~Harvest!Reusable(Harvest!OnFile)' /\ run' # Void
    BY <2>1 DEF Harvest!Asking, Harvest!OnFile, Harvest!Reusable
  <2> QED BY <1>1, <1>2, <2>1, <2>2, ProcessStands DEF RunInv
<1>6. ASSUME NEW body \in Harvest!Bodies, Harvest!Answered(body) PROVE RunInv'
  <2>1. /\ request # Void /\ request' = Void /\ bodies' = Harvest!Kept(body)
        /\ Harvest!Take(body) /\ run' = run
    BY <1>6 DEF Harvest!Answered
  <2>2. Harvest!Asking
    BY <2>1 DEF RunInv
  <2> QED BY <1>1, <2>1, <2>2, FilesTyped, TakenBodies
<1>7. ASSUME NEW throttled \in BOOLEAN, Harvest!Unanswered(throttled) PROVE RunInv'
  <2>1. /\ request # Void /\ UNCHANGED <<bodies, run>>
        /\ \/ UNCHANGED <<at, found>>
           \/ /\ request' = Void
              /\ Harvest!Record("http-error") \/ Harvest!Record("throttled")
    BY <1>7 DEF Harvest!Unanswered
  <2>2. Harvest!Asking /\ ~Harvest!Reusable(Harvest!OnFile) /\ run # Void
    BY <2>1 DEF RunInv, Harvest!Asking
  <2>3. CASE UNCHANGED <<at, found>>
    <3>1. Harvest!Asking' /\ ~Harvest!Reusable(Harvest!OnFile)'
      BY <2>1, <2>2, <2>3 DEF Harvest!Asking, Harvest!OnFile, Harvest!Reusable
    <3> QED BY <1>1, <1>2, <2>1, <2>2, <2>3, <3>1, ProcessStands DEF RunInv
  <2>4. ASSUME NEW x \in {"http-error", "throttled"}, Harvest!Record(x), request' = Void
        PROVE  RunInv'
    <3>1. x \in Harvest!Outcomes /\ Filed(bodies', [result |-> x, date |-> at.date], at.pair)
      BY <2>4 DEF Harvest!Outcomes, Harvest!Negatives, Filed
    <3> QED BY <1>1, <1>2, <2>1, <2>2, <2>4, <3>1, PairsRecorded
  <2> QED BY <2>1, <2>3, <2>4
<1>8. CASE Harvest!WriteEntries
  BY <1>8, WritersMove DEF Harvest!WriteEntries
<1>9. CASE Harvest!WriteIndex
  BY <1>9, WritersMove DEF Harvest!WriteIndex
<1>10. CASE Harvest!Finish
  BY <1>2, <1>10, ProcessEnds DEF Harvest!Finish
<1>11. CASE Harvest!Kill
  <2>1. Harvest!Exit /\ (UNCHANGED bodies \/ (request # Void /\ bodies' = Harvest!Kept("broken")))
    BY <1>11 DEF Harvest!Kill
  <2>2. request # Void => Harvest!Asking
    BY DEF RunInv
  <2>3. "broken" \in Harvest!Bodies
    BY DEF Harvest!Bodies
  <2> QED BY <1>2, <2>1, <2>2, <2>3, FilesTyped, ProcessEnds
<1>12. CASE UNCHANGED Harvest!vars
  BY <1>12 DEF Harvest!vars, RunInv, Harvest!Asking, Harvest!OnFile
<1> QED BY <1>3, <1>4, <1>5, <1>6, <1>7, <1>8, <1>9, <1>10, <1>11, <1>12 DEF Harvest!Next

\* The entries of a run: one for each pair with flights, whose timetable is on file.
LEMMA EntriesFiled ==
  ASSUME RunInv
  PROVE  /\ \A e \in Harvest!Results :
              /\ e = [pair |-> e.pair, date |-> e.date]
              /\ e.pair \in Harvest!Pairs /\ e.date \in HarvestDates /\ HasTimetable(e)
         /\ \A d, e \in Harvest!Results : d.pair = e.pair => d = e
<1>1. ASSUME NEW e \in Harvest!Results
      PROVE  \E p \in Harvest!Pairs :
               /\ e = [pair |-> p, date |-> found[p].date]
               /\ found[p] # Void /\ found[p].result = "flights"
  BY DEF Harvest!Results
<1>2. ASSUME NEW p \in Harvest!Pairs, found[p] # Void, found[p].result = "flights"
      PROVE  found[p].date \in HarvestDates /\ bodies[p][found[p].date] = "flights"
  BY <1>2 DEF RunInv, Filed
<1>3. ASSUME NEW e \in Harvest!Results
      PROVE  /\ e = [pair |-> e.pair, date |-> e.date]
             /\ e.pair \in Harvest!Pairs /\ e.date \in HarvestDates /\ HasTimetable(e)
             /\ e.date = found[e.pair].date
  <2>1. PICK p \in Harvest!Pairs : /\ e = [pair |-> p, date |-> found[p].date]
                                   /\ found[p] # Void /\ found[p].result = "flights"
    BY <1>1
  <2>2. e.pair = p /\ e.date = found[p].date
    BY <2>1
  <2> QED BY <1>2, <2>1, <2>2 DEF HasTimetable
<1> QED BY <1>3

\* What a merge leaves: the rows of the pairs without a result, and the results.
LEMMA MergedCatalog ==
  ASSUME RunInv, WrittenInv, rows # Void
  PROVE  /\ \A r \in Harvest!Merged : r.date # Void =>
              r.pair \in Harvest!Pairs /\ r.date \in HarvestDates /\ HasTimetable(r)
         /\ Harvest!Row("CI", 1, Void) \in Harvest!Merged
         /\ \A p \in Harvest!Pairs : OneRow(Harvest!Merged, p)
<1>1. ASSUME NEW r \in Harvest!Merged
      PROVE  \/ r \in rows /\ ~Harvest!Superseded(r)
             \/ \E e \in Harvest!Results : r = Harvest!Row("JX", e.pair, e.date)
  BY DEF Harvest!Merged
<1>2. ASSUME NEW r \in Harvest!Merged, r.date # Void
      PROVE  r.pair \in Harvest!Pairs /\ r.date \in HarvestDates /\ HasTimetable(r)
  <2>1. CASE r \in rows
    BY <1>2, <2>1 DEF WrittenInv
  <2>2. ASSUME NEW e \in Harvest!Results, r = Harvest!Row("JX", e.pair, e.date)
        PROVE  r.pair \in Harvest!Pairs /\ r.date \in HarvestDates /\ HasTimetable(r)
    <3>1. r.pair = e.pair /\ r.date = e.date
      BY <2>2 DEF Harvest!Row
    <3> QED BY <3>1, EntriesFiled DEF HasTimetable
  <2> QED BY <1>1, <2>1, <2>2
<1>3. Harvest!Row("CI", 1, Void) \in Harvest!Merged
  <2>1. Harvest!Row("CI", 1, Void) \in rows /\ Harvest!Row("CI", 1, Void).carrier = "CI"
    BY DEF WrittenInv, Harvest!Row
  <2> QED BY <2>1 DEF Harvest!Merged, Harvest!Superseded
<1>4. ASSUME NEW p \in Harvest!Pairs PROVE OneRow(Harvest!Merged, p)
  <2> DEFINE of(set) == {r \in set : r.carrier = "JX" /\ r.pair = p}
  <2>1. PICK d : of(rows) = {Harvest!Row("JX", p, d)}
    BY DEF WrittenInv, OneRow
  <2>2. CASE \E e \in Harvest!Results : e.pair = p
    <3>1. PICK e \in Harvest!Results : e.pair = p
      BY <2>2
    <3> DEFINE own == Harvest!Row("JX", p, e.date)
    <3>2. own \in Harvest!Merged /\ own.carrier = "JX" /\ own.pair = p
      BY <3>1 DEF Harvest!Merged, Harvest!Row
    <3>3. ASSUME NEW r \in Harvest!Merged, r.carrier = "JX", r.pair = p PROVE r = own
      <4>1. ~(r \in rows /\ ~Harvest!Superseded(r))
        BY <3>1, <3>3 DEF Harvest!Superseded
      <4>2. PICK f \in Harvest!Results : r = Harvest!Row("JX", f.pair, f.date)
        BY <1>1, <4>1
      <4>3. f.pair = p
        BY <3>3, <4>2 DEF Harvest!Row
      <4> QED BY <3>1, <4>2, <4>3, EntriesFiled
    <3> HIDE DEF own
    <3>4. of(Harvest!Merged) = {own}
      BY <3>2, <3>3
    <3> QED BY <3>4 DEF OneRow, own
  <2>3. CASE ~\E e \in Harvest!Results : e.pair = p
    <3>1. ASSUME NEW r \in Harvest!Merged, r.carrier = "JX", r.pair = p PROVE r \in rows
      <4>1. ASSUME NEW e \in Harvest!Results, r = Harvest!Row("JX", e.pair, e.date) PROVE FALSE
        <5>1. e.pair = p
          BY <3>1, <4>1 DEF Harvest!Row
        <5> QED BY <2>3, <5>1
      <4> QED BY <1>1, <4>1
    <3>2. ASSUME NEW r \in rows, r.carrier = "JX", r.pair = p PROVE r \in Harvest!Merged
      BY <2>3, <3>2 DEF Harvest!Merged, Harvest!Superseded
    <3>3. of(Harvest!Merged) = of(rows)
      BY <3>1, <3>2
    <3> QED BY <2>1, <3>3 DEF OneRow
  <2> QED BY <2>2, <2>3
<1> QED BY <1>2, <1>3, <1>4

\* The three files one at a time.
LEMMA EntriesStep ==
  ASSUME RunInv, WrittenInv, Standing,
         \/ entries' \in {entries, Void}
         \/ entries' = Harvest!Results /\ bodies' = bodies
  PROVE  entries' # Void => \A e \in entries' :
           /\ e.pair \in Harvest!Pairs /\ e.date \in HarvestDates
           /\ bodies'[e.pair][e.date] = "flights"
<1>1. CASE entries' = entries
  BY <1>1, RecordsStand DEF WrittenInv, HasTimetable
<1>2. CASE entries' = Void
  BY <1>2
<1>3. CASE entries' = Harvest!Results /\ bodies' = bodies
  BY <1>3, EntriesFiled DEF HasTimetable
<1> QED BY <1>1, <1>2, <1>3

LEMMA IndexStep ==
  ASSUME Harvest!HarvestAssumption, RunInv, WrittenInv, Standing,
         \/ index' \in {index, Void}
         \/ /\ index' = [last |-> run.last, found |-> found] /\ bodies' = bodies
            /\ Harvest!Writing(2)
  PROVE  index' # Void => IndexHolds(index', bodies')
<1>1. ASSUME NEW l \in Harvest!Pairs, NEW p \in 1..l
      PROVE  p \in Harvest!Pairs /\ p <= l /\ p \in Nat
  BY DEF Harvest!HarvestAssumption, HarvestDates, Harvest!Pairs
<1>2. CASE index' = index /\ index # Void
  <2>1. index.last \in Harvest!Pairs
    BY <1>2 DEF WrittenInv, IndexHolds
  <2>2. ASSUME NEW p \in 1..index.last
        PROVE  /\ index.found[p] # Void =>
                    Filed(bodies', index.found[p], p) /\ index.found[p].date \in HarvestDates
               /\ index.found[p] = Void => CargoOnly(bodies', p)
    <3>1. p \in Harvest!Pairs
      BY <1>1, <2>1
    <3>2. /\ index.found[p] # Void =>
               Filed(bodies, index.found[p], p) /\ index.found[p].date \in HarvestDates
          /\ index.found[p] = Void => CargoOnly(bodies, p)
      BY <1>2 DEF WrittenInv, IndexHolds
    <3> QED BY <3>1, <3>2, RecordsStand
  <2> QED BY <1>2, <2>1, <2>2 DEF IndexHolds
<1>3. CASE index' = [last |-> run.last, found |-> found] /\ bodies' = bodies /\ Harvest!Writing(2)
  <2> DEFINE l == run.last
             n == at.pair
  <2>1. l \in Harvest!Pairs /\ n = l + 2 /\ run # Void
    BY <1>3 DEF RunInv, Harvest!Writing
  <2>2. index'.last = l /\ index'.found = found
    BY <1>3
  <2>3. ASSUME NEW p \in 1..l
        PROVE  /\ found[p] # Void => Filed(bodies, found[p], p) /\ found[p].date \in HarvestDates
               /\ found[p] = Void => CargoOnly(bodies, p)
    <3>1. p \in Harvest!Pairs /\ p <= l /\ p \in Nat
      BY <1>1, <2>1
    <3>2. p < n
      <4> HIDE DEF l, n
      <4> QED BY <2>1, <3>1 DEF Harvest!Pairs
    <3> QED BY <2>1, <3>1, <3>2 DEF RunInv
  <2> QED BY <1>3, <2>1, <2>2, <2>3 DEF IndexHolds
<1> QED BY <1>2, <1>3

LEMMA CatalogStep ==
  ASSUME RunInv, WrittenInv, Standing,
         rows' \in {rows, Void} \/ (rows # Void /\ rows' = Harvest!Merged /\ bodies' = bodies)
  PROVE  rows' # Void =>
           /\ \A r \in rows' : r.date # Void =>
                r.pair \in Harvest!Pairs /\ r.date \in HarvestDates
                  /\ bodies'[r.pair][r.date] = "flights"
           /\ Harvest!Row("CI", 1, Void) \in rows'
           /\ \A p \in Harvest!Pairs : OneRow(rows', p)
<1>1. CASE rows' = rows /\ rows # Void
  BY <1>1, RecordsStand DEF WrittenInv, HasTimetable
<1>2. CASE rows # Void /\ rows' = Harvest!Merged /\ bodies' = bodies
  BY <1>2, MergedCatalog DEF HasTimetable
<1> QED BY <1>1, <1>2

LEMMA WrittenSteps ==
  ASSUME Harvest!HarvestAssumption, RunInv, WrittenInv, [Harvest!Next]_Harvest!vars
  PROVE  WrittenInv'
<1>1. Standing
  BY FilesStand
<1>2. /\ \/ entries' \in {entries, Void}
         \/ entries' = Harvest!Results /\ bodies' = bodies
      /\ \/ index' \in {index, Void}
         \/ /\ index' = [last |-> run.last, found |-> found] /\ bodies' = bodies
            /\ Harvest!Writing(2)
      /\ rows' \in {rows, Void} \/ (rows # Void /\ rows' = Harvest!Merged /\ bodies' = bodies)
  <2>1. CASE UNCHANGED <<entries, index, rows>>
    BY <2>1
  <2>2. CASE Harvest!WriteEntries
    BY <2>2 DEF Harvest!WriteEntries
  <2>3. CASE Harvest!WriteIndex
    BY <2>3 DEF Harvest!WriteIndex
  <2>4. CASE Harvest!Finish
    BY <2>4 DEF Harvest!Finish
  <2>5. CASE Harvest!Kill
    BY <2>5 DEF Harvest!Kill
  <2> QED BY <2>1, <2>2, <2>3, <2>4, <2>5 DEF Harvest!Next, Harvest!vars, Harvest!Launch,
             Harvest!Resume, Harvest!Ask, Harvest!Answered, Harvest!Unanswered
<1>3. entries' # Void => \A e \in entries' :
        e.pair \in Harvest!Pairs /\ e.date \in HarvestDates /\ bodies'[e.pair][e.date] = "flights"
  BY <1>1, <1>2, EntriesStep
<1>4. index' # Void => IndexHolds(index', bodies')
  BY <1>1, <1>2, IndexStep
<1>5. rows' # Void =>
        /\ \A r \in rows' : r.date # Void =>
             r.pair \in Harvest!Pairs /\ r.date \in HarvestDates
               /\ bodies'[r.pair][r.date] = "flights"
        /\ Harvest!Row("CI", 1, Void) \in rows'
        /\ \A p \in Harvest!Pairs : OneRow(rows', p)
  BY <1>1, <1>2, CatalogStep
<1> QED BY <1>3, <1>4, <1>5 DEF WrittenInv, HasTimetable

LEMMA HarvestBegins == ASSUME Harvest!HarvestAssumption, Harvest!Init PROVE HarvestInv
<1>1. RunInv
  <2>1. bodies \in [Harvest!Pairs -> [HarvestDates -> Harvest!Bodies \cup {Void}]]
    BY DEF Harvest!Init, HarvestDates
  <2>2. at \in [pair : Nat \ {0}, date : HarvestDates]
    BY DEF Harvest!Init, Harvest!Start, HarvestDates
  <2>3. /\ found \in [Harvest!Pairs -> [result : Harvest!Outcomes, date : HarvestDates] \cup {Void}]
        /\ \A p \in Harvest!Pairs : found[p] = Void
    BY DEF Harvest!Init, Harvest!NothingFound
  <2> QED BY <2>1, <2>2, <2>3 DEF Harvest!Init, RunInv, Harvest!Asking
<1>2. ASSUME rows # Void PROVE WrittenInv
  <2>1. rows = {Harvest!Row("CI", 1, Void)} \cup {Harvest!Row("JX", p, Void) : p \in Harvest!Pairs}
    BY DEF Harvest!Init, Harvest!Before
  <2>2. \A r \in rows : r.date = Void
    BY <2>1 DEF Harvest!Row
  <2>3. ASSUME NEW p \in Harvest!Pairs
        PROVE  {r \in rows : r.carrier = "JX" /\ r.pair = p} = {Harvest!Row("JX", p, Void)}
    BY <2>1 DEF Harvest!Row
  <2> QED BY <2>1, <2>2, <2>3 DEF Harvest!Init, WrittenInv, OneRow
<1> QED BY <1>1, <1>2 DEF HarvestInv, WrittenInv, Harvest!Init

\* Through kills and resumed runs, every entry and every harvested row has its timetable on
\* file, the index says that a pair is not flown only when both answers were empty and passes
\* over none but those that had only cargo then, and the catalogue has one row of the carrier
\* for each pair and the rows of the others (src/scripts/harvest-jx-schedules.mjs).
THEOREM HarvestsAreAccountedFor ==
  ASSUME Harvest!HarvestAssumption PROVE Harvest!Spec => []Harvest!HarvestAccounts
<1>1. Harvest!Init => HarvestInv
  BY HarvestBegins
<1>2. HarvestInv /\ [Harvest!Next]_Harvest!vars => HarvestInv'
  BY RunSteps, WrittenSteps DEF HarvestInv
<1>3. HarvestInv => Harvest!HarvestAccounts
  <2> SUFFICES ASSUME HarvestInv PROVE Harvest!HarvestAccounts
    OBVIOUS
  <2>1. Harvest!EvidenceOnFile
    BY DEF HarvestInv, WrittenInv, HasTimetable, Harvest!EvidenceOnFile
  <2>2. Harvest!NotFlownIsProven
    BY DEF HarvestInv, WrittenInv, IndexHolds, Filed, Harvest!NotFlownIsProven
  <2>3. Harvest!EveryPairRecorded
    BY DEF HarvestInv, WrittenInv, IndexHolds, CargoOnly, Harvest!EveryPairRecorded
  <2>4. Harvest!CatalogKept
    <3>1. ASSUME rows # Void, NEW p \in Harvest!Pairs
          PROVE  Harvest!Cardinality({r \in rows : r.carrier = "JX" /\ r.pair = p}) = 1
      <4>1. PICK d : {r \in rows : r.carrier = "JX" /\ r.pair = p} = {Harvest!Row("JX", p, d)}
        BY <3>1 DEF HarvestInv, WrittenInv, OneRow
      <4>2. Cardinality({Harvest!Row("JX", p, d)}) = 1
        BY FS_Singleton
      <4> QED BY <4>1, <4>2, HarvestCardinality
    <3>2. rows # Void => Harvest!Row("CI", 1, Void) \in rows
      BY DEF HarvestInv, WrittenInv
    <3> QED BY <3>1, <3>2 DEF Harvest!CatalogKept
  <2> QED BY <2>1, <2>2, <2>3, <2>4 DEF Harvest!HarvestAccounts
<1> QED BY <1>1, <1>2, <1>3, PTL DEF Harvest!Spec
-----------------------------------------------------------------------------
(***************************************************************************)
(* Registered plans.                                                       *)
(***************************************************************************)
LEMMA PlansCardinality == \A S : Plans!Cardinality(S) = Cardinality(S)
  BY DEF Plans!Cardinality, Cardinality

\* A row says of its plan what the plan says.
RowStates(r, p, l) ==
  /\ l.raw.passenger /\ ~p.conflict
  /\ l.raw.registration = p.registration /\ l.raw.number = p.number /\ l.raw.icao = l.icao
  /\ p.icao \in {Void, l.icao}
  /\ r.entity # Void => p.entity = r.entity /\ l.icao = IcaoOf[r.entity]

\* What can be said of a network by itself, whatever is on file by now.
RowsState(net) ==
  \A r \in DOMAIN net : \A p \in net[r].plans : \A l \in p.lineage : RowStates(r, p, l)
RowsOnce(net) ==
  \A r, s \in DOMAIN net : \A p \in net[r].plans, q \in net[s].plans :
    \A l \in p.lineage, m \in q.lineage : l.row = m.row => r = s /\ p = q

PlansInv == RowsState(attached) /\ RowsOnce(attached) /\ Plans!EvidenceOnly

\* Where the rows of a plan that is attached come from.
From(r, l, g, e) ==
  /\ g \in proposal /\ g.route = r /\ e \in g.entries
  /\ l = Plans!Lineage(e)

LEMMA RowsOfNewPlans ==
  ASSUME NEW r, NEW q \in Plans!PlansFor(r), NEW l \in q.lineage, Plans!OverlayBuilds
  PROVE  \E g, e : /\ From(r, l, g, e)
                   /\ Plans!Profile(e.plan) = Plans!Profile(q) /\ e.plan.icao = q.icao
<1> DEFINE mine == Plans!EntriesOf({g \in proposal : g.route = r})
<1>1. PICK d \in mine :
        q = [registration |-> d.plan.registration, number |-> d.plan.number,
             operator |-> d.plan.operator, entity |-> d.plan.entity, icao |-> d.plan.icao,
             conflict |-> d.plan.conflict,
             lineage |-> {Plans!Lineage(o) : o \in
                            {x \in mine : Plans!Profile(x.plan) = Plans!Profile(d.plan)}}]
  BY DEF Plans!PlansFor
<1>2. PICK e \in mine : Plans!Profile(e.plan) = Plans!Profile(d.plan) /\ l = Plans!Lineage(e)
  BY <1>1
<1>3. Plans!Profile(q) = Plans!Profile(d.plan) /\ q.icao = d.plan.icao
  BY <1>1 DEF Plans!Profile
<1>4. PICK h \in proposal : h.route = r /\ d \in h.entries
  BY DEF Plans!EntriesOf
<1>5. PICK g \in proposal : g.route = r /\ e \in g.entries
  BY DEF Plans!EntriesOf
<1>6. e.plan.icao = d.plan.icao
  BY <1>2, <1>4, <1>5 DEF Plans!OverlayBuilds
<1> QED BY <1>2, <1>3, <1>5, <1>6 DEF From

\* A network below, as the constants describe it.
Below(b) ==
  \A r \in DOMAIN b :
    /\ b[r] = [numbers |-> b[r].numbers, plans |-> b[r].plans]
    /\ r.entity # Void => IcaoOf[r.entity] # Void
    /\ \A p \in b[r].plans :
         p = [registration |-> p.registration, number |-> p.number, operator |-> p.operator,
              entity |-> p.entity, icao |-> p.icao, conflict |-> p.conflict, lineage |-> {}]

LEMMA AppliedPlans ==
  ASSUME NEW b, Below(b)
  PROVE  /\ DOMAIN Plans!Applied(b) = DOMAIN b
         /\ \A r \in DOMAIN b : /\ Plans!Applied(b)[r].plans = Plans!Attached(r, b[r].plans)
                               /\ Plans!Applied(b)[r].numbers = b[r].numbers
BY DEF Below, Plans!Applied

\* A plan is of the network below, with the rows of the new plans that say the same, or new.
LEMMA PlansOfRoute ==
  ASSUME NEW b, Below(b), NEW r \in DOMAIN b, NEW p \in Plans!Attached(r, b[r].plans)
  PROVE  \/ \E p0 \in b[r].plans :
              /\ Plans!Profile(p) = Plans!Profile(p0) /\ p.icao = p0.icao
              /\ \A l \in p.lineage : \E q \in Plans!PlansFor(r) :
                   /\ Plans!Profile(q) = Plans!Profile(p0) /\ l \in q.lineage
         \/ p \in Plans!PlansFor(r)
<1> DEFINE new == Plans!PlansFor(r)
<1>1. CASE p \in new
  BY <1>1
<1>2. CASE \E p0 \in b[r].plans :
             p = [p0 EXCEPT !.lineage = @ \union UNION {q.lineage : q \in Plans!Same(new, p0)}]
  <2> DEFINE said(p0) == UNION {q.lineage : q \in Plans!Same(new, p0)}
  <2>1. PICK p0 \in b[r].plans : p = [p0 EXCEPT !.lineage = @ \union said(p0)]
    BY <1>2
  <2>2. p0 = [registration |-> p0.registration, number |-> p0.number, operator |-> p0.operator,
              entity |-> p0.entity, icao |-> p0.icao, conflict |-> p0.conflict, lineage |-> {}]
    BY DEF Below
  <2>3. \A l \in said(p0) : \E q \in new : Plans!Profile(q) = Plans!Profile(p0) /\ l \in q.lineage
    BY DEF Plans!Same
  <2> HIDE DEF said, new
  <2>4. p.lineage = said(p0) /\ p.icao = p0.icao /\ Plans!Profile(p) = Plans!Profile(p0)
    BY <2>1, <2>2 DEF Plans!Profile
  <2> USE DEF new
  <2> QED BY <2>3, <2>4
<1> QED BY <1>1, <1>2 DEF Plans!Attached

\* Every row that is attached is of a group of its route, and says what its plan says.
LEMMA AttachedRows ==
  ASSUME NEW b, Below(b), Plans!OverlayBuilds, Plans!Applies(b), NEW r \in DOMAIN b,
         NEW p \in Plans!Attached(r, b[r].plans), NEW l \in p.lineage
  PROVE  \E g, e : /\ From(r, l, g, e)
                   /\ Plans!Profile(e.plan) = Plans!Profile(p)
                   /\ p.icao \in {Void, e.plan.icao}
<1>1. CASE p \in Plans!PlansFor(r)
  BY <1>1, RowsOfNewPlans
<1>2. ASSUME NEW p0 \in b[r].plans, NEW q \in Plans!PlansFor(r), l \in q.lineage,
             Plans!Profile(p) = Plans!Profile(p0), p.icao = p0.icao,
             Plans!Profile(q) = Plans!Profile(p0)
      PROVE  \E g, e : /\ From(r, l, g, e)
                       /\ Plans!Profile(e.plan) = Plans!Profile(p)
                       /\ p.icao \in {Void, e.plan.icao}
  <2>1. PICK g, e : /\ From(r, l, g, e)
                    /\ Plans!Profile(e.plan) = Plans!Profile(q) /\ e.plan.icao = q.icao
    BY <1>2, RowsOfNewPlans
  <2>2. p0.icao # Void => p0.icao = q.icao
    BY <1>2, <2>1 DEF From, Plans!Applies
  <2> QED BY <1>2, <2>1, <2>2
<1> QED BY <1>1, <1>2, PlansOfRoute

LEMMA AppliedRows ==
  ASSUME NEW b, Below(b), Plans!OverlayBuilds, Plans!Applies(b)
  PROVE  RowsState(Plans!Applied(b))
<1> SUFFICES ASSUME NEW r \in DOMAIN b, NEW p \in Plans!Attached(r, b[r].plans),
                    NEW l \in p.lineage
             PROVE  RowStates(r, p, l)
  BY AppliedPlans DEF RowsState
<1>1. PICK g, e : /\ From(r, l, g, e)
                  /\ Plans!Profile(e.plan) = Plans!Profile(p) /\ p.icao \in {Void, e.plan.icao}
  BY AttachedRows
<1>2. /\ g \in proposal /\ g.route = r /\ e \in g.entries
      /\ l = [row |-> e.row, raw |-> archive[e.row], icao |-> e.plan.icao, body |-> pins.body]
  BY <1>1 DEF From, Plans!Lineage
<1>3. Plans!MatchesRaw(archive[e.row], e.plan)
  BY <1>2 DEF Plans!OverlayBuilds, Plans!GroupHolds, Plans!EntryHolds
<1>4. /\ e.plan.registration = p.registration /\ e.plan.number = p.number
      /\ e.plan.conflict = p.conflict
  BY <1>1 DEF Plans!Profile
<1>5. Plans!PlanValid(g.route, p)
  BY <1>2 DEF Plans!Applies
<1>6. r.entity # Void => p.entity = r.entity /\ p.icao = IcaoOf[r.entity] /\ p.icao # Void
  BY <1>2, <1>5 DEF Plans!PlanValid, Below
<1> QED BY <1>1, <1>2, <1>3, <1>4, <1>6 DEF RowStates, Plans!MatchesRaw

LEMMA AppliedOnce ==
  ASSUME NEW b, Below(b), Plans!OverlayBuilds, Plans!Applies(b)
  PROVE  RowsOnce(Plans!Applied(b))
<1> SUFFICES ASSUME NEW r \in DOMAIN b, NEW s \in DOMAIN b,
                    NEW p \in Plans!Attached(r, b[r].plans),
                    NEW q \in Plans!Attached(s, b[s].plans),
                    NEW l \in p.lineage, NEW m \in q.lineage, l.row = m.row
             PROVE  r = s /\ p = q
  BY AppliedPlans DEF RowsOnce
<1>1. PICK g, e : From(r, l, g, e)
  BY AttachedRows
<1>2. PICK h, d : From(s, m, h, d)
  BY AttachedRows
<1>3. l.row = e.row /\ m.row = d.row
  BY <1>1, <1>2 DEF From, Plans!Lineage
<1>4. r = s
  BY <1>1, <1>2, <1>3 DEF From, Plans!OverlayBuilds
<1>5. Plans!OneRowOnce(Plans!Attached(r, b[r].plans))
  BY <1>1 DEF From, Plans!Applies
<1> QED BY <1>4, <1>5 DEF Plans!OneRowOnce

LEMMA AppliedIsEvidenceOnly ==
  ASSUME NEW b, Below(b), Plans!OverlayBuilds, Plans!Applies(b)
  PROVE  LET net == Plans!Applied(b)
         IN \A r \in DOMAIN net :
              /\ r \in DOMAIN b /\ net[r].numbers = b[r].numbers
              /\ \A p \in b[r].plans : \E q \in net[r].plans :
                   Plans!Profile(p) = Plans!Profile(q) /\ p.icao = q.icao
              /\ \A p \in net[r].plans : p.lineage # {} => p.number \notin net[r].numbers
<1> SUFFICES ASSUME NEW r \in DOMAIN b
             PROVE  /\ \A p \in b[r].plans : \E q \in Plans!Attached(r, b[r].plans) :
                         Plans!Profile(p) = Plans!Profile(q) /\ p.icao = q.icao
                    /\ \A p \in Plans!Attached(r, b[r].plans) :
                         p.lineage # {} => p.number \notin b[r].numbers
  BY AppliedPlans
<1>1. ASSUME NEW p \in b[r].plans
      PROVE  \E q \in Plans!Attached(r, b[r].plans) :
               Plans!Profile(p) = Plans!Profile(q) /\ p.icao = q.icao
  <2> DEFINE said == UNION {q.lineage : q \in Plans!Same(Plans!PlansFor(r), p)}
             q == [p EXCEPT !.lineage = @ \union said]
  <2>1. q \in Plans!Attached(r, b[r].plans)
    BY DEF Plans!Attached
  <2>2. p = [registration |-> p.registration, number |-> p.number, operator |-> p.operator,
             entity |-> p.entity, icao |-> p.icao, conflict |-> p.conflict, lineage |-> {}]
    BY DEF Below
  <2> HIDE DEF said
  <2>3. Plans!Profile(p) = Plans!Profile(q) /\ p.icao = q.icao
    BY <2>2 DEF Plans!Profile
  <2> HIDE DEF q
  <2> QED BY <2>1, <2>3
<1>2. ASSUME NEW p \in Plans!Attached(r, b[r].plans), NEW l \in p.lineage
      PROVE  p.number \notin b[r].numbers
  <2>1. PICK g, e : From(r, l, g, e) /\ Plans!Profile(e.plan) = Plans!Profile(p)
    BY AttachedRows
  <2>2. e.plan.number = p.number
    BY <2>1 DEF Plans!Profile
  <2>3. e.plan.number = g.number /\ g \in proposal /\ g.route = r
    BY <2>1 DEF From, Plans!OverlayBuilds, Plans!GroupHolds, Plans!EntryHolds
  <2> QED BY <2>2, <2>3 DEF Plans!Applies
<1> QED BY <1>1, <1>2

LEMMA PlansSteps ==
  ASSUME Plans!PlansAssumption, PlansInv, [Plans!Next]_Plans!vars
  PROVE  PlansInv'
<1>1. CASE UNCHANGED <<attached, base>>
  BY <1>1 DEF PlansInv, RowsState, RowsOnce, RowStates, Plans!EvidenceOnly, Plans!Profile
<1>2. ASSUME NEW b \in Bases, Plans!BuildNetwork(b) PROVE PlansInv'
  <2>1. Below(b)
    BY DEF Plans!PlansAssumption, Below
  <2>2. /\ Plans!OverlayBuilds /\ Plans!Applies(b)
        /\ attached' = Plans!Applied(b) /\ base' = b
    BY <1>2 DEF Plans!BuildNetwork
  <2> DEFINE net == Plans!Applied(b)
  <2>3. RowsState(net) /\ RowsOnce(net)
    BY <2>1, <2>2, AppliedRows, AppliedOnce
  <2>4. RowsState(attached)' /\ RowsOnce(attached)'
    BY <2>2, <2>3 DEF RowsState, RowsOnce, RowStates
  <2>5. Plans!EvidenceOnly'
    <3>1. \A r \in DOMAIN net :
             /\ r \in DOMAIN b /\ net[r].numbers = b[r].numbers
             /\ \A p \in b[r].plans : \E q \in net[r].plans :
                  Plans!Profile(p) = Plans!Profile(q) /\ p.icao = q.icao
             /\ \A p \in net[r].plans : p.lineage # {} => p.number \notin net[r].numbers
      BY <2>1, <2>2, AppliedIsEvidenceOnly
    <3> HIDE DEF net
    <3>2. attached' = net
      BY <2>2 DEF net
    <3> QED BY <2>2, <3>1, <3>2 DEF Plans!EvidenceOnly, Plans!Profile
  <2> QED BY <2>4, <2>5 DEF PlansInv
<1> QED BY <1>1, <1>2 DEF Plans!Next, Plans!vars, Plans!Review, Plans!MovePins,
           Plans!BuildLedger, Plans!BuildRelease

LEMMA PlansBegin == ASSUME Plans!PlansAssumption, Plans!Init PROVE PlansInv
<1>1. Below(base)
  BY DEF Plans!PlansAssumption, Plans!Init, Below
<1>2. Plans!OverlayBuilds /\ Plans!Applies(base) /\ attached = Plans!Applied(base)
  BY DEF Plans!Init
<1>3. RowsState(attached) /\ RowsOnce(attached)
  BY <1>1, <1>2, AppliedRows, AppliedOnce
<1>4. Plans!EvidenceOnly
  BY <1>1, <1>2, AppliedIsEvidenceOnly DEF Plans!EvidenceOnly
<1> QED BY <1>3, <1>4 DEF PlansInv

\* What is said of a network by itself is said of the files it passes the verification with.
LEMMA VerifiedRows == ASSUME PlansInv PROVE Plans!RowsAttached /\ Plans!PlansStated
<1>1. ASSUME Plans!Verified, NEW n \in DOMAIN archive
      PROVE  Cardinality({x \in Plans!Attachments : n \in {l.row : l \in x[2].lineage}}) = 1
  <2> DEFINE X == {x \in Plans!Attachments : n \in {l.row : l \in x[2].lineage}}
  <2>1. PICK l \in Plans!Rows : l.row = n
    BY <1>1 DEF Plans!Verified
  <2>2. PICK r \in DOMAIN attached : \E p \in attached[r].plans : l \in p.lineage
    BY DEF Plans!Rows
  <2>3. PICK p \in attached[r].plans : l \in p.lineage
    BY <2>2
  <2>4. <<r, p>> \in X
    BY <2>1, <2>3 DEF Plans!Attachments
  <2>5. ASSUME NEW x \in X PROVE x = <<r, p>>
    <3>1. PICK s \in DOMAIN attached : \E q \in attached[s].plans : x = <<s, q>>
      BY DEF Plans!Attachments
    <3>2. PICK q \in attached[s].plans : x = <<s, q>>
      BY <3>1
    <3>3. PICK m \in q.lineage : m.row = n
      BY <3>2
    <3> QED BY <2>1, <2>3, <3>2, <3>3 DEF PlansInv, RowsOnce
  <2> HIDE DEF X
  <2>6. X = {<<r, p>>}
    BY <2>4, <2>5
  <2>7. Cardinality(X) = 1
    BY <2>6, FS_Singleton
  <2> QED BY <2>7 DEF X
<1>2. ASSUME Plans!Verified, NEW r \in DOMAIN attached, NEW p \in attached[r].plans,
             NEW l \in p.lineage
      PROVE  RowStates(r, p, l) /\ l.raw = archive[l.row]
  <2>1. l \in Plans!Rows
    BY DEF Plans!Rows
  <2> QED BY <1>2, <2>1 DEF PlansInv, RowsState, Plans!Verified
<1>3. Plans!RowsAttached
  BY <1>1, PlansCardinality DEF Plans!RowsAttached
<1>4. Plans!PlansStated
  BY <1>2 DEF Plans!PlansStated, RowStates
<1> QED BY <1>3, <1>4

\* In every order of reviews, pins and builds, a network that passes the verification
\* attaches every archived row exactly once, to a plan of which that row says what the plan
\* says, and confirms nothing (build-siros-registered-plan-release.ts,
\* siros-registered-plan-adapter.ts, verify-siros-registered-plan-release.ts).
THEOREM PlansAreAccountedFor ==
  ASSUME Plans!PlansAssumption PROVE Plans!Spec => []Plans!PlansAccounted
<1>1. Plans!Init => PlansInv
  BY PlansBegin
<1>2. PlansInv /\ [Plans!Next]_Plans!vars => PlansInv'
  BY PlansSteps
<1>3. PlansInv => Plans!PlansAccounted
  BY VerifiedRows DEF PlansInv, Plans!PlansAccounted
<1> QED BY <1>1, <1>2, <1>3, PTL DEF Plans!Spec

-----------------------------------------------------------------------------
(***************************************************************************)
(* The reviewed schedules of the Indian authority.                         *)
(***************************************************************************)
\* A source of the file, however old: each reference has a variant and is of the source's
\* carrier, and a variant is paired as the rows it cites are, where their sides are told.
Ours == {"SG", "6E", "IX"}

SourceOnFile(s, f) ==
  /\ \A identity \in DOMAIN f : DOMAIN f[identity] # {} /\ (s # "india" => identity.carrier \in Ours)
  /\ s # "spicejet" =>
       \A identity \in DOMAIN f : \A id \in DOMAIN f[identity] :
         f[identity][id].paired = Dgca!Paired(f[identity][id].rows)

CatalogOnFile(c) == Dgca!Disjoint(c) /\ \A s \in Dgca!ReviewSources : SourceOnFile(s, c[s])

DgcaInv ==
  /\ edition \in DOMAIN Packets
  /\ normalized # Void => SourceOnFile("spicejet", normalized)
  /\ published # Void => CatalogOnFile(published)
  /\ Dgca!EvidenceAccounted

\* What filing the variants of a packet gives, and what is said of each of them.
LEMMA FiledVariants ==
  ASSUME NEW R, NEW identity \in DOMAIN Dgca!Filed(R)
  PROVE  /\ DOMAIN Dgca!Filed(R)[identity] # {}
         /\ \A id \in DOMAIN Dgca!Filed(R)[identity] :
              /\ id \in DOMAIN R /\ R[id].of = identity
              /\ Dgca!Filed(R)[identity][id] = R[id].variant
BY DEF Dgca!Filed

Said(s, r) ==
  /\ s # "india" => r.of.carrier \in Ours
  /\ s # "spicejet" => r.variant.paired = Dgca!Paired(r.variant.rows)

LEMMA TodaysVariants ==
  ASSUME Dgca!DgcaAssumption, edition \in DOMAIN Packets, NEW s \in Dgca!ReviewSources,
         NEW id \in DOMAIN Dgca!Records(Dgca!packet)[s]
  PROVE  Said(s, Dgca!Records(Dgca!packet)[s][id])
<1> DEFINE p == Dgca!packet
<1>1. /\ \A i \in DOMAIN p.spicejet.claims : p.spicejet.claims[i].identity.carrier \in Ours
      /\ \A i \in DOMAIN p.indigo.records : p.indigo.records[i].identity.carrier \in Ours
      /\ \A i \in DOMAIN p.express.variants : p.express.variants[i].identity.carrier \in Ours
  BY DEF Dgca!DgcaAssumption, Dgca!packet, Ours
<1>2. \A cited, flags : /\ Dgca!Variant(cited, flags).rows = cited
                        /\ Dgca!Variant(cited, flags).paired = Dgca!Paired(cited)
  BY DEF Dgca!Variant
<1> HIDE DEF p
<1>3. CASE s = "spicejet"
  BY <1>1, <1>3 DEF Dgca!Records, Dgca!SpiceJet, Dgca!Record, Dgca!LiveClaims, Dgca!LiveOnes, Said, p
<1>4. CASE s = "indigo"
  BY <1>1, <1>2, <1>4 DEF Dgca!Records, Dgca!IndiGo, Dgca!Record, Dgca!LiveOnes, Said, p
<1>5. CASE s = "india"
  BY <1>2, <1>5 DEF Dgca!Records, Dgca!India, Dgca!Record, Said, p
<1>6. CASE s = "express"
  BY <1>1, <1>2, <1>6 DEF Dgca!Records, Dgca!Express, Dgca!Record, Dgca!LiveOnes, Said, p
<1> QED BY <1>3, <1>4, <1>5, <1>6 DEF Dgca!ReviewSources

LEMMA FiledOnFile ==
  ASSUME Dgca!DgcaAssumption, edition \in DOMAIN Packets, NEW s \in Dgca!ReviewSources
  PROVE  SourceOnFile(s, Dgca!Filed(Dgca!Records(Dgca!packet)[s]))
<1> DEFINE R == Dgca!Records(Dgca!packet)[s]
<1>1. \A id \in DOMAIN R : Said(s, R[id])
  BY TodaysVariants
<1> HIDE DEF R
<1> QED BY <1>1, FiledVariants DEF SourceOnFile, Said, R

LEMMA CitedRows ==
  ASSUME NEW table, NEW cited
  PROVE  LET cites == Dgca!Cited(table, cited)
         IN /\ cited # {} => cites # {}
            /\ \A cite \in cites : cite.row \in cited /\ table[cite.row].side = cite.side
            /\ Dgca!Paired(cites) <=>
                 {"arrival", "departure"} \subseteq {table[cite.row].side : cite \in cites}
<1> DEFINE cites == Dgca!Cited(table, cited)
<1>1. cites = {[row |-> c, side |-> table[c].side] : c \in cited}
  BY DEF Dgca!Cited
<1>2. \A cite \in cites : cite.row \in cited /\ table[cite.row].side = cite.side
  BY <1>1
<1>3. cited # {} => cites # {}
  BY <1>1
<1> HIDE DEF cites
<1>4. Dgca!Paired(cites) <=>
        {"arrival", "departure"} \subseteq {table[cite.row].side : cite \in cites}
  BY <1>2 DEF Dgca!Paired
<1> QED BY <1>2, <1>3, <1>4 DEF cites

\* A variant that is written rests on live rows of its own.
LEMMA IndiaRests ==
  ASSUME NEW x, Dgca!IndiaJoins(x), NEW id \in DOMAIN Dgca!India(x)
  PROVE  LET r == Dgca!India(x)[id]
         IN /\ r.variant.rows # {}
            /\ \A cite \in r.variant.rows :
                 /\ cite.row \in DOMAIN x.movements
                 /\ x.movements[cite.row].side = cite.side
                 /\ x.movements[cite.row].identity = r.of /\ x.movements[cite.row].of = id
            /\ r.variant.paired <=>
                 {"arrival", "departure"} \subseteq {x.movements[cite.row].side : cite \in r.variant.rows}
<1>1. /\ id \in Dgca!LiveIndia(x) /\ Dgca!India(x)[id].of = x.ledger[id].identity
      /\ Dgca!India(x)[id].variant.rows = Dgca!Cited(x.movements, x.ledger[id].movements)
      /\ Dgca!India(x)[id].variant.paired =
           Dgca!Paired(Dgca!Cited(x.movements, x.ledger[id].movements))
  BY DEF Dgca!India, Dgca!Record, Dgca!Variant
<1>2. /\ x.ledger[id].movements # {} /\ x.ledger[id].movements \subseteq DOMAIN x.movements
      /\ \A movement \in x.ledger[id].movements :
           x.movements[movement].of = id /\ x.movements[movement].identity = x.ledger[id].identity
  BY <1>1 DEF Dgca!IndiaJoins
<1> QED BY <1>1, <1>2, CitedRows

LEMMA ExpressRests ==
  ASSUME NEW x, Dgca!ExpressJoins(x), NEW id \in DOMAIN Dgca!Express(x)
  PROVE  LET r == Dgca!Express(x)[id]
         IN /\ r.variant.rows # {}
            /\ \A cite \in r.variant.rows :
                 /\ cite.row \in DOMAIN x.rows /\ x.rows[cite.row].side = cite.side
                 /\ x.rows[cite.row].identity = r.of /\ Dgca!Live(x.rows[cite.row])
            /\ r.variant.paired <=>
                 {"arrival", "departure"} \subseteq {x.rows[cite.row].side : cite \in r.variant.rows}
<1>1. /\ id \in Dgca!LiveOnes(x.variants) /\ id \in DOMAIN x.variants
      /\ Dgca!Express(x)[id].of = x.variants[id].identity
      /\ Dgca!Express(x)[id].variant.rows = Dgca!Cited(x.rows, x.variants[id].rows)
      /\ Dgca!Express(x)[id].variant.paired = Dgca!Paired(Dgca!Cited(x.rows, x.variants[id].rows))
  BY DEF Dgca!Express, Dgca!Record, Dgca!Variant, Dgca!LiveOnes
<1>2. /\ x.variants[id].rows # {}
      /\ x.variants[id].rows \subseteq Dgca!LiveOnes(x.rows) \cap Dgca!Of(x.rows, x.variants[id].identity)
  BY <1>1 DEF Dgca!ExpressJoins
<1>3. \A r \in x.variants[id].rows :
        r \in DOMAIN x.rows /\ Dgca!Live(x.rows[r]) /\ x.rows[r].identity = x.variants[id].identity
  BY <1>2 DEF Dgca!LiveOnes, Dgca!Of
<1> QED BY <1>1, <1>2, <1>3, CitedRows

\* What build ascertains.
LEMMA WrittenRests ==
  ASSUME Dgca!DgcaAssumption, DgcaInv, Dgca!Build, Dgca!Builds
  PROVE  Dgca!RestsOnRows' /\ CatalogOnFile(published)'
<1> DEFINE c == Dgca!Output
           p == Dgca!packet
<1>1. published' = c /\ Dgca!packet' = p
  BY DEF Dgca!Build, Dgca!packet
<1>2. /\ c.india = Dgca!Filed(Dgca!India(p.india)) /\ c.express = Dgca!Filed(Dgca!Express(p.express))
      /\ c.indigo = Dgca!Filed(Dgca!IndiGo(p.indigo)) /\ c.spicejet = normalized
      /\ Dgca!Disjoint(c) /\ Dgca!IndiaJoins(p.india) /\ Dgca!ExpressJoins(p.express)
  BY DEF Dgca!Output, Dgca!Builds
<1>3. CatalogOnFile(c)
  <2>1. \A s \in {"indigo", "india", "express"} : SourceOnFile(s, c[s])
    BY <1>2, FiledOnFile DEF DgcaInv, Dgca!Records, Dgca!ReviewSources
  <2>2. SourceOnFile("spicejet", c.spicejet)
    BY <1>2 DEF DgcaInv, Dgca!Builds
  <2> QED BY <1>2, <2>1, <2>2 DEF CatalogOnFile, Dgca!ReviewSources
<1> HIDE DEF c, p
<1>4. ASSUME NEW identity \in DOMAIN c.india, NEW id \in DOMAIN c.india[identity]
      PROVE  LET variant == c.india[identity][id]
                 table   == p.india.movements
             IN /\ variant.rows # {}
                /\ \A cite \in variant.rows :
                     /\ cite.row \in DOMAIN table /\ table[cite.row].side = cite.side
                     /\ table[cite.row].identity = identity /\ table[cite.row].of = id
                /\ variant.paired <=>
                     {"arrival", "departure"} \subseteq {table[cite.row].side : cite \in variant.rows}
  BY <1>2, FiledVariants, IndiaRests
<1>5. ASSUME NEW identity \in DOMAIN c.express, NEW id \in DOMAIN c.express[identity]
      PROVE  LET variant == c.express[identity][id]
                 table   == p.express.rows
             IN /\ variant.rows # {}
                /\ \A cite \in variant.rows :
                     /\ cite.row \in DOMAIN table /\ table[cite.row].side = cite.side
                     /\ table[cite.row].identity = identity /\ Dgca!Live(table[cite.row])
                /\ variant.paired <=>
                     {"arrival", "departure"} \subseteq {table[cite.row].side : cite \in variant.rows}
  BY <1>2, FiledVariants, ExpressRests
<1>6. Dgca!RestsOnRows'
  BY <1>1, <1>2, <1>4, <1>5 DEF Dgca!RestsOnRows
<1> QED BY <1>1, <1>3, <1>6

\* What verify ascertains.
LEMMA SourcePasses ==
  ASSUME Dgca!DgcaAssumption, DgcaInv, NEW s \in Dgca!ReviewSources, NEW f, SourceOnFile(s, f),
         Dgca!Same(s, f, Dgca!Records(Dgca!packet)[s])
  PROVE  Dgca!AsToday(s, f, Dgca!Records(Dgca!packet)[s])
<1> DEFINE today == Dgca!Records(Dgca!packet)[s]
<1>1. \A id \in DOMAIN today : Said(s, today[id])
  BY TodaysVariants DEF DgcaInv
<1>2. Dgca!Same(s, f, today)
  OBVIOUS
<1> HIDE DEF today
<1>3. Dgca!NamesIn(f) = DOMAIN today
  BY <1>2 DEF Dgca!Same
<1>4. \A id : id \in DOMAIN today <=> \E identity \in DOMAIN f : id \in DOMAIN f[identity]
  BY <1>3 DEF Dgca!NamesIn
<1>5. ASSUME NEW identity \in DOMAIN f, NEW id \in DOMAIN f[identity]
      PROVE  /\ Dgca!Settled(s, f[identity][id]) = Dgca!Settled(s, today[id].variant)
             /\ s \in {"indigo", "india"} => today[id].of.number = identity.number
             /\ s = "express" => today[id].of = identity
  <2>1. Dgca!Seen(s, identity, f[identity][id]) = Dgca!Seen(s, today[id].of, today[id].variant)
    BY <1>2 DEF Dgca!Same
  <2>2. /\ Dgca!Told(s, identity) = Dgca!Told(s, today[id].of)
        /\ f[identity][id].rows = today[id].variant.rows
        /\ s # "india" => f[identity][id].flags = today[id].variant.flags
    BY <2>1 DEF Dgca!Seen
  <2>3. s # "spicejet" => f[identity][id].paired = today[id].variant.paired
    BY <1>1, <1>4, <2>2 DEF SourceOnFile, Said
  <2>4. Dgca!Settled(s, f[identity][id]) = Dgca!Settled(s, today[id].variant)
    BY <2>2, <2>3 DEF Dgca!Settled
  <2>5. s \in {"indigo", "india"} =>
          <<identity.carrier, identity.number>> = <<today[id].of.carrier, today[id].of.number>>
    BY <2>2 DEF Dgca!Told
  <2>6. s = "express" => <<identity>> = <<today[id].of>>
    BY <2>2 DEF Dgca!Told
  <2> QED BY <2>4, <2>5, <2>6
<1>6. ASSUME \A identity \in DOMAIN f : \A id \in DOMAIN f[identity] : today[id].of = identity
      PROVE  /\ DOMAIN f = DOMAIN Dgca!Filed(today)
             /\ \A identity \in DOMAIN f : DOMAIN f[identity] = DOMAIN Dgca!Filed(today)[identity]
  <2>1. DOMAIN Dgca!Filed(today) = {today[id].of : id \in DOMAIN today}
    BY DEF Dgca!Filed
  <2>2. DOMAIN f = {today[id].of : id \in DOMAIN today}
    <3>1. \A identity \in DOMAIN f : \E id \in DOMAIN today : today[id].of = identity
      BY <1>4, <1>6 DEF SourceOnFile
    <3>2. \A id \in DOMAIN today : today[id].of \in DOMAIN f
      BY <1>4, <1>6
    <3> QED BY <3>1, <3>2
  <2>3. ASSUME NEW identity \in DOMAIN f PROVE DOMAIN f[identity] = DOMAIN Dgca!Filed(today)[identity]
    <3>1. DOMAIN Dgca!Filed(today)[identity] = {id \in DOMAIN today : today[id].of = identity}
      BY <2>1, <2>2 DEF Dgca!Filed
    <3> QED BY <1>4, <1>6, <3>1
  <2> QED BY <2>1, <2>2, <2>3
<1>7. Dgca!AsToday(s, f, today)
  BY <1>3, <1>5, <1>6 DEF Dgca!AsToday
<1> QED BY <1>7 DEF today

LEMMA PassesHold ==
  ASSUME Dgca!DgcaAssumption, DgcaInv, Dgca!Verifies
  PROVE  /\ CatalogOnFile(published)
         /\ \A s \in Dgca!ReviewSources : Dgca!AsToday(s, published[s], Dgca!Records(Dgca!packet)[s])
         /\ \A s \in Dgca!ReviewSources \ {"india"} : \A identity \in DOMAIN published[s] :
              identity \notin Dgca!Listed(Dgca!network) /\ Dgca!RouteOf(identity) \notin Dgca!network.routes
<1>1. CatalogOnFile(published) /\ \A s \in Dgca!ReviewSources : Dgca!Same(s, published[s], Dgca!Records(Dgca!packet)[s])
  BY DEF Dgca!Verifies, DgcaInv
<1>2. ASSUME NEW s \in Dgca!ReviewSources \ {"india"}, NEW identity \in DOMAIN published[s]
      PROVE  identity \notin Dgca!Listed(Dgca!network) /\ Dgca!RouteOf(identity) \notin Dgca!network.routes
  <2>1. identity.carrier \in Ours /\ Dgca!RouteOf(identity).carrier \in Ours
    BY <1>1 DEF CatalogOnFile, SourceOnFile, Dgca!RouteOf
  <2>2. \A key \in Dgca!network.routes \cup Dgca!Listed(Dgca!network) : key.carrier \notin Ours
    BY DEF Dgca!Verifies, Dgca!Kept, Dgca!OfCarriers, Ours
  <2> QED BY <2>1, <2>2
<1> QED BY <1>1, <1>2, SourcePasses DEF CatalogOnFile

LEMMA DgcaSteps ==
  ASSUME Dgca!DgcaAssumption, DgcaInv, [Dgca!Next]_Dgca!vars
  PROVE  DgcaInv'
<1>1. ASSUME UNCHANGED Dgca!vars PROVE DgcaInv'
  <2>1. Dgca!packet' = Dgca!packet /\ Dgca!network' = Dgca!network
    BY <1>1 DEF Dgca!vars, Dgca!packet, Dgca!network
  <2> QED BY <1>1, <2>1
          DEF DgcaInv, Dgca!vars, Dgca!EvidenceAccounted, Dgca!RestsOnRows, Dgca!PassesOnlyCurrent
<1>2. ASSUME edition' \in DOMAIN Packets, UNCHANGED published, outcome' \notin {"written", "passed"},
             normalized' # Void => SourceOnFile("spicejet", normalized')
      PROVE  DgcaInv'
  BY <1>2 DEF DgcaInv, Dgca!EvidenceAccounted, Dgca!RestsOnRows, Dgca!PassesOnlyCurrent
<1>3. ASSUME Dgca!Normalize PROVE DgcaInv'
  <2>1. SourceOnFile("spicejet", Dgca!Filed(Dgca!SpiceJet(Dgca!packet.spicejet)))
    BY FiledOnFile DEF DgcaInv, Dgca!Records, Dgca!ReviewSources
  <2> QED BY <1>2, <1>3, <2>1 DEF Dgca!Normalize, DgcaInv
<1>4. CASE Dgca!Build
  <2>1. CASE Dgca!Builds
    BY <1>4, <2>1, WrittenRests DEF Dgca!Build, DgcaInv, Dgca!EvidenceAccounted, Dgca!PassesOnlyCurrent
  <2>2. CASE ~Dgca!Builds
    BY <1>2, <1>4, <2>2 DEF Dgca!Build, DgcaInv
  <2> QED BY <2>1, <2>2
<1>5. CASE Dgca!Verify
  <2>1. CASE Dgca!Verifies
    <3>1. /\ Dgca!packet' = Dgca!packet /\ Dgca!network' = Dgca!network /\ outcome' = "passed"
          /\ UNCHANGED <<edition, normalized, published>>
      BY <1>5, <2>1 DEF Dgca!Verify, Dgca!packet, Dgca!network
    <3>2. Dgca!PassesOnlyCurrent'
      BY <2>1, <3>1, PassesHold DEF Dgca!PassesOnlyCurrent, CatalogOnFile
    <3>3. Dgca!RestsOnRows'
      BY <3>1 DEF Dgca!RestsOnRows
    <3> QED BY <3>1, <3>2, <3>3 DEF DgcaInv, Dgca!EvidenceAccounted
  <2>2. CASE ~Dgca!Verifies
    BY <1>2, <1>5, <2>2 DEF Dgca!Verify, DgcaInv
  <2> QED BY <2>1, <2>2
<1>6. ASSUME NEW e \in DOMAIN Packets, NEW net, Dgca!Replace(e, net) PROVE DgcaInv'
  BY <1>2, <1>6 DEF Dgca!Replace, Dgca!DgcaAssumption, DgcaInv
<1>7. ASSUME NEW script, Dgca!Pin(script) PROVE DgcaInv'
  BY <1>2, <1>7 DEF Dgca!Pin, Dgca!DgcaAssumption, DgcaInv
<1> QED BY <1>1, <1>3, <1>4, <1>5, <1>6, <1>7 DEF Dgca!Next, DgcaInv

\* What build publishes rests on live rows of one source, and what verify lets pass has the
\* variants of the packets of today and says what they say, up to the fields it does not
\* compare, whatever was reviewed, prepared, pinned and built in between
\* (build-spicejet-schedule-references.ts, build- and verify-dgca-schedule-evidence.ts).
THEOREM ReviewsAreAccountedFor ==
  ASSUME Dgca!DgcaAssumption PROVE Dgca!Spec => []Dgca!EvidenceAccounted
<1>1. Dgca!Init => DgcaInv
  BY DEF Dgca!Init, DgcaInv, Dgca!EvidenceAccounted, Dgca!RestsOnRows, Dgca!PassesOnlyCurrent,
         Dgca!DgcaAssumption
<1>2. DgcaInv /\ [Dgca!Next]_Dgca!vars => DgcaInv'
  BY DgcaSteps
<1>3. DgcaInv => Dgca!EvidenceAccounted
  BY DEF DgcaInv
<1> QED BY <1>1, <1>2, <1>3, PTL DEF Dgca!Spec

-----------------------------------------------------------------------------
(***************************************************************************)
(* SiteData: the files of the site, of the script that derives a network   *)
(* to the page that reads them.                                            *)
(***************************************************************************)
\* The metadata of a network that was built of the inputs of its time.
MetaFor(n) ==
  [input |-> n, output |-> n, published |-> Site!Cardinality(Site!Published(n)),
   origins |-> [l \in {SiteLetter[r.from] : r \in n} |-> Site!OfLetter(n, l)]]

\* Some files, on disk or as they were published: a network, the metadata of one that was
\* built whole, and the others.
Described(stock) ==
  /\ {Site!Network, Site!Meta, Site!CarrierMeta, Site!Landing, Site!Manifest} \subseteq DOMAIN stock
  /\ stock[Site!Network] \in SiteEditions
  /\ stock[Site!Meta] = MetaFor(stock[Site!Meta].output)
  /\ Site!Unnumbered(stock[Site!Meta].output) = {}

\* The carriers' files are those of the network.
CarriersStand(stock) ==
  LET n == stock[Site!Network] IN
  /\ stock[Site!Meta].output = n
  /\ stock[Site!CarrierMeta] = Site!CarrierMetaOf(n)
  /\ {f \in DOMAIN stock : f.kind = "carrier"} = {Site!Carrier(c) : c \in Site!Carriers(n)}
  /\ \A c \in Site!Carriers(n) : stock[Site!Carrier(c)] = Site!OfCarrier(n, c)

\* The landing page is that of the network.
LandingStands(stock) ==
  LET n == stock[Site!Network] IN
  /\ stock[Site!Landing] = Site!LandingOf(n, stock[Site!Meta])
  /\ \A leg \in Showcase : Site!RouteFor(n, leg) # {}

\* What CI has verified: the manifest lists the files as they are, but for those of the
\* carriers, which may be gone, and which it lists as they will be written.
Relisted ==
  LET n == siteDisk[Site!Network]
      listed == siteDisk[Site!Manifest]
  IN /\ siteDisk[Site!Meta].output = n
     /\ siteDisk[Site!CarrierMeta] = Site!CarrierMetaOf(n)
     /\ LandingStands(siteDisk)
     /\ \A f \in DOMAIN listed :
          IF f.kind = "carrier"
          THEN \E c \in Site!Carriers(n) : f = Site!Carrier(c) /\ listed[f] = Site!OfCarrier(n, c)
          ELSE f \in DOMAIN siteDisk /\ siteDisk[f] = listed[f]

\* What may be left of a command, by what has been done.
Checked == {<<"carriers", "landing", "release">>, <<"landing", "release">>, <<"release">>}
Derived == {<<"publish">>, <<"release">>,
            <<"verify", "carriers", "landing", "release">>}
Carried == {<<"landing", "publish">>, <<"landing", "release">>,
            <<"landing", "verify", "carriers", "landing", "release">>} \cup Derived

ScriptsLeft == Site!Commands \cup Checked \cup Carried

\* The carriers' files while they are written: no other than those of the network, and
\* those that are not there yet are still to be written.
CarriersUnderWay ==
  LET n == siteJob.network IN
  /\ n = siteDisk[Site!Network] /\ siteDisk[Site!Meta].output = n
  /\ siteJob.left \in Seq(Site!Carriers(n))
  /\ \A f \in DOMAIN siteDisk : f.kind = "carrier" =>
       \E c \in Site!Carriers(n) : f = Site!Carrier(c) /\ siteDisk[f] = Site!OfCarrier(n, c)
  /\ \A c \in Site!Carriers(n) :
       Site!Carrier(c) \in DOMAIN siteDisk \/ \E i \in DOMAIN siteJob.left : siteJob.left[i] = c

JobInv ==
  siteJob # Void =>
    /\ siteJob = [scripts |-> siteJob.scripts, network |-> siteJob.network, left |-> siteJob.left]
    /\ siteJob.scripts \in ScriptsLeft
    /\ siteJob.scripts = <<"runtime">> /\ siteJob.network # Void =>
         siteJob.network = siteInputs /\ Site!Unnumbered(siteInputs) = {}
    /\ Head(siteJob.scripts) = "carriers" /\ siteJob.network # Void => CarriersUnderWay
    /\ siteJob.scripts \in Carried => CarriersStand(siteDisk)
    /\ siteJob.scripts \in Derived => LandingStands(siteDisk)
    /\ siteJob.scripts \in Checked => Relisted

PublicationInv ==
  /\ Described(siteFiles) /\ CarriersStand(siteFiles) /\ LandingStands(siteFiles)
  /\ Site!ReleasedAsListed

PageInv ==
  sitePage # Void =>
    /\ sitePage = [meta |-> sitePage.meta, crypto |-> sitePage.crypto,
                   carriers |-> sitePage.carriers, loaded |-> sitePage.loaded]
    /\ sitePage.meta = MetaFor(sitePage.meta.output)
    /\ sitePage.carriers # Void =>
         sitePage.carriers = [c \in Site!Carriers(sitePage.meta.output) |->
                                Site!OfCarrier(sitePage.meta.output, c)]
    /\ Site!ShownAsBuilt

SiteInv ==
  siteInputs \in SiteEditions /\ Described(siteDisk) /\ JobInv /\ PublicationInv /\ PageInv

-----------------------------------------------------------------------------
LEMMA KindsDiffer ==
  /\ Site!Network.kind = "network" /\ Site!Meta.kind = "meta" /\ Site!CarrierMeta.kind = "carrierMeta"
  /\ Site!Landing.kind = "landing" /\ Site!Manifest.kind = "manifest"
  /\ \A c : Site!Carrier(c).kind = "carrier" /\ Site!Carrier(c).name = c
  /\ \A l : Site!Origin(l).kind = "origin" /\ Site!Origin(l).name = l
BY DEF Site!File, Site!Network, Site!Meta, Site!CarrierMeta, Site!Landing, Site!Manifest,
       Site!Carrier, Site!Origin

LEMMA PutIs ==
  ASSUME NEW file, NEW content, siteDisk' = Site!Put(file, content)
  PROVE  /\ DOMAIN siteDisk' = DOMAIN siteDisk \cup {file}
         /\ siteDisk'[file] = content
         /\ \A f \in DOMAIN siteDisk : f # file => f \in DOMAIN siteDisk' /\ siteDisk'[f] = siteDisk[f]
BY DEF Site!Put

LEMMA WithoutIs ==
  ASSUME NEW stock, siteDisk' = Site!Without(stock)
  PROVE  /\ DOMAIN siteDisk' = DOMAIN siteDisk \ stock
         /\ \A f \in DOMAIN siteDisk \ stock : siteDisk'[f] = siteDisk[f]
BY DEF Site!Without, Site!Restrict

\* In their order, and all of them.
LEMMA InOrderIs ==
  ASSUME NEW R, NEW order \in Seq(R), NEW names \in SUBSET Site!Range(order)
  PROVE  /\ Site!InOrder(order, names) \in Seq(names)
         /\ \A c \in names : \E i \in DOMAIN Site!InOrder(order, names) :
              Site!InOrder(order, names)[i] = c
<1> DEFINE K == {i \in DOMAIN order : order[i] \in names}
           s == Site!InOrder(order, names)
<1>1. Len(order) \in Nat /\ K \in SUBSET (1..Len(order))  OBVIOUS
<1>2. \A S : Site!Cardinality(S) = Cardinality(S)  BY DEF Site!Cardinality, Cardinality
<1>3. s = [n \in 1..Cardinality(K) |-> order[Nth(K, n)]]
  <2> DEFINE kth(n) == CHOOSE i \in K : Site!Cardinality({j \in K : j <= i}) = n
  <2>1. \A n : Nth(K, n) = kth(n)  BY <1>2 DEF Nth, Before
  <2>2. s = [n \in 1..Site!Cardinality(K) |-> order[kth(n)]]  BY DEF Site!InOrder
  <2> HIDE DEF K, s, kth
  <2> QED  BY <1>2, <2>1, <2>2
<1>4. \A i \in K : order[i] \in names  OBVIOUS
<1>5. \A c \in names : \E i \in K : order[i] = c  BY DEF Site!Range
<1> HIDE DEF K, s
<1>6. Cardinality(K) \in Nat  BY <1>1, BeforeCounts
<1>7. s \in [1..Cardinality(K) -> names]  BY <1>1, <1>3, <1>4, NthTaken
<1>8. s \in Seq(names)  BY <1>6, <1>7, FunctionIsSeq
<1>9. ASSUME NEW c \in names PROVE \E n \in DOMAIN s : s[n] = c
  <2>1. PICK i \in K : order[i] = c  BY <1>5
  <2>2. /\ Cardinality(Before(K, i)) \in 1..Cardinality(K)
        /\ Nth(K, Cardinality(Before(K, i))) = i
    BY <1>1, NthOfRank
  <2> QED  BY <1>3, <2>1, <2>2
<1> QED  BY <1>8, <1>9 DEF s

\* How a command goes on from each of its scripts.
LEMMA ScriptsAdvance ==
  ASSUME NEW s \in ScriptsLeft
  PROVE  /\ Head(s) \in {"runtime", "manifest"} =>
              Len(s) = 1 /\ s \notin Carried /\ s \notin Derived /\ s \notin Checked
         /\ Head(s) = "runtime" => s = <<"runtime">>
         /\ Head(s) = "carriers" =>
              /\ Len(s) # 1 /\ Tail(s) \in ScriptsLeft
              /\ s \notin Carried /\ s \notin Derived /\ Tail(s) \notin Derived
              /\ Head(Tail(s)) = "landing"
              /\ Tail(s) \in Checked => s \in Checked
         /\ Head(s) = "landing" /\ Len(s) # 1 =>
              /\ Tail(s) \in Derived /\ s \in Carried /\ Tail(s) \in Carried
              /\ Head(Tail(s)) \in {"verify", "publish", "release"}
              /\ Tail(s) \in Checked => s \in Checked
         /\ Head(s) = "verify" =>
              /\ Len(s) # 1 /\ Tail(s) \in Checked /\ s \in Derived
              /\ Tail(s) \notin Derived /\ Tail(s) \notin Carried /\ Head(Tail(s)) = "carriers"
         /\ Head(s) \in {"publish", "release"} => Len(s) = 1 /\ s \in Derived
         /\ Head(s) = "release" => s \in Checked
         /\ s \in Derived => s \in Carried
         /\ s \in Site!Commands => s \notin Carried /\ s \notin Derived /\ s \notin Checked
<1>1. CASE s \in {<<"runtime">>, <<"manifest">>, <<"landing">>}
  BY <1>1 DEF Checked, Derived, Carried, ScriptsLeft, Site!Commands
<1>2. CASE s = <<"carriers", "landing">>
  BY <1>2 DEF Checked, Derived, Carried, ScriptsLeft, Site!Commands
<1>3. CASE s = <<"carriers", "landing", "publish">>
  BY <1>3 DEF Checked, Derived, Carried, ScriptsLeft, Site!Commands
<1>4. CASE s = <<"carriers", "landing", "verify", "carriers", "landing", "release">>
  BY <1>4 DEF Checked, Derived, Carried, ScriptsLeft, Site!Commands
<1>5. CASE s \in {<<"publish">>, <<"release">>}
  BY <1>5 DEF Checked, Derived, Carried, ScriptsLeft, Site!Commands
<1>6. CASE s = <<"landing", "publish">>
  BY <1>6 DEF Checked, Derived, Carried, ScriptsLeft, Site!Commands
<1>7. CASE s = <<"landing", "release">>
  BY <1>7 DEF Checked, Derived, Carried, ScriptsLeft, Site!Commands
<1>8. CASE s = <<"landing", "verify", "carriers", "landing", "release">>
  BY <1>8 DEF Checked, Derived, Carried, ScriptsLeft, Site!Commands
<1>9. CASE s = <<"verify", "carriers", "landing", "release">>
  BY <1>9 DEF Checked, Derived, Carried, ScriptsLeft, Site!Commands
<1>10. CASE s = <<"carriers", "landing", "release">>
  BY <1>10 DEF Checked, Derived, Carried, ScriptsLeft, Site!Commands
<1> QED
  BY <1>1, <1>2, <1>3, <1>4, <1>5, <1>6, <1>7, <1>8, <1>9, <1>10
  DEF Checked, Derived, Carried, ScriptsLeft, Site!Commands

\* Everything begins as it was built of the inputs.
LEMMA SiteStart == ASSUME Site!SiteAssumption, Site!Init PROVE SiteInv
<1> DEFINE n == siteInputs
           W == Site!Whole(n)
<1>1. /\ n \in SiteEditions /\ Site!Unnumbered(n) = {}
      /\ \A leg \in Showcase : Site!RouteFor(n, leg) # {}
      /\ siteDisk = [f \in DOMAIN W \cup {Site!Manifest} |-> IF f = Site!Manifest THEN W ELSE W[f]]
      /\ siteFiles = siteDisk /\ siteJob = Void /\ siteReleased = FALSE /\ sitePage = Void
  BY DEF Site!Init
<1>2. DOMAIN W = {Site!Network, Site!Meta, Site!CarrierMeta, Site!Landing}
                   \cup {Site!Origin(SiteLetter[r.from]) : r \in n}
                   \cup {Site!Carrier(c) : c \in Site!Carriers(n)}
  BY DEF Site!Whole
<1>3. /\ W[Site!Network] = n /\ W[Site!Meta] = MetaFor(n)
      /\ W[Site!CarrierMeta] = Site!CarrierMetaOf(n)
      /\ W[Site!Landing] = Site!LandingOf(n, MetaFor(n))
  <2>1. Site!MetaOf(n) = MetaFor(n)  BY DEF Site!MetaOf, MetaFor
  <2> QED  BY <2>1, KindsDiffer DEF Site!Whole
<1>4. \A c \in Site!Carriers(n) : W[Site!Carrier(c)] = Site!OfCarrier(n, c)
  BY KindsDiffer DEF Site!Whole
<1> HIDE DEF W
<1>5. \A f \in DOMAIN W : f \in DOMAIN siteDisk /\ siteDisk[f] = W[f]
  <2>1. Site!Manifest \notin DOMAIN W  BY <1>2, KindsDiffer
  <2> QED  BY <1>1, <2>1
<1>6. MetaFor(n).output = n  BY DEF MetaFor
<1>7. Described(siteDisk)
  BY <1>1, <1>2, <1>3, <1>5, <1>6 DEF Described
<1>8. CarriersStand(siteDisk)
  <2>1. {f \in DOMAIN siteDisk : f.kind = "carrier"} = {Site!Carrier(c) : c \in Site!Carriers(n)}
    BY <1>1, <1>2, KindsDiffer
  <2>2. siteDisk[Site!Network] = n /\ siteDisk[Site!Meta].output = n
        /\ siteDisk[Site!CarrierMeta] = Site!CarrierMetaOf(n)
    BY <1>2, <1>3, <1>5, <1>6
  <2>3. \A c \in Site!Carriers(n) : siteDisk[Site!Carrier(c)] = Site!OfCarrier(n, c)
    BY <1>2, <1>4, <1>5
  <2> QED  BY <2>1, <2>2, <2>3 DEF CarriersStand
<1>9. LandingStands(siteDisk)
  BY <1>1, <1>2, <1>3, <1>5 DEF LandingStands
<1> QED
  BY <1>1, <1>7, <1>8, <1>9 DEF SiteInv, JobInv, PublicationInv, PageInv, Site!ReleasedAsListed

-----------------------------------------------------------------------------
\* What stays when files of carriers come and go.
OthersStay ==
  \A f \in DOMAIN siteDisk : f.kind # "carrier" => f \in DOMAIN siteDisk' /\ siteDisk'[f] = siteDisk[f]

LEMMA DescribedStays ==
  ASSUME Described(siteDisk), OthersStay
  PROVE  Described(siteDisk')
  BY KindsDiffer DEF Described, OthersStay

LEMMA LandingStays ==
  ASSUME Described(siteDisk), LandingStands(siteDisk), OthersStay
  PROVE  LandingStands(siteDisk')
<1>1. /\ siteDisk'[Site!Network] = siteDisk[Site!Network] /\ siteDisk'[Site!Meta] = siteDisk[Site!Meta]
      /\ siteDisk'[Site!Landing] = siteDisk[Site!Landing]
  BY KindsDiffer DEF Described, OthersStay
<1> QED  BY <1>1 DEF LandingStands

LEMMA RelistedStays ==
  ASSUME Described(siteDisk), Relisted, OthersStay
  PROVE  Relisted'
<1>1. /\ siteDisk'[Site!Network] = siteDisk[Site!Network] /\ siteDisk'[Site!Meta] = siteDisk[Site!Meta]
      /\ siteDisk'[Site!CarrierMeta] = siteDisk[Site!CarrierMeta]
      /\ siteDisk'[Site!Manifest] = siteDisk[Site!Manifest]
  BY KindsDiffer DEF Described, OthersStay
<1>2. LandingStands(siteDisk')  BY LandingStays DEF Relisted
<1>3. \A f \in DOMAIN siteDisk[Site!Manifest] : f.kind # "carrier" =>
        f \in DOMAIN siteDisk' /\ siteDisk'[f] = siteDisk[Site!Manifest][f]
  BY DEF Relisted, OthersStay
<1> QED  BY <1>1, <1>2, <1>3 DEF Relisted

\* Nothing that was published changes while files are written.
LEMMA SiteStays ==
  ASSUME SiteInv, UNCHANGED <<siteInputs, siteFiles, siteReleased, sitePage>>
  PROVE  siteInputs' \in SiteEditions /\ PublicationInv' /\ PageInv'
<1>1. PublicationInv'  BY DEF SiteInv, PublicationInv, Site!ReleasedAsListed
<1>2. PageInv'  BY DEF SiteInv, PageInv, Site!ShownAsBuilt
<1> QED  BY <1>1, <1>2 DEF SiteInv

\* A command begins with nothing done.
LEMMA RunKeeps == ASSUME SiteInv, NEW command \in Site!Commands, Site!Run(command) PROVE SiteInv'
<1>1. /\ siteJob' = [scripts |-> command, network |-> Void, left |-> <<>>]
      /\ UNCHANGED <<siteInputs, siteDisk, siteFiles, siteReleased, sitePage>>
  BY DEF Site!Run
<1>2. command \in ScriptsLeft  BY DEF ScriptsLeft
<1>3. command \notin Carried /\ command \notin Derived /\ command \notin Checked
  BY <1>2, ScriptsAdvance
<1>4. JobInv'  BY <1>1, <1>2, <1>3 DEF JobInv
<1> QED  BY <1>1, <1>4, SiteStays DEF SiteInv

\* The script that builds the network, which no other follows.
LEMMA BuildRuntimeKeeps == ASSUME SiteInv, Site!BuildRuntime PROVE SiteInv'
<1>1. /\ siteJob # Void /\ Head(siteJob.scripts) = "runtime"
      /\ siteDisk' = Site!Put(Site!Network, siteInputs)
      /\ siteJob' = IF Site!Unnumbered(siteInputs) # {} THEN Void
                    ELSE [siteJob EXCEPT !.network = siteInputs, !.left = LetterOrder]
      /\ UNCHANGED <<siteInputs, siteFiles, siteReleased, sitePage>>
  BY DEF Site!BuildRuntime, Site!Running
<1>2. Described(siteDisk')
  <2>1. siteDisk' = Site!Put(Site!Network, siteInputs)  BY <1>1
  <2>2. /\ siteDisk'[Site!Network] = siteInputs
        /\ \A f \in DOMAIN siteDisk : f # Site!Network => f \in DOMAIN siteDisk' /\ siteDisk'[f] = siteDisk[f]
        /\ DOMAIN siteDisk \subseteq DOMAIN siteDisk'
    BY <2>1, PutIs
  <2> QED  BY <2>2, KindsDiffer DEF SiteInv, Described
<1>3. JobInv'
  <2>1. /\ siteJob = [scripts |-> siteJob.scripts, network |-> siteJob.network, left |-> siteJob.left]
        /\ siteJob.scripts \in ScriptsLeft
    BY <1>1 DEF SiteInv, JobInv
  <2>2. /\ siteJob.scripts \notin Carried /\ siteJob.scripts \notin Derived
        /\ siteJob.scripts \notin Checked
    BY <1>1, <2>1, ScriptsAdvance
  <2>3. CASE Site!Unnumbered(siteInputs) # {}  BY <1>1, <2>3 DEF JobInv
  <2>4. CASE Site!Unnumbered(siteInputs) = {}
    <3>1. siteJob' = [scripts |-> siteJob.scripts, network |-> siteInputs, left |-> LetterOrder]
      BY <1>1, <2>1, <2>4
    <3> QED  BY <1>1, <2>1, <2>2, <2>4, <3>1 DEF JobInv
  <2> QED  BY <2>3, <2>4
<1> QED  BY <1>1, <1>2, <1>3, SiteStays DEF SiteInv

LEMMA WriteOriginKeeps == ASSUME SiteInv, Site!WriteOrigin PROVE SiteInv'
<1>1. PICK letter, routes :
        /\ siteJob # Void /\ Head(siteJob.scripts) = "runtime" /\ siteJob.network # Void
        /\ \/ siteDisk' = Site!Without({Site!Origin(letter)})
           \/ siteDisk' = Site!Put(Site!Origin(letter), routes)
        /\ siteJob' = [siteJob EXCEPT !.left = Tail(siteJob.left)]
        /\ UNCHANGED <<siteInputs, siteFiles, siteReleased, sitePage>>
  BY DEF Site!WriteOrigin, Site!Running
<1>2. \A f \in DOMAIN siteDisk : f.kind # "origin" => f \in DOMAIN siteDisk' /\ siteDisk'[f] = siteDisk[f]
  <2> DEFINE file == Site!Origin(letter)
  <2>3. file.kind = "origin"  BY KindsDiffer
  <2> HIDE DEF file
  <2>1. CASE siteDisk' = Site!Without({file})
    <3>1. /\ DOMAIN siteDisk' = DOMAIN siteDisk \ {file}
          /\ \A f \in DOMAIN siteDisk \ {file} : siteDisk'[f] = siteDisk[f]
      BY <2>1, WithoutIs
    <3> QED  BY <2>3, <3>1
  <2>2. CASE siteDisk' = Site!Put(file, routes)
    <3>1. \A f \in DOMAIN siteDisk : f # file => f \in DOMAIN siteDisk' /\ siteDisk'[f] = siteDisk[f]
      BY <2>2, PutIs
    <3> QED  BY <2>3, <3>1
  <2> QED  BY <1>1, <2>1, <2>2 DEF file
<1>3. Described(siteDisk')  BY <1>2, KindsDiffer DEF SiteInv, Described
<1>4. JobInv'
  <2>1. /\ siteJob = [scripts |-> siteJob.scripts, network |-> siteJob.network, left |-> siteJob.left]
        /\ siteJob.scripts \in ScriptsLeft
    BY <1>1 DEF SiteInv, JobInv
  <2>2. /\ siteJob.scripts = <<"runtime">> /\ siteJob.scripts \notin Carried
        /\ siteJob.scripts \notin Derived /\ siteJob.scripts \notin Checked
    BY <1>1, <2>1, ScriptsAdvance
  <2>3. siteJob' = [scripts |-> siteJob.scripts, network |-> siteJob.network, left |-> Tail(siteJob.left)]
    BY <1>1, <2>1
  <2>4. siteJob.network = siteInputs /\ Site!Unnumbered(siteInputs) = {}
    BY <1>1, <2>2 DEF SiteInv, JobInv
  <2> QED  BY <1>1, <2>1, <2>2, <2>3, <2>4 DEF JobInv
<1> QED  BY <1>1, <1>3, <1>4, SiteStays DEF SiteInv

LEMMA WriteMetaKeeps == ASSUME SiteInv, Site!WriteMeta PROVE SiteInv'
<1>1. /\ siteJob # Void /\ Head(siteJob.scripts) = "runtime" /\ siteJob.network # Void
      /\ siteDisk' = Site!Put(Site!Meta, Site!MetaOf(siteJob.network)) /\ siteJob' = Site!Next1
      /\ UNCHANGED <<siteInputs, siteFiles, siteReleased, sitePage>>
  BY DEF Site!WriteMeta, Site!Running
<1>2. siteJob.scripts = <<"runtime">>  BY <1>1, ScriptsAdvance DEF SiteInv, JobInv
<1>3. siteJob.network = siteInputs /\ Site!Unnumbered(siteInputs) = {}
  BY <1>1, <1>2 DEF SiteInv, JobInv
<1>4. Site!MetaOf(siteJob.network) = MetaFor(siteInputs)  BY <1>3 DEF Site!MetaOf, MetaFor
<1>5. MetaFor(siteInputs).output = siteInputs  BY DEF MetaFor
<1>6. Described(siteDisk')
  <2>1. siteDisk' = Site!Put(Site!Meta, MetaFor(siteInputs))  BY <1>1, <1>4
  <2>2. /\ siteDisk'[Site!Meta] = MetaFor(siteInputs)
        /\ \A f \in DOMAIN siteDisk : f # Site!Meta => f \in DOMAIN siteDisk' /\ siteDisk'[f] = siteDisk[f]
        /\ DOMAIN siteDisk \subseteq DOMAIN siteDisk'
    BY <2>1, PutIs
  <2> QED  BY <1>3, <1>5, <2>2, KindsDiffer DEF SiteInv, Described
<1>7. JobInv'  BY <1>1, <1>2 DEF Site!Next1, JobInv
<1> QED  BY <1>1, <1>6, <1>7, SiteStays DEF SiteInv

\* The files of the carriers: all are taken away, and those of the network written.
LEMMA BeginCarriersKeeps ==
  ASSUME Site!SiteAssumption, SiteInv, Site!BeginCarriers PROVE SiteInv'
<1> DEFINE n == siteDisk[Site!Network]
           order == Site!InOrder(CarrierOrder, Site!Carriers(n))
<1>1. /\ siteJob # Void /\ Head(siteJob.scripts) = "carriers"
      /\ UNCHANGED <<siteInputs, siteFiles, siteReleased, sitePage>>
  BY DEF Site!BeginCarriers, Site!Running
<1>2. CASE ~Site!MatchesMeta
  <2>1. siteJob' = Void /\ UNCHANGED siteDisk  BY <1>2 DEF Site!BeginCarriers, Site!Fail
  <2>2. JobInv'  BY <2>1 DEF JobInv
  <2> QED  BY <1>1, <2>1, <2>2, SiteStays DEF SiteInv
<1>3. CASE Site!MatchesMeta
  <2>1. /\ siteDisk' = Site!Without({f \in DOMAIN siteDisk : f.kind = "carrier"})
        /\ siteJob' = [siteJob EXCEPT !.network = n, !.left = order]
        /\ siteDisk[Site!Meta].output = n
    BY <1>3 DEF Site!BeginCarriers, Site!MatchesMeta
  <2>2. OthersStay /\ \A f \in DOMAIN siteDisk' : f.kind # "carrier"
    <3> DEFINE gone == {f \in DOMAIN siteDisk : f.kind = "carrier"}
    <3>1. /\ DOMAIN siteDisk' = DOMAIN siteDisk \ gone
          /\ \A f \in DOMAIN siteDisk \ gone : siteDisk'[f] = siteDisk[f]
      BY <2>1, WithoutIs
    <3> QED  BY <3>1 DEF OthersStay
  <2>3. Described(siteDisk')  BY <2>2, DescribedStays DEF SiteInv
  <2>4. siteDisk'[Site!Network] = n /\ siteDisk'[Site!Meta].output = n
    BY <2>1, <2>2, KindsDiffer DEF OthersStay, SiteInv, Described
  <2>5. /\ siteJob = [scripts |-> siteJob.scripts, network |-> siteJob.network, left |-> siteJob.left]
        /\ siteJob.scripts \in ScriptsLeft
    BY <1>1 DEF SiteInv, JobInv
  <2>6. siteJob' = [scripts |-> siteJob.scripts, network |-> n, left |-> order]
    BY <2>1, <2>5
  <2>7. siteJob.scripts \notin Carried /\ siteJob.scripts \notin Derived
    BY <1>1, <2>5, ScriptsAdvance
  <2>8. /\ order \in Seq(Site!Carriers(n))
        /\ \A c \in Site!Carriers(n) : \E i \in DOMAIN order : order[i] = c
    <3>1. /\ CarrierOrder \in Seq(Site!Range(CarrierOrder))
          /\ Site!Carriers(n) \in SUBSET Site!Range(CarrierOrder)
      BY DEF Site!SiteAssumption, SiteInv, Described
    <3> HIDE DEF n
    <3> QED  BY <3>1, InOrderIs
  <2> HIDE DEF order, n
  <2>9. CarriersUnderWay'  BY <2>2, <2>4, <2>6, <2>8 DEF CarriersUnderWay
  <2>10. siteJob.scripts \in Checked => Relisted'
    BY <1>1, <2>2, RelistedStays DEF SiteInv, JobInv
  <2>11. siteJob.scripts # <<"runtime">>  BY <1>1
  <2>12. JobInv'  BY <2>5, <2>6, <2>7, <2>9, <2>10, <2>11 DEF JobInv
  <2> QED  BY <1>1, <2>3, <2>12, SiteStays DEF SiteInv
<1> QED  BY <1>2, <1>3

LEMMA WriteCarrierKeeps == ASSUME SiteInv, Site!WriteCarrier PROVE SiteInv'
<1> DEFINE n == siteJob.network
           c == Head(siteJob.left)
           file == Site!Carrier(c)
<1>1. /\ siteJob # Void /\ Head(siteJob.scripts) = "carriers" /\ n # Void /\ siteJob.left # <<>>
      /\ siteDisk' = Site!Put(file, Site!OfCarrier(n, c))
      /\ siteJob' = [siteJob EXCEPT !.left = Tail(siteJob.left)]
      /\ UNCHANGED <<siteInputs, siteFiles, siteReleased, sitePage>>
  BY DEF Site!WriteCarrier, Site!Running
<1>2. CarriersUnderWay  BY <1>1 DEF SiteInv, JobInv
<1>3. siteJob.left \in Seq(Site!Carriers(n)) /\ c \in Site!Carriers(n)  BY <1>1, <1>2 DEF CarriersUnderWay
<1>4. file.kind = "carrier"  BY KindsDiffer
<1>5. /\ DOMAIN siteDisk' = DOMAIN siteDisk \cup {file}
      /\ siteDisk'[file] = Site!OfCarrier(n, c)
      /\ \A f \in DOMAIN siteDisk : f # file => f \in DOMAIN siteDisk' /\ siteDisk'[f] = siteDisk[f]
  <2> DEFINE content == Site!OfCarrier(n, c)
  <2>1. siteDisk' = Site!Put(file, content)  BY <1>1
  <2> HIDE DEF file, content
  <2>2. /\ DOMAIN siteDisk' = DOMAIN siteDisk \cup {file}
        /\ siteDisk'[file] = content
        /\ \A f \in DOMAIN siteDisk : f # file => f \in DOMAIN siteDisk' /\ siteDisk'[f] = siteDisk[f]
    BY <2>1, PutIs
  <2> QED  BY <2>2 DEF content
<1>6. /\ siteJob = [scripts |-> siteJob.scripts, network |-> n, left |-> siteJob.left]
      /\ siteJob.scripts \in ScriptsLeft
  BY <1>1 DEF SiteInv, JobInv
<1>7. siteJob' = [scripts |-> siteJob.scripts, network |-> n, left |-> Tail(siteJob.left)]
  BY <1>1, <1>6
<1>8. siteJob.scripts \notin Carried /\ siteJob.scripts \notin Derived
  BY <1>1, <1>6, ScriptsAdvance
<1>9. OthersStay  BY <1>4, <1>5 DEF OthersStay
<1>10. Described(siteDisk')  BY <1>9, DescribedStays DEF SiteInv
<1>11. siteDisk'[Site!Network] = siteDisk[Site!Network] /\ siteDisk'[Site!Meta] = siteDisk[Site!Meta]
  BY <1>9, KindsDiffer DEF OthersStay, SiteInv, Described
<1>12. CarriersUnderWay'
  <2>1. \A f \in DOMAIN siteDisk' : f.kind = "carrier" =>
          \E d \in Site!Carriers(n) : f = Site!Carrier(d) /\ siteDisk'[f] = Site!OfCarrier(n, d)
    <3> SUFFICES ASSUME NEW f \in DOMAIN siteDisk', f.kind = "carrier"
                 PROVE  \E d \in Site!Carriers(n) :
                          f = Site!Carrier(d) /\ siteDisk'[f] = Site!OfCarrier(n, d)
      OBVIOUS
    <3>1. CASE f = file  BY <1>3, <1>5, <3>1
    <3>2. CASE f # file
      <4>1. f \in DOMAIN siteDisk /\ siteDisk'[f] = siteDisk[f]  BY <1>5, <3>2
      <4> QED  BY <1>2, <4>1 DEF CarriersUnderWay
    <3> QED  BY <3>1, <3>2
  <2>2. \A d \in Site!Carriers(n) :
          Site!Carrier(d) \in DOMAIN siteDisk' \/ \E i \in DOMAIN Tail(siteJob.left) : Tail(siteJob.left)[i] = d
    <3> SUFFICES ASSUME NEW d \in Site!Carriers(n), Site!Carrier(d) \notin DOMAIN siteDisk'
                 PROVE  \E i \in DOMAIN Tail(siteJob.left) : Tail(siteJob.left)[i] = d
      OBVIOUS
    <3>1. Site!Carrier(d) \notin DOMAIN siteDisk /\ d # c  BY <1>5
    <3>2. PICK i \in DOMAIN siteJob.left : siteJob.left[i] = d  BY <1>2, <3>1 DEF CarriersUnderWay
    <3> DEFINE s == siteJob.left
    <3>3. s \in Seq(Site!Carriers(n)) /\ i \in 1..Len(s) /\ s[i] = d /\ d # s[1]
      BY <1>1, <1>3, <3>1, <3>2
    <3> HIDE DEF s
    <3>4. i - 1 \in DOMAIN Tail(s) /\ Tail(s)[i - 1] = d  BY <3>3
    <3> QED  BY <3>4 DEF s
  <2>3. Tail(siteJob.left) \in Seq(Site!Carriers(n))
    <3> DEFINE s == siteJob.left
               R == Site!Carriers(n)
    <3>1. s \in Seq(R) /\ s # <<>>  BY <1>1, <1>3
    <3> HIDE DEF s, R
    <3>2. Tail(s) \in Seq(R)  BY <3>1
    <3> QED  BY <3>2 DEF s, R
  <2>4. n = siteDisk'[Site!Network] /\ siteDisk'[Site!Meta].output = n
    BY <1>2, <1>11 DEF CarriersUnderWay
  <2>5. siteJob'.network = n /\ siteJob'.left = Tail(siteJob.left)  BY <1>7
  <2> HIDE DEF n
  <2> QED  BY <2>1, <2>2, <2>3, <2>4, <2>5 DEF CarriersUnderWay
<1>13. siteJob.scripts \in Checked => Relisted'
  BY <1>1, <1>9, RelistedStays DEF SiteInv, JobInv
<1>14. siteJob.scripts # <<"runtime">>  BY <1>1
<1> HIDE DEF n
<1>15. JobInv'  BY <1>6, <1>7, <1>8, <1>12, <1>13, <1>14 DEF JobInv
<1> QED  BY <1>1, <1>10, <1>15, SiteStays DEF SiteInv

LEMMA WriteCarrierMetaKeeps == ASSUME SiteInv, Site!WriteCarrierMeta PROVE SiteInv'
<1> DEFINE n == siteJob.network
           s == siteJob.scripts
<1>1. /\ siteJob # Void /\ Head(s) = "carriers" /\ n # Void /\ siteJob.left = <<>>
      /\ siteDisk' = Site!Put(Site!CarrierMeta, Site!CarrierMetaOf(n)) /\ siteJob' = Site!Next1
      /\ UNCHANGED <<siteInputs, siteFiles, siteReleased, sitePage>>
  BY DEF Site!WriteCarrierMeta, Site!Running
<1>2. CarriersUnderWay /\ s \in ScriptsLeft  BY <1>1 DEF SiteInv, JobInv
<1>3. /\ DOMAIN siteDisk' = DOMAIN siteDisk \cup {Site!CarrierMeta}
      /\ siteDisk'[Site!CarrierMeta] = Site!CarrierMetaOf(n)
      /\ \A f \in DOMAIN siteDisk :
           f # Site!CarrierMeta => f \in DOMAIN siteDisk' /\ siteDisk'[f] = siteDisk[f]
  <2> DEFINE content == Site!CarrierMetaOf(n)
  <2>1. siteDisk' = Site!Put(Site!CarrierMeta, content)  BY <1>1
  <2> HIDE DEF content
  <2> QED  BY <2>1, PutIs DEF content
<1>4. Described(siteDisk')  BY <1>3, KindsDiffer DEF SiteInv, Described
<1>5. /\ siteDisk'[Site!Network] = n /\ siteDisk'[Site!Meta] = siteDisk[Site!Meta]
      /\ siteDisk[Site!Network] = n /\ siteDisk[Site!Meta].output = n
  BY <1>2, <1>3, KindsDiffer DEF CarriersUnderWay, SiteInv, Described
<1>6. \A f \in DOMAIN siteDisk' : f.kind = "carrier" => f \in DOMAIN siteDisk /\ siteDisk'[f] = siteDisk[f]
  BY <1>3, KindsDiffer
<1>7. \A f \in DOMAIN siteDisk : f.kind = "carrier" => f \in DOMAIN siteDisk' /\ siteDisk'[f] = siteDisk[f]
  BY <1>3, KindsDiffer
<1>8. CarriersStand(siteDisk')
  <2>1. \A f \in DOMAIN siteDisk : f.kind = "carrier" =>
          \E c \in Site!Carriers(n) : f = Site!Carrier(c) /\ siteDisk[f] = Site!OfCarrier(n, c)
    BY <1>2 DEF CarriersUnderWay
  <2>2. \A c \in Site!Carriers(n) : Site!Carrier(c) \in DOMAIN siteDisk
    BY <1>1, <1>2 DEF CarriersUnderWay
  <2>3. \A c \in Site!Carriers(n) : siteDisk[Site!Carrier(c)] = Site!OfCarrier(n, c)
    <3> SUFFICES ASSUME NEW c \in Site!Carriers(n) PROVE siteDisk[Site!Carrier(c)] = Site!OfCarrier(n, c)
      OBVIOUS
    <3>1. PICK d \in Site!Carriers(n) : /\ Site!Carrier(c) = Site!Carrier(d)
                                        /\ siteDisk[Site!Carrier(c)] = Site!OfCarrier(n, d)
      BY <2>1, <2>2, KindsDiffer
    <3>2. c = d  BY <3>1, KindsDiffer
    <3> QED  BY <3>1, <3>2
  <2>4. {f \in DOMAIN siteDisk' : f.kind = "carrier"} = {Site!Carrier(c) : c \in Site!Carriers(n)}
    <3>1. \A f \in DOMAIN siteDisk' : f.kind = "carrier" => \E c \in Site!Carriers(n) : f = Site!Carrier(c)
      BY <1>6, <2>1
    <3>2. \A c \in Site!Carriers(n) : Site!Carrier(c) \in DOMAIN siteDisk' /\ Site!Carrier(c).kind = "carrier"
      BY <1>7, <2>2, KindsDiffer
    <3> HIDE DEF n
    <3> QED  BY <3>1, <3>2
  <2>5. \A c \in Site!Carriers(n) : siteDisk'[Site!Carrier(c)] = Site!OfCarrier(n, c)
    BY <1>7, <2>2, <2>3, KindsDiffer
  <2> HIDE DEF n
  <2> QED  BY <1>3, <1>5, <2>4, <2>5 DEF CarriersStand
<1>9. s \in Checked => Relisted'
  <2> SUFFICES ASSUME s \in Checked PROVE Relisted'  OBVIOUS
  <2>1. Relisted  BY <1>1 DEF SiteInv, JobInv
  <2>2. siteDisk[Site!CarrierMeta] = Site!CarrierMetaOf(n)  BY <1>5, <2>1 DEF Relisted
  <2>3. OthersStay  BY <1>3, <2>2 DEF OthersStay
  <2> QED  BY <2>1, <2>3, RelistedStays DEF SiteInv
<1>10. JobInv'
  <2>1. siteJob' = [scripts |-> Tail(s), network |-> Void, left |-> <<>>]
    BY <1>1, <1>2, ScriptsAdvance DEF Site!Next1
  <2>2. /\ Tail(s) \in ScriptsLeft /\ Tail(s) \notin Derived /\ Head(Tail(s)) = "landing"
        /\ Tail(s) \in Checked => s \in Checked
    BY <1>1, <1>2, ScriptsAdvance
  <2> HIDE DEF s, n
  <2>3. /\ siteJob'.scripts = Tail(s) /\ siteJob'.network = Void /\ siteJob'.left = <<>>
    BY <2>1
  <2> QED  BY <1>8, <1>9, <2>1, <2>2, <2>3 DEF JobInv
<1> QED  BY <1>1, <1>4, <1>10, SiteStays DEF SiteInv

LEMMA BuildLandingKeeps == ASSUME SiteInv, Site!BuildLanding PROVE SiteInv'
<1> DEFINE n == siteDisk[Site!Network]
           content == Site!LandingOf(n, siteDisk[Site!Meta])
           s == siteJob.scripts
<1>1. /\ siteJob # Void /\ Head(s) = "landing"
      /\ UNCHANGED <<siteInputs, siteFiles, siteReleased, sitePage>>
      /\ \/ siteJob' = Void /\ UNCHANGED siteDisk
         \/ /\ \A leg \in Showcase : Site!RouteFor(n, leg) # {}
            /\ siteDisk' = Site!Put(Site!Landing, content) /\ siteJob' = Site!Next1
  BY DEF Site!BuildLanding, Site!Running, Site!Fail
<1>2. CASE siteJob' = Void /\ UNCHANGED siteDisk
  <2>1. JobInv'  BY <1>2 DEF JobInv
  <2> QED  BY <1>1, <1>2, <2>1, SiteStays DEF SiteInv
<1>3. CASE /\ \A leg \in Showcase : Site!RouteFor(n, leg) # {}
           /\ siteDisk' = Site!Put(Site!Landing, content) /\ siteJob' = Site!Next1
  <2>1. /\ DOMAIN siteDisk' = DOMAIN siteDisk \cup {Site!Landing}
        /\ siteDisk'[Site!Landing] = content
        /\ \A f \in DOMAIN siteDisk :
             f # Site!Landing => f \in DOMAIN siteDisk' /\ siteDisk'[f] = siteDisk[f]
    <3>1. siteDisk' = Site!Put(Site!Landing, content)  BY <1>3
    <3> HIDE DEF content
    <3> QED  BY <3>1, PutIs
  <2>2. Described(siteDisk')  BY <2>1, KindsDiffer DEF SiteInv, Described
  <2>3. /\ siteDisk'[Site!Network] = n /\ siteDisk'[Site!Meta] = siteDisk[Site!Meta]
        /\ siteDisk'[Site!CarrierMeta] = siteDisk[Site!CarrierMeta]
    BY <2>1, KindsDiffer DEF SiteInv, Described
  <2>4. LandingStands(siteDisk')  BY <1>3, <2>1, <2>3 DEF LandingStands
  <2>5. s \in ScriptsLeft  BY <1>1 DEF SiteInv, JobInv
  <2>6. CASE Len(s) = 1
    <3>1. JobInv'  BY <1>3, <2>6 DEF Site!Next1, JobInv
    <3> QED  BY <1>1, <2>2, <3>1, SiteStays DEF SiteInv
  <2>7. CASE Len(s) # 1
    <3>1. /\ Tail(s) \in Derived /\ s \in Carried /\ Tail(s) \in Carried
          /\ Head(Tail(s)) \in {"verify", "publish", "release"}
          /\ Tail(s) \in Checked => s \in Checked
      BY <1>1, <2>5, <2>7, ScriptsAdvance
    <3>2. CarriersStand(siteDisk)  BY <1>1, <3>1 DEF SiteInv, JobInv
    <3>3. CarriersStand(siteDisk')
      <4>1. {f \in DOMAIN siteDisk' : f.kind = "carrier"} = {f \in DOMAIN siteDisk : f.kind = "carrier"}
        BY <2>1, KindsDiffer
      <4>2. \A c \in Site!Carriers(n) : siteDisk'[Site!Carrier(c)] = siteDisk[Site!Carrier(c)]
        <5> SUFFICES ASSUME NEW c \in Site!Carriers(n)
                     PROVE  siteDisk'[Site!Carrier(c)] = siteDisk[Site!Carrier(c)]
          OBVIOUS
        <5>1. Site!Carrier(c) \in {f \in DOMAIN siteDisk : f.kind = "carrier"}
          BY <3>2 DEF CarriersStand
        <5> QED  BY <2>1, <5>1, KindsDiffer
      <4> QED  BY <2>3, <3>2, <4>1, <4>2 DEF CarriersStand
    <3>4. s \in Checked => Relisted'
      <4> SUFFICES ASSUME s \in Checked PROVE Relisted'  OBVIOUS
      <4>1. Relisted  BY <1>1 DEF SiteInv, JobInv
      <4>2. siteDisk[Site!Landing] = content  BY <4>1 DEF Relisted, LandingStands
      <4>3. OthersStay  BY <2>1, <4>2 DEF OthersStay
      <4> QED  BY <4>1, <4>3, RelistedStays DEF SiteInv
    <3>5. siteJob' = [scripts |-> Tail(s), network |-> Void, left |-> <<>>]
      BY <1>3, <2>7 DEF Site!Next1
    <3>6. JobInv'
      <4> HIDE DEF s
      <4>1. siteJob'.scripts = Tail(s) /\ siteJob'.network = Void /\ siteJob'.left = <<>>  BY <3>5
      <4>2. Tail(s) \in ScriptsLeft  BY <3>1 DEF ScriptsLeft
      <4> QED  BY <2>4, <3>1, <3>3, <3>4, <3>5, <4>1, <4>2 DEF JobInv
    <3> QED  BY <1>1, <2>2, <3>6, SiteStays DEF SiteInv
  <2> QED  BY <2>6, <2>7
<1> QED  BY <1>1, <1>2, <1>3

LEMMA BuildManifestKeeps == ASSUME SiteInv, Site!BuildManifest PROVE SiteInv'
<1> DEFINE content == Site!Without({Site!Manifest})
<1>1. /\ siteJob # Void /\ Head(siteJob.scripts) = "manifest"
      /\ siteDisk' = Site!Put(Site!Manifest, content) /\ siteJob' = Site!Next1
      /\ UNCHANGED <<siteInputs, siteFiles, siteReleased, sitePage>>
  BY DEF Site!BuildManifest, Site!Running
<1>2. Len(siteJob.scripts) = 1  BY <1>1, ScriptsAdvance DEF SiteInv, JobInv
<1>3. JobInv'  BY <1>1, <1>2 DEF Site!Next1, JobInv
<1> HIDE DEF content
<1>4. /\ DOMAIN siteDisk' = DOMAIN siteDisk \cup {Site!Manifest}
      /\ \A f \in DOMAIN siteDisk :
           f # Site!Manifest => f \in DOMAIN siteDisk' /\ siteDisk'[f] = siteDisk[f]
  <2>1. siteDisk' = Site!Put(Site!Manifest, content)  BY <1>1
  <2> QED  BY <2>1, PutIs
<1>5. Described(siteDisk')  BY <1>4, KindsDiffer DEF SiteInv, Described
<1> QED  BY <1>1, <1>3, <1>5, SiteStays DEF SiteInv

\* What is verified is listed, and derived once more.
LEMMA VerifyKeeps == ASSUME SiteInv, Site!VerifyManifest PROVE SiteInv'
<1> DEFINE s == siteJob.scripts
           n == siteDisk[Site!Network]
           listed == siteDisk[Site!Manifest]
<1>1. /\ siteJob # Void /\ Head(s) = "verify"
      /\ siteJob' = (IF Site!ManifestVerifies THEN Site!Next1 ELSE Void)
      /\ UNCHANGED <<siteInputs, siteDisk, siteFiles, siteReleased, sitePage>>
  BY DEF Site!VerifyManifest, Site!Running
<1>2. CASE ~Site!ManifestVerifies
  <2>1. JobInv'  BY <1>1, <1>2 DEF JobInv
  <2> QED  BY <1>1, <2>1, SiteStays DEF SiteInv
<1>3. CASE Site!ManifestVerifies
  <2>1. s \in ScriptsLeft  BY <1>1 DEF SiteInv, JobInv
  <2>2. /\ Len(s) # 1 /\ Tail(s) \in Checked /\ s \in Derived /\ s \in Carried
        /\ Tail(s) \notin Derived /\ Tail(s) \notin Carried /\ Head(Tail(s)) = "carriers"
    BY <1>1, <2>1, ScriptsAdvance
  <2>3. CarriersStand(siteDisk) /\ LandingStands(siteDisk)  BY <1>1, <2>2 DEF SiteInv, JobInv
  <2>4. \A f \in DOMAIN listed : f \in DOMAIN siteDisk /\ siteDisk[f] = listed[f]
    BY <1>3 DEF Site!ManifestVerifies
  <2>5. ASSUME NEW f \in DOMAIN listed, f.kind = "carrier"
        PROVE  \E c \in Site!Carriers(n) : f = Site!Carrier(c) /\ listed[f] = Site!OfCarrier(n, c)
    <3>1. f \in {g \in DOMAIN siteDisk : g.kind = "carrier"}  BY <2>4, <2>5
    <3>2. PICK c \in Site!Carriers(n) : f = Site!Carrier(c)  BY <2>3, <3>1 DEF CarriersStand
    <3> QED  BY <2>3, <2>4, <3>2 DEF CarriersStand
  <2>6. Relisted  BY <2>3, <2>4, <2>5 DEF Relisted, CarriersStand
  <2>7. Relisted'  BY <1>1, <2>6 DEF Relisted
  <2>8. siteJob' = [scripts |-> Tail(s), network |-> Void, left |-> <<>>]
    BY <1>1, <1>3, <2>2 DEF Site!Next1
  <2>9. Tail(s) \in ScriptsLeft  BY <2>2 DEF ScriptsLeft
  <2>10. JobInv'
    <3> HIDE DEF s
    <3>1. siteJob'.scripts = Tail(s) /\ siteJob'.network = Void /\ siteJob'.left = <<>>  BY <2>8
    <3> QED  BY <2>2, <2>7, <2>8, <2>9, <3>1 DEF JobInv
  <2> QED  BY <1>1, <2>10, SiteStays DEF SiteInv
<1> QED  BY <1>2, <1>3

\* The site is the disk, as it was derived; and by CI, as it was listed.
LEMMA PublishKeeps == ASSUME SiteInv, Site!Publish PROVE SiteInv'
<1> DEFINE s == siteJob.scripts
<1>1. /\ siteJob # Void /\ Head(s) \in {"publish", "release"}
      /\ siteFiles' = siteDisk /\ siteReleased' = (Head(s) = "release") /\ siteJob' = Site!Next1
      /\ UNCHANGED <<siteInputs, siteDisk, sitePage>>
  BY DEF Site!Publish, Site!Running
<1>2. s \in ScriptsLeft  BY <1>1 DEF SiteInv, JobInv
<1>3. /\ Len(s) = 1 /\ s \in Derived /\ s \in Carried
      /\ Head(s) = "release" => s \in Checked
  BY <1>1, <1>2, ScriptsAdvance
<1>4. JobInv'  BY <1>1, <1>3 DEF Site!Next1, JobInv
<1>5. CarriersStand(siteDisk) /\ LandingStands(siteDisk)  BY <1>1, <1>3 DEF SiteInv, JobInv
<1>6. Head(s) = "release" =>
        \A f \in DOMAIN siteDisk[Site!Manifest] :
          f \in DOMAIN siteDisk /\ siteDisk[f] = siteDisk[Site!Manifest][f]
  <2> SUFFICES ASSUME Head(s) = "release", NEW f \in DOMAIN siteDisk[Site!Manifest]
               PROVE  f \in DOMAIN siteDisk /\ siteDisk[f] = siteDisk[Site!Manifest][f]
    OBVIOUS
  <2>1. Relisted  BY <1>1, <1>3 DEF SiteInv, JobInv
  <2>2. CASE f.kind # "carrier"  BY <2>1, <2>2 DEF Relisted
  <2>3. CASE f.kind = "carrier"
    <3> DEFINE n == siteDisk[Site!Network]
    <3>1. PICK c \in Site!Carriers(n) :
            f = Site!Carrier(c) /\ siteDisk[Site!Manifest][f] = Site!OfCarrier(n, c)
      BY <2>1, <2>3 DEF Relisted
    <3>2. f \in {g \in DOMAIN siteDisk : g.kind = "carrier"}  BY <1>5, <3>1 DEF CarriersStand
    <3> QED  BY <1>5, <3>1, <3>2 DEF CarriersStand
  <2> QED  BY <2>2, <2>3
<1>7. PublicationInv'
  <2>1. Described(siteDisk)  BY DEF SiteInv
  <2> QED  BY <1>1, <1>5, <1>6, <2>1 DEF PublicationInv, Site!ReleasedAsListed
<1>8. PageInv'  BY <1>1 DEF SiteInv, PageInv, Site!ShownAsBuilt
<1> QED  BY <1>1, <1>4, <1>7, <1>8 DEF SiteInv

\* The inputs only change while no script runs.
LEMMA EditKeeps == ASSUME SiteInv, NEW version \in SiteEditions, Site!Edit(version) PROVE SiteInv'
<1>1. /\ siteJob = Void /\ siteInputs' = version
      /\ UNCHANGED <<siteDisk, siteJob, siteFiles, siteReleased, sitePage>>
  BY DEF Site!Edit
<1>2. JobInv'  BY <1>1 DEF JobInv
<1>3. PublicationInv'  BY <1>1 DEF SiteInv, PublicationInv, Site!ReleasedAsListed
<1>4. PageInv'  BY <1>1 DEF SiteInv, PageInv, Site!ShownAsBuilt
<1> QED  BY <1>1, <1>2, <1>3, <1>4 DEF SiteInv

LEMMA KillKeeps == ASSUME SiteInv, Site!Kill PROVE SiteInv'
<1>1. /\ siteJob' = Void /\ UNCHANGED <<siteInputs, siteDisk, siteFiles, siteReleased, sitePage>>
  BY DEF Site!Kill
<1>2. JobInv'  BY <1>1 DEF JobInv
<1> QED  BY <1>1, <1>2, SiteStays DEF SiteInv

\* A page changes nothing but itself.
LEMMA OnlyThePage ==
  ASSUME SiteInv, PageInv',
         UNCHANGED <<siteInputs, siteDisk, siteJob, siteFiles, siteReleased>>
  PROVE  SiteInv'
<1>1. PublicationInv'  BY DEF SiteInv, PublicationInv, Site!ReleasedAsListed
<1>2. JobInv'  BY DEF SiteInv, JobInv, CarriersUnderWay, Relisted
<1> QED  BY <1>1, <1>2 DEF SiteInv

LEMMA OpenKeeps == ASSUME SiteInv, NEW crypto \in BOOLEAN, Site!Open(crypto) PROVE SiteInv'
<1>1. /\ sitePage' = [meta |-> siteFiles[Site!Meta], crypto |-> crypto, carriers |-> Void, loaded |-> Void]
      /\ UNCHANGED <<siteInputs, siteDisk, siteJob, siteFiles, siteReleased>>
  BY DEF Site!Open
<1>2. siteFiles[Site!Meta] = MetaFor(siteFiles[Site!Meta].output)
  BY DEF SiteInv, PublicationInv, Described
<1>3. PageInv'  BY <1>1, <1>2 DEF PageInv, Site!ShownAsBuilt
<1> QED  BY <1>1, <1>3, OnlyThePage

LEMMA FetchCarrierMetaKeeps == ASSUME SiteInv, Site!FetchCarrierMeta PROVE SiteInv'
<1> DEFINE shownOf == sitePage.meta.output
           carriers == siteFiles[Site!CarrierMeta].carriers
<1>1. /\ sitePage # Void /\ siteFiles[Site!CarrierMeta].runtime = shownOf
      /\ sitePage' = [sitePage EXCEPT !.carriers = carriers]
      /\ UNCHANGED <<siteInputs, siteDisk, siteJob, siteFiles, siteReleased>>
  BY DEF Site!FetchCarrierMeta
<1>2. /\ sitePage = [meta |-> sitePage.meta, crypto |-> sitePage.crypto,
                     carriers |-> sitePage.carriers, loaded |-> sitePage.loaded]
      /\ sitePage.meta = MetaFor(shownOf) /\ Site!ShownAsBuilt
  BY <1>1 DEF SiteInv, PageInv
<1>3. siteFiles[Site!CarrierMeta] = Site!CarrierMetaOf(siteFiles[Site!Network])
  BY DEF SiteInv, PublicationInv, CarriersStand
<1>4. carriers = [c \in Site!Carriers(shownOf) |-> Site!OfCarrier(shownOf, c)]
  BY <1>1, <1>3 DEF Site!CarrierMetaOf
<1> HIDE DEF carriers
<1>5. sitePage' = [meta |-> sitePage.meta, crypto |-> sitePage.crypto,
                   carriers |-> carriers, loaded |-> sitePage.loaded]
  BY <1>1, <1>2
<1>6. Site!ShownAsBuilt'  BY <1>1, <1>2, <1>5 DEF Site!ShownAsBuilt
<1>7. PageInv'  BY <1>2, <1>4, <1>5, <1>6 DEF PageInv
<1> QED  BY <1>1, <1>7, OnlyThePage

\* A page that loads a file shows what it expected of it, if it can tell.
LEMMA LoadKeeps ==
  ASSUME SiteInv, sitePage # Void, NEW file, NEW expected, Site!Load(file, expected),
         \/ file.kind = "network" /\ expected = sitePage.meta.output
         \/ file.kind = "origin" /\ expected = Site!OfLetter(sitePage.meta.output, file.name)
         \/ /\ file.kind = "carrier" /\ expected = Site!OfCarrier(sitePage.meta.output, file.name)
            /\ Site!InScope(file.name, siteFiles[file])
  PROVE  SiteInv'
<1> DEFINE shownOf == sitePage.meta.output
           got == [file |-> file, routes |-> siteFiles[file]]
<1>1. /\ sitePage.crypto => siteFiles[file] = expected
      /\ sitePage' = [sitePage EXCEPT !.loaded = got]
      /\ UNCHANGED <<siteInputs, siteDisk, siteJob, siteFiles, siteReleased>>
  BY DEF Site!Load, Site!HashMatches
<1>2. /\ sitePage = [meta |-> sitePage.meta, crypto |-> sitePage.crypto,
                     carriers |-> sitePage.carriers, loaded |-> sitePage.loaded]
      /\ sitePage.meta = MetaFor(shownOf)
      /\ sitePage.carriers # Void =>
           sitePage.carriers = [c \in Site!Carriers(shownOf) |-> Site!OfCarrier(shownOf, c)]
  BY DEF SiteInv, PageInv
<1>3. got.file = file /\ got.routes = siteFiles[file]  OBVIOUS
<1> HIDE DEF got
<1>4. sitePage' = [meta |-> sitePage.meta, crypto |-> sitePage.crypto,
                   carriers |-> sitePage.carriers, loaded |-> got]
  BY <1>1, <1>2
<1>5. Site!ShownAsBuilt'
  <2>1. sitePage'.loaded = got /\ sitePage'.meta = sitePage.meta /\ sitePage'.crypto = sitePage.crypto
    BY <1>4
  <2>2. sitePage.crypto =>
          siteFiles[file] = CASE file.kind = "network" -> shownOf
                              [] file.kind = "origin"  -> Site!OfLetter(shownOf, file.name)
                              [] file.kind = "carrier" -> Site!OfCarrier(shownOf, file.name)
    <3>1. CASE file.kind = "network"  BY <1>1, <3>1
    <3>2. CASE file.kind = "origin"  BY <1>1, <3>2
    <3>3. CASE file.kind = "carrier"  BY <1>1, <3>3
    <3> QED  BY <3>1, <3>2, <3>3
  <2>3. file.kind = "carrier" => Site!InScope(file.name, siteFiles[file])  OBVIOUS
  <2> QED  BY <1>3, <2>1, <2>2, <2>3 DEF Site!ShownAsBuilt
<1>6. PageInv'  BY <1>2, <1>4, <1>5 DEF PageInv
<1> QED  BY <1>1, <1>6, OnlyThePage

LEMMA SiteStep == ASSUME Site!SiteAssumption, SiteInv, [Site!Next]_Site!vars PROVE SiteInv'
<1>1. CASE \E command \in Site!Commands : Site!Run(command)  BY <1>1, RunKeeps
<1>2. CASE Site!BuildRuntime \/ Site!WriteOrigin \/ Site!WriteMeta
  BY <1>2, BuildRuntimeKeeps, WriteOriginKeeps, WriteMetaKeeps
<1>3. CASE Site!BeginCarriers \/ Site!WriteCarrier \/ Site!WriteCarrierMeta
  BY <1>3, BeginCarriersKeeps, WriteCarrierKeeps, WriteCarrierMetaKeeps
<1>4. CASE Site!BuildLanding \/ Site!BuildManifest \/ Site!VerifyManifest
  BY <1>4, BuildLandingKeeps, BuildManifestKeeps, VerifyKeeps
<1>5. CASE Site!Publish \/ Site!Kill  BY <1>5, PublishKeeps, KillKeeps
<1>6. CASE \E version \in SiteEditions : Site!Edit(version)  BY <1>6, EditKeeps
<1>7. CASE \E crypto \in BOOLEAN : Site!Open(crypto)  BY <1>7, OpenKeeps
<1>8. CASE Site!FetchCarrierMeta  BY <1>8, FetchCarrierMetaKeeps
<1>9. CASE Site!LoadFull
  BY <1>9, LoadKeeps, KindsDiffer DEF Site!LoadFull
<1>10. ASSUME NEW letter, Site!LoadOrigin(letter) PROVE SiteInv'
  <2> DEFINE file == Site!Origin(letter)
             expected == sitePage.meta.origins[letter]
  <2>1. /\ sitePage # Void /\ letter \in DOMAIN sitePage.meta.origins
        /\ Site!Load(file, expected)
    BY <1>10 DEF Site!LoadOrigin
  <2>2. sitePage.meta = MetaFor(sitePage.meta.output)  BY <2>1 DEF SiteInv, PageInv
  <2>3. expected = Site!OfLetter(sitePage.meta.output, letter)  BY <2>1, <2>2 DEF MetaFor
  <2>4. file.kind = "origin" /\ file.name = letter  BY KindsDiffer
  <2> HIDE DEF file, expected
  <2> QED  BY <2>1, <2>3, <2>4, LoadKeeps
<1>11. ASSUME NEW carrier, Site!LoadCarrier(carrier) PROVE SiteInv'
  <2> DEFINE file == Site!Carrier(carrier)
             expected == sitePage.carriers[carrier]
  <2>1. /\ sitePage # Void /\ sitePage.carriers # Void /\ carrier \in DOMAIN sitePage.carriers
        /\ Site!InScope(carrier, siteFiles[file]) /\ Site!Load(file, expected)
    BY <1>11 DEF Site!LoadCarrier
  <2>2. expected = Site!OfCarrier(sitePage.meta.output, carrier)  BY <2>1 DEF SiteInv, PageInv
  <2>3. file.kind = "carrier" /\ file.name = carrier  BY KindsDiffer
  <2> HIDE DEF file, expected
  <2> QED  BY <2>1, <2>2, <2>3, LoadKeeps
<1>12. CASE UNCHANGED Site!vars
  <2>1. UNCHANGED <<siteInputs, siteDisk, siteJob, siteFiles, siteReleased, sitePage>>
    BY <1>12 DEF Site!vars
  <2>2. PageInv'  BY <2>1 DEF SiteInv, PageInv, Site!ShownAsBuilt
  <2> QED  BY <2>1, <2>2, OnlyThePage
<1> QED
  BY <1>1, <1>2, <1>3, <1>4, <1>5, <1>6, <1>7, <1>8, <1>9, <1>10, <1>11, <1>12 DEF Site!Next

\* What the invariant says of the site, of a page and of a network that is verified.
LEMMA SiteIsSound == ASSUME Site!SiteAssumption, SiteInv PROVE Site!SiteSound
<1>1. Site!ShownAsBuilt
  BY DEF SiteInv, PageInv, Site!ShownAsBuilt
<1>2. Site!ReleasedAsListed  BY DEF SiteInv, PublicationInv
<1>3. Site!PublishedWhole
  <2> DEFINE n == siteFiles[Site!Network]
  <2>1. CarriersStand(siteFiles) /\ LandingStands(siteFiles)  BY DEF SiteInv, PublicationInv
  <2>2. siteFiles[Site!Meta] = MetaFor(n)
    BY <2>1 DEF SiteInv, PublicationInv, Described, CarriersStand
  <2>3. /\ siteFiles[Site!Landing].published = Site!Cardinality(Site!Published(n))
        /\ siteFiles[Site!Landing].confirmed = {leg \in Showcase : Site!Confirmed(n, leg)}
    BY <2>1, <2>2 DEF LandingStands, Site!LandingOf, MetaFor
  <2>4. ASSUME NEW leg \in siteFiles[Site!Landing].confirmed
        PROVE  \E r \in Site!RouteFor(n, leg) : r.identity = "operating" /\ leg.number \notin r.candidates
    <3>1. PICK r \in Site!RouteFor(n, leg) : r.identity = "operating" /\ leg.number \in r.numbers
      BY <2>3 DEF Site!Confirmed
    <3>2. r \in n  BY DEF Site!RouteFor, Site!Published
    <3>3. n \in SiteEditions  BY DEF SiteInv, PublicationInv, Described
    <3>4. r.numbers \cap r.candidates = {}  BY <3>2, <3>3 DEF Site!SiteAssumption
    <3> QED  BY <3>1, <3>4
  <2> QED  BY <2>1, <2>3, <2>4 DEF Site!PublishedWhole, CarriersStand, LandingStands
<1>4. Site!VerifiedIsBuilt
  <2> DEFINE meta == siteDisk[Site!Meta]
             n == siteDisk[Site!Network]
  <2> SUFFICES ASSUME Site!RuntimeVerifies
               PROVE  /\ n = siteInputs /\ Site!Unnumbered(n) = {}
                      /\ UNION {siteDisk[Site!Origin(l)] : l \in DOMAIN meta.origins} = n
    BY DEF Site!VerifiedIsBuilt
  <2>1. /\ meta.input = siteInputs /\ meta.output = n
        /\ \A l \in DOMAIN meta.origins : siteDisk[Site!Origin(l)] = meta.origins[l]
    BY DEF Site!RuntimeVerifies
  <2>2. meta = MetaFor(n) /\ Site!Unnumbered(n) = {}  BY <2>1 DEF SiteInv, Described
  <2>3. meta.input = n  BY <2>2 DEF MetaFor
  <2>4. meta.origins = [l \in {SiteLetter[r.from] : r \in n} |-> Site!OfLetter(n, l)]
    BY <2>2 DEF MetaFor
  <2> HIDE DEF meta, n
  <2>5. \A l \in DOMAIN meta.origins : siteDisk[Site!Origin(l)] = {r \in n : SiteLetter[r.from] = l}
    BY <2>1, <2>4 DEF Site!OfLetter
  <2>6. DOMAIN meta.origins = {SiteLetter[r.from] : r \in n}  BY <2>4
  <2>7. UNION {siteDisk[Site!Origin(l)] : l \in DOMAIN meta.origins} = n
    <3>1. \A r \in n : SiteLetter[r.from] \in DOMAIN meta.origins  BY <2>6
    <3>2. \A r \in n : r \in siteDisk[Site!Origin(SiteLetter[r.from])]  BY <2>5, <3>1
    <3>3. \A l \in DOMAIN meta.origins : siteDisk[Site!Origin(l)] \subseteq n  BY <2>5
    <3> QED  BY <3>1, <3>2, <3>3
  <2> QED  BY <2>1, <2>2, <2>3, <2>7
<1> QED  BY <1>1, <1>2, <1>3, <1>4 DEF Site!SiteSound

\* However scripts are killed, begun again and interleaved with edits of their inputs, for
\* any networks, airports and carriers: what is published is of one network, CI publishes
\* what it listed, and a page that can compare hashes shows one network
\* (build-runtime-route-network.ts to route-network-runtime.ts).
THEOREM SitesAreOfOneNetwork ==
  ASSUME Site!SiteAssumption PROVE Site!Spec => []Site!SiteSound
<1>1. Site!Init => SiteInv  BY SiteStart
<1>2. SiteInv /\ [Site!Next]_Site!vars => SiteInv'  BY SiteStep
<1>3. SiteInv => Site!SiteSound  BY SiteIsSound
<1> QED  BY <1>1, <1>2, <1>3, PTL DEF Site!Spec

-----------------------------------------------------------------------------
(***************************************************************************)
(* FlightNumberLayer: the layer of flight numbers, from its sources and    *)
(* from what is on file of two web sites.                                  *)
(***************************************************************************)
\* The sources, in the order in which they are asked.
Tellers == Layer!StepNames \ {"write"}

\* What they say of a route, each its numbers; and what is known of it once those of a
\* rank below r have been asked: one that only fills counts when none before it speaks.
Says(key) ==
  [s \in Tellers |-> IF s \in Layer!Sites /\ key \in Inputs[numberInput].numbered THEN {}
                     ELSE Layer!States(s, key)]

Told(says, r) ==
  {n \in UNION {says[s] : s \in Tellers} :
     \E s \in Tellers :
       /\ n \in says[s] /\ Layer!Rank(s) < r
       /\ Layer!Rank(s) > 5 =>
            \A t \in Tellers : says[t] # {} => Layer!Rank(s) <= Layer!Rank(t)}

\* Numbers that are supported by sources of a rank below r.
RecordOf(of) ==
  of = [confirmed |-> of.confirmed, candidates |-> of.candidates,
        confirmedBy |-> of.confirmedBy, candidatesBy |-> of.candidatesBy]

Confirms(key, s, n) ==
  \E x \in Layer!rows[s] : x.key = key /\ x.number = n /\ Layer!MayConfirm(s, x)

Supported(of, key, says, r) ==
  /\ RecordOf(of)
  /\ of.confirmed # {} => ~Layer!routes[key].listed
  /\ of.confirmed \cap of.candidates = {}
  /\ \A n \in of.confirmed : \E s \in of.confirmedBy : Confirms(key, s, n)
  /\ \A n \in of.candidates : \E s \in of.candidatesBy : n \in says[s]
  /\ \A s \in of.confirmedBy \cup of.candidatesBy :
       /\ s \in Tellers /\ Layer!Rank(s) < r
       /\ says[s] \cap Layer!Known(of) # {}

\* The pair's page has still to be read; and the rank up to which a route's sources have
\* been asked.
Pending(pair) == pair \in rowsLeft \/ \E w \in Workers : askingWorkers[w] = pair

Due(key) ==
  IF numberStage \in Layer!Sites /\ ~Pending(key.pair)
  THEN Layer!Rank(numberStage) + 1 ELSE Layer!Rank(numberStage)

Gathered ==
  /\ DOMAIN numberLayer = DOMAIN Layer!routes
  /\ \A key \in DOMAIN Layer!routes :
       /\ Supported(numberLayer[key], key, Says(key), Due(key))
       /\ Layer!Known(numberLayer[key]) = Told(Says(key), Due(key))

\* No page is fetched twice at a time, and none but for a site.
Asking ==
  \A w \in Workers : askingWorkers[w] # Void =>
    /\ numberStage \in Layer!Sites /\ askingWorkers[w] \notin rowsLeft
    /\ \A v \in Workers : askingWorkers[v] = askingWorkers[w] => v = w

SitePages ==
  {Layer!Failed} \cup {Layer!Page(TRUE, numbers) : numbers \in Answers}

NumbersInv ==
  /\ numberInput \in DOMAIN Inputs
  /\ numberStage \in Layer!StepNames \cup {"none", "killed", "refused", "done"}
  /\ numberCache \in [Layer!Sites -> [Layer!Pairs -> SitePages \cup {Void}]]
  /\ askingWorkers \in [Workers -> Layer!Pairs \cup {Void}]
  /\ rowsLeft \subseteq Layer!Pairs
  /\ Layer!Running => Gathered /\ Asking
  /\ numberStage = "done" => Layer!NumbersAccounted

-----------------------------------------------------------------------------
LEMMA StepsAre ==
  /\ Layer!Steps = <<"standing", "affiliates", "bts", "flightsfrom", "audited", "connections",
                             "information", "mrairspace", "adsbiq", "specific", "write">>
  /\ DOMAIN Layer!Steps = 1..11
BY DEF Layer!Steps

LEMMA NamesAre ==
  Layer!StepNames = {"standing", "affiliates", "bts", "flightsfrom", "audited", "connections",
                             "information", "mrairspace", "adsbiq", "specific", "write"}
BY StepsAre DEF Layer!StepNames

LEMMA RanksAre ==
  /\ Layer!Rank("standing") = 1 /\ Layer!Rank("affiliates") = 2
  /\ Layer!Rank("bts") = 3 /\ Layer!Rank("flightsfrom") = 4
  /\ Layer!Rank("audited") = 5 /\ Layer!Rank("connections") = 6
  /\ Layer!Rank("information") = 7 /\ Layer!Rank("mrairspace") = 8
  /\ Layer!Rank("adsbiq") = 9 /\ Layer!Rank("specific") = 10
  /\ Layer!Rank("write") = 11
BY StepsAre DEF Layer!Rank

LEMMA TellersRank ==
  /\ \A s \in Tellers : Layer!Rank(s) \in 1..10
  /\ \A s, t \in Tellers : Layer!Rank(s) = Layer!Rank(t) => s = t
BY NamesAre, RanksAre DEF Tellers

LEMMA RankAfter ==
  ASSUME NEW s \in Tellers
  PROVE  /\ Layer!After(s) \in Layer!StepNames
         /\ Layer!Rank(Layer!After(s)) = Layer!Rank(s) + 1
BY NamesAre, RanksAre, StepsAre DEF Tellers, Layer!After

LEMMA AskedInOrder ==
  /\ \A i \in DOMAIN Layer!Everywhere :
       Layer!Everywhere[i] \in Tellers /\ Layer!Rank(Layer!Everywhere[i]) = i
  /\ DOMAIN Layer!Everywhere = 1..5
  /\ Len(Layer!Everywhere) = 5
  /\ Layer!Sites \subseteq Tellers
  /\ Layer!SourceSet \cup Layer!Sites = Tellers
  /\ Layer!SourceSet \cap Layer!Sites = {}
<1>1. DOMAIN Layer!Everywhere = 1..5  BY DEF Layer!Everywhere
<1>2. \A i \in 1..5 : Layer!Everywhere[i] = Layer!Steps[i]
  BY DEF Layer!Everywhere
<1>3. \A i \in 1..5 : Layer!Steps[i] \in Tellers /\ Layer!Rank(Layer!Steps[i]) = i
  BY StepsAre, NamesAre, RanksAre DEF Tellers
<1>4. Len(Layer!Everywhere) = 5
  BY DEF Layer!Everywhere
<1>5. /\ Layer!Sites \subseteq Tellers
      /\ Layer!SourceSet \cup Layer!Sites = Tellers
      /\ Layer!SourceSet \cap Layer!Sites = {}
  BY NamesAre DEF Tellers, Layer!Sites, Layer!SourceSet
<1> QED  BY <1>1, <1>2, <1>3, <1>4, <1>5

-----------------------------------------------------------------------------
\* What is told, source by source.
LEMMA ToldIs ==
  ASSUME NEW says, NEW r, NEW n
  PROVE  n \in Told(says, r) <=>
           \E s \in Tellers :
             /\ n \in says[s] /\ Layer!Rank(s) < r
             /\ Layer!Rank(s) > 5 =>
                  \A t \in Tellers : says[t] # {} => Layer!Rank(s) <= Layer!Rank(t)
BY DEF Told

LEMMA ToldNone ==
  ASSUME NEW says PROVE Told(says, 1) = {}
<1> SUFFICES ASSUME NEW n \in Told(says, 1) PROVE FALSE  OBVIOUS
<1>1. PICK s \in Tellers : Layer!Rank(s) < 1  BY ToldIs
<1> QED  BY <1>1, TellersRank

\* Nothing is told only if nobody of a lower rank speaks.
LEMMA ToldNothing ==
  ASSUME NEW says, NEW r \in Nat, Told(says, r) = {}, NEW u \in Tellers, says[u] # {}
  PROVE  r <= Layer!Rank(u)
<1> DEFINE ranks == {Layer!Rank(t) : t \in {x \in Tellers : says[x] # {}}}
<1>1. ranks \subseteq Nat /\ ranks # {}  BY TellersRank
<1>2. PICK m \in ranks : \A k \in ranks : m <= k
  <2> HIDE DEF ranks
  <2> QED  BY <1>1, LeastNat
<1>3. PICK s \in Tellers : says[s] # {} /\ Layer!Rank(s) = m  OBVIOUS
<1>4. \A t \in Tellers : says[t] # {} => Layer!Rank(s) <= Layer!Rank(t)
  BY <1>2, <1>3
<1>5. PICK n : n \in says[s]  BY <1>3
<1>6. ~(Layer!Rank(s) < r)
  <2> SUFFICES ASSUME Layer!Rank(s) < r PROVE FALSE  OBVIOUS
  <2>1. n \in Told(says, r)  BY <1>4, <1>5, ToldIs
  <2> QED  BY <2>1
<1>7. Layer!Rank(s) \in Nat /\ Layer!Rank(u) \in Nat  BY TellersRank
<1>8. Layer!Rank(s) <= Layer!Rank(u)  BY <1>4
<1> QED  BY <1>6, <1>7, <1>8

\* One more of the first five, one more of those that only fill.
LEMMA ToldMore ==
  ASSUME NEW says, NEW u \in Tellers, Layer!Rank(u) <= 5
  PROVE  Told(says, Layer!Rank(u) + 1) = Told(says, Layer!Rank(u)) \cup says[u]
<1> DEFINE r == Layer!Rank(u)
<1>0. \A t \in Tellers : Layer!Rank(t) \in Nat  BY TellersRank
<1>1. ASSUME NEW n \in Told(says, r + 1) PROVE n \in Told(says, r) \cup says[u]
  <2>1. PICK s \in Tellers :
          /\ n \in says[s] /\ Layer!Rank(s) < r + 1
          /\ Layer!Rank(s) > 5 =>
               \A t \in Tellers : says[t] # {} => Layer!Rank(s) <= Layer!Rank(t)
    BY <1>1, ToldIs
  <2>2. CASE Layer!Rank(s) = r  BY <2>1, <2>2, TellersRank
  <2>3. CASE Layer!Rank(s) < r  BY <2>1, <2>3, ToldIs
  <2> QED  BY <1>0, <2>1, <2>2, <2>3
<1>2. ASSUME NEW n \in Told(says, r) PROVE n \in Told(says, r + 1)
  <2>1. PICK s \in Tellers :
          /\ n \in says[s] /\ Layer!Rank(s) < r
          /\ Layer!Rank(s) > 5 =>
               \A t \in Tellers : says[t] # {} => Layer!Rank(s) <= Layer!Rank(t)
    BY <1>2, ToldIs
  <2>2. Layer!Rank(s) < r + 1  BY <1>0, <2>1
  <2> QED  BY <2>1, <2>2, ToldIs
<1>3. ASSUME NEW n \in says[u] PROVE n \in Told(says, r + 1)
  <2>1. Layer!Rank(u) < r + 1 /\ ~(Layer!Rank(u) > 5)  BY <1>0
  <2> QED  BY <2>1, ToldIs
<1> QED  BY <1>1, <1>2, <1>3

LEMMA ToldFilled ==
  ASSUME NEW says, NEW u \in Tellers, Layer!Rank(u) > 5
  PROVE  LET r == Layer!Rank(u)
         IN Told(says, r + 1) = IF Told(says, r) # {} THEN Told(says, r) ELSE says[u]
<1> DEFINE r == Layer!Rank(u)
<1>0. \A t \in Tellers : Layer!Rank(t) \in Nat  BY TellersRank
<1>1. ASSUME NEW n \in Told(says, r) PROVE n \in Told(says, r + 1)
  <2>1. PICK s \in Tellers :
          /\ n \in says[s] /\ Layer!Rank(s) < r
          /\ Layer!Rank(s) > 5 =>
               \A t \in Tellers : says[t] # {} => Layer!Rank(s) <= Layer!Rank(t)
    BY <1>1, ToldIs
  <2>2. Layer!Rank(s) < r + 1  BY <1>0, <2>1
  <2> QED  BY <2>1, <2>2, ToldIs
<1>2. ASSUME NEW n \in Told(says, r + 1), n \notin Told(says, r)
      PROVE  n \in says[u] /\ Told(says, r) = {}
  <2>1. PICK s \in Tellers :
          /\ n \in says[s] /\ Layer!Rank(s) < r + 1
          /\ Layer!Rank(s) > 5 =>
               \A t \in Tellers : says[t] # {} => Layer!Rank(s) <= Layer!Rank(t)
    BY <1>2, ToldIs
  <2>2. ~(Layer!Rank(s) < r)  BY <1>2, <2>1, ToldIs
  <2>3. Layer!Rank(s) = r  BY <1>0, <2>1, <2>2
  <2>4. s = u  BY <2>3, TellersRank
  <2>5. ASSUME NEW k \in Told(says, r) PROVE FALSE
    <3>1. PICK t \in Tellers : k \in says[t] /\ Layer!Rank(t) < r  BY <2>5, ToldIs
    <3>2. Layer!Rank(s) <= Layer!Rank(t)  BY <2>1, <2>3, <3>1
    <3> QED  BY <1>0, <2>3, <3>1, <3>2
  <2> QED  BY <2>1, <2>4, <2>5
<1>3. ASSUME Told(says, r) = {}, NEW n \in says[u] PROVE n \in Told(says, r + 1)
  <2>1. \A t \in Tellers : says[t] # {} => r <= Layer!Rank(t)
    BY <1>0, <1>3, ToldNothing
  <2>2. Layer!Rank(u) < r + 1  BY <1>0
  <2> QED  BY <1>3, <2>1, <2>2, ToldIs
<1> HIDE DEF r
<1>4. CASE Told(says, r) # {}
  <2>1. \A n : n \in Told(says, r + 1) <=> n \in Told(says, r)  BY <1>1, <1>2, <1>4
  <2> QED  BY <1>4, <2>1 DEF r
<1>5. CASE Told(says, r) = {}
  <2>1. \A n : n \in Told(says, r + 1) <=> n \in says[u]  BY <1>2, <1>3, <1>5
  <2> QED  BY <1>5, <2>1 DEF r
<1> QED  BY <1>4, <1>5

\* Who has been asked tells no more and no less for what the others would say.
LEMMA ToldSame ==
  ASSUME NEW says, NEW says2, NEW r \in Nat,
         \A s \in Tellers : Layer!Rank(s) < r => says[s] = says2[s]
  PROVE  Told(says, r) = Told(says2, r)
<1>0. \A t \in Tellers : Layer!Rank(t) \in Nat  BY TellersRank
<1>1. ASSUME NEW a, NEW b, \A s \in Tellers : Layer!Rank(s) < r => a[s] = b[s],
             NEW n \in Told(a, r)
      PROVE  n \in Told(b, r)
  <2>1. PICK s \in Tellers :
          /\ n \in a[s] /\ Layer!Rank(s) < r
          /\ Layer!Rank(s) > 5 =>
               \A t \in Tellers : a[t] # {} => Layer!Rank(s) <= Layer!Rank(t)
    BY <1>1, ToldIs
  <2>2. n \in b[s]  BY <1>1, <2>1
  <2>3. ASSUME Layer!Rank(s) > 5, NEW t \in Tellers, b[t] # {}
        PROVE  Layer!Rank(s) <= Layer!Rank(t)
    <3>1. CASE Layer!Rank(t) < r
      <4>1. a[t] # {}  BY <1>1, <2>3, <3>1
      <4> QED  BY <2>1, <2>3, <4>1
    <3>2. CASE ~(Layer!Rank(t) < r)  BY <1>0, <2>1, <3>2
    <3> QED  BY <3>1, <3>2
  <2> QED  BY <2>1, <2>2, <2>3, ToldIs
<1>2. \A n \in Told(says, r) : n \in Told(says2, r)  BY <1>1
<1>3. \A n \in Told(says2, r) : n \in Told(says, r)  BY <1>1
<1> QED  BY <1>2, <1>3

-----------------------------------------------------------------------------
\* What is known of a route when something is added to it.
LEMMA CandidatesAdded ==
  ASSUME NEW of, RecordOf(of), NEW numbers, NEW s, numbers # {}
  PROVE  Layer!AddCandidates(of, numbers, s) =
           [confirmed |-> of.confirmed, candidates |-> of.candidates \cup (numbers \ of.confirmed),
            confirmedBy |-> of.confirmedBy, candidatesBy |-> of.candidatesBy \cup {s}]
<1> SUFFICES ASSUME NEW a, NEW b, NEW c, NEW d, NEW e, NEW f
             PROVE  [[confirmed |-> a, candidates |-> b, confirmedBy |-> c, candidatesBy |-> d]
                       EXCEPT !.candidates = @ \cup e, !.candidatesBy = @ \cup f] =
                    [confirmed |-> a, candidates |-> b \cup e, confirmedBy |-> c, candidatesBy |-> d \cup f]
  <2>1. Layer!AddCandidates(of, numbers, s) =
          [[confirmed |-> of.confirmed, candidates |-> of.candidates,
            confirmedBy |-> of.confirmedBy, candidatesBy |-> of.candidatesBy]
             EXCEPT !.candidates = @ \cup (numbers \ of.confirmed), !.candidatesBy = @ \cup {s}]
    BY DEF Layer!AddCandidates, RecordOf
  <2> QED  BY <2>1, Zenon
<1> DEFINE plain == [confirmed |-> a, candidates |-> b, confirmedBy |-> c, candidatesBy |-> d]
           new == [confirmed |-> a, candidates |-> b \cup e, confirmedBy |-> c, candidatesBy |-> d]
<1>1. plain.candidates = b /\ plain.candidatesBy = d  OBVIOUS
<1>2. [new EXCEPT !.candidatesBy = d \cup f] =
        [confirmed |-> a, candidates |-> b \cup e, confirmedBy |-> c, candidatesBy |-> d \cup f]
  OBVIOUS
<1>3. [plain EXCEPT !.candidates = b \cup e] = new  OBVIOUS
<1> HIDE DEF plain
<1>4. [plain EXCEPT !.candidates = @ \cup e, !.candidatesBy = @ \cup f] =
        [[plain EXCEPT !.candidates = plain.candidates \cup e] EXCEPT !.candidatesBy = plain.candidatesBy \cup f]
  OBVIOUS
<1> HIDE DEF new
<1> QED  BY <1>1, <1>2, <1>3, <1>4 DEF plain

LEMMA SupportedCandidates ==
  ASSUME NEW of, NEW key, NEW says, NEW r \in Nat, NEW q \in Nat, Supported(of, key, says, r),
         NEW s \in Tellers, Layer!Rank(s) < q, r <= q, NEW numbers \in SUBSET says[s]
  PROVE  LET new == Layer!AddCandidates(of, numbers, s)
         IN Supported(new, key, says, q)
              /\ Layer!Known(new) = Layer!Known(of) \cup numbers
<1> DEFINE new == Layer!AddCandidates(of, numbers, s)
<1>0. \A t \in Tellers : Layer!Rank(t) \in Nat  BY TellersRank
<1>1. CASE numbers = {}
  <2>1. new = of  BY <1>1 DEF Layer!AddCandidates
  <2>2. Supported(of, key, says, q)  BY <1>0 DEF Supported
  <2> QED  BY <1>1, <2>1, <2>2
<1>2. CASE numbers # {}
  <2>1. new = [confirmed |-> of.confirmed, candidates |-> of.candidates \cup (numbers \ of.confirmed),
               confirmedBy |-> of.confirmedBy, candidatesBy |-> of.candidatesBy \cup {s}]
    BY <1>2, CandidatesAdded DEF Supported
  <2> HIDE DEF new
  <2>2. /\ new.confirmed = of.confirmed /\ new.confirmedBy = of.confirmedBy
        /\ new.candidates = of.candidates \cup (numbers \ of.confirmed)
        /\ new.candidatesBy = of.candidatesBy \cup {s}
    BY <2>1
  <2>3. RecordOf(new)  BY <2>1, <2>2 DEF RecordOf
  <2>4. Layer!Known(new) = Layer!Known(of) \cup numbers
    BY <2>2 DEF Layer!Known
  <2>5. \A t \in new.confirmedBy \cup new.candidatesBy :
          /\ t \in Tellers /\ Layer!Rank(t) < q
          /\ says[t] \cap Layer!Known(new) # {}
    <3> SUFFICES ASSUME NEW t \in new.confirmedBy \cup new.candidatesBy
                 PROVE  /\ t \in Tellers /\ Layer!Rank(t) < q
                        /\ says[t] \cap Layer!Known(new) # {}
      OBVIOUS
    <3>1. CASE t \in of.confirmedBy \cup of.candidatesBy
      BY <1>0, <2>4, <3>1 DEF Supported
    <3>2. CASE t = s  BY <1>2, <2>4, <3>2
    <3> QED  BY <2>2, <3>1, <3>2
  <2>6. \A n \in new.candidates : \E t \in new.candidatesBy : n \in says[t]
    BY <2>2 DEF Supported
  <2>7. new.confirmed \cap new.candidates = {}  BY <2>2 DEF Supported
  <2>8. /\ new.confirmed # {} => ~Layer!routes[key].listed
        /\ \A n \in new.confirmed : \E t \in new.confirmedBy : Confirms(key, t, n)
    BY <2>2 DEF Supported
  <2>9. Supported(new, key, says, q)  BY <2>3, <2>5, <2>6, <2>7, <2>8 DEF Supported
  <2> QED  BY <2>4, <2>9 DEF new
<1> QED  BY <1>1, <1>2

LEMMA SupportedConfirmed ==
  ASSUME NEW of, NEW key, NEW says, NEW r \in Nat, NEW q \in Nat, Supported(of, key, says, r),
         NEW s \in Tellers, Layer!Rank(s) < q, r <= q, NEW numbers \in SUBSET says[s],
         numbers # {} => ~Layer!routes[key].listed,
         \A n \in numbers : Confirms(key, s, n)
  PROVE  LET new == Layer!AddConfirmed(of, numbers, s)
         IN Supported(new, key, says, q)
              /\ Layer!Known(new) = Layer!Known(of) \cup numbers
<1> DEFINE new == Layer!AddConfirmed(of, numbers, s)
<1>0. \A t \in Tellers : Layer!Rank(t) \in Nat  BY TellersRank
<1>1. CASE numbers = {}
  <2>1. new = of  BY <1>1 DEF Layer!AddConfirmed
  <2>2. Supported(of, key, says, q)  BY <1>0 DEF Supported
  <2> QED  BY <1>1, <2>1, <2>2
<1>2. CASE numbers # {}
  <2>1. new = [confirmed |-> of.confirmed \cup numbers, candidates |-> of.candidates \ numbers,
               confirmedBy |-> of.confirmedBy \cup {s}, candidatesBy |-> of.candidatesBy]
    BY <1>2 DEF Layer!AddConfirmed
  <2> HIDE DEF new
  <2>2. /\ new.confirmed = of.confirmed \cup numbers /\ new.confirmedBy = of.confirmedBy \cup {s}
        /\ new.candidates = of.candidates \ numbers /\ new.candidatesBy = of.candidatesBy
    BY <2>1
  <2>3. RecordOf(new)  BY <2>1, <2>2 DEF RecordOf
  <2>4. Layer!Known(new) = Layer!Known(of) \cup numbers
    BY <2>2 DEF Layer!Known
  <2>5. \A t \in new.confirmedBy \cup new.candidatesBy :
          /\ t \in Tellers /\ Layer!Rank(t) < q
          /\ says[t] \cap Layer!Known(new) # {}
    <3> SUFFICES ASSUME NEW t \in new.confirmedBy \cup new.candidatesBy
                 PROVE  /\ t \in Tellers /\ Layer!Rank(t) < q
                        /\ says[t] \cap Layer!Known(new) # {}
      OBVIOUS
    <3>1. CASE t \in of.confirmedBy \cup of.candidatesBy
      BY <1>0, <2>4, <3>1 DEF Supported
    <3>2. CASE t = s  BY <1>2, <2>4, <3>2
    <3> QED  BY <2>2, <3>1, <3>2
  <2>6. \A n \in new.candidates : \E t \in new.candidatesBy : n \in says[t]
    BY <2>2 DEF Supported
  <2>7. new.confirmed \cap new.candidates = {}  BY <2>2 DEF Supported
  <2>8. /\ new.confirmed # {} => ~Layer!routes[key].listed
        /\ \A n \in new.confirmed : \E t \in new.confirmedBy : Confirms(key, t, n)
    BY <1>2, <2>2 DEF Supported
  <2>9. Supported(new, key, says, q)  BY <2>3, <2>5, <2>6, <2>7, <2>8 DEF Supported
  <2> QED  BY <2>4, <2>9 DEF new
<1> QED  BY <1>1, <1>2

LEMMA SupportedSame ==
  ASSUME NEW of, NEW key, NEW says, NEW says2, NEW r \in Nat, NEW q \in Nat, r <= q,
         Supported(of, key, says, r),
         \A s \in Tellers : Layer!Rank(s) < r => says[s] = says2[s]
  PROVE  Supported(of, key, says2, q)
<1>0. \A t \in Tellers : Layer!Rank(t) \in Nat  BY TellersRank
<1>1. \A s \in of.confirmedBy \cup of.candidatesBy : s \in Tellers /\ says[s] = says2[s]
  BY DEF Supported
<1>2. \A s \in of.confirmedBy \cup of.candidatesBy :
        /\ s \in Tellers /\ Layer!Rank(s) < q
        /\ says2[s] \cap Layer!Known(of) # {}
  BY <1>0, <1>1 DEF Supported
<1>3. \A n \in of.candidates : \E s \in of.candidatesBy : n \in says2[s]
  BY <1>1 DEF Supported
<1> QED  BY <1>2, <1>3 DEF Supported

-----------------------------------------------------------------------------
\* What a source adds to a route.
LEMMA SaysRows ==
  ASSUME NEW key, NEW s \in Layer!SourceSet
  PROVE  /\ s \in Tellers /\ Says(key)[s] = Layer!NumbersOf(Layer!Rows(s, key), key)
         /\ s # "affiliates" => Layer!Rows(s, key) = Layer!RowsOf(s, key)
BY AskedInOrder DEF Says, Layer!States, Layer!Rows

LEMMA OfRows ==
  ASSUME NEW rs, NEW key, NEW n
  PROVE  n \in Layer!NumbersOf(rs, key) <=> \E x \in rs : x.key = key /\ x.number = n
BY DEF Layer!NumbersOf

LEMMA OfSource ==
  ASSUME NEW s, NEW key, NEW x
  PROVE  x \in Layer!RowsOf(s, key) <=> x \in Layer!rows[s] /\ x.key = key
BY DEF Layer!RowsOf

LEMMA EverywhereAre ==
  \A i \in 1..5 :
    /\ Layer!Everywhere[i] \in Layer!SourceSet
    /\ Layer!Everywhere[i] \in {"standing", "affiliates", "bts", "flightsfrom", "audited"}
<1>1. \A i \in 1..5 : Layer!Everywhere[i] = Layer!Steps[i]
  BY DEF Layer!Everywhere
<1>2. \A i \in 1..5 : Layer!Steps[i] \in {"standing", "affiliates", "bts", "flightsfrom", "audited"}
  BY StepsAre
<1> QED  BY <1>1, <1>2, NamesAre DEF Layer!SourceSet, Layer!Sites

LEMMA AddedIs ==
  ASSUME NEW i \in 1..5, NEW key \in DOMAIN Layer!routes, NEW of,
         Layer!Acceptable(Layer!Everywhere[i]), Supported(of, key, Says(key), i)
  PROVE  LET new == Layer!Added(of, Layer!Everywhere[i], key)
         IN Supported(new, key, Says(key), i + 1)
              /\ Layer!Known(new) = Layer!Known(of) \cup Says(key)[Layer!Everywhere[i]]
<1> DEFINE s == Layer!Everywhere[i]
           merely == Layer!NumbersOf(Layer!Merely(s, key), key)
           confirming == Layer!NumbersOf(Layer!Confirming(s, key), key)
           half == Layer!AddCandidates(of, merely, s)
           new == Layer!AddConfirmed(half, confirming, s)
<1>1. /\ s \in Layer!SourceSet /\ s \in Tellers /\ Layer!Rank(s) = i
      /\ s \in {"standing", "affiliates", "bts", "flightsfrom", "audited"}
  BY EverywhereAre, AskedInOrder
<1>2. Layer!Added(of, s, key) = new  BY DEF Layer!Added
<1> HIDE DEF s
<1>3. \A x \in Layer!Confirming(s, key) :
        /\ x \in Layer!rows[s] /\ x.key = key /\ x.strong
        /\ s \in {"standing", "flightsfrom"}
        /\ ~Layer!routes[key].listed
  <2>1. CASE s = "standing"
    <3>1. Layer!Confirming(s, key) = Layer!SeenInTheAir(key)
      BY <2>1 DEF Layer!Confirming
    <3>2. \A x \in Layer!SeenInTheAir(key) :
            x \in Layer!RowsOf(s, key) /\ x.strong /\ ~Layer!routes[key].listed
      BY <2>1 DEF Layer!SeenInTheAir, Layer!Strong
    <3> QED  BY <2>1, <3>1, <3>2, OfSource
  <2>2. CASE s = "flightsfrom"
    <3>1. Layer!Confirming(s, key) = Layer!Strong(Layer!RowsOf(s, key))
      BY <2>2 DEF Layer!Confirming
    <3>2. Layer!ConfirmsKnown(s)  BY <2>2 DEF Layer!Acceptable, s
    <3>3. \A x \in Layer!Strong(Layer!RowsOf(s, key)) :
            x \in Layer!rows[s] /\ x.key = key /\ x.strong
      BY OfSource DEF Layer!Strong
    <3> QED  BY <2>2, <3>1, <3>2, <3>3 DEF Layer!ConfirmsKnown, Layer!Strong
  <2>3. CASE s \notin {"standing", "flightsfrom"}
    BY <2>3 DEF Layer!Confirming
  <2> QED  BY <2>1, <2>2, <2>3
<1>4. Layer!Merely(s, key) \subseteq Layer!Rows(s, key)
  BY DEF Layer!Merely
<1>5. \A x \in Layer!Confirming(s, key) : x \in Layer!Rows(s, key)
  <2>1. CASE s = "affiliates"  BY <1>3, <2>1
  <2>2. CASE s # "affiliates"  BY <1>1, <1>3, <2>2, SaysRows, OfSource
  <2> QED  BY <2>1, <2>2
<1>6. \A x \in Layer!Rows(s, key) :
        x \in Layer!Merely(s, key) \/ x \in Layer!Confirming(s, key)
  <2>1. CASE s = "flightsfrom"
    BY <2>1 DEF Layer!Merely, Layer!Confirming, Layer!Rows
  <2>2. CASE s # "flightsfrom"
    BY <2>2 DEF Layer!Merely
  <2> QED  BY <2>1, <2>2
<1>7. merely \subseteq Says(key)[s] /\ confirming \subseteq Says(key)[s]
  BY <1>1, <1>4, <1>5, SaysRows, OfRows
<1>8. Says(key)[s] = merely \cup confirming
  <2>1. \A n \in Says(key)[s] : n \in merely \cup confirming
    BY <1>1, <1>6, SaysRows, OfRows
  <2> QED  BY <1>7, <2>1
<1>9. /\ confirming # {} => ~Layer!routes[key].listed
      /\ \A n \in confirming : Confirms(key, s, n)
  BY <1>3, OfRows DEF Confirms, Layer!MayConfirm
<1> HIDE DEF merely, confirming
<1>10. Supported(half, key, Says(key), i + 1)
         /\ Layer!Known(half) = Layer!Known(of) \cup merely
  <2>1. i \in Nat /\ i + 1 \in Nat /\ i <= i + 1 /\ Layer!Rank(s) < i + 1  BY <1>1
  <2> QED  BY <1>1, <1>7, <2>1, SupportedCandidates
<1> HIDE DEF half
<1>11. Supported(new, key, Says(key), i + 1)
         /\ Layer!Known(new) = Layer!Known(half) \cup confirming
  <2>1. i + 1 \in Nat /\ i + 1 <= i + 1 /\ Layer!Rank(s) < i + 1  BY <1>1
  <2> QED  BY <1>1, <1>7, <1>9, <1>10, <2>1, SupportedConfirmed
<1> HIDE DEF new
<1>12. Layer!Known(new) = Layer!Known(of) \cup Says(key)[s]
  BY <1>8, <1>10, <1>11
<1> QED  BY <1>2, <1>11, <1>12 DEF s

LEMMA FilledIs ==
  ASSUME NEW s \in {"mrairspace", "adsbiq", "specific"}, NEW key \in DOMAIN Layer!routes, NEW of,
         Layer!Acceptable(s), Supported(of, key, Says(key), Layer!Rank(s))
  PROVE  LET new == Layer!Filled(of, s, key)
         IN Supported(new, key, Says(key), Layer!Rank(s) + 1)
              /\ Layer!Known(new) =
                   IF Layer!Known(of) # {} THEN Layer!Known(of) ELSE Says(key)[s]
<1> DEFINE numbers == Layer!NumbersOf(Layer!rows[s], key)
           half == Layer!AddCandidates(of, numbers, s)
           new == Layer!Filled(of, s, key)
           r == Layer!Rank(s)
<1>1. s \in Tellers /\ s \in Layer!SourceSet /\ r \in Nat /\ r + 1 \in Nat /\ r <= r + 1 /\ r < r + 1
  BY NamesAre, TellersRank DEF Tellers, Layer!SourceSet, Layer!Sites
<1>2. numbers = Says(key)[s]
  <2>1. \A n : n \in numbers <=> n \in Says(key)[s]
    <3>1. Says(key)[s] = Layer!NumbersOf(Layer!RowsOf(s, key), key)
      BY <1>1, SaysRows
    <3> QED  BY <3>1, OfRows, OfSource
  <2>2. \A n \in numbers : n \in Says(key)[s]  BY <2>1
  <2>3. \A n \in Says(key)[s] : n \in numbers  BY <2>1
  <2> HIDE DEF numbers
  <2> QED  BY <2>2, <2>3
<1>3. CASE Layer!Known(of) # {}
  <2>1. new = of  BY <1>3 DEF Layer!Filled
  <2>2. Supported(of, key, Says(key), r + 1)  BY <1>1, SupportedSame
  <2> QED  BY <1>3, <2>1, <2>2
<1>4. CASE Layer!Known(of) = {}
  <2>1. new = IF s = "adsbiq" /\ Layer!MayPromote(key)
              THEN Layer!AddConfirmed(half, numbers, s) ELSE half
    BY <1>4 DEF Layer!Filled
  <2>2. s = "adsbiq" /\ Layer!MayPromote(key) =>
          /\ numbers # {} => ~Layer!routes[key].listed
          /\ \A n \in numbers : Confirms(key, s, n)
    <3> SUFFICES ASSUME s = "adsbiq", Layer!MayPromote(key)
                 PROVE  /\ ~Layer!routes[key].listed
                        /\ \A n \in numbers : Confirms(key, s, n)
      OBVIOUS
    <3>1. Layer!FlownTwice(s)  BY DEF Layer!Acceptable
    <3>2. ASSUME NEW n \in numbers PROVE Confirms(key, s, n)
      <4>1. PICK x \in Layer!rows[s] : x.key = key /\ x.number = n  BY OfRows
      <4>2. x.days >= 2  BY <3>1, <4>1 DEF Layer!FlownTwice
      <4> QED  BY <4>1, <4>2 DEF Confirms, Layer!MayConfirm, Layer!MayPromote
    <3> QED  BY <3>2 DEF Layer!MayPromote
  <2> HIDE DEF numbers
  <2>3. Supported(half, key, Says(key), r + 1)
          /\ Layer!Known(half) = Layer!Known(of) \cup numbers
    BY <1>1, <1>2, SupportedCandidates
  <2> HIDE DEF half
  <2>4. CASE s = "adsbiq" /\ Layer!MayPromote(key)
    <3> DEFINE full == Layer!AddConfirmed(half, numbers, s)
    <3>1. Supported(full, key, Says(key), r + 1)
            /\ Layer!Known(full) = Layer!Known(half) \cup numbers
      <4>1. r + 1 <= r + 1  BY <1>1
      <4> QED  BY <1>1, <1>2, <2>2, <2>3, <2>4, <4>1, SupportedConfirmed
    <3>2. new = full  BY <2>1, <2>4
    <3> HIDE DEF full, new
    <3> QED  BY <1>2, <1>4, <2>3, <3>1, <3>2 DEF new
  <2>5. CASE ~(s = "adsbiq" /\ Layer!MayPromote(key))
    <3>1. new = half  BY <2>1, <2>5
    <3> HIDE DEF new
    <3> QED  BY <1>2, <1>4, <2>3, <3>1 DEF new
  <2> QED  BY <2>4, <2>5
<1> QED  BY <1>3, <1>4

-----------------------------------------------------------------------------
\* Steps of a run.
LEMMA PairOfRoute ==
  ASSUME numberInput \in DOMAIN Inputs, NEW key \in DOMAIN Layer!routes
  PROVE  key.pair \in Layer!Pairs
BY DEF Layer!Pairs, Layer!routes

LEMMA SaysOther ==
  ASSUME numberInput' = numberInput, NEW key, NEW s \in Tellers,
         s \in Layer!Sites => numberCache'[s][key.pair] = numberCache[s][key.pair]
  PROVE  Says(key)'[s] = Says(key)[s]
<1>1. Layer!NumbersOf(Layer!Rows(s, key), key)' = Layer!NumbersOf(Layer!Rows(s, key), key)
  BY DEF Layer!NumbersOf, Layer!Rows, Layer!AffiliateRows, Layer!RowsOf,
         Layer!rows, Layer!routes
<1>2. CASE s \in Layer!Sites
  <2>1. Layer!Filed(s, key.pair)' = Layer!Filed(s, key.pair)
    BY <1>2 DEF Layer!Filed
  <2> QED  BY <1>2, <2>1 DEF Says, Layer!States
<1>3. CASE s \notin Layer!Sites
  BY <1>1, <1>3 DEF Says, Layer!States
<1> QED  BY <1>2, <1>3

LEMMA SaysSame ==
  ASSUME numberInput' = numberInput, numberCache' = numberCache, NEW key
  PROVE  Says(key)' = Says(key)
<1>1. \A s \in Tellers : Says(key)'[s] = Says(key)[s]  BY SaysOther
<1>2. Says(key) = [s \in Tellers |-> Says(key)[s]] /\ Says(key)' = [s \in Tellers |-> Says(key)'[s]]
  BY DEF Says
<1> QED  BY <1>1, <1>2

LEMMA GatheredNext ==
  ASSUME numberInput' = numberInput, DOMAIN numberLayer' = DOMAIN Layer!routes,
         \A key \in DOMAIN Layer!routes :
           /\ Supported(numberLayer'[key], key, Says(key)', Due(key)')
           /\ Layer!Known(numberLayer'[key]) = Told(Says(key)', Due(key)')
  PROVE  Gathered'
<1>1. Layer!routes' = Layer!routes /\ Layer!rows' = Layer!rows
  BY DEF Layer!routes, Layer!rows
<1>2. ASSUME NEW key \in DOMAIN Layer!routes
      PROVE  Supported(numberLayer[key], key, Says(key), Due(key))'
  <2>1. Supported(numberLayer'[key], key, Says(key)', Due(key)')  OBVIOUS
  <2> QED  BY <1>1, <2>1 DEF Supported, Confirms, RecordOf, Layer!MayConfirm, Layer!Known
<1>3. ASSUME NEW key \in DOMAIN Layer!routes
      PROVE  (Layer!Known(numberLayer[key]) = Told(Says(key), Due(key)))'
  <2>1. Layer!Known(numberLayer'[key]) = Told(Says(key)', Due(key)')  OBVIOUS
  <2> QED  BY <2>1 DEF Layer!Known, Told
<1> QED  BY <1>1, <1>2, <1>3 DEF Gathered

\* To the next source.
LEMMA Advanced ==
  ASSUME Layer!NumbersAssumption, NumbersInv, numberStage \in Tellers,
         numberStage' = Layer!After(numberStage), numberInput' = numberInput,
         numberCache' = numberCache, askingWorkers' = askingWorkers, \A w \in Workers : askingWorkers[w] = Void,
         DOMAIN numberLayer' = DOMAIN Layer!routes,
         \A key \in DOMAIN Layer!routes :
           /\ Supported(numberLayer'[key], key, Says(key), Layer!Rank(numberStage) + 1)
           /\ Layer!Known(numberLayer'[key]) = Told(Says(key), Layer!Rank(numberStage) + 1),
         rowsLeft' \subseteq Layer!Pairs,
         \A key \in DOMAIN Layer!routes :
           numberStage' \in Layer!Sites /\ key.pair \notin rowsLeft' =>
             key \in Inputs[numberInput].numbered \/ Layer!Known(numberLayer'[key]) # {}
  PROVE  NumbersInv'
<1> DEFINE q == Layer!Rank(numberStage) + 1
<1>1. /\ numberStage' \in Layer!StepNames /\ Layer!Rank(numberStage') = q
      /\ q \in Nat /\ q + 1 \in Nat /\ q <= q + 1
  BY RankAfter, TellersRank
<1>2. ASSUME NEW key \in DOMAIN Layer!routes
      PROVE  /\ Supported(numberLayer'[key], key, Says(key), Due(key)')
             /\ Layer!Known(numberLayer'[key]) = Told(Says(key), Due(key)')
  <2> HIDE DEF q
  <2>1. Supported(numberLayer'[key], key, Says(key), q) /\ Layer!Known(numberLayer'[key]) = Told(Says(key), q)
    BY <1>2 DEF q
  <2>2. CASE Due(key)' = q  BY <2>1, <2>2
  <2>3. CASE Due(key)' # q
    <3>1. numberStage' \in Layer!Sites /\ ~Pending(key.pair)' /\ Due(key)' = q + 1
      BY <1>1, <2>3 DEF Due
    <3>2. key \in Inputs[numberInput].numbered \/ Layer!Known(numberLayer'[key]) # {}
      BY <3>1 DEF Pending
    <3>3. numberStage' \in Tellers /\ q > 5
      BY <1>1, <3>1, RanksAre, AskedInOrder DEF Layer!Sites
    <3>4. Told(Says(key), q + 1) = IF Told(Says(key), q) # {} THEN Told(Says(key), q) ELSE Says(key)[numberStage']
      BY <1>1, <3>3, ToldFilled
    <3>5. key \in Inputs[numberInput].numbered => Says(key)[numberStage'] = {}
      BY <3>1, <3>3 DEF Says
    <3>6. Told(Says(key), q + 1) = Told(Says(key), q)
      BY <2>1, <3>2, <3>4, <3>5
    <3>7. Supported(numberLayer'[key], key, Says(key), q + 1)
      BY <1>1, <2>1, SupportedSame
    <3> QED  BY <2>1, <3>1, <3>6, <3>7
  <2> QED  BY <2>2, <2>3
<1>3. Gathered'
  <2>1. \A key : Says(key)' = Says(key)  BY SaysSame
  <2> QED  BY <1>2, <2>1, GatheredNext
<1>4. Asking'  BY DEF Asking
<1>5. numberStage' # "done"  BY <1>1, NamesAre
<1> QED  BY <1>1, <1>3, <1>4, <1>5 DEF NumbersInv

LEMMA NoneAsked ==
  ASSUME NumbersInv, numberStage \in Layer!StepNames
  PROVE  /\ Gathered /\ Asking
         /\ numberStage \notin Layer!Sites =>
              /\ \A w \in Workers : askingWorkers[w] = Void
              /\ \A key : Due(key) = Layer!Rank(numberStage)
BY DEF NumbersInv, Layer!Running, Asking, Due

LEMMA GatherKeeps ==
  ASSUME Layer!NumbersAssumption, NumbersInv, NEW i \in DOMAIN Layer!Everywhere,
         Layer!Gather(Layer!Everywhere[i])
  PROVE  NumbersInv'
<1> DEFINE s == Layer!Everywhere[i]
<1>1. /\ i \in 1..5 /\ i \in Nat /\ s \in Tellers /\ Layer!Rank(s) = i
      /\ s \in Layer!SourceSet /\ s \notin Layer!Sites
  BY AskedInOrder, EverywhereAre
<1>2. /\ numberStage = s /\ Layer!Acceptable(s)
      /\ numberLayer' = [key \in DOMAIN Layer!routes |-> Layer!Added(numberLayer[key], s, key)]
      /\ numberStage' = Layer!After(numberStage)
      /\ numberInput' = numberInput /\ numberCache' = numberCache /\ askingWorkers' = askingWorkers
      /\ rowsLeft' = IF s = "audited" THEN {key.pair : key \in {k \in DOMAIN Layer!routes :
                              k \notin Inputs[numberInput].numbered /\ Layer!Known(numberLayer'[k]) = {}}}
                     ELSE {}
  BY DEF Layer!Gather, Layer!At
<1>3. numberStage \in Layer!StepNames /\ numberInput \in DOMAIN Inputs
  BY <1>1, <1>2 DEF Tellers, NumbersInv
<1>4. /\ Gathered /\ \A w \in Workers : askingWorkers[w] = Void
      /\ \A key : Due(key) = i
  BY <1>1, <1>2, <1>3, NoneAsked
<1> HIDE DEF s
<1>5. ASSUME NEW key \in DOMAIN Layer!routes
      PROVE  /\ Supported(numberLayer'[key], key, Says(key), i + 1)
             /\ Layer!Known(numberLayer'[key]) = Told(Says(key), i + 1)
  <2>1. Supported(numberLayer[key], key, Says(key), i) /\ Layer!Known(numberLayer[key]) = Told(Says(key), i)
    BY <1>4 DEF Gathered
  <2>2. numberLayer'[key] = Layer!Added(numberLayer[key], s, key)  BY <1>2
  <2>3. /\ Supported(numberLayer'[key], key, Says(key), i + 1)
        /\ Layer!Known(numberLayer'[key]) = Layer!Known(numberLayer[key]) \cup Says(key)[s]
    BY <1>1, <1>2, <2>1, <2>2, AddedIs DEF s
  <2>4. Told(Says(key), i + 1) = Told(Says(key), i) \cup Says(key)[s]
    BY <1>1, ToldMore
  <2> QED  BY <2>1, <2>3, <2>4
<1>6. DOMAIN numberLayer' = DOMAIN Layer!routes  BY <1>2
<1>7. rowsLeft' \subseteq Layer!Pairs
  BY <1>2, <1>3, PairOfRoute
<1>8. numberStage' \in Layer!Sites => s = "audited"
  BY <1>1, <1>2, RankAfter, RanksAre, NamesAre DEF Layer!Sites, Tellers
<1>9. ASSUME NEW key \in DOMAIN Layer!routes, numberStage' \in Layer!Sites, key.pair \notin rowsLeft'
      PROVE  key \in Inputs[numberInput].numbered \/ Layer!Known(numberLayer'[key]) # {}
  <2>1. rowsLeft' = {k.pair : k \in {x \in DOMAIN Layer!routes :
                       x \notin Inputs[numberInput].numbered /\ Layer!Known(numberLayer'[x]) = {}}}
    BY <1>2, <1>8, <1>9
  <2> QED  BY <1>9, <2>1
<1> QED  BY <1>1, <1>2, <1>4, <1>5, <1>6, <1>7, <1>9, Advanced

LEMMA FillKeeps ==
  ASSUME Layer!NumbersAssumption, NumbersInv, NEW s \in {"mrairspace", "adsbiq", "specific"},
         Layer!Fill(s)
  PROVE  NumbersInv'
<1> DEFINE r == Layer!Rank(s)
<1>1. /\ s \in Tellers /\ s \notin Layer!Sites /\ r \in Nat /\ r > 5
      /\ Layer!After(s) \notin Layer!Sites
  BY RanksAre, NamesAre, StepsAre DEF Tellers, Layer!Sites, Layer!After
<1>2. /\ numberStage = s /\ Layer!Acceptable(s)
      /\ numberLayer' = [key \in DOMAIN Layer!routes |-> Layer!Filled(numberLayer[key], s, key)]
      /\ numberStage' = Layer!After(numberStage)
      /\ numberInput' = numberInput /\ numberCache' = numberCache /\ askingWorkers' = askingWorkers
      /\ rowsLeft' = rowsLeft
  BY DEF Layer!Fill, Layer!At
<1>3. numberStage \in Layer!StepNames /\ rowsLeft' \subseteq Layer!Pairs
  BY <1>1, <1>2 DEF Tellers, NumbersInv
<1>4. /\ Gathered /\ \A w \in Workers : askingWorkers[w] = Void
      /\ \A key : Due(key) = r
  BY <1>1, <1>2, <1>3, NoneAsked
<1>5. ASSUME NEW key \in DOMAIN Layer!routes
      PROVE  /\ Supported(numberLayer'[key], key, Says(key), r + 1)
             /\ Layer!Known(numberLayer'[key]) = Told(Says(key), r + 1)
  <2>1. Supported(numberLayer[key], key, Says(key), r) /\ Layer!Known(numberLayer[key]) = Told(Says(key), r)
    BY <1>4 DEF Gathered
  <2>2. numberLayer'[key] = Layer!Filled(numberLayer[key], s, key)  BY <1>2
  <2>3. /\ Supported(numberLayer'[key], key, Says(key), r + 1)
        /\ Layer!Known(numberLayer'[key]) =
             IF Layer!Known(numberLayer[key]) # {} THEN Layer!Known(numberLayer[key]) ELSE Says(key)[s]
    BY <1>1, <1>2, <2>1, <2>2, FilledIs
  <2>4. Told(Says(key), r + 1) = IF Told(Says(key), r) # {} THEN Told(Says(key), r) ELSE Says(key)[s]
    BY <1>1, ToldFilled
  <2> QED  BY <2>1, <2>3, <2>4
<1>6. DOMAIN numberLayer' = DOMAIN Layer!routes  BY <1>2
<1> QED  BY <1>1, <1>2, <1>3, <1>4, <1>5, <1>6, Advanced

LEMMA LeaveKeeps ==
  ASSUME Layer!NumbersAssumption, NumbersInv, NEW s \in Layer!Sites, Layer!Leave(s)
  PROVE  NumbersInv'
<1> DEFINE r == Layer!Rank(s)
<1>1. /\ s \in Tellers /\ r \in Nat /\ r > 5
      /\ Layer!After(s) \in Layer!Sites => s = "connections"
  BY RanksAre, NamesAre, StepsAre DEF Tellers, Layer!Sites, Layer!After
<1>2. /\ numberStage = s /\ rowsLeft = {} /\ \A w \in Workers : askingWorkers[w] = Void
      /\ numberLayer' = numberLayer
      /\ numberStage' = Layer!After(numberStage)
      /\ numberInput' = numberInput /\ numberCache' = numberCache /\ askingWorkers' = askingWorkers
      /\ rowsLeft' = IF s = "connections" THEN {key.pair : key \in Layer!Missing} ELSE {}
  BY DEF Layer!Leave, Layer!At
<1>3. numberStage \in Layer!StepNames /\ numberInput \in DOMAIN Inputs
  BY <1>1, <1>2 DEF Tellers, NumbersInv
<1>4. Gathered  BY <1>3, NoneAsked
<1>5. ASSUME NEW key \in DOMAIN Layer!routes PROVE Due(key) = r + 1
  <2>1. key.pair # Void  BY <1>3, PairOfRoute DEF Layer!NumbersAssumption
  <2>2. ~Pending(key.pair)  BY <1>2, <2>1 DEF Pending
  <2> QED  BY <1>2, <2>2 DEF Due
<1>6. /\ DOMAIN numberLayer' = DOMAIN Layer!routes
      /\ \A key \in DOMAIN Layer!routes :
           /\ Supported(numberLayer'[key], key, Says(key), r + 1)
           /\ Layer!Known(numberLayer'[key]) = Told(Says(key), r + 1)
  BY <1>2, <1>4, <1>5 DEF Gathered
<1>7. rowsLeft' \subseteq Layer!Pairs
  BY <1>2, <1>3, PairOfRoute DEF Layer!Missing
<1>8. ASSUME NEW key \in DOMAIN Layer!routes, numberStage' \in Layer!Sites, key.pair \notin rowsLeft'
      PROVE  key \in Inputs[numberInput].numbered \/ Layer!Known(numberLayer'[key]) # {}
  <2>1. rowsLeft' = {k.pair : k \in Layer!Missing}  BY <1>1, <1>2, <1>8
  <2>2. key \notin Layer!Missing  BY <1>8, <2>1
  <2> QED  BY <1>2, <2>2 DEF Layer!Missing
<1> QED  BY <1>1, <1>2, <1>6, <1>7, <1>8, Advanced

-----------------------------------------------------------------------------
\* A page that is read, or missed, for the routes of its pair.
OfCarrier(listing, key) == {n \in listing.numbers : n.carrier = key.carrier}

LEMMA PageGives ==
  ASSUME NEW s \in Layer!Sites, NEW key, NEW of, NEW says, NEW says2, NEW listing \in SitePages,
         Supported(of, key, says, Layer!Rank(s)),
         Layer!Known(of) = Told(says, Layer!Rank(s)),
         \A t \in Tellers : Layer!Rank(t) < Layer!Rank(s) => says[t] = says2[t],
         says2[s] = IF key \in Inputs[numberInput].numbered THEN {} ELSE OfCarrier(listing, key)
  PROVE  LET new == IF /\ key \notin Inputs[numberInput].numbered /\ Layer!Known(of) = {}
                       /\ listing.good
                    THEN Layer!AddCandidates(of, OfCarrier(listing, key), s) ELSE of
         IN Supported(new, key, says2, Layer!Rank(s) + 1)
              /\ Layer!Known(new) = Told(says2, Layer!Rank(s) + 1)
<1> DEFINE r == Layer!Rank(s)
           numbers == OfCarrier(listing, key)
           takes == key \notin Inputs[numberInput].numbered /\ Layer!Known(of) = {} /\ listing.good
           new == IF takes THEN Layer!AddCandidates(of, numbers, s) ELSE of
<1>1. s \in Tellers /\ r \in Nat /\ r + 1 \in Nat /\ r <= r + 1 /\ r < r + 1 /\ r > 5
  BY RanksAre, AskedInOrder DEF Layer!Sites
<1>2. ~listing.good => numbers = {}
  BY DEF SitePages, Layer!Failed, Layer!Page, OfCarrier
<1>3. Told(says2, r) = Layer!Known(of)
  BY <1>1, ToldSame
<1>4. Told(says2, r + 1) = IF Told(says2, r) # {} THEN Told(says2, r) ELSE says2[s]
  BY <1>1, ToldFilled
<1>5. Supported(of, key, says2, r)
  BY <1>1, SupportedSame
<1> HIDE DEF numbers, r
<1>6. CASE takes
  <2>1. numbers \in SUBSET says2[s] /\ numbers = says2[s]  BY <1>6 DEF numbers
  <2>2. /\ Supported(Layer!AddCandidates(of, numbers, s), key, says2, r + 1)
        /\ Layer!Known(Layer!AddCandidates(of, numbers, s)) = Layer!Known(of) \cup numbers
    BY <1>1, <1>5, <2>1, SupportedCandidates DEF r
  <2>3. Layer!Known(Layer!AddCandidates(of, numbers, s)) = Told(says2, r + 1)
    BY <1>3, <1>4, <1>6, <2>1, <2>2
  <2>4. new = Layer!AddCandidates(of, numbers, s)  BY <1>6
  <2> QED  BY <2>2, <2>3, <2>4 DEF numbers, r
<1>7. CASE ~takes
  <2>1. Supported(of, key, says2, r + 1)  BY <1>1, <1>5, SupportedSame
  <2>2. Layer!Known(of) = {} => says2[s] = {}  BY <1>2, <1>7 DEF numbers
  <2>3. Layer!Known(of) = Told(says2, r + 1)  BY <1>3, <1>4, <2>2
  <2>4. new = of  BY <1>7
  <2> QED  BY <2>1, <2>3, <2>4 DEF numbers, r
<1> QED  BY <1>6, <1>7

LEMMA PairDone ==
  ASSUME NumbersInv, NEW s \in Layer!Sites, numberStage = s, numberStage' = s,
         numberInput' = numberInput, NEW pair \in Layer!Pairs, NEW listing \in SitePages, Pending(pair),
         DOMAIN numberLayer' = DOMAIN numberLayer,
         \A key \in DOMAIN numberLayer :
           numberLayer'[key] =
             IF key \in Layer!Missing /\ key.pair = pair /\ listing.good
             THEN Layer!AddCandidates(numberLayer[key], OfCarrier(listing, key), s)
             ELSE numberLayer[key],
         \A t \in Layer!Sites, p \in Layer!Pairs :
           t # s \/ p # pair => numberCache'[t][p] = numberCache[t][p],
         Layer!Filed(s, pair)' = listing,
         \A p \in Layer!Pairs : Pending(p)' <=> Pending(p) /\ p # pair
  PROVE  Gathered'
<1> DEFINE r == Layer!Rank(s)
<1>1. s \in Tellers /\ r \in Nat /\ numberStage \in Layer!StepNames
  BY AskedInOrder, TellersRank DEF Tellers
<1>2. Gathered  BY <1>1, NoneAsked
<1>3. DOMAIN numberLayer' = DOMAIN Layer!routes  BY <1>2 DEF Gathered
<1>4. ASSUME NEW key \in DOMAIN Layer!routes
      PROVE  /\ Supported(numberLayer'[key], key, Says(key)', Due(key)')
             /\ Layer!Known(numberLayer'[key]) = Told(Says(key)', Due(key)')
  <2>1. key.pair \in Layer!Pairs  BY PairOfRoute DEF NumbersInv
  <2>2. /\ Supported(numberLayer[key], key, Says(key), Due(key))
        /\ Layer!Known(numberLayer[key]) = Told(Says(key), Due(key))
        /\ key \in DOMAIN numberLayer
    BY <1>2 DEF Gathered
  <2>3. CASE key.pair = pair
    <3>1. Due(key) = r /\ Due(key)' = r + 1  BY <2>1, <2>3 DEF Due
    <3>2. ASSUME NEW t \in Tellers, Layer!Rank(t) < r PROVE Says(key)[t] = Says(key)'[t]
      <4>1. t # s  BY <1>1, <3>2
      <4>2. t \in Layer!Sites => numberCache'[t][key.pair] = numberCache[t][key.pair]
        BY <2>1, <4>1
      <4> QED  BY <4>2, SaysOther
    <3>3. Says(key)'[s] = IF key \in Inputs[numberInput].numbered THEN {} ELSE OfCarrier(listing, key)
      BY <1>1, <2>3 DEF Says, Layer!States, OfCarrier
    <3>4. numberLayer'[key] =
            IF /\ key \notin Inputs[numberInput].numbered /\ Layer!Known(numberLayer[key]) = {}
               /\ listing.good
            THEN Layer!AddCandidates(numberLayer[key], OfCarrier(listing, key), s) ELSE numberLayer[key]
      BY <2>2, <2>3 DEF Layer!Missing
    <3>5. /\ Supported(numberLayer[key], key, Says(key), Layer!Rank(s))
          /\ Layer!Known(numberLayer[key]) = Told(Says(key), Layer!Rank(s))
      BY <2>2, <3>1
    <3>6. \A t \in Tellers : Layer!Rank(t) < Layer!Rank(s) => Says(key)[t] = Says(key)'[t]
      BY <3>2
    <3>7. /\ Supported(numberLayer'[key], key, Says(key)', Layer!Rank(s) + 1)
          /\ Layer!Known(numberLayer'[key]) = Told(Says(key)', Layer!Rank(s) + 1)
      BY <3>3, <3>4, <3>5, <3>6, PageGives
    <3> QED  BY <3>1, <3>7
  <2>4. CASE key.pair # pair
    <3>1. Due(key)' = Due(key)  BY <2>1, <2>4 DEF Due
    <3>2. \A t \in Tellers : Says(key)'[t] = Says(key)[t]
      BY <2>1, <2>4, SaysOther
    <3>3. Says(key)' = Says(key)
      <4>1. Says(key) = [t \in Tellers |-> Says(key)[t]] /\ Says(key)' = [t \in Tellers |-> Says(key)'[t]]
        BY DEF Says
      <4> QED  BY <3>2, <4>1
    <3>4. numberLayer'[key] = numberLayer[key]  BY <2>2, <2>4
    <3> QED  BY <2>2, <3>1, <3>3, <3>4
  <2> QED  BY <2>3, <2>4
<1> QED  BY <1>3, <1>4, GatheredNext

LEMMA FiledIs ==
  ASSUME Layer!NumbersAssumption, NumbersInv, NEW s \in Layer!Sites, NEW pair \in Layer!Pairs
  PROVE  /\ Layer!Filed(s, pair) \in SitePages
         /\ numberCache[s][pair] # Void => Layer!Filed(s, pair) = numberCache[s][pair]
         /\ numberCache[s][pair] = Void => Layer!Filed(s, pair) = Layer!Failed
<1>1. numberCache[s][pair] \in SitePages \cup {Void}  BY DEF NumbersInv
<1> QED  BY <1>1 DEF Layer!Filed, SitePages

LEMMA TakeKeeps ==
  ASSUME Layer!NumbersAssumption, NumbersInv, NEW s \in Layer!Sites, NEW w \in Workers,
         NEW pair \in Layer!Pairs, Layer!Take(s, w, pair)
  PROVE  NumbersInv'
<1>1. /\ numberStage = s /\ numberStage' = s /\ askingWorkers[w] = Void /\ pair \in rowsLeft
      /\ rowsLeft' = rowsLeft \ {pair}
      /\ numberInput' = numberInput /\ numberCache' = numberCache
  BY DEF Layer!Take, Layer!At
<1>2. /\ numberStage \in Layer!StepNames /\ s \in Tellers /\ pair # Void
      /\ numberStage' \in Layer!StepNames /\ numberStage' # "done"
  BY <1>1, NamesAre, AskedInOrder DEF Tellers, Layer!Sites, Layer!NumbersAssumption
<1>3. Gathered /\ Asking  BY <1>2, NoneAsked
<1>4. \A v \in Workers : askingWorkers[v] # pair
  BY <1>1, <1>2, <1>3 DEF Asking
<1>5. /\ Layer!Filed(s, pair)' = Layer!Filed(s, pair)
      /\ Layer!Filed(s, pair) \in SitePages
  BY <1>1, FiledIs DEF Layer!Filed
<1>6. ASSUME UNCHANGED askingWorkers, DOMAIN numberLayer' = DOMAIN numberLayer,
             \A key \in DOMAIN numberLayer :
               numberLayer'[key] =
                 IF key \in Layer!Missing /\ key.pair = pair /\ Layer!Filed(s, pair).good
                 THEN Layer!AddCandidates(numberLayer[key], OfCarrier(Layer!Filed(s, pair), key), s)
                 ELSE numberLayer[key]
      PROVE  NumbersInv'
  <2>1. Pending(pair)  BY <1>1 DEF Pending
  <2>2. \A p \in Layer!Pairs : Pending(p)' <=> Pending(p) /\ p # pair
    BY <1>1, <1>4, <1>6 DEF Pending
  <2>3. Gathered'  BY <1>1, <1>5, <1>6, <2>1, <2>2, PairDone
  <2>4. Asking'  BY <1>1, <1>3, <1>6 DEF Asking
  <2> QED  BY <1>1, <1>2, <1>6, <2>3, <2>4 DEF NumbersInv
<1>7. CASE Layer!OnFile(s, pair)
  <2>1. /\ Layer!Read(s, pair, numberCache[s][pair]) /\ UNCHANGED askingWorkers
    BY <1>7 DEF Layer!Take
  <2>2. Layer!Filed(s, pair) = numberCache[s][pair]
    BY <1>7, FiledIs DEF Layer!OnFile
  <2> QED  BY <1>6, <2>1, <2>2 DEF Layer!Read, OfCarrier
<1>8. CASE ~Layer!OnFile(s, pair) /\ s \notin allowedNumbers
  <2>1. numberLayer' = numberLayer /\ UNCHANGED askingWorkers
    BY <1>8 DEF Layer!Take
  <2>2. Layer!Filed(s, pair) = Layer!Failed
    BY <1>8, FiledIs DEF Layer!OnFile
  <2>3. ~Layer!Filed(s, pair).good
    BY <2>2 DEF Layer!Failed, Layer!Page
  <2> QED  BY <1>6, <2>1, <2>3
<1>9. CASE ~Layer!OnFile(s, pair) /\ s \in allowedNumbers
  <2>1. numberLayer' = numberLayer /\ askingWorkers' = [askingWorkers EXCEPT ![w] = pair]
    BY <1>9 DEF Layer!Take
  <2>2. /\ askingWorkers' \in [Workers -> Layer!Pairs \cup {Void}]
        /\ askingWorkers'[w] = pair /\ \A v \in Workers : v # w => askingWorkers'[v] = askingWorkers[v]
    BY <2>1 DEF NumbersInv
  <2>3. \A p \in Layer!Pairs : Pending(p)' <=> Pending(p)
    <3> SUFFICES ASSUME NEW p \in Layer!Pairs PROVE Pending(p)' <=> Pending(p)  OBVIOUS
    <3>1. p # Void  BY DEF Layer!NumbersAssumption
    <3>2. CASE p = pair  BY <1>1, <2>2, <3>2 DEF Pending
    <3>3. CASE p # pair  BY <1>1, <2>2, <3>1, <3>3 DEF Pending
    <3> QED  BY <3>2, <3>3
  <2>4. ASSUME NEW key \in DOMAIN Layer!routes
        PROVE  /\ Supported(numberLayer'[key], key, Says(key)', Due(key)')
               /\ Layer!Known(numberLayer'[key]) = Told(Says(key)', Due(key)')
    <3>1. key.pair \in Layer!Pairs  BY PairOfRoute DEF NumbersInv
    <3>2. Due(key)' = Due(key)  BY <1>1, <2>3, <3>1 DEF Due
    <3>3. Says(key)' = Says(key)  BY <1>1, SaysSame
    <3> QED  BY <1>3, <2>1, <3>2, <3>3 DEF Gathered
  <2>5. Gathered'  BY <1>1, <1>3, <2>1, <2>4, GatheredNext DEF Gathered
  <2>6. Asking'
    <3> SUFFICES ASSUME NEW v \in Workers, askingWorkers'[v] # Void
                 PROVE  /\ askingWorkers'[v] \notin rowsLeft'
                        /\ \A u \in Workers : askingWorkers'[u] = askingWorkers'[v] => u = v
      BY <1>1 DEF Asking
    <3>1. CASE v = w  BY <1>1, <1>4, <2>2, <3>1
    <3>2. CASE v # w  BY <1>1, <1>3, <1>4, <2>2, <3>2 DEF Asking
    <3> QED  BY <3>1, <3>2
  <2>7. rowsLeft' \subseteq Layer!Pairs  BY <1>1 DEF NumbersInv
  <2> QED  BY <1>1, <1>2, <2>2, <2>5, <2>6, <2>7 DEF NumbersInv
<1> QED  BY <1>7, <1>8, <1>9

LEMMA AnswerKeeps ==
  ASSUME Layer!NumbersAssumption, NumbersInv, NEW s \in Layer!Sites, NEW w \in Workers,
         NEW listing \in SitePages, Layer!Answer(s, w, listing)
  PROVE  NumbersInv'
<1> PICK pair : pair = askingWorkers[w]  OBVIOUS
<1>1. /\ numberStage = s /\ numberStage' = s /\ pair # Void /\ pair \in Layer!Pairs
      /\ numberCache' = [numberCache EXCEPT ![s][pair] = listing]
      /\ Layer!Read(s, pair, listing)
      /\ askingWorkers' = [askingWorkers EXCEPT ![w] = Void]
      /\ rowsLeft' = rowsLeft /\ numberInput' = numberInput
  BY DEF Layer!Answer, Layer!At, NumbersInv
<1>2. /\ numberStage \in Layer!StepNames /\ s \in Tellers
      /\ numberStage' \in Layer!StepNames /\ numberStage' # "done"
  BY <1>1, NamesAre, AskedInOrder DEF Tellers, Layer!Sites
<1>3. Gathered /\ Asking  BY <1>2, NoneAsked
<1>4. /\ pair \notin rowsLeft /\ \A v \in Workers : askingWorkers[v] = pair => v = w
  BY <1>1, <1>3 DEF Asking
<1>5. /\ askingWorkers' \in [Workers -> Layer!Pairs \cup {Void}]
      /\ askingWorkers'[w] = Void /\ \A v \in Workers : v # w => askingWorkers'[v] = askingWorkers[v]
  BY <1>1 DEF NumbersInv
<1>6. /\ numberCache' \in [Layer!Sites -> [Layer!Pairs -> SitePages \cup {Void}]]
      /\ numberCache'[s][pair] = listing
      /\ \A t \in Layer!Sites, p \in Layer!Pairs :
           t # s \/ p # pair => numberCache'[t][p] = numberCache[t][p]
  BY <1>1 DEF NumbersInv
<1>7. listing # Void  BY DEF SitePages, Layer!NumbersAssumption
<1>8. Layer!Filed(s, pair)' = listing  BY <1>6, <1>7 DEF Layer!Filed
<1>9. Pending(pair)  BY DEF Pending
<1>10. \A p \in Layer!Pairs : Pending(p)' <=> Pending(p) /\ p # pair
  <2> SUFFICES ASSUME NEW p \in Layer!Pairs PROVE Pending(p)' <=> Pending(p) /\ p # pair  OBVIOUS
  <2>1. p # Void  BY DEF Layer!NumbersAssumption
  <2>2. CASE p = pair  BY <1>1, <1>4, <1>5, <2>1, <2>2 DEF Pending
  <2>3. CASE p # pair
    <3>1. \A v \in Workers : askingWorkers'[v] = p <=> askingWorkers[v] = p
      BY <1>5, <2>1, <2>3
    <3> QED  BY <1>1, <2>3, <3>1 DEF Pending
  <2> QED  BY <2>2, <2>3
<1>11. /\ DOMAIN numberLayer' = DOMAIN numberLayer
       /\ \A key \in DOMAIN numberLayer :
            numberLayer'[key] =
              IF key \in Layer!Missing /\ key.pair = pair /\ listing.good
              THEN Layer!AddCandidates(numberLayer[key], OfCarrier(listing, key), s)
              ELSE numberLayer[key]
  BY <1>1 DEF Layer!Read, OfCarrier
<1>12. Gathered'  BY <1>1, <1>6, <1>8, <1>9, <1>10, <1>11, PairDone
<1>13. Asking'
  <2> SUFFICES ASSUME NEW v \in Workers, askingWorkers'[v] # Void
               PROVE  /\ askingWorkers'[v] \notin rowsLeft'
                      /\ \A u \in Workers : askingWorkers'[u] = askingWorkers'[v] => u = v
    BY <1>1 DEF Asking
  <2>1. v # w /\ askingWorkers'[v] = askingWorkers[v]  BY <1>5
  <2> QED  BY <1>1, <1>3, <1>5, <2>1 DEF Asking
<1> QED  BY <1>1, <1>2, <1>5, <1>6, <1>12, <1>13 DEF NumbersInv

-----------------------------------------------------------------------------
\* The file that is written.
LEMMA SpeaksAre ==
  ASSUME NEW key
  PROVE  /\ \A s : s \in Layer!Speaks(key) <=> s \in Tellers /\ Says(key)[s] # {}
         /\ \A s : s \in Layer!Fillers(key) <=>
                     s \in Layer!Speaks(key) /\ Layer!Rank(s) > 5
         /\ \A s \in Layer!Speaks(key) : Layer!States(s, key) = Says(key)[s]
<1>1. ASSUME NEW s \in Tellers
      PROVE  /\ Says(key)[s] = IF s \in Layer!Sites /\ key \in Inputs[numberInput].numbered THEN {}
                               ELSE Layer!States(s, key)
             /\ s \in Layer!SourceSet \cup Layer!Sites
  BY AskedInOrder DEF Says
<1>2. \A s : s \in Layer!Speaks(key) <=> s \in Tellers /\ Says(key)[s] # {}
  BY <1>1, AskedInOrder DEF Layer!Speaks
<1>3. \A s : s \in Layer!Fillers(key) <=>
                     s \in Layer!Speaks(key) /\ Layer!Rank(s) > 5
  BY AskedInOrder DEF Layer!Fillers
<1>4. \A s \in Layer!Speaks(key) : Layer!States(s, key) = Says(key)[s]
  BY <1>1, <1>2
<1> QED  BY <1>2, <1>3, <1>4

LEMMA AllTold ==
  ASSUME NEW key
  PROVE  LET everywhere == Layer!Speaks(key) \ Layer!Fillers(key)
             first == {s \in Layer!Fillers(key) :
                         \A t \in Layer!Fillers(key) : Layer!Rank(s) <= Layer!Rank(t)}
         IN Told(Says(key), 11) =
              UNION {Layer!States(s, key) : s \in IF everywhere # {} THEN everywhere ELSE first}
<1> DEFINE everywhere == Layer!Speaks(key) \ Layer!Fillers(key)
           first == {s \in Layer!Fillers(key) :
                       \A t \in Layer!Fillers(key) : Layer!Rank(s) <= Layer!Rank(t)}
           those == IF everywhere # {} THEN everywhere ELSE first
           numbers == UNION {Layer!States(s, key) : s \in those}
<1>1. \A s \in Tellers : Layer!Rank(s) \in Nat /\ Layer!Rank(s) < 11  BY TellersRank
<1>2. \A s : s \in everywhere <=> s \in Tellers /\ Says(key)[s] # {} /\ ~(Layer!Rank(s) > 5)
  BY SpeaksAre
<1>3. \A s : s \in first <=>
        /\ s \in Tellers /\ Says(key)[s] # {} /\ Layer!Rank(s) > 5
        /\ \A t \in Tellers : Says(key)[t] # {} /\ Layer!Rank(t) > 5 =>
             Layer!Rank(s) <= Layer!Rank(t)
  BY SpeaksAre
<1>4. \A s \in those : s \in Tellers /\ Layer!States(s, key) = Says(key)[s]
  BY <1>2, <1>3, SpeaksAre
<1>5. \A n : n \in numbers <=> \E s \in those : n \in Says(key)[s]
  BY <1>4
<1> HIDE DEF numbers, everywhere, first
<1>6. ASSUME NEW n \in Told(Says(key), 11) PROVE n \in numbers
  <2>1. PICK s \in Tellers :
          /\ n \in Says(key)[s]
          /\ Layer!Rank(s) > 5 =>
               \A t \in Tellers : Says(key)[t] # {} => Layer!Rank(s) <= Layer!Rank(t)
    BY <1>6, ToldIs
  <2>2. CASE Layer!Rank(s) > 5
    <3>1. s \in first  BY <1>3, <2>1, <2>2
    <3>2. everywhere = {}
      <4> SUFFICES ASSUME NEW t \in everywhere PROVE FALSE  OBVIOUS
      <4>1. t \in Tellers /\ Says(key)[t] # {} /\ ~(Layer!Rank(t) > 5)  BY <1>2
      <4> QED  BY <1>1, <2>1, <2>2, <4>1
    <3> QED  BY <1>5, <2>1, <3>1, <3>2
  <2>3. CASE ~(Layer!Rank(s) > 5)
    <3>1. s \in everywhere  BY <1>2, <2>1, <2>3
    <3> QED  BY <1>5, <2>1, <3>1
  <2> QED  BY <2>2, <2>3
<1>7. ASSUME NEW n \in numbers PROVE n \in Told(Says(key), 11)
  <2>1. PICK s \in those : n \in Says(key)[s]  BY <1>5, <1>7
  <2>2. s \in Tellers /\ Layer!Rank(s) < 11  BY <1>1, <1>4
  <2>3. CASE everywhere # {}
    <3>1. ~(Layer!Rank(s) > 5)  BY <1>2, <2>3
    <3> QED  BY <2>1, <2>2, <3>1, ToldIs
  <2>4. CASE everywhere = {}
    <3>1. s \in first  BY <2>4
    <3>2. ASSUME NEW t \in Tellers, Says(key)[t] # {} PROVE Layer!Rank(s) <= Layer!Rank(t)
      <4>1. Layer!Rank(t) > 5  BY <1>2, <2>4, <3>2
      <4> QED  BY <1>3, <3>1, <3>2, <4>1
    <3> QED  BY <2>1, <2>2, <3>2, ToldIs
  <2> QED  BY <2>3, <2>4
<1>8. Told(Says(key), 11) = numbers  BY <1>6, <1>7
<1> QED  BY <1>8 DEF numbers, everywhere, first

LEMMA WrittenIs ==
  ASSUME NEW of, RecordOf(of)
  PROVE  LET new == Layer!Written(of)
         IN /\ new.confirmed = of.confirmed /\ new.candidates = of.candidates
            /\ new.confirmedBy = IF of.confirmed = {} THEN {} ELSE of.confirmedBy
            /\ new.candidatesBy = IF of.candidates = {} THEN {} ELSE of.candidatesBy
<1> DEFINE plain == [confirmed |-> of.confirmed, candidates |-> of.candidates,
                     confirmedBy |-> of.confirmedBy, candidatesBy |-> of.candidatesBy]
<1>1. of = plain  BY DEF RecordOf
<1>2. Layer!Written(of) =
        [plain EXCEPT !.confirmedBy = IF of.confirmed = {} THEN {} ELSE of.confirmedBy,
                      !.candidatesBy = IF of.candidates = {} THEN {} ELSE of.candidatesBy]
  BY <1>1 DEF Layer!Written
<1> QED  BY <1>2

LEMMA WriteKeeps ==
  ASSUME Layer!NumbersAssumption, NumbersInv, Layer!Write
  PROVE  NumbersInv'
<1>1. /\ numberStage = "write" /\ numberStage' = "done"
      /\ numberLayer' = [key \in {k \in DOMAIN numberLayer : Layer!Known(numberLayer[k]) # {}} |->
                           Layer!Written(numberLayer[key])]
      /\ UNCHANGED <<numberInput, numberCache, rowsLeft, askingWorkers>>
  BY DEF Layer!Write, Layer!At
<1>2. numberStage \in Layer!StepNames /\ numberStage \notin Layer!Sites
  BY <1>1, NamesAre DEF Layer!Sites
<1>3. Gathered /\ \A key : Due(key) = 11  BY <1>1, <1>2, NoneAsked, RanksAre
<1>4. DOMAIN numberLayer = DOMAIN Layer!routes  BY <1>3 DEF Gathered
<1>5. \A key \in DOMAIN Layer!routes :
        /\ Supported(numberLayer[key], key, Says(key), 11)
        /\ Layer!Known(numberLayer[key]) = Told(Says(key), 11)
  BY <1>3 DEF Gathered
<1>6. /\ \A key \in DOMAIN numberLayer' :
           /\ key \in DOMAIN Layer!routes /\ Layer!Known(numberLayer[key]) # {}
           /\ numberLayer'[key] = Layer!Written(numberLayer[key])
      /\ \A key \in DOMAIN Layer!routes :
           Layer!Known(numberLayer[key]) # {} => key \in DOMAIN numberLayer'
  BY <1>1, <1>4
<1>7. /\ Layer!routes' = Layer!routes /\ Layer!rows' = Layer!rows
      /\ \A s, key : Layer!States(s, key)' = Layer!States(s, key)
  BY <1>1 DEF Layer!routes, Layer!rows, Layer!States, Layer!Filed,
       Layer!NumbersOf, Layer!Rows, Layer!AffiliateRows, Layer!RowsOf
<1>8. Layer!NumbersSupported'
  <2> SUFFICES ASSUME NEW key \in DOMAIN numberLayer'
               PROVE  LET of == numberLayer'[key] IN
        /\ of.confirmed # {} => ~Layer!routes[key].listed
        /\ of.confirmed \cap of.candidates = {}
        /\ \A n \in of.confirmed :
             \E source \in of.confirmedBy : \E x \in Layer!rows[source] :
               x.key = key /\ x.number = n /\ Layer!MayConfirm(source, x)
        /\ \A n \in of.candidates : \E source \in of.candidatesBy : n \in Layer!States(source, key)
        /\ \A source \in of.confirmedBy \cup of.candidatesBy :
             Layer!States(source, key) \cap Layer!Known(of) # {}
    BY <1>7 DEF Layer!NumbersSupported, Layer!MayConfirm, Layer!Known
  <2> DEFINE old == numberLayer[key]
             new == numberLayer'[key]
  <2>1. key \in DOMAIN Layer!routes /\ new = Layer!Written(old)  BY <1>6
  <2>2. Supported(old, key, Says(key), 11)  BY <1>5, <2>1
  <2>3. \A s \in Tellers : \A n : n \in Says(key)[s] => n \in Layer!States(s, key)
    BY DEF Says
  <2> HIDE DEF old, new
  <2>4. /\ new.confirmed = old.confirmed /\ new.candidates = old.candidates
        /\ new.confirmedBy = IF old.confirmed = {} THEN {} ELSE old.confirmedBy
        /\ new.candidatesBy = IF old.candidates = {} THEN {} ELSE old.candidatesBy
    BY <2>1, <2>2, WrittenIs DEF Supported
  <2>5. Layer!Known(new) = Layer!Known(old)  BY <2>4 DEF Layer!Known
  <2>6. /\ new.confirmed # {} => ~Layer!routes[key].listed
        /\ new.confirmed \cap new.candidates = {}
        /\ \A n \in new.confirmed : \E s \in new.confirmedBy : Confirms(key, s, n)
    BY <2>2, <2>4 DEF Supported
  <2>7. \A n \in new.candidates : \E s \in new.candidatesBy : n \in Layer!States(s, key)
    BY <2>2, <2>3, <2>4 DEF Supported
  <2>8. \A s \in new.confirmedBy \cup new.candidatesBy :
          Layer!States(s, key) \cap Layer!Known(new) # {}
    <3> SUFFICES ASSUME NEW s \in new.confirmedBy \cup new.candidatesBy
                 PROVE  Layer!States(s, key) \cap Layer!Known(new) # {}
      OBVIOUS
    <3>1. s \in old.confirmedBy \cup old.candidatesBy  BY <2>4
    <3>2. s \in Tellers /\ Says(key)[s] \cap Layer!Known(old) # {}  BY <2>2, <3>1 DEF Supported
    <3> QED  BY <2>3, <2>5, <3>2
  <2> QED  BY <2>6, <2>7, <2>8 DEF Confirms, new
<1>9. Layer!LayerReproducible'
  <2>1. ASSUME NEW key \in DOMAIN Layer!routes
        PROVE  IF Told(Says(key), 11) = {} THEN key \notin DOMAIN numberLayer'
               ELSE key \in DOMAIN numberLayer' /\ Layer!Known(numberLayer'[key]) = Told(Says(key), 11)
    <3>1. Supported(numberLayer[key], key, Says(key), 11)
            /\ Layer!Known(numberLayer[key]) = Told(Says(key), 11)
      BY <1>5
    <3>2. key \in DOMAIN numberLayer' => numberLayer'[key] = Layer!Written(numberLayer[key])
      BY <1>6
    <3>3. Layer!Known(Layer!Written(numberLayer[key])) = Layer!Known(numberLayer[key])
      BY <3>1, WrittenIs DEF Layer!Known, Supported
    <3> QED  BY <1>6, <3>1, <3>2, <3>3
  <2>2. /\ \A key : Layer!Speaks(key)' = Layer!Speaks(key)
        /\ \A key : Layer!Fillers(key)' = Layer!Fillers(key)
    BY <1>1, <1>7 DEF Layer!Speaks, Layer!Fillers
  <2> SUFFICES ASSUME NEW key \in DOMAIN Layer!routes
               PROVE  (LET everywhere == Layer!Speaks(key) \ Layer!Fillers(key)
                           first == {s \in Layer!Fillers(key) :
                             \A t \in Layer!Fillers(key) : Layer!Rank(s) <= Layer!Rank(t)}
                           numbers == UNION {Layer!States(s, key) :
                                               s \in IF everywhere # {} THEN everywhere ELSE first}
                       IN IF numbers = {} THEN key \notin DOMAIN numberLayer
                          ELSE key \in DOMAIN numberLayer /\ Layer!Known(numberLayer[key]) = numbers)'
    BY <1>7 DEF Layer!LayerReproducible
  <2> QED  BY <1>7, <2>1, <2>2, AllTold DEF Layer!Known
<1>10. numberStage' \notin Layer!StepNames  BY <1>1, NamesAre
<1> QED  BY <1>1, <1>8, <1>9, <1>10 DEF NumbersInv, Layer!NumbersAccounted, Layer!Running

\* A run begins with what is on file and nothing else.
LEMMA BeginKeeps ==
  ASSUME Layer!NumbersAssumption, NumbersInv, NEW i \in DOMAIN Inputs,
         NEW sites \in SUBSET Layer!Sites, Layer!Begin(i, sites)
  PROVE  NumbersInv'
<1>1. /\ numberInput' = i /\ numberStage' = Layer!Steps[1] /\ rowsLeft' = {}
      /\ numberLayer' = [key \in DOMAIN Inputs[i].routes |-> Layer!Nothing]
      /\ askingWorkers' = [w \in Workers |-> Void] /\ numberCache' = numberCache
  BY DEF Layer!Begin
<1>2. /\ numberStage' = "standing" /\ Layer!Rank("standing") = 1
      /\ "standing" \in Layer!StepNames /\ "standing" \notin Layer!Sites
      /\ numberStage' # "done"
  BY <1>1, StepsAre, RanksAre, NamesAre DEF Layer!Sites
<1>3. Layer!routes' = Inputs[i].routes  BY <1>1 DEF Layer!routes
<1>4. \A key : Due(key)' = 1  BY <1>2 DEF Due
<1>5. ASSUME NEW key \in DOMAIN Inputs[i].routes
      PROVE  /\ Supported(numberLayer[key], key, Says(key), Due(key))'
             /\ Layer!Known(numberLayer'[key]) = Told(Says(key)', Due(key)')
  <2>1. numberLayer'[key] = [confirmed |-> {}, candidates |-> {}, confirmedBy |-> {}, candidatesBy |-> {}]
    BY <1>1 DEF Layer!Nothing
  <2>2. Told(Says(key)', Due(key)') = {}  BY <1>4, ToldNone
  <2>3. Supported(numberLayer[key], key, Says(key), Due(key))'
    BY <2>1 DEF Supported, RecordOf
  <2> QED  BY <2>1, <2>2, <2>3 DEF Layer!Known
<1>6. Gathered'  BY <1>1, <1>3, <1>5 DEF Gathered, Layer!Known
<1>7. Asking'  BY <1>1 DEF Asking
<1> QED  BY <1>1, <1>2, <1>6, <1>7 DEF NumbersInv

LEMMA NumbersStart == ASSUME Layer!NumbersAssumption, Layer!Init PROVE NumbersInv
<1>1. numberStage = "none" /\ numberStage \notin Layer!StepNames
  BY NamesAre DEF Layer!Init
<1> QED  BY <1>1 DEF Layer!Init, Layer!NumbersAssumption, Layer!Running, NumbersInv

\* What the steps do not touch.
LEMMA NumbersStay ==
  ASSUME NumbersInv, UNCHANGED <<numberInput, numberCache, allowedNumbers>>,
         \/ UNCHANGED <<numberStage, numberLayer, rowsLeft, askingWorkers>>
         \/ /\ numberStage' \in {"refused", "killed"}
            /\ rowsLeft' \in {rowsLeft, {}}
            /\ askingWorkers' \in {askingWorkers, [w \in Workers |-> Void]}
  PROVE  NumbersInv'
<1>1. CASE UNCHANGED <<numberStage, numberLayer, rowsLeft, askingWorkers>>
  <2>1. /\ Layer!routes' = Layer!routes /\ Layer!rows' = Layer!rows
        /\ \A s, key : Layer!States(s, key)' = Layer!States(s, key)
    BY <1>1 DEF Layer!routes, Layer!rows, Layer!States, Layer!Filed,
         Layer!NumbersOf, Layer!Rows, Layer!AffiliateRows, Layer!RowsOf
  <2>2. /\ \A key : Layer!Speaks(key)' = Layer!Speaks(key)
        /\ \A key : Layer!Fillers(key)' = Layer!Fillers(key)
    BY <1>1, <2>1 DEF Layer!Speaks, Layer!Fillers
  <2>3. Layer!NumbersSupported => Layer!NumbersSupported'
    BY <1>1, <2>1 DEF Layer!NumbersSupported, Layer!MayConfirm, Layer!Known
  <2>4. Layer!LayerReproducible => Layer!LayerReproducible'
    BY <1>1, <2>1, <2>2 DEF Layer!LayerReproducible, Layer!Known
  <2>5. ASSUME Gathered PROVE Gathered'
    <3>1. \A key : Says(key)' = Says(key)  BY SaysSame
    <3>2. \A key : Due(key)' = Due(key)  BY <1>1 DEF Due, Pending
    <3> QED  BY <1>1, <2>5, <3>1, <3>2, GatheredNext DEF Gathered
  <2> QED  BY <1>1, <2>3, <2>4, <2>5 DEF NumbersInv, Asking, Layer!Running, Layer!NumbersAccounted
<1>2. CASE /\ numberStage' \in {"refused", "killed"}
           /\ rowsLeft' \in {rowsLeft, {}}
           /\ askingWorkers' \in {askingWorkers, [w \in Workers |-> Void]}
  <2>1. numberStage' \notin Layer!StepNames /\ numberStage' # "done"  BY <1>2, NamesAre
  <2>2. askingWorkers' \in [Workers -> Layer!Pairs \cup {Void}]  BY <1>2 DEF NumbersInv
  <2> QED  BY <1>2, <2>1, <2>2 DEF NumbersInv, Layer!Running
<1> QED  BY <1>1, <1>2

LEMMA NumbersStep ==
  ASSUME Layer!NumbersAssumption, NumbersInv, [Layer!Next]_Layer!vars
  PROVE  NumbersInv'
<1>1. CASE UNCHANGED Layer!vars  BY <1>1, NumbersStay DEF Layer!vars
<1>2. ASSUME NEW i \in DOMAIN Inputs, NEW sites \in SUBSET Layer!Sites, Layer!Begin(i, sites)
      PROVE  NumbersInv'
  BY <1>2, BeginKeeps
<1>3. ASSUME NEW i \in DOMAIN Layer!Everywhere, Layer!Gather(Layer!Everywhere[i])
      PROVE  NumbersInv'
  BY <1>3, GatherKeeps
<1>4. ASSUME NEW s \in {"mrairspace", "adsbiq", "specific"}, Layer!Fill(s) PROVE NumbersInv'
  BY <1>4, FillKeeps
<1>5. ASSUME NEW s \in Layer!SourceSet, Layer!Refuse(s) PROVE NumbersInv'
  BY <1>5, NumbersStay DEF Layer!Refuse, Layer!Refused
<1>6. ASSUME NEW s \in Layer!Sites, NEW w \in Workers, NEW pair \in Layer!Pairs,
             Layer!Take(s, w, pair)
      PROVE  NumbersInv'
  BY <1>6, TakeKeeps
<1>7. ASSUME NEW s \in Layer!Sites, NEW w \in Workers, NEW listing \in SitePages,
             Layer!Answer(s, w, listing)
      PROVE  NumbersInv'
  BY <1>7, AnswerKeeps
<1>8. ASSUME NEW s \in Layer!Sites, Layer!Leave(s) PROVE NumbersInv'
  BY <1>8, LeaveKeeps
<1>9. CASE Layer!Write  BY <1>9, WriteKeeps
<1>10. CASE Layer!Kill  BY <1>10, NumbersStay DEF Layer!Kill
<1>11. CASE Layer!Next
  <2>1. \A s \in Layer!Sites, w \in Workers :
          (\/ Layer!Answer(s, w, Layer!Failed)
           \/ \E numbers \in Answers : Layer!Answer(s, w, Layer!Page(TRUE, numbers)))
          => NumbersInv'
    BY <1>7 DEF SitePages
  <2> QED  BY <1>2, <1>3, <1>4, <1>5, <1>6, <1>8, <1>9, <1>10, <1>11, <2>1 DEF Layer!Next
<1> QED  BY <1>1, <1>11

\* Whatever it was run on, however its workers took turns, and however often it was killed,
\* a layer that is written cites its support and follows from what is on file
\* (build-flight-number-layer.ts).
THEOREM LayersAreReproducible ==
  ASSUME Layer!NumbersAssumption PROVE Layer!Spec => []Layer!NumbersAccounted
<1>1. Layer!Init => NumbersInv  BY NumbersStart
<1>2. NumbersInv /\ [Layer!Next]_Layer!vars => NumbersInv'  BY NumbersStep
<1>3. NumbersInv => Layer!NumbersAccounted
  BY DEF NumbersInv, Layer!NumbersAccounted, Layer!NumbersSupported,
    Layer!LayerReproducible
<1> QED  BY <1>1, <1>2, <1>3, PTL DEF Layer!Spec

-----------------------------------------------------------------------------
(***************************************************************************)
(* AvinorCapture: what a capture of Oslo's feed proposes, and the release  *)
(* that is made of it.                                                     *)
(***************************************************************************)
\* What is known of a route has these fields.
OsloRecord(known) ==
  known = [status |-> known.status, identity |-> known.identity, confirmed |-> known.confirmed,
           candidates |-> known.candidates, cites |-> known.cites, dated |-> known.dated]

\* A network that lies over the one without any release: what it has dated was a candidate
\* of that one, and is dated once.
OsloSound(net) ==
  /\ DOMAIN net = DOMAIN OsloBase
  /\ \A r \in DOMAIN OsloBase :
       /\ OsloRecord(net[r]) /\ net[r].confirmed \cap net[r].candidates = {}
       /\ net[r].candidates \subseteq OsloBase[r].candidates
       /\ net[r].candidates # {} => net[r].cites = OsloBase[r].cites /\ net[r].cites # {}
       /\ \A e \in net[r].dated :
            /\ e.number \in net[r].confirmed /\ e.number \in OsloBase[r].candidates
            /\ e.cites # {} /\ e.cites \subseteq OsloBase[r].cites
            /\ \A f \in net[r].dated : f.number = e.number => f = e

Timed(feed) == feed.at \in Int /\ \A x \in feed.rows : x.time \in Int \cup {Void}

\* The release that is laid over the network.
OsloEvidence(a) == [Avinor!FirstEvidence(osloPacket, a) EXCEPT !.source = osloPacket.at]
OsloReleased == Avinor!WithAssociations(OsloBase, osloPacket.associations, OsloEvidence)

CapturesInv ==
  /\ captureTime \in Int /\ OsloSound(osloNetwork)
  /\ osloFeed # Void => Timed(osloFeed)
  /\ osloPatch # Void =>
       /\ osloFeed # Void /\ OsloSound(osloPatch.before)
       /\ osloPatch.after = Avinor!After(osloPatch.before, osloFeed.at, osloFeed.rows)
       /\ osloPatch.supported = Avinor!Associations(osloPatch.before, osloFeed.at, osloFeed.rows)
  /\ osloPacket # Void =>
       /\ osloPatch # Void /\ osloPacket.at = osloFeed.at
       /\ osloPacket.associations \subseteq osloPatch.supported
  /\ osloOutcome # Void => osloPacket # Void
  /\ osloOutcome = "written" => Avinor!FirstValid(osloPacket) /\ osloNetwork = OsloReleased
  /\ osloOutcome = "refused" => ~(Avinor!FirstValid(osloPacket) /\ Avinor!FirstBuilds(OsloBase, osloPacket))

-----------------------------------------------------------------------------
LEMMA PromoteIs ==
  ASSUME NEW known, OsloRecord(known), NEW numbers
  PROVE  Avinor!Promote(known, numbers) =
           [status |-> known.status, identity |-> known.identity,
            confirmed |-> known.confirmed \cup numbers, candidates |-> known.candidates \ numbers,
            cites |-> IF known.candidates \ numbers = {} THEN {} ELSE known.cites, dated |-> known.dated]
<1> DEFINE plain == [status |-> known.status, identity |-> known.identity, confirmed |-> known.confirmed,
                     candidates |-> known.candidates, cites |-> known.cites, dated |-> known.dated]
           left == known.candidates \ numbers
           both == known.confirmed \cup numbers
           kept == IF left = {} THEN {} ELSE known.cites
<1>1. known = plain  BY DEF OsloRecord
<1>2. Avinor!Promote(known, numbers) = [plain EXCEPT !.confirmed = both, !.candidates = left, !.cites = kept]
  BY <1>1 DEF Avinor!Promote
<1> HIDE DEF left, both, kept
<1> DEFINE one == [plain EXCEPT !.confirmed = both]
           two == [one EXCEPT !.candidates = left]
<1>3. one = [status |-> known.status, identity |-> known.identity, confirmed |-> both,
             candidates |-> known.candidates, cites |-> known.cites, dated |-> known.dated]
  OBVIOUS
<1> HIDE DEF one
<1>4. two = [status |-> known.status, identity |-> known.identity, confirmed |-> both,
             candidates |-> left, cites |-> known.cites, dated |-> known.dated]
  BY <1>3
<1> HIDE DEF two
<1>5. [two EXCEPT !.cites = kept] =
        [status |-> known.status, identity |-> known.identity, confirmed |-> both,
         candidates |-> left, cites |-> kept, dated |-> known.dated]
  BY <1>4
<1>6. Avinor!Promote(known, numbers) = [two EXCEPT !.cites = kept]  BY <1>2 DEF one, two
<1> QED  BY <1>5, <1>6 DEF left, both, kept

\* A candidate of the script is one of the network, or was dated by evidence that lapsed.
LEMMA CandidatesAre ==
  ASSUME NEW net, OsloSound(net), NEW instant, NEW c \in Avinor!CandidatesFor(net, instant)
  PROVE  /\ c.route \in DOMAIN OsloBase
         /\ c.number \in OsloBase[c.route].candidates /\ c.cites \subseteq OsloBase[c.route].cites
         /\ \/ c.number \in net[c.route].candidates /\ c.cites = net[c.route].cites
            \/ \E e \in net[c.route].dated :
                 c.number = e.number /\ c.cites = e.cites /\ ~Avinor!Fresh(e, instant)
         /\ c = [route |-> c.route, number |-> c.number, cites |-> c.cites]
<1>1. PICK r \in DOMAIN OsloBase :
        c \in {[route |-> r, number |-> n, cites |-> net[r].cites] : n \in net[r].candidates}
                \cup {[route |-> r, number |-> e.number, cites |-> e.cites] : e \in Avinor!Lapsed(net[r], instant)}
  BY DEF Avinor!CandidatesFor, OsloSound
<1>2. CASE \E n \in net[r].candidates : c = [route |-> r, number |-> n, cites |-> net[r].cites]
  BY <1>2 DEF OsloSound
<1>3. CASE \E e \in Avinor!Lapsed(net[r], instant) : c = [route |-> r, number |-> e.number, cites |-> e.cites]
  BY <1>3 DEF OsloSound, Avinor!Lapsed
<1> QED  BY <1>1, <1>2, <1>3

LEMMA CandidatesOnce ==
  ASSUME NEW net, OsloSound(net), NEW instant, NEW c \in Avinor!CandidatesFor(net, instant),
         NEW d \in Avinor!CandidatesFor(net, instant), c.route = d.route, c.number = d.number
  PROVE  c = d
<1> DEFINE r == c.route
<1>1. /\ r \in DOMAIN OsloBase
      /\ c = [route |-> r, number |-> c.number, cites |-> c.cites]
      /\ d = [route |-> r, number |-> c.number, cites |-> d.cites]
      /\ \/ c.number \in net[r].candidates /\ c.cites = net[r].cites
         \/ \E e \in net[r].dated : c.number = e.number /\ c.cites = e.cites
      /\ \/ c.number \in net[r].candidates /\ d.cites = net[r].cites
         \/ \E e \in net[r].dated : c.number = e.number /\ d.cites = e.cites
  BY CandidatesAre
<1>2. /\ net[r].confirmed \cap net[r].candidates = {}
      /\ \A e \in net[r].dated :
           e.number \in net[r].confirmed /\ \A f \in net[r].dated : f.number = e.number => f = e
  BY <1>1 DEF OsloSound
<1> HIDE DEF r
<1>3. c.cites = d.cites  BY <1>1, <1>2
<1> QED  BY <1>1, <1>3

-----------------------------------------------------------------------------
\* A row that matches flies the number, and one that flies it in time matches.
LEMMA MatchFlies ==
  ASSUME Avinor!CapturesAssumption, NEW feed, Timed(feed), NEW line \in feed.rows,
         NEW c, c.route \in DOMAIN OsloBase, Avinor!Matches(line, c, feed.at),
         Avinor!Class(line, feed.at) \in {"upcoming", "recent"}
  PROVE  /\ line \in Avinor!Flown([route |-> c.route, number |-> c.number], feed)
         /\ line.time \in Int /\ line.time <= feed.at + Horizon
         /\ Avinor!Class(line, feed.at) = "upcoming" => feed.at <= line.time
         /\ ~line.via /\ line.status # "C"
<1>1. /\ line.side \in {"A", "D"} /\ line.operator = c.route.carrier /\ line.flight = c.number
      /\ Avinor!Directed(line).from = c.route.from /\ Avinor!Directed(line).to = c.route.to
      /\ line.flight.code = line.operator
      /\ line.time # Void /\ line.time <= feed.at + Horizon
  BY DEF Avinor!Matches, Avinor!HasPrefix, Avinor!InEnvelope
<1>2. line.time \in Int  BY <1>1 DEF Timed
<1>3. /\ ~line.via /\ line.status # "C"
      /\ Avinor!Class(line, feed.at) = "upcoming" => feed.at <= line.time
  BY DEF Avinor!Class
<1>4. c.route = [carrier |-> line.operator,
                 from |-> IF line.side = "D" THEN "OSL" ELSE line.end,
                 to |-> IF line.side = "D" THEN line.end ELSE "OSL"]
  <2>1. c.route = [carrier |-> c.route.carrier, from |-> c.route.from, to |-> c.route.to]
    BY DEF Avinor!CapturesAssumption
  <2>2. /\ c.route.from = IF line.side = "D" THEN "OSL" ELSE line.end
        /\ c.route.to = IF line.side = "D" THEN line.end ELSE "OSL"
    BY <1>1 DEF Avinor!Directed, Avinor!Departs
  <2> QED  BY <1>1, <2>1, <2>2
<1> QED  BY <1>1, <1>2, <1>3, <1>4 DEF Avinor!Flown

LEMMA AheadIs ==
  ASSUME NEW line, NEW instant \in Int, line.time \in Int, ~line.via, line.status # "C", instant <= line.time
  PROVE  Avinor!Class(line, instant) = "upcoming"
BY DEF Avinor!Class

LEMMA FlownMatches ==
  ASSUME Avinor!CapturesAssumption, NEW feed, Timed(feed), NEW c,
         NEW line \in Avinor!Flown([route |-> c.route, number |-> c.number], feed),
         feed.at <= line.time, line.time <= feed.at + Horizon
  PROVE  /\ line \in feed.rows /\ Avinor!Matches(line, c, feed.at)
         /\ Avinor!Class(line, feed.at) = "upcoming"
<1>1. /\ line \in feed.rows
      /\ line.operator = c.route.carrier /\ line.operator = line.flight.code
      /\ line.side \in {"A", "D"} /\ line.flight = c.number
      /\ ~line.via /\ line.status # "C" /\ line.time # Void
      /\ c.route = [carrier |-> line.operator,
                    from |-> IF line.side = "D" THEN "OSL" ELSE line.end,
                    to |-> IF line.side = "D" THEN line.end ELSE "OSL"]
  BY DEF Avinor!Flown
<1>2. line.time \in Int /\ feed.at \in Int  BY <1>1 DEF Timed
<1>3. Avinor!Directed(line).from = c.route.from /\ Avinor!Directed(line).to = c.route.to
  BY <1>1 DEF Avinor!Directed, Avinor!Departs
<1>4. feed.at - Past <= line.time  BY <1>2 DEF Avinor!CapturesAssumption
<1>5. Avinor!Class(line, feed.at) = "upcoming"  BY <1>1, <1>2, AheadIs
<1> QED  BY <1>1, <1>3, <1>4, <1>5 DEF Avinor!Matches, Avinor!HasPrefix, Avinor!InEnvelope

\* The rows that are kept.
LEMMA KeptIs ==
  ASSUME NEW line, NEW instant
  PROVE  LET x == Avinor!Kept(line, instant)
         IN /\ x.class = Avinor!Class(line, instant) /\ x.operator = line.operator
            /\ x.from = Avinor!Directed(line).from /\ x.to = Avinor!Directed(line).to
            /\ x.flight = line.flight /\ x.time = line.time /\ x.via = line.via /\ x.status = line.status
BY DEF Avinor!Kept

\* A row that supports a candidate flies it, and when.
Supports(x, c, feed) ==
  /\ x.class \in {"upcoming", "recent"} /\ x.status # "C" /\ ~x.via
  /\ x.operator = c.route.carrier /\ x.flight = c.number /\ x.flight.code = x.operator
  /\ x.from = c.route.from /\ x.to = c.route.to
  /\ x.time \in Int /\ x.time <= feed.at + Horizon
  /\ x.class = "upcoming" => feed.at <= x.time
  /\ Avinor!Flown([route |-> c.route, number |-> c.number], feed) # {}

LEMMA SupportsOf ==
  ASSUME Avinor!CapturesAssumption, NEW feed, Timed(feed), NEW c, c.route \in DOMAIN OsloBase,
         NEW x \in Avinor!Supporting(c, feed.at, feed.rows)
  PROVE  Supports(x, c, feed)
<1>1. PICK line \in feed.rows : /\ Avinor!Matches(line, c, feed.at)
                                /\ Avinor!Class(line, feed.at) \in {"upcoming", "recent"}
                                /\ x = Avinor!Kept(line, feed.at)
  BY DEF Avinor!Supporting, Avinor!RowsOf
<1>2. /\ x.class = Avinor!Class(line, feed.at) /\ x.operator = line.operator
      /\ x.from = Avinor!Directed(line).from /\ x.to = Avinor!Directed(line).to
      /\ x.flight = line.flight /\ x.time = line.time /\ x.via = line.via /\ x.status = line.status
  BY <1>1, KeptIs
<1>3. /\ line \in Avinor!Flown([route |-> c.route, number |-> c.number], feed)
      /\ line.time \in Int /\ line.time <= feed.at + Horizon
      /\ Avinor!Class(line, feed.at) = "upcoming" => feed.at <= line.time
      /\ ~line.via /\ line.status # "C"
  BY <1>1, MatchFlies
<1> QED  BY <1>1, <1>2, <1>3 DEF Supports, Avinor!Matches, Avinor!HasPrefix

\* What is supported, and the times that are proposed for it.
LEMMA SupportedAre ==
  ASSUME Avinor!CapturesAssumption, NEW net, OsloSound(net), NEW feed, Timed(feed),
         NEW c \in Avinor!SupportedOnes(net, feed.at, feed.rows)
  PROVE  /\ c \in Avinor!CandidatesFor(net, feed.at) /\ c.cites # {} /\ c.route \in DOMAIN OsloBase
         /\ Avinor!Supporting(c, feed.at, feed.rows) # {}
<1>1. /\ c \in Avinor!CandidatesFor(net, feed.at) /\ c.cites # {}
      /\ Avinor!Assessment(c, feed.at, feed.rows) = "supported"
  BY DEF Avinor!SupportedOnes, Avinor!Reviewable
<1>2. Avinor!Supporting(c, feed.at, feed.rows) # {}
  BY <1>1 DEF Avinor!Assessment
<1> QED  BY <1>1, <1>2, CandidatesAre

LEMMA ProposedIs ==
  ASSUME Avinor!CapturesAssumption, NEW feed, Timed(feed), NEW c, c.route \in DOMAIN OsloBase
  PROVE  LET new == Avinor!Proposed(c, feed.at, feed.rows)
             ahead == {x.time : x \in {y \in Avinor!Supporting(c, feed.at, feed.rows) : y.class = "upcoming"}}
         IN /\ new = Avinor!Evidence(c.number, feed.at, c.cites, ahead)
            /\ \A t \in ahead :
                 /\ t \in Int /\ feed.at <= t /\ t <= feed.at + Horizon
                 /\ t \in {line.time : line \in Avinor!Flown([route |-> c.route, number |-> c.number], feed)}
<1> DEFINE ahead == {x.time : x \in {y \in Avinor!Supporting(c, feed.at, feed.rows) : y.class = "upcoming"}}
           times == {x.time : x \in Avinor!RowsOf(c, feed.at, feed.rows, {"upcoming"})}
<1>1. ASSUME NEW t \in ahead PROVE t \in times
  <2>1. PICK line \in feed.rows : /\ Avinor!Matches(line, c, feed.at)
                                  /\ Avinor!Kept(line, feed.at).class = "upcoming"
                                  /\ t = Avinor!Kept(line, feed.at).time
    BY <1>1 DEF Avinor!Supporting, Avinor!RowsOf
  <2>2. Avinor!Class(line, feed.at) = "upcoming"  BY <2>1, KeptIs
  <2>3. Avinor!Kept(line, feed.at) \in Avinor!RowsOf(c, feed.at, feed.rows, {"upcoming"})
    BY <2>1, <2>2 DEF Avinor!RowsOf
  <2> QED  BY <2>1, <2>3
<1>2. ASSUME NEW t \in times
      PROVE  /\ t \in ahead /\ t \in Int /\ feed.at <= t /\ t <= feed.at + Horizon
             /\ t \in {line.time : line \in Avinor!Flown([route |-> c.route, number |-> c.number], feed)}
  <2>1. PICK line \in feed.rows : /\ Avinor!Matches(line, c, feed.at)
                                  /\ Avinor!Class(line, feed.at) = "upcoming"
                                  /\ t = Avinor!Kept(line, feed.at).time
    BY <1>2 DEF Avinor!RowsOf
  <2>2. t = line.time /\ Avinor!Kept(line, feed.at).class = "upcoming"  BY <2>1, KeptIs
  <2>3. Avinor!Kept(line, feed.at) \in Avinor!Supporting(c, feed.at, feed.rows)
    BY <2>1 DEF Avinor!Supporting, Avinor!RowsOf
  <2> QED  BY <2>1, <2>2, <2>3, MatchFlies
<1>3. ahead = times  BY <1>1, <1>2
<1>4. Avinor!Proposed(c, feed.at, feed.rows) = Avinor!Evidence(c.number, feed.at, c.cites, times)
  BY DEF Avinor!Proposed
<1> QED  BY <1>2, <1>3, <1>4

LEMMA EvidenceIs ==
  ASSUME NEW number, NEW source, NEW cites, NEW times
  PROVE  LET e == Avinor!Evidence(number, source, cites, times)
         IN e.number = number /\ e.source = source /\ e.cites = cites /\ e.times = times
BY DEF Avinor!Evidence

-----------------------------------------------------------------------------
\* What the patch makes of a network.
LEMMA AfterIs ==
  ASSUME NEW net, OsloSound(net), NEW instant, NEW lines, NEW r \in DOMAIN OsloBase
  PROVE  LET supported == Avinor!Of(Avinor!SupportedOnes(net, instant, lines), r)
             numbers == Avinor!NumbersOf(supported)
             new == Avinor!After(net, instant, lines)[r]
         IN /\ new.confirmed = net[r].confirmed \cup numbers
            /\ new.candidates = net[r].candidates \ numbers
            /\ new.dated = {e \in net[r].dated : e.number \notin numbers}
                            \cup {Avinor!Proposed(c, instant, lines) : c \in supported}
<1> DEFINE supported == Avinor!Of(Avinor!SupportedOnes(net, instant, lines), r)
           numbers == Avinor!NumbersOf(supported)
           old == {e \in net[r].dated : e.number \notin numbers}
           fresh == {Avinor!Proposed(c, instant, lines) : c \in supported}
           new == Avinor!After(net, instant, lines)[r]
<1>1. OsloRecord(net[r]) /\ r \in DOMAIN net  BY DEF OsloSound
<1>2. new = IF supported = {} THEN net[r]
            ELSE [Avinor!Promote(net[r], numbers) EXCEPT !.dated = {e \in @ : e.number \notin numbers} \cup fresh]
  BY <1>1 DEF Avinor!After
<1>3. supported = {} => numbers = {} /\ fresh = {} /\ old = net[r].dated
  BY DEF Avinor!NumbersOf
<1>4. CASE supported = {}
  <2>1. new = net[r]  BY <1>2, <1>4
  <2> HIDE DEF new, supported, numbers, old, fresh
  <2>2. /\ new.confirmed = net[r].confirmed \cup numbers /\ new.candidates = net[r].candidates \ numbers
        /\ new.dated = old \cup fresh
    BY <1>3, <1>4, <2>1
  <2> QED  BY <2>2 DEF new, supported, numbers, old, fresh
<1>5. CASE supported # {}
  <2> DEFINE left == net[r].candidates \ numbers
             both == net[r].confirmed \cup numbers
             kept == IF left = {} THEN {} ELSE net[r].cites
             plain == [status |-> net[r].status, identity |-> net[r].identity, confirmed |-> both,
                       candidates |-> left, cites |-> kept, dated |-> net[r].dated]
  <2>1. Avinor!Promote(net[r], numbers) = plain  BY <1>1, PromoteIs
  <2>2. new = [plain EXCEPT !.dated = old \cup fresh]
    <3>1. new = [Avinor!Promote(net[r], numbers) EXCEPT !.dated = {e \in @ : e.number \notin numbers} \cup fresh]
      BY <1>2, <1>5
    <3>2. plain.dated = net[r].dated  OBVIOUS
    <3> HIDE DEF new, supported, numbers, fresh, plain
    <3>3. new = [plain EXCEPT !.dated = {e \in plain.dated : e.number \notin numbers} \cup fresh]
      BY <2>1, <3>1
    <3> QED  BY <3>2, <3>3
  <2> HIDE DEF new, supported, numbers, old, fresh, left, both, kept
  <2>3. new.confirmed = both /\ new.candidates = left /\ new.dated = old \cup fresh
    BY <2>2
  <2> QED  BY <2>3 DEF new, supported, numbers, old, fresh, left, both
<1> QED  BY <1>4, <1>5

\* The evidence of a number lapses as a whole: what is fresh is not proposed again.
LEMMA FreshStays ==
  ASSUME NEW net, OsloSound(net), NEW instant, NEW c \in Avinor!CandidatesFor(net, instant),
         NEW e \in net[c.route].dated, e.number = c.number
  PROVE  ~Avinor!Fresh(e, instant)
<1> DEFINE r == c.route
<1>1. /\ r \in DOMAIN OsloBase
      /\ \/ c.number \in net[r].candidates
         \/ \E f \in net[r].dated : c.number = f.number /\ ~Avinor!Fresh(f, instant)
  BY CandidatesAre
<1>2. /\ net[r].confirmed \cap net[r].candidates = {}
      /\ \A f \in net[r].dated :
           f.number \in net[r].confirmed /\ \A g \in net[r].dated : g.number = f.number => g = f
  BY <1>1 DEF OsloSound
<1> QED  BY <1>1, <1>2

LEMMA AfterDated ==
  ASSUME Avinor!CapturesAssumption, NEW net, OsloSound(net), NEW feed, Timed(feed), NEW r \in DOMAIN OsloBase
  PROVE  LET new == Avinor!After(net, feed.at, feed.rows)[r]
         IN /\ net[r].confirmed \subseteq new.confirmed
            /\ new.confirmed \cup new.candidates = net[r].confirmed \cup net[r].candidates
            /\ new.confirmed \cap new.candidates = {}
            /\ \A e \in net[r].dated : Avinor!Fresh(e, feed.at) => e \in new.dated
            /\ \A e \in new.dated \ net[r].dated :
                 /\ e.times \subseteq {line.time : line \in Avinor!Flown([route |-> r, number |-> e.number], feed)}
                 /\ \A t \in e.times : feed.at <= t /\ t <= feed.at + Horizon
<1> DEFINE supported == Avinor!Of(Avinor!SupportedOnes(net, feed.at, feed.rows), r)
           numbers == Avinor!NumbersOf(supported)
           new == Avinor!After(net, feed.at, feed.rows)[r]
<1>1. /\ new.confirmed = net[r].confirmed \cup numbers /\ new.candidates = net[r].candidates \ numbers
      /\ new.dated = {e \in net[r].dated : e.number \notin numbers}
                      \cup {Avinor!Proposed(c, feed.at, feed.rows) : c \in supported}
  BY AfterIs
<1>2. ASSUME NEW c \in supported
      PROVE  c \in Avinor!CandidatesFor(net, feed.at) /\ c.route = r
  BY <1>2, SupportedAre DEF Avinor!Of
<1>3. \A n \in numbers : \E c \in supported : n = c.number  BY DEF Avinor!NumbersOf
<1>4. /\ net[r].confirmed \cap net[r].candidates = {}
      /\ \A e \in net[r].dated : e.number \in net[r].confirmed
  BY DEF OsloSound
<1>5. numbers \subseteq net[r].confirmed \cup net[r].candidates
  <2> SUFFICES ASSUME NEW c \in supported PROVE c.number \in net[r].confirmed \cup net[r].candidates
    BY <1>3
  <2> QED  BY <1>2, <1>4, CandidatesAre
<1>6. ASSUME NEW e \in net[r].dated, Avinor!Fresh(e, feed.at) PROVE e \in new.dated
  <2>1. e.number \notin numbers  BY <1>2, <1>3, <1>6, FreshStays
  <2> QED  BY <1>1, <2>1
<1>7. ASSUME NEW e \in new.dated \ net[r].dated
      PROVE  /\ e.times \subseteq {line.time : line \in Avinor!Flown([route |-> r, number |-> e.number], feed)}
             /\ \A t \in e.times : feed.at <= t /\ t <= feed.at + Horizon
  <2>1. PICK c \in supported : e = Avinor!Proposed(c, feed.at, feed.rows)  BY <1>1, <1>7
  <2> DEFINE ahead == {x.time : x \in {y \in Avinor!Supporting(c, feed.at, feed.rows) : y.class = "upcoming"}}
  <2>2. /\ e = Avinor!Evidence(c.number, feed.at, c.cites, ahead)
        /\ \A t \in ahead :
             /\ t \in Int /\ feed.at <= t /\ t <= feed.at + Horizon
             /\ t \in {line.time : line \in Avinor!Flown([route |-> c.route, number |-> c.number], feed)}
    BY <1>2, <2>1, ProposedIs
  <2> HIDE DEF ahead
  <2>3. e.number = c.number /\ e.times = ahead  BY <2>2, EvidenceIs
  <2> QED  BY <1>2, <2>2, <2>3
<1> HIDE DEF new, numbers, supported
<1>8. /\ net[r].confirmed \subseteq new.confirmed
      /\ new.confirmed \cup new.candidates = net[r].confirmed \cup net[r].candidates
      /\ new.confirmed \cap new.candidates = {}
  BY <1>1, <1>4, <1>5
<1> QED  BY <1>6, <1>7, <1>8 DEF new

LEMMA PatchIsSound ==
  ASSUME Avinor!CapturesAssumption, CapturesInv
  PROVE  Avinor!PatchSound
<1> SUFFICES ASSUME osloPatch # Void PROVE Avinor!PatchSound  BY DEF Avinor!PatchSound
<1> DEFINE before == osloPatch.before
           after == osloPatch.after
<1>1. /\ Timed(osloFeed) /\ OsloSound(before) /\ after = Avinor!After(before, osloFeed.at, osloFeed.rows)
      /\ osloPatch.supported = Avinor!Associations(before, osloFeed.at, osloFeed.rows)
      /\ OsloSound(osloNetwork)
  BY DEF CapturesInv
<1>2. /\ DOMAIN before = DOMAIN OsloBase /\ DOMAIN after = DOMAIN OsloBase
      /\ DOMAIN osloNetwork = DOMAIN OsloBase
  BY <1>1 DEF OsloSound, Avinor!After
<1>3. ASSUME NEW a \in osloPatch.supported PROVE Avinor!Flown(Avinor!Key(a), osloFeed) # {}
  <2>1. PICK c \in Avinor!SupportedOnes(before, osloFeed.at, osloFeed.rows) : a.route = c.route /\ a.number = c.number
    BY <1>1 DEF Avinor!Associations
  <2>2. c.route \in DOMAIN OsloBase /\ Avinor!Supporting(c, osloFeed.at, osloFeed.rows) # {}
    BY <1>1, SupportedAre
  <2> QED  BY <1>1, <2>1, <2>2, SupportsOf DEF Supports, Avinor!Key
<1>4. ASSUME NEW c \in Avinor!CandidatesFor(before, osloFeed.at), c.cites # {},
             NEW line \in Avinor!Flown([route |-> c.route, number |-> c.number], osloFeed),
             osloFeed.at <= line.time, line.time <= osloFeed.at + Horizon
      PROVE  [route |-> c.route, number |-> c.number] \in Avinor!Keys(osloPatch.supported)
  <2>1. /\ line \in osloFeed.rows /\ Avinor!Matches(line, c, osloFeed.at)
        /\ Avinor!Class(line, osloFeed.at) = "upcoming"
    BY <1>1, <1>4, FlownMatches
  <2>2. Avinor!Supporting(c, osloFeed.at, osloFeed.rows) # {}
    BY <2>1 DEF Avinor!Supporting, Avinor!RowsOf
  <2>3. Avinor!Assessment(c, osloFeed.at, osloFeed.rows) = "supported"
    BY <2>2 DEF Avinor!Assessment
  <2>4. c \in Avinor!SupportedOnes(before, osloFeed.at, osloFeed.rows)
    BY <1>4, <2>3 DEF Avinor!SupportedOnes, Avinor!Reviewable
  <2> DEFINE a == [route |-> c.route, number |-> c.number, cites |-> c.cites,
                   rows |-> Avinor!Supporting(c, osloFeed.at, osloFeed.rows)]
  <2>5. a \in osloPatch.supported  BY <1>1, <2>4 DEF Avinor!Associations
  <2>6. Avinor!Key(a) = [route |-> c.route, number |-> c.number]  BY DEF Avinor!Key
  <2> QED  BY <2>5, <2>6 DEF Avinor!Keys
<1>5. ASSUME NEW key \in Avinor!Candidates(before) \cup Avinor!Dated(before)
      PROVE  \/ key \in Avinor!Keys(osloPatch.supported) \/ ~Avinor!Touches(key.route)
             \/ \E e \in before[key.route].dated : e.number = key.number /\ Avinor!Fresh(e, osloFeed.at)
             \/ \A line \in Avinor!Flown(key, osloFeed) : line.time < osloFeed.at \/ osloFeed.at + Horizon < line.time
  <2> SUFFICES ASSUME Avinor!Touches(key.route),
                      \A e \in before[key.route].dated : e.number = key.number => ~Avinor!Fresh(e, osloFeed.at),
                      NEW line \in Avinor!Flown(key, osloFeed),
                      ~(line.time < osloFeed.at), ~(osloFeed.at + Horizon < line.time)
               PROVE  key \in Avinor!Keys(osloPatch.supported)
    OBVIOUS
  <2>1. /\ key.route \in DOMAIN OsloBase /\ key = [route |-> key.route, number |-> key.number]
        /\ \/ key.number \in before[key.route].candidates
           \/ \E e \in before[key.route].dated : e.number = key.number
    BY <1>2 DEF Avinor!Candidates, Avinor!Dated
  <2>2. PICK c \in Avinor!CandidatesFor(before, osloFeed.at) :
          c.cites # {} /\ c.route = key.route /\ c.number = key.number
    <3>1. CASE key.number \in before[key.route].candidates
      <4>1. before[key.route].cites # {}  BY <1>1, <2>1, <3>1 DEF OsloSound
      <4> DEFINE c == [route |-> key.route, number |-> key.number, cites |-> before[key.route].cites]
      <4>2. c \in Avinor!CandidatesFor(before, osloFeed.at)
        BY <1>2, <2>1, <3>1 DEF Avinor!CandidatesFor
      <4> QED  BY <4>1, <4>2
    <3>2. ASSUME NEW e \in before[key.route].dated, e.number = key.number
          PROVE  \E c \in Avinor!CandidatesFor(before, osloFeed.at) :
                   c.cites # {} /\ c.route = key.route /\ c.number = key.number
      <4>1. e.cites # {} /\ e \in Avinor!Lapsed(before[key.route], osloFeed.at)
        BY <1>1, <2>1, <3>2 DEF OsloSound, Avinor!Lapsed
      <4> DEFINE c == [route |-> key.route, number |-> e.number, cites |-> e.cites]
      <4>2. c \in Avinor!CandidatesFor(before, osloFeed.at)
        BY <1>2, <2>1, <4>1 DEF Avinor!CandidatesFor
      <4> QED  BY <3>2, <4>1, <4>2
    <3> QED  BY <2>1, <3>1, <3>2
  <2>3. /\ line.time \in Int /\ osloFeed.at \in Int /\ Horizon \in Int
    BY <1>1 DEF Avinor!Flown, Timed, Avinor!CapturesAssumption
  <2>4. osloFeed.at <= line.time /\ line.time <= osloFeed.at + Horizon  BY <2>3
  <2> QED  BY <1>4, <2>1, <2>2, <2>4
<1>6. \A r \in DOMAIN OsloBase :
        /\ before[r].confirmed \subseteq after[r].confirmed
        /\ after[r].confirmed \cup after[r].candidates = before[r].confirmed \cup before[r].candidates
        /\ after[r].confirmed \cap after[r].candidates = {}
        /\ \A e \in before[r].dated : Avinor!Fresh(e, osloFeed.at) => e \in after[r].dated
        /\ \A e \in after[r].dated \ before[r].dated :
             /\ e.times \subseteq {line.time : line \in Avinor!Flown([route |-> r, number |-> e.number], osloFeed)}
             /\ \A t \in e.times : osloFeed.at <= t /\ t <= osloFeed.at + Horizon
  BY <1>1, AfterDated
<1>7. Avinor!Confirmed(before) \subseteq Avinor!Confirmed(after)
  BY <1>2, <1>6 DEF Avinor!Confirmed
<1>8. Avinor!Confirmed(after) \cup Avinor!Candidates(after) = Avinor!Confirmed(before) \cup Avinor!Candidates(before)
  BY <1>2, <1>6 DEF Avinor!Confirmed, Avinor!Candidates
<1>9. Avinor!Confirmed(after) \cap Avinor!Candidates(after) = {}
  BY <1>2, <1>6 DEF Avinor!Confirmed, Avinor!Candidates
<1> QED  BY <1>2, <1>3, <1>5, <1>6, <1>7, <1>8, <1>9 DEF Avinor!PatchSound

-----------------------------------------------------------------------------
\* What may be accepted of the patch.
LEMMA AssociationsAre ==
  ASSUME Avinor!CapturesAssumption, NEW net, OsloSound(net), NEW feed, Timed(feed),
         NEW a \in Avinor!Associations(net, feed.at, feed.rows)
  PROVE  \E c \in Avinor!SupportedOnes(net, feed.at, feed.rows) :
           /\ a.route = c.route /\ a.number = c.number /\ a.cites = c.cites
           /\ a.rows = Avinor!Supporting(c, feed.at, feed.rows)
           /\ a = [route |-> c.route, number |-> c.number, cites |-> c.cites,
                   rows |-> Avinor!Supporting(c, feed.at, feed.rows)]
           /\ c \in Avinor!CandidatesFor(net, feed.at) /\ a.cites # {} /\ a.route \in DOMAIN OsloBase
           /\ a.number \in OsloBase[a.route].candidates /\ a.cites \subseteq OsloBase[a.route].cites
<1>1. PICK c \in Avinor!SupportedOnes(net, feed.at, feed.rows) :
        a = [route |-> c.route, number |-> c.number, cites |-> c.cites,
             rows |-> Avinor!Supporting(c, feed.at, feed.rows)]
  BY DEF Avinor!Associations
<1>2. /\ a.route = c.route /\ a.number = c.number /\ a.cites = c.cites
      /\ a.rows = Avinor!Supporting(c, feed.at, feed.rows)
  BY <1>1
<1>3. /\ c \in Avinor!CandidatesFor(net, feed.at) /\ c.cites # {}  BY SupportedAre
<1>4. /\ c.route \in DOMAIN OsloBase /\ c.number \in OsloBase[c.route].candidates
      /\ c.cites \subseteq OsloBase[c.route].cites
  BY <1>3, CandidatesAre
<1> QED  BY <1>1, <1>2, <1>3, <1>4

LEMMA AssociationsOnce ==
  ASSUME Avinor!CapturesAssumption, NEW net, OsloSound(net), NEW feed, Timed(feed),
         NEW a \in Avinor!Associations(net, feed.at, feed.rows),
         NEW b \in Avinor!Associations(net, feed.at, feed.rows), a.route = b.route, a.number = b.number
  PROVE  a = b
<1>1. PICK c \in Avinor!CandidatesFor(net, feed.at) :
        /\ a = [route |-> c.route, number |-> c.number, cites |-> c.cites,
                rows |-> Avinor!Supporting(c, feed.at, feed.rows)]
        /\ a.route = c.route /\ a.number = c.number
  BY AssociationsAre
<1>2. PICK d \in Avinor!CandidatesFor(net, feed.at) :
        /\ b = [route |-> d.route, number |-> d.number, cites |-> d.cites,
                rows |-> Avinor!Supporting(d, feed.at, feed.rows)]
        /\ b.route = d.route /\ b.number = d.number
  BY AssociationsAre
<1>3. c = d  BY <1>1, <1>2, CandidatesOnce
<1> QED  BY <1>1, <1>2, <1>3

\* What a release makes of the network without any.
LEMMA ReleasedIs ==
  ASSUME Avinor!CapturesAssumption, NEW r \in DOMAIN OsloBase
  PROVE  LET own == Avinor!Of(osloPacket.associations, r)
             numbers == Avinor!NumbersOf(own)
             new == OsloReleased[r]
         IN /\ OsloRecord(new) /\ new.confirmed = OsloBase[r].confirmed \cup numbers
            /\ new.candidates = OsloBase[r].candidates \ numbers
            /\ new.candidates # {} => new.cites = OsloBase[r].cites
            /\ new.dated = {OsloEvidence(a) : a \in own}
<1> DEFINE own == Avinor!Of(osloPacket.associations, r)
           numbers == Avinor!NumbersOf(own)
           fresh == {OsloEvidence(a) : a \in own}
           old == OsloBase[r]
           new == OsloReleased[r]
<1>1. OsloRecord(old) /\ old.dated = {}
  BY DEF OsloRecord, Avinor!CapturesAssumption
<1>2. new = IF own = {} THEN old ELSE [Avinor!Promote(old, numbers) EXCEPT !.dated = @ \cup fresh]
  BY DEF OsloReleased, Avinor!WithAssociations
<1>3. own = {} => numbers = {} /\ fresh = {}  BY DEF Avinor!NumbersOf
<1>4. CASE own = {}
  <2>1. new = old  BY <1>2, <1>4
  <2> HIDE DEF new, own, numbers, fresh, old
  <2> QED  BY <1>1, <1>3, <1>4, <2>1 DEF new, own, numbers, fresh, old
<1>5. CASE own # {}
  <2> DEFINE left == old.candidates \ numbers
             both == old.confirmed \cup numbers
             kept == IF left = {} THEN {} ELSE old.cites
             plain == [status |-> old.status, identity |-> old.identity, confirmed |-> both,
                       candidates |-> left, cites |-> kept, dated |-> old.dated]
  <2> HIDE DEF new, own, numbers, fresh, old
  <2>1. Avinor!Promote(old, numbers) = plain  BY <1>1, PromoteIs
  <2>2. new = [plain EXCEPT !.dated = plain.dated \cup fresh]
    <3> HIDE DEF plain
    <3> QED  BY <1>2, <1>5, <2>1
  <2> HIDE DEF left, both, kept
  <2>3. new = [status |-> old.status, identity |-> old.identity, confirmed |-> both,
               candidates |-> left, cites |-> kept, dated |-> fresh]
    BY <1>1, <2>2
  <2>4. OsloRecord(new) /\ new.confirmed = both /\ new.candidates = left /\ new.cites = kept /\ new.dated = fresh
    BY <2>3 DEF OsloRecord
  <2> QED  BY <2>4 DEF new, own, numbers, fresh, old, left, both, kept
<1> QED  BY <1>4, <1>5

LEMMA OsloEvidenceIs ==
  ASSUME NEW a
  PROVE  /\ OsloEvidence(a) =
              Avinor!Evidence(a.number, osloPacket.at, a.cites,
                {x.time : x \in {y \in a.rows : Avinor!InScope(y, osloPacket.at)}})
         /\ OsloEvidence(a).number = a.number /\ OsloEvidence(a).cites = a.cites
         /\ OsloEvidence(a).times = {x.time : x \in {y \in a.rows : Avinor!InScope(y, osloPacket.at)}}
<1> DEFINE times == {x.time : x \in {y \in a.rows : Avinor!InScope(y, osloPacket.at)}}
<1>1. Avinor!FirstEvidence(osloPacket, a) = Avinor!Evidence(a.number, Avinor!Capture("OSL"), a.cites, times)
  BY DEF Avinor!FirstEvidence
<1> HIDE DEF times
<1>2. OsloEvidence(a) = Avinor!Evidence(a.number, osloPacket.at, a.cites, times)
  BY <1>1 DEF OsloEvidence, Avinor!Evidence
<1> QED  BY <1>2, EvidenceIs DEF times

LEMMA BaseIsSound == ASSUME Avinor!CapturesAssumption PROVE OsloSound(OsloBase)
<1> SUFFICES ASSUME NEW r \in DOMAIN OsloBase
             PROVE  /\ OsloRecord(OsloBase[r]) /\ OsloBase[r].confirmed \cap OsloBase[r].candidates = {}
                    /\ OsloBase[r].candidates # {} => OsloBase[r].cites # {}
                    /\ OsloBase[r].dated = {}
  BY DEF OsloSound
<1> QED  BY DEF OsloRecord, Avinor!CapturesAssumption

LEMMA ReleasedIsSound ==
  ASSUME Avinor!CapturesAssumption, CapturesInv, osloPacket # Void
  PROVE  OsloSound(OsloReleased)
<1> DEFINE net == osloPatch.before
<1>1. /\ Timed(osloFeed) /\ OsloSound(net)
      /\ osloPacket.associations \subseteq Avinor!Associations(net, osloFeed.at, osloFeed.rows)
  BY DEF CapturesInv
<1>2. DOMAIN OsloReleased = DOMAIN OsloBase  BY DEF OsloReleased, Avinor!WithAssociations
<1>3. ASSUME NEW r \in DOMAIN OsloBase
      PROVE  LET new == OsloReleased[r]
             IN /\ OsloRecord(new) /\ new.confirmed \cap new.candidates = {}
                /\ new.candidates \subseteq OsloBase[r].candidates
                /\ new.candidates # {} => new.cites = OsloBase[r].cites /\ new.cites # {}
                /\ \A e \in new.dated :
                     /\ e.number \in new.confirmed /\ e.number \in OsloBase[r].candidates
                     /\ e.cites # {} /\ e.cites \subseteq OsloBase[r].cites
                     /\ \A f \in new.dated : f.number = e.number => f = e
  <2> DEFINE new == OsloReleased[r]
             own == Avinor!Of(osloPacket.associations, r)
             numbers == Avinor!NumbersOf(own)
  <2>1. /\ OsloRecord(new) /\ new.confirmed = OsloBase[r].confirmed \cup numbers
        /\ new.candidates = OsloBase[r].candidates \ numbers
        /\ new.candidates # {} => new.cites = OsloBase[r].cites
        /\ new.dated = {OsloEvidence(a) : a \in own}
    BY ReleasedIs
  <2>2. /\ OsloBase[r].confirmed \cap OsloBase[r].candidates = {}
        /\ OsloBase[r].candidates # {} => OsloBase[r].cites # {}
    BY DEF Avinor!CapturesAssumption
  <2>3. ASSUME NEW a \in own
        PROVE  /\ a.number \in OsloBase[r].candidates /\ a.cites # {} /\ a.cites \subseteq OsloBase[r].cites
               /\ a.number \in numbers
               /\ \A b \in own : b.number = a.number => b = a
    <3>1. a \in Avinor!Associations(net, osloFeed.at, osloFeed.rows) /\ a.route = r
      BY <1>1, <2>3 DEF Avinor!Of
    <3>2. a.cites # {} /\ a.number \in OsloBase[r].candidates /\ a.cites \subseteq OsloBase[r].cites
      BY <1>1, <3>1, AssociationsAre
    <3>3. ASSUME NEW b \in own, b.number = a.number PROVE b = a
      <4>1. b \in Avinor!Associations(net, osloFeed.at, osloFeed.rows) /\ b.route = r
        BY <1>1, <3>3 DEF Avinor!Of
      <4> QED  BY <1>1, <3>1, <3>3, <4>1, AssociationsOnce
    <3> QED  BY <3>2, <3>3 DEF Avinor!NumbersOf
  <2>4. ASSUME NEW e \in new.dated
        PROVE  /\ e.number \in new.confirmed /\ e.number \in OsloBase[r].candidates
               /\ e.cites # {} /\ e.cites \subseteq OsloBase[r].cites
               /\ \A f \in new.dated : f.number = e.number => f = e
    <3>1. PICK a \in own : e = OsloEvidence(a)  BY <2>1, <2>4
    <3>2. e.number = a.number /\ e.cites = a.cites  BY <3>1, OsloEvidenceIs
    <3>3. ASSUME NEW f \in new.dated, f.number = e.number PROVE f = e
      <4>1. PICK b \in own : f = OsloEvidence(b)  BY <2>1, <3>3
      <4>2. f.number = b.number  BY <4>1, OsloEvidenceIs
      <4> QED  BY <2>3, <3>1, <3>2, <3>3, <4>1, <4>2
    <3> QED  BY <2>1, <2>3, <3>2, <3>3
  <2> HIDE DEF new, own, numbers
  <2>5. /\ new.confirmed \cap new.candidates = {} /\ new.candidates \subseteq OsloBase[r].candidates
        /\ new.candidates # {} => new.cites # {}
    <3>1. \A n \in numbers : n \in OsloBase[r].candidates  BY <2>3 DEF Avinor!NumbersOf, numbers
    <3> QED  BY <2>1, <2>2, <3>1
  <2> QED  BY <2>1, <2>4, <2>5 DEF new
<1> QED  BY <1>2, <1>3 DEF OsloSound

-----------------------------------------------------------------------------
\* What is built is what was proposed, but for what leaves at the very time of the capture.
LEMMA BuiltAsProposed ==
  ASSUME Avinor!CapturesAssumption, CapturesInv, osloOutcome = "written", NEW a \in osloPacket.associations
  PROVE  LET built == CHOOSE e \in osloNetwork[a.route].dated : e.number = a.number
             made == CHOOSE e \in osloPatch.after[a.route].dated : e.number = a.number
         IN built = [made EXCEPT !.times = @ \ {osloFeed.at}] /\ built.times # {}
<1> DEFINE before == osloPatch.before
           r == a.route
           built == CHOOSE e \in osloNetwork[r].dated : e.number = a.number
           made == CHOOSE e \in osloPatch.after[r].dated : e.number = a.number
<1>1. /\ osloPacket # Void /\ Timed(osloFeed) /\ OsloSound(before)
      /\ osloPatch.after = Avinor!After(before, osloFeed.at, osloFeed.rows)
      /\ a \in Avinor!Associations(before, osloFeed.at, osloFeed.rows)
      /\ osloPacket.at = osloFeed.at
      /\ osloNetwork = OsloReleased /\ Avinor!FirstValid(osloPacket)
  BY DEF CapturesInv, Avinor!CapturesAssumption
<1>2. PICK c \in Avinor!SupportedOnes(before, osloFeed.at, osloFeed.rows) :
        /\ a.route = c.route /\ a.number = c.number /\ a.cites = c.cites
        /\ a.rows = Avinor!Supporting(c, osloFeed.at, osloFeed.rows)
        /\ c \in Avinor!CandidatesFor(before, osloFeed.at) /\ r \in DOMAIN OsloBase
  BY <1>1, AssociationsAre
<1> DEFINE ahead == {x.time : x \in {y \in Avinor!Supporting(c, osloFeed.at, osloFeed.rows) : y.class = "upcoming"}}
           times == {x.time : x \in {y \in a.rows : Avinor!InScope(y, osloPacket.at)}}
<1>3. built = Avinor!Evidence(a.number, osloFeed.at, a.cites, times)
  <2>1. osloNetwork[r].dated = {OsloEvidence(b) : b \in Avinor!Of(osloPacket.associations, r)}
    BY <1>1, <1>2, ReleasedIs
  <2>2. OsloEvidence(a) \in osloNetwork[r].dated  BY <2>1 DEF Avinor!Of
  <2>3. OsloEvidence(a).number = a.number  BY OsloEvidenceIs
  <2>4. \A e, f \in osloNetwork[r].dated : f.number = e.number => f = e
    BY <1>1, <1>2, ReleasedIsSound DEF OsloSound
  <2>5. built = OsloEvidence(a)  BY <2>2, <2>3, <2>4
  <2> QED  BY <1>1, <2>5, OsloEvidenceIs
<1>4. made = Avinor!Evidence(a.number, osloFeed.at, a.cites, ahead)
  <2> DEFINE supported == Avinor!Of(Avinor!SupportedOnes(before, osloFeed.at, osloFeed.rows), r)
             numbers == Avinor!NumbersOf(supported)
             proposed == Avinor!Proposed(c, osloFeed.at, osloFeed.rows)
  <2>1. osloPatch.after[r].dated = {e \in before[r].dated : e.number \notin numbers}
                                     \cup {Avinor!Proposed(d, osloFeed.at, osloFeed.rows) : d \in supported}
    BY <1>1, <1>2, AfterIs
  <2>2. c \in supported /\ a.number \in numbers  BY <1>2 DEF Avinor!Of, Avinor!NumbersOf
  <2>3. ASSUME NEW d \in supported
        PROVE  /\ d \in Avinor!CandidatesFor(before, osloFeed.at) /\ d.route = r
               /\ Avinor!Proposed(d, osloFeed.at, osloFeed.rows).number = d.number
    <3>1. d \in Avinor!SupportedOnes(before, osloFeed.at, osloFeed.rows) /\ d.route = r
      BY <2>3 DEF Avinor!Of
    <3>2. d \in Avinor!CandidatesFor(before, osloFeed.at)  BY <1>1, <3>1, SupportedAre
    <3> QED  BY <3>1, <3>2, EvidenceIs DEF Avinor!Proposed
  <2>4. ASSUME NEW e \in osloPatch.after[r].dated, e.number = a.number PROVE e = proposed
    <3>1. PICK d \in supported : e = Avinor!Proposed(d, osloFeed.at, osloFeed.rows)
      BY <2>1, <2>2, <2>4
    <3>2. d.number = c.number /\ d.route = c.route  BY <1>2, <2>3, <2>4, <3>1
    <3>3. d = c  BY <1>1, <1>2, <2>3, <3>2, CandidatesOnce
    <3> QED  BY <3>1, <3>3
  <2>5. proposed \in osloPatch.after[r].dated /\ proposed.number = a.number
    BY <1>2, <2>1, <2>2, <2>3
  <2>6. made = proposed
    <3> HIDE DEF proposed
    <3> QED  BY <2>4, <2>5
  <2>7. proposed = Avinor!Evidence(c.number, osloFeed.at, c.cites, ahead)
    BY <1>1, <1>2, ProposedIs
  <2> QED  BY <1>2, <2>6, <2>7
<1>5. \A x \in a.rows :
        /\ x.class \in {"upcoming", "recent"} /\ x.time \in Int /\ x.time <= osloFeed.at + Horizon
        /\ x.class = "upcoming" => osloFeed.at <= x.time
  <2>1. ASSUME NEW x \in Avinor!Supporting(c, osloFeed.at, osloFeed.rows)
        PROVE  Supports(x, c, osloFeed)
    BY <1>1, <1>2, SupportsOf
  <2> QED  BY <1>2, <2>1 DEF Supports
<1>6. osloFeed.at \in Int  BY <1>1 DEF Timed
<1>7. \A x \in a.rows : Avinor!InScope(x, osloPacket.at) <=> x.class = "upcoming" /\ x.time # osloFeed.at
  BY <1>1, <1>5, <1>6 DEF Avinor!InScope
<1>8. times = ahead \ {osloFeed.at}  BY <1>2, <1>7
<1>9. times # {}  BY <1>1 DEF Avinor!FirstValid
<1> HIDE DEF built, made, ahead, times
<1>10. built = [made EXCEPT !.times = @ \ {osloFeed.at}]
  BY <1>3, <1>4, <1>8 DEF Avinor!Evidence
<1>11. built.times # {}  BY <1>3, <1>9, EvidenceIs
<1> QED  BY <1>10, <1>11 DEF built, made

\* What is refused has nothing ahead.
LEMMA RefusedForCause ==
  ASSUME Avinor!CapturesAssumption, CapturesInv, osloPacket # Void,
         \A a \in osloPacket.associations :
           \E x \in a.rows : ~(x.class = "recent" \/ x.time <= osloFeed.at)
  PROVE  Avinor!FirstValid(osloPacket) /\ Avinor!FirstBuilds(OsloBase, osloPacket)
<1> DEFINE before == osloPatch.before
<1>1. /\ Timed(osloFeed) /\ OsloSound(before) /\ osloPacket.at = osloFeed.at
      /\ osloPacket.associations \subseteq Avinor!Associations(before, osloFeed.at, osloFeed.rows)
  BY DEF CapturesInv
<1>7. Avinor!OneRowPerKey(osloPacket.associations)
  <2> SUFFICES ASSUME NEW a \in osloPacket.associations, NEW b \in osloPacket.associations,
                      Avinor!Key(a) = Avinor!Key(b)
               PROVE  a = b
    BY DEF Avinor!OneRowPerKey
  <2>1. a.route = b.route /\ a.number = b.number  BY DEF Avinor!Key
  <2> QED  BY <1>1, <2>1, AssociationsOnce
<1> SUFFICES ASSUME NEW a \in osloPacket.associations
             PROVE  /\ \A x \in a.rows : Avinor!Fits(x, a) /\ (x.class = "upcoming" => x.status # "C")
                    /\ \E x \in a.rows : Avinor!InScope(x, osloPacket.at)
                    /\ Avinor!StillCandidate(OsloBase, a)
  BY <1>7 DEF Avinor!FirstValid, Avinor!FirstBuilds
<1>2. PICK c \in Avinor!SupportedOnes(before, osloFeed.at, osloFeed.rows) :
        /\ a.route = c.route /\ a.number = c.number
        /\ a.rows = Avinor!Supporting(c, osloFeed.at, osloFeed.rows) /\ a.route \in DOMAIN OsloBase
        /\ a.number \in OsloBase[a.route].candidates /\ a.cites \subseteq OsloBase[a.route].cites
  BY <1>1, AssociationsAre
<1>3. \A x \in a.rows :
        /\ x.class \in {"upcoming", "recent"} /\ x.status # "C" /\ ~x.via
        /\ x.operator = a.route.carrier /\ x.flight = a.number /\ x.flight.code = x.operator
        /\ x.from = a.route.from /\ x.to = a.route.to
        /\ x.time \in Int /\ x.time <= osloFeed.at + Horizon
  <2> SUFFICES ASSUME NEW x \in Avinor!Supporting(c, osloFeed.at, osloFeed.rows)
               PROVE  /\ x.class \in {"upcoming", "recent"} /\ x.status # "C" /\ ~x.via
                      /\ x.operator = c.route.carrier /\ x.flight = c.number /\ x.flight.code = x.operator
                      /\ x.from = c.route.from /\ x.to = c.route.to
                      /\ x.time \in Int /\ x.time <= osloFeed.at + Horizon
    BY <1>2
  <2>1. c.route \in DOMAIN OsloBase /\ Timed(osloFeed)  BY <1>1, <1>2
  <2>2. Supports(x, c, osloFeed)  BY <2>1, SupportsOf
  <2> QED  BY <2>2 DEF Supports
<1>4. \A x \in a.rows : Avinor!Fits(x, a)  BY <1>3 DEF Avinor!Fits
<1>5. \E x \in a.rows : Avinor!InScope(x, osloPacket.at)
  <2>1. PICK x \in a.rows : ~(x.class = "recent" \/ x.time <= osloFeed.at)  OBVIOUS
  <2>2. osloFeed.at \in Int  BY <1>1 DEF Timed
  <2> QED  BY <1>1, <1>3, <2>1, <2>2 DEF Avinor!InScope
<1>6. Avinor!StillCandidate(OsloBase, a)
  <2>1. OsloBase[a.route].confirmed \cap OsloBase[a.route].candidates = {}
    BY <1>2 DEF Avinor!CapturesAssumption
  <2> QED  BY <1>2, <2>1 DEF Avinor!StillCandidate
<1> QED  BY <1>3, <1>4, <1>5, <1>6

LEMMA ReleaseFollows ==
  ASSUME Avinor!CapturesAssumption, CapturesInv
  PROVE  Avinor!ReleaseFollowsPatch
<1>1. ASSUME osloOutcome = "refused"
      PROVE  \E a \in osloPacket.associations : \A x \in a.rows : x.class = "recent" \/ x.time <= osloFeed.at
  <2>1. osloPacket # Void /\ ~(Avinor!FirstValid(osloPacket) /\ Avinor!FirstBuilds(OsloBase, osloPacket))
    BY <1>1 DEF CapturesInv, Avinor!CapturesAssumption
  <2> QED  BY <2>1, RefusedForCause
<1> QED  BY <1>1, BuiltAsProposed DEF Avinor!ReleaseFollowsPatch

-----------------------------------------------------------------------------
LEMMA CapturesStart == ASSUME Avinor!CapturesAssumption, Avinor!Init PROVE CapturesInv
BY BaseIsSound DEF Avinor!Init, CapturesInv, Avinor!CapturesAssumption

LEMMA CapturesStep ==
  ASSUME Avinor!CapturesAssumption, CapturesInv, [Avinor!Next]_Avinor!vars
  PROVE  CapturesInv'
<1>1. CASE UNCHANGED Avinor!vars
  <2>1. OsloReleased' = OsloReleased
    BY <1>1 DEF Avinor!vars, OsloReleased, OsloEvidence, Avinor!WithAssociations, Avinor!FirstEvidence
  <2> QED  BY <1>1, <2>1 DEF Avinor!vars, CapturesInv
<1>2. CASE Avinor!Tick
  <2>1. OsloReleased' = OsloReleased
    BY <1>2 DEF Avinor!Tick, OsloReleased, OsloEvidence, Avinor!WithAssociations, Avinor!FirstEvidence
  <2> QED  BY <1>2, <2>1 DEF Avinor!Tick, CapturesInv
<1>3. ASSUME NEW lines \in Feeds, Avinor!Refresh(lines) PROVE CapturesInv'
  <2>1. /\ osloFeed'.at = captureTime
        /\ osloFeed'.rows = {IF x.time = Void THEN x ELSE [x EXCEPT !.time = captureTime + @] : x \in lines}
        /\ osloPatch' = Void /\ osloPacket' = Void /\ osloOutcome' = Void
        /\ captureTime' = captureTime /\ osloNetwork' = osloNetwork
    BY <1>3 DEF Avinor!Refresh
  <2>2. \A x \in lines : "time" \in DOMAIN x /\ x.time \in Int \cup {Void}
    BY DEF Avinor!CapturesAssumption
  <2>3. captureTime \in Int  BY DEF CapturesInv
  <2>4. ASSUME NEW y \in osloFeed'.rows PROVE y.time \in Int \cup {Void}
    <3>1. PICK x \in lines : y = IF x.time = Void THEN x ELSE [x EXCEPT !.time = captureTime + @]
      BY <2>1, <2>4
    <3>2. CASE x.time = Void  BY <3>1, <3>2
    <3>3. CASE x.time # Void
      <4>1. y.time = captureTime + x.time  BY <2>2, <3>1, <3>3
      <4> QED  BY <2>2, <2>3, <3>3, <4>1
    <3> QED  BY <3>2, <3>3
  <2>5. Timed(osloFeed')  BY <2>1, <2>3, <2>4 DEF Timed
  <2> QED  BY <2>1, <2>5 DEF CapturesInv, Avinor!CapturesAssumption
<1>4. CASE Avinor!Parse
  <2>1. OsloReleased' = OsloReleased
    BY <1>4 DEF Avinor!Parse, OsloReleased, OsloEvidence, Avinor!WithAssociations, Avinor!FirstEvidence
  <2> QED  BY <1>4, <2>1 DEF Avinor!Parse, CapturesInv
<1>5. ASSUME NEW associations \in SUBSET osloPatch.supported, Avinor!Review(associations) PROVE CapturesInv'
  <2>1. osloOutcome = Void  BY <1>5 DEF Avinor!Review, CapturesInv
  <2> QED  BY <1>5, <2>1 DEF Avinor!Review, CapturesInv, Avinor!CapturesAssumption
<1>6. CASE Avinor!Build
  <2>1. OsloReleased' = OsloReleased
    BY <1>6 DEF Avinor!Build, OsloReleased, OsloEvidence, Avinor!WithAssociations, Avinor!FirstEvidence
  <2>2. \/ /\ Avinor!FirstValid(osloPacket) /\ osloOutcome' = "written" /\ osloNetwork' = OsloReleased
        \/ /\ ~(Avinor!FirstValid(osloPacket) /\ Avinor!FirstBuilds(OsloBase, osloPacket))
           /\ osloOutcome' = "refused" /\ osloNetwork' = osloNetwork
    BY <1>6 DEF Avinor!Build, OsloReleased, OsloEvidence, Avinor!WithAssociations
  <2>3. OsloSound(OsloReleased)  BY <1>6, ReleasedIsSound DEF Avinor!Build
  <2>4. OsloSound(osloNetwork')  BY <2>2, <2>3 DEF CapturesInv
  <2> QED  BY <1>6, <2>1, <2>2, <2>4 DEF Avinor!Build, CapturesInv
<1> QED  BY <1>1, <1>2, <1>3, <1>4, <1>5, <1>6 DEF Avinor!Next

\* Whatever the feed answers, the patch proposes what is going to fly and misses no number
\* of it, and the release that is laid over the network is what was proposed
\* (parse-avinor-xml-public-snapshot.py, build-runtime-route-network.ts).
THEOREM ReleasesFollowCaptures ==
  ASSUME Avinor!CapturesAssumption PROVE Avinor!Spec => []Avinor!CapturesAccounted
<1>1. Avinor!Init => CapturesInv  BY CapturesStart
<1>2. CapturesInv /\ [Avinor!Next]_Avinor!vars => CapturesInv'  BY CapturesStep
<1>3. CapturesInv => Avinor!CapturesAccounted
  BY PatchIsSound, ReleaseFollows DEF Avinor!CapturesAccounted
<1> QED  BY <1>1, <1>2, <1>3, PTL DEF Avinor!Spec

-----------------------------------------------------------------------------
(***************************************************************************)
(* AvinorRelease: what the four overlays make of the network, and what     *)
(* the three scripts compare it with.                                      *)
(***************************************************************************)
Shaped(net) == \A r \in DOMAIN net : OsloRecord(net[r])

\* An overlay dates and confirms these keys, which are no candidates any more.
Adds(net, out, keys) ==
  /\ Norway!Confirmed(out) = Norway!Confirmed(net) \cup keys
  /\ Norway!Candidates(out) = Norway!Candidates(net) \ keys
  /\ Norway!Dated(out) = Norway!Dated(net) \cup keys

\* The keys of one route.
AddsTo(net, out, lines, r) ==
  LET known == Norway!Existing(net, r)
      numbers == Norway!NumbersOf(Norway!Of(lines, r))
  IN /\ out[r].confirmed = known.confirmed \cup numbers
     /\ out[r].candidates = known.candidates \ numbers
     /\ {e.number : e \in out[r].dated} = {e.number : e \in known.dated} \cup numbers

LEMMA KeysOf ==
  ASSUME NEW net, NEW key
  PROVE  /\ key \in Norway!Dated(net) <=>
              \E r \in DOMAIN net : \E e \in net[r].dated : key = [route |-> r, number |-> e.number]
         /\ key \in Norway!Confirmed(net) <=>
              \E r \in DOMAIN net : \E n \in net[r].confirmed : key = [route |-> r, number |-> n]
         /\ key \in Norway!Candidates(net) <=>
              \E r \in DOMAIN net : \E n \in net[r].candidates : key = [route |-> r, number |-> n]
<1>1. key \in Norway!Dated(net) <=>
        \E r \in DOMAIN net : \E e \in net[r].dated : key = [route |-> r, number |-> e.number]
  BY DEF Norway!Dated
<1>2. key \in Norway!Confirmed(net) <=>
        \E r \in DOMAIN net : \E n \in net[r].confirmed : key = [route |-> r, number |-> n]
  BY DEF Norway!Confirmed
<1>3. key \in Norway!Candidates(net) <=>
        \E r \in DOMAIN net : \E n \in net[r].candidates : key = [route |-> r, number |-> n]
  BY DEF Norway!Candidates
<1> QED  BY <1>1, <1>2, <1>3

LEMMA KeyIs ==
  ASSUME NEW net, NEW line
  PROVE  /\ Norway!Key(line) \in Norway!Confirmed(net) <=> Norway!Known(net, line)
         /\ Norway!Key(line) \in Norway!Candidates(net) <=> Norway!WasCandidate(net, line)
<1> DEFINE key == Norway!Key(line)
<1>1. \A r, n : key = [route |-> r, number |-> n] <=> r = line.route /\ n = line.number
  BY DEF Norway!Key
<1> HIDE DEF key
<1>2. key \in Norway!Confirmed(net) <=> Norway!Known(net, line)
  <2>1. key \in Norway!Confirmed(net) <=>
          \E r \in DOMAIN net : \E n \in net[r].confirmed : key = [route |-> r, number |-> n]
    BY KeysOf
  <2> QED  BY <1>1, <2>1 DEF Norway!Known
<1>3. key \in Norway!Candidates(net) <=> Norway!WasCandidate(net, line)
  <2>1. key \in Norway!Candidates(net) <=>
          \E r \in DOMAIN net : \E n \in net[r].candidates : key = [route |-> r, number |-> n]
    BY KeysOf
  <2> QED  BY <1>1, <2>1 DEF Norway!WasCandidate
<1> QED  BY <1>2, <1>3 DEF key

\* A key of rows is a number of those that are of its route.
LEMMA KeyOfRows ==
  ASSUME NEW lines, NEW r, NEW n
  PROVE  [route |-> r, number |-> n] \in Norway!Keys(lines)
           <=> n \in Norway!NumbersOf(Norway!Of(lines, r))
<1>1. [route |-> r, number |-> n] \in Norway!Keys(lines)
        <=> \E line \in lines : [route |-> r, number |-> n] = [route |-> line.route, number |-> line.number]
  BY DEF Norway!Keys, Norway!Key
<1>2. n \in Norway!NumbersOf(Norway!Of(lines, r)) <=> \E line \in lines : line.route = r /\ n = line.number
  BY DEF Norway!NumbersOf, Norway!Of
<1> QED  BY <1>1, <1>2

LEMMA AddsByRoute ==
  ASSUME NEW net, NEW out, NEW lines, DOMAIN out = DOMAIN net \cup {line.route : line \in lines},
         \A r \in DOMAIN out : AddsTo(net, out, lines, r)
  PROVE  Adds(net, out, Norway!Keys(lines))
<1> DEFINE numbers(r) == Norway!NumbersOf(Norway!Of(lines, r))
           known(r) == Norway!Existing(net, r)
<1>1. \A r : r \in DOMAIN net => known(r) = net[r]  BY DEF Norway!Existing
<1>2. \A r : r \notin DOMAIN net =>
        known(r).confirmed = {} /\ known(r).candidates = {} /\ known(r).dated = {}
  BY DEF Norway!Existing, Norway!NoRoute
<1>3. \A r, n : n \in numbers(r) => r \in DOMAIN out  BY DEF Norway!NumbersOf, Norway!Of
<1>4. \A r, n : [route |-> r, number |-> n] \in Norway!Keys(lines) <=> n \in numbers(r)
  BY KeyOfRows
<1>5. \A key \in Norway!Keys(lines) : \E r, n : key = [route |-> r, number |-> n]
  BY DEF Norway!Keys, Norway!Key
<1>6. \A r \in DOMAIN out :
        /\ out[r].confirmed = known(r).confirmed \cup numbers(r)
        /\ out[r].candidates = known(r).candidates \ numbers(r)
        /\ {e.number : e \in out[r].dated} = {e.number : e \in known(r).dated} \cup numbers(r)
  BY DEF AddsTo
<1> HIDE DEF numbers, known
<1>7. \A r, n : [route |-> r, number |-> n] \in Norway!Confirmed(net)
                  <=> r \in DOMAIN net /\ n \in known(r).confirmed
  BY <1>1, KeysOf
<1>8. \A r, n : [route |-> r, number |-> n] \in Norway!Candidates(net)
                  <=> r \in DOMAIN net /\ n \in known(r).candidates
  BY <1>1, KeysOf
<1>9. \A r, n : [route |-> r, number |-> n] \in Norway!Dated(net)
                  <=> r \in DOMAIN net /\ n \in {e.number : e \in known(r).dated}
  BY <1>1, KeysOf
<1>10. \A r, n : [route |-> r, number |-> n] \in Norway!Confirmed(out)
                  <=> r \in DOMAIN out /\ n \in out[r].confirmed
  BY KeysOf
<1>11. \A r, n : [route |-> r, number |-> n] \in Norway!Candidates(out)
                  <=> r \in DOMAIN out /\ n \in out[r].candidates
  BY KeysOf
<1>12. \A r, n : [route |-> r, number |-> n] \in Norway!Dated(out)
                  <=> r \in DOMAIN out /\ n \in {e.number : e \in out[r].dated}
  BY KeysOf
<1>13. ASSUME NEW key, key \in Norway!Confirmed(net) \/ key \in Norway!Confirmed(out)
                \/ key \in Norway!Candidates(net) \/ key \in Norway!Candidates(out)
                \/ key \in Norway!Dated(net) \/ key \in Norway!Dated(out) \/ key \in Norway!Keys(lines)
       PROVE  \E r, n : key = [route |-> r, number |-> n]
  BY <1>5, <1>13, KeysOf
<1>14. \A r : r \in DOMAIN net => r \in DOMAIN out  OBVIOUS
<1>15. Norway!Confirmed(out) = Norway!Confirmed(net) \cup Norway!Keys(lines)
  <2>1. \A r, n : /\ n \in numbers(r) => r \in DOMAIN out
                  /\ n \in known(r).confirmed => r \in DOMAIN net /\ r \in DOMAIN out
                  /\ r \in DOMAIN out => (n \in out[r].confirmed
                                            <=> n \in known(r).confirmed \/ n \in numbers(r))
    BY <1>2, <1>3, <1>6, <1>14
  <2>2. \A r, n : [route |-> r, number |-> n] \in Norway!Confirmed(out)
          <=> [route |-> r, number |-> n] \in Norway!Confirmed(net) \cup Norway!Keys(lines)
    BY <1>4, <1>7, <1>10, <2>1
  <2> QED  BY <1>13, <2>2
<1>16. Norway!Candidates(out) = Norway!Candidates(net) \ Norway!Keys(lines)
  <2>1. \A r, n : /\ n \in known(r).candidates => r \in DOMAIN net /\ r \in DOMAIN out
                  /\ r \in DOMAIN out => (n \in out[r].candidates
                                            <=> n \in known(r).candidates /\ n \notin numbers(r))
    BY <1>2, <1>6, <1>14
  <2>2. \A r, n : [route |-> r, number |-> n] \in Norway!Candidates(out)
          <=> [route |-> r, number |-> n] \in Norway!Candidates(net) \ Norway!Keys(lines)
    BY <1>4, <1>8, <1>11, <2>1
  <2> QED  BY <1>13, <2>2
<1>17. Norway!Dated(out) = Norway!Dated(net) \cup Norway!Keys(lines)
  <2>1. \A r : r \notin DOMAIN net => {e.number : e \in known(r).dated} = {}  BY <1>2
  <2>2. \A r, n : LET had == {e.number : e \in known(r).dated}
                      has == {e.number : e \in out[r].dated}
                  IN /\ n \in numbers(r) => r \in DOMAIN out
                     /\ n \in had => r \in DOMAIN net /\ r \in DOMAIN out
                     /\ r \in DOMAIN out => (n \in has <=> n \in had \/ n \in numbers(r))
    BY <1>3, <1>6, <1>14, <2>1
  <2>3. \A r, n : [route |-> r, number |-> n] \in Norway!Dated(out)
          <=> [route |-> r, number |-> n] \in Norway!Dated(net) \cup Norway!Keys(lines)
    BY <1>4, <1>9, <1>12, <2>2
  <2> QED  BY <1>13, <2>3
<1> QED  BY <1>15, <1>16, <1>17 DEF Adds

LEMMA PromotionIs ==
  ASSUME NEW known, OsloRecord(known), NEW numbers
  PROVE  Norway!Promote(known, numbers) =
           [status |-> known.status, identity |-> known.identity,
            confirmed |-> known.confirmed \cup numbers, candidates |-> known.candidates \ numbers,
            cites |-> IF known.candidates \ numbers = {} THEN {} ELSE known.cites, dated |-> known.dated]
<1> DEFINE plain == [status |-> known.status, identity |-> known.identity, confirmed |-> known.confirmed,
                     candidates |-> known.candidates, cites |-> known.cites, dated |-> known.dated]
           left == known.candidates \ numbers
           both == known.confirmed \cup numbers
           kept == IF left = {} THEN {} ELSE known.cites
<1>1. known = plain  BY DEF OsloRecord
<1>2. Norway!Promote(known, numbers) = [plain EXCEPT !.confirmed = both, !.candidates = left, !.cites = kept]
  BY <1>1 DEF Norway!Promote
<1> HIDE DEF left, both, kept
<1> DEFINE one == [plain EXCEPT !.confirmed = both]
           two == [one EXCEPT !.candidates = left]
<1>3. one = [status |-> known.status, identity |-> known.identity, confirmed |-> both,
             candidates |-> known.candidates, cites |-> known.cites, dated |-> known.dated]
  OBVIOUS
<1> HIDE DEF one
<1>4. two = [status |-> known.status, identity |-> known.identity, confirmed |-> both,
             candidates |-> left, cites |-> known.cites, dated |-> known.dated]
  BY <1>3
<1> HIDE DEF two
<1>5. [two EXCEPT !.cites = kept] =
        [status |-> known.status, identity |-> known.identity, confirmed |-> both,
         candidates |-> left, cites |-> kept, dated |-> known.dated]
  BY <1>4
<1>6. Norway!Promote(known, numbers) = [two EXCEPT !.cites = kept]  BY <1>2 DEF one, two
<1> QED  BY <1>5, <1>6 DEF left, both, kept

\* What rows of a ledger make of a route.
LEMMA PublishedIs ==
  ASSUME NEW known, OsloRecord(known), NEW lines, NEW fresh
  PROVE  LET new == Norway!Published(known, lines, fresh)
         IN /\ OsloRecord(new) /\ new.confirmed = known.confirmed \cup Norway!NumbersOf(lines)
            /\ new.candidates = known.candidates \ Norway!NumbersOf(lines)
            /\ new.dated = Norway!JoinAll(known.dated, fresh)
<1> DEFINE numbers == Norway!NumbersOf(lines)
           left == known.candidates \ numbers
           both == known.confirmed \cup numbers
           kept == IF left = {} THEN {} ELSE known.cites
           joined == Norway!JoinAll(known.dated, fresh)
           state == IF known.status = "identity-unresolved" THEN "published" ELSE known.status
           named == IF known.identity = "operating" THEN known.identity ELSE "provider-listed"
           old == Norway!Promote(known, numbers)
           plain == [status |-> known.status, identity |-> known.identity, confirmed |-> both,
                     candidates |-> left, cites |-> kept, dated |-> known.dated]
           new == Norway!Published(known, lines, fresh)
<1>1. old = plain  BY PromotionIs
<1> HIDE DEF left, both, kept
<1>2. plain.status = known.status /\ plain.identity = known.identity /\ plain.dated = known.dated  OBVIOUS
<1> DEFINE one == [plain EXCEPT !.status = state]
           two == [one EXCEPT !.identity = named]
           three == [two EXCEPT !.dated = joined]
<1>3. new = three
  <2>1. new = [old EXCEPT !.status = IF @ = "identity-unresolved" THEN "published" ELSE @,
                          !.identity = IF @ = "operating" THEN @ ELSE "provider-listed",
                          !.dated = Norway!JoinAll(@, fresh)]
    BY DEF Norway!Published
  <2>2. new = [plain EXCEPT !.status = state, !.identity = named, !.dated = joined]
    BY <1>1, <1>2, <2>1
  <2> HIDE DEF new, plain, state, named, joined
  <2> QED  BY <2>2
<1> HIDE DEF state, named, joined, new
<1>4. one = [status |-> state, identity |-> known.identity, confirmed |-> both,
             candidates |-> left, cites |-> kept, dated |-> known.dated]
  OBVIOUS
<1> HIDE DEF one
<1>5. two = [status |-> state, identity |-> named, confirmed |-> both,
             candidates |-> left, cites |-> kept, dated |-> known.dated]
  BY <1>4
<1> HIDE DEF two
<1>6. three = [status |-> state, identity |-> named, confirmed |-> both,
               candidates |-> left, cites |-> kept, dated |-> joined]
  BY <1>5
<1>7. OsloRecord(new) /\ new.confirmed = both /\ new.candidates = left /\ new.dated = joined
  BY <1>3, <1>6 DEF OsloRecord
<1> QED  BY <1>7 DEF new, left, both, joined, numbers

\* What there is after new evidence: what it does not touch, itself, or the two joined.
LEMMA JoinedAre ==
  ASSUME NEW old, NEW fresh
  PROVE  /\ \A e \in Norway!JoinAll(old, fresh) :
              \/ e \in old /\ \A f \in fresh : ~(e.number = f.number /\ e.source = f.source)
              \/ \E f \in fresh :
                   /\ e.number = f.number /\ e.source = f.source
                   /\ \/ e = f
                      \/ \E o \in old : o.number = f.number /\ o.source = f.source /\ e = Norway!Joined(o, f)
         /\ \A e \in old : (\A f \in fresh : ~(e.number = f.number /\ e.source = f.source))
              => e \in Norway!JoinAll(old, fresh)
         /\ \A f \in fresh : \E e \in Norway!JoinAll(old, fresh) :
              /\ e.number = f.number /\ e.source = f.source
              /\ \/ e = f /\ \A o \in old : ~(o.number = f.number /\ o.source = f.source)
                 \/ \E o \in old : o.number = f.number /\ o.source = f.source /\ e = Norway!Joined(o, f)
<1> DEFINE same(e, f) == e.number = f.number /\ e.source = f.source
           chosen(f) == CHOOSE e \in old : same(e, f)
           made(f) == IF \E e \in old : same(e, f) THEN Norway!Joined(chosen(f), f) ELSE f
<1>1. Norway!JoinAll(old, fresh) =
        {e \in old : \A f \in fresh : ~same(e, f)} \cup {made(f) : f \in fresh}
  BY DEF Norway!JoinAll
<1>2. ASSUME NEW f \in fresh
      PROVE  /\ made(f).number = f.number /\ made(f).source = f.source
             /\ \/ made(f) = f /\ \A o \in old : ~same(o, f)
                \/ \E o \in old : same(o, f) /\ made(f) = Norway!Joined(o, f)
  <2>1. CASE \E e \in old : same(e, f)
    <3>1. chosen(f) \in old /\ same(chosen(f), f)  BY <2>1
    <3> HIDE DEF chosen
    <3>2. made(f) = Norway!Joined(chosen(f), f)  BY <2>1
    <3>3. made(f).number = chosen(f).number /\ made(f).source = chosen(f).source
      BY <3>2 DEF Norway!Joined
    <3> QED  BY <3>1, <3>2, <3>3
  <2>2. CASE ~\E e \in old : same(e, f)  BY <2>2
  <2> QED  BY <2>1, <2>2
<1> HIDE DEF made
<1>3. \A e \in Norway!JoinAll(old, fresh) :
        \/ e \in old /\ \A f \in fresh : ~same(e, f)
        \/ \E f \in fresh : e = made(f)
  BY <1>1
<1>4. \A e \in Norway!JoinAll(old, fresh) :
        \/ e \in old /\ \A f \in fresh : ~same(e, f)
        \/ \E f \in fresh :
             /\ same(e, f)
             /\ e = f \/ \E o \in old : same(o, f) /\ e = Norway!Joined(o, f)
  BY <1>2, <1>3
<1>5. \A e \in old : (\A f \in fresh : ~same(e, f)) => e \in Norway!JoinAll(old, fresh)  BY <1>1
<1>6. \A f \in fresh : made(f) \in Norway!JoinAll(old, fresh)  BY <1>1
<1>7. \A f \in fresh : \E e \in Norway!JoinAll(old, fresh) :
        /\ same(e, f)
        /\ \/ e = f /\ \A o \in old : ~same(o, f)
           \/ \E o \in old : same(o, f) /\ e = Norway!Joined(o, f)
  BY <1>2, <1>6
<1> QED  BY <1>4, <1>5, <1>7

-----------------------------------------------------------------------------
\* An overlay of a capture's associations.
Laid(net, out, associations, proof) ==
  out = [r \in DOMAIN net |->
           IF Norway!Of(associations, r) = {} THEN net[r]
           ELSE [Norway!Promote(net[r], Norway!NumbersOf(Norway!Of(associations, r))) EXCEPT
                   !.dated = @ \cup {proof[a] : a \in Norway!Of(associations, r)}]]

\* Evidence that the associations of a capture bring.
LaidDated(net, out, associations, proof) ==
  \A r \in DOMAIN net :
    out[r].dated = net[r].dated \cup {proof[a] : a \in Norway!Of(associations, r)}

LEMMA LaidOver ==
  ASSUME NEW net, Shaped(net), NEW associations, NEW proof, NEW out,
         Laid(net, out, associations, proof),
         \A a \in associations : a.route \in DOMAIN net /\ proof[a].number = a.number
  PROVE  /\ Shaped(out) /\ DOMAIN out = DOMAIN net
         /\ Adds(net, out, Norway!Keys(associations))
         /\ LaidDated(net, out, associations, proof)
<1> DEFINE own(r) == Norway!Of(associations, r)
           numbers(r) == Norway!NumbersOf(own(r))
           proofs(r) == {proof[a] : a \in own(r)}
<1> USE DEF Laid
<1>1. DOMAIN out = DOMAIN net  OBVIOUS
<1>2. ASSUME NEW r \in DOMAIN net
      PROVE  /\ OsloRecord(out[r]) /\ out[r].confirmed = net[r].confirmed \cup numbers(r)
             /\ out[r].candidates = net[r].candidates \ numbers(r)
             /\ out[r].dated = net[r].dated \cup proofs(r)
  <2>1. OsloRecord(net[r])  BY DEF Shaped
  <2>2. CASE own(r) = {}
    <3>1. out[r] = net[r]  BY <2>2
    <3>2. numbers(r) = {} /\ proofs(r) = {}  BY <2>2 DEF Norway!NumbersOf
    <3> HIDE DEF numbers, proofs, own
    <3> QED  BY <2>1, <3>1, <3>2
  <2>3. CASE own(r) # {}
    <3> DEFINE old == net[r]
               new == out[r]
               these == numbers(r)
               fresh == proofs(r)
               left == old.candidates \ these
               both == old.confirmed \cup these
               kept == IF left = {} THEN {} ELSE old.cites
               plain == [status |-> old.status, identity |-> old.identity, confirmed |-> both,
                         candidates |-> left, cites |-> kept, dated |-> old.dated]
    <3>1. new = [Norway!Promote(old, these) EXCEPT !.dated = @ \cup fresh]  BY <2>3
    <3>2. OsloRecord(old)  BY <2>1
    <3> HIDE DEF new, these, fresh, old, numbers, proofs, own
    <3>3. Norway!Promote(old, these) = plain  BY <3>2, PromotionIs
    <3>4. new = [plain EXCEPT !.dated = plain.dated \cup fresh]
      <4> HIDE DEF plain
      <4> QED  BY <3>1, <3>3
    <3> HIDE DEF left, both, kept
    <3>5. new = [status |-> old.status, identity |-> old.identity, confirmed |-> both,
                 candidates |-> left, cites |-> kept, dated |-> old.dated \cup fresh]
      BY <3>4
    <3>6. OsloRecord(new) /\ new.confirmed = both /\ new.candidates = left /\ new.dated = old.dated \cup fresh
      BY <3>5 DEF OsloRecord
    <3> QED  BY <3>6 DEF new, these, fresh, old, left, both
  <2> QED  BY <2>2, <2>3
<1>3. ASSUME NEW r \in DOMAIN net
      PROVE  {e.number : e \in proofs(r)} = numbers(r)
  <2>1. \A a \in own(r) : a \in associations /\ proof[a].number = a.number  BY DEF Norway!Of
  <2> QED  BY <2>1 DEF Norway!NumbersOf
<1> HIDE DEF proofs, numbers
<1>4. ASSUME NEW r \in DOMAIN net PROVE AddsTo(net, out, associations, r)
  <2>1. Norway!Existing(net, r) = net[r]  BY DEF Norway!Existing
  <2>2. {e.number : e \in out[r].dated} = {e.number : e \in net[r].dated} \cup numbers(r)
    <3>1. out[r].dated = net[r].dated \cup proofs(r) /\ {e.number : e \in proofs(r)} = numbers(r)
      BY <1>2, <1>3
    <3>2. \A S, T : {e.number : e \in S \cup T} = {e.number : e \in S} \cup {e.number : e \in T}
      OBVIOUS
    <3> QED  BY <3>1, <3>2
  <2> QED  BY <1>2, <2>1, <2>2 DEF AddsTo, numbers
<1>5. DOMAIN out = DOMAIN net \cup {a.route : a \in associations}  BY <1>1
<1>6. Adds(net, out, Norway!Keys(associations))  BY <1>1, <1>4, <1>5, AddsByRoute
<1> QED  BY <1>1, <1>2, <1>6 DEF Shaped, LaidDated, proofs

\* The evidence that a ledger brings for a route.
Brought(lines, file, cites, r) ==
  UNION {{Norway!LedgerEvidence(line, Norway!Source(file, o.airport), cites[r]) : o \in line.occurrences} :
           line \in Norway!Of(lines, r)}

LEMMA BroughtIs ==
  ASSUME NEW lines, NEW file, NEW cites, NEW r
  PROVE  /\ \A f \in Brought(lines, file, cites, r) : \E line \in Norway!Of(lines, r) : \E o \in line.occurrences :
              /\ f = Norway!LedgerEvidence(line, Norway!Source(file, o.airport), cites[r])
              /\ f.number = line.number /\ f.source = Norway!Source(file, o.airport)
         /\ \A line \in Norway!Of(lines, r) : \A o \in line.occurrences :
              Norway!LedgerEvidence(line, Norway!Source(file, o.airport), cites[r])
                \in Brought(lines, file, cites, r)
<1>1. \A line, s, c : /\ Norway!LedgerEvidence(line, s, c).number = line.number
                     /\ Norway!LedgerEvidence(line, s, c).source = s
  BY DEF Norway!LedgerEvidence
<1> QED  BY <1>1 DEF Brought

\* A ledger joins what it brings for a route with what there is.
JoinsDated(net, out, lines, file, cites) ==
  \A r \in DOMAIN out :
    out[r].dated = Norway!JoinAll(Norway!Existing(net, r).dated, Brought(lines, file, cites, r))

LEMMA LedgerOver ==
  ASSUME NEW net, Shaped(net), NEW lines, NEW file, NEW cites, \A line \in lines : line.occurrences # {}
  PROVE  LET out == Norway!LedgerOverlay(net, lines, file, cites)
         IN /\ Shaped(out) /\ DOMAIN out = DOMAIN net \cup {line.route : line \in lines}
            /\ Adds(net, out, Norway!Keys(lines))
            /\ JoinsDated(net, out, lines, file, cites)
<1> DEFINE out == Norway!LedgerOverlay(net, lines, file, cites)
           own(r) == Norway!Of(lines, r)
           numbers(r) == Norway!NumbersOf(own(r))
           known(r) == Norway!Existing(net, r)
           new(r) == Brought(lines, file, cites, r)
<1>1. DOMAIN out = DOMAIN net \cup {line.route : line \in lines}  BY DEF Norway!LedgerOverlay
<1>2. ASSUME NEW r \in DOMAIN out
      PROVE  out[r] = IF own(r) = {} THEN net[r] ELSE Norway!Published(known(r), own(r), new(r))
  BY <1>1, <1>2 DEF Norway!LedgerOverlay, Brought
<1>3. \A r : OsloRecord(known(r))
  <2> SUFFICES ASSUME NEW r PROVE OsloRecord(known(r))  OBVIOUS
  <2>1. CASE r \in DOMAIN net  BY <2>1 DEF Shaped, Norway!Existing
  <2>2. CASE r \notin DOMAIN net  BY <2>2 DEF Norway!Existing, Norway!NoRoute, OsloRecord
  <2> QED  BY <2>1, <2>2
<1>4. ASSUME NEW r \in DOMAIN out, own(r) = {} PROVE out[r] = known(r) /\ new(r) = {} /\ numbers(r) = {}
  <2>1. r \in DOMAIN net  BY <1>1, <1>4 DEF Norway!Of
  <2>2. out[r] = known(r)  BY <1>2, <1>4, <2>1 DEF Norway!Existing
  <2>3. new(r) = {} /\ numbers(r) = {}  BY <1>4 DEF Brought, Norway!NumbersOf
  <2> QED  BY <2>2, <2>3
<1> HIDE DEF out
<1>5. ASSUME NEW r \in DOMAIN out
      PROVE  /\ OsloRecord(out[r]) /\ out[r].confirmed = known(r).confirmed \cup numbers(r)
             /\ out[r].candidates = known(r).candidates \ numbers(r)
             /\ out[r].dated = Norway!JoinAll(known(r).dated, new(r))
  <2>1. CASE own(r) = {}
    <3>1. out[r] = known(r) /\ new(r) = {} /\ numbers(r) = {}  BY <1>4, <2>1
    <3>2. \A S : Norway!JoinAll(S, {}) = S  BY DEF Norway!JoinAll
    <3> HIDE DEF known, new, numbers
    <3> QED  BY <1>3, <3>1, <3>2
  <2>2. CASE own(r) # {}
    <3>1. out[r] = Norway!Published(known(r), own(r), new(r))  BY <1>2, <2>2
    <3> HIDE DEF known, new, own
    <3> QED  BY <1>3, <3>1, PublishedIs
  <2> QED  BY <2>1, <2>2
<1>6. ASSUME NEW r \in DOMAIN out PROVE AddsTo(net, out, lines, r)
  <2> HIDE DEF known, new
  <2>1. \A f \in new(r) : f.number \in numbers(r)  BY BroughtIs DEF Norway!NumbersOf, new
  <2>2. \A n \in numbers(r) : \E f \in new(r) : f.number = n
    <3> SUFFICES ASSUME NEW line \in own(r) PROVE \E f \in new(r) : f.number = line.number
      BY DEF Norway!NumbersOf
    <3>1. line \in lines  BY DEF Norway!Of
    <3>2. PICK o \in line.occurrences : TRUE  BY <3>1
    <3>3. Norway!LedgerEvidence(line, Norway!Source(file, o.airport), cites[r]) \in new(r)
      BY BroughtIs DEF new
    <3> QED  BY <3>3 DEF Norway!LedgerEvidence
  <2>3. {e.number : e \in Norway!JoinAll(known(r).dated, new(r))}
          = {e.number : e \in known(r).dated} \cup numbers(r)
    <3> DEFINE joined == Norway!JoinAll(known(r).dated, new(r))
    <3>1. \A e \in joined : e \in known(r).dated \/ \E f \in new(r) : e.number = f.number  BY JoinedAre
    <3>2. \A f \in new(r) : \E e \in joined : e.number = f.number  BY JoinedAre
    <3>3. \A e \in known(r).dated : e \in joined \/ \E f \in new(r) : e.number = f.number
      BY JoinedAre
    <3> HIDE DEF joined, numbers
    <3>4. \A e \in joined : e.number \in {d.number : d \in known(r).dated} \cup numbers(r)
      BY <2>1, <3>1
    <3>5. \A n \in {d.number : d \in known(r).dated} \cup numbers(r) : \E e \in joined : n = e.number
      BY <2>2, <3>2, <3>3
    <3>6. {e.number : e \in joined} = {d.number : d \in known(r).dated} \cup numbers(r)  BY <3>4, <3>5
    <3> QED  BY <3>6 DEF joined
  <2> HIDE DEF numbers
  <2>4. /\ out[r].confirmed = known(r).confirmed \cup numbers(r)
        /\ out[r].candidates = known(r).candidates \ numbers(r)
        /\ {e.number : e \in out[r].dated} = {e.number : e \in known(r).dated} \cup numbers(r)
    BY <1>5, <2>3
  <2> QED  BY <2>4 DEF AddsTo, numbers, known
<1>7. Adds(net, out, Norway!Keys(lines))  BY <1>1, <1>6, AddsByRoute
<1>8. Shaped(out)  BY <1>5 DEF Shaped
<1>9. JoinsDated(net, out, lines, file, cites)  BY <1>5 DEF JoinsDated
<1> QED  BY <1>1, <1>7, <1>8, <1>9 DEF out

\* Evidence that one of the new says is made from that one only.
LEMMA JoinedOnce ==
  ASSUME NEW old, NEW fresh, NEW f \in fresh,
         \A g \in fresh : g.number = f.number /\ g.source = f.source => g = f,
         NEW d \in Norway!JoinAll(old, fresh), d.number = f.number, d.source = f.source,
         NEW e \in Norway!JoinAll(old, fresh), e.number = f.number, e.source = f.source
  PROVE  d = e
<1> DEFINE same(x, y) == x.number = y.number /\ x.source = y.source
           chosen(x) == CHOOSE o \in old : same(o, x)
           made(x) == IF \E o \in old : same(o, x) THEN Norway!Joined(chosen(x), x) ELSE x
<1>1. Norway!JoinAll(old, fresh) =
        {o \in old : \A x \in fresh : ~same(o, x)} \cup {made(x) : x \in fresh}
  BY DEF Norway!JoinAll
<1>2. ASSUME NEW x \in fresh PROVE made(x).number = x.number /\ made(x).source = x.source
  <2>1. CASE \E o \in old : same(o, x)
    <3>1. same(chosen(x), x)  BY <2>1
    <3>2. made(x) = Norway!Joined(chosen(x), x)  BY <2>1
    <3> HIDE DEF chosen, made
    <3> QED  BY <3>1, <3>2 DEF Norway!Joined
  <2>2. CASE ~\E o \in old : same(o, x)  BY <2>2
  <2> QED  BY <2>1, <2>2
<1> HIDE DEF made
<1>3. ASSUME NEW c \in Norway!JoinAll(old, fresh), same(c, f) PROVE c = made(f)
  <2>1. PICK x \in fresh : c = made(x)  BY <1>1, <1>3
  <2>2. same(x, f)  BY <1>2, <1>3, <2>1
  <2> QED  BY <2>1, <2>2
<1> QED  BY <1>3

\* A ledger leaves the items of a number that it has no row of.
LEMMA ItemsUntouched ==
  ASSUME NEW net, Shaped(net), NEW lines, NEW file, NEW cites, \A line \in lines : line.occurrences # {},
         NEW key, Norway!Key(key) \notin Norway!Keys(lines)
  PROVE  Norway!Items(Norway!LedgerOverlay(net, lines, file, cites), key) = Norway!Items(net, key)
<1> DEFINE out == Norway!LedgerOverlay(net, lines, file, cites)
           r == key.route
           old == Norway!Existing(net, r).dated
           fresh == Brought(lines, file, cites, r)
<1>1. /\ DOMAIN out = DOMAIN net \cup {line.route : line \in lines}
      /\ \A q \in DOMAIN out :
           out[q].dated = Norway!JoinAll(Norway!Existing(net, q).dated, Brought(lines, file, cites, q))
  <2>1. DOMAIN out = DOMAIN net \cup {line.route : line \in lines}  BY LedgerOver
  <2>2. JoinsDated(net, out, lines, file, cites)  BY LedgerOver
  <2> QED  BY <2>1, <2>2 DEF JoinsDated
<1>2. ASSUME NEW f \in fresh PROVE f.number # key.number
  <2>1. PICK line \in Norway!Of(lines, r) : f.number = line.number  BY BroughtIs
  <2>2. line \in lines /\ line.route = key.route  BY <2>1 DEF Norway!Of
  <2>3. ASSUME line.number = key.number PROVE FALSE
    <3>1. Norway!Key(line) = Norway!Key(key)  BY <2>2, <2>3 DEF Norway!Key
    <3> QED  BY <2>2, <3>1 DEF Norway!Keys
  <2> QED  BY <2>1, <2>3
<1> HIDE DEF out, old, fresh
<1>3. CASE r \in DOMAIN out
  <2>1. Norway!Existing(out, r).dated = Norway!JoinAll(old, fresh)
    BY <1>1, <1>3 DEF Norway!Existing, old, fresh
  <2>2. ASSUME NEW e \in Norway!JoinAll(old, fresh), e.number = key.number PROVE e \in old
    BY <1>2, <2>2, JoinedAre
  <2>3. ASSUME NEW e \in old, e.number = key.number PROVE e \in Norway!JoinAll(old, fresh)
    <3>1. \A f \in fresh : ~(e.number = f.number /\ e.source = f.source)  BY <1>2, <2>3
    <3> QED  BY <3>1, JoinedAre
  <2>4. Norway!Items(out, key) = {e \in Norway!JoinAll(old, fresh) : e.number = key.number}
    BY <2>1 DEF Norway!Items
  <2>5. Norway!Items(net, key) = {e \in old : e.number = key.number}  BY DEF Norway!Items, old
  <2> QED  BY <2>2, <2>3, <2>4, <2>5 DEF out
<1>4. CASE r \notin DOMAIN out
  <2>1. r \notin DOMAIN net  BY <1>1, <1>4
  <2>2. Norway!Existing(out, r) = Norway!Existing(net, r)  BY <1>4, <2>1 DEF Norway!Existing
  <2> QED  BY <2>2 DEF Norway!Items, out
<1> QED  BY <1>3, <1>4

\* Evidence that is the only one of its number stays, whatever a ledger adds to it.
LEMMA ItemStays ==
  ASSUME NEW net, Shaped(net), NEW lines, NEW file, NEW cites, \A line \in lines : line.occurrences # {},
         NEW key, NEW e, Norway!Items(net, key) = {e}, e.use = "display", Void # "display"
  PROVE  \E x \in Norway!Items(Norway!LedgerOverlay(net, lines, file, cites), key) :
           x.source = e.source /\ x.window = e.window /\ x.use = "display"
<1> DEFINE out == Norway!LedgerOverlay(net, lines, file, cites)
           r == key.route
           old == Norway!Existing(net, r).dated
           fresh == Brought(lines, file, cites, r)
<1>1. /\ DOMAIN out = DOMAIN net \cup {line.route : line \in lines}
      /\ \A q \in DOMAIN out :
           out[q].dated = Norway!JoinAll(Norway!Existing(net, q).dated, Brought(lines, file, cites, q))
  <2>1. DOMAIN out = DOMAIN net \cup {line.route : line \in lines}  BY LedgerOver
  <2>2. JoinsDated(net, out, lines, file, cites)  BY LedgerOver
  <2> QED  BY <2>1, <2>2 DEF JoinsDated
<1>2. {o \in old : o.number = key.number} = {e}  BY DEF Norway!Items
<1>3. e \in old /\ e.number = key.number /\ \A o \in old : o.number = key.number => o = e  BY <1>2
<1>4. r \in DOMAIN out
  <2>1. r \in DOMAIN net  BY <1>3 DEF Norway!Existing, Norway!NoRoute
  <2> QED  BY <1>1, <2>1
<1> HIDE DEF out, old, fresh
<1>5. Norway!Existing(out, r).dated = Norway!JoinAll(old, fresh)
  BY <1>1, <1>4 DEF Norway!Existing, old, fresh
<1>6. \A x : x \in Norway!JoinAll(old, fresh) /\ x.number = key.number => x \in Norway!Items(out, key)
  BY <1>5 DEF Norway!Items
<1>7. CASE \E f \in fresh : e.number = f.number /\ e.source = f.source
  <2>1. PICK f \in fresh : e.number = f.number /\ e.source = f.source  BY <1>7
  <2>2. PICK x \in Norway!JoinAll(old, fresh) :
          /\ x.number = f.number /\ x.source = f.source
          /\ \/ x = f /\ \A o \in old : ~(o.number = f.number /\ o.source = f.source)
             \/ \E o \in old : o.number = f.number /\ o.source = f.source /\ x = Norway!Joined(o, f)
    BY JoinedAre
  <2>3. x = Norway!Joined(e, f)  BY <1>3, <2>1, <2>2
  <2>4. x.window = e.window /\ x.use = "display"  BY <2>3 DEF Norway!Joined
  <2>5. x \in Norway!Items(out, key)  BY <1>3, <1>6, <2>1, <2>2
  <2> QED  BY <2>1, <2>2, <2>4, <2>5 DEF out
<1>8. CASE ~\E f \in fresh : e.number = f.number /\ e.source = f.source
  <2>1. e \in Norway!JoinAll(old, fresh)  BY <1>3, <1>8, JoinedAre
  <2>2. e \in Norway!Items(out, key)  BY <1>3, <1>6, <2>1
  <2> QED  BY <2>2 DEF out
<1> QED  BY <1>7, <1>8

\* Nothing is dropped of details that cite no row twice.
LEMMA CitationsKept ==
  ASSUME NEW line, Norway!CitedOnce(line), NEW some, some \subseteq line.occurrences
  PROVE  LET details == {Norway!Detail(line, o) : o \in some}
         IN Norway!OnePerCitation({} \cup details) = details
<1> DEFINE details == {Norway!Detail(line, o) : o \in some}
           like(d) == {x \in details : Norway!SameCitation(x.seen, d.seen)}
           kept(d) == CHOOSE x \in details : Norway!SameCitation(x.seen, d.seen)
<1>1. \A o : Norway!Detail(line, o).seen = o  BY DEF Norway!Detail
<1>2. ASSUME NEW d \in details PROVE d = kept(d)
  <2>1. PICK o \in some : d = Norway!Detail(line, o)  OBVIOUS
  <2>2. Norway!SameCitation(d.seen, d.seen)  BY DEF Norway!SameCitation
  <2>3. kept(d) \in details /\ Norway!SameCitation(kept(d).seen, d.seen)  BY <2>2
  <2>4. PICK p \in some : kept(d) = Norway!Detail(line, p)  BY <2>3
  <2> HIDE DEF kept
  <2>5. Norway!SameCitation(p, o)  BY <1>1, <2>1, <2>3, <2>4
  <2>6. p = o  BY <2>5 DEF Norway!CitedOnce
  <2> QED  BY <2>1, <2>4, <2>6
<1>3. Norway!OnePerCitation(details) = {d \in details : d = kept(d)}  BY DEF Norway!OnePerCitation
<1>4. {} \cup details = details  OBVIOUS
<1> HIDE DEF kept, details
<1>5. Norway!OnePerCitation(details) = details  BY <1>2, <1>3
<1> QED  BY <1>4, <1>5 DEF details

\* A number without details before has those of its row's occurrences after, each once
\* and in the evidence of its own source.
LEMMA LedgerRetains ==
  ASSUME NEW net, Shaped(net), NEW lines, NEW file, NEW cites, \A x \in lines : x.occurrences # {},
         Norway!OneRowPerKey(lines), NEW line \in lines, IsFiniteSet(line.occurrences),
         Norway!CitedOnce(line), \A e \in Norway!Items(net, line) : e.details = {}
  PROVE  Norway!Retained(Norway!LedgerOverlay(net, lines, file, cites), line, file)
<1> DEFINE out == Norway!LedgerOverlay(net, lines, file, cites)
           r == line.route
           old == Norway!Existing(net, r).dated
           fresh == Brought(lines, file, cites, r)
           source(o) == Norway!Source(file, o.airport)
           cited(o) == {Norway!Detail(line, p) : p \in Norway!At(line, o.airport)}
           new(o) == Norway!LedgerEvidence(line, source(o), cites[r])
           all == Norway!JoinAll(old, fresh)
           items == {e \in all : e.number = line.number}
           item(o) == CHOOSE e \in items : e.source = source(o)
<1>1. r \in DOMAIN out
  <2>1. DOMAIN out = DOMAIN net \cup {x.route : x \in lines}  BY LedgerOver
  <2> QED  BY <2>1
<1>2. JoinsDated(net, out, lines, file, cites)  BY LedgerOver
<1>3. Norway!Existing(out, r).dated = all  BY <1>1, <1>2 DEF JoinsDated, Norway!Existing
<1>4. Norway!Items(out, line) = items  BY <1>3 DEF Norway!Items
<1>5. \A e \in old : e.number = line.number => e.details = {}  BY DEF Norway!Items
<1>6. \A o, p : source(o) = source(p) => o.airport = p.airport  BY DEF Norway!Source
<1>7. \A o : /\ new(o).number = line.number /\ new(o).source = source(o) /\ new(o).details = cited(o)
  BY DEF Norway!LedgerEvidence, Norway!Source
<1>8. \A o \in line.occurrences : new(o) \in fresh
  <2>1. line \in Norway!Of(lines, r)  BY DEF Norway!Of
  <2> QED  BY <2>1, BroughtIs
<1>9. ASSUME NEW f \in fresh, f.number = line.number PROVE \E o \in line.occurrences : f = new(o)
  <2>1. PICK x \in Norway!Of(lines, r) : \E o \in x.occurrences :
          f = Norway!LedgerEvidence(x, source(o), cites[r]) /\ f.number = x.number
    BY BroughtIs
  <2>2. x \in lines /\ Norway!Key(x) = Norway!Key(line)
    BY <1>9, <2>1 DEF Norway!Of, Norway!Key
  <2>3. x = line  BY <2>2 DEF Norway!OneRowPerKey
  <2> QED  BY <2>1, <2>3
<1>10. \A o \in line.occurrences : Norway!OnePerCitation({} \cup cited(o)) = cited(o)
  <2>1. \A o \in line.occurrences : Norway!At(line, o.airport) \subseteq line.occurrences
    BY DEF Norway!At
  <2> QED  BY <2>1, CitationsKept
<1>11. \A o, p : p \in Norway!At(line, o.airport) <=> p \in line.occurrences /\ p.airport = o.airport
  BY DEF Norway!At
<1>12. \A o, p : Norway!Detail(line, o) = Norway!Detail(line, p) => o = p  BY DEF Norway!Detail
<1>13. \A o : Norway!Key(Norway!Detail(line, o)) = Norway!Key(line)
  BY DEF Norway!Detail, Norway!Key
<1> HIDE DEF out, old, fresh, new, source, all
\* The items of the row's number that have details, one for each source.
<1>14. ASSUME NEW e \in items, e.details # {}
       PROVE  \E o \in line.occurrences : e.source = source(o) /\ e.details = cited(o)
  <2>1. e \in all /\ e.number = line.number  OBVIOUS
  <2>2. PICK f \in fresh : /\ e.number = f.number /\ e.source = f.source
                           /\ \/ e = f
                              \/ \E x \in old : x.number = f.number /\ x.source = f.source
                                                /\ e = Norway!Joined(x, f)
    <3>1. \/ e \in old
          \/ \E f \in fresh : /\ e.number = f.number /\ e.source = f.source
                              /\ \/ e = f
                                 \/ \E x \in old : x.number = f.number /\ x.source = f.source
                                                   /\ e = Norway!Joined(x, f)
      BY <2>1, JoinedAre DEF all
    <3> QED  BY <1>5, <1>14, <2>1, <3>1
  <2>3. PICK o \in line.occurrences : f = new(o)  BY <1>9, <2>1, <2>2
  <2>4. e.details = cited(o)
    <3>1. CASE e = f  BY <1>7, <2>3, <3>1
    <3>2. CASE \E x \in old : x.number = f.number /\ x.source = f.source /\ e = Norway!Joined(x, f)
      <4>1. PICK x \in old : x.number = f.number /\ e = Norway!Joined(x, f)  BY <3>2
      <4>2. x.details = {}  BY <1>5, <2>1, <2>2, <4>1
      <4>3. e.details = Norway!OnePerCitation(x.details \cup f.details)  BY <4>1 DEF Norway!Joined
      <4>4. f.details = cited(o)  BY <1>7, <2>3
      <4> HIDE DEF cited
      <4>5. e.details = Norway!OnePerCitation({} \cup cited(o))  BY <4>2, <4>3, <4>4
      <4> QED  BY <1>10, <4>5
    <3> QED  BY <2>2, <3>1, <3>2
  <2> QED  BY <1>7, <2>2, <2>3, <2>4
<1>15. ASSUME NEW o \in line.occurrences
       PROVE  \E e \in items : e.source = source(o)
  <2>1. new(o) \in fresh  BY <1>8
  <2>2. \E e \in all : e.number = new(o).number /\ e.source = new(o).source  BY <2>1, JoinedAre DEF all
  <2> QED  BY <1>7, <2>2
<1>16. ASSUME NEW o \in line.occurrences, NEW d \in items, NEW e \in items,
              d.source = source(o), e.source = source(o)
       PROVE  d = e
  <2>1. new(o) \in fresh /\ new(o).number = line.number /\ new(o).source = source(o)  BY <1>7, <1>8
  <2>2. ASSUME NEW g \in fresh, g.number = new(o).number, g.source = new(o).source PROVE g = new(o)
    <3>1. PICK p \in line.occurrences : g = new(p)  BY <1>9, <2>1, <2>2
    <3>2. source(p) = source(o)  BY <1>7, <2>1, <2>2, <3>1
    <3>3. source(p) = source(o) => new(p) = new(o)  BY DEF new
    <3> QED  BY <3>1, <3>2, <3>3
  <2>3. d \in all /\ e \in all /\ d.number = line.number /\ e.number = line.number  OBVIOUS
  <2> QED  BY <1>16, <2>1, <2>2, <2>3, JoinedOnce DEF all
<1>17. ASSUME NEW o \in line.occurrences
       PROVE  item(o) \in items /\ item(o).source = source(o)
  BY <1>15
<1>18. ASSUME NEW o \in line.occurrences PROVE item(o).details = cited(o)
  <2>1. PICK f \in fresh : f = new(o)  BY <1>8
  <2> DEFINE i == item(o)
  <2>2. i \in all /\ i.number = line.number /\ i.source = source(o)  BY <1>17
  <2> HIDE DEF i, items
  <2>3. PICK e \in all : /\ e.number = f.number /\ e.source = f.source
                         /\ \/ e = f
                            \/ \E x \in old : x.number = f.number /\ x.source = f.source
                                              /\ e = Norway!Joined(x, f)
    BY <2>1, JoinedAre DEF all
  <2>4. e \in items /\ e.source = source(o)  BY <1>7, <2>1, <2>3 DEF items
  <2>5. e = i  BY <1>16, <1>17, <2>4 DEF i
  <2>6. f.details = cited(o)  BY <1>7, <2>1
  <2>7. e.details = cited(o)
    <3>1. CASE e = f  BY <2>6, <3>1
    <3>2. CASE \E x \in old : x.number = f.number /\ x.source = f.source /\ e = Norway!Joined(x, f)
      <4>1. PICK x \in old : x.number = f.number /\ e = Norway!Joined(x, f)  BY <3>2
      <4>2. x.details = {}  BY <1>5, <1>7, <2>1, <4>1
      <4>3. e.details = Norway!OnePerCitation(x.details \cup f.details)  BY <4>1 DEF Norway!Joined
      <4> HIDE DEF cited
      <4>4. e.details = Norway!OnePerCitation({} \cup cited(o))  BY <2>6, <4>2, <4>3
      <4> QED  BY <1>10, <4>4
    <3> QED  BY <2>3, <3>1, <3>2
  <2> QED  BY <2>5, <2>7 DEF i
<1> DEFINE given == Norway!Details(out, line)
           of(o) == [item |-> item(o), detail |-> Norway!Detail(line, o)]
           map == [o \in line.occurrences |-> of(o)]
<1> HIDE DEF items, item
<1>19. \A x : x \in given <=> \E e \in items : \E d \in e.details :
                 Norway!Key(d) = Norway!Key(line) /\ x = [item |-> e, detail |-> d]
  <2>1. given = UNION {{[item |-> e, detail |-> d] : d \in {x \in e.details : Norway!Key(x) = Norway!Key(line)}}
                         : e \in items}
    BY <1>4 DEF Norway!Details
  <2> QED  BY <2>1
<1> HIDE DEF given
<1>20. ASSUME NEW o \in line.occurrences PROVE of(o) \in given
  <2>1. item(o) \in items /\ item(o).details = cited(o)  BY <1>17, <1>18
  <2>2. Norway!Detail(line, o) \in cited(o)  BY <1>11
  <2> HIDE DEF cited
  <2>3. Norway!Detail(line, o) \in item(o).details  BY <2>1, <2>2
  <2> QED  BY <1>13, <1>19, <2>1, <2>3
<1>21. ASSUME NEW x \in given PROVE \E o \in line.occurrences : x = of(o)
  <2>0. PICK e \in items : \E d \in e.details : x = [item |-> e, detail |-> d]  BY <1>19
  <2>1. PICK d \in e.details : x = [item |-> e, detail |-> d]  BY <2>0
  <2>2. PICK o \in line.occurrences : e.source = source(o) /\ e.details = cited(o)  BY <1>14, <2>1
  <2>3. PICK p \in Norway!At(line, o.airport) : d = Norway!Detail(line, p)  BY <2>1, <2>2
  <2>4. p \in line.occurrences /\ p.airport = o.airport  BY <1>11, <2>3
  <2>5. source(p) = source(o)  BY <2>4 DEF source
  <2>6. item(p) = e  BY <1>16, <1>17, <2>2, <2>4, <2>5
  <2> QED  BY <2>1, <2>3, <2>4, <2>6
<1>22. map \in Surjection(line.occurrences, given)
  BY <1>20, <1>21 DEF Surjection
<1>23. map \in Injection(line.occurrences, given)
  <2>1. map \in [line.occurrences -> given]  BY <1>20
  <2>2. ASSUME NEW o \in line.occurrences, NEW p \in line.occurrences, map[o] = map[p] PROVE o = p
    <3>1. of(o) = of(p)  BY <2>2
    <3>2. Norway!Detail(line, o) = Norway!Detail(line, p)  BY <3>1
    <3> QED  BY <1>12, <3>2
  <2> HIDE DEF map
  <2> QED  BY <2>1, <2>2 DEF Injection, IsInjective
<1>24. Cardinality(given) = Cardinality(line.occurrences)
  <2> HIDE DEF map
  <2> QED  BY <1>22, <1>23, FS_Surjection
<1>25. \A S : Norway!Cardinality(S) = Cardinality(S)
  BY DEF Norway!Cardinality, Cardinality
<1>26. \A o \in line.occurrences : \E x \in given :
         x.item.source = Norway!Source(file, o.airport) /\ x.detail = Norway!Detail(line, o)
  BY <1>17, <1>20 DEF source
<1> QED  BY <1>24, <1>25, <1>26 DEF Norway!Retained, given, out

\* Of an association of the batch the last capture is one that has the flight ahead.
LEMMA LastIs ==
  ASSUME NEW aBatch, \A c \in DOMAIN aBatch.captures : aBatch.captures[c].at \in Int,
         Norway!BatchValid(aBatch), NEW a \in aBatch.associations, IsFiniteSet(a.rows)
  PROVE  \E line \in Norway!Upcoming(a) :
           /\ Norway!LastCapture(aBatch, a) = line.airport
           /\ \A x \in Norway!Upcoming(a) :
                aBatch.captures[x.airport].at <= aBatch.captures[line.airport].at
<1> DEFINE U == Norway!Upcoming(a)
           taken(c) == aBatch.captures[c].at
           time == [x \in U |-> taken(x.airport)]
           airports == {x.airport : x \in U}
<1>1. /\ a.airports \subseteq DOMAIN aBatch.captures
      /\ \A line \in a.rows : line.airport \in a.airports
      /\ \E line \in a.rows : Norway!InScope(line, taken(line.airport))
  BY DEF Norway!BatchValid
<1>2. U # {}  BY <1>1 DEF Norway!InScope, Norway!Upcoming
<1>3. U \in SUBSET a.rows  BY DEF Norway!Upcoming
<1>4. IsFiniteSet(U)
  <2> HIDE DEF U
  <2> QED  BY <1>3, FS_Subset
<1>5. \A x \in U : taken(x.airport) \in Int  BY <1>1, <1>3
<1>6. time \in [U -> Int]  BY <1>5
<1>7. PICK u \in U : \A x \in U : time[x] <= time[u]
  <2> HIDE DEF U, time
  <2> QED  BY <1>2, <1>4, <1>6, LatestTaken
<1>8. \A x \in U : taken(x.airport) <= taken(u.airport)  BY <1>7
<1>9. u.airport \in airports  OBVIOUS
<1>10. Norway!LastCapture(aBatch, a) =
         CHOOSE c \in airports : \A x \in U : taken(x.airport) <= taken(c)
  BY DEF Norway!LastCapture
<1> HIDE DEF U, taken
<1>11. \E c \in airports : \A x \in U : taken(x.airport) <= taken(c)  BY <1>8, <1>9
<1>12. /\ Norway!LastCapture(aBatch, a) \in airports
       /\ \A x \in U : taken(x.airport) <= taken(Norway!LastCapture(aBatch, a))
  <2> HIDE DEF airports
  <2> QED  BY <1>10, <1>11, Zenon
<1>13. PICK line \in U : Norway!LastCapture(aBatch, a) = line.airport  BY <1>12
<1> QED  BY <1>12, <1>13 DEF U, taken

-----------------------------------------------------------------------------
\* The items of a number that associations date are theirs, those of another stay.
LEMMA ItemsLaid ==
  ASSUME NEW net, NEW out, DOMAIN out = DOMAIN net, NEW associations, NEW proof,
         LaidDated(net, out, associations, proof), Norway!OneRowPerKey(associations),
         \A a \in associations : a.route \in DOMAIN net /\ proof[a].number = a.number
  PROVE  /\ \A key : Norway!Key(key) \notin Norway!Keys(associations)
              => Norway!Items(out, key) = Norway!Items(net, key)
         /\ \A a \in associations : Norway!Items(net, a) = {} => Norway!Items(out, a) = {proof[a]}
<1>1. ASSUME NEW key, Norway!Key(key) \notin Norway!Keys(associations)
      PROVE  Norway!Items(out, key) = Norway!Items(net, key)
  <2>1. CASE key.route \in DOMAIN net
    <3>1. ASSUME NEW a \in Norway!Of(associations, key.route) PROVE proof[a].number # key.number
      <4>1. a \in associations /\ a.route = key.route  BY DEF Norway!Of
      <4>2. Norway!Key(a) # Norway!Key(key)  BY <1>1, <4>1 DEF Norway!Keys
      <4> QED  BY <4>1, <4>2 DEF Norway!Key
    <3>2. out[key.route].dated =
            net[key.route].dated \cup {proof[a] : a \in Norway!Of(associations, key.route)}
      BY <2>1 DEF LaidDated
    <3>3. {e \in out[key.route].dated : e.number = key.number}
            = {e \in net[key.route].dated : e.number = key.number}
      BY <3>1, <3>2
    <3> QED  BY <2>1, <3>3 DEF Norway!Items, Norway!Existing
  <2>2. CASE key.route \notin DOMAIN net
    BY <2>2 DEF Norway!Items, Norway!Existing
  <2> QED  BY <2>1, <2>2
<1>2. ASSUME NEW a \in associations, Norway!Items(net, a) = {}
      PROVE  Norway!Items(out, a) = {proof[a]}
  <2>1. a.route \in DOMAIN net /\ proof[a].number = a.number  OBVIOUS
  <2>2. ASSUME NEW b \in Norway!Of(associations, a.route), proof[b].number = a.number PROVE b = a
    <3>1. b \in associations /\ b.route = a.route  BY DEF Norway!Of
    <3>2. Norway!Key(b) = Norway!Key(a)  BY <2>2, <3>1 DEF Norway!Key
    <3> QED  BY <3>1, <3>2 DEF Norway!OneRowPerKey
  <2>3. a \in Norway!Of(associations, a.route)  BY DEF Norway!Of
  <2>4. out[a.route].dated = net[a.route].dated \cup {proof[b] : b \in Norway!Of(associations, a.route)}
    BY <2>1 DEF LaidDated
  <2>5. {e \in net[a.route].dated : e.number = a.number} = {}
    BY <1>2, <2>1 DEF Norway!Items, Norway!Existing
  <2>6. {e \in out[a.route].dated : e.number = a.number} = {proof[a]}
    BY <2>1, <2>2, <2>3, <2>4, <2>5
  <2> QED  BY <2>1, <2>6 DEF Norway!Items, Norway!Existing
<1> QED  BY <1>1, <1>2

-----------------------------------------------------------------------------
\* The proof of each key that the first two releases bring.
FirstProof == [a \in Norway!first.associations |-> Norway!FirstEvidence(Norway!first, a)]
BatchProof == [a \in Norway!batch.associations |-> Norway!BatchEvidence(Norway!batch, a)]

LEMMA OverlaysLay ==
  /\ \A net : Laid(net, Norway!FirstOverlay(net, Norway!first), Norway!first.associations, FirstProof)
  /\ \A net : Laid(net, Norway!BatchOverlay(net, Norway!batch), Norway!batch.associations, BatchProof)
<1>1. \A associations, r : \A a \in Norway!Of(associations, r) : a \in associations
  BY DEF Norway!Of
<1>2. ASSUME NEW net
      PROVE  Laid(net, Norway!FirstOverlay(net, Norway!first), Norway!first.associations, FirstProof)
  <2> DEFINE own(r) == Norway!Of(Norway!first.associations, r)
             old(r) == Norway!Promote(net[r], Norway!NumbersOf(own(r)))
  <2>1. Norway!FirstOverlay(net, Norway!first) =
          [r \in DOMAIN net |->
             IF own(r) = {} THEN net[r]
             ELSE [old(r) EXCEPT !.dated = @ \cup {Norway!FirstEvidence(Norway!first, a) : a \in own(r)}]]
    BY DEF Norway!FirstOverlay, Norway!WithAssociations
  <2>2. \A r : {Norway!FirstEvidence(Norway!first, a) : a \in own(r)} = {FirstProof[a] : a \in own(r)}
    BY <1>1 DEF FirstProof
  <2> HIDE DEF own, old
  <2>3. Norway!FirstOverlay(net, Norway!first) =
          [r \in DOMAIN net |->
             IF own(r) = {} THEN net[r]
             ELSE [old(r) EXCEPT !.dated = @ \cup {FirstProof[a] : a \in own(r)}]]
    BY <2>1, <2>2
  <2> QED  BY <2>3 DEF Laid, own, old
<1>3. ASSUME NEW net
      PROVE  Laid(net, Norway!BatchOverlay(net, Norway!batch), Norway!batch.associations, BatchProof)
  <2> DEFINE own(r) == Norway!Of(Norway!batch.associations, r)
             old(r) == Norway!Promote(net[r], Norway!NumbersOf(own(r)))
  <2>1. Norway!BatchOverlay(net, Norway!batch) =
          [r \in DOMAIN net |->
             IF own(r) = {} THEN net[r]
             ELSE [old(r) EXCEPT !.dated = @ \cup {Norway!BatchEvidence(Norway!batch, a) : a \in own(r)}]]
    BY DEF Norway!BatchOverlay, Norway!WithAssociations
  <2>2. \A r : {Norway!BatchEvidence(Norway!batch, a) : a \in own(r)} = {BatchProof[a] : a \in own(r)}
    BY <1>1 DEF BatchProof
  <2> HIDE DEF own, old
  <2>3. Norway!BatchOverlay(net, Norway!batch) =
          [r \in DOMAIN net |->
             IF own(r) = {} THEN net[r]
             ELSE [old(r) EXCEPT !.dated = @ \cup {BatchProof[a] : a \in own(r)}]]
    BY <2>1, <2>2
  <2> QED  BY <2>3 DEF Laid, own, old
<1> QED  BY <1>2, <1>3

\* What the network is before any release.
LEMMA BaseIs ==
  ASSUME Norway!ReleaseAssumption
  PROVE  /\ Shaped(Unreleased) /\ Norway!Dated(Unreleased) = {}
         /\ \A key : Norway!Items(Unreleased, key) = {}
         /\ Norway!Confirmed(Unreleased) \cap Norway!Candidates(Unreleased) = {}
<1>1. \A r \in DOMAIN Unreleased :
        /\ Unreleased[r] = [status |-> Unreleased[r].status, identity |-> Unreleased[r].identity,
                            confirmed |-> Unreleased[r].confirmed, candidates |-> Unreleased[r].candidates,
                            cites |-> Unreleased[r].cites, dated |-> {}]
        /\ Unreleased[r].confirmed \cap Unreleased[r].candidates = {}
  BY DEF Norway!ReleaseAssumption
<1>2. \A r \in DOMAIN Unreleased : OsloRecord(Unreleased[r]) /\ Unreleased[r].dated = {}
  BY <1>1 DEF OsloRecord
<1>3. Shaped(Unreleased)  BY <1>2 DEF Shaped
<1>4. Norway!Dated(Unreleased) = {}  BY <1>2 DEF Norway!Dated
<1>5. \A key : Norway!Existing(Unreleased, key.route).dated = {}
  BY <1>2 DEF Norway!Existing, Norway!NoRoute
<1>6. \A key : Norway!Items(Unreleased, key) = {}  BY <1>5 DEF Norway!Items
<1>7. Norway!Confirmed(Unreleased) \cap Norway!Candidates(Unreleased) = {}
  <2> SUFFICES ASSUME NEW key \in Norway!Confirmed(Unreleased), key \in Norway!Candidates(Unreleased)
               PROVE  FALSE
    OBVIOUS
  <2>1. PICK r \in DOMAIN Unreleased : \E n \in Unreleased[r].confirmed : key = [route |-> r, number |-> n]
    BY KeysOf
  <2>2. PICK q \in DOMAIN Unreleased : \E n \in Unreleased[q].candidates : key = [route |-> q, number |-> n]
    BY KeysOf
  <2>3. r = q /\ key.number \in Unreleased[r].confirmed /\ key.number \in Unreleased[r].candidates
    BY <2>1, <2>2
  <2> QED  BY <1>1, <2>3
<1> QED  BY <1>3, <1>4, <1>6, <1>7

LEMMA ItemsOfKey ==
  ASSUME NEW a, NEW b, Norway!Key(a) = Norway!Key(b), NEW net
  PROVE  Norway!Items(net, a) = Norway!Items(net, b)
<1>1. a.route = b.route /\ a.number = b.number  BY DEF Norway!Key
<1> QED  BY <1>1 DEF Norway!Items

\* A number without items has none of its keys dated, and one that is not dated no items.
LEMMA UndatedHasNoItems ==
  ASSUME NEW net, NEW key, Norway!Key(key) \notin Norway!Dated(net)
  PROVE  Norway!Items(net, key) = {}
<1> SUFFICES ASSUME NEW e \in Norway!Items(net, key) PROVE FALSE
  OBVIOUS
<1>1. e \in Norway!Existing(net, key.route).dated /\ e.number = key.number  BY DEF Norway!Items
<1>2. key.route \in DOMAIN net /\ e \in net[key.route].dated
  BY <1>1 DEF Norway!Existing, Norway!NoRoute
<1>3. Norway!Key(key) = [route |-> key.route, number |-> e.number]  BY <1>1 DEF Norway!Key
<1> QED  BY <1>2, <1>3, KeysOf

\* What was a candidate and is not confirmed.
LEMMA StillOpen ==
  ASSUME NEW net, NEW a, Norway!StillCandidate(net, a)
  PROVE  a.route \in DOMAIN net /\ Norway!Key(a) \notin Norway!Confirmed(net)
<1>1. a.route \in DOMAIN net /\ ~Norway!Known(net, a)  BY DEF Norway!StillCandidate, Norway!Known
<1> QED  BY <1>1, KeyIs

\* The network with the first two releases.
LEMMA CapturesLaid ==
  ASSUME Norway!ReleaseAssumption, Norway!Builds
  PROVE  /\ Shaped(Norway!WithBatch)
         /\ Adds(Unreleased, Norway!WithFirst, Norway!Keys(Norway!first.associations))
         /\ Adds(Norway!WithFirst, Norway!WithBatch, Norway!Keys(Norway!batch.associations))
         /\ Norway!Keys(Norway!first.associations) \cap Norway!Confirmed(Unreleased) = {}
         /\ Norway!Keys(Norway!batch.associations) \cap Norway!Confirmed(Norway!WithFirst) = {}
         /\ \A a \in Norway!first.associations : Norway!Items(Norway!WithBatch, a) = {FirstProof[a]}
         /\ \A a \in Norway!batch.associations : Norway!Items(Norway!WithBatch, a) = {BatchProof[a]}
         /\ \A key : \A e \in Norway!Items(Norway!WithBatch, key) : e.details = {}
<1> DEFINE first == Norway!first.associations
           batch == Norway!batch.associations
           one == Norway!WithFirst
           two == Norway!WithBatch
<1>1. Norway!OneRowPerKey(first) /\ Norway!OneRowPerKey(batch)
  BY DEF Norway!Builds, Norway!FirstValid, Norway!BatchValid
<1>2. \A a \in first : Norway!StillCandidate(Unreleased, a)
  BY DEF Norway!Builds, Norway!FirstBuilds
<1>3. \A a \in batch : Norway!StillCandidate(one, a) /\ Norway!Key(a) \notin Norway!Keys(first)
  BY DEF Norway!Builds, Norway!BatchBuilds
<1>4. \A a \in first : FirstProof[a].number = a.number /\ FirstProof[a].details = {}
  BY DEF FirstProof, Norway!FirstEvidence, Norway!Evidence
<1>5. \A a \in batch : BatchProof[a].number = a.number /\ BatchProof[a].details = {}
  BY DEF BatchProof, Norway!BatchEvidence
<1>6. Laid(Unreleased, one, first, FirstProof)  BY OverlaysLay DEF Norway!WithFirst
<1>7. Laid(one, two, batch, BatchProof)  BY OverlaysLay DEF Norway!WithBatch
<1> HIDE DEF first, batch, one, two
<1>8. Shaped(Unreleased) /\ \A key : Norway!Items(Unreleased, key) = {}  BY BaseIs
<1>9. \A a \in first : a.route \in DOMAIN Unreleased /\ FirstProof[a].number = a.number
  BY <1>2, <1>4, StillOpen
<1>10. /\ Shaped(one) /\ DOMAIN one = DOMAIN Unreleased
       /\ Adds(Unreleased, one, Norway!Keys(first)) /\ LaidDated(Unreleased, one, first, FirstProof)
  BY <1>6, <1>8, <1>9, LaidOver
<1>11. \A a \in batch : a.route \in DOMAIN one /\ BatchProof[a].number = a.number
  BY <1>3, <1>5, StillOpen
<1>12. /\ Shaped(two) /\ DOMAIN two = DOMAIN one
       /\ Adds(one, two, Norway!Keys(batch)) /\ LaidDated(one, two, batch, BatchProof)
  BY <1>7, <1>10, <1>11, LaidOver
<1>13. \A key : Norway!Key(key) \notin Norway!Keys(first) => Norway!Items(one, key) = {}
  BY <1>1, <1>8, <1>9, <1>10, ItemsLaid
<1>14. \A a \in first : Norway!Items(one, a) = {FirstProof[a]}
  BY <1>1, <1>8, <1>9, <1>10, ItemsLaid
<1>15. \A key : Norway!Key(key) \notin Norway!Keys(batch) => Norway!Items(two, key) = Norway!Items(one, key)
  BY <1>1, <1>11, <1>12, ItemsLaid
<1>16. \A a \in batch : Norway!Items(one, a) = {}  BY <1>3, <1>13
<1>17. \A a \in batch : Norway!Items(one, a) = {} => Norway!Items(two, a) = {BatchProof[a]}
  BY <1>1, <1>11, <1>12, ItemsLaid
<1>18. \A a \in batch : Norway!Items(two, a) = {BatchProof[a]}  BY <1>16, <1>17
<1>19. ASSUME NEW a \in first PROVE Norway!Items(two, a) = {FirstProof[a]}
  <2>1. Norway!Key(a) \in Norway!Keys(first)  BY DEF Norway!Keys
  <2>2. Norway!Key(a) \notin Norway!Keys(batch)
    <3>1. \A b \in batch : Norway!Key(b) # Norway!Key(a)  BY <1>3, <2>1
    <3> QED  BY <3>1 DEF Norway!Keys
  <2> QED  BY <1>14, <1>15, <2>2
<1>20. ASSUME NEW key, NEW e \in Norway!Items(two, key) PROVE e.details = {}
  <2>1. CASE Norway!Key(key) \in Norway!Keys(batch)
    <3>1. PICK a \in batch : Norway!Key(a) = Norway!Key(key)  BY <2>1 DEF Norway!Keys
    <3>2. Norway!Items(two, key) = {BatchProof[a]}  BY <1>18, <3>1, ItemsOfKey
    <3> QED  BY <1>5, <3>2 DEF batch
  <2>2. CASE Norway!Key(key) \notin Norway!Keys(batch) /\ Norway!Key(key) \in Norway!Keys(first)
    <3>1. PICK a \in first : Norway!Key(a) = Norway!Key(key)  BY <2>2 DEF Norway!Keys
    <3>2. Norway!Items(two, key) = {FirstProof[a]}  BY <1>19, <3>1, ItemsOfKey
    <3> QED  BY <1>4, <3>2 DEF first
  <2>3. CASE Norway!Key(key) \notin Norway!Keys(batch) /\ Norway!Key(key) \notin Norway!Keys(first)
    BY <1>13, <1>15, <2>3
  <2> QED  BY <2>1, <2>2, <2>3
<1>21. Norway!Keys(first) \cap Norway!Confirmed(Unreleased) = {}
  <2>1. \A a \in first : Norway!Key(a) \notin Norway!Confirmed(Unreleased)  BY <1>2, StillOpen
  <2> QED  BY <2>1 DEF Norway!Keys
<1>22. Norway!Keys(batch) \cap Norway!Confirmed(one) = {}
  <2>1. \A a \in batch : Norway!Key(a) \notin Norway!Confirmed(one)  BY <1>3, StillOpen
  <2> QED  BY <2>1 DEF Norway!Keys
<1> QED  BY <1>10, <1>12, <1>18, <1>19, <1>20, <1>21, <1>22 DEF first, batch, one, two

\* The occurrences of a key are retained by every network that has the same items of it.
LEMMA RetainedStays ==
  ASSUME NEW net, NEW out, NEW line, NEW file, Norway!Items(out, line) = Norway!Items(net, line),
         Norway!Retained(net, line, file)
  PROVE  Norway!Retained(out, line, file)
<1>1. Norway!Details(out, line) = Norway!Details(net, line)  BY DEF Norway!Details
<1> QED  BY <1>1 DEF Norway!Retained

\* The network that is built.
LEMMA LedgersLaid ==
  ASSUME Norway!ReleaseAssumption, Norway!Builds, releaseEdition \in DOMAIN Editions
  PROVE  /\ Norway!Dated(Norway!WithFollowOn) = Norway!Accepted
         /\ Norway!Dated(Norway!Output) = Norway!Accepted \cup Norway!Keys(Norway!remaining.rows)
         /\ Norway!RestsOnBase(Norway!Output)
         /\ \A a \in Norway!first.associations : Norway!Items(Norway!Output, a) = {FirstProof[a]}
         /\ \A a \in Norway!batch.associations : \E x \in Norway!Items(Norway!Output, a) :
              x.source = BatchProof[a].source /\ x.window = BatchProof[a].window /\ x.use = "display"
         /\ \A line \in Norway!follow.rows :
              Norway!CitedOnce(line) => Norway!Retained(Norway!Output, line, "captures")
         /\ \A line \in Norway!remaining.rows : Norway!Retained(Norway!Output, line, "remaining")
<1> DEFINE first == Norway!first.associations
           batch == Norway!batch.associations
           follow == Norway!follow.rows
           rest == Norway!remaining.rows
           one == Norway!WithFirst
           two == Norway!WithBatch
           three == Norway!WithFollowOn
           four == Norway!Output
           cites3 == [r \in {line.route : line \in follow} |-> Norway!Existing(Unreleased, r).cites]
           cites4 == [r \in {line.route : line \in rest} |-> {}]
<1>1. three = Norway!LedgerOverlay(two, follow, "captures", cites3)
  BY DEF Norway!WithFollowOn, Norway!FollowOnOverlay
<1>2. four = Norway!LedgerOverlay(three, rest, "remaining", cites4)
  BY DEF Norway!Output, Norway!RemainingOverlay
<1>3. /\ \A line \in follow : line.occurrences # {}
      /\ \A line \in rest : line.occurrences # {} /\ Norway!CitedOnce(line)
  BY DEF Norway!Builds, Norway!LedgerValid, Norway!RemainingValid
<1>4. /\ Norway!OneRowPerKey(follow) /\ Norway!Keys(follow) \cap Norway!Keys(first) = {}
      /\ \A line \in follow : Norway!Known(Unreleased, line) => Norway!WasCandidate(Unreleased, line)
  BY DEF Norway!Builds, Norway!FollowOnBuilds
<1>5. Norway!OneRowPerKey(rest) /\ \A line \in rest : ~Norway!Known(three, line)
  BY DEF Norway!Builds, Norway!RemainingBuilds
<1>6. \A line \in follow \cup rest : IsFiniteSet(line.occurrences)
  <2>1. \A S : Norway!IsFiniteSet(S) <=> IsFiniteSet(S)  BY DEF Norway!IsFiniteSet, IsFiniteSet
  <2>2. \A line \in follow \cup rest : Norway!IsFiniteSet(line.occurrences)
    BY DEF Norway!ReleaseAssumption, Norway!follow, Norway!remaining
  <2> QED  BY <2>1, <2>2
<1>7. /\ Shaped(two)
      /\ Adds(Unreleased, one, Norway!Keys(first))
      /\ Adds(one, two, Norway!Keys(batch))
      /\ Norway!Keys(first) \cap Norway!Confirmed(Unreleased) = {}
      /\ Norway!Keys(batch) \cap Norway!Confirmed(one) = {}
  BY CapturesLaid
<1>8. /\ \A a \in first : Norway!Items(two, a) = {FirstProof[a]}
      /\ \A a \in batch : Norway!Items(two, a) = {BatchProof[a]}
      /\ \A key : \A e \in Norway!Items(two, key) : e.details = {}
  BY CapturesLaid
<1>9. /\ Norway!Dated(Unreleased) = {}
      /\ Norway!Confirmed(Unreleased) \cap Norway!Candidates(Unreleased) = {}
  BY BaseIs
<1>10. Norway!Accepted = Norway!Keys(first) \cup Norway!Keys(batch) \cup Norway!Keys(follow)
  BY DEF Norway!Accepted
<1>11. \A a \in batch : BatchProof[a].use = "display"  BY DEF BatchProof, Norway!BatchEvidence
<1>12. Void # "display"  BY DEF Norway!ReleaseAssumption
<1> HIDE DEF first, batch, follow, rest, one, two, three, four, cites3, cites4
<1>13. Shaped(three) /\ Adds(two, three, Norway!Keys(follow))  BY <1>1, <1>3, <1>7, LedgerOver
<1>14. Shaped(four) /\ Adds(three, four, Norway!Keys(rest))  BY <1>2, <1>3, <1>13, LedgerOver
<1>15. \A key : Norway!Key(key) \notin Norway!Keys(follow)
         => Norway!Items(three, key) = Norway!Items(two, key)
  BY <1>1, <1>3, <1>7, ItemsUntouched
<1>16. \A key : Norway!Key(key) \notin Norway!Keys(rest)
         => Norway!Items(four, key) = Norway!Items(three, key)
  BY <1>2, <1>3, <1>13, ItemsUntouched
<1>17. Norway!Keys(follow) \cap Norway!Confirmed(Unreleased) = {}
  <2>1. ASSUME NEW line \in follow PROVE Norway!Key(line) \notin Norway!Confirmed(Unreleased)
    BY <1>4, <1>9, KeyIs
  <2> QED  BY <2>1 DEF Norway!Keys
<1>18. Norway!Keys(rest) \cap Norway!Confirmed(three) = {}
  <2>1. ASSUME NEW line \in rest PROVE Norway!Key(line) \notin Norway!Confirmed(three)
    BY <1>5, KeyIs
  <2> QED  BY <2>1 DEF Norway!Keys
<1> DEFINE K1 == Norway!Keys(first)
           K2 == Norway!Keys(batch)
           K3 == Norway!Keys(follow)
           K4 == Norway!Keys(rest)
           before == Norway!Confirmed(Unreleased)
           listed == Norway!Candidates(Unreleased)
<1> HIDE DEF K1, K2, K3, K4, before, listed
<1>19. /\ Norway!Confirmed(one) = before \cup K1 /\ Norway!Candidates(one) = listed \ K1
       /\ Norway!Dated(one) = K1
  BY <1>7, <1>9 DEF Adds, K1, before, listed
<1>20. /\ Norway!Confirmed(two) = before \cup K1 \cup K2 /\ Norway!Candidates(two) = listed \ (K1 \cup K2)
       /\ Norway!Dated(two) = K1 \cup K2
  BY <1>7, <1>19 DEF Adds, K2
<1>21. /\ Norway!Confirmed(three) = before \cup K1 \cup K2 \cup K3
       /\ Norway!Candidates(three) = listed \ (K1 \cup K2 \cup K3)
       /\ Norway!Dated(three) = K1 \cup K2 \cup K3
  BY <1>13, <1>20 DEF Adds, K3
<1>22. /\ Norway!Confirmed(four) = before \cup K1 \cup K2 \cup K3 \cup K4
       /\ Norway!Candidates(four) = listed \ (K1 \cup K2 \cup K3 \cup K4)
       /\ Norway!Dated(four) = K1 \cup K2 \cup K3 \cup K4
  BY <1>14, <1>21 DEF Adds, K4
<1>23. /\ K1 \cap before = {} /\ K2 \cap before = {} /\ K3 \cap before = {} /\ K4 \cap before = {}
       /\ K3 \cap K1 = {} /\ K4 \cap (K1 \cup K2 \cup K3) = {}
  <2>1. K1 \cap before = {} /\ K3 \cap before = {} /\ K3 \cap K1 = {}
    BY <1>4, <1>7, <1>17 DEF K1, K3, before
  <2>2. K2 \cap before = {}
    <3>1. K2 \cap Norway!Confirmed(one) = {}  BY <1>7 DEF K2
    <3> QED  BY <1>19, <3>1
  <2>3. K4 \cap before = {} /\ K4 \cap (K1 \cup K2 \cup K3) = {}
    <3>1. K4 \cap Norway!Confirmed(three) = {}  BY <1>18 DEF K4
    <3> QED  BY <1>21, <3>1
  <2> QED  BY <2>1, <2>2, <2>3
<1>24. Norway!RestsOnBase(four)
  <2>1. Norway!Dated(four) \cap before = {}  BY <1>22, <1>23
  <2>2. Norway!Confirmed(four) = before \cup Norway!Dated(four)  BY <1>22
  <2>3. Norway!Candidates(four) = listed \ Norway!Dated(four)  BY <1>22
  <2> QED  BY <2>1, <2>2, <2>3 DEF Norway!RestsOnBase, before, listed
<1>25. ASSUME NEW a \in first PROVE Norway!Items(four, a) = {FirstProof[a]}
  <2>1. Norway!Key(a) \in K1  BY DEF K1, Norway!Keys
  <2>2. Norway!Key(a) \notin K3 /\ Norway!Key(a) \notin K4  BY <1>23, <2>1
  <2>3. Norway!Items(four, a) = Norway!Items(three, a)  BY <1>16, <2>2 DEF K4
  <2>4. Norway!Items(three, a) = Norway!Items(two, a)  BY <1>15, <2>2 DEF K3
  <2> QED  BY <1>8, <2>3, <2>4
<1>26. ASSUME NEW a \in batch
       PROVE  \E x \in Norway!Items(four, a) :
                x.source = BatchProof[a].source /\ x.window = BatchProof[a].window /\ x.use = "display"
  <2>1. Norway!Items(two, a) = {BatchProof[a]}  BY <1>8
  <2>2. BatchProof[a].use = "display"  BY <1>11 DEF batch
  <2>3. \E x \in Norway!Items(three, a) :
          x.source = BatchProof[a].source /\ x.window = BatchProof[a].window /\ x.use = "display"
    BY <1>1, <1>3, <1>7, <1>12, <2>1, <2>2, ItemStays
  <2>4. Norway!Key(a) \in K2  BY DEF K2, Norway!Keys
  <2>5. Norway!Key(a) \notin K4  BY <1>23, <2>4
  <2>6. Norway!Items(four, a) = Norway!Items(three, a)  BY <1>16, <2>5 DEF K4
  <2> QED  BY <2>3, <2>6
<1>27. ASSUME NEW line \in follow, Norway!CitedOnce(line) PROVE Norway!Retained(four, line, "captures")
  <2>1. IsFiniteSet(line.occurrences)  BY <1>6
  <2>2. \A e \in Norway!Items(two, line) : e.details = {}  BY <1>8
  <2>3. Norway!Retained(three, line, "captures")
    BY <1>1, <1>3, <1>4, <1>7, <1>27, <2>1, <2>2, LedgerRetains
  <2>4. Norway!Key(line) \in K3  BY DEF K3, Norway!Keys
  <2>5. Norway!Key(line) \notin K4  BY <1>23, <2>4
  <2>6. Norway!Items(four, line) = Norway!Items(three, line)  BY <1>16, <2>5 DEF K4
  <2> QED  BY <2>3, <2>6, RetainedStays
<1>28. ASSUME NEW line \in rest PROVE Norway!Retained(four, line, "remaining")
  <2>1. IsFiniteSet(line.occurrences) /\ Norway!CitedOnce(line)  BY <1>3, <1>6
  <2>2. Norway!Key(line) \in K4  BY DEF K4, Norway!Keys
  <2>3. Norway!Key(line) \notin Norway!Dated(three)  BY <1>21, <1>23, <2>2
  <2>4. \A e \in Norway!Items(three, line) : e.details = {}  BY <2>3, UndatedHasNoItems
  <2> QED  BY <1>2, <1>3, <1>5, <1>13, <2>1, <2>4, LedgerRetains
<1>29. Norway!Dated(three) = Norway!Accepted /\ Norway!Dated(four) = Norway!Accepted \cup K4
  BY <1>10, <1>21, <1>22 DEF K1, K2, K3
<1> QED  BY <1>24, <1>25, <1>26, <1>27, <1>28, <1>29 DEF first, batch, follow, rest, three, four, K4

\* The evidence of an association is dated by its capture.
LEMMA ProofIs ==
  /\ \A a \in Norway!first.associations : FirstProof[a].source = Norway!Capture("OSL")
  /\ \A a \in Norway!batch.associations :
       /\ BatchProof[a].source = Norway!Capture(Norway!LastCapture(Norway!batch, a))
       /\ BatchProof[a].window = a.window
<1>1. \A a \in Norway!first.associations : FirstProof[a].source = Norway!Capture("OSL")
  BY DEF FirstProof, Norway!FirstEvidence, Norway!Evidence
<1>2. \A a \in Norway!batch.associations :
        /\ BatchProof[a].source = Norway!Capture(Norway!LastCapture(Norway!batch, a))
        /\ BatchProof[a].window = a.window
  BY DEF BatchProof, Norway!BatchEvidence
<1> QED  BY <1>1, <1>2

\* The batch on file names its last captures.
LEMMA LastOnFile ==
  ASSUME Norway!ReleaseAssumption, releaseEdition \in DOMAIN Editions, Norway!BatchValid(Norway!batch),
         NEW a \in Norway!batch.associations
  PROVE  \E line \in Norway!Upcoming(a) :
           /\ Norway!LastCapture(Norway!batch, a) = line.airport
           /\ \A x \in Norway!Upcoming(a) :
                Norway!batch.captures[x.airport].at <= Norway!batch.captures[line.airport].at
<1>1. Norway!batch = Editions[releaseEdition].batch  BY DEF Norway!batch
<1>2. \A c \in DOMAIN Norway!batch.captures : Norway!batch.captures[c].at \in Int
  BY <1>1 DEF Norway!ReleaseAssumption
<1>3. IsFiniteSet(a.rows)
  <2>1. Norway!IsFiniteSet(a.rows)  BY <1>1 DEF Norway!ReleaseAssumption
  <2>2. \A S : Norway!IsFiniteSet(S) <=> IsFiniteSet(S)  BY DEF Norway!IsFiniteSet, IsFiniteSet
  <2> QED  BY <2>1, <2>2
<1> QED  BY <1>2, <1>3, LastIs

LEMMA BuildIsSound ==
  ASSUME Norway!ReleaseAssumption, releaseEdition \in DOMAIN Editions
  PROVE  Norway!BuildSound
<1> SUFFICES ASSUME Norway!Builds
             PROVE  /\ (\A line \in Norway!follow.rows : Norway!CitedOnce(line)) => Norway!Faithful(Norway!Output)
                    /\ Norway!Dated(Norway!Output) \cap Norway!remaining.held = {}
                    /\ Norway!Dated(Norway!Output) \cap Norway!follow.held
                         \subseteq Norway!Keys(Norway!remaining.rows)
                    /\ \A a \in Norway!first.associations :
                         {e.source : e \in Norway!Items(Norway!Output, a)} = {Norway!Capture("OSL")}
  BY DEF Norway!BuildSound
<1> DEFINE out == Norway!Output
           rest == Norway!Keys(Norway!remaining.rows)
<1>1. /\ Norway!Dated(Norway!WithFollowOn) = Norway!Accepted
      /\ Norway!Dated(out) = Norway!Accepted \cup rest
      /\ Norway!RestsOnBase(out)
  BY LedgersLaid
<1>2. /\ \A a \in Norway!first.associations : Norway!Items(out, a) = {FirstProof[a]}
      /\ \A a \in Norway!batch.associations : \E x \in Norway!Items(out, a) :
           x.source = BatchProof[a].source /\ x.window = BatchProof[a].window /\ x.use = "display"
  BY LedgersLaid
<1>3. /\ \A line \in Norway!follow.rows :
           Norway!CitedOnce(line) => Norway!Retained(out, line, "captures")
      /\ \A line \in Norway!remaining.rows : Norway!Retained(out, line, "remaining")
  BY LedgersLaid
<1>4. /\ Norway!Dated(Norway!WithFollowOn) \cap Norway!follow.held = {}
      /\ Norway!Confirmed(out) \cap Norway!remaining.held = {}
  BY DEF Norway!Builds, Norway!FollowOnHolds, Norway!RemainingHolds
<1>5. Norway!BatchValid(Norway!batch)  BY DEF Norway!Builds
<1> HIDE DEF out, rest
<1>6. Norway!DatedByCapture(out)
  <2>1. \A a \in Norway!first.associations :
          \E e \in Norway!Items(out, a) : e.source = Norway!Capture("OSL")
    BY <1>2, ProofIs
  <2>2. ASSUME NEW a \in Norway!batch.associations
        PROVE  \E e \in Norway!Items(out, a) :
                 /\ e.use = "display" /\ e.window = a.window
                 /\ \E line \in Norway!Upcoming(a) :
                      /\ e.source = Norway!Capture(line.airport)
                      /\ \A x \in Norway!Upcoming(a) : Norway!batch.captures[x.airport].at
                           <= Norway!batch.captures[line.airport].at
    <3>1. PICK e \in Norway!Items(out, a) :
            e.source = BatchProof[a].source /\ e.window = BatchProof[a].window /\ e.use = "display"
      BY <1>2
    <3>2. e.source = Norway!Capture(Norway!LastCapture(Norway!batch, a)) /\ e.window = a.window
      BY <3>1, ProofIs
    <3>3. PICK line \in Norway!Upcoming(a) :
            /\ Norway!LastCapture(Norway!batch, a) = line.airport
            /\ \A x \in Norway!Upcoming(a) :
                 Norway!batch.captures[x.airport].at <= Norway!batch.captures[line.airport].at
      BY <1>5, LastOnFile
    <3> QED  BY <3>1, <3>2, <3>3
  <2> QED  BY <2>1, <2>2 DEF Norway!DatedByCapture
<1>7. (\A line \in Norway!follow.rows : Norway!CitedOnce(line)) => Norway!Faithful(out)
  BY <1>1, <1>3, <1>6 DEF Norway!Faithful, rest
<1>8. Norway!Dated(out) \cap Norway!remaining.held = {}
  BY <1>1, <1>4 DEF Norway!RestsOnBase
<1>9. Norway!Dated(out) \cap Norway!follow.held \subseteq rest
  BY <1>1, <1>4
<1>10. ASSUME NEW a \in Norway!first.associations
       PROVE  {e.source : e \in Norway!Items(out, a)} = {Norway!Capture("OSL")}
  BY <1>2, ProofIs
<1> QED  BY <1>7, <1>8, <1>9, <1>10 DEF out, rest

-----------------------------------------------------------------------------
\* What was published rests on the network without the releases, and a script that passed
\* would pass again: replacing a release and building take the verdicts away.
ReleasesInv ==
  /\ Norway!TypeOK
  /\ released = Void \/ Norway!RestsOnBase(released)
  /\ \A check \in Norway!Checks : releaseVerdict[check] = "passed" => Norway!Passes(check)

\* What the scripts look at.
LEMMA PassesAgain ==
  ASSUME UNCHANGED <<releaseEdition, released>>, NEW check \in Norway!Checks, Norway!Passes(check)
  PROVE  Norway!Passes(check)'
<1> DEFINE onFile == Norway!Keys(Norway!remaining.rows)
<1>1. /\ Norway!first' = Norway!first /\ Norway!batch' = Norway!batch
      /\ Norway!follow' = Norway!follow /\ Norway!remaining' = Norway!remaining
      /\ Norway!weekly' = Norway!weekly
  BY DEF Norway!first, Norway!batch, Norway!follow, Norway!remaining, Norway!weekly
<1>2. Norway!Accepted' = Norway!Accepted /\ Norway!NetNew' = Norway!NetNew
  BY <1>1 DEF Norway!Accepted, Norway!NetNew
<1>3. Norway!VerifiesCaptures(released) => Norway!VerifiesCaptures(released)'
  BY <1>1, <1>2 DEF Norway!VerifiesCaptures
<1>4. Norway!VerifiesFollowOn(released) => Norway!VerifiesFollowOn(released)'
  BY <1>1, <1>2 DEF Norway!VerifiesFollowOn
<1>5. Norway!VerifiesRemaining(released) => Norway!VerifiesRemaining(released)'
  BY <1>1 DEF Norway!VerifiesRemaining
<1> QED  BY <1>3, <1>4, <1>5 DEF Norway!Passes

LEMMA ReleasesStart ==
  ASSUME Norway!ReleaseAssumption, Norway!Init PROVE ReleasesInv
<1>1. releaseVerdict = [check \in Norway!Checks |-> Void] /\ released = Void /\ releaseEdition \in DOMAIN Editions
  BY DEF Norway!Init, Norway!NoVerdict
<1>2. Void # "passed"  BY DEF Norway!ReleaseAssumption
<1> QED  BY <1>1, <1>2 DEF ReleasesInv, Norway!TypeOK

LEMMA ReleasesStep ==
  ASSUME Norway!ReleaseAssumption, ReleasesInv, [Norway!Next]_Norway!vars
  PROVE  ReleasesInv'
<1> USE DEF ReleasesInv
<1>1. Void # "passed"  BY DEF Norway!ReleaseAssumption
<1>2. releaseVerdict \in [Norway!Checks -> {Void, "passed", "refused"}] /\ releaseEdition \in DOMAIN Editions
  BY DEF Norway!TypeOK
<1>3. ASSUME released' = released
      PROVE  (released = Void \/ Norway!RestsOnBase(released))'
  BY <1>3 DEF Norway!RestsOnBase
<1>4. ASSUME releaseVerdict' = Norway!NoVerdict, releaseEdition' \in DOMAIN Editions,
             (released = Void \/ Norway!RestsOnBase(released))'
      PROVE  ReleasesInv'
  <2>1. releaseVerdict' = [check \in Norway!Checks |-> Void]  BY <1>4 DEF Norway!NoVerdict
  <2>2. Norway!TypeOK'  BY <1>4, <2>1 DEF Norway!TypeOK, Norway!Checks
  <2>3. \A check \in Norway!Checks : releaseVerdict'[check] # "passed"  BY <1>1, <2>1
  <2>4. (\A check \in Norway!Checks : releaseVerdict[check] = "passed" => Norway!Passes(check))'
    BY <2>3 DEF Norway!Checks
  <2> QED  BY <1>4, <2>2, <2>4
<1>5. ASSUME NEW other \in DOMAIN Editions, Norway!Replace(other) PROVE ReleasesInv'
  BY <1>3, <1>4, <1>5 DEF Norway!Replace
<1>6. ASSUME Norway!Build PROVE ReleasesInv'
  <2>1. /\ Norway!Builds /\ released' = Norway!Output /\ releaseVerdict' = Norway!NoVerdict
        /\ releaseEdition' = releaseEdition
    BY <1>6 DEF Norway!Build
  <2>2. Norway!RestsOnBase(Norway!Output)  BY <1>2, <2>1, LedgersLaid
  <2>3. Norway!RestsOnBase(released)'  BY <2>1, <2>2 DEF Norway!RestsOnBase
  <2> QED  BY <1>2, <1>4, <2>1, <2>3
<1>7. ASSUME NEW check \in Norway!Checks, Norway!Verify(check) PROVE ReleasesInv'
  <2> DEFINE answer == IF Norway!Passes(check) THEN "passed" ELSE "refused"
  <2>1. /\ releaseVerdict' = [releaseVerdict EXCEPT ![check] = answer]
        /\ UNCHANGED <<releaseEdition, released>>
    BY <1>7 DEF Norway!Verify
  <2>2. answer \in {"passed", "refused"} /\ (answer = "passed" => Norway!Passes(check))  OBVIOUS
  <2> HIDE DEF answer
  <2>3. Norway!TypeOK'
    BY <1>2, <2>1, <2>2 DEF Norway!TypeOK, Norway!Checks
  <2>4. ASSUME NEW c \in Norway!Checks, releaseVerdict'[c] = "passed" PROVE Norway!Passes(c)
    BY <1>2, <2>1, <2>2, <2>4
  <2>5. \A c \in Norway!Checks : releaseVerdict'[c] = "passed" => Norway!Passes(c)'
    BY <2>1, <2>4, PassesAgain
  <2>6. (\A c \in Norway!Checks : releaseVerdict[c] = "passed" => Norway!Passes(c))'
    BY <2>5 DEF Norway!Checks
  <2> QED  BY <1>3, <2>1, <2>3, <2>6
<1>8. ASSUME UNCHANGED Norway!vars PROVE ReleasesInv'
  <2>1. /\ UNCHANGED <<releaseEdition, released>> /\ releaseVerdict' = releaseVerdict
    BY <1>8 DEF Norway!vars
  <2>2. Norway!TypeOK'  BY <1>2, <2>1 DEF Norway!TypeOK, Norway!Checks
  <2>3. \A c \in Norway!Checks : releaseVerdict'[c] = "passed" => Norway!Passes(c)'
    BY <2>1, PassesAgain
  <2>4. (\A c \in Norway!Checks : releaseVerdict[c] = "passed" => Norway!Passes(c))'
    BY <2>3 DEF Norway!Checks
  <2> QED  BY <1>3, <2>1, <2>2, <2>4
<1> QED  BY <1>5, <1>6, <1>7, <1>8 DEF Norway!Next

\* What passed the three scripts is what the releases on file say.
LEMMA VerifiedIsFaithful ==
  ASSUME Norway!ReleaseAssumption, ReleasesInv,
         \A check \in Norway!Checks : releaseVerdict[check] = "passed"
  PROVE  /\ Norway!Faithful(released)
         /\ Norway!Detailed(released) \cap (Norway!follow.held \cup Norway!remaining.held) = {}
         /\ Norway!Dated(released) \cap Norway!weekly = {}
<1>1. /\ released # Void /\ Norway!VerifiesCaptures(released)
      /\ Norway!VerifiesFollowOn(released) /\ Norway!VerifiesRemaining(released)
  BY DEF ReleasesInv, Norway!Passes, Norway!Checks
<1>2. releaseEdition \in DOMAIN Editions /\ Norway!RestsOnBase(released)
  BY <1>1 DEF ReleasesInv, Norway!TypeOK
<1> DEFINE all == Norway!Accepted \cup Norway!Keys(Norway!remaining.rows)
<1>3. /\ all \cap Norway!weekly = {} /\ Norway!Dated(released) = all
      /\ Norway!BatchValid(Norway!batch)
  BY <1>1 DEF Norway!VerifiesCaptures
<1>4. \A a \in Norway!first.associations :
        \E e \in Norway!Items(released, a) : e.source = Norway!Capture("OSL")
  BY <1>1 DEF Norway!VerifiesCaptures
<1>5. ASSUME NEW a \in Norway!batch.associations
      PROVE  \E e \in Norway!Items(released, a) :
               /\ e.use = "display" /\ e.window = a.window
               /\ \E line \in Norway!Upcoming(a) :
                    /\ e.source = Norway!Capture(line.airport)
                    /\ \A x \in Norway!Upcoming(a) : Norway!batch.captures[x.airport].at
                         <= Norway!batch.captures[line.airport].at
  <2>1. PICK e \in Norway!Items(released, a) :
          /\ e.source = Norway!Capture(Norway!LastCapture(Norway!batch, a)) /\ e.use = "display"
          /\ e.window = a.window
    BY <1>1 DEF Norway!VerifiesCaptures
  <2>2. PICK line \in Norway!Upcoming(a) :
          /\ Norway!LastCapture(Norway!batch, a) = line.airport
          /\ \A x \in Norway!Upcoming(a) :
               Norway!batch.captures[x.airport].at <= Norway!batch.captures[line.airport].at
    BY <1>2, <1>3, LastOnFile
  <2> QED  BY <2>1, <2>2
<1>6. Norway!DatedByCapture(released)  BY <1>4, <1>5 DEF Norway!DatedByCapture
<1>7. \A line \in Norway!follow.rows : Norway!Retained(released, line, "captures")
  BY <1>1 DEF Norway!VerifiesFollowOn
<1>8. \A line \in Norway!remaining.rows : Norway!Retained(released, line, "remaining")
  BY <1>1 DEF Norway!VerifiesRemaining
<1>9. Norway!Faithful(released)  BY <1>2, <1>3, <1>6, <1>7, <1>8 DEF Norway!Faithful
<1>10. Norway!Detailed(released) \cap Norway!follow.held = {}
  BY <1>1 DEF Norway!VerifiesFollowOn
<1>11. Norway!Detailed(released) \cap Norway!remaining.held = {}
  BY <1>1 DEF Norway!VerifiesRemaining, Norway!RemainingHolds
<1> QED  BY <1>3, <1>9, <1>10, <1>11

\* What the build makes of releases that satisfy its conditions is what they say, and however
\* the releases are replaced since, so is a network that passes the three scripts
\* (build-runtime-route-network.ts, verify-avinor-*-release.ts).
THEOREM ReleasesAreFaithful ==
  ASSUME Norway!ReleaseAssumption PROVE Norway!Spec => []Norway!ReleaseSound
<1>1. Norway!Init => ReleasesInv  BY ReleasesStart
<1>2. ReleasesInv /\ [Norway!Next]_Norway!vars => ReleasesInv'  BY ReleasesStep
<1>3. ReleasesInv => Norway!ReleaseSound
  <2>1. ReleasesInv => releaseEdition \in DOMAIN Editions  BY DEF ReleasesInv, Norway!TypeOK
  <2> QED  BY <2>1, BuildIsSound, VerifiedIsFaithful DEF Norway!ReleaseSound
<1> QED  BY <1>1, <1>2, <1>3, PTL DEF Norway!Spec

-----------------------------------------------------------------------------
(***************************************************************************)
(* Behaviours of the parts together: one that moves a part is a behaviour  *)
(* of that part, so its theorems are theorems of DataSpec.                 *)
(***************************************************************************)
LEMMA OfCollection ==
  DataSpec => ([](subject = "collection") /\ Collection!Spec) \/ []~(subject = "collection")
<1> DEFINE F == subject = "collection"
<1>1. F /\ DataInit => Collection!Init
  BY DEF DataInit
<1>2. F /\ [DataNext]_dataVars => F' /\ [Collection!Next]_Collection!vars
  BY DEF DataNext, dataVars, collectionVars, Collection!vars
<1>3. ~F /\ [DataNext]_dataVars => ~F'
  BY DEF DataNext, dataVars
<1>4. DataSpec => ([]F /\ Collection!Spec) \/ []~F
  <2> HIDE DEF F
  <2> QED BY <1>1, <1>2, <1>3, PTL DEF DataSpec, Collection!Spec
<1> QED BY <1>4

LEMMA OfHarvest ==
  DataSpec => ([](subject = "harvest") /\ Harvest!Spec) \/ []~(subject = "harvest")
<1> DEFINE F == subject = "harvest"
<1>1. F /\ DataInit => Harvest!Init
  BY DEF DataInit
<1>2. F /\ [DataNext]_dataVars => F' /\ [Harvest!Next]_Harvest!vars
  BY DEF DataNext, dataVars, harvestVars, Harvest!vars
<1>3. ~F /\ [DataNext]_dataVars => ~F'
  BY DEF DataNext, dataVars
<1>4. DataSpec => ([]F /\ Harvest!Spec) \/ []~F
  <2> HIDE DEF F
  <2> QED BY <1>1, <1>2, <1>3, PTL DEF DataSpec, Harvest!Spec
<1> QED BY <1>4

LEMMA OfDgca ==
  DataSpec => ([](subject = "dgca") /\ Dgca!Spec) \/ []~(subject = "dgca")
<1> DEFINE F == subject = "dgca"
<1>1. F /\ DataInit => Dgca!Init
  BY DEF DataInit
<1>2. F /\ [DataNext]_dataVars => F' /\ [Dgca!Next]_Dgca!vars
  BY DEF DataNext, dataVars, dgcaVars, Dgca!vars
<1>3. ~F /\ [DataNext]_dataVars => ~F'
  BY DEF DataNext, dataVars
<1>4. DataSpec => ([]F /\ Dgca!Spec) \/ []~F
  <2> HIDE DEF F
  <2> QED BY <1>1, <1>2, <1>3, PTL DEF DataSpec, Dgca!Spec
<1> QED BY <1>4

LEMMA OfPlans ==
  DataSpec => ([](subject = "plans") /\ Plans!Spec) \/ []~(subject = "plans")
<1> DEFINE F == subject = "plans"
<1>1. F /\ DataInit => Plans!Init
  BY DEF DataInit
<1>2. F /\ [DataNext]_dataVars => F' /\ [Plans!Next]_Plans!vars
  BY DEF DataNext, dataVars, plansVars, Plans!vars
<1>3. ~F /\ [DataNext]_dataVars => ~F'
  BY DEF DataNext, dataVars
<1>4. DataSpec => ([]F /\ Plans!Spec) \/ []~F
  <2> HIDE DEF F
  <2> QED BY <1>1, <1>2, <1>3, PTL DEF DataSpec, Plans!Spec
<1> QED BY <1>4

LEMMA OfNetwork ==
  DataSpec => ([](subject = "network") /\ Network!Spec) \/ []~(subject = "network")
<1> DEFINE F == subject = "network"
<1>1. F /\ DataInit => Network!Init
  BY DEF DataInit
<1>2. F /\ [DataNext]_dataVars => F' /\ [Network!Next]_Network!vars
  BY DEF DataNext, dataVars, networkVars, Network!vars
<1>3. ~F /\ [DataNext]_dataVars => ~F'
  BY DEF DataNext, dataVars
<1>4. DataSpec => ([]F /\ Network!Spec) \/ []~F
  <2> HIDE DEF F
  <2> QED BY <1>1, <1>2, <1>3, PTL DEF DataSpec, Network!Spec
<1> QED BY <1>4

LEMMA OfSite ==
  DataSpec => ([](subject = "site") /\ Site!Spec) \/ []~(subject = "site")
<1> DEFINE F == subject = "site"
<1>1. F /\ DataInit => Site!Init
  BY DEF DataInit
<1>2. F /\ [DataNext]_dataVars => F' /\ [Site!Next]_Site!vars
  BY DEF DataNext, dataVars, siteVars, Site!vars
<1>3. ~F /\ [DataNext]_dataVars => ~F'
  BY DEF DataNext, dataVars
<1>4. DataSpec => ([]F /\ Site!Spec) \/ []~F
  <2> HIDE DEF F
  <2> QED BY <1>1, <1>2, <1>3, PTL DEF DataSpec, Site!Spec
<1> QED BY <1>4

LEMMA OfNumbers ==
  DataSpec => ([](subject = "numbers") /\ Layer!Spec) \/ []~(subject = "numbers")
<1> DEFINE F == subject = "numbers"
<1>1. F /\ DataInit => Layer!Init
  BY DEF DataInit
<1>2. F /\ [DataNext]_dataVars => F' /\ [Layer!Next]_Layer!vars
  BY DEF DataNext, dataVars, numbersVars, Layer!vars
<1>3. ~F /\ [DataNext]_dataVars => ~F'
  BY DEF DataNext, dataVars
<1>4. DataSpec => ([]F /\ Layer!Spec) \/ []~F
  <2> HIDE DEF F
  <2> QED BY <1>1, <1>2, <1>3, PTL DEF DataSpec, Layer!Spec
<1> QED BY <1>4

LEMMA OfCaptures ==
  DataSpec => ([](subject = "captures") /\ Avinor!Spec) \/ []~(subject = "captures")
<1> DEFINE F == subject = "captures"
<1>1. F /\ DataInit => Avinor!Init
  BY DEF DataInit
<1>2. F /\ [DataNext]_dataVars => F' /\ [Avinor!Next]_Avinor!vars
  BY DEF DataNext, dataVars, capturesVars, Avinor!vars
<1>3. ~F /\ [DataNext]_dataVars => ~F'
  BY DEF DataNext, dataVars
<1>4. DataSpec => ([]F /\ Avinor!Spec) \/ []~F
  <2> HIDE DEF F
  <2> QED BY <1>1, <1>2, <1>3, PTL DEF DataSpec, Avinor!Spec
<1> QED BY <1>4

LEMMA OfReleases ==
  DataSpec => ([](subject = "release") /\ Norway!Spec) \/ []~(subject = "release")
<1> DEFINE F == subject = "release"
<1>1. F /\ DataInit => Norway!Init
  BY DEF DataInit
<1>2. F /\ [DataNext]_dataVars => F' /\ [Norway!Next]_Norway!vars
  BY DEF DataNext, dataVars, releaseVars, Norway!vars
<1>3. ~F /\ [DataNext]_dataVars => ~F'
  BY DEF DataNext, dataVars
<1>4. DataSpec => ([]F /\ Norway!Spec) \/ []~F
  <2> HIDE DEF F
  <2> QED BY <1>1, <1>2, <1>3, PTL DEF DataSpec, Norway!Spec
<1> QED BY <1>4

\* What a script hands on is what it has on file, whatever kills and failures it met: the
\* collected catalogue, the harvested pairs, the Indian schedules, the registered plans,
\* the layers of the network, that of the flight numbers, the release of a capture, the
\* network with the releases and the site that is published (collect-global-routes.ts,
\* harvest-jx-schedules.mjs, build- and verify-dgca-schedule-evidence.ts,
\* siros-registered-plan-input.ts, route-network-merge.ts, build-runtime-route-network.ts,
\* build-flight-number-layer.ts, parse-avinor-xml-public-snapshot.py,
\* verify-avinor-*-release.ts, verify-data-manifest.ts).
THEOREM WhatIsHandedOnIsOnFile == DataSpec => []DownloadsAccounted
<1>1. Collection!Spec => []Collection!OutputReproducible
  BY CataloguesAreReproducible, DataAssumptions
<1>2. Harvest!Spec => []Harvest!HarvestAccounts
  BY HarvestsAreAccountedFor, DataAssumptions
<1>3. Dgca!Spec => []Dgca!EvidenceAccounted
  BY ReviewsAreAccountedFor, DataAssumptions
<1>4. Plans!Spec => []Plans!PlansAccounted
  BY PlansAreAccountedFor, DataAssumptions
<1>5. Network!Spec => []Network!MergeKeepsEvidence
  BY EvidenceSurvivesTheMerge, DataAssumptions
<1>6. Site!Spec => []Site!SiteSound
  BY SitesAreOfOneNetwork, DataAssumptions
<1>7. Layer!Spec => []Layer!NumbersAccounted
  BY LayersAreReproducible, DataAssumptions
<1>8. Avinor!Spec => []Avinor!CapturesAccounted
  BY ReleasesFollowCaptures, DataAssumptions
<1>9. Norway!Spec => []Norway!ReleaseSound
  BY ReleasesAreFaithful, DataAssumptions
<1>10. /\ subject = "collection" => Collection!OutputReproducible
       /\ subject = "harvest" => Harvest!HarvestAccounts
       /\ subject = "dgca" => Dgca!EvidenceAccounted
       /\ subject = "plans" => Plans!PlansAccounted
       /\ subject = "network" => Network!MergeKeepsEvidence
       /\ subject = "site" => Site!SiteSound
       /\ subject = "numbers" => Layer!NumbersAccounted
       /\ subject = "captures" => Avinor!CapturesAccounted
       /\ subject = "release" => Norway!ReleaseSound
       => DownloadsAccounted
  BY DEF DownloadsAccounted
<1> QED BY <1>1, <1>2, <1>3, <1>4, <1>5, <1>6, <1>7, <1>8, <1>9, <1>10,
           OfCollection, OfHarvest, OfDgca, OfPlans, OfNetwork, OfSite, OfNumbers, OfCaptures,
           OfReleases, PTL

=============================================================================
