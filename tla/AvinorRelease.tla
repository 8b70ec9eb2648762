---------------------------- MODULE AvinorRelease ----------------------------
(***************************************************************************)
(* The releases of Avinor's feed as files that people review and replace:  *)
(* the build lays them over the network (AvinorOverlay), and three         *)
(* scripts, verify-avinor-xml-public-release.ts, -follow-on-release.ts and *)
(* -remaining-airports-release.ts, check the network that was published    *)
(* against the releases that are there now.                                *)
(***************************************************************************)
EXTENDS AvinorOverlay, FiniteSets

CONSTANTS
  Base,     \* the network without any release
  Releases  \* editions: [first, batch, follow, remaining, weekly]

VARIABLES
  release,    \* the edition on file
  published,  \* the network that was built last, or None
  verdict     \* of the scripts that ran on what is there

vars == <<release, published, verdict>>

Checks == {"captures", "follow-on", "remaining"}

first == Releases[release].first
batch == Releases[release].batch
follow == Releases[release].follow
remaining == Releases[release].remaining
weekly == Releases[release].weekly

\* Every capture of the first two releases.
Captures ==
  [airport \in {"OSL"} \cup DOMAIN batch.captures |->
     IF airport = "OSL" THEN [at |-> first.at, hash |-> first.hash] ELSE batch.captures[airport]]

-----------------------------------------------------------------------------
WithFirst == FirstOverlay(Base, first)
WithBatch == BatchOverlay(WithFirst, batch)
WithFollowOn == FollowOnOverlay(Base, WithBatch, follow.rows)
Output == RemainingOverlay(WithFollowOn, remaining.rows)

Builds ==
  /\ FirstValid(first) /\ BatchValid(batch) /\ LedgerValid(follow.rows) /\ RemainingValid(remaining.rows)
  /\ FirstBuilds(Base, first) /\ BatchBuilds(WithFirst, first, batch, weekly)
  /\ FollowOnBuilds(Base, WithBatch, follow, first, Captures) /\ FollowOnHolds(WithFollowOn, follow)
  /\ RemainingBuilds(WithFollowOn, remaining) /\ RemainingHolds(Output, remaining)

-----------------------------------------------------------------------------
Accepted == Keys(first.associations) \cup Keys(batch.associations) \cup Keys(follow.rows)

\* The items of a number, and the details of a key, with the item they belong to.
Items(net, row) == {e \in Existing(net, row.route).dated : e.number = row.number}
Details(net, row) ==
  UNION {{[item |-> e, detail |-> d] : d \in {x \in e.details : Key(x) = Key(row)}} : e \in Items(net, row)}

\* A row's occurrences are there, all of them and no others, each from its own source.
Retained(net, row, file) ==
  /\ Cardinality(Details(net, row)) = Cardinality(row.occurrences)
  /\ \A o \in row.occurrences :
       \E x \in Details(net, row) : x.item.source = Source(file, o.airport) /\ x.detail = Detail(row, o)

Discoverable(net, row) ==
  Known(net, row) /\ net[row.route].status = "published"

\* Keys that the network did not know before.
NetNew == Keys({row \in follow.rows : ~row.wasCandidate}) \cup Keys(remaining.rows)

\* The network without the releases is compared by its totals. Of the items of a number
\* the first is looked at, which may be any of them: their order is left out.
VerifiesCaptures(net) ==
  LET all == Accepted \cup Keys(remaining.rows)
  IN /\ FirstValid(first) /\ BatchValid(batch)
     /\ all \cap weekly = {} /\ Dated(net) = all
     /\ \A a \in first.associations :
          \E e \in Items(net, a) : e.source = Capture("OSL") /\ e.cites \subseteq a.cites
     /\ \A a \in batch.associations :
          \E e \in Items(net, a) :
            /\ e.source = Capture(LastCapture(batch, a)) /\ e.use = "display"
            /\ e.window = a.window /\ e.cites = a.cites
     /\ Cardinality(Confirmed(net) \ Dated(net)) = Cardinality(Confirmed(Base))
     /\ Cardinality(Confirmed(net)) = Cardinality(Confirmed(Base)) + Cardinality(all)
     /\ Cardinality((Candidates(net) \cup Dated(net)) \ NetNew) = Cardinality(Candidates(Base))

VerifiesFollowOn(net) ==
  /\ LedgerValid(follow.rows) /\ OneRowPerKey(follow.rows)
  /\ Keys(follow.rows) \cap (follow.held \cup Keys(first.associations)) = {}
  /\ \A row \in follow.rows : row.wasCandidate = (Key(row) \in Keys(batch.associations))
  /\ \A row \in follow.rows : Discoverable(net, row) /\ Retained(net, row, "captures")
  /\ Detailed(net) \cap follow.held = {}
  /\ Accepted \subseteq Dated(net) /\ Accepted \cap weekly = {}
  /\ Cardinality(Confirmed(net) \ Dated(net)) = Cardinality(Confirmed(Base))

VerifiesRemaining(net) ==
  /\ RemainingValid(remaining.rows) /\ OneRowPerKey(remaining.rows)
  /\ \A row \in remaining.rows :
       /\ Discoverable(net, row) /\ net[row.route].identity \in {"provider-listed", "operating"}
       /\ Retained(net, row, "remaining")
       /\ \A o \in row.occurrences : Lineage(o, remaining.captures)
  /\ RemainingHolds(net, remaining)
  /\ Keys(remaining.rows) \cap weekly = {}

Passes(check) ==
  /\ published # None
  /\ \/ check = "captures" /\ VerifiesCaptures(published)
     \/ check = "follow-on" /\ VerifiesFollowOn(published)
     \/ check = "remaining" /\ VerifiesRemaining(published)

-----------------------------------------------------------------------------
\* The network is one that the schema lets through, without any release. Files have
\* finitely many rows, and captures the time they were made at.
ReleaseAssumption ==
  /\ None \notin {"display", "passed"}
  /\ \A r \in DOMAIN Base :
       /\ Base[r] = [status |-> Base[r].status, identity |-> Base[r].identity,
                     confirmed |-> Base[r].confirmed, candidates |-> Base[r].candidates,
                     cites |-> Base[r].cites, dated |-> {}]
       /\ Base[r].confirmed \cap Base[r].candidates = {}
  /\ \A edition \in DOMAIN Releases :
       LET it == Releases[edition]
       IN /\ \A c \in DOMAIN it.batch.captures : it.batch.captures[c].at \in Int
          /\ \A a \in it.batch.associations : IsFiniteSet(a.rows)
          /\ \A row \in it.follow.rows \cup it.remaining.rows : IsFiniteSet(row.occurrences)

-----------------------------------------------------------------------------
NoVerdict == [check \in Checks |-> None]

Init == release \in DOMAIN Releases /\ published = None /\ verdict = NoVerdict

Replace(edition) ==
  /\ edition # release /\ release' = edition
  /\ verdict' = NoVerdict /\ UNCHANGED published

Build ==
  /\ Builds
  /\ published' = Output /\ verdict' = NoVerdict
  /\ UNCHANGED release

Verify(check) ==
  /\ verdict' = [verdict EXCEPT ![check] = IF Passes(check) THEN "passed" ELSE "refused"]
  /\ UNCHANGED <<release, published>>

Next ==
  \/ \E edition \in DOMAIN Releases : Replace(edition)
  \/ Build
  \/ \E check \in Checks : Verify(check)

Spec == Init /\ [][Next]_vars
-----------------------------------------------------------------------------
(***************************************************************************)
(* Properties.                                                             *)
(***************************************************************************)
\* Type invariant.
TypeOK ==
  /\ release \in DOMAIN Releases
  /\ verdict \in [Checks -> {None, "passed", "refused"}]

\* The evidence of the first two releases: by the one capture of Oslo, and by the last
\* capture that has the flight ahead, for display only whatever was added to it later.
DatedByCapture(net) ==
  /\ \A a \in first.associations : \E e \in Items(net, a) : e.source = Capture("OSL")
  /\ \A a \in batch.associations :
       \E e \in Items(net, a) :
         /\ e.use = "display" /\ e.window = a.window
         /\ \E row \in Upcoming(a) :
              /\ e.source = Capture(row.airport)
              /\ \A x \in Upcoming(a) : batch.captures[x.airport].at <= batch.captures[row.airport].at

\* Under the releases lies the network without them: no number is dated that was
\* confirmed before, and none is lost.
RestsOnBase(net) ==
  /\ Dated(net) \cap Confirmed(Base) = {}
  /\ Confirmed(net) = Confirmed(Base) \cup Dated(net)
  /\ Candidates(net) = Candidates(Base) \ Dated(net)

\* What the network says of dated numbers is what the releases say: every key has
\* evidence, and every occurrence of the ledgers is there once, with its airport's capture.
Faithful(net) ==
  /\ Dated(net) = Accepted \cup Keys(remaining.rows)
  /\ RestsOnBase(net) /\ DatedByCapture(net)
  /\ \A row \in follow.rows : Retained(net, row, "captures")
  /\ \A row \in remaining.rows : Retained(net, row, "remaining")

\* What is built is faithful to the releases it is built from, unless the follow-on ledger
\* cites a row of a capture twice. It dates nothing that was held, unless the last ledger
\* accepts what the follow-on release holds.
BuildSound ==
  Builds =>
    /\ (\A row \in follow.rows : CitedOnce(row)) => Faithful(Output)
    /\ Dated(Output) \cap remaining.held = {}
    /\ Dated(Output) \cap follow.held \subseteq Keys(remaining.rows)
    /\ \A a \in first.associations : {e.source : e \in Items(Output, a)} = {Capture("OSL")}

\* However often the releases were replaced since, what passes all three scripts is
\* faithful to those that are there now, gives no occurrence of what is held and dates
\* nothing that is listed weekly (but it may date, by a capture alone, what the follow-on
\* release holds by now).
ReleaseSound ==
  /\ BuildSound
  /\ (\A check \in Checks : verdict[check] = "passed") =>
       /\ Faithful(published) /\ Detailed(published) \cap (follow.held \cup remaining.held) = {}
       /\ Dated(published) \cap weekly = {}
=============================================================================
