-------------------------- MODULE RegisteredPlans --------------------------
(***************************************************************************)
(* Schedules registered with the Brazilian authority (SIROS): a captured   *)
(* file, the proposal that was reviewed on it, the archive of the accepted *)
(* rows, the release manifest, and the plans that the build attaches to    *)
(* routes of the network (siros-registered-plan-input.ts, -adapter.ts,     *)
(* build- and verify-siros-registered-plan-release.ts).                    *)
(*                                                                         *)
(* A hash is modelled by the content. The counts that the scripts and the  *)
(* schemas spell out are those of the proposal they pin, and move with it. *)
(* The period, the weekdays, the clocks and the stage of a plan are part   *)
(* of its registration. The codeshare text of a plan is left out once it   *)
(* has been compared.                                                      *)
(***************************************************************************)
EXTENDS Naturals, Sequences, FiniteSets, FiniteSetsExt, Functions

CONSTANTS
  Captures,   \* captured files: sequences of rows [registration, number, icao,
              \* codeshare, passenger, other], `other` the columns that nothing compares
  Proposals,  \* sets of groups [route, number, existing, tier, entries]; a route is
              \* [carrier, entity, pair], an entry [plan, row, body, accepted, already], a
              \* plan [registration, number, operator, entity, icao, codeshare, conflict]
  Bases,      \* networks without these plans: [route -> [numbers, plans]], one route for
              \* each key, a plan with `lineage` in place of the codeshare text
  IcaoOf,     \* operator code in the name of each entity
  Original,   \* [body, proposal, base]: what everything is built of at first
  MaxReviews, \* bound of the model: reviews after it
  None

VARIABLES
  proposal,  \* the proposal on file
  pins,      \* [proposal, body]: what the scripts expect
  archive,   \* [row number -> row]: the accepted rows on file
  manifest,  \* [proposal, archive, body] of the release
  network,   \* the network that was built last, and
  base,      \* the one that it was built of
  reviews    \* how often a proposal has been written

vars == <<proposal, pins, archive, manifest, network, base, reviews>>

\* What a network below says of its routes and plans, to which no row is attached yet; an
\* entity of a route has an operator's code in its name.
PlansAssumption ==
  \A b \in Bases \union {Original.base} : \A r \in DOMAIN b :
    /\ b[r] = [numbers |-> b[r].numbers, plans |-> b[r].plans]
    /\ r.entity # None => IcaoOf[r.entity] # None
    /\ \A p \in b[r].plans :
         p = [registration |-> p.registration, number |-> p.number, operator |-> p.operator,
              entity |-> p.entity, icao |-> p.icao, conflict |-> p.conflict, lineage |-> {}]

-----------------------------------------------------------------------------
(***************************************************************************)
(* The archive and the overlay.                                            *)
(***************************************************************************)
EntriesOf(groups) == UNION {g.entries : g \in groups}
RowsOf(groups) == {e.row : e \in EntriesOf(groups)}

\* The archive is made of the captured file that is pinned, for the proposal that is.
CanArchive(capture) ==
  /\ pins = [proposal |-> proposal, body |-> capture]
  /\ RowsOf(proposal) \subseteq DOMAIN capture
ArchiveOf(capture) == Restrict(capture, RowsOf(proposal))

\* What a raw row says of its plan. The columns left over are not compared.
MatchesRaw(raw, plan) ==
  /\ raw.registration = plan.registration /\ raw.number = plan.number
  /\ raw.icao = plan.icao /\ raw.codeshare = plan.codeshare
  /\ raw.passenger /\ ~plan.conflict

Tiers == {"existing-candidate", "new-identity-on-existing-route"}
EntryHolds(group, e) ==
  /\ e.row \in DOMAIN archive /\ e.body = pins.body /\ e.accepted
  /\ MatchesRaw(archive[e.row], e.plan)
  /\ e.plan.number = group.number
GroupHolds(group) ==
  /\ group.existing /\ group.tier \in Tiers
  /\ \A e \in group.entries : EntryHolds(group, e)

\* A plan is one fact, however many rows say it.
Profile(plan) ==
  [f \in {"registration", "number", "operator", "entity", "conflict"} |-> plan[f]]

Lineage(e) ==
  [row |-> e.row, raw |-> archive[e.row], icao |-> e.plan.icao, body |-> pins.body]
PlansFor(route) ==
  LET entries == EntriesOf({g \in proposal : g.route = route})
  IN {[registration |-> e.plan.registration, number |-> e.plan.number,
       operator |-> e.plan.operator, entity |-> e.plan.entity, icao |-> e.plan.icao,
       conflict |-> e.plan.conflict,
       lineage |-> {Lineage(o) : o \in
                      {x \in entries : Profile(x.plan) = Profile(e.plan)}}] : e \in entries}

\* How a route is looked up.
Key(route) == <<IF route.entity = None THEN route.carrier ELSE route.entity, route.pair>>

\* buildSiroRegisteredPlanOverlay: every archived row is accepted once, and the rows of
\* one fact name one operator.
OverlayBuilds ==
  /\ pins.proposal = proposal
  /\ \A g \in proposal : GroupHolds(g)
  /\ DOMAIN archive = RowsOf(proposal)
  /\ \A g, h \in proposal : \A d \in g.entries, e \in h.entries :
       d.row = e.row => g = h /\ d = e
  /\ \A g, h \in proposal : Key(g.route) = Key(h.route) =>
       /\ g.route = h.route
       /\ \A d \in g.entries, e \in h.entries :
            Profile(d.plan) = Profile(e.plan) => d.plan.icao = e.plan.icao

-----------------------------------------------------------------------------
(***************************************************************************)
(* The network with the plans.                                             *)
(***************************************************************************)
Same(plans, plan) == {p \in plans : Profile(p) = Profile(plan)}

\* A fact that the network has gets the rows, another one is added.
Attached(route, plans) ==
  LET new == PlansFor(route)
  IN {[p EXCEPT !.lineage = @ \union UNION {q.lineage : q \in Same(new, p)}] : p \in plans}
       \union {q \in new : Same(plans, q) = {}}

\* applySiroRegisteredPlanOverlay and the schema of a route.
PlanValid(route, plan) ==
  LET own == route.entity # None /\ plan.icao = IcaoOf[route.entity]
  IN /\ plan.operator = route.carrier \/ own
     /\ route.entity # None => plan.entity = route.entity /\ own
     /\ plan.entity # None => plan.entity = route.entity
OneRowOnce(plans) ==
  \A p, q \in plans : \A d \in p.lineage, e \in q.lineage : d.row = e.row => p = q /\ d = e

Matched(b) ==
  UNION {{<<g.route, q>> : q \in {x \in PlansFor(g.route) : Same(b[g.route].plans, x) # {}}} :
         g \in proposal}
Applies(b) ==
  /\ \A g \in proposal : g.route \in DOMAIN b /\ g.number \notin b[g.route].numbers
  /\ \A g, h \in proposal : g.route = h.route /\ g.number = h.number => g = h
  /\ \A g \in proposal : \A q \in PlansFor(g.route), p \in b[g.route].plans :
       Profile(p) = Profile(q) /\ p.icao # None => p.icao = q.icao
  /\ Cardinality(Matched(b)) >= Cardinality({e \in EntriesOf(proposal) : e.already})
  /\ \A g \in proposal : LET plans == Attached(g.route, b[g.route].plans)
                         IN OneRowOnce(plans) /\ \A p \in plans : PlanValid(g.route, p)

Applied(b) == [route \in DOMAIN b |-> [b[route] EXCEPT !.plans = Attached(route, @)]]

-----------------------------------------------------------------------------
(***************************************************************************)
(* The scripts, and what happens to their inputs.                          *)
(***************************************************************************)
Init ==
  /\ proposal = Original.proposal
  /\ pins = [proposal |-> proposal, body |-> Original.body]
  /\ archive = ArchiveOf(Original.body)
  /\ manifest = [proposal |-> proposal, archive |-> archive, body |-> Original.body]
  /\ base = Original.base
  /\ OverlayBuilds /\ Applies(base)
  /\ network = Applied(base)
  /\ reviews = 0

\* A review writes another proposal; the pins are moved to the proposal on file.
Review(groups) ==
  /\ reviews < MaxReviews
  /\ proposal' = groups /\ reviews' = reviews + 1
  /\ UNCHANGED <<pins, archive, manifest, network, base>>

MovePins(capture) ==
  /\ pins' = [proposal |-> proposal, body |-> capture]
  /\ UNCHANGED <<proposal, archive, manifest, network, base, reviews>>

\* build-siros-source-row-ledger.ts.
BuildLedger(capture) ==
  /\ CanArchive(capture)
  /\ archive' = ArchiveOf(capture)
  /\ UNCHANGED <<proposal, pins, manifest, network, base, reviews>>

\* build-siros-registered-plan-release.ts, with the captured file or without.
Reproduced(capture) == CanArchive(capture) /\ ArchiveOf(capture) = archive
BuildRelease(capture) ==
  /\ OverlayBuilds
  /\ capture # None => Reproduced(capture)
  /\ manifest' = [proposal |-> proposal, archive |-> archive, body |-> pins.body]
  /\ UNCHANGED <<proposal, pins, archive, network, base, reviews>>

\* build-runtime-route-network.ts: the manifest must be of the files that are used.
Pinned == manifest = [proposal |-> proposal, archive |-> archive, body |-> pins.body]
BuildNetwork(b) ==
  /\ OverlayBuilds /\ Pinned /\ Applies(b)
  /\ network' = Applied(b) /\ base' = b
  /\ UNCHANGED <<proposal, pins, archive, manifest, reviews>>

Next ==
  \/ \E groups \in Proposals : Review(groups)
  \/ \E capture \in Captures : MovePins(capture) \/ BuildLedger(capture)
  \/ \E capture \in Captures \union {None} : BuildRelease(capture)
  \/ \E b \in Bases : BuildNetwork(b)

Spec == Init /\ [][Next]_vars

-----------------------------------------------------------------------------
(***************************************************************************)
(* Properties.                                                             *)
(***************************************************************************)
TypeOK ==
  /\ proposal \in Proposals /\ pins.proposal \in Proposals /\ pins.body \in Captures
  /\ DOMAIN manifest = {"proposal", "archive", "body"}
  /\ base \in Bases /\ DOMAIN network = DOMAIN base /\ reviews \in 0 .. MaxReviews

\* verify-siros-registered-plan-release.ts.
Rows == UNION {UNION {p.lineage : p \in network[r].plans} : r \in DOMAIN network}
Verified ==
  /\ manifest.proposal = proposal /\ manifest.archive = archive
  /\ {l.row : l \in Rows} = DOMAIN archive
  /\ \A l \in Rows : l.raw = archive[l.row] /\ l.body = manifest.body

\* In every order of reviews, pins and builds: a network that passes the verification
\* attaches every archived row exactly once, to a plan of which the archived row says the
\* registration, the number and the operator, and every one of those rows is a regular
\* passenger flight of the operator that the route names.
Attachments == UNION {{<<r, p>> : p \in network[r].plans} : r \in DOMAIN network}
RowsAttached ==
  Verified => \A n \in DOMAIN archive :
    Cardinality({x \in Attachments : n \in {l.row : l \in x[2].lineage}}) = 1
PlansStated ==
  Verified => \A r \in DOMAIN network : \A p \in network[r].plans : \A l \in p.lineage :
    LET raw == archive[l.row]
    IN /\ raw.passenger /\ ~p.conflict
       /\ raw.registration = p.registration /\ raw.number = p.number /\ raw.icao = l.icao
       /\ p.icao \in {None, l.icao}
       /\ r.entity # None => p.entity = r.entity /\ l.icao = IcaoOf[r.entity]

\* A registered plan is evidence only: the routes and their confirmed numbers stay those
\* of the network below, which keeps its own plans, and no number with a row is among
\* the confirmed ones.
EvidenceOnly ==
  \A r \in DOMAIN network :
    /\ r \in DOMAIN base /\ network[r].numbers = base[r].numbers
    /\ \A p \in base[r].plans : \E q \in network[r].plans :
         Profile(p) = Profile(q) /\ p.icao = q.icao
    /\ \A p \in network[r].plans : p.lineage # {} => p.number \notin network[r].numbers

PlansAccounted == RowsAttached /\ PlansStated /\ EvidenceOnly
=============================================================================
