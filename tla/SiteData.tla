------------------------------ MODULE SiteData ------------------------------
(***************************************************************************)
(* The files of the runtime network, from the script that builds it        *)
(* (build-runtime-route-network.ts, its output) over those that derive     *)
(* from it (build-route-library-carrier-shards.ts, build-landing-          *)
(* showcases.ts, build-data-manifest.ts) and those that check it to the    *)
(* published site and to a page of the route library, which loads them one *)
(* by one, perhaps from two publications (route-network-runtime.ts).       *)
(*                                                                         *)
(* The hash of a file is modelled by its content, and the content of a     *)
(* network by its routes. When a page loads which file, and what it does   *)
(* after a refusal, is the matter of RouteLibrary. The inputs do not       *)
(* change while a script runs.                                             *)
(***************************************************************************)
EXTENDS Integers, Sequences, FiniteSets, FiniteSetsExt, Functions

CONSTANTS
  Editions,     \* networks that the inputs may give: sets of routes
                \* [carrier, from, to, status, identity, numbers, candidates]
  LetterOf,     \* first letter of each origin
  LetterOrder, CarrierOrder,
  Accepted,     \* <<carrier, from, to>> of the routes that may be without a number
  Showcase,     \* legs of the landing page: [carrier, from, to, number]
  MaxCommands,  \* bound: commands that are run
  None

VARIABLES
  inputs,    \* the network that the reviewed inputs give
  disk,      \* contents of the files of public/data
  job,       \* None, or [scripts, network, left]: what still runs, on which network
  site,      \* the files as they were last published
  released,  \* whether CI published them
  page,      \* None, or a page of the library: [meta, crypto, carriers, loaded]
  commands

vars == <<inputs, disk, job, site, released, page, commands>>

-----------------------------------------------------------------------------
File(kind, name) == [kind |-> kind, name |-> name]
Network == File("network", None)
Meta == File("meta", None)
Origin(letter) == File("origin", letter)
CarrierMeta == File("carrierMeta", None)
Carrier(carrier) == File("carrier", carrier)
Landing == File("landing", None)
Manifest == File("manifest", None)

Put(file, content) ==
  [f \in DOMAIN disk \cup {file} |-> IF f = file THEN content ELSE disk[f]]
Without(files) == Restrict(disk, DOMAIN disk \ files)

Published(network) == {r \in network : r.status = "published"}
Unnumbered(network) ==
  {r \in Published(network) : /\ r.numbers \cup r.candidates = {}
                              /\ <<r.carrier, r.from, r.to>> \notin Accepted}

OfLetter(network, letter) == {r \in network : LetterOf[r.from] = letter}
OfCarrier(network, carrier) == {r \in Published(network) : r.carrier = carrier}
Carriers(network) == {r.carrier : r \in Published(network)}
InOrder(order, names) ==
  LET at == {i \in DOMAIN order : order[i] \in names}
  IN [n \in 1..Cardinality(at) |-> order[CHOOSE i \in at : Cardinality({j \in at : j <= i}) = n]]

\* What the network's schema lets through; and the sort of carriers loses none.
SiteAssumption ==
  /\ CarrierOrder \in Seq(Range(CarrierOrder))
  /\ \A e \in Editions : /\ Carriers(e) \subseteq Range(CarrierOrder)
                         /\ \A r \in e : r.numbers \cap r.candidates = {}

MetaOf(network) ==
  [input |-> inputs, output |-> network, published |-> Cardinality(Published(network)),
   origins |-> [l \in {LetterOf[r.from] : r \in network} |-> OfLetter(network, l)]]

CarrierMetaOf(network) ==
  [runtime |-> network, carriers |-> [c \in Carriers(network) |-> OfCarrier(network, c)]]

\* A leg of the landing page rests on a route that is published with its number.
RouteFor(network, leg) ==
  {r \in Published(network) : /\ r.carrier = leg.carrier /\ r.from = leg.from /\ r.to = leg.to
                              /\ leg.number \in r.numbers \cup r.candidates}
Confirmed(network, leg) ==
  \E r \in RouteFor(network, leg) : r.identity = "operating" /\ leg.number \in r.numbers
LandingOf(network, meta) ==
  [published |-> meta.published,
   confirmed |-> {leg \in Showcase : Confirmed(network, leg)}]

-----------------------------------------------------------------------------
(***************************************************************************)
(* The scripts. A command of package.json runs one after the other and     *)
(* ends at the first that fails.                                           *)
(***************************************************************************)
Commands == { <<"runtime">>, <<"manifest">>, <<"landing">>, <<"carriers", "landing">>,
              <<"carriers", "landing", "publish">>,
              <<"carriers", "landing", "verify", "carriers", "landing", "release">> }

Running(script) == job # None /\ Head(job.scripts) = script
Next1 == IF Len(job.scripts) = 1 THEN None
         ELSE [scripts |-> Tail(job.scripts), network |-> None, left |-> <<>>]
Fail == job' = None /\ UNCHANGED disk

Run(command) ==
  /\ job = None /\ commands < MaxCommands /\ commands' = commands + 1
  /\ job' = [scripts |-> command, network |-> None, left |-> <<>>]
  /\ UNCHANGED <<inputs, disk, site, released, page>>

\* The network is written before it is known that every route has a number.
BuildRuntime ==
  /\ Running("runtime") /\ job.network = None
  /\ disk' = Put(Network, inputs)
  /\ job' = IF Unnumbered(inputs) # {} THEN None
            ELSE [job EXCEPT !.network = inputs, !.left = LetterOrder]
  /\ UNCHANGED <<inputs, site, released, page, commands>>

\* A letter without routes loses its shard.
WriteOrigin ==
  /\ Running("runtime") /\ job.network # None /\ job.left # <<>>
  /\ LET letter == Head(job.left)
         routes == OfLetter(job.network, letter)
     IN disk' = IF routes = {} THEN Without({Origin(letter)}) ELSE Put(Origin(letter), routes)
  /\ job' = [job EXCEPT !.left = Tail(@)]
  /\ UNCHANGED <<inputs, site, released, page, commands>>

WriteMeta ==
  /\ Running("runtime") /\ job.network # None /\ job.left = <<>>
  /\ disk' = Put(Meta, MetaOf(job.network)) /\ job' = Next1
  /\ UNCHANGED <<inputs, site, released, page, commands>>

MatchesMeta == disk[Meta].output = disk[Network]

BeginCarriers ==
  /\ Running("carriers") /\ job.network = None
  /\ IF MatchesMeta
     THEN /\ disk' = Without({f \in DOMAIN disk : f.kind = "carrier"})
          /\ job' = [job EXCEPT !.network = disk[Network],
                                !.left = InOrder(CarrierOrder, Carriers(disk[Network]))]
     ELSE Fail
  /\ UNCHANGED <<inputs, site, released, page, commands>>

WriteCarrier ==
  /\ Running("carriers") /\ job.network # None /\ job.left # <<>>
  /\ disk' = Put(Carrier(Head(job.left)), OfCarrier(job.network, Head(job.left)))
  /\ job' = [job EXCEPT !.left = Tail(@)]
  /\ UNCHANGED <<inputs, site, released, page, commands>>

WriteCarrierMeta ==
  /\ Running("carriers") /\ job.network # None /\ job.left = <<>>
  /\ disk' = Put(CarrierMeta, CarrierMetaOf(job.network)) /\ job' = Next1
  /\ UNCHANGED <<inputs, site, released, page, commands>>

BuildLanding ==
  /\ Running("landing")
  /\ IF \A leg \in Showcase : RouteFor(disk[Network], leg) # {}
     THEN disk' = Put(Landing, LandingOf(disk[Network], disk[Meta])) /\ job' = Next1
     ELSE Fail
  /\ UNCHANGED <<inputs, site, released, page, commands>>

\* Every file but the manifest itself, as it is.
BuildManifest ==
  /\ Running("manifest")
  /\ disk' = Put(Manifest, Without({Manifest})) /\ job' = Next1
  /\ UNCHANGED <<inputs, site, released, page, commands>>

ManifestVerifies ==
  /\ Manifest \in DOMAIN disk
  /\ \A f \in DOMAIN disk[Manifest] : f \in DOMAIN disk /\ disk[f] = disk[Manifest][f]

VerifyManifest ==
  /\ Running("verify") /\ job' = (IF ManifestVerifies THEN Next1 ELSE None)
  /\ UNCHANGED <<inputs, disk, site, released, page, commands>>

\* By hand, or by CI.
Publish ==
  /\ Running("publish") \/ Running("release")
  /\ site' = disk /\ released' = Running("release") /\ job' = Next1
  /\ UNCHANGED <<inputs, disk, page, commands>>

Kill ==
  /\ job # None /\ job' = None
  /\ UNCHANGED <<inputs, disk, site, released, page, commands>>

Edit(edition) ==
  /\ job = None /\ edition # inputs /\ inputs' = edition
  /\ UNCHANGED <<disk, job, site, released, page, commands>>

-----------------------------------------------------------------------------
\* routes:verify-runtime, run by hand.
RuntimeVerifies ==
  LET meta == disk[Meta]
  IN /\ meta.input = inputs /\ meta.output = disk[Network]
     /\ \A l \in DOMAIN meta.origins :
          /\ Origin(l) \in DOMAIN disk /\ disk[Origin(l)] = meta.origins[l]
          /\ \A r \in disk[Origin(l)] : LetterOf[r.from] = l
     /\ MapThenSumSet(LAMBDA l : Cardinality(meta.origins[l]), DOMAIN meta.origins)
          = Cardinality(meta.output)

-----------------------------------------------------------------------------
(***************************************************************************)
(* A page. A browser without WebCrypto trusts what parses.                 *)
(***************************************************************************)
Open(crypto) ==
  /\ page = None
  /\ page' = [meta |-> site[Meta], crypto |-> crypto, carriers |-> None, loaded |-> None]
  /\ UNCHANGED <<inputs, disk, job, site, released, commands>>

FetchCarrierMeta ==
  /\ page # None /\ page.carriers = None
  /\ site[CarrierMeta].runtime = page.meta.output
  /\ page' = [page EXCEPT !.carriers = site[CarrierMeta].carriers]
  /\ UNCHANGED <<inputs, disk, job, site, released, commands>>

HashMatches(content, expected) == page.crypto => content = expected

Load(file, expected) ==
  /\ file \in DOMAIN site /\ HashMatches(site[file], expected)
  /\ page' = [page EXCEPT !.loaded = [file |-> file, routes |-> site[file]]]
  /\ UNCHANGED <<inputs, disk, job, site, released, commands>>

LoadFull == page # None /\ Load(Network, page.meta.output)

LoadOrigin(letter) ==
  page # None /\ letter \in DOMAIN page.meta.origins /\ Load(Origin(letter), page.meta.origins[letter])

\* A carrier's file holds its published routes only, whether or not hashes can be compared.
InScope(carrier, routes) ==
  \A r \in routes : r.carrier = carrier /\ r.status = "published"
LoadCarrier(carrier) ==
  /\ page # None /\ page.carriers # None /\ carrier \in DOMAIN page.carriers
  /\ Carrier(carrier) \in DOMAIN site /\ InScope(carrier, site[Carrier(carrier)])
  /\ Load(Carrier(carrier), page.carriers[carrier])

-----------------------------------------------------------------------------
Whole(network) ==
  [f \in {Network, Meta, CarrierMeta, Landing}
         \cup {Origin(LetterOf[r.from]) : r \in network}
         \cup {Carrier(c) : c \in Carriers(network)} |->
     CASE f = Network           -> network
       [] f = Meta              -> MetaOf(network)
       [] f = CarrierMeta       -> CarrierMetaOf(network)
       [] f = Landing           -> LandingOf(network, MetaOf(network))
       [] f.kind = "origin"     -> OfLetter(network, f.name)
       [] f.kind = "carrier"    -> OfCarrier(network, f.name)]

\* Everything is built of the inputs, listed and published.
Init ==
  /\ inputs \in {e \in Editions : /\ Unnumbered(e) = {}
                                  /\ \A leg \in Showcase : RouteFor(e, leg) # {}}
  /\ disk = [f \in DOMAIN Whole(inputs) \cup {Manifest} |->
               IF f = Manifest THEN Whole(inputs) ELSE Whole(inputs)[f]]
  /\ site = disk
  /\ job = None /\ released = FALSE /\ page = None /\ commands = 0

Next ==
  \/ \E command \in Commands : Run(command)
  \/ BuildRuntime \/ WriteOrigin \/ WriteMeta
  \/ BeginCarriers \/ WriteCarrier \/ WriteCarrierMeta
  \/ BuildLanding \/ BuildManifest \/ VerifyManifest \/ Publish \/ Kill
  \/ \E edition \in Editions : Edit(edition)
  \/ \E crypto \in BOOLEAN : Open(crypto)
  \/ FetchCarrierMeta \/ LoadFull
  \/ \E letter \in Range(LetterOrder) : LoadOrigin(letter)
  \/ \E carrier \in Range(CarrierOrder) : LoadCarrier(carrier)

Spec == Init /\ [][Next]_vars
-----------------------------------------------------------------------------
(***************************************************************************)
(* Properties.                                                             *)
(***************************************************************************)
\* Type invariant.
TypeOK ==
  /\ inputs \in Editions /\ {Network, Meta} \subseteq DOMAIN disk
  /\ job # None => Head(job.scripts) \in UNION {Range(c) : c \in Commands}
  /\ commands \in 0..MaxCommands

\* A page that can compare hashes shows routes of the one network its metadata is of,
\* whatever was published since it was opened, and a carrier's file is never more than
\* that carrier's.
ShownAsBuilt ==
  page # None /\ page.loaded # None =>
    LET file == page.loaded.file
        routes == page.loaded.routes
    IN /\ page.crypto =>
            routes = CASE file.kind = "network" -> page.meta.output
                       [] file.kind = "origin"  -> OfLetter(page.meta.output, file.name)
                       [] file.kind = "carrier" -> OfCarrier(page.meta.output, file.name)
       /\ file.kind = "carrier" => InScope(file.name, routes)

\* However the scripts were killed, a site is published only with a network that its
\* metadata describes, with the carriers' files of that network and no other, and with a
\* landing page whose flights and total are in it.
PublishedWhole ==
  LET network == site[Network]
  IN /\ site[Meta].output = network
     /\ site[CarrierMeta] = CarrierMetaOf(network)
     /\ {f \in DOMAIN site : f.kind = "carrier"} = {Carrier(c) : c \in Carriers(network)}
     /\ \A c \in Carriers(network) : site[Carrier(c)] = OfCarrier(network, c)
     /\ site[Landing].published = Cardinality(Published(network))
     /\ \A leg \in Showcase : RouteFor(network, leg) # {}
     /\ \A leg \in site[Landing].confirmed :
          \E r \in RouteFor(network, leg) :
            r.identity = "operating" /\ leg.number \notin r.candidates

\* A network that is verified was built of the inputs on hand, every published route of it
\* has a number or was accepted without, and its shards hold all of it.
VerifiedIsBuilt ==
  RuntimeVerifies =>
    /\ disk[Network] = inputs /\ Unnumbered(disk[Network]) = {}
    /\ UNION {disk[Origin(l)] : l \in DOMAIN disk[Meta].origins} = disk[Network]

\* What CI has checked against the manifest is what it publishes, although it derives the
\* files once more in between.
ReleasedAsListed ==
  released => \A f \in DOMAIN site[Manifest] : f \in DOMAIN site /\ site[f] = site[Manifest][f]

\* All of these.
SiteSound == ShownAsBuilt /\ PublishedWhole /\ VerifiedIsBuilt /\ ReleasedAsListed
=============================================================================
