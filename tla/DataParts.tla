----------------------------- MODULE DataParts -----------------------------
(***************************************************************************)
(* The parts that route data goes through, one instance each: the scripts  *)
(* that collect, merge, review and publish it, and the files of the site.  *)
(* They share no state, so a behaviour is of one of them (`subject`) or of *)
(* none, as in ItineraryParts. The properties are those of the part that   *)
(* moves, for all values of the constants; DataProofs proves them.         *)
(***************************************************************************)
EXTENDS Naturals, Sequences

CONSTANTS
  Void,  \* what is not there
  \* RouteCollection
  Universe, Workers,
  \* RouteMerge
  LayerNumbers, MaxLayers,
  \* ScheduleHarvest
  PairCount, MaxTries, MaxErrors,
  \* RegisteredPlans
  ReviewCaptures, Proposals, Bases, IcaoOf, Original, MaxReviews,
  \* DgcaEvidence
  Packets, NetworkBuilds,
  \* FlightNumberLayer
  Inputs, Answers,
  \* AvinorCapture
  OsloBase, Feeds, Past, Horizon, MaxHours,
  \* AvinorRelease
  Unreleased, Editions, ReleaseScope,
  \* SiteData
  SiteEditions, SiteLetter, LetterOrder, CarrierOrder, AcceptedRoutes, Showcase,
  MaxCommands

VARIABLES
  subject,
  \* RouteCollection
  files, process, cursor, awaited, records, failures, output,
  \* RouteMerge
  row, stage, layers, baseline, proven, blocked, reviewed,
  \* ScheduleHarvest
  bodies, run, at, request, found, entries, index, rows,
  \* RegisteredPlans
  proposal, pins, archive, manifest, attached, base, reviews,
  \* DgcaEvidence
  edition, build, pinned, normalized, published, outcome,
  \* FlightNumberLayer
  numberInput, numberCache, allowedNumbers, numberStage, numberLayer, rowsLeft,
  askingWorkers,
  \* AvinorCapture
  captureTime, osloNetwork, osloFeed, osloPatch, osloPacket, osloOutcome,
  \* AvinorRelease
  releaseEdition, released, releaseVerdict,
  \* SiteData
  siteInputs, siteDisk, siteJob, siteFiles, siteReleased, sitePage, siteCommands

Collection == INSTANCE RouteCollection WITH
  fetching <- awaited, None <- Void

Network == INSTANCE RouteMerge WITH
  Numbers <- LayerNumbers, None <- Void

Harvest == INSTANCE ScheduleHarvest WITH
  files <- bodies, catalog <- rows, MaxAttempts <- MaxTries, None <- Void

Plans == INSTANCE RegisteredPlans WITH
  network <- attached, Captures <- ReviewCaptures, None <- Void

Dgca == INSTANCE DgcaEvidence WITH
  base <- build, catalog <- published, Networks <- NetworkBuilds, None <- Void

Layer == INSTANCE FlightNumberLayer WITH
  input <- numberInput, cache <- numberCache, allowed <- allowedNumbers,
  stage <- numberStage, layer <- numberLayer, left <- rowsLeft, asking <- askingWorkers,
  None <- Void

Avinor == INSTANCE AvinorCapture WITH
  now <- captureTime, network <- osloNetwork, feed <- osloFeed, patch <- osloPatch,
  packet <- osloPacket, outcome <- osloOutcome, Base <- OsloBase, Scope <- Horizon,
  MaxTime <- MaxHours, None <- Void

Norway == INSTANCE AvinorRelease WITH
  release <- releaseEdition, published <- released, verdict <- releaseVerdict,
  Base <- Unreleased, Releases <- Editions, Scope <- ReleaseScope, None <- Void

Site == INSTANCE SiteData WITH
  inputs <- siteInputs, disk <- siteDisk, job <- siteJob, site <- siteFiles,
  released <- siteReleased, page <- sitePage, commands <- siteCommands,
  Editions <- SiteEditions, LetterOf <- SiteLetter, Accepted <- AcceptedRoutes,
  None <- Void

-----------------------------------------------------------------------------
\* What the proofs assume of the constants.
ASSUME DataAssumptions ==
  /\ Collection!CollectionAssumption /\ Network!NetworkAssumption
  /\ Harvest!HarvestAssumption /\ Plans!PlansAssumption /\ Dgca!DgcaAssumption
  /\ Site!SiteAssumption /\ Layer!NumbersAssumption /\ Avinor!CapturesAssumption
  /\ Norway!ReleaseAssumption

\* The variables of each part.
collectionVars == <<files, process, cursor, awaited, records, failures, output>>
networkVars == <<row, stage, layers, baseline, proven, blocked, reviewed>>
harvestVars == <<bodies, run, at, request, found, entries, index, rows>>
plansVars == <<proposal, pins, archive, manifest, attached, base, reviews>>
dgcaVars == <<edition, build, pinned, normalized, published, outcome>>
numbersVars == <<numberInput, numberCache, allowedNumbers, numberStage, numberLayer,
                 rowsLeft, askingWorkers>>
capturesVars == <<captureTime, osloNetwork, osloFeed, osloPatch, osloPacket,
                  osloOutcome>>
releaseVars == <<releaseEdition, released, releaseVerdict>>
siteVars == <<siteInputs, siteDisk, siteJob, siteFiles, siteReleased, sitePage,
              siteCommands>>

dataVars == <<subject, collectionVars, networkVars, harvestVars, plansVars, dgcaVars,
              numbersVars, capturesVars, releaseVars, siteVars>>

DataInit ==
  /\ subject \in {Void, "collection", "network", "harvest", "plans", "dgca",
                     "numbers", "captures", "release", "site"}
  /\ IF subject = "collection" THEN Collection!Init
     ELSE files = Void /\ process = Void /\ cursor = Void /\ awaited = Void /\
          records = Void /\ failures = Void /\ output = Void
  /\ IF subject = "network" THEN Network!Init
     ELSE row = Void /\ stage = Void /\ layers = Void /\ baseline = Void /\
          proven = Void /\ blocked = Void /\ reviewed = Void
  /\ IF subject = "harvest" THEN Harvest!Init
     ELSE bodies = Void /\ run = Void /\ at = Void /\ request = Void /\ found = Void /\
          entries = Void /\ index = Void /\ rows = Void
  /\ IF subject = "plans" THEN Plans!Init
     ELSE proposal = Void /\ pins = Void /\ archive = Void /\ manifest = Void /\
          attached = Void /\ base = Void /\ reviews = Void
  /\ IF subject = "dgca" THEN Dgca!Init
     ELSE edition = Void /\ build = Void /\ pinned = Void /\ normalized = Void /\
          published = Void /\ outcome = Void
  /\ IF subject = "numbers" THEN Layer!Init
     ELSE numberInput = Void /\ numberCache = Void /\ allowedNumbers = Void /\
          numberStage = Void /\ numberLayer = Void /\ rowsLeft = Void /\
          askingWorkers = Void
  /\ IF subject = "captures" THEN Avinor!Init
     ELSE captureTime = Void /\ osloNetwork = Void /\ osloFeed = Void /\
          osloPatch = Void /\ osloPacket = Void /\ osloOutcome = Void
  /\ IF subject = "release" THEN Norway!Init
     ELSE releaseEdition = Void /\ released = Void /\ releaseVerdict = Void
  /\ IF subject = "site" THEN Site!Init
     ELSE siteInputs = Void /\ siteDisk = Void /\ siteJob = Void /\ siteFiles = Void /\
          siteReleased = Void /\ sitePage = Void /\ siteCommands = Void

DataNext ==
  /\ UNCHANGED subject
  /\ IF subject = "collection" THEN Collection!Next ELSE UNCHANGED collectionVars
  /\ IF subject = "network" THEN Network!Next ELSE UNCHANGED networkVars
  /\ IF subject = "harvest" THEN Harvest!Next ELSE UNCHANGED harvestVars
  /\ IF subject = "plans" THEN Plans!Next ELSE UNCHANGED plansVars
  /\ IF subject = "dgca" THEN Dgca!Next ELSE UNCHANGED dgcaVars
  /\ IF subject = "numbers" THEN Layer!Next ELSE UNCHANGED numbersVars
  /\ IF subject = "captures" THEN Avinor!Next ELSE UNCHANGED capturesVars
  /\ IF subject = "release" THEN Norway!Next ELSE UNCHANGED releaseVars
  /\ IF subject = "site" THEN Site!Next ELSE UNCHANGED siteVars

DataSpec == DataInit /\ [][DataNext]_dataVars
-----------------------------------------------------------------------------
(***************************************************************************)
(* Properties.                                                             *)
(***************************************************************************)
\* What the scripts hand on is what they have on file, after kills and failures too: a
\* catalogue that is not marked partial can be built again from the cache, a harvested pair
\* says what its timetables say, the catalogue of Indian schedules rests on the rows of its
\* packets and passes only if its variants are those of today's packets and say the same, up
\* to the fields that verification does not compare, a registered plan says what its archived
\* row says and confirms no number, no layer of the network makes a provider's
\* listing an operating carrier's flight number, that of the flight numbers follows from
\* what is on file and cites its support, a capture of Avinor's feed proposes what is going
\* to fly and its release dates what was proposed, what passes the verification of its
\* releases is of one edition, and the site that is published is of one network
\* (collect-global-routes.ts, harvest-jx-schedules.mjs, build- and
\* verify-dgca-schedule-evidence.ts, siros-registered-plan-input.ts,
\* route-network-merge.ts, build-runtime-route-network.ts, build-flight-number-layer.ts,
\* parse-avinor-xml-public-snapshot.py, the avinor scripts, verify-data-manifest.ts).
DownloadsAccounted ==
  /\ subject = "collection" => Collection!OutputReproducible
  /\ subject = "harvest" => Harvest!HarvestAccounts
  /\ subject = "dgca" => Dgca!EvidenceAccounted
  /\ subject = "plans" => Plans!PlansAccounted
  /\ subject = "network" => Network!MergeKeepsEvidence
  /\ subject = "site" => Site!SiteSound
  /\ subject = "numbers" => Layer!NumbersAccounted
  /\ subject = "captures" => Avinor!CapturesAccounted
  /\ subject = "release" => Norway!ReleaseSound
=============================================================================
