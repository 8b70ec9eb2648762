--------------------------- MODULE FlightNumberLayer ---------------------------
(***************************************************************************)
(* The layer of flight numbers of the route network                        *)
(* (scripts/build-flight-number-layer.ts). Its sources are read one after  *)
(* the other. Some say what they know of every route; the others only fill *)
(* the routes for which no number is known so far. Two of those are web    *)
(* sites, read by several workers with a file per airport pair, so that a  *)
(* run that was killed is taken up where it stopped.                       *)
(*                                                                         *)
(* A number is a candidate, or confirmed if the route's operating carrier  *)
(* is known from elsewhere, that is if the route is not merely listed by a *)
(* provider.                                                               *)
(***************************************************************************)
EXTENDS Naturals, Sequences, FiniteSets

CONSTANTS
  Inputs,    \* states of the files read: [routes, numbered, rows], see below
  Answers,   \* sets of numbers that a page of a web site may list
  Workers,
  None

\* A route is [carrier, pair], a number [carrier, digits], and a row of a source
\* [key, number, strong, days] says that the route has the number. `routes` maps the
\* published routes to [listed, cites, home] (known from a provider only; cites the
\* relation to the affiliate; may be promoted on observation), and `numbered` has the
\* routes with numbers in other files.
VARIABLES
  input,     \* the files of this run, an index of Inputs
  cache,     \* site -> pair -> the page kept on file, or None
  allowed,   \* the sites this run may fetch from
  stage,     \* the step that comes next, or what became of the run
  layer,     \* route -> [confirmed, candidates, confirmedBy, candidatesBy]
  left,      \* pairs of the site at hand that no worker has taken
  asking     \* worker -> the pair whose page it fetches, or None

vars == <<input, cache, allowed, stage, layer, left, asking>>

Steps == <<"standing", "affiliates", "bts", "flightsfrom", "audited",
           "connections", "information", "mrairspace", "adsbiq", "specific", "write">>
Everywhere == [i \in 1..5 |-> Steps[i]]
Sites == {"connections", "information"}

routes == Inputs[input].routes
rows == Inputs[input].rows
Pairs == UNION {{key.pair : key \in DOMAIN Inputs[i].routes} : i \in DOMAIN Inputs}

StepNames == {Steps[i] : i \in DOMAIN Steps}
Rank(step) == CHOOSE i \in DOMAIN Steps : Steps[i] = step
After(step) == Steps[Rank(step) + 1]

Running == stage \in StepNames
At(step) == stage = step

-----------------------------------------------------------------------------
(***************************************************************************)
(* What is gathered of a route. A number once confirmed is no candidate.   *)
(***************************************************************************)
Nothing == [confirmed |-> {}, candidates |-> {}, confirmedBy |-> {}, candidatesBy |-> {}]

AddConfirmed(of, numbers, source) ==
  IF numbers = {} THEN of
  ELSE [confirmed |-> of.confirmed \cup numbers, candidates |-> of.candidates \ numbers,
        confirmedBy |-> of.confirmedBy \cup {source}, candidatesBy |-> of.candidatesBy]

AddCandidates(of, numbers, source) ==
  IF numbers = {} THEN of
  ELSE [of EXCEPT !.candidates = @ \cup (numbers \ of.confirmed), !.candidatesBy = @ \cup {source}]

Known(of) == of.confirmed \cup of.candidates

NumbersOf(rs, key) == {row.number : row \in {r \in rs : r.key = key}}
Strong(rs) == {row \in rs : row.strong}

RowsOf(source, key) == {row \in rows[source] : row.key = key}

\* An affiliate's numbers count for a route that cites the relation.
AffiliateRows(key) == IF routes[key].cites THEN RowsOf("affiliates", key) ELSE {}

Rows(source, key) == IF source = "affiliates" THEN AffiliateRows(key) ELSE RowsOf(source, key)

\* A standing number whose callsign was seen in the air, unless the route is only listed.
SeenInTheAir(key) == IF routes[key].listed THEN {} ELSE Strong(RowsOf("standing", key))

Confirming(source, key) ==
  CASE source = "standing"    -> SeenInTheAir(key)
    [] source = "flightsfrom" -> Strong(RowsOf(source, key))
    [] OTHER                  -> {}

Merely(source, key) ==
  IF source = "flightsfrom" THEN Rows(source, key) \ Strong(Rows(source, key)) ELSE Rows(source, key)

\* Its rows are added to what was known; what it confirms it cites by itself.
Added(of, source, key) ==
  AddConfirmed(AddCandidates(of, NumbersOf(Merely(source, key), key), source),
               NumbersOf(Confirming(source, key), key), source)

\* A snapshot speaks of published routes, in numbers of their carriers; one of flights
\* seen has seen each on two days; and FlightsFrom confirms no route that is only listed.
Published(source) == \A row \in rows[source] : row.key \in DOMAIN routes
OfItsCarrier(source) == \A row \in rows[source] : row.number.carrier = row.key.carrier
FlownTwice(source) == \A row \in rows[source] : row.days >= 2
ConfirmsKnown(source) == \A row \in Strong(rows[source]) : ~routes[row.key].listed

Acceptable(source) ==
  CASE source = "flightsfrom" -> Published(source) /\ OfItsCarrier(source) /\ ConfirmsKnown(source)
    [] source = "adsbiq" -> Published(source) /\ OfItsCarrier(source) /\ FlownTwice(source)
    [] source \in {"mrairspace", "specific"} -> Published(source) /\ OfItsCarrier(source)
    [] OTHER -> TRUE

Refused == stage' = "refused" /\ UNCHANGED <<input, cache, allowed, layer, left, asking>>

\* A source that speaks of every route.
Gather(source) ==
  /\ At(source) /\ Acceptable(source)
  /\ layer' = [key \in DOMAIN routes |-> Added(layer[key], source, key)]
  /\ stage' = After(stage) /\ UNCHANGED <<input, cache, allowed, asking>>
  /\ left' = IF source = "audited" THEN {key.pair : key \in {k \in DOMAIN routes :
                                       k \notin Inputs[input].numbered /\ Known(layer'[k]) = {}}}
             ELSE {}

-----------------------------------------------------------------------------
(***************************************************************************)
(* The web sites: a page per pair, for the routes with no number anywhere. *)
(***************************************************************************)
Page(good, numbers) == [good |-> good, numbers |-> numbers]
Failed == Page(FALSE, {})

Missing == {key \in DOMAIN routes : key \notin Inputs[input].numbered /\ Known(layer[key]) = {}}

\* The page gives a route the numbers of its carrier.
Read(site, pair, page) ==
  layer' = [key \in DOMAIN layer |->
              IF key \in Missing /\ key.pair = pair /\ page.good
              THEN AddCandidates(layer[key], {n \in page.numbers : n.carrier = key.carrier}, site)
              ELSE layer[key]]

\* What is on file is read, but FlightConnections is asked again for a page that failed.
OnFile(site, pair) ==
  /\ cache[site][pair] # None
  /\ site = "connections" => cache[site][pair].good \/ site \notin allowed

Take(site, worker, pair) ==
  /\ At(site) /\ asking[worker] = None /\ pair \in left
  /\ left' = left \ {pair}
  /\ \/ OnFile(site, pair) /\ Read(site, pair, cache[site][pair]) /\ UNCHANGED asking
     \/ ~OnFile(site, pair) /\ site \notin allowed /\ UNCHANGED <<layer, asking>>
     \/ /\ ~OnFile(site, pair) /\ site \in allowed
        /\ asking' = [asking EXCEPT ![worker] = pair] /\ UNCHANGED layer
  /\ UNCHANGED <<input, cache, allowed, stage>>

Answer(site, worker, page) ==
  /\ At(site) /\ asking[worker] # None
  /\ cache' = [cache EXCEPT ![site][asking[worker]] = page]
  /\ Read(site, asking[worker], page)
  /\ asking' = [asking EXCEPT ![worker] = None]
  /\ UNCHANGED <<input, allowed, stage, left>>

\* All workers are through; the second site is asked for what is missing still.
Leave(site) ==
  /\ At(site) /\ left = {} /\ \A worker \in Workers : asking[worker] = None
  /\ stage' = After(stage)
  /\ left' = IF site = "connections" THEN {key.pair : key \in Missing} ELSE {}
  /\ UNCHANGED <<input, cache, allowed, layer, asking>>

\* What is nobody's page and no pair is neither.
NumbersAssumption ==
  /\ 1 \in DOMAIN Inputs /\ None \notin Pairs
  /\ None # Failed /\ \A numbers \in Answers : None # Page(TRUE, numbers)

-----------------------------------------------------------------------------
\* The other fillers; what was observed on a home route counts as confirmed.
MayPromote(key) == routes[key].home /\ ~routes[key].listed

Filled(of, source, key) ==
  LET numbers == NumbersOf(rows[source], key)
      filled  == AddCandidates(of, numbers, source)
  IN IF Known(of) # {} THEN of
     ELSE IF source = "adsbiq" /\ MayPromote(key)
          THEN AddConfirmed(filled, numbers, source) ELSE filled

Fill(source) ==
  /\ At(source) /\ Acceptable(source)
  /\ layer' = [key \in DOMAIN routes |-> Filled(layer[key], source, key)]
  /\ stage' = After(stage) /\ UNCHANGED <<input, cache, allowed, left, asking>>

Refuse(source) == At(source) /\ ~Acceptable(source) /\ Refused

\* The file has the routes with a number, and cites sources for what it has.
Written(of) ==
  [of EXCEPT !.confirmedBy = IF of.confirmed = {} THEN {} ELSE @,
             !.candidatesBy = IF of.candidates = {} THEN {} ELSE @]

Write ==
  /\ At("write") /\ stage' = "done"
  /\ layer' = [key \in {k \in DOMAIN layer : Known(layer[k]) # {}} |-> Written(layer[key])]
  /\ UNCHANGED <<input, cache, allowed, left, asking>>

-----------------------------------------------------------------------------
Begin(i, sites) ==
  /\ input' = i /\ allowed' = sites /\ stage' = Steps[1]
  /\ layer' = [key \in DOMAIN Inputs[i].routes |-> Nothing]
  /\ left' = {} /\ asking' = [worker \in Workers |-> None]
  /\ UNCHANGED cache

Init ==
  /\ input = 1 /\ allowed = {} /\ stage = "none" /\ layer = <<>>
  /\ cache = [site \in Sites |-> [pair \in Pairs |-> None]]
  /\ left = {} /\ asking = [worker \in Workers |-> None]

Kill ==
  /\ Running
  /\ stage' = "killed" /\ layer' = <<>> /\ left' = {} /\ asking' = [worker \in Workers |-> None]
  /\ UNCHANGED <<input, cache, allowed>>

SourceSet == StepNames \ (Sites \cup {"write"})

Next ==
  \/ ~Running /\ \E i \in DOMAIN Inputs, sites \in SUBSET Sites : Begin(i, sites)
  \/ \E i \in DOMAIN Everywhere : Gather(Everywhere[i])
  \/ \E source \in {"mrairspace", "adsbiq", "specific"} : Fill(source)
  \/ \E source \in SourceSet : Refuse(source)
  \/ \E site \in Sites, worker \in Workers, pair \in Pairs : Take(site, worker, pair)
  \/ \E site \in Sites, worker \in Workers :
       \/ Answer(site, worker, Failed)
       \/ \E numbers \in Answers : Answer(site, worker, Page(TRUE, numbers))
  \/ \E site \in Sites : Leave(site)
  \/ Write \/ Kill

Spec == Init /\ [][Next]_vars
-----------------------------------------------------------------------------
(***************************************************************************)
(* Properties.                                                             *)
(***************************************************************************)
\* Type invariant.
TypeOK ==
  /\ input \in DOMAIN Inputs /\ allowed \subseteq Sites /\ left \subseteq Pairs
  /\ stage \in StepNames \cup {"none", "killed", "refused", "done"}
  /\ DOMAIN cache = Sites /\ DOMAIN asking = Workers
  /\ \A key \in DOMAIN layer : DOMAIN layer[key] = DOMAIN Nothing

\* What is on file for a site and a pair.
Filed(site, pair) == IF cache[site][pair] = None THEN Failed ELSE cache[site][pair]

\* The numbers a source states of a route; a site those of the page on file.
States(source, key) ==
  IF source \in Sites
  THEN {n \in Filed(source, key.pair).numbers : n.carrier = key.carrier}
  ELSE NumbersOf(Rows(source, key), key)

\* What confirms a number: a callsign seen, FlightsFrom, or a home route flown twice.
MayConfirm(source, row) ==
  \/ source \in {"standing", "flightsfrom"} /\ row.strong
  \/ source = "adsbiq" /\ routes[row.key].home /\ row.days >= 2

\* The numbers of a file are supported by what it cites for them: a confirmed number is
\* of a route whose carrier somebody else knows to operate it and was seen or listed by a
\* source that may confirm, no number is of both kinds, and each is stated by a source
\* that is cited for its kind, as every source cited states one of the route's numbers.
NumbersSupported ==
  stage = "done" =>
    \A key \in DOMAIN layer :
      LET of == layer[key] IN
      /\ of.confirmed # {} => ~routes[key].listed
      /\ of.confirmed \cap of.candidates = {}
      /\ \A n \in of.confirmed :
           \E source \in of.confirmedBy : \E row \in rows[source] :
             row.key = key /\ row.number = n /\ MayConfirm(source, row)
      /\ \A n \in of.candidates : \E source \in of.candidatesBy : n \in States(source, key)
      /\ \A source \in of.confirmedBy \cup of.candidatesBy :
           States(source, key) \cap Known(of) # {}

\* The sources with a number for a route, and those that only fill.
Speaks(key) ==
  {source \in (SourceSet \cup Sites) :
     /\ States(source, key) # {}
     /\ source \in Sites => key \notin Inputs[input].numbered}
Fillers(key) == {source \in Speaks(key) : Rank(source) > Len(Everywhere)}

\* The file follows from what is on disk, however the workers took turns and however
\* often a run was killed: a route has all numbers of the sources that speak of every
\* route, and if they have none, those of the first of the others that has any.
LayerReproducible ==
  stage = "done" =>
    \A key \in DOMAIN routes :
      LET everywhere == Speaks(key) \ Fillers(key)
          first == {s \in Fillers(key) : \A t \in Fillers(key) : Rank(s) <= Rank(t)}
          numbers == UNION {States(s, key) : s \in IF everywhere # {} THEN everywhere ELSE first}
      IN IF numbers = {} THEN key \notin DOMAIN layer
         ELSE key \in DOMAIN layer /\ Known(layer[key]) = numbers

NumbersAccounted == NumbersSupported /\ LayerReproducible
=============================================================================
