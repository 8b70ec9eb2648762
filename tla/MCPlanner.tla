----------------------------- MODULE MCPlanner -----------------------------
(***************************************************************************)
(* Instances of Planner for TLC, looked at twice (`focus`): `trips`, one   *)
(* group of up to three legs over three airports, and `history`, two       *)
(* groups of short trips with two entries of the session history and two   *)
(* pending events. The configuration gives the bounds of both together.    *)
(***************************************************************************)
EXTENDS Planner

CONSTANTS a1, a2, a3, p1

\* The links pasted: one with a product and one without.
TripLinks  == { Link(<< <<Leg(a1, a2)>> >>, p1),
                Link(<< <<Leg(a2, a1), Leg(a1, a2)>> >>, None) }
ShortLinks == { Link(<< <<Leg(a1, a2)>> >>, None),
                Link(<< <<Leg(a2, a1)>>, <<Leg(a1, a2)>> >>, None) }
MCLinks    == TripLinks \cup ShortLinks

VARIABLE focus

Trips == INSTANCE Planner WITH Links <- TripLinks,
                               MaxGroups <- 1, MaxHistory <- 1, MaxEvents <- 1
Short == INSTANCE Planner WITH Airports <- {a1, a2}, Products <- {}, Links <- ShortLinks,
                               MaxLegs <- 1

MCInit ==
  /\ focus \in {"trips", "history"}
  /\ IF focus = "trips" THEN Trips!Init ELSE Short!Init

MCNext ==
  /\ UNCHANGED focus
  /\ \/ focus = "trips" /\ Trips!Next
     \/ focus = "history" /\ Short!Next

MCSpec == MCInit /\ [][MCNext]_<<focus, vars>>
=============================================================================
