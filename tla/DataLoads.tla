----------------------------- MODULE DataLoads -----------------------------
(***************************************************************************)
(* The hooks that load a page's data files: useLoadedData (planner),       *)
(* useRouteLibraryData (library), useRouteLibraryAdvancedData (advanced,   *)
(* which can be retried) and useLandingData (landing). Each fetches all    *)
(* its files at once and publishes one result. Files that a hook treats    *)
(* alike are one file here.                                                *)
(***************************************************************************)
EXTENDS Naturals, FiniteSets

CONSTANTS
  None,
  MaxLoads   \* bound: loads started by one hook

Hooks == {"planner", "library", "advanced", "landing"}

\* Files without which the hook reports an error.
Strict == [planner  |-> {"airports", "rules"},
           library  |-> {"airports", "counts"},
           advanced |-> {"official"},
           landing  |-> {"showcases"}]

\* Files whose absence or bad content disables what they are for.
Optional == [planner  |-> {"geo", "network", "counts", "program"},
             library  |-> {"geo", "preview"},
             advanced |-> {"schedules", "browse"},
             landing  |-> {}]

Files(h) == Strict[h] \cup Optional[h]

VARIABLES
  hook,      \* the hook this is
  mounted,
  attempt,   \* number of the load the effect started last
  loading,   \* attempts whose files have not all arrived
  load       \* the hook's state: [status, parts], and of which attempt it is

vars == <<hook, mounted, attempt, loading, load>>

State(status, parts, of, got) == [status |-> status, parts |-> parts, of |-> of, got |-> got]

Init ==
  /\ hook \in Hooks /\ mounted = FALSE /\ attempt = 0 /\ loading = {}
  /\ load = State("loading", {}, 0, None)

\* Mounting runs the effect: a new load, none of the earlier ones counts.
Mount ==
  /\ ~mounted /\ attempt < MaxLoads
  /\ mounted' = TRUE /\ attempt' = attempt + 1 /\ loading' = loading \cup {attempt + 1}
  /\ load' = State("loading", {}, attempt + 1, None)
  /\ UNCHANGED hook

Unmount ==
  /\ mounted /\ mounted' = FALSE
  /\ UNCHANGED <<hook, attempt, loading, load>>

\* `retry`: back to loading, and the effect runs again.
Retry ==
  /\ hook = "advanced" /\ mounted /\ attempt < MaxLoads
  /\ attempt' = attempt + 1 /\ loading' = loading \cup {attempt + 1}
  /\ load' = State("loading", {}, attempt + 1, None)
  /\ UNCHANGED <<hook, mounted>>

\* The effect's cleanup has run.
Cancelled(a) == ~mounted \/ a # attempt

\* What is published of the optional files. The planner's route counts are
\* those of its route network, and are dropped with it.
Parts(h, got) ==
  {f \in Optional[h] : got[f] = "good" /\ (h = "planner" /\ f = "counts" => got["network"] = "good")}

\* All files have arrived, or a strict one has failed.
Arrive(a, got) ==
  /\ a \in loading
  /\ loading' = loading \ {a}
  /\ load' = IF Cancelled(a) THEN load
             ELSE IF \A f \in Strict[hook] : got[f] = "good"
                  THEN State("ready", Parts(hook, got), a, got)
                  ELSE State("error", {}, a, got)
  /\ UNCHANGED <<hook, mounted, attempt>>

Next ==
  \/ Mount \/ Unmount \/ Retry
  \/ \E a \in loading, got \in [Files(hook) -> {"good", "bad"}] : Arrive(a, got)

Spec == Init /\ [][Next]_vars
-----------------------------------------------------------------------------
\* Type invariant.
TypeOK ==
  /\ hook \in Hooks /\ mounted \in BOOLEAN /\ attempt \in 0..MaxLoads
  /\ loading \subseteq 1..MaxLoads
  /\ load.status \in {"loading", "ready", "error"} /\ load.parts \subseteq Files(hook)

\* What a mounted hook shows is of its latest load, however late an earlier one
\* ends, and while it shows loading that load is still on its way: a page
\* neither flips back to old data nor waits for nothing.
LatestLoadOnly ==
  mounted => /\ load.of = attempt
             /\ load.status = "loading" <=> attempt \in loading

\* A bad optional file costs what it is for and nothing else: an error always
\* comes from a strict file, and no part is shown that rests on a missing one.
OptionalFilesDegrade ==
  /\ load.status = "error" => \E f \in Strict[hook] : load.got[f] # "good"
  /\ load.status = "ready" => \A f \in load.parts :
       load.got[f] = "good" /\ (f = "counts" => load.got["network"] = "good")
=============================================================================
