-------------------------- MODULE RouteCollection --------------------------
(***************************************************************************)
(* The collector of observed routes (scripts/collect-global-routes.ts):    *)
(* workers share a cursor over the airports, take each airport's answer    *)
(* from a cache of one file per airport or fetch and cache it, and write a *)
(* catalogue when the scan is complete. It may be killed and started       *)
(* again; writeFileSync is not atomic, so a kill or a full disk tears the  *)
(* file being written.                                                     *)
(***************************************************************************)
EXTENDS Naturals, FiniteSets

CONSTANTS
  Universe,  \* number of airports, scanned in order
  Workers,
  None

VARIABLES
  files,     \* files[o]: None, "good", "bad" (an answer normalizeLiveRoutes refuses) or "torn"
  process,   \* None, or the options the running process was started with
  cursor,    \* airports taken
  fetching,  \* fetching[w]: the airport whose answer w awaits, or None
  records,   \* records[o]: what this run has of o, or None
  failures,  \* airports this run failed at
  output     \* the catalogue's file: what it was built from, or None: absent or torn

vars == <<files, process, cursor, fetching, records, failures, output>>

CollectionAssumption ==
  Universe \in Nat /\ None \notin Nat /\ None \notin {"good", "bad", "torn"}

Origins == 1..Universe
Nothing == [o \in Origins |-> None]
Idle == [w \in Workers |-> None]

Init ==
  /\ files = Nothing /\ process = None /\ cursor = 0 /\ fetching = Idle
  /\ records = Nothing /\ failures = {} /\ output = None

\* --fetch, --allow-partial-output, --max-origins
Start(fetch, partial, max) ==
  /\ process = None
  /\ process' = [fetch |-> fetch, partial |-> partial, max |-> max]
  /\ cursor' = 0 /\ fetching' = Idle /\ records' = Nothing /\ failures' = {}
  /\ UNCHANGED <<files, output>>

Exit == process' = None /\ cursor' = 0 /\ fetching' = Idle /\ records' = Nothing /\ failures' = {}

Running == process # None
Free(w) == Running /\ fetching[w] = None /\ cursor < process.max
Origin == cursor + 1  \* the airport at the cursor

\* A file that does not parse makes loadCached throw, outside the worker's try:
\* the process ends, whatever the other workers are fetching.
TakeTorn(w) ==
  /\ Free(w) /\ files[Origin] = "torn"
  /\ Exit
  /\ UNCHANGED <<files, output>>

TakeCached(w) ==
  /\ Free(w) /\ files[Origin] \in {"good", "bad"}
  /\ records' = [records EXCEPT ![Origin] = files[Origin]]
  /\ cursor' = Origin
  /\ UNCHANGED <<files, process, fetching, failures, output>>

TakeUncached(w) ==
  /\ Free(w) /\ files[Origin] = None
  /\ cursor' = Origin
  /\ fetching' = [fetching EXCEPT ![w] = IF process.fetch THEN Origin ELSE None]
  /\ UNCHANGED <<files, process, records, failures, output>>

Answered(w, answer, file) ==
  /\ fetching[w] # None
  /\ records' = [records EXCEPT ![fetching[w]] = answer]
  /\ files' = [files EXCEPT ![fetching[w]] = file]
  /\ fetching' = [fetching EXCEPT ![w] = None]
  /\ UNCHANGED <<process, cursor, output>>

Fetched(w, answer) == Answered(w, answer, answer) /\ UNCHANGED failures

\* The record is set before the file is written: a write that fails leaves the
\* airport among the records and among the failures.
WriteFails(w, answer, file) ==
  /\ Answered(w, answer, file)
  /\ failures' = failures \cup {fetching[w]}

FetchFails(w) ==
  /\ fetching[w] # None
  /\ failures' = failures \cup {fetching[w]}
  /\ fetching' = [fetching EXCEPT ![w] = None]
  /\ UNCHANGED <<files, process, cursor, records, output>>

Complete == (\A o \in Origins : records[o] # None) /\ failures = {}

Scanned == Running /\ cursor = process.max /\ fetching = Idle

\* An answer that cannot be normalized, or no record at all, throws.
Normalizes ==
  /\ \A o \in Origins : records[o] # "bad"
  /\ records # Nothing

\* Nothing is written of an incomplete scan, unless asked for.
EndWithout ==
  /\ Scanned /\ ~(Normalizes /\ (Complete \/ process.partial))
  /\ Exit
  /\ UNCHANGED <<files, output>>

WriteOutput ==
  /\ Scanned /\ Normalizes /\ (Complete \/ process.partial)
  /\ \/ output' = [partial |-> process.partial, records |-> records]
     \/ output' = None
  /\ Exit
  /\ UNCHANGED files

\* Killed: while a file is written it is torn.
Kill ==
  /\ Running
  /\ Exit
  /\ \/ UNCHANGED files
     \/ \E w \in Workers : fetching[w] # None /\ files' = [files EXCEPT ![fetching[w]] = "torn"]
  /\ UNCHANGED output

Next ==
  \/ \E fetch, partial \in BOOLEAN, max \in Origins : Start(fetch, partial, max)
  \/ \E w \in Workers :
       \/ TakeTorn(w) \/ TakeCached(w) \/ TakeUncached(w) \/ FetchFails(w)
       \/ \E answer \in {"good", "bad"} :
            Fetched(w, answer) \/ \E file \in {None, "torn"} : WriteFails(w, answer, file)
  \/ EndWithout \/ WriteOutput \/ Kill

Spec == Init /\ [][Next]_vars
-----------------------------------------------------------------------------
(***************************************************************************)
(* Properties.                                                             *)
(***************************************************************************)
\* Type invariant; one airport is never fetched twice at a time.
TypeOK ==
  /\ cursor \in 0..Universe /\ failures \subseteq Origins
  /\ \A o \in Origins : files[o] \in {None, "good", "bad", "torn"}
                        /\ records[o] \in {None, "good", "bad"}
  /\ \A v, w \in Workers : fetching[v] # None /\ fetching[v] = fetching[w] => v = w

\* A catalogue written without --allow-partial-output can be built again from
\* the cache: every airport has a whole file there, the one it was built from,
\* over any number of failed, killed and repeated runs.
OutputReproducible ==
  output # None => (output.partial \/ output.records = files)
=============================================================================
