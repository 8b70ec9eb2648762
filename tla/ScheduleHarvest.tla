-------------------------- MODULE ScheduleHarvest --------------------------
(***************************************************************************)
(* The harvester of one carrier's timetable                                *)
(* (scripts/harvest-jx-schedules.mjs): it asks a throttling service for    *)
(* one airport pair after the other, keeps every body it gets on file, and *)
(* ends with a list of schedule entries, an index of the evidence and, if  *)
(* told to, a merge into the reviewed catalogue. It is killed and run      *)
(* again, and then resumes from the bodies on file.                        *)
(*                                                                         *)
(* A body is a timetable with passenger dates ("flights"), one whose dates *)
(* are all cargo ("cargo"), an empty one, or no timetable at all ("broken",*)
(* which a write that is cut off leaves too).                              *)
(***************************************************************************)
EXTENDS Naturals, FiniteSets

CONSTANTS
  PairCount,    \* ordered airport pairs, numbered in the order they are asked for
  MaxAttempts,  \* requests for one body (8)
  MaxErrors,    \* network errors that end them (3)
  None

VARIABLES
  files,    \* files[p][d]: the body on file for a pair and a query date, or None
  run,      \* None, or the options of the process: [last, merge]
  at,       \* where it is: [pair, date]; past the last pair it writes its results
  request,  \* None, or the request that is out: [attempt, errors]
  found,    \* found[p]: what the run has recorded of p: [result, date], or None
  entries,  \* file of the schedule entries: {[pair, date]}, or None: absent or cut off
  index,    \* evidence index: [last, found] of the run that wrote it, or None likewise
  catalog   \* rows [carrier, pair, date] (date None: from before), or None when cut off

vars == <<files, run, at, request, found, entries, index, catalog>>

Pairs == 1..PairCount
Query == 1  \* args.date
Retry == 2  \* args.date + 14 days
Bodies == {"flights", "cargo", "empty", "broken"}
Negatives == {"empty", "malformed-response", "throttled", "http-error"}

Outcomes == Negatives \cup {"flights", "cargo-only"}

HarvestAssumption ==
  PairCount \in Nat /\ None \notin [result : Outcomes, date : {Query, Retry}]

Row(carrier, p, d) == [carrier |-> carrier, pair |-> p, date |-> d]
Before == {Row("CI", 1, None)} \cup {Row("JX", p, None) : p \in Pairs}

NothingFound == [p \in Pairs |-> None]
Start == [pair |-> 1, date |-> Query]

Init ==
  /\ files = [p \in Pairs |-> [d \in {Query, Retry} |-> None]]
  /\ run = None /\ at = Start /\ request = None /\ found = NothingFound
  /\ entries = None /\ index = None
  /\ catalog = Before

\* --pairs (the first ones), --merge
Launch(last, merge) ==
  /\ run = None
  /\ run' = [last |-> last, merge |-> merge]
  /\ UNCHANGED <<files, at, request, found, entries, index, catalog>>

Exit == run' = None /\ at' = Start /\ request' = None /\ found' = NothingFound

-----------------------------------------------------------------------------
(***************************************************************************)
(* One pair.                                                               *)
(***************************************************************************)
Asking == run # None /\ at.pair <= run.last
OnFile == files[at.pair][at.date]

\* isValidTimetableBody: what may be used again.
Reusable(body) == body \in {"flights", "cargo", "empty"}

\* parseTimetable and deriveEntry: what a body says of the pair.
Parsed(body) == body

NextPair == at' = [pair |-> at.pair + 1, date |-> Query]

Record(result) ==
  /\ found' = [found EXCEPT ![at.pair] = [result |-> result, date |-> at.date]]
  /\ NextPair

\* An empty answer is asked for once more, two weeks later, before the pair is
\* recorded as not flown. A pair that has only cargo then is not recorded at all.
Take(body) ==
  CASE Parsed(body) = "broken"  -> Record("malformed-response")
    [] Parsed(body) = "flights" -> Record("flights")
    [] Parsed(body) = "empty" /\ at.date = Query ->
         at' = [at EXCEPT !.date = Retry] /\ UNCHANGED found
    [] Parsed(body) = "empty" /\ at.date = Retry -> Record("empty")
    [] Parsed(body) = "cargo" /\ at.date = Query -> Record("cargo-only")
    [] OTHER -> NextPair /\ UNCHANGED found

Resume ==
  /\ Asking /\ request = None /\ Reusable(OnFile)
  /\ Take(OnFile)
  /\ UNCHANGED <<files, run, request, entries, index, catalog>>

Ask ==
  /\ Asking /\ request = None /\ ~Reusable(OnFile)
  /\ request' = [attempt |-> 1, errors |-> 0]
  /\ UNCHANGED <<files, run, at, found, entries, index, catalog>>

\* (Fault: a body is filed under the later date.)
KeptAstray(body) == [files EXCEPT ![at.pair][Retry] = body]
Kept(body) == [files EXCEPT ![at.pair][at.date] = body]

\* Any body but a throttling one is kept, whatever its HTTP status.
Answered(body) ==
  /\ request # None
  /\ request' = None
  /\ files' = Kept(body)
  /\ Take(body)
  /\ UNCHANGED <<run, entries, index, catalog>>

\* Too Many Attempts, or no answer within 30 s: the request is made again after a
\* pause that grows, until one of the limits is met.
Unanswered(throttled) ==
  LET errors == request.errors + (IF throttled THEN 0 ELSE 1)
      again  == request.attempt < MaxAttempts /\ (throttled \/ errors < MaxErrors)
  IN /\ request # None
     /\ IF again
        THEN /\ request' = [attempt |-> request.attempt + 1, errors |-> errors]
             /\ UNCHANGED <<at, found>>
        ELSE /\ request' = None
             /\ Record(IF ~throttled /\ errors = MaxErrors THEN "http-error" ELSE "throttled")
     /\ UNCHANGED <<files, run, entries, index, catalog>>

-----------------------------------------------------------------------------
(***************************************************************************)
(* The end of a run: three files, one after the other.                     *)
(***************************************************************************)
Results == {[pair |-> p, date |-> found[p].date] :
              p \in {q \in Pairs : found[q] # None /\ found[q].result = "flights"}}

Writing(n) == run # None /\ at.pair = run.last + n

WriteEntries ==
  /\ Writing(1)
  /\ entries' = Results
  /\ NextPair
  /\ UNCHANGED <<files, run, request, found, index, catalog>>

WriteIndex ==
  /\ Writing(2)
  /\ index' = [last |-> run.last, found |-> found]
  /\ NextPair
  /\ UNCHANGED <<files, run, request, found, entries, catalog>>

Superseded(row) == row.carrier = "JX" /\ \E e \in Results : e.pair = row.pair

Merged == {row \in catalog : ~Superseded(row)} \cup {Row("JX", e.pair, e.date) : e \in Results}

\* Without entries the catalogue is left alone; one that was cut off does not
\* parse, and stays as it is.
Finish ==
  /\ Writing(3)
  /\ catalog' = IF run.merge /\ Results # {} /\ catalog # None THEN Merged ELSE catalog
  /\ Exit
  /\ UNCHANGED <<files, entries, index>>

\* Killed, or a write fails, which ends the process too. The file being written is
\* cut off.
Kill ==
  /\ run # None
  /\ Exit
  /\ \/ UNCHANGED <<files, entries, index, catalog>>
     \/ /\ request # None
        /\ files' = Kept("broken")
        /\ UNCHANGED <<entries, index, catalog>>
     \/ Writing(1) /\ entries' = None /\ UNCHANGED <<files, index, catalog>>
     \/ Writing(2) /\ index' = None /\ UNCHANGED <<files, entries, catalog>>
     \/ /\ Writing(3) /\ run.merge /\ Results # {} /\ catalog' = None
        /\ UNCHANGED <<files, entries, index>>

Next ==
  \/ \E last \in Pairs, merge \in BOOLEAN : Launch(last, merge)
  \/ Resume \/ Ask
  \/ \E body \in Bodies : Answered(body)
  \/ \E throttled \in BOOLEAN : Unanswered(throttled)
  \/ WriteEntries \/ WriteIndex \/ Finish \/ Kill

Spec == Init /\ [][Next]_vars
-----------------------------------------------------------------------------
(***************************************************************************)
(* Properties.                                                             *)
(***************************************************************************)
\* Type invariant.
TypeOK ==
  /\ \A p \in Pairs, d \in {Query, Retry} : files[p][d] \in Bodies \cup {None}
  /\ \A p \in Pairs : found[p] # None =>
       found[p].result \in Outcomes
  /\ request # None => request.attempt \in 1..MaxAttempts /\ request.errors \in 0..MaxErrors - 1
  /\ run = None => request = None /\ found = NothingFound

\* "Every raw response body is cached verbatim ... as evidence" (22-24): whatever
\* was killed and resumed, each entry that was written, and each row of the
\* catalogue that was harvested, has its timetable on file.
EvidenceOnFile ==
  /\ entries # None => \A e \in entries : files[e.pair][e.date] = "flights"
  /\ catalog # None => \A row \in catalog :
       row.date # None => files[row.pair][row.date] = "flights"

\* "Empty timetable => route not flown => recorded in the evidence index as a
\* negative" after one retry (ruling 7): the index says so of a pair only when
\* both answers were empty timetables, and no failure passes for one.
NotFlownIsProven ==
  index # None => \A p \in 1..index.last :
    index.found[p] # None /\ index.found[p].result = "empty" =>
      files[p][Query] = "empty" /\ files[p][Retry] = "empty"

\* The index accounts for every pair that was asked for, but for those that had
\* only cargo at the second attempt.
EveryPairRecorded ==
  index # None => \A p \in 1..index.last :
    index.found[p] = None => files[p][Query] = "empty" /\ files[p][Retry] = "cargo"

\* "Same-carrier+pair rows are SUPERSEDED, others preserved as-is" (--merge): the
\* catalogue has one row for each pair, over all runs, and the others' rows.
CatalogKept ==
  catalog # None =>
    /\ Row("CI", 1, None) \in catalog
    /\ \A p \in Pairs : Cardinality({row \in catalog : row.carrier = "JX" /\ row.pair = p}) = 1

\* What the harvester says of a pair is what is on file, and it says it of all.
HarvestAccounts == EvidenceOnFile /\ NotFlownIsProven /\ EveryPairRecorded /\ CatalogKept
=============================================================================
