--------------------------- MODULE SavedRoutings ---------------------------
(***************************************************************************)
(* The saved routings of src/state/use-saved-routings.ts: every tab keeps  *)
(* a list of its own, all tabs share one key of localStorage, and a write  *)
(* by one tab reaches the others as a storage event, later.                *)
(***************************************************************************)
EXTENDS Naturals, Sequences, FiniteSets

CONSTANTS
  Tabs,       \* tabs of one browser
  Names,      \* names a user saves routings under
  Urls,       \* the share links saved
  MaxEvents   \* bound: storage events on their way to one tab

VARIABLES
  store,      \* the list in localStorage
  tabs,       \* tabs[t]: closed, mounting (list read, no listener yet) or listening
  shown,      \* shown[t]: the state `saved`
  lastError,  \* lastError[t]: the last save failed and the tab says so
  events,     \* events[t]: storage events not yet delivered
  unremoved,  \* history: names whose removal t shows although its write failed
  missed      \* history: an event came before t had its listener

vars == <<store, tabs, shown, lastError, events, unremoved, missed>>

Routings == [name : Names, url : Urls]

\* list.filter(r => r.name !== name): what is kept stands in the order it stood in.
Kept(list, removed) == {i \in DOMAIN list : list[i].name \notin removed}

Rank(positions, i) == Cardinality({j \in positions : j <= i})

Without(list, removed) ==
  LET kept == Kept(list, removed) IN
  [n \in 1..Cardinality(kept) |-> list[CHOOSE i \in kept : Rank(kept, i) = n]]

Init ==
  /\ store = << >>
  /\ tabs = [t \in Tabs |-> "closed"]
  /\ shown = [t \in Tabs |-> << >>]
  /\ lastError = [t \in Tabs |-> FALSE]
  /\ events = [t \in Tabs |-> 0]
  /\ unremoved = [t \in Tabs |-> {}]
  /\ missed = [t \in Tabs |-> FALSE]

\* The hook's first render reads the store; the listener comes with its effects.
Open(t) ==
  /\ tabs[t] = "closed"
  /\ tabs' = [tabs EXCEPT ![t] = "mounting"]
  /\ shown' = [shown EXCEPT ![t] = store]
  /\ UNCHANGED <<store, lastError, events, unremoved, missed>>

Listen(t) ==
  /\ tabs[t] = "mounting"
  /\ tabs' = [tabs EXCEPT ![t] = "listening"]
  /\ UNCHANGED <<store, shown, lastError, events, unremoved, missed>>

Close(t) ==
  /\ tabs[t] # "closed"
  /\ tabs' = [tabs EXCEPT ![t] = "closed"]
  /\ shown' = [shown EXCEPT ![t] = << >>]
  /\ lastError' = [lastError EXCEPT ![t] = FALSE]
  /\ events' = [events EXCEPT ![t] = 0]
  /\ unremoved' = [unremoved EXCEPT ![t] = {}]
  /\ missed' = [missed EXCEPT ![t] = FALSE]
  /\ UNCHANGED store

\* localStorage.setItem succeeds; browsers tell the other tabs of this key.
Write(t, list) ==
  /\ store' = list
  /\ events' = [o \in Tabs |-> IF o # t /\ tabs[o] # "closed"
                               THEN events[o] + 1 ELSE events[o]]
  /\ \A o \in Tabs : events'[o] <= MaxEvents
  /\ unremoved' = [unremoved EXCEPT ![t] = {}]
  /\ missed' = [missed EXCEPT ![t] = FALSE]

\* A failed write leaves the list as it was.
AfterFailedSave(t, next) == shown[t]

Save(t, r) ==
  LET next == <<r>> \o Without(shown[t], {r.name}) IN
  /\ tabs[t] = "listening"
  /\ \/ /\ Write(t, next)
        /\ shown' = [shown EXCEPT ![t] = next]
        /\ lastError' = [lastError EXCEPT ![t] = FALSE]
     \/ /\ shown' = [shown EXCEPT ![t] = AfterFailedSave(t, next)]
        /\ lastError' = [lastError EXCEPT ![t] = TRUE]
        /\ UNCHANGED <<store, events, unremoved, missed>>
  /\ UNCHANGED tabs

\* `remove` does not look at what writeAll returns.
Remove(t, n) ==
  LET next == Without(shown[t], {n}) IN
  /\ tabs[t] = "listening"
  /\ \E r \in Routings : r.name = n /\ r \in {shown[t][i] : i \in DOMAIN shown[t]}
  /\ shown' = [shown EXCEPT ![t] = next]
  /\ \/ Write(t, next)
     \/ /\ unremoved' = [unremoved EXCEPT ![t] = @ \cup {n}]
        /\ UNCHANGED <<store, events, missed>>
  /\ UNCHANGED <<tabs, lastError>>

\* onStorage re-reads the store; before the listener is there nothing runs.
Deliver(t) ==
  /\ events[t] > 0
  /\ events' = [events EXCEPT ![t] = @ - 1]
  /\ IF tabs[t] = "listening"
     THEN /\ shown' = [shown EXCEPT ![t] = store]
          /\ unremoved' = [unremoved EXCEPT ![t] = {}]
          /\ missed' = [missed EXCEPT ![t] = FALSE]
     ELSE /\ missed' = [missed EXCEPT ![t] = TRUE]
          /\ UNCHANGED <<shown, unremoved>>
  /\ UNCHANGED <<store, tabs, lastError>>

Next == \E t \in Tabs :
  \/ Open(t)
  \/ Listen(t)
  \/ Close(t)
  \/ \E r \in Routings : Save(t, r)
  \/ \E n \in Names : Remove(t, n)
  \/ Deliver(t)

Spec == Init /\ [][Next]_vars
-----------------------------------------------------------------------------
(***************************************************************************)
(* Properties.                                                             *)
(***************************************************************************)
\* Type invariant of the hook's state and of the shared key.
TypeOK ==
  /\ store \in Seq(Routings)
  /\ tabs \in [Tabs -> {"closed", "mounting", "listening"}]
  /\ shown \in [Tabs -> Seq(Routings)]
  /\ lastError \in [Tabs -> BOOLEAN]
  /\ events \in [Tabs -> 0..MaxEvents]
  /\ unremoved \in [Tabs -> SUBSET Names]
  /\ missed \in [Tabs -> BOOLEAN]

\* A tab with no event on its way shows the store, less the removals whose
\* write failed: whichever of two racing saves lost, its tab has seen it go
\* (use-saved-routings.ts save, remove, onStorage). The one exception is a tab
\* that an event reached between its first read and its listener.
QuietTabsAgree ==
  \A t \in Tabs : tabs[t] = "listening" /\ events[t] = 0 /\ ~missed[t]
    => shown[t] = Without(store, unremoved[t])
=============================================================================
