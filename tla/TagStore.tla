------------------------------- MODULE TagStore -------------------------------
(* The labels of the nodes as the webpage keeps them (data/index.html, embedded in
   ui.cpp): stored on the unit, mirrored in each open page, and moved there once
   from the browser's own storage, where an earlier version kept them. *)
EXTENDS FiniteSets

CONSTANTS
  Browsers,   \* browsers with the page open
  Macs, Labels

VARIABLES
  server,       \* the unit's tags: per MAC a label, or Blank
  tagStore,     \* per browser its mirror
  localStorage, \* per browser what the earlier version left, or Blank
  loading,      \* per browser "off", "asked", the MACs left to migrate, "open"
  saving,       \* per browser the setTag under way, or Nothing
  legacy,       \* what localStorage held at first
  lost          \* a request or its answer was lost while migrating

vars == <<server, tagStore, localStorage, loading, saving, legacy, lost>>

Blank == ""
Nothing == [mac |-> Blank, label |-> Blank]
Store == [Macs -> Labels \union {Blank}]
Empty == [m \in Macs |-> Blank]
Kept(s) == {m \in Macs : s[m] # Blank}

Off == [step |-> "off", todo |-> {}]
Asked == [step |-> "asked", todo |-> {}]
Migrating(ms) == [step |-> "migrating", todo |-> ms]
Opened == [step |-> "open", todo |-> {}]

Init ==
  /\ server \in Store /\ legacy \in [Browsers -> Store]
  /\ localStorage = legacy
  /\ tagStore = [b \in Browsers |-> Empty]
  /\ loading = [b \in Browsers |-> Off]
  /\ saving = [b \in Browsers |-> Nothing]
  /\ lost = {}

-----------------------------------------------------------------------------
(* loadServerTags *)

Load(b) ==
  /\ loading[b] \in {Off, Opened} /\ saving[b] = Nothing
  /\ loading' = [loading EXCEPT ![b] = Asked]
  /\ UNCHANGED <<server, tagStore, localStorage, saving, legacy, lost>>

\* The unit's labels replace the mirror; without any, the browser's are sent up.
Loaded(b) ==
  /\ loading[b] = Asked
  /\ tagStore' = [tagStore EXCEPT ![b] = server]
  /\ loading' = [loading EXCEPT ![b] =
       IF server = Empty /\ Kept(localStorage[b]) # {} THEN Migrating(Kept(localStorage[b])) ELSE Opened]
  /\ UNCHANGED <<server, localStorage, saving, legacy, lost>>

LoadFails(b) ==
  /\ loading[b] = Asked
  /\ tagStore' = [tagStore EXCEPT ![b] = localStorage[b]]
  /\ loading' = [loading EXCEPT ![b] = Opened]
  /\ UNCHANGED <<server, localStorage, saving, legacy, lost>>

\* One POST of the migration; a failure is passed over.
Migrate(b, m) ==
  /\ m \in loading[b].todo
  /\ loading' = [loading EXCEPT ![b].todo = @ \ {m}]
  /\ \/ /\ server' = [server EXCEPT ![m] = localStorage[b][m]]
        /\ tagStore' = [tagStore EXCEPT ![b][m] = localStorage[b][m]]
        /\ UNCHANGED lost
     \/ lost' = lost \union {m} /\ UNCHANGED <<server, tagStore>>
  /\ UNCHANGED <<localStorage, saving, legacy>>

\* localStorage.removeItem, however the requests went.
Dropped(b) == localStorage' = [localStorage EXCEPT ![b] = Empty]
\* Mutant: the old store is dropped before every label is sent.
MigrationEndsEarly(b) ==
  /\ loading[b].step = "migrating"
  /\ localStorage' = [localStorage EXCEPT ![b] = Empty]
  /\ loading' = [loading EXCEPT ![b] = Opened]
  /\ UNCHANGED <<server, tagStore, saving, legacy, lost>>

MigrationEnds(b) ==
  /\ loading[b] = Migrating({})
  /\ Dropped(b)
  /\ loading' = [loading EXCEPT ![b] = Opened]
  /\ UNCHANGED <<server, tagStore, saving, legacy, lost>>

-----------------------------------------------------------------------------
(* setTag: the unit first, the mirror when it has answered *)

SetTag(b) ==
  /\ loading[b] = Opened /\ saving[b] = Nothing
  /\ \E m \in Macs, l \in Labels \union {Blank} : saving' = [saving EXCEPT ![b] = [mac |-> m, label |-> l]]
  /\ UNCHANGED <<server, tagStore, localStorage, loading, legacy, lost>>

Mirrored(b, s) == tagStore' = [tagStore EXCEPT ![b][s.mac] = s.label]
TagSaved(b) ==
  LET s == saving[b] IN
  /\ s # Nothing
  /\ server' = [server EXCEPT ![s.mac] = s.label]
  /\ Mirrored(b, s)
  /\ saving' = [saving EXCEPT ![b] = Nothing]
  /\ legacy' = [c \in Browsers |-> [legacy[c] EXCEPT ![s.mac] = Blank]]
  /\ UNCHANGED <<localStorage, loading, lost>>
TagRefused(b) ==
  /\ saving[b] # Nothing
  /\ saving' = [saving EXCEPT ![b] = Nothing]
  /\ UNCHANGED <<server, tagStore, localStorage, loading, legacy, lost>>

Next ==
  \E b \in Browsers :
    \/ Load(b) \/ Loaded(b) \/ LoadFails(b) \/ MigrationEnds(b)
    \/ SetTag(b) \/ TagSaved(b) \/ TagRefused(b)
    \/ \E m \in Macs : Migrate(b, m)

Spec == Init /\ [][Next]_vars

-----------------------------------------------------------------------------
TypeOK ==
  /\ server \in Store /\ tagStore \in [Browsers -> Store]
  /\ localStorage \in [Browsers -> Store] /\ legacy \in [Browsers -> Store]
  /\ \A b \in Browsers : loading[b] \in {Off, Asked, Opened} \union {Migrating(ms) : ms \in SUBSET Macs}
  /\ saving \in [Browsers -> [mac : Macs, label : Labels \union {Blank}] \union {Nothing}]
  /\ lost \subseteq Macs

\* A label given under the earlier version is not dropped by the move: until the
\* user changes it, the browser still has it, or the unit has one for that node.
\* (A request of the migration that fails loses it.)
LegacyKept ==
  \A b \in Browsers, m \in Macs :
    legacy[b][m] # Blank => m \in lost \/ localStorage[b][m] # Blank \/ server[m] # Blank
=============================================================================
