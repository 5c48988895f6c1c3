------------------------------ MODULE NodesList ------------------------------
(* The Nodes page of the webpage (data/index.html, embedded in ui.cpp): the list
   with its search field, the selection, and the bulk operations on it.  A render
   waits for the registry, so several are under way at once, and a bulk
   operation goes on while the list is rendered again or left. *)
EXTENDS Integers, FiniteSets

CONSTANTS
  Macs,        \* nodes, numbered in the order of the list
  Dmx,         \* those with ports (compatible, no masterMIDI)
  MaxRenders,  \* registry requests under way at once
  MaxTyped,    \* changes of the search field
  TopNet, TopSubnet, TopUniverse, \* 127, 15, 15
  StartAt      \* the address the user enters, as a number

VARIABLES
  open,        \* currentPage is "nodes"
  renders,     \* renders waiting for GET /api/nodes
  field,       \* the text of #nodeSearch, or Gone when the page has none
  typed,       \* the texts the field may show: the last typed, and none once cleared
  changes,     \* how often it was changed
  searchQuery,
  cachedNodes,
  rows,        \* the rows shown
  selectedMacs,
  job,         \* the bulk operation under way
  walk,        \* net, subnet, universe of its next port
  address,     \* per node and port the address it was last given by the operation, or Old
  acted,       \* nodes the operation has acted on
  meant        \* the selection when it was started

page == <<open, renders, field, typed, changes, searchQuery, rows>>
bulk == <<job, walk, address, acted, meant>>
vars == <<page, cachedNodes, selectedMacs, bulk>>

Gone == -1
Blank == 0
Idle == [kind |-> "none", todo |-> {}, step |-> "none"]
Ports == Macs \X {"A", "B"}
Old == [net |-> -1, subnet |-> 0, universe |-> 0]

Sizes ==
  /\ Macs \subseteq Nat \ {0} /\ Dmx \subseteq Macs /\ IsFiniteSet(Dmx)
  /\ TopNet \in Nat /\ TopSubnet \in Nat /\ TopUniverse \in Nat /\ StartAt \in Nat
  /\ 2 * Cardinality(Dmx) <= (TopNet + 1) * (TopSubnet + 1) * (TopUniverse + 1)

\* nodeMatchesSearch: the empty query matches everything; a node matches its own.
Matches(m, q) == q = Blank \/ q = m

Init ==
  /\ open = TRUE /\ renders = 1 /\ field = Gone /\ typed = {Blank} /\ changes = 0
  /\ searchQuery = Blank /\ cachedNodes = {} /\ rows = {} /\ selectedMacs = {}
  /\ job = Idle /\ address = [p \in Ports |-> Old]
  /\ walk = Old /\ acted = {} /\ meant = {}

-----------------------------------------------------------------------------
(* renderNodes *)

Asked == IF open /\ renders < MaxRenders THEN renders + 1 ELSE renders

\* The 5 s poll tick
Tick ==
  /\ open /\ renders < MaxRenders /\ renders' = renders + 1
  /\ UNCHANGED <<open, field, typed, changes, searchQuery, rows, cachedNodes, selectedMacs, bulk>>

\* The registry answers; the field that is there decides the query, and is
\* built again with it.
RegistryAnswers(list) ==
  LET q == IF field = Gone THEN searchQuery ELSE field IN
  /\ open /\ renders > 0 /\ renders' = renders - 1
  /\ searchQuery' = q /\ field' = q
  /\ cachedNodes' = list
  /\ rows' = {m \in list : Matches(m, q)}
  /\ UNCHANGED <<open, typed, changes, selectedMacs, bulk>>

RegistryFails ==
  /\ open /\ renders > 0 /\ renders' = renders - 1
  /\ field' = Gone /\ rows' = {}
  /\ UNCHANGED <<open, typed, changes, searchQuery, cachedNodes, selectedMacs, bulk>>

\* An answer that finds another page open.
AnswerDropped ==
  /\ ~open /\ renders > 0 /\ renders' = renders - 1
  /\ UNCHANGED <<open, field, typed, changes, searchQuery, rows, cachedNodes, selectedMacs, bulk>>

Types(q) ==
  /\ field # Gone /\ q # field /\ changes < MaxTyped /\ renders < MaxRenders
  /\ field' = q /\ typed' = {q} /\ changes' = changes + 1
  /\ searchQuery' = q /\ renders' = Asked
  /\ UNCHANGED <<open, rows, cachedNodes, selectedMacs, bulk>>

\* The Clear button empties searchQuery, not the field.
ClearSearch ==
  /\ field # Gone /\ searchQuery # Blank /\ renders < MaxRenders
  /\ searchQuery' = Blank /\ renders' = Asked /\ typed' = typed \union {Blank}
  /\ UNCHANGED <<open, field, changes, rows, cachedNodes, selectedMacs, bulk>>

Leaves ==
  /\ open /\ open' = FALSE /\ field' = Gone /\ rows' = {}
  /\ UNCHANGED <<renders, typed, changes, searchQuery, cachedNodes, selectedMacs, bulk>>
Returns ==
  /\ ~open /\ renders < MaxRenders
  /\ open' = TRUE /\ renders' = renders + 1
  /\ UNCHANGED <<field, typed, changes, searchQuery, rows, cachedNodes, selectedMacs, bulk>>

ToggleRow(m) ==
  /\ m \in rows
  /\ selectedMacs' = IF m \in selectedMacs THEN selectedMacs \ {m} ELSE selectedMacs \union {m}
  /\ UNCHANGED <<page, cachedNodes, bulk>>

ClearSelection ==
  /\ open /\ selectedMacs # {} /\ renders < MaxRenders
  /\ selectedMacs' = {} /\ renders' = Asked
  /\ UNCHANGED <<open, field, typed, changes, searchQuery, rows, cachedNodes, bulk>>

-----------------------------------------------------------------------------
(* Bulk operations: one after the other through the targets taken at the click *)

selectedNodes == cachedNodes \intersect selectedMacs

Begins(kind, todo) ==
  /\ open /\ job = Idle /\ todo # {}
  /\ job' = [kind |-> kind, todo |-> todo, step |-> "get"]
  /\ meant' = selectedMacs /\ acted' = {}
  /\ UNCHANGED <<page, cachedNodes, selectedMacs>>

BulkReboot == Begins("reboot", selectedNodes \X {"A"}) /\ UNCHANGED <<walk, address>>
BulkTag == Begins("tag", selectedNodes \X {"A"}) /\ UNCHANGED <<walk, address>>

Entered(k) ==
  [universe |-> k % (TopUniverse + 1), subnet |-> (k \div (TopUniverse + 1)) % (TopSubnet + 1),
   net |-> k \div ((TopUniverse + 1) * (TopSubnet + 1))]
BulkUniverses ==
  /\ Begins("universes", (selectedNodes \intersect Dmx) \X {"A", "B"})
  /\ walk' = Entered(StartAt)
  /\ address' = [p \in Ports |-> Old]

\* Port A and then B of the nodes in the order of the list.
First(todo) ==
  CHOOSE p \in todo : \A q \in todo \ {p} : p[1] < q[1] \/ (p[1] = q[1] /\ p[2] = "A")

\* Mutant: the subnet does not follow when the universe wraps.
AdvanceNoCarry(w) ==
  [w EXCEPT !.universe = IF w.universe + 1 > TopUniverse THEN 0 ELSE w.universe + 1]

Advance(w) ==
  LET u == w.universe + 1
      s == IF u > TopUniverse THEN w.subnet + 1 ELSE w.subnet
      n == IF s > TopSubnet THEN w.net + 1 ELSE w.net
  IN  [universe |-> IF u > TopUniverse THEN 0 ELSE u,
       subnet |-> IF s > TopSubnet THEN 0 ELSE s,
       net |-> IF n > TopNet THEN 0 ELSE n]

\* A target is done with; after the last the list is rendered again, and after a
\* reboot the selection is cleared.
Done ==
  LET rest == job.todo \ {First(job.todo)} IN
  /\ job' = IF rest = {} THEN Idle ELSE [job EXCEPT !.todo = rest, !.step = "get"]
  /\ renders' = IF rest = {} THEN Asked ELSE renders
  /\ selectedMacs' = IF rest = {} /\ job.kind = "reboot" THEN {} ELSE selectedMacs
  /\ walk' = IF job.kind = "universes" THEN Advance(walk) ELSE walk
  /\ UNCHANGED <<open, field, typed, changes, searchQuery, rows, cachedNodes, meant>>

PortRead ==
  /\ job.kind = "universes" /\ job.step = "get"
  /\ job' = [job EXCEPT !.step = "post"]
  /\ UNCHANGED <<page, cachedNodes, selectedMacs, walk, address, acted, meant>>

TargetDone ==
  /\ job # Idle /\ (job.kind = "universes" => job.step = "post")
  /\ acted' = acted \union {First(job.todo)[1]}
  /\ address' = IF job.kind = "universes" THEN [address EXCEPT ![First(job.todo)] = walk]
                                          ELSE address
  /\ Done

\* No answer: counted as failed, and the address is passed over all the same.
TargetFails ==
  /\ job # Idle
  /\ UNCHANGED <<address, acted>>
  /\ Done

Next ==
  \/ Tick \/ RegistryFails \/ AnswerDropped \/ ClearSearch \/ Leaves \/ Returns \/ ClearSelection
  \/ \E list \in SUBSET Macs : RegistryAnswers(list)
  \/ \E q \in Macs \union {Blank} : Types(q)
  \/ \E m \in Macs : ToggleRow(m)
  \/ BulkReboot \/ BulkTag \/ BulkUniverses \/ PortRead \/ TargetDone \/ TargetFails

Spec == Init /\ [][Next]_vars

-----------------------------------------------------------------------------
(* Renders of the poll, of earlier letters and of bulk operations never change
   what the user has typed ("so the 5-second poll tick doesn't yank the cursor
   mid-query"). *)
TypingKept == field # Gone => field \in typed

(* A bulk operation acts only on nodes that were selected when it was started,
   whatever is rendered, searched or selected meanwhile, and two ports it has set
   never have the same address. *)
BulkRight ==
  /\ acted \subseteq meant
  /\ \A p, q \in Ports : p # q /\ address[p] # Old => address[p] # address[q]

(* After Clear the next list is the whole one.  It is not: the render reads the
   text that is still in the field. *)
ClearClears == [][renders' < renders /\ rows' # {} /\ searchQuery = Blank => searchQuery' = Blank]_vars
=============================================================================
