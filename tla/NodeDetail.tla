------------------------------ MODULE NodeDetail ------------------------------
(* A node's page in the webpage (data/index.html, embedded in ui.cpp): one visit
   runs renderNodeDetail, which reads the registry, the node's identity and then
   its network and port settings, one request after the other, and wires forms
   and buttons as it goes.  A visit is not cancelled when the user opens another
   node: after each answer it only tests that some node's page is open, and finds
   the forms and buttons to wire by their ids. *)
EXTENDS Naturals, FiniteSets

CONSTANTS
  Nodes,      \* the nodes the user opens
  Editable,   \* those that are compatible and online: they have forms and buttons
  MaxVisits   \* pages opened in one run

VARIABLES
  visits,     \* visits so far; the last is the one the hash names
  open,       \* currentPage is "node-detail"
  who,        \* per visit its node
  at,         \* per visit the answer it waits for
  slot,       \* per visit the markup whose #editForms it fills, or 0
  content,    \* the visit whose markup is in #content, or 0
  filled,     \* per markup the visit that filled its forms, or 0
  wired,      \* per markup the visits whose submit handlers its forms have
  buttons,    \* per markup the visits whose handlers its buttons have
  portCfgCache, \* the node whose port settings are cached, or None
  holder,     \* per visit who answers at the address it has, a node or None
  acts,       \* what saves and buttons did: page, node acted on, whose hidden settings
  crossed     \* a page was opened while an earlier visit was still reading, or a visit's
              \* address was taken by another node

vars == <<visits, open, who, at, slot, content, filled, wired, buttons, portCfgCache, holder, acts, crossed>>
dom == <<content, filled, wired, buttons, portCfgCache>>

None == "none"
Visits == 1..MaxVisits
Reading == {"registry", "identify", "resync", "network", "ports"}
Loads == {v \in Visits : at[v] \in Reading}

Sizes == Editable \subseteq Nodes /\ MaxVisits \in Nat

Init ==
  /\ visits = 0 /\ open = FALSE
  /\ who = [v \in Visits |-> None] /\ at = [v \in Visits |-> "unused"]
  /\ slot = [v \in Visits |-> 0] /\ content = 0
  /\ filled = [v \in Visits |-> 0]
  /\ wired = [v \in Visits |-> {}] /\ buttons = [v \in Visits |-> {}]
  /\ portCfgCache = None /\ holder = [v \in Visits |-> None] /\ acts = {} /\ crossed = FALSE

-----------------------------------------------------------------------------
(* Navigation *)

\* renderNodeDetail begins, of node n at an address where h answers.
Begins(n, h) ==
  /\ visits < MaxVisits
  /\ visits' = visits + 1
  /\ who' = [who EXCEPT ![visits + 1] = n] /\ holder' = [holder EXCEPT ![visits + 1] = h]
  /\ at' = [at EXCEPT ![visits + 1] = "registry"]
  /\ UNCHANGED <<slot, dom, acts>>

Visit(n) ==
  /\ Begins(n, n) /\ open' = TRUE
  /\ crossed' = (crossed \/ Loads # {})

\* A label saved from the page of visit m: the page is rendered again for the same
\* address, whatever is open by then.
TagSaved(m) ==
  /\ at[m] \notin {"unused", "registry"}
  /\ Begins(who[m], holder[m]) /\ UNCHANGED open
  /\ crossed' = (crossed \/ Loads # {} \/ ~open \/ content # m)

\* Another page is opened; the visit goes on.
Leave ==
  /\ open /\ open' = FALSE /\ content' = 0
  /\ UNCHANGED <<visits, who, at, slot, filled, wired, buttons, portCfgCache, holder, acts, crossed>>

\* Node n takes another address.  At its old one nobody answers, or node h, which has
\* left its own.
Moves(n, h) ==
  /\ h # n
  /\ holder' = [v \in Visits |->
       IF holder[v] = n THEN h ELSE IF holder[v] = h THEN None ELSE holder[v]]
  /\ holder' # holder
  /\ crossed' = (crossed \/ (h # None /\ \E v \in Visits : holder[v] = n))
  /\ UNCHANGED <<visits, open, who, at, slot, dom, acts>>

-----------------------------------------------------------------------------
(* renderNodeDetail, from answer to answer *)

Stops(v) == at' = [at EXCEPT ![v] = "over"]
Goes(v, step) == at' = [at EXCEPT ![v] = step]
\* "if (currentPage !== 'node-detail') return"
LeftBehind(v) ==
  /\ at[v] \in Reading /\ ~open
  /\ Stops(v)
  /\ UNCHANGED <<visits, open, who, slot, dom, holder, acts, crossed>>

\* GET /api/nodes: the markup of the node replaces what the page showed.
RegistryAnswers(v) ==
  /\ at[v] = "registry" /\ open
  /\ content' = v
  /\ IF who[v] \in Editable THEN Goes(v, "identify") ELSE Stops(v)
  /\ UNCHANGED <<visits, open, who, slot, filled, wired, buttons, portCfgCache, holder, acts, crossed>>

RegistryFails(v) ==
  /\ at[v] = "registry" /\ open
  /\ content' = 0 /\ Stops(v)
  /\ UNCHANGED <<visits, open, who, slot, filled, wired, buttons, portCfgCache, holder, acts, crossed>>

\* wireEditForms begins: the cache is emptied and #editForms of the shown markup
\* taken; without one only the buttons are looked for.
HasForms(m) == m # 0 /\ who[m] \in Editable
BeginForms(v, steps) ==
  LET m == IF HasForms(content) THEN content ELSE 0 IN
  /\ portCfgCache' = None
  /\ slot' = [slot EXCEPT ![v] = m]
  /\ filled' = [x \in Visits |-> IF x = m THEN 0 ELSE filled[x]]
  /\ wired' = [x \in Visits |-> IF x = m THEN {} ELSE wired[x]]
  /\ at' = [steps EXCEPT ![v] = IF m = 0 THEN "over" ELSE "network"]
  /\ UNCHANGED <<content, buttons>>

\* fetchLiveIdentifyWithResync: an answer, or none and the registry is asked
\* where the node is now.
IdentifyAnswers(v) ==
  /\ at[v] = "identify" /\ open /\ holder[v] # None
  /\ BeginForms(v, at)
  /\ UNCHANGED <<visits, open, who, holder, acts, crossed>>
IdentifyFails(v) ==
  /\ at[v] = "identify" /\ open
  /\ Goes(v, "resync")
  /\ UNCHANGED <<visits, open, who, slot, dom, holder, acts, crossed>>

\* The node has moved: the hash follows it, and the old visit goes on as well.
\* Else an error with a Retry button is shown, and the visit goes on too.
Resync(v) ==
  /\ at[v] = "resync" /\ open
  /\ BeginForms(v, at)
  /\ UNCHANGED <<visits, open, who, holder, acts, crossed>>
FollowsMove(v) ==
  /\ at[v] = "resync" /\ open /\ holder[v] # who[v] /\ v = visits /\ visits < MaxVisits
  /\ visits' = visits + 1
  /\ who' = [who EXCEPT ![visits + 1] = who[v]] /\ holder' = [holder EXCEPT ![visits + 1] = who[v]]
  /\ BeginForms(v, [at EXCEPT ![visits + 1] = "registry"])
  /\ UNCHANGED <<open, acts, crossed>>

NetworkAnswers(v) ==
  /\ at[v] = "network" /\ open
  /\ Goes(v, "ports")
  /\ UNCHANGED <<visits, open, who, slot, dom, holder, acts, crossed>>

\* The buttons are found by id, whoever's markup they are in.
WireButtons(v) ==
  buttons' = IF HasForms(content) THEN [buttons EXCEPT ![content] = @ \union {v}] ELSE buttons

\* Mutant: the settings read are not kept for the save.
NotStashed(v) == UNCHANGED portCfgCache

\* The last port has answered: renderPortForm fills the slot and the cache,
\* wirePortForm finds the forms by id.
Stash(v) == portCfgCache' = holder[v]
PortsAnswer(v) ==
  /\ at[v] = "ports" /\ open /\ holder[v] # None
  /\ LET m == slot[v]
         F == [filled EXCEPT ![m] = v]
         W == [wired EXCEPT ![m] = {}]
     IN  /\ filled' = F
         /\ wired' = IF HasForms(content) /\ F[content] # 0
                       THEN [W EXCEPT ![content] = @ \union {v}] ELSE W
  /\ Stash(v) /\ WireButtons(v)
  /\ Goes(v, "ready")
  /\ UNCHANGED <<visits, open, who, slot, content, holder, acts, crossed>>

\* No setting could be read: an error in the slot, and the buttons all the same.
PortsFail(v) ==
  /\ at[v] = "ports" /\ open
  /\ filled' = [filled EXCEPT ![slot[v]] = 0]
  /\ wired' = [wired EXCEPT ![slot[v]] = {}]
  /\ WireButtons(v) /\ Goes(v, "ready")
  /\ UNCHANGED <<visits, open, who, slot, content, portCfgCache, holder, acts, crossed>>

-----------------------------------------------------------------------------
(* The user *)

\* What the handlers of the visits vs do: they call the address, whoever answers there.
Acts(vs, rest) ==
  {[page |-> who[content], to |-> holder[v], rest |-> rest[v]] : v \in {v \in vs : holder[v] # None}}

\* Every handler on the form posts the form over the cached rest to its address.
SubmitPort ==
  /\ open /\ content # 0 /\ filled[content] # 0
  /\ acts' = acts \union Acts(wired[content], [v \in wired[content] |-> portCfgCache])
  /\ UNCHANGED <<visits, open, who, at, slot, dom, holder, crossed>>

\* Reboot Node, Factory Reset
PressButton ==
  /\ open /\ content # 0
  /\ acts' = acts \union Acts(buttons[content], holder)
  /\ UNCHANGED <<visits, open, who, at, slot, dom, holder, crossed>>

Loading(v) ==
  \/ LeftBehind(v) \/ RegistryAnswers(v) \/ RegistryFails(v)
  \/ IdentifyAnswers(v) \/ IdentifyFails(v) \/ Resync(v) \/ FollowsMove(v)
  \/ NetworkAnswers(v) \/ PortsAnswer(v) \/ PortsFail(v)

Next ==
  \/ \E n \in Nodes : Visit(n) \/ \E h \in Nodes \union {None} : Moves(n, h)
  \/ \E v \in Visits : Loading(v) \/ TagSaved(v)
  \/ Leave \/ SubmitPort \/ PressButton

Spec == Init /\ [][Next]_vars

-----------------------------------------------------------------------------
TypeOK ==
  /\ visits \in 0..MaxVisits /\ open \in BOOLEAN /\ crossed \in BOOLEAN
  /\ who \in [Visits -> Nodes \union {None}]
  /\ at \in [Visits -> Reading \union {"unused", "ready", "over"}]
  /\ slot \in [Visits -> 0..MaxVisits] /\ content \in 0..MaxVisits
  /\ filled \in [Visits -> 0..MaxVisits]
  /\ wired \in [Visits -> SUBSET Visits] /\ buttons \in [Visits -> SUBSET Visits]
  /\ portCfgCache \in Nodes \union {None} /\ holder \in [Visits -> Nodes \union {None}]
  /\ acts \subseteq [page : Nodes, to : Nodes, rest : Nodes \union {None}]

\* A save or a button on a node's page reaches that node, and carries the hidden
\* settings (universes 1 to 3, sACN, FX channels) that node had.
Faithful(a) == a.to = a.page /\ a.rest = a.page
ActsOnItsNode == \A a \in acts : Faithful(a)

\* It holds for a user who lets a page finish loading before opening another, and as
\* long as no other node takes the address of a node whose page was opened: through
\* visits left, failed answers, labels saved and nodes that move away.
ActsWhenPatient == crossed \/ ActsOnItsNode
=============================================================================
