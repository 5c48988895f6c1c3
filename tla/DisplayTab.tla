------------------------------ MODULE DisplayTab ------------------------------
(* The tabs of a quadETH node's page in the webpage (data/index.html, embedded in
   ui.cpp) and its Display tab: a mirror of the node's screen, polled every second
   with one request in flight for all nodes together, and the display settings,
   saved over the settings that were read. *)
EXTENDS Naturals, FiniteSets

CONSTANTS
  Nodes,      \* the nodes visited
  MaxOpens    \* pages and tabs opened in one run

VARIABLES
  detailNode, \* the node whose page is open, or None
  tab,        \* the tab that is shown
  loads,      \* visits that have not finished loading: node, and the tab of the hash
  opens,
  oledTimer,  \* the node polled every second, or None
  oledInFlight, \* the node asked for its picture, or None
  canvas,     \* whose picture is drawn, or None
  fetches,    \* nodes asked for their display settings
  form,       \* whose settings the form shows, or None
  displayCfgCache, \* whose settings are kept for the fields without an input
  saves,      \* saves made: to which node, over whose settings
  crossed     \* a page was opened while another was loading or asked for settings

vars == <<detailNode, tab, loads, opens, oledTimer, oledInFlight, canvas,
          fetches, form, displayCfgCache, saves, crossed>>

None == "none"
Tabs == {"identity", "display"}

Init ==
  /\ detailNode = None /\ tab = "identity" /\ loads = {} /\ opens = 0
  /\ oledTimer = None /\ oledInFlight = None /\ canvas = None
  /\ fetches = {} /\ form = None /\ displayCfgCache = None /\ saves = {} /\ crossed = FALSE

\* pollOled: "Don't queue a second request behind an unfinished one"
Asks(n) == oledInFlight' = IF oledInFlight = None THEN n ELSE oledInFlight

\* renderDisplayTab: an empty canvas, the poll, and the settings
DisplayBegins(n) ==
  /\ oledTimer' = n /\ Asks(n) /\ canvas' = None
  /\ fetches' = fetches \union {n} /\ form' = None
stopOledMirror == oledTimer' = None

Open(n, t) ==
  /\ opens < MaxOpens /\ opens' = opens + 1
  /\ detailNode' = n /\ tab' = t
  /\ loads' = loads \union {[node |-> n, tab |-> t]}
  /\ stopOledMirror /\ canvas' = None /\ form' = None
  /\ crossed' = (crossed \/ loads # {} \/ fetches # {})
  /\ UNCHANGED <<oledInFlight, fetches, displayCfgCache, saves>>

\* The node has answered or not; the closure's tab decides what is started.
Loaded(v) ==
  /\ v \in loads /\ loads' = loads \ {v}
  /\ IF detailNode # None /\ v.tab = "display" THEN DisplayBegins(v.node)
     ELSE UNCHANGED <<oledTimer, oledInFlight, canvas, fetches, form>>
  /\ UNCHANGED <<detailNode, tab, opens, displayCfgCache, saves, crossed>>

Leave ==
  /\ detailNode # None /\ detailNode' = None
  /\ stopOledMirror /\ canvas' = None /\ form' = None
  /\ UNCHANGED <<tab, loads, opens, oledInFlight, fetches, displayCfgCache, saves, crossed>>

switchDetailTab(t) ==
  /\ detailNode # None /\ opens < MaxOpens /\ opens' = opens + 1
  /\ tab' = t
  /\ IF t = "display" THEN DisplayBegins(detailNode)
     ELSE stopOledMirror /\ UNCHANGED <<oledInFlight, canvas, fetches, form>>
  /\ UNCHANGED <<detailNode, loads, displayCfgCache, saves, crossed>>

-----------------------------------------------------------------------------
(* The mirror *)

OledTick ==
  /\ oledTimer # None /\ oledInFlight = None /\ Asks(oledTimer)
  /\ UNCHANGED <<detailNode, tab, loads, opens, oledTimer, canvas, fetches, form, displayCfgCache, saves, crossed>>

\* The picture is drawn on the canvas that is there.
Drawn(n) == canvas' = IF detailNode # None THEN n ELSE canvas
Picture ==
  /\ oledInFlight # None /\ oledInFlight' = None /\ Drawn(oledInFlight)
  /\ UNCHANGED <<detailNode, tab, loads, opens, oledTimer, fetches, form, displayCfgCache, saves, crossed>>
NoPicture ==
  /\ oledInFlight # None /\ oledInFlight' = None
  /\ UNCHANGED <<detailNode, tab, loads, opens, oledTimer, canvas, fetches, form, displayCfgCache, saves, crossed>>

-----------------------------------------------------------------------------
(* The settings *)

\* renderDisplaySettings, wherever a node's page is open
Settings(n) ==
  /\ n \in fetches /\ fetches' = fetches \ {n}
  /\ IF detailNode # None THEN form' = n /\ displayCfgCache' = n
     ELSE UNCHANGED <<form, displayCfgCache>>
  /\ UNCHANGED <<detailNode, tab, loads, opens, oledTimer, oledInFlight, canvas, saves, crossed>>
NoSettings(n) ==
  /\ n \in fetches /\ fetches' = fetches \ {n}
  /\ form' = IF detailNode # None THEN None ELSE form
  /\ UNCHANGED <<detailNode, tab, loads, opens, oledTimer, oledInFlight, canvas, displayCfgCache, saves, crossed>>

saveDisplay ==
  /\ detailNode # None /\ form # None
  /\ saves' = saves \union {[page |-> detailNode, to |-> form, rest |-> displayCfgCache]}
  /\ UNCHANGED <<detailNode, tab, loads, opens, oledTimer, oledInFlight, canvas, fetches, form, displayCfgCache, crossed>>

Next ==
  \/ \E n \in Nodes, t \in Tabs : Open(n, t)
  \/ \E v \in loads : Loaded(v)
  \/ \E t \in Tabs : switchDetailTab(t)
  \/ \E n \in Nodes : Settings(n) \/ NoSettings(n)
  \/ Leave \/ OledTick \/ Picture \/ NoPicture \/ saveDisplay

\* Requests end, the timer fires every second, and a node answers now and then.
Fair ==
  /\ \A v \in [node : Nodes, tab : Tabs] : WF_vars(Loaded(v))
  /\ WF_vars(OledTick) /\ WF_vars(Picture \/ NoPicture)
  /\ \A n \in Nodes : SF_vars(oledInFlight = n /\ Picture)
Spec == Init /\ [][Next]_vars /\ Fair

-----------------------------------------------------------------------------
Stays(n) == detailNode = n /\ tab = "display" /\ ~crossed

(* A user who lets pages finish loading and stays on a Display tab ends up with
   the mirror of that node, whatever was being asked of the node before. *)
MirrorShows == \A n \in Nodes : <>[]Stays(n) => <>[](canvas = n)

(* Display settings go to the node whose page is open and over its own. *)
SavesOwnDisplay == crossed \/ \A s \in saves : s.to = s.page /\ s.rest = s.page

(* "The OLED mirror only polls while its tab is visible": not when the tab is
   left while the page still loads. *)
PollsWhenVisible == oledTimer # None => tab = "display"
=============================================================================
