------------------------------ MODULE PageRouter ------------------------------
(* The webpage's router and the life of its pages (data/index.html, embedded in
   ui.cpp): the hash selects a page, its render function fetches and paints the
   one content element, a timer repaints it.  An answer may come after the user
   has gone to another page, so every render tests the page again after a fetch;
   the pages differ in where they test it. *)
EXTENDS Naturals, FiniteSets

CONSTANTS
  Pages,      \* the pages the user visits, among AllPages
  MaxLoads    \* bound on a page's unanswered fetches and intervals

VARIABLES
  currentPage,   \* currentPage
  shown,         \* the page whose markup is in #content, or "rebooting"
  loading,       \* per page the loads the router awaits
  repainting,    \* per page the repaints a timer or a button started
  intervals,     \* per page the running intervals that repaint it
  pollTimer,     \* the page of the interval pollTimer can stop, or "none"
  reloadDue      \* showRebooting has set its reload timer

vars == <<currentPage, shown, loading, repainting, intervals, pollTimer, reloadDue>>

AllPages == {"nodes", "switches", "universes", "test", "monitor", "timecode", "network",
             "system", "selftest", "firmware", "node-detail"}

\* Painted in the call itself, before the first answer.
PaintsAtOnce == {"universes", "test", "timecode", "network", "selftest"}
\* Everything is painted by then.
Static == {"test", "selftest"}
\* The router sets their interval when the first load has ended.
TimedByRouter == {"nodes", "switches", "monitor", "network", "system"}
\* An interval left behind fetches again although another page is open.
TestsBeforeFetch == {"nodes", "switches", "network", "system"}
\* What a late answer paints without a look at currentPage.
PaintsLate(p, ok) == p = "firmware" \/ (p \in {"universes", "timecode"} /\ ~ok)

PageOK == Pages \subseteq AllPages

Init ==
  /\ currentPage = "nodes" /\ shown = "none"
  /\ loading = [p \in Pages |-> IF p = "nodes" THEN 1 ELSE 0]
  /\ repainting = [p \in Pages |-> 0]
  /\ intervals = [p \in Pages |-> 0]
  /\ pollTimer = "none" /\ reloadDue = FALSE

-----------------------------------------------------------------------------
\* Mutant: leaving a page leaves its interval.
TimerLeft == UNCHANGED <<intervals, pollTimer>>

StopPollTimer ==
  /\ intervals' = [p \in Pages |-> IF p = pollTimer THEN intervals[p] - 1 ELSE intervals[p]]
  /\ pollTimer' = "none"

\* loadFromHash, up to the render's first await: a click in the menu, on the
\* open page too, a link, the browser's back button.
LoadFromHash(p) ==
  /\ loading[p] + intervals[p] < MaxLoads
  /\ StopPollTimer
  /\ currentPage' = p
  /\ shown' = IF p \in PaintsAtOnce THEN p ELSE shown
  /\ loading' = [loading EXCEPT ![p] = IF p \in Static THEN @ ELSE @ + 1]
  /\ UNCHANGED <<repainting, reloadDue>>

\* Mutant: a late answer paints whatever page is open.
PaintsAlways(p, ok) == TRUE

\* What the render of p paints when its fetch has ended.
MayPaint(p, ok) == currentPage = p \/ PaintsLate(p, ok)
Painted(p, ok) == shown' = IF MayPaint(p, ok) THEN p ELSE shown

Armed(p) ==
  /\ intervals' = [intervals EXCEPT ![p] = @ + 1]
  /\ pollTimer' = p

\* The awaited load ends; the router, or renderTimecode itself, sets the timer
\* if the page is still the open one.
LoadEnds(p, ok) ==
  /\ loading[p] > 0
  /\ loading' = [loading EXCEPT ![p] = @ - 1]
  /\ Painted(p, ok)
  /\ IF currentPage = p /\ (p \in TimedByRouter \/ (p = "timecode" /\ ok))
       THEN Armed(p)
       ELSE UNCHANGED <<intervals, pollTimer>>
  /\ UNCHANGED <<currentPage, repainting, reloadDue>>

Repaint(p) ==
  /\ repainting[p] < MaxLoads
  /\ repainting' = [repainting EXCEPT ![p] = @ + 1]
  /\ UNCHANGED <<currentPage, shown, loading, intervals, pollTimer, reloadDue>>

\* An interval's callback; the status poller's hook is one more, for Nodes.
Tick(p) ==
  /\ intervals[p] > 0
  /\ p \in TestsBeforeFetch => currentPage = p
  /\ Repaint(p)
StatusHook == currentPage = "nodes" /\ Repaint("nodes")
RefreshButton(p) ==
  /\ p \in {"switches", "universes"} /\ currentPage = p /\ shown = p
  /\ Repaint(p)

RepaintEnds(p, ok) ==
  /\ repainting[p] > 0
  /\ repainting' = [repainting EXCEPT ![p] = @ - 1]
  /\ Painted(p, ok)
  /\ UNCHANGED <<currentPage, loading, intervals, pollTimer, reloadDue>>

\* showRebooting: the message takes the place of the page, which stays current.
ShowRebooting ==
  /\ StopPollTimer
  /\ shown' = "rebooting" /\ reloadDue' = TRUE
  /\ UNCHANGED <<currentPage, loading, repainting>>

\* location.reload, eight seconds later: the script starts over.
Reload ==
  /\ reloadDue
  /\ shown' = "none" /\ pollTimer' = "none" /\ reloadDue' = FALSE
  /\ loading' = [p \in Pages |-> IF p = currentPage /\ p \notin Static THEN 1 ELSE 0]
  /\ repainting' = [p \in Pages |-> 0]
  /\ intervals' = [p \in Pages |-> 0]
  /\ UNCHANGED currentPage

Next ==
  \/ \E p \in Pages : LoadFromHash(p) \/ Tick(p) \/ RefreshButton(p)
  \/ \E p \in Pages, ok \in BOOLEAN : LoadEnds(p, ok) \/ RepaintEnds(p, ok)
  \/ StatusHook \/ ShowRebooting \/ Reload

Spec == Init /\ [][Next]_vars

-----------------------------------------------------------------------------
TypeOK ==
  /\ currentPage \in Pages /\ shown \in Pages \union {"none", "rebooting"}
  /\ loading \in [Pages -> 0..MaxLoads] /\ repainting \in [Pages -> 0..MaxLoads]
  /\ intervals \in [Pages -> Nat]
  /\ pollTimer \in Pages \union {"none"} /\ reloadDue \in BOOLEAN

\* In every step: what a page paints replaces another page only when the user has opened it,
\* whichever loads and repaints of pages left behind are still to be answered.
\* The Firmware page and two error messages are the exceptions the code has.
PaintsOwnPage ==
  \A p \in Pages : shown' = p /\ shown # p =>
    currentPage' = p \/ \E ok \in BOOLEAN : PaintsLate(p, ok)

\* The timer that leaving a page stops is that page's, and it runs: no page is
\* left without the timer that was meant to repaint it by an answer that comes late.
TimerIsOwn == pollTimer # "none" => pollTimer = currentPage /\ intervals[pollTimer] > 0

\* One interval per page visit.  It fails: opening the open page again while its
\* first load is out leaves two loads, and two intervals, of which one stays.
NoTimerLeft == \A p \in Pages : intervals[p] <= (IF pollTimer = p THEN 1 ELSE 0)
=============================================================================
