------------------------------- MODULE RdmTable -------------------------------
(* The RDM tab of a dualETH in the webpage (data/index.html, embedded in ui.cpp):
   a table of fixtures polled every 2.5 s and never rebuilt under the user's
   fingers, and one open row whose details the node reads from the fixture, for
   one fixture at a time, so that the page must ask until they are ready. *)
EXTENDS Naturals, FiniteSets

CONSTANTS
  Uids,        \* fixtures
  Versions,    \* states of the table the node reports
  Reads,       \* requests a fixture's details need until they are ready
  MaxLoads     \* tables asked for and not answered yet

VARIABLES
  tab,               \* the RDM tab is shown
  opening,           \* how many calls of renderDualRdmTab wait for the table
  notice,            \* the pane says that there is no table to show
  polling,           \* rdmPollTimer runs
  table,             \* the node's table now
  enabled,           \* Port A is in RDM mode
  data,              \* rdmDualLastData: the last table the page has, or 0
  painted,           \* what the body was built from: table, open row, its details
  signature,         \* rdmDualSigLast: the same, or "" to force a rebuild
  editing,           \* an input of the body has the focus
  rdmOpenUid,        \* the open row, or None
  rdmDetail,         \* per fixture how much of its details the page has
  rdmDetailInFlight, \* the fixture asked about, or None
  rdmDetailTimer,    \* the 700 ms timer runs
  reading,           \* per fixture how far the node has read
  inspected          \* the fixture the node reads now, or None

page == <<tab, opening, notice, polling, data, painted, signature, editing, rdmOpenUid, rdmDetail, rdmDetailInFlight, rdmDetailTimer>>
node == <<table, enabled, reading, inspected>>
vars == <<page, node>>

None == "none"
NoSig == <<>>
UidsOK == None \notin Uids

Init ==
  /\ tab = FALSE /\ opening = 0 /\ notice = FALSE /\ polling = FALSE
  /\ table \in Versions /\ enabled = TRUE /\ data = 0
  /\ painted = NoSig /\ signature = NoSig /\ editing = FALSE
  /\ rdmOpenUid = None /\ rdmDetail = [u \in Uids |-> 0]
  /\ rdmDetailInFlight = None /\ rdmDetailTimer = FALSE
  /\ reading = [u \in Uids |-> 0] /\ inspected = None

-----------------------------------------------------------------------------
(* Painting *)

\* rdmDualSig: the table, the open row and what is known of it.
SigOf(d, open, detail) == <<d, open, IF open = None THEN 0 ELSE detail[open]>>

\* Mutant: the table is rebuilt without a look at the focus.
PaintAlways(d, sig, open, detail) ==
  LET new == SigOf(d, open, detail) IN data' = d /\ signature' = new /\ painted' = new

\* rdmDualPaint with the table d, where there is one to paint; sig is the signature the caller left.
Paint(d, sig, open, detail) ==
  LET new == SigOf(d, open, detail) IN
  /\ data' = d
  /\ IF new = sig \/ editing
       THEN signature' = sig /\ UNCHANGED painted
       ELSE signature' = new /\ painted' = new

\* rdmPollDetail, up to its request.
Ask(open, detail) ==
  /\ rdmDetailTimer' = FALSE
  /\ rdmDetailInFlight' = IF open # None /\ rdmDetailInFlight = None /\ detail[open] < Reads
                            THEN open ELSE rdmDetailInFlight

-----------------------------------------------------------------------------
\* renderDualRdmTab, up to its request: the pane says that it reads the table.
Reload ==
  /\ opening < MaxLoads /\ opening' = opening + 1
  /\ notice' = TRUE /\ painted' = NoSig /\ editing' = FALSE

OpenTab ==
  /\ ~tab /\ tab' = TRUE
  /\ Reload
  /\ UNCHANGED <<polling, data, signature, rdmOpenUid, rdmDetail, rdmDetailInFlight, rdmDetailTimer, node>>

\* The answer to one such call replaces the whole pane, whatever it shows by now
\* and whoever types in it.  A table is polled from then on, though the tab may
\* have been left meanwhile; with a notice, an interval that runs is let run.
TableArrives ==
  /\ opening > 0 /\ enabled
  /\ opening' = opening - 1 /\ notice' = FALSE /\ polling' = TRUE /\ rdmDetailTimer' = FALSE
  /\ data' = table /\ editing' = FALSE
  /\ signature' = SigOf(table, rdmOpenUid, rdmDetail) /\ painted' = signature'
  /\ UNCHANGED <<tab, rdmOpenUid, rdmDetail, rdmDetailInFlight, node>>
\* The call fails, or Port A is not in RDM mode.
NoTable ==
  /\ opening > 0
  /\ opening' = opening - 1 /\ notice' = TRUE /\ painted' = NoSig /\ editing' = FALSE
  /\ UNCHANGED <<tab, polling, data, signature, rdmOpenUid, rdmDetail, rdmDetailInFlight, rdmDetailTimer, node>>

\* stopRdmPoll, on leaving the tab or the page.
LeaveTab ==
  /\ tab /\ tab' = FALSE /\ polling' = FALSE /\ rdmDetailTimer' = FALSE /\ editing' = FALSE
  /\ UNCHANGED <<opening, notice, data, painted, signature, rdmOpenUid, rdmDetail, rdmDetailInFlight, node>>

\* rdmDualPoll.  A notice has nothing to paint into.
Poll ==
  /\ polling /\ enabled
  /\ IF notice THEN UNCHANGED <<data, painted, signature>>
               ELSE Paint(table, signature, rdmOpenUid, rdmDetail)
  /\ Ask(rdmOpenUid, rdmDetail)
  /\ UNCHANGED <<tab, opening, notice, polling, editing, rdmOpenUid, rdmDetail, node>>

\* Port A has left RDM mode: the pane is rendered anew.
PollFindsOff ==
  /\ polling /\ ~enabled
  /\ Reload
  /\ UNCHANGED <<tab, polling, data, signature, rdmOpenUid, rdmDetail, rdmDetailInFlight, rdmDetailTimer, node>>

DetailTimer ==
  /\ rdmDetailTimer
  /\ Ask(rdmOpenUid, rdmDetail)
  /\ UNCHANGED <<tab, opening, notice, polling, data, painted, signature, editing, rdmOpenUid, rdmDetail, node>>

\* The node answers about the fixture asked for, and turns its inspector to it.
\* An answer about a row no longer open is kept for later.
Again(open, detail) ==
  rdmDetailTimer' = (rdmDetailTimer \/ (open # None /\ detail[open] < Reads))
PaintIfAny(open, detail) ==
  IF ~notice /\ data # 0 THEN Paint(data, NoSig, open, detail)
                     ELSE signature' = NoSig /\ UNCHANGED <<data, painted>>

DetailAnswers ==
  LET u == rdmDetailInFlight IN
  /\ u # None
  /\ rdmDetail' = [rdmDetail EXCEPT ![u] = reading[u]]
  /\ inspected' = u
  /\ PaintIfAny(rdmOpenUid, rdmDetail')
  /\ rdmDetailInFlight' = None
  /\ Again(rdmOpenUid, rdmDetail')
  /\ UNCHANGED <<tab, opening, notice, polling, editing, rdmOpenUid, table, enabled, reading>>

\* No answer: the open row is closed, whichever it is by now.
DetailFails ==
  /\ rdmDetailInFlight # None
  /\ rdmOpenUid' = None /\ signature' = NoSig
  /\ rdmDetailInFlight' = None
  /\ UNCHANGED <<tab, opening, notice, polling, data, painted, editing, rdmDetail, rdmDetailTimer, node>>

\* The node reads one more item of the fixture it inspects.
NodeReads ==
  /\ inspected # None /\ reading[inspected] < Reads
  /\ reading' = [reading EXCEPT ![inspected] = @ + 1]
  /\ UNCHANGED <<page, table, enabled, inspected>>

TableChanges ==
  /\ \E t \in Versions : t # table /\ table' = t
  /\ UNCHANGED <<page, enabled, reading, inspected>>
ModeChanges ==
  /\ enabled' = ~enabled
  /\ UNCHANGED <<page, table, reading, inspected>>

-----------------------------------------------------------------------------
(* The user; a row's button takes the focus from an input *)

Toggle(u) ==
  LET open == IF rdmOpenUid = u THEN None ELSE u IN
  /\ tab /\ ~notice /\ painted # NoSig
  /\ rdmOpenUid' = open /\ editing' = FALSE
  /\ data' = data
  /\ LET new == SigOf(data, open, rdmDetail) IN painted' = new /\ signature' = new
  /\ Ask(open, rdmDetail)
  /\ UNCHANGED <<tab, opening, notice, polling, rdmDetail, node>>

Edit ==
  /\ tab /\ painted # NoSig /\ editing' = ~editing
  /\ UNCHANGED <<tab, opening, notice, polling, data, painted, signature, rdmOpenUid, rdmDetail, rdmDetailInFlight, rdmDetailTimer, node>>

\* rdmSet: the next poll rebuilds the table with the value read back.
SetField ==
  /\ tab /\ editing
  /\ editing' = FALSE /\ signature' = NoSig
  /\ UNCHANGED <<tab, opening, notice, polling, data, painted, rdmOpenUid, rdmDetail, rdmDetailInFlight, rdmDetailTimer, node>>

\* Discover: the node starts over, and the page forgets what it had read.
Discover ==
  /\ tab /\ ~notice
  /\ rdmOpenUid' = None /\ signature' = NoSig
  /\ rdmDetail' = [u \in Uids |-> 0]
  /\ reading' = [u \in Uids |-> 0] /\ inspected' = None
  /\ UNCHANGED <<tab, opening, notice, polling, data, painted, editing, rdmDetailInFlight, rdmDetailTimer, table, enabled>>

User == OpenTab \/ LeaveTab \/ Edit \/ SetField \/ Discover \/ \E u \in Uids : Toggle(u)
Next ==
  \/ TableArrives \/ NoTable \/ Poll \/ PollFindsOff
  \/ DetailTimer \/ DetailAnswers \/ DetailFails
  \/ NodeReads \/ TableChanges \/ ModeChanges \/ User

\* Timers fire, the node reads on and answers in the end.
Fairness ==
  /\ WF_vars(Poll \/ PollFindsOff) /\ WF_vars(TableArrives \/ NoTable) /\ WF_vars(DetailTimer) /\ WF_vars(NodeReads)
  /\ WF_vars(DetailAnswers \/ DetailFails)

Spec == Init /\ [][Next]_vars /\ Fairness

-----------------------------------------------------------------------------
TypeOK ==
  /\ tab \in BOOLEAN /\ opening \in 0..MaxLoads /\ notice \in BOOLEAN /\ enabled \in BOOLEAN
  /\ polling \in BOOLEAN /\ editing \in BOOLEAN /\ rdmDetailTimer \in BOOLEAN
  /\ table \in Versions /\ data \in Versions \union {0}
  /\ rdmOpenUid \in Uids \union {None} /\ rdmDetailInFlight \in Uids \union {None}
  /\ inspected \in Uids \union {None}
  /\ rdmDetail \in [Uids -> 0..Reads] /\ reading \in [Uids -> 0..Reads]

\* The ways in which a pane is replaced under the user's hands all the same: Port
\* A has left RDM mode, so that there is nothing left to edit; or the pane was
\* asked for twice, by a tab left and opened again, and the second answer comes.
ModeLost == ~enabled /\ notice'
SecondLoad == opening' = opening - 1

\* In every step: neither a poll's answer nor a fixture's details throw away a
\* half-typed address or an open list; the table is rebuilt under the focus only
\* when the user opens or closes a row, and in the two ways above.
EditKept ==
  tab /\ editing /\ painted' # painted =>
    rdmOpenUid' # rdmOpenUid \/ ModeLost \/ SecondLoad

\* Does not hold: only the user's own step takes an edit away.
EditKeptByAll == tab /\ editing /\ painted' # painted => rdmOpenUid' # rdmOpenUid

FilledOrClosed(u) == ~tab \/ notice \/ rdmOpenUid # u \/ rdmDetail[u] = Reads
CaughtUp(t) ==
  ~tab \/ notice \/ ~enabled \/ table # t \/ editing \/ (painted # NoSig /\ painted[1] = t)

\* A row that stays open on a tab that stays open gets its details, or is closed,
\* whatever other rows were opened before it and however late their answers come:
\* one request is in flight at a time and the next one follows it.
RowFills == \A u \in Uids : []<>FilledOrClosed(u)

\* The table shown catches up with the node's when editing ends.
\* (A notice stays: once Port A has left RDM mode the user opens the tab again.)
TableCatchesUp == \A t \in Versions : []<>CaughtUp(t)
=============================================================================
