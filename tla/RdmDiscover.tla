------------------------------ MODULE RdmDiscover ------------------------------
(* The RDM tab of a quadETH in the webpage (data/index.html, embedded in ui.cpp):
   Discover starts a search on the chosen port and polls the node's status until
   the port is done; the fixtures found are listed with controls that name the
   port chosen when they are pressed. *)
EXTENDS Naturals, Sequences

CONSTANTS
  Ports,      \* ports of the node
  MaxPolls,   \* status polls until the page gives up (25 in the code)
  MaxQueue    \* requests that wait for one node

VARIABLES
  tab,           \* the tab is shown, with a button of this rendering
  btn,           \* its Discover button: "ready", "disabled"
  pressed,       \* the interval belongs to a press of this button
  rdmPort, rdmBusy, rdmPollTimer,
  polls,         \* polls of this interval
  queue,         \* nodeApi's queue: the page's requests to the node, in order
  phase,         \* per port "idle", "running" or "done"
  listed,        \* the port whose fixtures are listed, or None
  sent,          \* the last fixture command: the port of the fixture and the port named
  swayed         \* the tab was left during a search, or the port changed during one or under a list

vars == <<tab, btn, pressed, rdmPort, rdmBusy, rdmPollTimer, polls, queue, phase, listed, sent, swayed>>

None == 9
Command(f, n) == [fixture |-> f, named |-> n]

\* A request: a discovery of a port, or a poll of the status, by the interval that runs
\* ("status"), by an earlier one ("older"), or by an earlier one that gave up ("tired");
\* mine: its press was of the button shown.
Request(w, p, m) == [what |-> w, port |-> p, mine |-> m]
Requests == [what : {"discover", "status", "older", "tired"}, port : Ports \union {None}, mine : BOOLEAN]
Answered(w) == queue # <<>> /\ Head(queue).what = w /\ queue' = Tail(queue)
StatusAnswered == \E w \in {"status", "older", "tired"} : Answered(w)

Init ==
  /\ tab = FALSE /\ btn = "ready" /\ pressed = FALSE
  /\ rdmPort \in Ports /\ rdmBusy = FALSE /\ rdmPollTimer = FALSE /\ polls = 0
  /\ queue = <<>> /\ phase = [p \in Ports |-> "idle"]
  /\ listed = None /\ sent = Command(None, None) /\ swayed = FALSE

-----------------------------------------------------------------------------
\* renderRdmTab: a new button, an empty list; the port chosen last is kept.
RenderRdmTab ==
  /\ ~tab /\ tab' = TRUE
  /\ btn' = "ready" /\ pressed' = FALSE /\ listed' = None
  /\ queue' = [i \in DOMAIN queue |-> [queue[i] EXCEPT !.mine = FALSE]]
  /\ UNCHANGED <<rdmPort, rdmBusy, rdmPollTimer, polls, phase, sent, swayed>>

\* switchDetailTab, or another page: stopRdmPoll, and nothing else.
Searching == rdmBusy \/ rdmPollTimer \/ \E i \in DOMAIN queue : queue[i].what = "discover"
LeaveTab ==
  /\ tab /\ tab' = FALSE
  /\ rdmPollTimer' = FALSE
  /\ swayed' = (swayed \/ Searching)
  /\ UNCHANGED <<btn, pressed, rdmPort, rdmBusy, polls, queue, phase, listed, sent>>

ChoosePort(p) ==
  /\ tab /\ p # rdmPort
  /\ rdmPort' = p
  /\ swayed' = (swayed \/ Searching \/ listed # None)
  /\ UNCHANGED <<tab, btn, pressed, rdmBusy, rdmPollTimer, polls, queue, phase, listed, sent>>

\* The port is the one chosen now, and stays that of the request.
RdmDiscover ==
  /\ tab /\ btn = "ready" /\ ~rdmBusy /\ Len(queue) < MaxQueue
  /\ rdmBusy' = TRUE /\ btn' = "disabled"
  /\ queue' = Append(queue, Request("discover", rdmPort, TRUE))
  /\ UNCHANGED <<tab, pressed, rdmPort, rdmPollTimer, polls, phase, listed, sent, swayed>>

\* The button of the press whose answer has come is enabled, if it is still there.
Enabled == IF Head(queue).mine THEN "ready" ELSE btn

\* The node has started: a new interval is set, wherever the user is by then.
Replaced(r) == IF r.what = "status" THEN [r EXCEPT !.what = IF polls > MaxPolls THEN "tired" ELSE "older"] ELSE r
DiscoverStarted ==
  /\ queue # <<>> /\ Head(queue).what = "discover"
  /\ phase' = [phase EXCEPT ![Head(queue).port] = "running"]
  /\ rdmPollTimer' = TRUE /\ polls' = 0 /\ pressed' = Head(queue).mine
  /\ queue' = [i \in DOMAIN Tail(queue) |-> Replaced(Tail(queue)[i])]
  /\ UNCHANGED <<tab, btn, rdmPort, rdmBusy, listed, sent, swayed>>
DiscoverFails ==
  /\ Answered("discover")
  /\ rdmBusy' = FALSE /\ btn' = Enabled
  /\ UNCHANGED <<tab, pressed, rdmPort, rdmPollTimer, polls, phase, listed, sent, swayed>>

\* The interval's callback, which asks whether or not the last answer has come; off
\* the node's page it stops itself.  (Polls are counted up to MaxPolls + 1.)
Poll ==
  /\ rdmPollTimer
  /\ IF tab THEN /\ Len(queue) < MaxQueue
                 /\ polls' = IF polls <= MaxPolls THEN polls + 1 ELSE polls
                 /\ queue' = Append(queue, Request("status", None, pressed)) /\ UNCHANGED rdmPollTimer
            ELSE rdmPollTimer' = FALSE /\ UNCHANGED <<polls, queue>>
  /\ UNCHANGED <<tab, btn, pressed, rdmPort, rdmBusy, phase, listed, sent, swayed>>

\* Mutant: polls are not counted.
OverWhenDone(r) == phase[rdmPort] # "running"

\* Its answer: the fixtures of the port chosen by now, and the end, of whatever runs by
\* now, when that port is not running or the poll's own interval has given up.
Over(r) ==
  phase[rdmPort] # "running" \/ r.what = "tired" \/ (r.what = "status" /\ polls > MaxPolls)
StatusAnswers ==
  /\ StatusAnswered
  /\ listed' = IF tab THEN rdmPort ELSE listed
  /\ IF Over(Head(queue)) THEN rdmPollTimer' = FALSE /\ rdmBusy' = FALSE /\ btn' = Enabled
                          ELSE UNCHANGED <<rdmPollTimer, rdmBusy, btn>>
  /\ UNCHANGED <<tab, pressed, rdmPort, polls, phase, sent, swayed>>
StatusFails ==
  /\ StatusAnswered
  /\ UNCHANGED <<tab, btn, pressed, rdmPort, rdmBusy, rdmPollTimer, polls, phase, listed, sent, swayed>>

NodeDone(p) ==
  /\ phase[p] = "running" /\ phase' = [phase EXCEPT ![p] = "done"]
  /\ UNCHANGED <<tab, btn, pressed, rdmPort, rdmBusy, rdmPollTimer, polls, queue, listed, sent, swayed>>

\* rdmSetAddr, rdmIdentify, rdmInfo, rdmRaw on a listed fixture.
FixtureCommand ==
  /\ tab /\ listed # None
  /\ sent' = Command(listed, rdmPort)
  /\ UNCHANGED <<tab, btn, pressed, rdmPort, rdmBusy, rdmPollTimer, polls, queue, phase, listed, swayed>>

Next ==
  \/ RenderRdmTab \/ LeaveTab \/ RdmDiscover \/ DiscoverStarted \/ DiscoverFails
  \/ Poll \/ StatusAnswers \/ StatusFails \/ FixtureCommand
  \/ \E p \in Ports : ChoosePort(p) \/ NodeDone(p)

Fairness ==
  /\ WF_vars(DiscoverStarted \/ DiscoverFails) /\ WF_vars(Poll)
  /\ WF_vars(StatusAnswers \/ StatusFails) /\ SF_vars(StatusAnswers)

Spec == Init /\ [][Next]_vars /\ Fairness

-----------------------------------------------------------------------------
TypeOK ==
  /\ tab \in BOOLEAN /\ btn \in {"ready", "disabled"} /\ pressed \in BOOLEAN
  /\ rdmPort \in Ports /\ rdmBusy \in BOOLEAN /\ rdmPollTimer \in BOOLEAN /\ polls \in 0..MaxPolls + 1
  /\ queue \in Seq(Requests) /\ Len(queue) <= MaxQueue
  /\ phase \in [Ports -> {"idle", "running", "done"}]
  /\ listed \in Ports \union {None} /\ swayed \in BOOLEAN
  /\ sent \in [fixture : Ports \union {None}, named : Ports \union {None}]

\* A fixture's controls address the port it was found on, for a user who does not
\* change the port under a list or a search.
CommandsReach == swayed \/ sent.fixture = sent.named

SearchOver == swayed \/ (~rdmBusy /\ btn = "ready")

\* A search that is not left ends, though the node never says it is done, and
\* gives the button back.
SearchEnds == []<>SearchOver
=============================================================================
