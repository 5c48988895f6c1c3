------------------------------ MODULE ScanPanel ------------------------------
(* The LAN scanner's panel on the Network page of the webpage (data/index.html,
   embedded in ui.cpp): it starts and stops masterETH's scan and asks for its
   progress, every 1.5 s once the user has started one.  The unit serves one
   request after the other, in any order of those that wait, and its answers are
   taken to arrive in the order in which it wrote them. *)
EXTENDS Naturals, Sequences

CONSTANTS
  Hosts,      \* addresses a scan goes through
  MaxPolls,   \* requests for the progress waiting, and answers on their way
  MaxScans,   \* scans started in one run
  MaxVisits   \* how often the page is opened

VARIABLES
  active, done, \* the unit's scan: running, and addresses finished
  scans,
  open,       \* the Network page is open
  visits,
  timer,      \* scannerPollTimer runs
  due,        \* its next tick has come
  polls,      \* GET /api/scan waiting to be served
  asked,      \* POST /api/scan: none, sent, or served
  answers,    \* what the unit has answered
  shown,      \* what the panel shows
  met         \* the page was opened while a scan ran, or a request was lost

unit == <<active, done, scans>>
panel == <<open, visits, timer, due, shown>>
vars == <<unit, panel, polls, asked, answers, met>>

Blank == [active |-> FALSE, done |-> 0]
Now == [active |-> active, done |-> done]

Init ==
  /\ active \in BOOLEAN /\ done = 0 /\ scans = IF active THEN 1 ELSE 0
  /\ open = FALSE /\ visits = 0 /\ timer = FALSE /\ due = FALSE
  /\ polls = 0 /\ asked = "none" /\ answers = <<>> /\ shown = Blank /\ met = FALSE

Room == polls < MaxPolls
pollScanOnce == polls' = polls + 1

-----------------------------------------------------------------------------
(* The unit *)

ScanStep ==
  /\ active /\ done' = done + 1 /\ active' = (done + 1 < Hosts)
  /\ UNCHANGED <<scans, panel, polls, asked, answers, met>>

Says(what, a, d) == answers' = Append(answers, [what |-> what, active |-> a, done |-> d])
ServePoll ==
  /\ polls > 0 /\ Len(answers) < MaxPolls
  /\ polls' = polls - 1 /\ Says("progress", active, done)
  /\ UNCHANGED <<unit, panel, asked, met>>
ServeStart ==
  /\ asked = "sent" /\ Len(answers) < MaxPolls /\ asked' = "served"
  /\ IF active THEN Says("refused", active, done) /\ UNCHANGED unit
     ELSE /\ active' = TRUE /\ done' = 0 /\ scans' = scans + 1
          /\ Says("started", TRUE, 0)
  /\ UNCHANGED <<panel, polls, met>>

-----------------------------------------------------------------------------
(* The panel *)

\* stopPollTimer, in every navigation: stopScanPoll.
stopScanPoll == timer' = FALSE /\ due' = FALSE

\* renderSwitchTools, wireScanner: "reflect any scan already in progress"
OpenPage ==
  /\ ~open /\ visits < MaxVisits /\ Room
  /\ stopScanPoll
  /\ open' = TRUE /\ visits' = visits + 1 /\ shown' = Blank /\ pollScanOnce
  /\ met' = (met \/ active \/ asked # "none")
  /\ UNCHANGED <<unit, asked, answers>>
LeavePage ==
  /\ open /\ open' = FALSE
  /\ stopScanPoll
  /\ UNCHANGED <<unit, visits, shown, polls, asked, answers, met>>

\* The Start button is hidden while the panel shows a scan.
PressStart ==
  /\ open /\ scans < MaxScans /\ ~shown.active /\ asked = "none" /\ asked' = "sent"
  /\ UNCHANGED <<unit, panel, polls, answers, met>>

\* Stop: served or lost, the timer ends and the progress is asked for once.
PressStop(served) ==
  /\ open /\ shown.active /\ Room
  /\ active' = (active /\ ~served) /\ met' = (met \/ active')
  /\ stopScanPoll /\ pollScanOnce
  /\ UNCHANGED <<done, scans, open, visits, shown, asked, answers>>

Tick ==
  /\ timer /\ ~due /\ due' = TRUE
  /\ UNCHANGED <<unit, open, visits, timer, shown, polls, asked, answers, met>>
TimedPoll ==
  /\ due /\ due' = FALSE
  /\ IF open THEN Room /\ pollScanOnce /\ UNCHANGED timer ELSE timer' = FALSE /\ UNCHANGED polls
  /\ UNCHANGED <<unit, open, visits, shown, asked, answers, met>>

\* Mutant: a started scan is asked about once.
startScanPollOnce == stopScanPoll /\ polls' = IF open THEN polls + 1 ELSE polls

\* startScanPoll: one request now, if the page is open, and a timer whatever page is
\* open; off the Network page its first tick ends it (pollScanOnce).
startScanPoll ==
  /\ timer' = TRUE /\ due' = FALSE
  /\ polls' = IF open THEN polls + 1 ELSE polls
\* Progress is painted where the panel is, and ends the timer when it says so.
Paint(a) ==
  /\ shown' = [active |-> a.active, done |-> a.done]
  /\ timer' = (timer /\ a.active) /\ due' = (due /\ a.active)
  /\ UNCHANGED polls
Progress == answers # <<>> /\ Head(answers).what = "progress"
Returned == IF Progress THEN asked ELSE "none"
Arrives ==
  /\ answers # <<>> /\ answers' = Tail(answers)
  /\ LET a == Head(answers) IN
       CASE a.what = "started" -> startScanPoll /\ UNCHANGED shown
         [] a.what = "progress" /\ open -> Paint(a)
         [] OTHER -> UNCHANGED <<timer, due, shown, polls>>
  /\ asked' = Returned /\ UNCHANGED <<unit, open, visits, met>>
\* A lost answer: the interval asks again, if it runs.
AnswerLost ==
  /\ answers # <<>> /\ answers' = Tail(answers)
  /\ met' = (met \/ ~timer \/ Head(answers).what # "progress")
  /\ asked' = Returned /\ UNCHANGED <<unit, panel, polls>>

Next ==
  \/ ScanStep \/ ServePoll \/ ServeStart
  \/ OpenPage \/ LeavePage \/ PressStart \/ Tick \/ TimedPoll \/ Arrives \/ AnswerLost
  \/ \E served \in BOOLEAN : PressStop(served)

\* The scan goes on, timers fire, progress is served, every answer arrives or is lost,
\* and of the answers about progress some arrive.
Fair ==
  /\ WF_vars(ScanStep) /\ WF_vars(Tick) /\ WF_vars(TimedPoll)
  /\ WF_vars(ServePoll) /\ WF_vars(Arrives \/ AnswerLost)
  /\ SF_vars(Progress /\ Arrives)
Spec == Init /\ [][Next]_vars /\ Fair

-----------------------------------------------------------------------------
Stays == open /\ ~met
ShownNow == shown = Now

(* Who stays on the page ends up seeing the scan as it ended, and who leaves it
   leaves no timer behind; unless the page met a scan already running, or an
   answer was lost that no timer asks for again. *)
PanelCatchesUp == <>[]Stays => <>[]ShownNow
TimerGone == <>[](~open) => <>[](~timer)

(* "reflect any scan already in progress when the tab opens": once, and never
   again, for nothing starts the timer. *)
ReflectsScan == <>[]open => <>[]ShownNow
=============================================================================
