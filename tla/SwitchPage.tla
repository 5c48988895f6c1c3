------------------------------ MODULE SwitchPage ------------------------------
(* The page of a quadNET switch in the webpage (data/index.html, embedded in
   ui.cpp): renderQuadNetDetail paints it, reads the switch once, and then every
   2 s; buttons enable and disable ports, and a change of the switch's address
   sends the user back to the node list.  The page of a visit is left without its
   pending request being cancelled. *)
EXTENDS Naturals, FiniteSets

CONSTANTS
  Switches,   \* online switches
  MaxVisits,  \* pages painted in one run, renames included
  MaxChanges  \* ports switched in one run

VARIABLES
  visits,     \* pages painted so far
  place,      \* the visit whose page is open, or Away
  who,        \* per visit its switch
  loaded,     \* visits whose first refresh has returned
  reading,    \* per visit a request for the state is under way, and what it saw
  timers,     \* visits whose 2 s interval runs
  quadNetTimer, \* the interval that can still be stopped, or Away
  shown,      \* per visit the ports it shows as enabled, or None
  enabled,    \* per switch its enabled ports
  asked,      \* per switch a port change under way: port and target, or None
  changes,
  leaving     \* "location.hash = '#nodes'" is set to happen

vars == <<visits, place, who, loaded, reading, timers, quadNetTimer, shown, enabled, asked, changes, leaving>>

Away == 0
None == {"none"}
Nothing == <<>>
Visits == 1..MaxVisits
Ports == {"P1"}  \* the uplink has no button

Init ==
  /\ visits = 0 /\ place = Away
  /\ who = [v \in Visits |-> "none"] /\ loaded = {}
  /\ reading = [v \in Visits |-> FALSE]
  /\ timers = {} /\ quadNetTimer = Away
  /\ shown = [v \in Visits |-> None]
  /\ enabled = [s \in Switches |-> Ports] /\ asked = [s \in Switches |-> Nothing]
  /\ changes = 0 /\ leaving = FALSE

\* stopQuadNetPoll, on every navigation and at the start of a page
Stopped == timers \ {quadNetTimer}

\* renderQuadNetDetail: opened, or painted again after a rename.
Paint(s) ==
  /\ visits < MaxVisits
  /\ visits' = visits + 1 /\ place' = visits + 1
  /\ who' = [who EXCEPT ![visits + 1] = s]
  /\ reading' = [reading EXCEPT ![visits + 1] = TRUE]
  /\ timers' = Stopped /\ quadNetTimer' = Away
  /\ UNCHANGED <<loaded, shown, enabled, asked, changes, leaving>>

Leave ==
  /\ place # Away /\ place' = Away
  /\ timers' = Stopped /\ quadNetTimer' = Away
  /\ UNCHANGED <<visits, who, loaded, reading, shown, enabled, asked, changes, leaving>>

-----------------------------------------------------------------------------
(* refresh *)

Interval(v) ==
  /\ v \in timers /\ ~reading[v]
  /\ reading' = [reading EXCEPT ![v] = TRUE]
  /\ UNCHANGED <<visits, place, who, loaded, timers, quadNetTimer, shown, enabled, asked, changes, leaving>>

\* Mutant: the first refresh sets no interval.
SettlesUntimed(v) ==
  /\ reading[v] /\ reading' = [reading EXCEPT ![v] = FALSE]
  /\ loaded' = loaded \union {v}
  /\ UNCHANGED <<timers, quadNetTimer, visits, place, who, enabled, asked, changes, leaving>>

\* Behind the first refresh the interval is set, whatever page is open by then.
Settles(v) ==
  /\ reading[v] /\ reading' = [reading EXCEPT ![v] = FALSE]
  /\ loaded' = loaded \union {v}
  /\ timers' = IF v \in loaded THEN timers ELSE timers \union {v}
  /\ quadNetTimer' = IF v \in loaded THEN quadNetTimer ELSE v
  /\ UNCHANGED <<visits, place, who, enabled, asked, changes, leaving>>

\* "if (currentPage !== 'node-detail' || detailNode !== n) return"; the requests
\* to one switch are answered in order, so the answer is its present state.
Wanted(v) == place = v
StateRead(v) ==
  /\ shown' = IF Wanted(v) THEN [shown EXCEPT ![v] = enabled[who[v]]] ELSE shown
  /\ Settles(v)
StateLost(v) == UNCHANGED shown /\ Settles(v)

-----------------------------------------------------------------------------
(* The user *)

\* A button asks for the opposite of what was shown, and is dead meanwhile.
Press(p) ==
  /\ place # Away /\ shown[place] # None
  /\ asked[who[place]] = Nothing /\ changes < MaxChanges
  /\ asked' = [asked EXCEPT ![who[place]] = <<p, p \notin shown[place], place>>]
  /\ changes' = changes + 1
  /\ UNCHANGED <<visits, place, who, loaded, reading, timers, quadNetTimer, shown, enabled, leaving>>

\* GET /p: done, and the state is read again; refused with 409, or lost.
PortSwitched(s) ==
  /\ asked[s] # Nothing /\ asked' = [asked EXCEPT ![s] = Nothing]
  /\ LET p == asked[s][1] IN
       enabled' = [enabled EXCEPT ![s] = IF asked[s][2] THEN @ \union {p} ELSE @ \ {p}]
  /\ reading' = [reading EXCEPT ![asked[s][3]] = TRUE]
  /\ UNCHANGED <<visits, place, who, loaded, timers, quadNetTimer, shown, changes, leaving>>
PortRefused(s) ==
  /\ asked[s] # Nothing /\ asked' = [asked EXCEPT ![s] = Nothing]
  /\ UNCHANGED <<visits, place, who, loaded, reading, timers, quadNetTimer, shown, enabled, changes, leaving>>

\* GET /net, answered or not: the node list opens 1.5 s later.
SetAddress ==
  /\ place # Away /\ shown[place] # None /\ ~leaving /\ leaving' = TRUE
  /\ UNCHANGED <<visits, place, who, loaded, reading, timers, quadNetTimer, shown, enabled, asked, changes>>
SentHome ==
  /\ leaving /\ leaving' = FALSE /\ place' = Away
  /\ timers' = Stopped /\ quadNetTimer' = Away
  /\ UNCHANGED <<visits, who, loaded, reading, shown, enabled, asked, changes>>

Answers(v) == StateRead(v) \/ StateLost(v)
Next ==
  \/ \E s \in Switches : Paint(s) \/ PortSwitched(s) \/ PortRefused(s)
  \/ \E v \in Visits : Interval(v) \/ Answers(v)
  \/ \E p \in Ports : Press(p)
  \/ Leave \/ SetAddress \/ SentHome

\* Every request ends; an interval fires every 2 s; a switch answers now and then.
Fair ==
  /\ \A v \in Visits : WF_vars(Interval(v)) /\ WF_vars(Answers(v)) /\ SF_vars(StateRead(v))
  /\ \A s \in Switches : WF_vars(PortSwitched(s) \/ PortRefused(s))
Spec == Init /\ [][Next]_vars /\ Fair

-----------------------------------------------------------------------------
PortsSeen(v) == place = v => shown[v] = enabled[who[v]]

(* Whoever stays on a switch's page ends up seeing its ports as they are, lost
   answers and earlier visits notwithstanding. *)
SeesPorts == \A v \in Visits : <>[](place = v) => <>[]PortsSeen(v)

(* "Light 2s poll while the page is open; torn down by stopPollTimer()": no
   interval runs for a page that is not open.  It does when the page is left
   before the first answer, and can then no longer be stopped. *)
TornDown == timers \subseteq {place}
=============================================================================
