------------------------------- MODULE TestDesk -------------------------------
(* The DMX Test page of the webpage (data/index.html, embedded in ui.cpp): faders
   and buttons change the desk, and each change posts the whole frame to
   /api/artdmx, a fader's 40 ms after the last movement.  The posts are not queued
   behind one another, unlike those to a node.  Master Cue recalls one scene on
   every online quadETH at once. *)
EXTENDS Naturals, FiniteSets

CONSTANTS
  Channels,  \* channels the user touches
  MaxMoves,  \* changes of the desk
  MaxPosts,  \* frames under way at once
  Quads      \* quadETH nodes

VARIABLES
  testFill, testState, \* the level of all channels, and the channels set apart
  timer,      \* testSendTimer runs
  posts,      \* frames under way, numbered as they were sent
  last,       \* the number of the newest frame
  output,     \* the frame masterETH sent last
  outputOf,   \* its number
  disturbed,  \* a frame was lost, or overtaken by an earlier one
  moves,
  online,     \* quads the page's node list has as online
  cue,        \* per quad the recall: not asked, asked or ended
  ok          \* recalls counted as done, or Running

vars == <<testFill, testState, timer, posts, last, output, outputOf, disturbed, moves, online, cue, ok>>
desk == <<testFill, testState, timer, posts, last, output, outputOf, disturbed, moves>>

Levels == {0, 1}
Unset == 2
Dark == [c \in Channels |-> 0]
Running == "running"

\* testEffective
testEffective(fill, state) == [c \in Channels |-> IF state[c] = Unset THEN fill ELSE state[c]]

Init ==
  /\ testFill = 0 /\ testState = [c \in Channels |-> Unset]
  /\ timer = FALSE /\ posts = {} /\ last = 0 /\ output = Dark /\ outputOf = 0
  /\ disturbed = FALSE /\ moves = 0
  /\ online \in SUBSET Quads /\ cue = [q \in Quads |-> "none"] /\ ok = 0

\* testFrame: the desk as it stands.
Frame(fill, state) ==
  /\ posts' = posts \union {[number |-> last + 1, frame |-> testEffective(fill, state)]}
  /\ last' = last + 1

Room == moves < MaxMoves /\ Cardinality(posts) < MaxPosts /\ moves' = moves + 1

\* All On and Blackout: sent at once; a timer that runs is left to run.
SetAll(level) ==
  /\ Room /\ testFill' = level /\ testState' = [c \in Channels |-> Unset]
  /\ Frame(level, testState')
  /\ UNCHANGED <<timer, output, outputOf, disturbed, online, cue, ok>>

testSetOne(c, level) ==
  /\ Room /\ testState' = [testState EXCEPT ![c] = level]
  /\ Frame(testFill, testState')
  /\ UNCHANGED <<testFill, timer, output, outputOf, disturbed, online, cue, ok>>

\* Mutant: a movement sets no timer.
NotRestarted == UNCHANGED timer

\* testFader, testFrameDebounced: the timer starts anew.
Restarted == timer' = TRUE
testFader(c, level) ==
  /\ moves < MaxMoves /\ moves' = moves + 1
  /\ testState' = [testState EXCEPT ![c] = level]
  /\ Restarted
  /\ UNCHANGED <<testFill, posts, last, output, outputOf, disturbed, online, cue, ok>>

TimerFires ==
  /\ timer /\ Cardinality(posts) < MaxPosts
  /\ timer' = FALSE /\ Frame(testFill, testState)
  /\ UNCHANGED <<testFill, testState, output, outputOf, disturbed, moves, online, cue, ok>>

\* Each post has a connection of its own; the unit serves them in any order.
Served(p) ==
  /\ p \in posts /\ posts' = posts \ {p}
  /\ output' = p.frame /\ outputOf' = p.number
  /\ disturbed' = (disturbed \/ outputOf > p.number)
  /\ UNCHANGED <<testFill, testState, timer, last, moves, online, cue, ok>>
Lost(p) ==
  /\ p \in posts /\ posts' = posts \ {p} /\ disturbed' = TRUE
  /\ UNCHANGED <<testFill, testState, timer, last, output, outputOf, moves, online, cue, ok>>

-----------------------------------------------------------------------------
(* masterCue *)

masterCue ==
  /\ online # {} /\ \A q \in Quads : cue[q] = "none"
  /\ cue' = [q \in Quads |-> IF q \in online THEN "asked" ELSE "none"]
  /\ ok' = Running
  /\ UNCHANGED <<desk, online>>

\* A recall is done or fails; when all have ended the number done is reported.
RecallEnds(q, how) ==
  /\ cue[q] = "asked" /\ cue' = [cue EXCEPT ![q] = how]
  /\ ok' = IF \E r \in Quads : cue'[r] = "asked" THEN ok
           ELSE Cardinality({r \in Quads : cue'[r] = "done"})
  /\ UNCHANGED <<desk, online>>

Next ==
  \/ \E level \in Levels : SetAll(level)
  \/ \E c \in Channels, level \in Levels : testSetOne(c, level) \/ testFader(c, level)
  \/ TimerFires
  \/ \E p \in posts : Served(p) \/ Lost(p)
  \/ masterCue
  \/ \E q \in Quads, how \in {"done", "failed"} : RecallEnds(q, how)

Spec == Init /\ [][Next]_vars

-----------------------------------------------------------------------------
(* With no frame under way and none waiting for its timer, the output is what the
   desk shows, provided no frame was lost or overtaken. *)
Quiet == posts = {} /\ ~timer
OutputIsDesk == Quiet /\ ~disturbed /\ last > 0 => output = testEffective(testFill, testState)

(* Blackout means dark: violated when an earlier frame is served after it. *)
DeskIsOutput == Quiet /\ outputOf > 0 => output = testEffective(testFill, testState)
=============================================================================
