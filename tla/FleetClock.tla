----------------------------- MODULE FleetClock -----------------------------
(***************************************************************************)
(* The shared LED clock of src/include/FleetClock.h: the units on a LAN    *)
(* elect the lowest MAC among them, that unit broadcasts its time once a   *)
(* second, and the others follow.  The code keeps millis() stamps; here    *)
(* each unit has the ages of those stamps, up to the value from which the  *)
(* code no longer tells them apart.  A unit's clock is its offset from     *)
(* true time, counted modulo Clock: the millis() of all units run equally  *)
(* fast, so an offset changes only when a packet is handled.               *)
(***************************************************************************)
EXTENDS Integers, FiniteSets, Sequences

CONSTANTS
  Unit,       \* the MACs, as numbers
  Ttl,        \* LEADER_TTL_MS
  Listen,     \* LISTEN_MS
  Every,      \* SEND_EVERY_MS
  Step,       \* STEP_MS
  Clock,      \* values of the fleet time
  Fine,       \* by how much the fleet time advances in one unit of time
  MaxStall,   \* longest time between two passes of a unit's loop()
  InboxCap,   \* packets a unit's receive buffer holds
  MaxJoins,   \* bounds on how often units are switched on ...
  MaxLeaves   \* ... and off

ASSUME UnitAssumption  == Unit \subseteq Nat /\ IsFiniteSet(Unit)
ASSUME TimeAssumption  == /\ {Ttl, Listen, Every, Step, Clock} \subseteq Nat \ {0}
                          /\ {Fine, MaxStall} \subseteq Nat
                          /\ 2 * Step < Clock
ASSUME BoundAssumption == {InboxCap, MaxJoins, MaxLeaves} \subseteq Nat

VARIABLES
  up,      \* units that run
  age,     \* time since startMs_, up to Listen + Every
  leader,  \* leader_
  heard,   \* time since leaderMs_; Ttl stands for longer, and for never
  sent,    \* time since lastSendMs_; Every stands for longer, and for never
  offset,  \* now() - true time
  inbox,   \* beats in the receive buffer: sender, and its time by now
  blocked, \* between readUdp() and poll(): an identify probe is under way
  lag,     \* time since the last poll() (an assumption on the loop)
  joins, leaves,
  calm     \* history: every such change found the fleet settled

vars == <<up, age, leader, heard, sent, offset, inbox, blocked, lag, joins, leaves, calm>>

Lowest(S) == CHOOSE u \in S : \A v \in S : u <= v

Following(u) == heard[u] < Ttl                   \* followingSomeone
Listening(u) == age[u] < Listen
LeaderOf(u)  == IF Following(u) THEN leader[u] ELSE u     \* leaderMac
-----------------------------------------------------------------------------
(* Correcting a clock *)

Abs(x) == IF x < 0 THEN -x ELSE x

\* The difference of two clock values, as an int32_t.
Error(t, mine) == ((t - mine + Clock \div 2) % Clock) - Clock \div 2

Half(x) == IF x < 0 THEN -((-x) \div 2) ELSE x \div 2

\* Mutant: a small error is left alone.
CorrectedByStep(mine, t) ==
  LET e == Error(t, mine) IN IF Abs(e) > Step THEN t ELSE mine

\* Mutant: the sum does not wrap.
CorrectedUnwrapped(mine, t) ==
  LET e == Error(t, mine) IN IF Abs(e) > Step THEN t ELSE mine + Half(e)

Corrected(mine, t) ==
  LET e == Error(t, mine)
  IN  IF Abs(e) > Step THEN t ELSE (mine + Half(e)) % Clock

Earlier(p) == [p EXCEPT !.time = (@ - Fine) % Clock]
-----------------------------------------------------------------------------
(* One unit *)

\* Mutant: a unit that listens takes no time from those it will lead.
IgnoresAll(u, p) == IF p.from > u THEN TRUE ELSE Following(u) /\ p.from > leader[u]

Ignores(u, p) == IF p.from > u THEN ~Listening(u) \/ Following(u)
                 ELSE Following(u) /\ p.from > leader[u]

Follows(u, p) == p.from < u

\* Mutant: only the first beat of a leader counts.
HeardOnce(u, p) == IF leader[u] = p.from THEN heard[u] ELSE 0

Heard(u, p) == 0

Read(u) ==                                       \* handle()
  /\ u \in up
  /\ inbox[u] # <<>> /\ ~blocked[u]
  /\ LET p == Head(inbox[u]) IN
     IF Ignores(u, p) THEN UNCHANGED <<leader, heard, offset>>
     ELSE /\ offset' = [offset EXCEPT ![u] = Corrected(@, p.time)]
          /\ IF Follows(u, p)
             THEN leader' = [leader EXCEPT ![u] = p.from] /\ heard' = [heard EXCEPT ![u] = Heard(u, p)]
             ELSE UNCHANGED <<leader, heard>>
  /\ inbox' = [inbox EXCEPT ![u] = Tail(@)]
  /\ UNCHANGED <<up, age, sent, blocked, lag, joins, leaves, calm>>

Sends(u) == ~Listening(u) /\ ~Following(u) /\ sent[u] >= Every

Beat == [from : Unit, time : 0 .. Clock - 1]

Broadcast(u) ==
  inbox' = [v \in Unit |->
              IF v \in up \ {u} /\ Len(inbox[v]) < InboxCap
              THEN Append(inbox[v], [from |-> u, time |-> offset[u]]) ELSE inbox[v]]

\* All is read and a probe is due: once in a unit of time if it is short.
Block(u) ==
  /\ u \in up
  /\ lag[u] > 0 \/ lag[u] < MaxStall
  /\ inbox[u] = <<>> /\ ~blocked[u]
  /\ blocked' = [blocked EXCEPT ![u] = TRUE]
  /\ UNCHANGED <<up, age, leader, heard, sent, offset, inbox, lag, joins, leaves, calm>>

Poll(u) ==                                       \* poll()
  /\ u \in up
  /\ inbox[u] = <<>> \/ blocked[u]
  /\ blocked' = [blocked EXCEPT ![u] = FALSE]
  /\ lag' = [lag EXCEPT ![u] = 0]
  /\ IF Sends(u) THEN Broadcast(u) /\ sent' = [sent EXCEPT ![u] = 0]
                 ELSE UNCHANGED <<inbox, sent>>
  /\ UNCHANGED <<up, age, leader, heard, offset, joins, leaves, calm>>
-----------------------------------------------------------------------------
(* Time, and units that come and go *)

Settled ==
  /\ \A u \in up : /\ LeaderOf(u) = Lowest(up) /\ ~Listening(u)
                   /\ inbox[u] = <<>>
  /\ \A u, v \in up : Abs(Error(offset[u], offset[v])) <= Step

Capped(x, top) == IF x < top THEN x + 1 ELSE top

Elapse ==
  /\ \A u \in up : (inbox[u] = <<>> /\ lag[u] = 0 /\ ~blocked[u]) \/ lag[u] < MaxStall
  /\ lag'   = [u \in Unit |-> IF u \in up THEN lag[u] + 1 ELSE 0]
  /\ age'   = [u \in Unit |-> IF u \in up THEN Capped(age[u], Listen + Every) ELSE 0]
  /\ heard' = [u \in Unit |-> Capped(heard[u], Ttl)]
  /\ sent'  = [u \in Unit |-> Capped(sent[u], Every)]
  /\ inbox' = [u \in Unit |-> [i \in 1 .. Len(inbox[u]) |-> Earlier(inbox[u][i])]]
  /\ UNCHANGED <<up, leader, offset, blocked, joins, leaves, calm>>

\* begin(): a fresh object, with a clock that shows the time since power-on.
Fresh(u, t) ==
  /\ age'    = [age EXCEPT ![u] = 0]
  /\ leader' = [leader EXCEPT ![u] = u]
  /\ heard'  = [heard EXCEPT ![u] = Ttl]
  /\ sent'   = [sent EXCEPT ![u] = Every]
  /\ offset' = [offset EXCEPT ![u] = t]
  /\ inbox'  = [inbox EXCEPT ![u] = <<>>]
  /\ blocked' = [blocked EXCEPT ![u] = FALSE]
  /\ lag'    = [lag EXCEPT ![u] = 0]

Join(u, t) ==
  /\ u \notin up /\ joins < MaxJoins
  /\ joins = 0 => t = 0                          \* true time is the first unit's
  /\ calm' = (calm /\ Settled)
  /\ up' = up \cup {u} /\ joins' = joins + 1
  /\ Fresh(u, t)
  /\ UNCHANGED leaves

Leave(u) ==
  /\ u \in up /\ leaves < MaxLeaves
  /\ calm' = (calm /\ Settled)
  /\ up' = up \ {u} /\ leaves' = leaves + 1
  /\ Fresh(u, 0)
  /\ UNCHANGED joins

Init ==
  /\ up = {}
  /\ age = [u \in Unit |-> 0] /\ lag = [u \in Unit |-> 0]
  /\ blocked = [u \in Unit |-> FALSE]
  /\ leader = [u \in Unit |-> u]
  /\ heard = [u \in Unit |-> Ttl] /\ sent = [u \in Unit |-> Every]
  /\ offset = [u \in Unit |-> 0]
  /\ inbox = [u \in Unit |-> <<>>]
  /\ joins = 0 /\ leaves = 0 /\ calm = TRUE

Next == \/ Elapse
        \/ \E u \in Unit : \/ Read(u) \/ Block(u) \/ Poll(u) \/ Leave(u)
                           \/ \E t \in 0 .. Clock - 1 : Join(u, t)

Spec == Init /\ [][Next]_vars
FairSpec == Spec /\ WF_vars(Elapse) /\ \A u \in Unit : WF_vars(Read(u)) /\ WF_vars(Poll(u))
-----------------------------------------------------------------------------
(* Properties *)

TypeOK ==
  /\ up \subseteq Unit
  /\ age \in [Unit -> 0 .. Listen + Every]
  /\ leader \in [Unit -> Unit]
  /\ heard \in [Unit -> 0 .. Ttl]
  /\ sent \in [Unit -> 0 .. Every]
  /\ offset \in [Unit -> 0 .. Clock - 1]
  /\ inbox \in [Unit -> Seq(Beat)] /\ \A u \in Unit : Len(inbox[u]) <= InboxCap
  /\ blocked \in [Unit -> BOOLEAN]
  /\ lag \in [Unit -> 0 .. MaxStall + 1]
  /\ joins \in 0 .. MaxJoins /\ leaves \in 0 .. MaxLeaves /\ calm \in BOOLEAN

\* As long as units come and go one at a time, each change finding a fleet
\* that has settled, no unit that is past its start sees its LEDs jump: not
\* when it loses its leader, takes over, or hands over to a lower one.
Established(u) == u \in up /\ age[u] = Listen + Every
Smooth(u) == Established(u) /\ u \in up' => Abs(Error(offset'[u], offset[u])) <= Step
NoJump == [][ calm' => \A u \in Unit : Smooth(u) ]_vars

\* The same whatever units do: "a new lowest-MAC unit picks up the clock the
\* fleet already has and takes the lead without anyone's LEDs jumping".
NeverJumps == [][ \A u \in Unit : Smooth(u) ]_vars

\* Once units stop coming and going, all agree for ever that the lowest of
\* them leads ("the unit with the lowest MAC heard"), and every clock is the
\* leader's but for the last millisecond, which halving does not correct.
OneLeader == <>[] \A u \in up : LeaderOf(u) = Lowest(up)
OneClock  == <>[] \A u \in up : Abs(Error(offset[Lowest(up)], offset[u])) <= 1
============================================================================
