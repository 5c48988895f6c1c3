----------------------------- MODULE Discovery -----------------------------
(***************************************************************************)
(* How masterETH keeps track of its fleet: the ArtPoll loop and the        *)
(* identify probes of src/discovery.cpp, the node table of                 *)
(* src/nodeRegistry.cpp with its cache in EEPROM, and the once-a-second    *)
(* expiry of loop() in src/main.cpp, together with the devices on the      *)
(* network.  One unit of time is the shortest pass of loop().  The timers  *)
(* here are compared the way the code does it, as plain uint32_t values.   *)
(***************************************************************************)
EXTENDS Integers, FiniteSets, Sequences, TLAPS, WellFoundedInduction

CONSTANTS
  Mac,           \* the Art-Net devices
  NoMac,
  Kind,          \* device -> what its web server answers to /api/identify
  Ip,            \* their addresses
  NoIp,          \* 0.0.0.0
  SlotCap,       \* NODE_REGISTRY_CAP
  PollPeriod,    \* POLL_PERIOD_MS
  RetryPeriod,   \* 2 * POLL_PERIOD_MS, after a probe that got no answer
  ReprobePeriod, \* REPROBE_PERIOD_MS
  OfflineAfter,  \* OFFLINE_AFTER_MS
  StatusPeriod,  \* the 1000 of loop()'s statusTimer
  MaxPass,       \* longest pass of loop(), the probe not counted
  MaxProbe,      \* longest identify probe
  ClockSize,     \* values of millis()
  Wraps,         \* FALSE: behaviours shorter than ClockSize only
  WireCap,       \* packets the socket's receive buffer holds
  MaxBoots       \* bound on the number of reboots

ASSUME IdAssumption    == NoMac \notin Mac /\ NoIp \notin Ip
ASSUME KindAssumption  == Kind \in [Mac -> {"v74", "older", "foreign", "garbled", "silent"}]
ASSUME SizeAssumption  == /\ {SlotCap, ClockSize, MaxPass} \subseteq Nat \ {0}
                          /\ {WireCap, MaxBoots, MaxProbe} \subseteq Nat
                          /\ Wraps \in BOOLEAN
ASSUME TimerAssumption ==
  {PollPeriod, RetryPeriod, ReprobePeriod, OfflineAfter, StatusPeriod} \subseteq 1 .. ClockSize - 1

Slot   == 1 .. SlotCap
Compat == {"unknown", "compatible", "incompatible", "readonly"}

VARIABLES
  node,        \* g_nodes
  cache,       \* its records in EEPROM
  now,         \* millis()
  nextPoll,    \* g_nextPollMs
  pollAsked,   \* g_immediatePollRequested
  statusTimer, \* statusTimer
  pc,          \* where loop() is
  wire,        \* ArtPollReplies in the socket's receive buffer
  up, home,    \* the devices that run, and each one's address
  polled,      \* devices that heard an ArtPoll and have not answered it
  boots        \* reboots so far

timers  == <<now, nextPoll, pollAsked, statusTimer>>
network == <<up, home, polled>>
vars    == <<node, cache, now, nextPoll, pollAsked, statusTimer, pc, wire, up, home, polled, boots>>
-----------------------------------------------------------------------------
(* The clock *)

Ms(x)       == IF Wraps THEN x % ClockSize ELSE x
Since(t, u) == (t - u) % ClockSize
Advance(d)  == (~Wraps => now + d < ClockSize) /\ now' = Ms(now + d)
-----------------------------------------------------------------------------
(* The node table *)

\* name stands for all that /api/identify told (nodeName, deviceType, version,
\* serial): the device it came from.  at is history: the address it came from.
Unused == [mac |-> NoMac, ip |-> NoIp, name |-> NoMac, at |-> NoIp, compat |-> "unknown",
           seen |-> 0, due |-> 0, online |-> FALSE]
Stable(n) == [mac |-> n.mac, name |-> n.name, compat |-> n.compat]

Used  == { s \in Slot : node[s].mac # NoMac }
Least(S) == CHOOSE x \in S : \A y \in S : x <= y

\* Mutant: devices are told apart by address.
MatchesByIp(s, m, a) == node[s].ip = a

Matches(s, m, a) == node[s].mac = m              \* findByMac

\* Mutant: a device that moved is not probed again.
TouchedOnly(n, a) == [n EXCEPT !.seen = now, !.online = TRUE, !.ip = a]

Touched(n, a) == [n EXCEPT !.seen = now, !.online = TRUE, !.ip = a,
                           !.due = IF n.ip # a THEN now ELSE n.due]

\* nodeRegistryNoteSeen: touch the known device, or add it while there is room.
NoteSeen(m, a) ==
  LET known == { s \in Used : Matches(s, m, a) }
      free  == Slot \ Used
  IN  node' = IF known # {} THEN [node EXCEPT ![Least(known)] = Touched(@, a)]
              ELSE IF free # {} THEN
                [node EXCEPT ![Least(free)] =
                   [Unused EXCEPT !.mac = m, !.ip = a, !.seen = now, !.due = now, !.online = TRUE]]
              ELSE node

\* Mutant: a node that was never heard of again stays online.
ExpiredNever(n) == FALSE

Silent(n) == Since(now, n.seen) > OfflineAfter

Save   == cache' = [s \in Slot |-> Stable(node'[s])]
Loaded == [s \in Slot |-> IF cache[s].mac = NoMac THEN Unused
                          ELSE [Unused EXCEPT !.mac = cache[s].mac, !.name = cache[s].name,
                                              !.compat = cache[s].compat]]
-----------------------------------------------------------------------------
(* discoveryTick(), called once in every pass of loop() *)

Poll(d) ==
  /\ pc = "poll"
  /\ Advance(d)
  /\ \/ /\ pollAsked \/ now' >= nextPoll
        /\ \E heard \in SUBSET up : polled' = polled \cup heard
        /\ pollAsked' = FALSE
        /\ nextPoll' = Ms(now' + PollPeriod)
     \/ /\ ~pollAsked /\ now' < nextPoll
        /\ UNCHANGED <<polled, pollAsked, nextPoll>>
  /\ pc' = "read"
  /\ UNCHANGED <<node, cache, statusTimer, wire, up, home, boots>>

ReadReply ==                                     \* parseArtPollReply
  /\ pc = "read"
  /\ wire # <<>>
  /\ NoteSeen(Head(wire).mac, Head(wire).ip)
  /\ wire' = Tail(wire)
  /\ UNCHANGED <<cache, timers, pc, network, boots>>

ReadDone ==
  /\ pc = "read"
  /\ wire = <<>>
  /\ pc' = "drain"
  /\ UNCHANGED <<node, cache, timers, wire, network, boots>>

Due == { s \in Used : node[s].due <= now }

\* What the probe of an address may find: the device that has it now, or nothing.
Answers(a) == { m \in up : home[m] = a /\ Kind[m] # "silent" }

Probed(s, n) == node' = [node EXCEPT ![s] = n]

\* No connection, or no answer in time: "leave compat as-is".
ProbeFailed(s) == /\ Probed(s, [node[s] EXCEPT !.due = Ms(now' + RetryPeriod)])
                  /\ UNCHANGED cache

\* nodeRegistryNoteIncompatible leaves the strings of an earlier answer alone.
Incompatible(s) == Probed(s, [node[s] EXCEPT !.compat = "incompatible", !.at = node[s].ip,
                                             !.due = Ms(now' + ReprobePeriod)])

\* versionAtLeast74: firmware that is older can only be read.
Verdict(m) == IF Kind[m] = "v74" THEN "compatible" ELSE "readonly"

\* Mutant: the table is not saved after an answer.
IdentifiedUnsaved(s, m) ==
  /\ Probed(s, [node[s] EXCEPT !.name = m, !.at = node[s].ip, !.due = Ms(now' + ReprobePeriod),
                  !.compat = Verdict(m)])
  /\ UNCHANGED cache

Identified(s, m) ==                              \* nodeRegistryNoteIdentified
  /\ Probed(s, [node[s] EXCEPT !.name = m, !.at = node[s].ip, !.due = Ms(now' + ReprobePeriod),
                  !.compat = Verdict(m)])
  /\ Save

ProbeAnswered(s, m) ==
  \/ Kind[m] = "garbled" /\ Incompatible(s) /\ UNCHANGED cache    \* not JSON: not saved
  \/ Kind[m] = "foreign" /\ Incompatible(s) /\ Save
  \/ Kind[m] \in {"v74", "older"} /\ Identified(s, m)

\* identifyProbe of the first slot that is due: one a pass, and it blocks loop().
\* Only the probe of 0.0.0.0 is known to fail at once.
Drain(d) ==
  /\ pc = "drain"
  /\ IF Due = {} THEN d = 0 /\ UNCHANGED <<node, cache, now>>
     ELSE LET s == Least(Due) IN
          /\ Advance(d)
          /\ \/ (node[s].ip = NoIp => d = 0) /\ ProbeFailed(s)
             \/ \E m \in Answers(node[s].ip) : ProbeAnswered(s, m)
  /\ pc' = "status"
  /\ UNCHANGED <<nextPoll, pollAsked, statusTimer, wire, network, boots>>
-----------------------------------------------------------------------------
(* The rest of loop(), and boot *)

Status ==                                        \* nodeRegistryExpire, once a second
  /\ pc = "status"
  /\ IF statusTimer < now
     THEN /\ node' = [s \in Slot |-> IF s \in Used /\ Silent(node[s])
                                     THEN [node[s] EXCEPT !.online = FALSE] ELSE node[s]]
          /\ statusTimer' = Ms(now + StatusPeriod)
     ELSE UNCHANGED <<node, statusTimer>>
  /\ pc' = "poll"
  /\ UNCHANGED <<cache, now, nextPoll, pollAsked, wire, network, boots>>

Refresh ==                                       \* POST /api/nodes/refresh
  /\ pc = "poll"
  /\ pollAsked' = TRUE
  /\ UNCHANGED <<node, cache, now, nextPoll, statusTimer, pc, wire, network, boots>>

Reboot ==                                        \* power cut, then discoveryBegin()
  /\ boots < MaxBoots
  /\ boots' = boots + 1
  /\ node' = Loaded
  /\ now' = 0 /\ nextPoll' = 1 /\ statusTimer' = 0 /\ pollAsked' = FALSE
  /\ pc' = "poll"
  /\ wire' = <<>>
  /\ polled' = {}
  /\ UNCHANGED <<cache, up, home>>
-----------------------------------------------------------------------------
(* The devices *)

Answer(m) ==                                     \* lost when the buffer is full
  /\ m \in up /\ m \in polled
  /\ polled' = polled \ {m}
  /\ wire' = IF Len(wire) < WireCap THEN Append(wire, [mac |-> m, ip |-> home[m]]) ELSE wire
  /\ UNCHANGED <<node, cache, timers, pc, up, home, boots>>

PowerOff(m) ==
  /\ up' = up \ {m}
  /\ polled' = polled \ {m}
  /\ m \in up
  /\ UNCHANGED <<node, cache, timers, pc, wire, home, boots>>

PowerOn(m, a) ==                                 \* with a new address, or the old one
  /\ m \notin up
  /\ \A k \in up : home[k] # a
  /\ up' = up \cup {m}
  /\ home' = [home EXCEPT ![m] = a]
  /\ UNCHANGED <<node, cache, timers, pc, wire, polled, boots>>

Loop == \/ \E d \in 1 .. MaxPass : Poll(d)
        \/ ReadReply \/ ReadDone
        \/ \E d \in 0 .. MaxProbe : Drain(d)
        \/ Status

Init ==
  /\ node = [s \in Slot |-> Unused]
  /\ cache = [s \in Slot |-> Stable(Unused)]
  /\ now = 0 /\ nextPoll = 1 /\ statusTimer = 0 /\ pollAsked = FALSE
  /\ pc = "poll"
  /\ wire = <<>>
  /\ up = {} /\ polled = {}
  /\ home \in [Mac -> Ip]
  /\ boots = 0

Next == \/ Loop \/ Refresh \/ Reboot
        \/ \E m \in Mac : Answer(m) \/ PowerOff(m) \/ \E a \in Ip : PowerOn(m, a)

Spec == Init /\ [][Next]_vars
-----------------------------------------------------------------------------
(* Properties *)

Deadline == 0 .. 2 * ClockSize - 1

TypeOK ==
  /\ node \in [Slot -> [mac : Mac \cup {NoMac}, ip : Ip \cup {NoIp}, name : Mac \cup {NoMac},
                       at : Ip \cup {NoIp}, compat : Compat, seen : 0 .. ClockSize - 1,
                       due : Deadline, online : BOOLEAN]]
  /\ cache \in [Slot -> [mac : Mac \cup {NoMac}, name : Mac \cup {NoMac}, compat : Compat]]
  /\ now \in 0 .. ClockSize - 1
  /\ {nextPoll, statusTimer} \subseteq Deadline
  /\ pollAsked \in BOOLEAN
  /\ pc \in {"poll", "read", "drain", "status"}
  /\ wire \in Seq([mac : Mac, ip : Ip]) /\ Len(wire) <= WireCap
  /\ up \subseteq Mac /\ polled \subseteq Mac
  /\ home \in [Mac -> Ip]
  /\ boots \in 0 .. MaxBoots

\* A device has one entry, in the table and in its saved image, however it
\* moves, disappears, returns and whenever the manager reboots: MAC is "the
\* only stable identifier" (nodeRegistryNoteSeen, Save, Load).
DevicesDistinct ==
  \A s, t \in Slot : /\ node[s].mac # NoMac /\ node[s].mac = node[t].mac => s = t
                     /\ cache[s].mac # NoMac /\ cache[s].mac = cache[t].mac => s = t

\* What was learned of a device survives every reboot: the saved image holds
\* its entry, in the same slot, with what it last said of itself.
IdentityKept ==
  \A s \in Used : node[s].name # NoMac =>
     cache[s].mac = node[s].mac /\ cache[s].name = node[s].name

\* A verdict reached at another address is never left for the long re-probe
\* period: from the move on, a probe is due within the retry period.
MovedIsReprobed ==
  \A s \in Used : node[s].compat # "unknown" /\ node[s].at # node[s].ip =>
     node[s].due <= now + RetryPeriod

\* A node shown online was heard within the offline period, one status period
\* and one pass of loop().
OnlineIsRecent ==
  \A s \in Used : node[s].online =>
     Since(now, node[s].seen) <= OfflineAfter + StatusPeriod + MaxPass + MaxProbe

\* The saved verdict is the one shown: "Persist even incompatible nodes".
VerdictKept ==
  \A s \in Used : node[s].compat # "unknown" => cache[s].compat = node[s].compat
-----------------------------------------------------------------------------
(* Proofs: for any devices, addresses, periods, table and clock *)

NodeRecord == [mac : Mac \cup {NoMac}, ip : Ip \cup {NoIp}, name : Mac \cup {NoMac},
               at : Ip \cup {NoIp}, compat : Compat, seen : 0 .. ClockSize - 1,
               due : Deadline, online : BOOLEAN]
Letter     == [mac : Mac, ip : Ip]

LessThan == { p \in Nat \X Nat : p[1] < p[2] }

\* The least of a non-empty set of slots is one of them.
LEMMA LeastIn ==
  ASSUME NEW S \in SUBSET Slot, S # {}
  PROVE  Least(S) \in S
<1>1. S \in SUBSET Nat
  BY SizeAssumption DEF Slot
<1>2. IsWellFoundedOn(LessThan, Nat)
  BY NatLessThanWellFounded, SMT DEF OpToRel, LessThan
<1>3. PICK x \in S : \A y \in S : ~ (<<y, x>> \in LessThan)
  BY <1>1, <1>2, WFMin
<1>4. ASSUME NEW y \in S PROVE x <= y
  <2>1. x \in Nat /\ y \in Nat
    BY <1>1
  <2>2. <<y, x>> \notin LessThan
    BY <1>3
  <2>3. ~ (y < x)
    BY <2>1, <2>2 DEF LessThan
  <2>. QED BY <2>1, <2>3
<1>. QED BY <1>3, <1>4 DEF Least

\* The clock stays on its range, and so do the deadlines set from it.
LEMMA OnClock ==
  ASSUME NEW t \in 0 .. ClockSize - 1, NEW d \in 1 .. ClockSize - 1
  PROVE  Ms(t + d) \in Deadline /\ t \in Deadline
BY SizeAssumption DEF Ms, Deadline

LEMMA AdvanceType ==
  ASSUME NEW d \in Nat, now \in 0 .. ClockSize - 1, Advance(d)
  PROVE  now' \in 0 .. ClockSize - 1
BY SizeAssumption DEF Advance, Ms

\* What nodeRegistryNoteSeen does to the table: one slot changes, an entry that
\* is there keeps its device and name, and a device is added when no slot has it.
HeardNow(n, o) == /\ n.seen = now /\ n.compat = o.compat /\ n.at = o.at
                  /\ n.due = now \/ (n.due = o.due /\ n.ip = o.ip)

LEMMA SeenSlot ==
  ASSUME TypeOK, NEW m \in Mac, NEW a \in Ip, NoteSeen(m, a)
  PROVE  \/ node' = node
         \/ \E s \in Used : \E n \in NodeRecord :
              /\ node' = [node EXCEPT ![s] = n] /\ n.mac = node[s].mac /\ n.name = node[s].name
              /\ HeardNow(n, node[s])
         \/ \E s \in Slot \ Used : \E n \in NodeRecord :
              /\ node' = [node EXCEPT ![s] = n] /\ n.mac = m /\ n.name = NoMac
              /\ n.compat = "unknown" /\ n.seen = now
              /\ \A t \in Slot : node[t].mac # m
<1>. DEFINE known == { s \in Used : Matches(s, m, a) }
            free  == Slot \ Used
<1>0. /\ node \in [Slot -> NodeRecord] /\ now \in 0 .. ClockSize - 1 /\ now \in Deadline
      /\ m # NoMac
  BY OnClock, IdAssumption, SizeAssumption DEF TypeOK, NodeRecord, Deadline
<1>1. CASE known # {}
  <2>1. Least(known) \in Used
    BY <1>1, LeastIn DEF Used
  <2>2. PICK s \in Used : node' = [node EXCEPT ![s] = Touched(node[s], a)]
    BY <1>1, <2>1 DEF NoteSeen
  <2>3. /\ Touched(node[s], a) \in NodeRecord
        /\ Touched(node[s], a).mac = node[s].mac /\ Touched(node[s], a).name = node[s].name
        /\ HeardNow(Touched(node[s], a), node[s])
    <3>1. node[s] \in NodeRecord
      BY <1>0 DEF Used
    <3>. QED BY <1>0, <3>1 DEF Touched, NodeRecord, HeardNow
  <2>. QED BY <2>2, <2>3
<1>2. CASE known = {} /\ free # {}
  <2>. DEFINE n == [Unused EXCEPT !.mac = m, !.ip = a, !.seen = now, !.due = now, !.online = TRUE]
  <2>1. Least(free) \in free
    BY <1>2, LeastIn
  <2>2. node' = [node EXCEPT ![Least(free)] = n]
    BY <1>2 DEF NoteSeen
  <2>3. n \in NodeRecord /\ n.mac = m /\ n.name = NoMac /\ n.compat = "unknown" /\ n.seen = now
    BY <1>0 DEF Unused, NodeRecord, Compat
  <2>4. \A t \in Slot : node[t].mac # m
    BY <1>0, <1>2 DEF Used, Matches
  <2>. QED BY <2>1, <2>2, <2>3, <2>4
<1>3. CASE known = {} /\ free = {}
  BY <1>3 DEF NoteSeen
<1>. QED BY <1>1, <1>2, <1>3

\* What a probe does to table and image: one entry gets a verdict, and its name
\* changes only together with the image of the whole table.
Tried(n, o) == /\ n.seen = o.seen /\ n.online = o.online /\ n.ip = o.ip
               /\ n.at = n.ip \/ n.due = Ms(now' + RetryPeriod)

LEMMA ProbeSlot ==
  ASSUME TypeOK, NEW d \in 0 .. MaxProbe, Drain(d)
  PROVE  \/ UNCHANGED <<node, cache>>
         \/ \E s \in Used : \E n \in NodeRecord :
              /\ node' = [node EXCEPT ![s] = n] /\ n.mac = node[s].mac /\ Tried(n, node[s])
              /\ Save \/ (UNCHANGED cache /\ n.name = node[s].name)
<1>1. CASE Due = {}
  BY <1>1 DEF Drain
<1>2. CASE Due # {}
  <2>. DEFINE s == Least(Due)
  <2>1. s \in Used
    BY <1>2, LeastIn DEF Due, Used
  <2>2. now' \in 0 .. ClockSize - 1
    BY <1>2, AdvanceType, SizeAssumption DEF Drain, TypeOK
  <2>3. /\ Ms(now' + RetryPeriod) \in Deadline /\ Ms(now' + ReprobePeriod) \in Deadline
    BY <2>2, OnClock, TimerAssumption
  <2>4. node \in [Slot -> NodeRecord] /\ node[s] \in NodeRecord
    BY <2>1 DEF TypeOK, NodeRecord, Used
  <2>. HIDE DEF s
  <2>5. ASSUME ProbeFailed(s)
        PROVE  \E n \in NodeRecord :
                  /\ node' = [node EXCEPT ![s] = n] /\ n.mac = node[s].mac /\ Tried(n, node[s])
                  /\ Save \/ (UNCHANGED cache /\ n.name = node[s].name)
    <3>. DEFINE n == [node[s] EXCEPT !.due = Ms(now' + RetryPeriod)]
    <3>1. n \in NodeRecord /\ n.mac = node[s].mac /\ n.name = node[s].name /\ Tried(n, node[s])
      BY <2>3, <2>4 DEF NodeRecord, Tried
    <3>. QED BY <2>5, <3>1 DEF ProbeFailed, Probed
  <2>6. ASSUME NEW m \in Mac, ProbeAnswered(s, m)
        PROVE  \E n \in NodeRecord :
                  /\ node' = [node EXCEPT ![s] = n] /\ n.mac = node[s].mac /\ Tried(n, node[s])
                  /\ Save \/ (UNCHANGED cache /\ n.name = node[s].name)
    <3>1. CASE Incompatible(s) /\ (UNCHANGED cache \/ Save)
      <4>. DEFINE n == [node[s] EXCEPT !.compat = "incompatible", !.at = node[s].ip,
                                       !.due = Ms(now' + ReprobePeriod)]
      <4>1. node' = [node EXCEPT ![s] = n]
        BY <3>1 DEF Incompatible, Probed
      <4>2. n \in NodeRecord /\ n.mac = node[s].mac /\ n.name = node[s].name /\ Tried(n, node[s])
        BY <2>3, <2>4 DEF NodeRecord, Compat, Tried
      <4>. QED BY <3>1, <4>1, <4>2
    <3>2. CASE Identified(s, m)
      <4>. DEFINE n == [node[s] EXCEPT !.name = m, !.at = node[s].ip,
                                       !.due = Ms(now' + ReprobePeriod), !.compat = Verdict(m)]
      <4>1. node' = [node EXCEPT ![s] = n] /\ Save
        BY <3>2 DEF Identified, Probed
      <4>2. n \in NodeRecord /\ n.mac = node[s].mac /\ Tried(n, node[s])
        BY <2>3, <2>4 DEF NodeRecord, Compat, Verdict, Tried
      <4>. QED BY <4>1, <4>2
    <3>. QED BY <2>6, <3>1, <3>2 DEF ProbeAnswered
  <2>7. ProbeFailed(s) \/ \E m \in Answers(node[s].ip) : ProbeAnswered(s, m)
    BY <1>2 DEF Drain, s
  <2>8. Answers(node[s].ip) \subseteq Mac
    BY DEF Answers, TypeOK
  <2>9. \E n \in NodeRecord :
          /\ node' = [node EXCEPT ![s] = n] /\ n.mac = node[s].mac /\ Tried(n, node[s])
          /\ Save \/ (UNCHANGED cache /\ n.name = node[s].name)
    BY <2>5, <2>6, <2>7, <2>8
  <2>. QED BY <2>1, <2>9
<1>. QED BY <1>1, <1>2

\* Type correctness of the table, the image, the timers and the network.
LEMMA TypeInit == Init => TypeOK
<1>. SUFFICES ASSUME Init PROVE TypeOK
  OBVIOUS
<1>1. Unused \in NodeRecord
  BY SizeAssumption DEF Unused, NodeRecord, Compat, Deadline
<1>2. /\ now \in 0 .. ClockSize - 1 /\ {nextPoll, statusTimer} \subseteq Deadline
      /\ boots \in 0 .. MaxBoots
  BY SizeAssumption DEF Init, Deadline
<1>3. Stable(Unused) \in [mac : Mac \cup {NoMac}, name : Mac \cup {NoMac}, compat : Compat]
  BY <1>1 DEF Stable, NodeRecord
<1>4. wire \in Seq([mac : Mac, ip : Ip]) /\ Len(wire) <= WireCap
  BY SizeAssumption DEF Init
<1>. HIDE DEF Unused, Stable
<1>. QED BY <1>1, <1>2, <1>3, <1>4 DEF Init, TypeOK, NodeRecord

LEMMA TypeStep == TypeOK /\ [Next]_vars => TypeOK'
<1>. SUFFICES ASSUME TypeOK, [Next]_vars PROVE TypeOK'
  OBVIOUS
<1>0. /\ node \in [Slot -> NodeRecord] /\ Unused \in NodeRecord
      /\ wire \in Seq(Letter)
  BY SizeAssumption DEF TypeOK, NodeRecord, Letter, Unused, Compat, Deadline
<1>1. ASSUME NEW d \in 1 .. MaxPass, Poll(d) PROVE TypeOK'
  <2>1. now' \in 0 .. ClockSize - 1
    BY <1>1, AdvanceType DEF Poll, TypeOK
  <2>2. Ms(now' + PollPeriod) \in Deadline
    BY <2>1, OnClock, TimerAssumption
  <2>. QED BY <1>1, <2>1, <2>2 DEF Poll, TypeOK
<1>2. CASE ReadReply
  <2>1. Head(wire) \in Letter /\ Tail(wire) \in Seq(Letter) /\ Len(Tail(wire)) <= Len(wire)
    BY <1>0, <1>2 DEF ReadReply
  <2>2. node' \in [Slot -> NodeRecord]
    BY <1>0, <1>2, <2>1, SeenSlot DEF ReadReply, Letter, Used
  <2>3. Len(wire') <= WireCap
    BY <1>0, <1>2, SizeAssumption DEF ReadReply, TypeOK
  <2>. QED BY <1>2, <2>1, <2>2, <2>3 DEF ReadReply, TypeOK, timers, network, Letter, NodeRecord
<1>3. CASE ReadDone
  BY <1>3 DEF ReadDone, TypeOK, timers, network
<1>4. ASSUME NEW d \in 0 .. MaxProbe, Drain(d) PROVE TypeOK'
  <2>1. now' \in 0 .. ClockSize - 1
    <3>1. CASE Due = {}
      BY <1>4, <3>1 DEF Drain, TypeOK
    <3>2. CASE Due # {}
      BY <1>4, <3>2, AdvanceType, SizeAssumption DEF Drain, TypeOK
    <3>. QED BY <3>1, <3>2
  <2>2. node' \in [Slot -> NodeRecord]
    BY <1>0, <1>4, ProbeSlot DEF Used
  <2>3. cache' = cache \/ Save
    BY <1>4, ProbeSlot
  <2>4. cache' \in [Slot -> [mac : Mac \cup {NoMac}, name : Mac \cup {NoMac}, compat : Compat]]
    BY <2>2, <2>3 DEF Save, Stable, TypeOK, NodeRecord
  <2>. QED BY <1>4, <2>1, <2>2, <2>4 DEF Drain, TypeOK, network, NodeRecord
<1>5. CASE Status
  <2>1. statusTimer' \in Deadline
    BY <1>5, OnClock, TimerAssumption DEF Status, TypeOK
  <2>2. node' \in [Slot -> NodeRecord]
    <3>1. \A s \in Slot : [node[s] EXCEPT !.online = FALSE] \in NodeRecord
      BY <1>0 DEF NodeRecord
    <3>. QED BY <1>0, <1>5, <3>1 DEF Status
  <2>. QED BY <1>5, <2>1, <2>2 DEF Status, TypeOK, network, NodeRecord
<1>6. CASE Refresh
  BY <1>6 DEF Refresh, TypeOK, network
<1>7. CASE Reboot
  <2>1. node' \in [Slot -> NodeRecord]
    BY <1>0, <1>7 DEF Reboot, Loaded, TypeOK, NodeRecord
  <2>2. /\ now' \in 0 .. ClockSize - 1 /\ {nextPoll', statusTimer'} \subseteq Deadline
        /\ boots' \in 0 .. MaxBoots
    BY <1>7, SizeAssumption DEF Reboot, Deadline, TypeOK
  <2>3. wire' \in Seq(Letter) /\ Len(wire') <= WireCap
    BY <1>7, SizeAssumption DEF Reboot
  <2>. QED BY <1>7, <2>1, <2>2, <2>3 DEF Reboot, TypeOK, NodeRecord, Letter
<1>8. ASSUME NEW m \in Mac, Answer(m) PROVE TypeOK'
  <2>1. [mac |-> m, ip |-> home[m]] \in Letter
    BY DEF TypeOK, Letter
  <2>2. wire' \in Seq(Letter) /\ Len(wire') <= WireCap
    BY <1>0, <1>8, <2>1, SizeAssumption DEF Answer, TypeOK
  <2>. QED BY <1>8, <2>2 DEF Answer, TypeOK, timers, Letter
<1>9. ASSUME NEW m \in Mac, PowerOff(m) PROVE TypeOK'
  BY <1>9 DEF PowerOff, TypeOK, timers
<1>10. ASSUME NEW m \in Mac, NEW a \in Ip, PowerOn(m, a) PROVE TypeOK'
  BY <1>10 DEF PowerOn, TypeOK, timers
<1>11. CASE UNCHANGED vars
  BY <1>11 DEF vars, TypeOK
<1>. QED BY <1>1, <1>2, <1>3, <1>4, <1>5, <1>6, <1>7, <1>8, <1>9, <1>10, <1>11 DEF Next, Loop

\* The node table, its image, the timers and the network are well-typed.
THEOREM TypeCorrect == Spec => []TypeOK
BY TypeInit, TypeStep, PTL DEF Spec

RowInv == DevicesDistinct /\ IdentityKept

LEMMA RowInit == Init => RowInv
BY DEF Init, RowInv, DevicesDistinct, IdentityKept, Used, Unused, Stable

LEMMA RowStep == TypeOK /\ RowInv /\ [Next]_vars => RowInv'
<1>. SUFFICES ASSUME TypeOK, RowInv, [Next]_vars PROVE RowInv'
  OBVIOUS
<1>0. node \in [Slot -> NodeRecord]
  BY DEF TypeOK, NodeRecord
<1>1. CASE ReadReply
  <2>1. Head(wire) \in Letter
    <3>1. wire \in Seq(Letter) /\ wire # <<>>
      BY <1>1 DEF ReadReply, TypeOK, Letter
    <3>. QED BY <3>1
  <2>2. PICK m \in Mac, a \in Ip : NoteSeen(m, a)
    BY <1>1, <2>1 DEF ReadReply, Letter
  <2>3. CASE node' = node
    BY <1>1, <2>3 DEF ReadReply, RowInv, DevicesDistinct, IdentityKept, Used
  <2>4. ASSUME NEW s \in Used, NEW n \in NodeRecord, node' = [node EXCEPT ![s] = n],
               n.mac = node[s].mac, n.name = node[s].name
        PROVE  RowInv'
    BY <1>0, <1>1, <2>4 DEF ReadReply, RowInv, DevicesDistinct, IdentityKept, Used
  <2>5. ASSUME NEW s \in Slot \ Used, NEW n \in NodeRecord, node' = [node EXCEPT ![s] = n],
               n.mac = m, n.name = NoMac, \A t \in Slot : node[t].mac # m
        PROVE  RowInv'
    BY <1>0, <1>1, <2>5 DEF ReadReply, RowInv, DevicesDistinct, IdentityKept, Used
  <2>. QED BY <2>2, <2>3, <2>4, <2>5, SeenSlot
<1>2. ASSUME NEW d \in 0 .. MaxProbe, Drain(d) PROVE RowInv'
  <2>1. CASE UNCHANGED <<node, cache>>
    BY <2>1 DEF RowInv, DevicesDistinct, IdentityKept, Used
  <2>2. ASSUME NEW s \in Used, NEW n \in NodeRecord, node' = [node EXCEPT ![s] = n],
               n.mac = node[s].mac, Save
        PROVE  RowInv'
    BY <1>0, <2>2 DEF Save, Stable, RowInv, DevicesDistinct, IdentityKept, Used
  <2>3. ASSUME NEW s \in Used, NEW n \in NodeRecord, node' = [node EXCEPT ![s] = n],
               n.mac = node[s].mac, UNCHANGED cache, n.name = node[s].name
        PROVE  RowInv'
    BY <1>0, <2>3 DEF RowInv, DevicesDistinct, IdentityKept, Used
  <2>. QED BY <1>2, <2>1, <2>2, <2>3, ProbeSlot
<1>3. CASE Status
  <2>1. /\ node' \in [Slot -> NodeRecord] /\ cache' = cache
        /\ \A s \in Slot : node'[s].mac = node[s].mac /\ node'[s].name = node[s].name
    <3>1. \A s \in Slot : LET n == [node[s] EXCEPT !.online = FALSE]
                          IN  n \in NodeRecord /\ n.mac = node[s].mac /\ n.name = node[s].name
      BY <1>0 DEF NodeRecord
    <3>. QED BY <1>0, <1>3, <3>1 DEF Status
  <2>. QED BY <2>1 DEF RowInv, DevicesDistinct, IdentityKept, Used
<1>4. CASE Reboot
  <2>1. /\ cache' = cache
        /\ \A s \in Slot : node'[s].mac = cache[s].mac
        /\ \A s \in Slot : cache[s].mac # NoMac => node'[s].name = cache[s].name
    BY <1>4 DEF Reboot, Loaded, Unused
  <2>. QED BY <2>1 DEF RowInv, DevicesDistinct, IdentityKept, Used
<1>5. CASE UNCHANGED <<node, cache>>
  BY <1>5 DEF RowInv, DevicesDistinct, IdentityKept, Used
<1>. QED BY <1>1, <1>2, <1>3, <1>4, <1>5
         DEF Next, Loop, Poll, ReadDone, Refresh, Answer, PowerOff, PowerOn, vars

\* However devices move, disappear and swap addresses, and whenever the manager
\* reboots, a device has one entry, and what it said of itself is in the image.
THEOREM RowsAreKept == Spec => [](DevicesDistinct /\ IdentityKept)
BY RowInit, RowStep, TypeCorrect, PTL DEF Spec, RowInv

-----------------------------------------------------------------------------
(* Proofs: the periods, as long as millis() does not come round *)

\* Status runs when statusTimer is over, so it is never later than a pass of loop() and
\* a probe after that; who is shown online then was heard within the offline period.
PassInv ==
  /\ statusTimer <= now + StatusPeriod
  /\ pc = "poll" => now <= statusTimer
  /\ pc \in {"read", "drain"} => now <= statusTimer + MaxPass
  /\ pc = "status" => now <= statusTimer + MaxPass + MaxProbe
HeardInv ==
  \A s \in Used : node[s].online =>
     node[s].seen <= now /\ statusTimer <= node[s].seen + OfflineAfter + StatusPeriod

TimeInv == MovedIsReprobed /\ PassInv /\ HeardInv

\* The numbers of the clock and the table.
LEMMA Periods ==
  ASSUME TypeOK
  PROVE  /\ {now, statusTimer, PollPeriod, RetryPeriod, ReprobePeriod, OfflineAfter, StatusPeriod,
             MaxPass, MaxProbe} \subseteq Nat
         /\ node \in [Slot -> NodeRecord]
         /\ \A n \in NodeRecord : n.seen \in Nat /\ n.due \in Nat
<1>1. ClockSize \in Nat /\ MaxPass \in Nat /\ MaxProbe \in Nat
  BY SizeAssumption
<1>2. {PollPeriod, RetryPeriod, ReprobePeriod, OfflineAfter, StatusPeriod} \subseteq Nat
  BY <1>1, TimerAssumption
<1>3. now \in Nat /\ statusTimer \in Nat
  BY <1>1 DEF TypeOK, Deadline
<1>4. node \in [Slot -> NodeRecord]
  BY DEF TypeOK, NodeRecord
<1>5. \A n \in NodeRecord : n.seen \in Nat /\ n.due \in Nat
  BY <1>1 DEF NodeRecord, Deadline
<1>. QED BY <1>1, <1>2, <1>3, <1>4, <1>5

\* The difference of two times is what it seems while nothing wraps.
LEMMA SmallSince ==
  ASSUME ClockSize \in Nat \ {0}, NEW t \in Nat, NEW u \in Nat, u <= t, t < ClockSize
  PROVE  Since(t, u) = t - u
<1>1. \A x \in Nat : x < ClockSize => x % ClockSize = x
  OBVIOUS
<1>. QED BY <1>1 DEF Since

LEMMA TimeInit == Init => TimeInv
BY SizeAssumption, TimerAssumption DEF Init, TimeInv, MovedIsReprobed, PassInv, HeardInv, Used, Unused

\* One entry of the table changes, and no time passes or some.
LEMMA EntryKeeps ==
  ASSUME ~Wraps, TypeOK, TimeInv, UNCHANGED statusTimer, now' \in Nat, now <= now',
         NEW s \in Slot, NEW n \in NodeRecord, node' = [node EXCEPT ![s] = n],
         n.compat # "unknown" /\ n.at # n.ip => n.due <= now' + RetryPeriod,
         n.online => n.seen <= now' /\ statusTimer <= n.seen + OfflineAfter + StatusPeriod
  PROVE  MovedIsReprobed' /\ HeardInv'
<1>1. ASSUME NEW r \in Used'
      PROVE  /\ node'[r].compat # "unknown" /\ node'[r].at # node'[r].ip => node'[r].due <= now' + RetryPeriod
             /\ node'[r].online => /\ node'[r].seen <= now'
                                  /\ statusTimer' <= node'[r].seen + OfflineAfter + StatusPeriod
  <2>1. CASE r = s
    BY <2>1, Periods
  <2>2. CASE r # s
    <3>1. node'[r] = node[r] /\ r \in Used /\ node[r] \in NodeRecord
      BY <1>1, <2>2, Periods DEF Used
    <3>2. /\ node[r].compat # "unknown" /\ node[r].at # node[r].ip => node[r].due <= now + RetryPeriod
          /\ node[r].online => node[r].seen <= now /\ statusTimer <= node[r].seen + OfflineAfter + StatusPeriod
      BY <3>1 DEF TimeInv, MovedIsReprobed, HeardInv
    <3>. QED BY <3>1, <3>2, Periods
  <2>. QED BY <2>1, <2>2
<1>. QED BY <1>1 DEF MovedIsReprobed, HeardInv

\* Time passes, and the table stays as it is.
LEMMA TableKeeps ==
  ASSUME ~Wraps, TypeOK, TimeInv, UNCHANGED <<node, statusTimer>>, now' \in Nat, now <= now'
  PROVE  MovedIsReprobed' /\ HeardInv'
<1>1. ASSUME NEW r \in Used'
      PROVE  /\ node'[r].compat # "unknown" /\ node'[r].at # node'[r].ip => node'[r].due <= now' + RetryPeriod
             /\ node'[r].online => /\ node'[r].seen <= now'
                                  /\ statusTimer' <= node'[r].seen + OfflineAfter + StatusPeriod
  <2>1. node'[r] = node[r] /\ r \in Used /\ node[r] \in NodeRecord
    BY <1>1, Periods DEF Used
  <2>2. /\ node[r].compat # "unknown" /\ node[r].at # node[r].ip => node[r].due <= now + RetryPeriod
        /\ node[r].online => node[r].seen <= now /\ statusTimer <= node[r].seen + OfflineAfter + StatusPeriod
    BY <2>1 DEF TimeInv, MovedIsReprobed, HeardInv
  <2>. QED BY <2>1, <2>2, Periods
<1>. QED BY <1>1 DEF MovedIsReprobed, HeardInv

\* The pass of loop(): each step keeps statusTimer and the table in time.
LEMMA TimeStep == ASSUME ~Wraps, TypeOK, TypeOK', TimeInv, [Next]_vars PROVE TimeInv'
<1>. USE Periods
<1>1. ASSUME NEW d \in 1 .. MaxPass, Poll(d) PROVE TimeInv'
  <2>1. now' = now + d /\ UNCHANGED <<node, statusTimer>> /\ pc = "poll" /\ pc' = "read"
    BY <1>1 DEF Poll, Advance, Ms
  <2>2. now <= statusTimer /\ statusTimer <= now + StatusPeriod
    BY <2>1 DEF TimeInv, PassInv
  <2>3. PassInv'
    BY <2>1, <2>2 DEF PassInv
  <2>4. now' \in Nat /\ now <= now'
    BY <2>1
  <2>. QED BY <2>1, <2>3, <2>4, TableKeeps DEF TimeInv
<1>2. CASE ReadReply
  <2>1. UNCHANGED <<now, statusTimer, pc>>
    BY <1>2 DEF ReadReply, timers
  <2>2. PassInv' /\ now' \in Nat /\ now <= now'
    BY <2>1 DEF TimeInv, PassInv
  <2>3. Head(wire) \in Letter
    <3>1. wire \in Seq(Letter) /\ wire # <<>>
      BY <1>2 DEF ReadReply, TypeOK, Letter
    <3>. QED BY <3>1
  <2>4. PICK m \in Mac, a \in Ip : NoteSeen(m, a)
    BY <1>2, <2>3 DEF ReadReply, Letter
  <2>5. statusTimer <= now + StatusPeriod
    BY DEF TimeInv, PassInv
  <2>6. CASE node' = node
    BY <2>1, <2>2, <2>6, TableKeeps DEF TimeInv
  <2>7. ASSUME NEW s \in Used, NEW n \in NodeRecord, node' = [node EXCEPT ![s] = n], HeardNow(n, node[s])
        PROVE  TimeInv'
    <3>1. s \in Slot /\ node[s] \in NodeRecord
      BY <2>7 DEF Used
    <3>2. node[s].compat # "unknown" /\ node[s].at # node[s].ip => node[s].due <= now + RetryPeriod
      BY <2>7 DEF TimeInv, MovedIsReprobed
    <3>3. n.compat # "unknown" /\ n.at # n.ip => n.due <= now' + RetryPeriod
      BY <2>1, <2>7, <3>1, <3>2 DEF HeardNow
    <3>4. n.seen <= now' /\ statusTimer <= n.seen + OfflineAfter + StatusPeriod
      BY <2>1, <2>5, <2>7 DEF HeardNow
    <3>5. MovedIsReprobed' /\ HeardInv'
      BY <2>1, <2>2, <2>7, <3>1, <3>3, <3>4, EntryKeeps
    <3>. QED BY <2>2, <3>5 DEF TimeInv
  <2>8. ASSUME NEW s \in Slot \ Used, NEW n \in NodeRecord, node' = [node EXCEPT ![s] = n],
               n.compat = "unknown", n.seen = now
        PROVE  TimeInv'
    <3>1. n.seen <= now' /\ statusTimer <= n.seen + OfflineAfter + StatusPeriod
      BY <2>1, <2>5, <2>8
    <3>2. MovedIsReprobed' /\ HeardInv'
      BY <2>1, <2>2, <2>8, <3>1, EntryKeeps
    <3>. QED BY <2>2, <3>2 DEF TimeInv
  <2>. QED BY <2>4, <2>6, <2>7, <2>8, SeenSlot
<1>3. ASSUME NEW d \in 0 .. MaxProbe, Drain(d) PROVE TimeInv'
  <2>1. /\ now' \in Nat /\ now <= now' /\ now' <= now + MaxProbe
        /\ UNCHANGED statusTimer /\ pc = "drain" /\ pc' = "status"
    <3>1. CASE Due = {}
      BY <1>3, <3>1 DEF Drain
    <3>2. CASE Due # {}
      BY <1>3, <3>2 DEF Drain, Advance, Ms
    <3>. QED BY <3>1, <3>2
  <2>2. statusTimer <= now + StatusPeriod /\ now <= statusTimer + MaxPass
    BY <2>1 DEF TimeInv, PassInv
  <2>3. PassInv'
    BY <2>1, <2>2 DEF PassInv
  <2>4. CASE node' = node
    BY <2>1, <2>3, <2>4, TableKeeps DEF TimeInv
  <2>5. ASSUME NEW s \in Used, NEW n \in NodeRecord, node' = [node EXCEPT ![s] = n], Tried(n, node[s])
        PROVE  TimeInv'
    <3>1. s \in Slot /\ node[s] \in NodeRecord
      BY <2>5 DEF Used
    <3>2. node[s].online => node[s].seen <= now /\ statusTimer <= node[s].seen + OfflineAfter + StatusPeriod
      BY <2>5 DEF TimeInv, HeardInv
    <3>3. n.compat # "unknown" /\ n.at # n.ip => n.due <= now' + RetryPeriod
      BY <2>1, <2>5 DEF Tried, Ms
    <3>4. n.online => n.seen <= now' /\ statusTimer <= n.seen + OfflineAfter + StatusPeriod
      BY <2>1, <2>5, <3>1, <3>2 DEF Tried
    <3>5. MovedIsReprobed' /\ HeardInv'
      BY <2>1, <2>5, <3>1, <3>3, <3>4, EntryKeeps
    <3>. QED BY <2>3, <3>5 DEF TimeInv
  <2>. QED BY <1>3, <2>4, <2>5, ProbeSlot
<1>4. CASE Status
  <2>1. UNCHANGED now /\ pc = "status" /\ pc' = "poll"
    BY <1>4 DEF Status
  <2>2. now' \in Nat /\ now <= now' /\ statusTimer <= now + StatusPeriod
    BY <2>1 DEF TimeInv, PassInv
  <2>3. CASE statusTimer < now
    <3>1. /\ statusTimer' = now + StatusPeriod
          /\ node' = [s \in Slot |-> IF s \in Used /\ Silent(node[s])
                                     THEN [node[s] EXCEPT !.online = FALSE] ELSE node[s]]
      BY <1>4, <2>3 DEF Status, Ms
    <3>2. ASSUME NEW s \in Used'
          PROVE  /\ s \in Used /\ node[s] \in NodeRecord /\ node'[s].seen = node[s].seen
                 /\ node'[s].compat = node[s].compat /\ node'[s].at = node[s].at
                 /\ node'[s].ip = node[s].ip /\ node'[s].due = node[s].due
                 /\ node'[s].online => node[s].online /\ ~Silent(node[s])
      BY <3>1, <3>2 DEF Used, NodeRecord
    <3>3. ASSUME NEW s \in Used', node'[s].online
          PROVE  node[s].seen <= now /\ now - node[s].seen <= OfflineAfter
      <4>1. node[s].seen \in Nat /\ node[s].seen <= now /\ ~Silent(node[s])
        BY <3>2, <3>3 DEF TimeInv, HeardInv
      <4>2. ClockSize \in Nat \ {0} /\ now < ClockSize
        BY SizeAssumption DEF TypeOK
      <4>3. Since(now, node[s].seen) = now - node[s].seen
        BY <4>1, <4>2, SmallSince
      <4>. QED BY <4>1, <4>3 DEF Silent
    <3>4. MovedIsReprobed'
      BY <2>1, <3>2 DEF TimeInv, MovedIsReprobed
    <3>5. HeardInv'
      <4>1. ASSUME NEW s \in Used', node'[s].online
            PROVE  node'[s].seen <= now' /\ statusTimer' <= node'[s].seen + OfflineAfter + StatusPeriod
        <5>1. /\ node'[s].seen = node[s].seen /\ node[s].seen \in Nat
              /\ node[s].seen <= now /\ now - node[s].seen <= OfflineAfter
          BY <3>2, <3>3, <4>1
        <5>. QED BY <2>1, <3>1, <5>1
      <4>. QED BY <4>1 DEF HeardInv
    <3>6. PassInv'
      BY <2>1, <3>1 DEF PassInv
    <3>. QED BY <3>4, <3>5, <3>6 DEF TimeInv
  <2>4. CASE ~(statusTimer < now)
    <3>1. UNCHANGED <<node, statusTimer>>
      BY <1>4, <2>4 DEF Status
    <3>2. PassInv'
      BY <2>1, <2>2, <2>4, <3>1 DEF PassInv
    <3>. QED BY <2>2, <3>1, <3>2, TableKeeps DEF TimeInv
  <2>. QED BY <2>3, <2>4
<1>5. CASE Reboot
  <2>1. now' = 0 /\ statusTimer' = 0 /\ pc' = "poll"
    BY <1>5 DEF Reboot
  <2>2. ASSUME NEW s \in Used' PROVE ~node'[s].online /\ node'[s].at = node'[s].ip
    <3>1. s \in Slot /\ node' = Loaded
      BY <1>5, <2>2 DEF Reboot, Used
    <3>. QED BY <3>1 DEF Loaded, Unused
  <2>. QED BY <2>1, <2>2 DEF TimeInv, MovedIsReprobed, PassInv, HeardInv
<1>6. CASE ReadDone
  <2>1. UNCHANGED <<node, now, statusTimer>> /\ pc = "read" /\ pc' = "drain"
    BY <1>6 DEF ReadDone, timers
  <2>2. PassInv' /\ now' \in Nat /\ now <= now'
    BY <2>1 DEF TimeInv, PassInv
  <2>. QED BY <2>1, <2>2, TableKeeps DEF TimeInv
<1>7. CASE UNCHANGED <<node, now, statusTimer, pc>>
  <2>1. PassInv' /\ now' \in Nat /\ now <= now'
    BY <1>7 DEF TimeInv, PassInv
  <2>. QED BY <1>7, <2>1, TableKeeps DEF TimeInv
<1>. QED BY <1>1, <1>2, <1>3, <1>4, <1>5, <1>6, <1>7
         DEF Next, Loop, Refresh, Answer, PowerOff, PowerOn, timers, vars

\* Two passes after statusTimer and the offline period bound how long a silent node shows.
LEMMA TimeMeans == ASSUME TypeOK, TimeInv PROVE MovedIsReprobed /\ OnlineIsRecent
<1>1. ASSUME NEW s \in Used, node[s].online
      PROVE  Since(now, node[s].seen) <= OfflineAfter + StatusPeriod + MaxPass + MaxProbe
  <2>1. node[s] \in NodeRecord /\ node[s].seen \in Nat
    BY <1>1, Periods DEF Used
  <2>2. node[s].seen <= now /\ statusTimer <= node[s].seen + OfflineAfter + StatusPeriod
    BY <1>1 DEF TimeInv, HeardInv
  <2>3. now <= statusTimer + MaxPass + MaxProbe
    BY Periods DEF TimeInv, PassInv, TypeOK
  <2>4. Since(now, node[s].seen) = now - node[s].seen
    <3>1. ClockSize \in Nat \ {0} /\ now \in Nat /\ now < ClockSize
      BY SizeAssumption DEF TypeOK
    <3>. QED BY <2>1, <2>2, <3>1, SmallSince
  <2>. QED BY <2>1, <2>2, <2>3, <2>4, Periods
<1>. QED BY <1>1 DEF TimeInv, OnlineIsRecent

\* While millis() does not come round, a device that moved is probed again within the retry
\* period, and one that fell silent is shown offline after the offline period, a status
\* period and one pass of loop().
THEOREM PeriodsHold == ASSUME ~Wraps PROVE Spec => [](MovedIsReprobed /\ OnlineIsRecent)
BY TimeInit, TimeStep, TimeMeans, TypeCorrect, PTL DEF Spec
=============================================================================
