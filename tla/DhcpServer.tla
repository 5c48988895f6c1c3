---------------------------- MODULE DhcpServer ----------------------------
(***************************************************************************)
(* The fallback DHCP server of src/dhcpServer.cpp with the clients on its  *)
(* segment: the fixed table of leases, its image in EEPROM, the UDP/67     *)
(* receive queue, the 32-bit millisecond clock the deadlines are kept in,  *)
(* and power cuts.  Time is counted in units of which a lease lasts        *)
(* LeaseMs; the clock wraps at ClockSize as millis() wraps at 2^32, and    *)
(* deadlines are compared the way the code compares them, by the sign of   *)
(* the difference.                                                         *)
(***************************************************************************)
EXTENDS Integers, FiniteSets, Sequences, TLC, TLAPS, WellFoundedInduction

CONSTANTS
  Mac,          \* hardware addresses of the DHCP clients
  NoMac,        \* the owner of an unused table slot
  SlotCap,      \* DHCP_LEASE_CAP
  ProbeBudget,  \* ALLOC_PROBE_BUDGET
  LeaseMs,      \* g_leaseMs
  ClockSize,    \* values of millis()
  MaxStall,     \* most time that passes between two dhcpServerTick() calls
  Configs,      \* the fallback settings a boot may find in the store
  Foreign,      \* addresses configured by hand on other devices
  ReqAddr,      \* addresses a client may remember from elsewhere
  QueueCap      \* packets the receive buffer holds

\* Addresses are the last octet inside the served /24: networkConfigApply
\* makes the pool share the first three octets of the server's own address.
NoIp   == 0                    \* 0.0.0.0
OffNet == 256                  \* any address of another network
Addr   == 0 .. 256

ASSUME MacAssumption   == NoMac \notin Mac
ASSUME SizeAssumption  == /\ SlotCap \in Nat \ {0}
                          /\ ProbeBudget \in Nat
                          /\ MaxStall \in Nat
                          /\ QueueCap \in Nat
\* fallbackLeaseSeconds is 16 bits wide and at least 60: a lease is shorter
\* than half the clock, and so is the longest time between two expiry checks.
ASSUME ClockAssumption == /\ LeaseMs \in Nat \ {0}
                          /\ ClockSize \in Nat
                          /\ 2 * LeaseMs < ClockSize
                          /\ 2 * MaxStall < ClockSize
\* The clips of networkConfigApply, and a server address that is a host.
ASSUME ConfigAssumption ==
  Configs \subseteq { c \in [self : 1..254, start : 2..253, size : 1..252] :
                        c.start + c.size <= 254 }
ASSUME AddrAssumption == Foreign \subseteq Addr /\ ReqAddr \subseteq Addr

Slot == 1 .. SlotCap

ClientState == {"idle", "discovering", "offered", "requesting", "bound", "renewing"}

Message == [type : {"DISCOVER", "REQUEST", "GIVEBACK", "INFORM"},
            mac  : Mac,
            ip   : Addr,        \* requested-IP option, else ciaddr
            other : BOOLEAN,    \* the server-id option names another server
            live  : BOOLEAN]    \* its xid is the one its client waits for

VARIABLES
  cfg,       \* g_selfIp, g_poolStart, g_poolSize: fixed at boot
  active,    \* g_active
  lease,     \* g_leases: slot -> owner, address, expiresAtMs
  image,     \* the lease records in EEPROM: slot -> owner, address
  now,       \* millis()
  stall,     \* time since the last expiry check (an assumption on the loop)
  draining,  \* dhcpServerTick is in its receive loop
  queue,     \* packets waiting on UDP/67
  client     \* what each client believes

serverVars == <<cfg, active, lease, image>>
vars == <<cfg, active, lease, image, now, stall, draining, queue, client>>
-----------------------------------------------------------------------------
(* The clock: sums and differences modulo ClockSize *)

Wrap(x)     == IF x < ClockSize THEN x ELSE x - ClockSize
Since(t, u) == IF t >= u THEN t - u ELSE t - u + ClockSize
-----------------------------------------------------------------------------
(* The table *)

Least(S) == CHOOSE x \in S : \A y \in S : x <= y

Used         == { s \in Slot : lease[s].mac # NoMac }
FreeSlots    == Slot \ Used
SlotsFor(m)  == { s \in Slot : lease[s].mac = m }
Known(m)     == SlotsFor(m) # {}
LeaseFor(m)  == Least(SlotsFor(m))          \* leaseForMac: the first match

\* A free slot keeps its old expiresAtMs; its other fields are never read.
Freed(l) == [mac |-> NoMac, ip |-> NoIp, expires |-> l.expires]

\* Mutant: plain comparison of two clock values.
ExpiredPlain(l) == now >= l.expires

\* (int32_t)(now - expiresAtMs) >= 0
Expired(l) == 2 * Since(now, l.expires) < ClockSize

\* Mutant: the deadline does not wrap.
DeadlineUnwrapped == now + LeaseMs

Deadline == Wrap(now + LeaseMs)

\* Mutants: the table, or the server's own address, is not consulted.
InUseSelfOnly(a)  == a = cfg.self
InUseTableOnly(a) == \E s \in Used : lease[s].ip = a

InUse(a)  == \/ a = cfg.self
            \/ \E s \in Used : lease[s].ip = a
InPool(a) == a >= cfg.start /\ a < (cfg.start + cfg.size) % 256
-----------------------------------------------------------------------------
(* Choosing an address.  ipLikelyInUse times a TCP connect: a host that is *)
(* up may answer fast enough to be noticed or not, and when no socket is   *)
(* free the probe says "free"; an address nobody has never looks taken.    *)

Holding(c)  == c.st \in {"bound", "renewing"}
Reachable   == Foreign \cup { client[m].ip : m \in { k \in Mac : Holding(client[k]) } }
ProbeResult == SUBSET { a \in Reachable : ~InUse(a) }    \* only free ones are probed

TableFree == { a \in cfg.start .. (cfg.start + cfg.size - 1) : ~InUse(a) }
Rank(a)   == Cardinality({ b \in TableFree : b <= a })

\* The scan takes the first free address that is silent, or that comes after
\* the probe budget is spent.
Clean(busy) == { a \in TableFree : Rank(a) > ProbeBudget \/ a \notin busy }

Honoured(want, busy) == want # NoIp /\ InPool(want) /\ ~InUse(want) /\ want \notin busy

\* The address for a client without a lease; NoIp when the pool is used up.
\* The wanted address is probed first and may be probed again by the scan.
PickAddr(want, first, scan) ==
  IF Honoured(want, first) THEN want
  ELSE IF Clean(scan) # {} THEN Least(Clean(scan))
  ELSE IF TableFree # {} THEN Least(TableFree)
  ELSE NoIp

\* Mutant: the existing lease of m is overlooked.
AllocationAnew(m, want, first, scan) ==
  LET a == PickAddr(want, first, scan)
  IN  IF a = NoIp \/ FreeSlots = {} THEN [slot |-> 0, ip |-> NoIp]
      ELSE [slot |-> Least(FreeSlots), ip |-> a]

\* allocateLease: the slot and address for m, slot 0 for nullptr.
Allocation(m, want, first, scan) ==
  IF Known(m) THEN [slot |-> LeaseFor(m), ip |-> lease[LeaseFor(m)].ip]
  ELSE LET a == PickAddr(want, first, scan)
       IN  IF a = NoIp \/ FreeSlots = {} THEN [slot |-> 0, ip |-> NoIp]
           ELSE [slot |-> Least(FreeSlots), ip |-> a]

Grant(m, al, expires) ==
  [lease EXCEPT ![al.slot] = [mac |-> m, ip |-> al.ip, expires |-> expires]]

\* Mutant: the records of free slots are skipped instead of cleared.
ImageOfUsed(table) == [s \in Slot |-> IF table[s].mac = NoMac THEN image[s]
                                      ELSE [mac |-> table[s].mac, ip |-> table[s].ip]]

ImageOf(table) == [s \in Slot |-> [mac |-> table[s].mac, ip |-> table[s].ip]]
-----------------------------------------------------------------------------
(* Packets and the clients' reaction to the answers.  Answers are broadcast *)
(* and may be lost; a client takes only an answer it waits for, which       *)
(* carries the xid of its packet.                                           *)

Idle == [st |-> "idle", ip |-> NoIp, left |-> 0, here |-> FALSE]

Hears(p, heard, states, c) ==
  client' = IF heard /\ p.live /\ client[p.mac].st \in states
            THEN [client EXCEPT ![p.mac] = c] ELSE client

Offered(p, a, heard) ==
  Hears(p, heard, {"discovering"}, [Idle EXCEPT !.st = "offered", !.ip = a])
Acked(p, a, heard) ==
  Hears(p, heard, {"requesting", "renewing"},
        [st |-> "bound", ip |-> a, left |-> LeaseMs, here |-> TRUE])
Naked(p, heard) == Hears(p, heard, {"requesting", "renewing"}, Idle)

Receive(type) == /\ draining
                 /\ queue # <<>>
                 /\ Head(queue).type = type
                 /\ queue' = Tail(queue)
                 /\ UNCHANGED <<cfg, active, now, stall, draining>>

HandleDiscover(heard, first, scan) ==
  /\ Receive("DISCOVER")
  /\ LET p  == Head(queue)
         al == Allocation(p.mac, p.ip, first, scan)
     IN  IF al.slot = 0 THEN UNCHANGED <<lease, client>>
         ELSE /\ lease' = Grant(p.mac, al, Deadline)
              /\ Offered(p, al.ip, heard)
  /\ UNCHANGED image

HandleRequest(heard, first, scan) ==
  /\ Receive("REQUEST")
  /\ LET p  == Head(queue)
         al == Allocation(p.mac, p.ip, first, scan)
     IN  \/ /\ p.other                                  \* another server's client
            /\ UNCHANGED <<lease, image, client>>
         \/ /\ ~p.other
            /\ al.slot = 0                              \* nothing to give
            /\ Naked(p, heard)
            /\ UNCHANGED <<lease, image>>
         \/ /\ ~p.other
            /\ al.slot # 0
            /\ p.ip # NoIp /\ p.ip # al.ip              \* refuses the address, and
            /\ Naked(p, heard)                      \* keeps the slot it took
            /\ lease' = Grant(p.mac, al, lease[al.slot].expires)
            /\ UNCHANGED image
         \/ /\ ~p.other
            /\ al.slot # 0
            /\ p.ip \in {NoIp, al.ip}
            /\ lease' = Grant(p.mac, al, Deadline)
            /\ Acked(p, al.ip, heard)
            /\ image' = IF Known(p.mac) THEN image ELSE ImageOf(lease')

\* DHCPRELEASE and DHCPDECLINE are handled alike.
HandleGiveBack ==
  /\ Receive("GIVEBACK")
  /\ LET m == Head(queue).mac
     IN  lease' = IF Known(m)
                  THEN [lease EXCEPT ![LeaseFor(m)] = Freed(@)] ELSE lease
  /\ image' = ImageOf(lease')
  /\ UNCHANGED client

\* An ACK with the parameters of the network, and no lease.
HandleInform == Receive("INFORM") /\ UNCHANGED <<lease, image, client>>
-----------------------------------------------------------------------------
(* dhcpServerTick: expire, then drain the queue *)

TickExpire ==
  /\ active
  /\ ~draining
  /\ lease' = [s \in Slot |-> IF s \in Used /\ Expired(lease[s])
                              THEN Freed(lease[s]) ELSE lease[s]]
  /\ draining' = TRUE
  /\ stall' = 0
  /\ UNCHANGED <<cfg, active, image, now, queue, client>>

TickDone ==
  /\ draining
  /\ queue = <<>>
  /\ draining' = FALSE
  /\ UNCHANGED <<cfg, active, lease, image, now, stall, queue, client>>

HandlePacket ==
  \/ \E heard \in BOOLEAN, first \in ProbeResult, scan \in ProbeResult :
        HandleDiscover(heard, first, scan) \/ HandleRequest(heard, first, scan)
  \/ HandleGiveBack
  \/ HandleInform
-----------------------------------------------------------------------------
(* Boot: ethernetStart found no upstream server, took the fallback address *)
(* and started this one; bound says whether the UDP socket was had.        *)

EmptyTable == [s \in Slot |-> [mac |-> NoMac, ip |-> NoIp, expires |-> 0]]

\* dhcpServerLoadLeases: every saved lease counts as just issued.
Restored == [s \in Slot |-> [mac |-> image[s].mac, ip |-> image[s].ip,
               expires |-> IF image[s].mac = NoMac THEN 0 ELSE Wrap(LeaseMs)]]

\* To a client, an offer of the server's old address is one of another server.
Rebooted(cl, c) == IF cl.st = "offered" /\ c.self # cfg.self THEN Idle
                   ELSE [cl EXCEPT !.here = FALSE]

Restart(c, bound) ==
  /\ cfg' = c
  /\ active' = bound
  /\ lease' = IF bound THEN Restored ELSE EmptyTable
  /\ now' = 0
  /\ stall' = 0
  /\ draining' = FALSE
  /\ queue' = <<>>
  /\ client' = [m \in Mac |-> Rebooted(client[m], c)]
  /\ UNCHANGED image

Init ==
  /\ cfg \in Configs
  /\ active \in BOOLEAN
  /\ lease = EmptyTable
  /\ image = [s \in Slot |-> [mac |-> NoMac, ip |-> NoIp]]
  /\ now = 0
  /\ stall = 0
  /\ draining = FALSE
  /\ queue = <<>>
  /\ client = [m \in Mac |-> Idle]
-----------------------------------------------------------------------------
(* The environment: time and the clients *)

\* A client stops using its address when its own lease runs out.
Aged(c) == IF ~Holding(c) THEN c
           ELSE IF c.left > 1 THEN [c EXCEPT !.left = @ - 1] ELSE Idle

Elapse ==
  /\ stall < MaxStall
  /\ now' = Wrap(now + 1)
  /\ stall' = IF active THEN stall + 1 ELSE 0
  /\ client' = [m \in Mac |-> Aged(client[m])]
  /\ UNCHANGED <<cfg, active, lease, image, draining, queue>>

\* Mutant: a new exchange reuses the old xid.
RetiredNothing(m) == queue

\* A client that starts a new exchange takes a new xid: the answers to what it
\* sent before no longer concern it.
Retired(m) == [i \in 1 .. Len(queue) |->
                 IF queue[i].mac = m THEN [queue[i] EXCEPT !.live = FALSE] ELSE queue[i]]

Send(q, m, type, a, other) ==
  /\ active
  /\ Len(queue) < QueueCap
  /\ queue' = Append(q, [type |-> type, mac |-> m, ip |-> a, other |-> other, live |-> TRUE])
  /\ UNCHANGED <<serverVars, now, stall, draining>>

Becomes(m, c) == client' = [client EXCEPT ![m] = c]

Discover(m, a) ==                     \* a client that comes up, or gives up
  /\ Send(Retired(m), m, "DISCOVER", a, FALSE)
  /\ Becomes(m, [Idle EXCEPT !.st = "discovering"])

Select(m) ==                          \* takes our offer ...
  /\ client[m].st = "offered"
  /\ Send(queue, m, "REQUEST", client[m].ip, FALSE)
  /\ Becomes(m, [client[m] EXCEPT !.st = "requesting"])

Elsewhere(m) ==                       \* ... or another server's
  /\ client[m].st = "offered"
  /\ Send(queue, m, "REQUEST", client[m].ip, TRUE)
  /\ Becomes(m, Idle)

Remember(m, a) ==                     \* INIT-REBOOT with an old address
  /\ client[m].st = "idle"
  /\ Send(Retired(m), m, "REQUEST", a, FALSE)
  /\ Becomes(m, [Idle EXCEPT !.st = "requesting", !.ip = a])

Repeat(m) ==                          \* retransmits an unanswered request
  /\ client[m].st \in {"requesting", "renewing"}
  /\ Send(queue, m, "REQUEST", client[m].ip, FALSE)
  /\ UNCHANGED client

Renew(m) ==
  /\ client[m].st = "bound"
  /\ Send(Retired(m), m, "REQUEST", client[m].ip, FALSE)
  /\ Becomes(m, [client[m] EXCEPT !.st = "renewing"])

GiveBack(m) ==                        \* RELEASE, or DECLINE after a conflict
  /\ Holding(client[m])
  /\ Send(Retired(m), m, "GIVEBACK", client[m].ip, FALSE)
  /\ Becomes(m, Idle)

Inform(m) ==
  /\ client[m].st = "idle"
  /\ Send(Retired(m), m, "INFORM", NoIp, FALSE)
  /\ UNCHANGED client

ClientStep(m) ==
  \/ \E a \in ReqAddr : Discover(m, a) \/ Remember(m, a)
  \/ Select(m) \/ Elsewhere(m) \/ Repeat(m)
  \/ Renew(m) \/ GiveBack(m) \/ Inform(m)

Next ==
  \/ TickExpire
  \/ TickDone
  \/ HandlePacket
  \/ \E m \in Mac : ClientStep(m)
  \/ Elapse
  \/ \E c \in Configs, bound \in BOOLEAN : Restart(c, bound)

Spec == Init /\ [][Next]_vars
-----------------------------------------------------------------------------
(* Properties *)

TypeOK ==
  /\ cfg \in Configs
  /\ active \in BOOLEAN
  /\ lease \in [Slot -> [mac : Mac \cup {NoMac}, ip : Addr, expires : 0 .. ClockSize - 1]]
  /\ image \in [Slot -> [mac : Mac \cup {NoMac}, ip : Addr]]
  /\ now \in 0 .. ClockSize - 1
  /\ stall \in 0 .. MaxStall
  /\ draining \in BOOLEAN
  /\ queue \in Seq(Message)
  /\ client \in [Mac -> [st : ClientState, ip : Addr, left : 0 .. LeaseMs, here : BOOLEAN]]

\* A table gives no client two leases and no address to two clients.
Distinct(table) ==
  \A s, t \in Slot :
    /\ table[s].mac # NoMac
    /\ table[t].mac # NoMac
    /\ table[s].mac = table[t].mac \/ table[s].ip = table[t].ip
    => s = t

\* No sequence of offers, requests, give-backs, expiries, lost answers and
\* reboots leaves the lease table or its EEPROM image with an address leased
\* twice or a client leased two addresses (allocateLease, persistLeases,
\* dhcpServerLoadLeases).
LeasesDistinct == Distinct(lease) /\ Distinct(image)

\* Every lease is for an address of the pool and never for the server's own,
\* whatever address the client asked for (allocateLease).
LeasesServable ==
  \A s \in Used : lease[s].ip # cfg.self /\ lease[s].ip \in cfg.start .. (cfg.start + cfg.size - 1)

\* A client acknowledged since the last boot and still inside its lease time
\* has that very lease in the table: the server never forgets early, through
\* expiry with a wrapping clock, another client's packets or its own NAKs.
HoldersBacked ==
  \A m \in Mac : Holding(client[m]) /\ client[m].here =>
    \E s \in Used : lease[s].mac = m /\ lease[s].ip = client[m].ip

\* Two clients never use one address at the same time by leases of one boot.
HoldersDistinct ==
  \A m, k \in Mac : /\ Holding(client[m]) /\ client[m].here
                    /\ Holding(client[k]) /\ client[k].here
                    /\ client[m].ip = client[k].ip
                    => m = k

PacketTaken == queue # <<>> /\ queue' = Tail(queue)

\* A running lease is not taken away: the server's answers to a client inside
\* its lease time never move it off its address.  (A client that sends
\* something may give its address up itself, and time may end the lease.)
AckedStays ==
  [][ \A m \in Mac : (Holding(client[m]) /\ client[m].here /\ PacketTaken)
                     => client'[m].ip = client[m].ip ]_vars

\* The same for every running lease, those of the boot before included:
\* leases are restored at boot so that clients "get DHCPACK on renewal".
RenewalSurvivesReboot ==
  [][ \A m \in Mac : (Holding(client[m]) /\ PacketTaken)
                     => client'[m].ip = client[m].ip ]_vars

\* The server never has a lease on its own address ("exclude selfIp"), the
\* restored ones and a changed configuration included.
NeverLeasesItself == \A s \in Used : lease[s].ip # cfg.self

\* expiresAtMs is "millis() at which the lease ends": a slot in use is never
\* reserved for longer than one lease time from now.
NoLeaseOutlivesItsTerm ==
  \A s \in Used : Expired(lease[s]) \/ Since(lease[s].expires, now) <= LeaseMs
-----------------------------------------------------------------------------
(* Why HoldersBacked and HoldersDistinct hold: the inductive invariant *)

\* The lease of a client that holds an address ends no sooner for the server
\* than for the client, and within one lease time.
Backed(m) == \E s \in Slot : /\ lease[s].mac = m
                             /\ lease[s].ip = client[m].ip
                             /\ client[m].left <= Since(lease[s].expires, now)
                             /\ Since(lease[s].expires, now) <= LeaseMs

\* A packet that gives a lease back comes from a client that holds none, and
\* nothing that client sent before it can still bring it one.
GiveBackLast ==
  \A j \in 1 .. Len(queue) : queue[j].type = "GIVEBACK" =>
    /\ ~Holding(client[queue[j].mac])
    /\ \A i \in 1 .. (j - 1) : queue[i].mac = queue[j].mac => ~queue[i].live

\* Running leases are backed, also against what is still in the queue: of the
\* packets waiting there none can take away a lease that is in force.
HolderInv ==
  /\ \A m \in Mac : Holding(client[m]) =>
       /\ client[m].left >= 1
       /\ client[m].here => Backed(m)
  /\ GiveBackLast
-----------------------------------------------------------------------------
(* The server implements the book of LeaseBook *)

PairsOf(table) == { <<table[s].mac, table[s].ip>> : s \in { t \in Slot : table[t].mac # NoMac } }

PoolAddresses == UNION { c.start .. (c.start + c.size - 1) : c \in Configs }

Book == INSTANCE LeaseBook WITH
          Address <- PoolAddresses, book <- PairsOf(lease), saved <- PairsOf(image)

\* Every step of the table and its image is a grant of an unused address to a
\* client without one, a drop, or a reboot to the saved book.
ImplementsBook == Book!BookSpec
-----------------------------------------------------------------------------
(* Small instances, for TLC *)

OnePool  == {[self |-> 9, start |-> 10, size |-> 2]}
SelfPool == {[self |-> 10, start |-> 10, size |-> 3]}
TwoPools == {[self |-> 9, start |-> 10, size |-> 2], [self |-> 11, start |-> 9, size |-> 2]}

MacSymmetry == Permutations(Mac)
-----------------------------------------------------------------------------
(* Proofs, for any number of clients and slots, any pools, lease times, clock *)
(* width and queue length.                                                    *)
-----------------------------------------------------------------------------
(* Lemmas about the operators *)

LessThan == { p \in Nat \X Nat : p[1] < p[2] }

\* The least element of a non-empty set of slots or addresses is one of them.
LEMMA LeastIn ==
  ASSUME NEW S \in SUBSET Nat, S # {}
  PROVE  Least(S) \in S
<1>1. IsWellFoundedOn(LessThan, Nat)
  BY NatLessThanWellFounded, SMT DEF OpToRel, LessThan
<1>2. PICK x \in S : \A y \in S : ~ (<<y, x>> \in LessThan)
  BY <1>1, WFMin
<1>3. ASSUME NEW y \in S PROVE x <= y
  <2>1. x \in Nat /\ y \in Nat
    OBVIOUS
  <2>2. <<y, x>> \notin LessThan
    BY <1>2
  <2>3. ~ (y < x)
    BY <2>1, <2>2 DEF LessThan
  <2>. QED BY <2>1, <2>3
<1>. QED BY <1>3 DEF Least

\* Sums and differences on the clock stay on the clock.
LEMMA ClockClosed ==
  /\ \A x \in 0 .. (2 * ClockSize - 1) : Wrap(x) \in 0 .. (ClockSize - 1)
  /\ \A t, u \in 0 .. (ClockSize - 1) : Since(t, u) \in 0 .. (ClockSize - 1)
BY ClockAssumption DEF Wrap, Since

LEMMA KnownSlot ==
  ASSUME NEW m \in Mac, Known(m)
  PROVE  LeaseFor(m) \in Slot /\ lease[LeaseFor(m)].mac = m
<1>1. SlotsFor(m) \in SUBSET Nat /\ SlotsFor(m) # {}
  BY SizeAssumption DEF Known, SlotsFor, Slot
<1>2. LeaseFor(m) \in SlotsFor(m)
  BY <1>1, LeastIn DEF LeaseFor
<1>. QED BY <1>2 DEF SlotsFor

LEMMA FreeSlot ==
  ASSUME FreeSlots # {}
  PROVE  Least(FreeSlots) \in Slot /\ lease[Least(FreeSlots)].mac = NoMac
<1>1. FreeSlots \in SUBSET Nat
  BY SizeAssumption DEF FreeSlots, Slot
<1>2. Least(FreeSlots) \in FreeSlots
  BY <1>1, LeastIn
<1>. QED BY <1>2 DEF FreeSlots, Used

\* The clips of networkConfigApply keep the end of the pool below the wrap of
\* the last octet.
LEMMA PoolArithmetic ==
  ASSUME NEW s \in 2..253, NEW n \in 1..252, s + n <= 254
  PROVE  /\ (s + n) % 256 = s + n
         /\ s .. (s + n - 1) \subseteq 0..256
         /\ \A a \in 0..256 : a >= s /\ a < s + n => a \in s .. (s + n - 1)
OBVIOUS

\* The address picked for a new lease is nobody's, or there is none.
LEMMA PickedFree ==
  ASSUME cfg \in Configs, NEW want \in Addr, NEW first, NEW scan,
         PickAddr(want, first, scan) # NoIp
  PROVE  /\ PickAddr(want, first, scan) \in Addr
         /\ ~InUse(PickAddr(want, first, scan))
         /\ PickAddr(want, first, scan) \in cfg.start .. (cfg.start + cfg.size - 1)
<1>. DEFINE a == PickAddr(want, first, scan)
<1>c. /\ cfg \in [self : 1..254, start : 2..253, size : 1..252]
      /\ cfg.start + cfg.size <= 254
  BY ConfigAssumption
<1>d. cfg.start \in 2..253 /\ cfg.size \in 1..252
  BY <1>c
<1>e. cfg.start + cfg.size <= 254
  BY <1>c
<1>f. /\ (cfg.start + cfg.size) % 256 = cfg.start + cfg.size
      /\ cfg.start .. (cfg.start + cfg.size - 1) \subseteq 0..256
      /\ \A b \in 0..256 : b >= cfg.start /\ b < cfg.start + cfg.size
                          => b \in cfg.start .. (cfg.start + cfg.size - 1)
  BY <1>d, <1>e, PoolArithmetic
<1>1. CASE Honoured(want, first)
  <2>1. a = want
    BY <1>1 DEF PickAddr
  <2>2. want >= cfg.start /\ want < cfg.start + cfg.size
    BY <1>1, <1>f DEF Honoured, InPool
  <2>3. want \in cfg.start .. (cfg.start + cfg.size - 1)
    BY <2>2, <1>f DEF Addr
  <2>4. ~InUse(want)
    BY <1>1 DEF Honoured
  <2>. QED BY <2>1, <2>3, <2>4
<1>2. CASE ~Honoured(want, first)
  <2>1. TableFree \in SUBSET Nat
    BY <1>d DEF TableFree
  <2>2. a \in TableFree
    <3>1. CASE Clean(scan) # {}
      BY <3>1, <1>2, <2>1, LeastIn DEF PickAddr, Clean
    <3>2. CASE Clean(scan) = {}
      BY <3>2, <1>2, <2>1, LeastIn DEF PickAddr
    <3>. QED BY <3>1, <3>2
  <2>3. a \in cfg.start .. (cfg.start + cfg.size - 1)
    BY <2>2 DEF TableFree
  <2>4. ~InUse(a)
    BY <2>2 DEF TableFree
  <2>5. a \in Addr
    BY <2>3, <1>f DEF Addr
  <2>. QED BY <2>3, <2>4, <2>5
<1>. QED BY <1>1, <1>2

\* What allocateLease returns: nothing, the lease the client already has, or a
\* free slot and an address nobody has.
LEMMA AllocationCases ==
  ASSUME TypeOK, NEW m \in Mac, NEW want \in Addr, NEW first, NEW scan,
         NEW al, al = Allocation(m, want, first, scan), al.slot # 0
  PROVE  /\ al.slot \in Slot
         /\ al.ip \in Addr
         /\ \/ /\ Known(m)
               /\ lease[al.slot].mac = m
               /\ lease[al.slot].ip = al.ip
            \/ /\ ~Known(m)
               /\ lease[al.slot].mac = NoMac
               /\ ~InUse(al.ip)
<1>1. CASE Known(m)
  <2>1. al = [slot |-> LeaseFor(m), ip |-> lease[LeaseFor(m)].ip]
    BY <1>1 DEF Allocation
  <2>2. LeaseFor(m) \in Slot /\ lease[LeaseFor(m)].mac = m
    BY <1>1, KnownSlot
  <2>. QED BY <1>1, <2>1, <2>2 DEF TypeOK
<1>2. CASE ~Known(m)
  <2>. DEFINE a == PickAddr(want, first, scan)
  <2>1. a # NoIp /\ FreeSlots # {} /\ al = [slot |-> Least(FreeSlots), ip |-> a]
    BY <1>2 DEF Allocation
  <2>2. a \in Addr /\ ~InUse(a)
    BY <2>1, PickedFree DEF TypeOK
  <2>3. Least(FreeSlots) \in Slot /\ lease[Least(FreeSlots)].mac = NoMac
    BY <2>1, FreeSlot
  <2>. QED BY <1>2, <2>1, <2>2, <2>3
<1>. QED BY <1>1, <1>2

-----------------------------------------------------------------------------
(* Type correctness *)

LeaseRecord  == [mac : Mac \cup {NoMac}, ip : Addr, expires : 0 .. ClockSize - 1]
ClientRecord == [st : ClientState, ip : Addr, left : 0 .. LeaseMs, here : BOOLEAN]

\* The packet at the head of the queue, and the queue without it.
LEMMA QueueHead ==
  ASSUME TypeOK, queue # <<>>
  PROVE  /\ Head(queue) \in Message
         /\ Tail(queue) \in Seq(Message)
         /\ Head(queue).mac \in Mac /\ Head(queue).ip \in Addr
<1>1. Head(queue) \in Message /\ Tail(queue) \in Seq(Message)
  BY DEF TypeOK
<1>. QED BY <1>1 DEF Message

LEMMA IdleType == Idle \in ClientRecord
BY ClockAssumption DEF Idle, ClientRecord, ClientState, Addr, NoIp

LEMMA HearsType ==
  ASSUME TypeOK, NEW p \in Message, NEW heard, NEW states, NEW c \in ClientRecord,
         Hears(p, heard, states, c)
  PROVE  client' \in [Mac -> ClientRecord]
<1>1. p.mac \in Mac
  BY DEF Message
<1>. QED BY <1>1 DEF Hears, TypeOK, ClientRecord

LEMMA AnswerType ==
  ASSUME TypeOK, NEW p \in Message, NEW heard, NEW a \in Addr
  PROVE  /\ Offered(p, a, heard) => client' \in [Mac -> ClientRecord]
         /\ Acked(p, a, heard)   => client' \in [Mac -> ClientRecord]
         /\ Naked(p, heard)      => client' \in [Mac -> ClientRecord]
<1>1. [Idle EXCEPT !.st = "offered", !.ip = a] \in ClientRecord
  BY IdleType DEF ClientRecord, ClientState
<1>2. [st |-> "bound", ip |-> a, left |-> LeaseMs, here |-> TRUE] \in ClientRecord
  BY ClockAssumption DEF ClientRecord, ClientState
<1>. QED BY <1>1, <1>2, IdleType, HearsType DEF Offered, Acked, Naked

LEMMA GrantType ==
  ASSUME TypeOK, NEW m \in Mac, NEW al, al.slot \in Slot, al.ip \in Addr,
         NEW t \in 0 .. ClockSize - 1
  PROVE  Grant(m, al, t) \in [Slot -> LeaseRecord]
<1>1. [mac |-> m, ip |-> al.ip, expires |-> t] \in LeaseRecord
  BY DEF LeaseRecord
<1>. QED BY <1>1 DEF Grant, TypeOK, LeaseRecord

LEMMA ImageType ==
  ASSUME NEW table \in [Slot -> LeaseRecord]
  PROVE  ImageOf(table) \in [Slot -> [mac : Mac \cup {NoMac}, ip : Addr]]
BY DEF ImageOf, LeaseRecord

LEMMA DeadlineType ==
  ASSUME TypeOK
  PROVE  Deadline \in 0 .. ClockSize - 1
<1>1. now \in 0 .. ClockSize - 1
  BY DEF TypeOK
<1>2. now + LeaseMs \in 0 .. (2 * ClockSize - 1)
  BY <1>1, ClockAssumption
<1>. QED BY <1>2, ClockClosed DEF Deadline

LEMMA FreedType ==
  ASSUME NEW l \in LeaseRecord
  PROVE  Freed(l) \in LeaseRecord
<1>1. NoIp \in Addr
  BY DEF NoIp, Addr
<1>. QED BY <1>1 DEF Freed, LeaseRecord

LEMMA InitType == Init => TypeOK
<1>. SUFFICES ASSUME Init PROVE TypeOK
  OBVIOUS
<1>1. lease \in [Slot -> LeaseRecord]
  BY ClockAssumption DEF Init, EmptyTable, LeaseRecord, Addr, NoIp
<1>2. client \in [Mac -> ClientRecord]
  BY IdleType DEF Init
<1>3. image \in [Slot -> [mac : Mac \cup {NoMac}, ip : Addr]]
  BY DEF Init, Addr, NoIp
<1>4. now \in 0 .. ClockSize - 1 /\ stall \in 0 .. MaxStall
  BY ClockAssumption, SizeAssumption DEF Init
<1>5. queue \in Seq(Message)
  BY DEF Init
<1>. QED BY <1>1, <1>2, <1>3, <1>4, <1>5 DEF Init, TypeOK, LeaseRecord, ClientRecord

LEMMA PacketType ==
  ASSUME TypeOK, HandlePacket
  PROVE  /\ lease' \in [Slot -> LeaseRecord]
         /\ image' \in [Slot -> [mac : Mac \cup {NoMac}, ip : Addr]]
         /\ client' \in [Mac -> ClientRecord]
         /\ queue' \in Seq(Message)
         /\ UNCHANGED <<cfg, active, now, stall, draining>>
<1>0. /\ lease \in [Slot -> LeaseRecord]
      /\ image \in [Slot -> [mac : Mac \cup {NoMac}, ip : Addr]]
      /\ client \in [Mac -> ClientRecord]
  BY DEF TypeOK, LeaseRecord, ClientRecord
<1>. DEFINE p == Head(queue)
<1>1. ASSUME NEW heard \in BOOLEAN, NEW first, NEW scan, HandleDiscover(heard, first, scan)
      PROVE  /\ lease' \in [Slot -> LeaseRecord]
             /\ client' \in [Mac -> ClientRecord]
             /\ UNCHANGED image
  <2>. DEFINE al == Allocation(p.mac, p.ip, first, scan)
  <2>0. p \in Message /\ p.mac \in Mac /\ p.ip \in Addr
    BY <1>1, QueueHead DEF HandleDiscover, Receive
  <2>1. CASE al.slot = 0
    BY <1>0, <1>1, <2>1 DEF HandleDiscover
  <2>2. CASE al.slot # 0
    <3>1. al.slot \in Slot /\ al.ip \in Addr
      BY <2>0, <2>2, AllocationCases
    <3>2. lease' = Grant(p.mac, al, Deadline) /\ Offered(p, al.ip, heard)
      BY <1>1, <2>2 DEF HandleDiscover
    <3>3. UNCHANGED image
      BY <1>1 DEF HandleDiscover
    <3>. QED BY <2>0, <3>1, <3>2, <3>3, GrantType, DeadlineType, AnswerType
  <2>. QED BY <2>1, <2>2
<1>2. ASSUME NEW heard \in BOOLEAN, NEW first, NEW scan, HandleRequest(heard, first, scan)
      PROVE  /\ lease' \in [Slot -> LeaseRecord]
             /\ client' \in [Mac -> ClientRecord]
             /\ image' \in [Slot -> [mac : Mac \cup {NoMac}, ip : Addr]]
  <2>. DEFINE al == Allocation(p.mac, p.ip, first, scan)
  <2>0. p \in Message /\ p.mac \in Mac /\ p.ip \in Addr
    BY <1>2, QueueHead DEF HandleRequest, Receive
  <2>1. CASE UNCHANGED <<lease, image, client>>
    BY <1>0, <2>1
  <2>2. CASE Naked(p, heard) /\ UNCHANGED <<lease, image>>
    BY <1>0, <2>0, <2>2, AnswerType DEF Addr
  <2>3. CASE /\ al.slot # 0
             /\ Naked(p, heard)
             /\ lease' = Grant(p.mac, al, lease[al.slot].expires)
             /\ UNCHANGED image
    <3>1. al.slot \in Slot /\ al.ip \in Addr
      BY <2>0, <2>3, AllocationCases
    <3>2. lease[al.slot].expires \in 0 .. ClockSize - 1
      BY <3>1 DEF TypeOK
    <3>. QED BY <1>0, <2>0, <2>3, <3>1, <3>2, GrantType, AnswerType
  <2>4. CASE /\ al.slot # 0
             /\ lease' = Grant(p.mac, al, Deadline)
             /\ Acked(p, al.ip, heard)
             /\ image' = IF Known(p.mac) THEN image ELSE ImageOf(lease')
    <3>1. al.slot \in Slot /\ al.ip \in Addr
      BY <2>0, <2>4, AllocationCases
    <3>2. lease' \in [Slot -> LeaseRecord]
      BY <2>0, <2>4, <3>1, GrantType, DeadlineType
    <3>3. image' \in [Slot -> [mac : Mac \cup {NoMac}, ip : Addr]]
      BY <1>0, <2>4, <3>2, ImageType
    <3>. QED BY <2>0, <2>4, <3>1, <3>2, <3>3, AnswerType
  <2>. QED BY <1>2, <2>1, <2>2, <2>3, <2>4 DEF HandleRequest
<1>3. ASSUME HandleGiveBack
      PROVE  /\ lease' \in [Slot -> LeaseRecord]
             /\ image' \in [Slot -> [mac : Mac \cup {NoMac}, ip : Addr]]
  <2>0. p.mac \in Mac
    BY <1>3, QueueHead DEF HandleGiveBack, Receive
  <2>1. lease' \in [Slot -> LeaseRecord]
    <3>1. CASE ~Known(p.mac)
      BY <1>0, <1>3, <3>1 DEF HandleGiveBack
    <3>2. CASE Known(p.mac)
      <4>1. LeaseFor(p.mac) \in Slot
        BY <2>0, <3>2, KnownSlot
      <4>2. lease' = [lease EXCEPT ![LeaseFor(p.mac)] = Freed(lease[LeaseFor(p.mac)])]
        BY <1>3, <3>2 DEF HandleGiveBack
      <4>. QED BY <1>0, <4>1, <4>2, FreedType
    <3>. QED BY <3>1, <3>2
  <2>2. image' = ImageOf(lease')
    BY <1>3 DEF HandleGiveBack
  <2>. QED BY <2>1, <2>2, ImageType
<1>4. queue' \in Seq(Message) /\ UNCHANGED <<cfg, active, now, stall, draining>>
  BY QueueHead DEF HandlePacket, HandleDiscover, HandleRequest, HandleGiveBack, HandleInform, Receive
<1>5. CASE HandleGiveBack
  BY <1>0, <1>3, <1>4, <1>5 DEF HandleGiveBack
<1>6. CASE HandleInform
  BY <1>0, <1>4, <1>6 DEF HandleInform
<1>. QED BY <1>0, <1>1, <1>2, <1>4, <1>5, <1>6 DEF HandlePacket

LEMMA SendType ==
  ASSUME TypeOK, NEW m \in Mac, NEW q \in {queue, Retired(m)},
         NEW type \in {"DISCOVER", "REQUEST", "GIVEBACK", "INFORM"},
         NEW a \in Addr, NEW other \in BOOLEAN,
         Send(q, m, type, a, other)
  PROVE  queue' \in Seq(Message)
<1>1. queue \in Seq(Message)
  BY DEF TypeOK
<1>2. Retired(m) \in Seq(Message)
  <2>1. ASSUME NEW i \in 1 .. Len(queue)
        PROVE  Retired(m)[i] \in Message
    <3>1. queue[i] \in Message
      BY <1>1
    <3>2. [queue[i] EXCEPT !.live = FALSE] \in Message
      BY <3>1 DEF Message
    <3>. QED BY <3>1, <3>2 DEF Retired
  <2>2. Len(queue) \in Nat
    BY <1>1
  <2>. QED BY <2>1, <2>2 DEF Retired
<1>3. [type |-> type, mac |-> m, ip |-> a, other |-> other, live |-> TRUE] \in Message
  BY DEF Message
<1>. QED BY <1>1, <1>2, <1>3 DEF Send

LEMMA ClientType ==
  ASSUME TypeOK, NEW m \in Mac, ClientStep(m)
  PROVE  /\ queue' \in Seq(Message)
         /\ client' \in [Mac -> ClientRecord]
         /\ UNCHANGED <<cfg, active, lease, image, now, stall, draining>>
<1>1. client \in [Mac -> ClientRecord] /\ client[m].ip \in Addr
  BY DEF TypeOK, ClientRecord
<1>2. NoIp \in Addr /\ \A a \in ReqAddr : a \in Addr
  BY AddrAssumption DEF NoIp, Addr
<1>3. \A c \in ClientRecord : Becomes(m, c) => client' \in [Mac -> ClientRecord]
  BY <1>1 DEF Becomes
<1>4. \A st \in ClientState, a \in Addr :
         /\ [Idle EXCEPT !.st = st] \in ClientRecord
         /\ [Idle EXCEPT !.st = st, !.ip = a] \in ClientRecord
         /\ [client[m] EXCEPT !.st = st] \in ClientRecord
  BY <1>1, IdleType DEF ClientRecord
<1>5. ASSUME NEW a \in ReqAddr, Discover(m, a) \/ Remember(m, a)
      PROVE  queue' \in Seq(Message) /\ client' \in [Mac -> ClientRecord]
  BY <1>2, <1>3, <1>4, <1>5, SendType DEF Discover, Remember, ClientState
<1>6. CASE Select(m)
  BY <1>1, <1>3, <1>4, <1>6, SendType DEF Select, ClientState, Send, serverVars
<1>7. CASE Elsewhere(m)
  BY <1>1, <1>3, <1>4, <1>7, SendType, IdleType DEF Elsewhere, Send, serverVars
<1>8. CASE Repeat(m)
  BY <1>1, <1>8, SendType DEF Repeat, Send, serverVars
<1>9. CASE Renew(m)
  BY <1>1, <1>3, <1>4, <1>9, SendType DEF Renew, ClientState, Send, serverVars
<1>10. CASE GiveBack(m)
  BY <1>1, <1>3, <1>10, SendType, IdleType DEF GiveBack, Send, serverVars
<1>11. CASE Inform(m)
  BY <1>1, <1>2, <1>11, SendType DEF Inform, Send, serverVars
<1>12. UNCHANGED <<cfg, active, lease, image, now, stall, draining>>
  BY DEF ClientStep, Discover, Remember, Select, Elsewhere, Repeat, Renew, GiveBack,
         Inform, Send, serverVars
<1>. QED BY <1>5, <1>6, <1>7, <1>8, <1>9, <1>10, <1>11, <1>12 DEF ClientStep

LEMMA TypeStep == TypeOK /\ [Next]_vars => TypeOK'
<1>. SUFFICES ASSUME TypeOK, [Next]_vars PROVE TypeOK'
  OBVIOUS
<1>0. /\ lease \in [Slot -> LeaseRecord]
      /\ image \in [Slot -> [mac : Mac \cup {NoMac}, ip : Addr]]
      /\ client \in [Mac -> ClientRecord]
  BY DEF TypeOK, LeaseRecord, ClientRecord
<1>1. CASE TickExpire
  <2>1. lease' \in [Slot -> LeaseRecord]
    BY <1>0, <1>1, FreedType DEF TickExpire
  <2>2. stall' \in 0 .. MaxStall
    BY <1>1, SizeAssumption DEF TickExpire
  <2>. QED BY <1>1, <2>1, <2>2 DEF TickExpire, TypeOK, LeaseRecord
<1>2. CASE TickDone
  BY <1>2 DEF TickDone, TypeOK
<1>3. CASE HandlePacket
  BY <1>3, PacketType DEF TypeOK, LeaseRecord, ClientRecord
<1>4. ASSUME NEW m \in Mac, ClientStep(m) PROVE TypeOK'
  BY <1>4, ClientType DEF TypeOK, ClientRecord
<1>5. CASE Elapse
  <2>1. now' \in 0 .. ClockSize - 1
    BY <1>5, ClockAssumption DEF Elapse, Wrap, TypeOK
  <2>2. stall' \in 0 .. MaxStall
    BY <1>5, SizeAssumption DEF Elapse, TypeOK
  <2>3. \A c \in ClientRecord : Aged(c) \in ClientRecord
    BY IdleType, ClockAssumption DEF Aged, ClientRecord
  <2>4. client' \in [Mac -> ClientRecord]
    BY <1>0, <1>5, <2>3 DEF Elapse
  <2>. QED BY <1>5, <2>1, <2>2, <2>4 DEF Elapse, TypeOK, ClientRecord
<1>6. ASSUME NEW c \in Configs, NEW bound \in BOOLEAN, Restart(c, bound) PROVE TypeOK'
  <2>1. 0 \in 0 .. ClockSize - 1 /\ LeaseMs \in 0 .. ClockSize - 1 /\ Wrap(LeaseMs) = LeaseMs
    BY ClockAssumption DEF Wrap
  <2>2. NoIp \in Addr
    BY DEF NoIp, Addr
  <2>3. EmptyTable \in [Slot -> LeaseRecord]
    BY <2>1, <2>2 DEF EmptyTable, LeaseRecord
  <2>4. Restored \in [Slot -> LeaseRecord]
    BY <1>0, <2>1 DEF Restored, LeaseRecord
  <2>5. \A cl \in ClientRecord : Rebooted(cl, c) \in ClientRecord
    BY IdleType DEF Rebooted, ClientRecord
  <2>6. client' \in [Mac -> ClientRecord]
    BY <1>0, <1>6, <2>5 DEF Restart
  <2>7. lease' \in [Slot -> LeaseRecord]
    BY <1>6, <2>3, <2>4 DEF Restart
  <2>8. now' \in 0 .. ClockSize - 1 /\ stall' \in 0 .. MaxStall /\ queue' \in Seq(Message)
    BY <1>6, <2>1, SizeAssumption DEF Restart
  <2>. QED BY <1>6, <2>6, <2>7, <2>8 DEF Restart, TypeOK, LeaseRecord, ClientRecord
<1>7. CASE UNCHANGED vars
  BY <1>7 DEF vars, TypeOK
<1>. QED BY <1>1, <1>2, <1>3, <1>4, <1>5, <1>6, <1>7 DEF Next

\* Every variable of the server, its EEPROM image and its clients keeps its
\* type: table, clock and deadlines stay in range through wraps and reboots.
THEOREM TypeCorrect == Spec => []TypeOK
BY InitType, TypeStep, PTL DEF Spec
-----------------------------------------------------------------------------
(* One lease per client and per address *)

\* A table whose entries are unused or taken from a one-to-one table is itself
\* one-to-one.
LEMMA DistinctShrinks ==
  ASSUME NEW old, NEW new, Distinct(old),
         \A s \in Slot : new[s].mac # NoMac =>
            new[s].mac = old[s].mac /\ new[s].ip = old[s].ip
  PROVE  Distinct(new)
BY DEF Distinct

LEMMA DistinctGrant ==
  ASSUME TypeOK, Distinct(lease), NEW m \in Mac, NEW want \in Addr, NEW first, NEW scan,
         NEW al, al = Allocation(m, want, first, scan), al.slot # 0,
         NEW t \in 0 .. ClockSize - 1
  PROVE  Distinct(Grant(m, al, t))
<1>. DEFINE new == Grant(m, al, t)
<1>0. /\ al.slot \in Slot
      /\ \/ Known(m) /\ lease[al.slot].mac = m /\ lease[al.slot].ip = al.ip
         \/ ~Known(m) /\ lease[al.slot].mac = NoMac /\ ~InUse(al.ip)
  BY AllocationCases
<1>1. /\ new[al.slot].mac = m
      /\ new[al.slot].ip = al.ip
      /\ \A s \in Slot \ {al.slot} : new[s] = lease[s]
  BY <1>0 DEF Grant, TypeOK
<1>2. CASE Known(m) /\ lease[al.slot].mac = m /\ lease[al.slot].ip = al.ip
  BY <1>1, <1>2, DistinctShrinks
<1>3. CASE ~Known(m) /\ ~InUse(al.ip)
  <2>1. \A s \in Slot : lease[s].mac # m
    BY <1>3 DEF Known, SlotsFor
  <2>2. \A s \in Slot : lease[s].mac # NoMac => lease[s].ip # al.ip
    BY <1>3 DEF InUse, Used
  <2>. QED BY <1>0, <1>1, <2>1, <2>2 DEF Distinct
<1>. QED BY <1>0, <1>2, <1>3

LEMMA DistinctImage ==
  ASSUME NEW table, Distinct(table)
  PROVE  Distinct(ImageOf(table))
BY DEF Distinct, ImageOf

LEMMA DistinctInit == Init => LeasesDistinct
BY DEF Init, LeasesDistinct, Distinct, EmptyTable

LEMMA DistinctPacket ==
  ASSUME TypeOK, LeasesDistinct, HandlePacket
  PROVE  LeasesDistinct'
<1>. DEFINE p == Head(queue)
<1>0. Distinct(lease) /\ Distinct(image)
  BY DEF LeasesDistinct
<1>. SUFFICES Distinct(lease') /\ Distinct(image')
  BY DEF LeasesDistinct, Distinct
<1>1. ASSUME NEW heard \in BOOLEAN, NEW first, NEW scan, HandleDiscover(heard, first, scan)
      PROVE  Distinct(lease') /\ Distinct(image')
  <2>. DEFINE al == Allocation(p.mac, p.ip, first, scan)
  <2>0. p.mac \in Mac /\ p.ip \in Addr
    BY <1>1, QueueHead DEF HandleDiscover, Receive
  <2>1. \/ UNCHANGED lease
        \/ al.slot # 0 /\ lease' = Grant(p.mac, al, Deadline)
    BY <1>1 DEF HandleDiscover
  <2>2. Distinct(lease')
    BY <1>0, <2>0, <2>1, DistinctGrant, DeadlineType
  <2>3. UNCHANGED image
    BY <1>1 DEF HandleDiscover
  <2>. QED BY <1>0, <2>2, <2>3
<1>2. ASSUME NEW heard \in BOOLEAN, NEW first, NEW scan, HandleRequest(heard, first, scan)
      PROVE  Distinct(lease') /\ Distinct(image')
  <2>. DEFINE al == Allocation(p.mac, p.ip, first, scan)
  <2>0. p.mac \in Mac /\ p.ip \in Addr
    BY <1>2, QueueHead DEF HandleRequest, Receive
  <2>1. \/ UNCHANGED lease
        \/ al.slot # 0 /\ lease' = Grant(p.mac, al, lease[al.slot].expires)
        \/ al.slot # 0 /\ lease' = Grant(p.mac, al, Deadline)
    BY <1>2 DEF HandleRequest
  <2>2. Distinct(lease')
    <3>1. CASE al.slot # 0 /\ lease' = Grant(p.mac, al, lease[al.slot].expires)
      <4>1. lease[al.slot].expires \in 0 .. ClockSize - 1
        BY <2>0, <3>1, AllocationCases DEF TypeOK
      <4>. QED BY <1>0, <2>0, <3>1, <4>1, DistinctGrant
    <3>. QED BY <1>0, <2>0, <2>1, <3>1, DistinctGrant, DeadlineType
  <2>3. image' \in {image, ImageOf(lease')}
    BY <1>2 DEF HandleRequest
  <2>. QED BY <1>0, <2>2, <2>3, DistinctImage
<1>3. CASE HandleGiveBack
  <2>0. p.mac \in Mac
    BY <1>3, QueueHead DEF HandleGiveBack, Receive
  <2>1. \/ UNCHANGED lease
        \/ /\ LeaseFor(p.mac) \in Slot
           /\ lease' = [lease EXCEPT ![LeaseFor(p.mac)] = Freed(lease[LeaseFor(p.mac)])]
    BY <1>3, <2>0, KnownSlot DEF HandleGiveBack
  <2>2. Distinct(lease')
    <3>1. ASSUME NEW s \in Slot, lease'[s].mac # NoMac
          PROVE  lease'[s].mac = lease[s].mac /\ lease'[s].ip = lease[s].ip
      <4>. DEFINE k == LeaseFor(p.mac)
      <4>1. CASE UNCHANGED lease
        BY <4>1
      <4>2. CASE k \in Slot /\ lease' = [lease EXCEPT ![k] = Freed(lease[k])]
        <5>1. lease' = [t \in Slot |-> IF t = k THEN Freed(lease[k]) ELSE lease[t]]
          BY <4>2 DEF TypeOK
        <5>2. s # k
          BY <3>1, <5>1 DEF Freed
        <5>. QED BY <5>1, <5>2
      <4>. QED BY <2>1, <4>1, <4>2
    <3>. QED BY <1>0, <3>1, DistinctShrinks
  <2>3. image' = ImageOf(lease')
    BY <1>3 DEF HandleGiveBack
  <2>. QED BY <2>2, <2>3, DistinctImage
<1>4. CASE HandleInform
  BY <1>0, <1>4 DEF HandleInform
<1>. QED BY <1>1, <1>2, <1>3, <1>4 DEF HandlePacket

LEMMA DistinctStep == TypeOK /\ LeasesDistinct /\ [Next]_vars => LeasesDistinct'
<1>. SUFFICES ASSUME TypeOK, LeasesDistinct, [Next]_vars PROVE LeasesDistinct'
  OBVIOUS
<1>0. Distinct(lease) /\ Distinct(image)
  BY DEF LeasesDistinct
<1>1. CASE TickExpire
  <2>1. Distinct(lease')
    BY <1>0, <1>1, DistinctShrinks DEF TickExpire, Freed
  <2>2. UNCHANGED image
    BY <1>1 DEF TickExpire
  <2>. QED BY <1>0, <2>1, <2>2 DEF LeasesDistinct, Distinct
<1>2. CASE HandlePacket
  BY <1>2, DistinctPacket
<1>3. ASSUME NEW c \in Configs, NEW bound \in BOOLEAN, Restart(c, bound)
      PROVE  LeasesDistinct'
  <2>1. Distinct(EmptyTable)
    BY DEF Distinct, EmptyTable
  <2>2. Distinct(Restored)
    BY <1>0, DistinctShrinks DEF Restored
  <2>3. Distinct(lease') /\ UNCHANGED image
    BY <1>3, <2>1, <2>2 DEF Restart
  <2>. QED BY <1>0, <2>3 DEF LeasesDistinct, Distinct
<1>4. CASE UNCHANGED <<lease, image>>
  BY <1>0, <1>4 DEF LeasesDistinct, Distinct
<1>5. TickDone \/ Elapse \/ (\E m \in Mac : ClientStep(m)) \/ UNCHANGED vars
        => UNCHANGED <<lease, image>>
  BY ClientType DEF TickDone, Elapse, vars
<1>. QED BY <1>1, <1>2, <1>3, <1>4, <1>5 DEF Next

\* However offers, requests, give-backs, expiries and reboots interleave, the
\* lease table and its EEPROM image are one-to-one between clients and
\* addresses: the argument is that every new entry takes a free slot for a
\* client without a lease and an address no entry has (AllocationCases), and
\* that an image is a copy of some table.
THEOREM LeasesStayDistinct == Spec => []LeasesDistinct
BY TypeCorrect, DistinctInit, DistinctStep, PTL DEF Spec
-----------------------------------------------------------------------------
(* Acknowledged leases are kept *)

\* Deadlines against a wrapping clock: what is ahead of one reading is behind
\* the other, one tick takes one away from what is ahead, and a fresh deadline
\* is one lease time ahead.
LEMMA ClockFacts ==
  ASSUME NEW e \in 0 .. ClockSize - 1, NEW t \in 0 .. ClockSize - 1
  PROVE  /\ Since(e, t) >= 1 => Since(t, e) = ClockSize - Since(e, t)
         /\ Since(e, t) >= 1 => Since(e, Wrap(t + 1)) = Since(e, t) - 1
         /\ Since(Wrap(t + LeaseMs), t) = LeaseMs
BY ClockAssumption DEF Since, Wrap

\* A lease that is backed is not one the expiry check frees.
LEMMA BackedNotExpired ==
  ASSUME TypeOK, NEW s \in Slot, 1 <= Since(lease[s].expires, now),
         Since(lease[s].expires, now) <= LeaseMs
  PROVE  ~Expired(lease[s])
<1>1. lease[s].expires \in 0 .. ClockSize - 1 /\ now \in 0 .. ClockSize - 1
  BY DEF TypeOK
<1>2. Since(now, lease[s].expires) = ClockSize - Since(lease[s].expires, now)
  BY <1>1, ClockFacts
<1>3. Since(lease[s].expires, now) \in 0 .. ClockSize - 1
  BY <1>1, ClockClosed
<1>. QED BY <1>2, <1>3, ClockAssumption DEF Expired

\* Taking the head off the queue keeps GiveBackLast, if only the sender of a
\* live packet can come to hold a lease by it.
LEMMA TailGiveBackLast ==
  ASSUME TypeOK, GiveBackLast, queue # <<>>, queue' = Tail(queue),
         \A k \in Mac : Holding(client'[k]) =>
            Holding(client[k]) \/ (k = Head(queue).mac /\ Head(queue).live)
  PROVE  GiveBackLast'
<1>1. queue \in Seq(Message)
  BY DEF TypeOK
<1>2. Len(queue') = Len(queue) - 1 /\ Len(queue) \in Nat \ {0}
  BY <1>1
<1>3. \A j \in 1 .. Len(queue') : queue'[j] = queue[j + 1] /\ j + 1 \in 1 .. Len(queue)
  BY <1>1, <1>2
<1>4. Head(queue) = queue[1]
  BY <1>1
<1>. SUFFICES ASSUME NEW j \in 1 .. Len(queue'), queue'[j].type = "GIVEBACK"
              PROVE  /\ ~Holding(client'[queue'[j].mac])
                     /\ \A i \in 1 .. (j - 1) : queue'[i].mac = queue'[j].mac => ~queue'[i].live
  BY DEF GiveBackLast
<1>5. /\ queue'[j] = queue[j + 1]
      /\ j + 1 \in 1 .. Len(queue)
      /\ queue[j + 1].type = "GIVEBACK"
      /\ queue[j + 1].mac \in Mac
  <2>1. queue'[j] = queue[j + 1] /\ j + 1 \in 1 .. Len(queue)
    BY <1>3
  <2>2. queue[j + 1] \in Message
    BY <1>1, <2>1
  <2>. QED BY <2>1, <2>2 DEF Message
<1>6. /\ ~Holding(client[queue[j + 1].mac])
      /\ \A i \in 1 .. j : queue[i].mac = queue[j + 1].mac => ~queue[i].live
  BY <1>5 DEF GiveBackLast
<1>7. ~Holding(client'[queue'[j].mac])
  BY <1>4, <1>5, <1>6
<1>8. ASSUME NEW i \in 1 .. (j - 1), queue'[i].mac = queue'[j].mac
      PROVE  ~queue'[i].live
  <2>1. i \in 1 .. Len(queue') /\ i + 1 \in 1 .. j
    BY <1>2
  <2>2. queue'[i] = queue[i + 1]
    BY <1>3, <2>1
  <2>. QED BY <1>5, <1>6, <1>8, <2>1, <2>2
<1>. QED BY <1>7, <1>8

\* A client's packet keeps GiveBackLast: it makes nobody a holder, and when it
\* gives a lease back everything its sender sent before is retired.
LEMMA SendGiveBackLast ==
  ASSUME TypeOK, GiveBackLast, NEW m \in Mac, NEW q \in {queue, Retired(m)}, NEW type,
         NEW a, NEW other, Send(q, m, type, a, other),
         type = "GIVEBACK" => q = Retired(m) /\ ~Holding(client'[m]),
         \A k \in Mac : Holding(client'[k]) => Holding(client[k])
  PROVE  GiveBackLast'
<1>1. queue \in Seq(Message) /\ Len(queue) \in Nat
  BY DEF TypeOK
<1>2. /\ Len(Retired(m)) = Len(queue)
      /\ \A i \in 1 .. Len(queue) :
            /\ Retired(m)[i].type = queue[i].type
            /\ Retired(m)[i].mac = queue[i].mac
            /\ Retired(m)[i].live => queue[i].live
            /\ queue[i].mac = m => ~Retired(m)[i].live
  <2>1. ASSUME NEW i \in 1 .. Len(queue)
        PROVE  /\ Retired(m)[i].type = queue[i].type
               /\ Retired(m)[i].mac = queue[i].mac
               /\ Retired(m)[i].live => queue[i].live
               /\ queue[i].mac = m => ~Retired(m)[i].live
    <3>1. queue[i] \in Message
      BY <1>1
    <3>2. Retired(m)[i] = IF queue[i].mac = m THEN [queue[i] EXCEPT !.live = FALSE] ELSE queue[i]
      BY DEF Retired
    <3>. QED BY <3>1, <3>2 DEF Message
  <2>. QED BY <1>1, <2>1 DEF Retired
<1>3. /\ Len(q) = Len(queue)
      /\ \A i \in 1 .. Len(queue) :
            /\ q[i].type = queue[i].type
            /\ q[i].mac = queue[i].mac
            /\ q[i].live => queue[i].live
  BY <1>2
<1>. DEFINE new == [type |-> type, mac |-> m, ip |-> a, other |-> other, live |-> TRUE]
<1>4. /\ Len(queue') = Len(queue) + 1
      /\ \A i \in 1 .. Len(queue) : queue'[i] = q[i]
      /\ queue'[Len(queue) + 1] = new
  <2>1. q \in Seq(Message \cup {new})
    <3>1. CASE q = queue
      BY <1>1, <3>1
    <3>2. CASE q = Retired(m)
      <4>1. ASSUME NEW i \in 1 .. Len(queue) PROVE Retired(m)[i] \in Message
        <5>1. queue[i] \in Message
          BY <1>1
        <5>2. [queue[i] EXCEPT !.live = FALSE] \in Message
          BY <5>1 DEF Message
        <5>. QED BY <5>1, <5>2 DEF Retired
      <4>. QED BY <1>1, <3>2, <4>1 DEF Retired
    <3>. QED BY <3>1, <3>2
  <2>2. queue' = Append(q, new)
    BY DEF Send
  <2>. QED BY <1>3, <2>1, <2>2
<1>. SUFFICES ASSUME NEW j \in 1 .. Len(queue'), queue'[j].type = "GIVEBACK"
              PROVE  /\ ~Holding(client'[queue'[j].mac])
                     /\ \A i \in 1 .. (j - 1) : queue'[i].mac = queue'[j].mac => ~queue'[i].live
  BY DEF GiveBackLast
<1>5. CASE j \in 1 .. Len(queue)
  <2>1. queue'[j].mac = queue[j].mac /\ queue[j].type = "GIVEBACK" /\ queue[j].mac \in Mac
    <3>1. queue[j] \in Message
      BY <1>1, <1>5
    <3>2. queue'[j] = q[j] /\ q[j].mac = queue[j].mac /\ q[j].type = queue[j].type
      BY <1>3, <1>4, <1>5
    <3>. QED BY <3>1, <3>2 DEF Message
  <2>2. ~Holding(client[queue[j].mac])
    BY <1>5, <2>1 DEF GiveBackLast
  <2>3. ASSUME NEW i \in 1 .. (j - 1), queue'[i].mac = queue'[j].mac
        PROVE  ~queue'[i].live
    <3>1. i \in 1 .. Len(queue) /\ queue'[i] = q[i]
      BY <1>1, <1>4, <1>5
    <3>. QED BY <1>3, <1>5, <2>1, <2>3, <3>1 DEF GiveBackLast
  <2>. QED BY <2>1, <2>2, <2>3
<1>6. CASE j = Len(queue) + 1
  <2>1. type = "GIVEBACK" /\ queue'[j].mac = m /\ j - 1 = Len(queue)
    BY <1>1, <1>4, <1>6
  <2>. QED BY <1>2, <1>4, <2>1
<1>. QED BY <1>1, <1>4, <1>5, <1>6

\* A client that goes on holding its address is still backed after another
\* grant, and after one to itself that renews or keeps its deadline.
LEMMA BackedGrant ==
  ASSUME TypeOK, LeasesDistinct, NEW m \in Mac, NEW want \in Addr, NEW first, NEW scan,
         NEW al, al = Allocation(m, want, first, scan), al.slot # 0,
         NEW t \in {lease[al.slot].expires, Deadline},
         lease' = Grant(m, al, t), now' = now,
         NEW k \in Mac, client'[k] = client[k], Backed(k)
  PROVE  Backed(k)'
<1>1. PICK s \in Slot : /\ lease[s].mac = k
                        /\ lease[s].ip = client[k].ip
                        /\ client[k].left <= Since(lease[s].expires, now)
                        /\ Since(lease[s].expires, now) <= LeaseMs
  BY DEF Backed
<1>2. /\ al.slot \in Slot
      /\ \/ Known(m) /\ lease[al.slot].mac = m /\ lease[al.slot].ip = al.ip
         \/ ~Known(m) /\ lease[al.slot].mac = NoMac
  BY AllocationCases
<1>3. /\ lease'[al.slot] = [mac |-> m, ip |-> al.ip, expires |-> t]
      /\ \A i \in Slot \ {al.slot} : lease'[i] = lease[i]
  BY <1>2 DEF Grant, TypeOK
<1>4. k # NoMac
  BY MacAssumption
<1>5. CASE s # al.slot
  BY <1>1, <1>3, <1>5 DEF Backed
<1>6. CASE s = al.slot
  <2>1. k = m /\ lease[s].ip = al.ip
    BY <1>1, <1>2, <1>4, <1>6
  <2>2. client[k].left \in 0 .. LeaseMs
    BY DEF TypeOK
  <2>3. now \in 0 .. ClockSize - 1
    BY DEF TypeOK
  <2>4. Since(Deadline, now) = LeaseMs
    BY <2>3, ClockFacts DEF Deadline
  <2>5. client[k].left <= Since(t, now) /\ Since(t, now) <= LeaseMs
    BY <1>1, <1>6, <2>2, <2>4, ClockAssumption
  <2>. QED BY <1>1, <1>3, <1>6, <2>1, <2>5 DEF Backed
<1>. QED BY <1>5, <1>6

\* The client that takes an acknowledgement is backed by it.
LEMMA BackedAck ==
  ASSUME TypeOK, NEW m \in Mac, NEW want \in Addr, NEW first, NEW scan,
         NEW al, al = Allocation(m, want, first, scan), al.slot # 0,
         lease' = Grant(m, al, Deadline), now' = now,
         client'[m] = [st |-> "bound", ip |-> al.ip, left |-> LeaseMs, here |-> TRUE]
  PROVE  Backed(m)'
<1>1. al.slot \in Slot
  BY AllocationCases
<1>2. lease'[al.slot] = [mac |-> m, ip |-> al.ip, expires |-> Deadline]
  BY <1>1 DEF Grant, TypeOK
<1>3. now \in 0 .. ClockSize - 1
  BY DEF TypeOK
<1>4. Since(Deadline, now) = LeaseMs
  BY <1>3, ClockFacts DEF Deadline
<1>. QED BY <1>1, <1>2, <1>4, ClockAssumption DEF Backed

\* What an answer does to the clients: nobody starts to hold an address but
\* the one that waits for an ACK.
LEMMA AnswerHolders ==
  ASSUME TypeOK, NEW p \in Message, NEW heard, NEW a \in Addr
  PROVE  /\ Offered(p, a, heard) =>
              \A k \in Mac : client'[k] = client[k] \/ ~Holding(client'[k])
         /\ Naked(p, heard) =>
              \A k \in Mac : client'[k] = client[k] \/ ~Holding(client'[k])
         /\ Acked(p, a, heard) =>
              \A k \in Mac : \/ client'[k] = client[k]
                             \/ /\ k = p.mac /\ p.live
                                /\ client'[k] = [st |-> "bound", ip |-> a,
                                                left |-> LeaseMs, here |-> TRUE]
<1>1. p.mac \in Mac
  BY DEF Message
<1>2. ~Holding(Idle) /\ ~Holding([Idle EXCEPT !.st = "offered", !.ip = a])
  BY DEF Holding, Idle
<1>. QED BY <1>1, <1>2 DEF Offered, Naked, Acked, Hears, TypeOK

\* The two parts of HolderInv, one client and the queue.
HolderOK(k) == Holding(client[k]) => client[k].left >= 1 /\ (client[k].here => Backed(k))

LEMMA HolderParts ==
  /\ HolderInv  <=> (\A k \in Mac : HolderOK(k)) /\ GiveBackLast
  /\ HolderInv' <=> (\A k \in Mac : HolderOK(k)') /\ GiveBackLast'
BY DEF HolderInv, HolderOK

LEMMA HolderPacket ==
  ASSUME TypeOK, LeasesDistinct, HolderInv, HandlePacket
  PROVE  HolderInv'
<1>. DEFINE p == Head(queue)
<1>0. GiveBackLast /\ \A k \in Mac : HolderOK(k)
  BY HolderParts
<1>a. /\ p \in Message /\ p.mac \in Mac /\ p.ip \in Addr
      /\ queue # <<>> /\ queue' = Tail(queue)
  BY QueueHead DEF HandlePacket, HandleDiscover, HandleRequest, HandleGiveBack,
                   HandleInform, Receive
<1>b. now' = now
  BY PacketType
<1>1. ASSUME NEW first, NEW scan, NEW al, al = Allocation(p.mac, p.ip, first, scan),
             al.slot # 0, NEW t \in {lease[al.slot].expires, Deadline},
             lease' = Grant(p.mac, al, t),
             \A k \in Mac : client'[k] = client[k] \/ ~Holding(client'[k])
      PROVE  HolderInv'
  <2>1. ASSUME NEW k \in Mac PROVE HolderOK(k)'
    <3>1. CASE ~Holding(client'[k])
      BY <3>1 DEF HolderOK
    <3>2. CASE client'[k] = client[k]
      <4>1. Backed(k) => Backed(k)'
        BY <1>a, <1>b, <1>1, <3>2, BackedGrant
      <4>. QED BY <1>0, <3>2, <4>1 DEF HolderOK
    <3>. QED BY <1>1, <3>1, <3>2
  <2>2. GiveBackLast'
    BY <1>0, <1>a, <1>1, TailGiveBackLast
  <2>. QED BY <2>1, <2>2, HolderParts
<1>2. ASSUME UNCHANGED lease,
             \A k \in Mac : client'[k] = client[k] \/ ~Holding(client'[k])
      PROVE  HolderInv'
  <2>1. ASSUME NEW k \in Mac PROVE HolderOK(k)'
    BY <1>0, <1>b, <1>2 DEF HolderOK, Backed
  <2>2. GiveBackLast'
    BY <1>0, <1>a, <1>2, TailGiveBackLast
  <2>. QED BY <2>1, <2>2, HolderParts
<1>3. ASSUME NEW heard \in BOOLEAN, NEW first, NEW scan, HandleDiscover(heard, first, scan)
      PROVE  HolderInv'
  <2>. DEFINE al == Allocation(p.mac, p.ip, first, scan)
  <2>1. CASE UNCHANGED <<lease, client>>
    BY <1>2, <2>1
  <2>2. CASE al.slot # 0 /\ lease' = Grant(p.mac, al, Deadline) /\ Offered(p, al.ip, heard)
    <3>1. al.ip \in Addr
      BY <1>a, <2>2, AllocationCases
    <3>2. \A k \in Mac : client'[k] = client[k] \/ ~Holding(client'[k])
      BY <1>a, <2>2, <3>1, AnswerHolders
    <3>. QED BY <1>1, <2>2, <3>2
  <2>. QED BY <1>3, <2>1, <2>2 DEF HandleDiscover
<1>4. ASSUME NEW heard \in BOOLEAN, NEW first, NEW scan, HandleRequest(heard, first, scan)
      PROVE  HolderInv'
  <2>. DEFINE al == Allocation(p.mac, p.ip, first, scan)
  <2>1. CASE UNCHANGED <<lease, image, client>>
    BY <1>2, <2>1
  <2>2. CASE Naked(p, heard) /\ UNCHANGED <<lease, image>>
    <3>1. \A k \in Mac : client'[k] = client[k] \/ ~Holding(client'[k])
      BY <1>a, <2>2, AnswerHolders
    <3>. QED BY <1>2, <2>2, <3>1
  <2>3. CASE al.slot # 0 /\ Naked(p, heard) /\ lease' = Grant(p.mac, al, lease[al.slot].expires)
    <3>1. \A k \in Mac : client'[k] = client[k] \/ ~Holding(client'[k])
      BY <1>a, <2>3, AnswerHolders
    <3>. QED BY <1>1, <2>3, <3>1
  <2>4. CASE al.slot # 0 /\ lease' = Grant(p.mac, al, Deadline) /\ Acked(p, al.ip, heard)
    <3>1. al.ip \in Addr
      BY <1>a, <2>4, AllocationCases
    <3>2. ASSUME NEW k \in Mac
          PROVE  \/ client'[k] = client[k]
                 \/ /\ k = p.mac /\ p.live
                    /\ client'[k] = [st |-> "bound", ip |-> al.ip,
                                    left |-> LeaseMs, here |-> TRUE]
      BY <1>a, <2>4, <3>1, AnswerHolders
    <3>3. ASSUME NEW k \in Mac PROVE HolderOK(k)'
      <4>1. CASE client'[k] = client[k]
        <5>1. Backed(k) => Backed(k)'
          BY <1>a, <1>b, <2>4, <4>1, BackedGrant
        <5>. QED BY <1>0, <4>1, <5>1 DEF HolderOK
      <4>2. CASE k = p.mac /\ client'[k] = [st |-> "bound", ip |-> al.ip,
                                            left |-> LeaseMs, here |-> TRUE]
        <5>1. Backed(k)'
          BY <1>a, <1>b, <2>4, <4>2, BackedAck
        <5>2. client'[k].left >= 1
          BY <4>2, ClockAssumption
        <5>. QED BY <5>1, <5>2 DEF HolderOK
      <4>. QED BY <3>2, <4>1, <4>2
    <3>4. GiveBackLast'
      BY <1>0, <1>a, <3>2, TailGiveBackLast
    <3>. QED BY <3>3, <3>4, HolderParts
  <2>. QED BY <1>4, <2>1, <2>2, <2>3, <2>4 DEF HandleRequest
<1>5. CASE HandleGiveBack
  <2>1. ~Holding(client[p.mac])
    <3>1. queue \in Seq(Message) /\ p.type = "GIVEBACK"
      BY <1>5 DEF TypeOK, HandleGiveBack, Receive
    <3>2. 1 \in 1 .. Len(queue) /\ queue[1] = p
      BY <1>a, <3>1
    <3>. QED BY <1>0, <3>1, <3>2 DEF GiveBackLast
  <2>2. ASSUME NEW k \in Mac, k # p.mac, Backed(k) PROVE Backed(k)'
    <3>1. PICK s \in Slot : /\ lease[s].mac = k
                            /\ lease[s].ip = client[k].ip
                            /\ client[k].left <= Since(lease[s].expires, now)
                            /\ Since(lease[s].expires, now) <= LeaseMs
      BY <2>2 DEF Backed
    <3>2. lease'[s] = lease[s]
      <4>1. CASE ~Known(p.mac)
        BY <1>5, <4>1 DEF HandleGiveBack
      <4>2. CASE Known(p.mac)
        <5>1. LeaseFor(p.mac) # s
          BY <1>a, <2>2, <3>1, <4>2, KnownSlot
        <5>. QED BY <1>5, <4>2, <5>1 DEF HandleGiveBack, TypeOK
      <4>. QED BY <4>1, <4>2
    <3>3. client' = client
      BY <1>5 DEF HandleGiveBack
    <3>. QED BY <1>b, <3>1, <3>2, <3>3 DEF Backed
  <2>3. ASSUME NEW k \in Mac PROVE HolderOK(k)'
    <3>1. client' = client
      BY <1>5 DEF HandleGiveBack
    <3>. QED BY <1>0, <2>1, <2>2, <3>1 DEF HolderOK
  <2>4. GiveBackLast'
    BY <1>0, <1>5, <1>a, TailGiveBackLast DEF HandleGiveBack
  <2>. QED BY <2>3, <2>4, HolderParts
<1>6. CASE HandleInform
  BY <1>2, <1>6 DEF HandleInform
<1>. QED BY <1>3, <1>4, <1>5, <1>6 DEF HandlePacket

LEMMA HolderClient ==
  ASSUME TypeOK, HolderInv, NEW m \in Mac, ClientStep(m)
  PROVE  HolderInv'
<1>0. GiveBackLast /\ \A k \in Mac : HolderOK(k)
  BY HolderParts
<1>1. UNCHANGED <<lease, now>>
  BY ClientType
<1>2. /\ ~Holding(Idle)
      /\ \A st \in {"discovering", "requesting"} : \A a : ~Holding([Idle EXCEPT !.st = st, !.ip = a])
      /\ ~Holding([Idle EXCEPT !.st = "discovering"])
      /\ ~Holding([client[m] EXCEPT !.st = "requesting"])
  <2>1. client[m] \in ClientRecord
    BY DEF TypeOK, ClientRecord
  <2>. QED BY <2>1 DEF Holding, Idle, ClientRecord
<1>3. \/ UNCHANGED client
      \/ Becomes(m, [client[m] EXCEPT !.st = "renewing"]) /\ client[m].st = "bound"
      \/ \E c : Becomes(m, c) /\ ~Holding(c)
  BY <1>2 DEF ClientStep, Discover, Remember, Select, Elsewhere, Repeat, Renew, GiveBack, Inform
<1>4. ASSUME NEW k \in Mac
      PROVE  \/ ~Holding(client'[k])
             \/ /\ Holding(client[k])
                /\ client'[k].ip = client[k].ip
                /\ client'[k].left = client[k].left
                /\ client'[k].here = client[k].here
  <2>1. client[k] \in ClientRecord /\ client[m] \in ClientRecord
    BY DEF TypeOK, ClientRecord
  <2>2. CASE UNCHANGED client
    BY <2>2
  <2>3. CASE Becomes(m, [client[m] EXCEPT !.st = "renewing"]) /\ client[m].st = "bound"
    BY <2>1, <2>3 DEF Becomes, Holding, TypeOK, ClientRecord
  <2>4. CASE \E c : Becomes(m, c) /\ ~Holding(c)
    BY <2>4 DEF Becomes, TypeOK
  <2>. QED BY <1>3, <2>2, <2>3, <2>4
<1>5. ASSUME NEW k \in Mac PROVE HolderOK(k)'
  BY <1>0, <1>1, <1>4 DEF HolderOK, Backed
<1>6. GiveBackLast'
  <2>0. \A k \in Mac : Holding(client'[k]) => Holding(client[k])
    BY <1>4
  <2>1. ASSUME NEW a \in ReqAddr, Discover(m, a) \/ Remember(m, a) PROVE GiveBackLast'
    BY <1>0, <2>0, <2>1, SendGiveBackLast DEF Discover, Remember
  <2>2. CASE Select(m) \/ Elsewhere(m) \/ Repeat(m)
    BY <1>0, <2>0, <2>2, SendGiveBackLast DEF Select, Elsewhere, Repeat
  <2>3. CASE Renew(m) \/ Inform(m)
    BY <1>0, <2>0, <2>3, SendGiveBackLast DEF Renew, Inform
  <2>4. CASE GiveBack(m)
    <3>1. ~Holding(client'[m])
      BY <1>2, <2>4 DEF GiveBack, Becomes, TypeOK
    <3>. QED BY <1>0, <2>0, <2>4, <3>1, SendGiveBackLast DEF GiveBack
  <2>. QED BY <2>1, <2>2, <2>3, <2>4 DEF ClientStep
<1>. QED BY <1>5, <1>6, HolderParts

LEMMA HolderElapse ==
  ASSUME TypeOK, HolderInv, Elapse
  PROVE  HolderInv'
<1>0. GiveBackLast /\ \A k \in Mac : HolderOK(k)
  BY HolderParts
<1>1. ASSUME NEW k \in Mac
      PROVE  \/ ~Holding(client'[k])
             \/ /\ Holding(client[k])
                /\ client'[k].left = client[k].left - 1 /\ client[k].left > 1
                /\ client'[k].ip = client[k].ip
                /\ client'[k].here = client[k].here
  <2>1. client[k] \in ClientRecord
    BY DEF TypeOK, ClientRecord
  <2>2. client'[k] = Aged(client[k])
    BY DEF Elapse
  <2>3. CASE ~Holding(client[k])
    BY <2>2, <2>3 DEF Aged
  <2>4. CASE Holding(client[k]) /\ client[k].left > 1
    <3>1. client'[k] = [client[k] EXCEPT !.left = client[k].left - 1]
      BY <2>2, <2>4 DEF Aged
    <3>2. /\ client'[k].left = client[k].left - 1
          /\ client'[k].ip = client[k].ip
          /\ client'[k].here = client[k].here
      BY <2>1, <3>1 DEF ClientRecord
    <3>. QED BY <2>4, <3>2
  <2>5. CASE Holding(client[k]) /\ ~(client[k].left > 1)
    <3>1. client'[k] = Idle
      BY <2>2, <2>5 DEF Aged
    <3>2. ~Holding(Idle)
      BY DEF Holding, Idle
    <3>. QED BY <3>1, <3>2
  <2>. QED BY <2>3, <2>4, <2>5
<1>2. ASSUME NEW k \in Mac PROVE HolderOK(k)'
  <2>1. CASE ~Holding(client'[k])
    BY <2>1 DEF HolderOK
  <2>2. CASE Holding(client'[k])
    <3>1. /\ Holding(client[k])
          /\ client'[k].left = client[k].left - 1 /\ client[k].left > 1
          /\ client'[k].ip = client[k].ip
          /\ client'[k].here = client[k].here
      BY <1>1, <2>2
    <3>2. client[k].left \in 0 .. LeaseMs
      BY DEF TypeOK
    <3>3. client'[k].left >= 1
      BY <3>1, <3>2, ClockAssumption
    <3>4. ASSUME Backed(k) PROVE Backed(k)'
      <4>1. PICK s \in Slot : /\ lease[s].mac = k
                              /\ lease[s].ip = client[k].ip
                              /\ client[k].left <= Since(lease[s].expires, now)
                              /\ Since(lease[s].expires, now) <= LeaseMs
        BY <3>4 DEF Backed
      <4>2. lease[s].expires \in 0 .. ClockSize - 1 /\ now \in 0 .. ClockSize - 1
        BY DEF TypeOK
      <4>3. Since(lease[s].expires, now) \in 0 .. ClockSize - 1
        BY <4>2, ClockClosed
      <4>4. Since(lease[s].expires, now) >= 1
        BY <3>1, <3>2, <4>1, <4>3, ClockAssumption
      <4>5. Since(lease[s].expires, now') = Since(lease[s].expires, now) - 1
        BY <4>2, <4>4, ClockFacts DEF Elapse
      <4>6. /\ client'[k].left <= Since(lease[s].expires, now')
            /\ Since(lease[s].expires, now') <= LeaseMs
        BY <3>1, <3>2, <4>1, <4>3, <4>5, ClockAssumption
      <4>7. lease' = lease
        BY DEF Elapse
      <4>. QED BY <3>1, <4>1, <4>6, <4>7 DEF Backed
    <3>. QED BY <1>0, <3>1, <3>3, <3>4 DEF HolderOK
  <2>. QED BY <2>1, <2>2
<1>3. GiveBackLast'
  <2>1. queue' = queue
    BY DEF Elapse
  <2>2. \A j \in 1 .. Len(queue) : queue[j].mac \in Mac
    <3>1. ASSUME NEW j \in 1 .. Len(queue) PROVE queue[j] \in Message
      BY DEF TypeOK
    <3>. QED BY <3>1 DEF Message
  <2>. QED BY <1>0, <1>1, <2>1, <2>2 DEF GiveBackLast
<1>. QED BY <1>2, <1>3, HolderParts

LEMMA HolderInit == Init => HolderInv
<1>. SUFFICES ASSUME Init PROVE HolderInv
  OBVIOUS
<1>1. \A k \in Mac : ~Holding(client[k])
  BY DEF Init, Holding, Idle
<1>2. GiveBackLast
  BY DEF Init, GiveBackLast
<1>. QED BY <1>1, <1>2 DEF HolderInv

LEMMA HolderStep == TypeOK /\ LeasesDistinct /\ HolderInv /\ [Next]_vars => HolderInv'
<1>. SUFFICES ASSUME TypeOK, LeasesDistinct, HolderInv, [Next]_vars PROVE HolderInv'
  OBVIOUS
<1>0. GiveBackLast /\ \A k \in Mac : HolderOK(k)
  BY HolderParts
<1>1. CASE TickExpire
  <2>1. UNCHANGED <<now, queue, client>>
    BY <1>1 DEF TickExpire
  <2>2. ASSUME NEW k \in Mac PROVE HolderOK(k)'
    <3>1. ASSUME Holding(client[k]), client[k].here PROVE Backed(k)'
      <4>1. PICK s \in Slot : /\ lease[s].mac = k
                              /\ lease[s].ip = client[k].ip
                              /\ client[k].left <= Since(lease[s].expires, now)
                              /\ Since(lease[s].expires, now) <= LeaseMs
        BY <1>0, <3>1 DEF HolderOK, Backed
      <4>2. Since(lease[s].expires, now) \in 0 .. ClockSize - 1
        BY ClockClosed DEF TypeOK
      <4>3. 1 <= Since(lease[s].expires, now)
        <5>1. client[k].left \in 0 .. LeaseMs /\ client[k].left >= 1
          BY <1>0, <3>1 DEF HolderOK, TypeOK
        <5>. QED BY <4>1, <4>2, <5>1, ClockAssumption
      <4>4. lease'[s] = lease[s]
        BY <1>1, <4>1, <4>3, BackedNotExpired DEF TickExpire
      <4>. QED BY <2>1, <4>1, <4>4 DEF Backed
    <3>. QED BY <1>0, <2>1, <3>1 DEF HolderOK
  <2>3. GiveBackLast'
    BY <1>0, <2>1 DEF GiveBackLast
  <2>. QED BY <2>2, <2>3, HolderParts
<1>2. CASE HandlePacket
  BY <1>2, HolderPacket
<1>3. ASSUME NEW m \in Mac, ClientStep(m) PROVE HolderInv'
  BY <1>3, HolderClient
<1>4. CASE Elapse
  BY <1>4, HolderElapse
<1>5. ASSUME NEW c \in Configs, NEW bound \in BOOLEAN, Restart(c, bound) PROVE HolderInv'
  <2>1. ASSUME NEW k \in Mac PROVE HolderOK(k)'
    <3>1. client[k] \in ClientRecord
      BY DEF TypeOK, ClientRecord
    <3>2. client'[k] = Rebooted(client[k], c)
      BY <1>5 DEF Restart
    <3>3. ~Holding(Idle)
      BY DEF Holding, Idle
    <3>4. \/ ~Holding(client'[k])
          \/ client'[k] = [client[k] EXCEPT !.here = FALSE]
      BY <3>2, <3>3 DEF Rebooted
    <3>5. Holding([client[k] EXCEPT !.here = FALSE]) => Holding(client[k])
      BY <3>1 DEF Holding, ClientRecord
    <3>. QED BY <1>0, <3>1, <3>4, <3>5 DEF HolderOK, ClientRecord
  <2>2. queue' = <<>>
    BY <1>5 DEF Restart
  <2>3. GiveBackLast'
    BY <2>2 DEF GiveBackLast
  <2>. QED BY <2>1, <2>3, HolderParts
<1>6. CASE UNCHANGED <<lease, now, queue, client>>
  <2>1. \A k \in Mac : HolderOK(k)'
    BY <1>0, <1>6 DEF HolderOK, Backed
  <2>2. GiveBackLast'
    BY <1>0, <1>6 DEF GiveBackLast
  <2>. QED BY <2>1, <2>2, HolderParts
<1>7. TickDone \/ UNCHANGED vars => UNCHANGED <<lease, now, queue, client>>
  BY DEF TickDone, vars
<1>. QED BY <1>1, <1>2, <1>3, <1>4, <1>5, <1>6, <1>7 DEF Next

\* The inductive invariant behind the next two theorems: the server's deadline
\* for a running lease is never nearer than the client's own, and a packet
\* that gives a lease back is the last word of a client that holds none.
THEOREM HolderInvariant == Spec => []HolderInv
BY TypeCorrect, LeasesStayDistinct, HolderInit, HolderStep, PTL DEF Spec

\* Whatever is lost, repeated or delayed, and however the clock wraps, a
\* client inside the time of a lease acknowledged since the boot has that
\* lease in the table.
THEOREM HoldersStayBacked == Spec => []HoldersBacked
<1>1. TypeOK /\ HolderInv => HoldersBacked
  BY MacAssumption DEF HolderInv, HoldersBacked, Backed, Used
<1>. QED BY <1>1, TypeCorrect, HolderInvariant, PTL

\* No two clients use one address by leases of the same boot.
THEOREM HoldersStayDistinct == Spec => []HoldersDistinct
<1>1. LeasesDistinct /\ HoldersBacked => HoldersDistinct
  BY MacAssumption DEF LeasesDistinct, Distinct, HoldersBacked, HoldersDistinct, Used
<1>. QED BY <1>1, LeasesStayDistinct, HoldersStayBacked, PTL
-----------------------------------------------------------------------------
(* The three things a step may do to the table *)

\* Every entry of the new table is an old one.
Shrunk(new, old) ==
  \A s \in Slot : new[s].mac # NoMac => new[s].mac = old[s].mac /\ new[s].ip = old[s].ip

\* One free slot has become the lease of m on a; the rest is as it was.
Entered(new, old, m, a) ==
  \E k \in Slot : /\ old[k].mac = NoMac
                  /\ new[k].mac = m /\ new[k].ip = a
                  /\ \A s \in Slot \ {k} : new[s] = old[s]

ServableIp(a) == a # cfg.self /\ a \in cfg.start .. (cfg.start + cfg.size - 1)

\* allocateLease either finds the lease of m or enters a servable one.
LEMMA GrantCases ==
  ASSUME TypeOK, NEW m \in Mac, NEW want \in Addr, NEW first, NEW scan,
         NEW al, al = Allocation(m, want, first, scan), al.slot # 0, NEW t
  PROVE  \/ Shrunk(Grant(m, al, t), lease)
         \/ /\ ~Known(m) /\ ~InUse(al.ip) /\ ServableIp(al.ip)
            /\ Entered(Grant(m, al, t), lease, m, al.ip)
<1>. DEFINE new == Grant(m, al, t)
<1>1. /\ al.slot \in Slot
      /\ \/ Known(m) /\ lease[al.slot].mac = m /\ lease[al.slot].ip = al.ip
         \/ ~Known(m) /\ lease[al.slot].mac = NoMac /\ ~InUse(al.ip)
  BY AllocationCases
<1>2. /\ new[al.slot].mac = m
      /\ new[al.slot].ip = al.ip
      /\ \A s \in Slot \ {al.slot} : new[s] = lease[s]
  BY <1>1 DEF Grant, TypeOK
<1>3. CASE Known(m) /\ lease[al.slot].mac = m /\ lease[al.slot].ip = al.ip
  BY <1>2, <1>3 DEF Shrunk
<1>4. CASE ~Known(m) /\ lease[al.slot].mac = NoMac /\ ~InUse(al.ip)
  <2>1. Entered(new, lease, m, al.ip)
    BY <1>1, <1>2, <1>4 DEF Entered
  <2>2. al.ip = PickAddr(want, first, scan) /\ al.ip # NoIp
    BY <1>4 DEF Allocation
  <2>3. al.ip \in cfg.start .. (cfg.start + cfg.size - 1)
    BY <2>2, PickedFree DEF TypeOK
  <2>4. al.ip # cfg.self
    BY <1>4 DEF InUse
  <2>. QED BY <1>4, <2>1, <2>3, <2>4 DEF ServableIp
<1>. QED BY <1>1, <1>3, <1>4

\* A client without a lease enters on an address that is nobody's.
EntersOne == \E m \in Mac, a \in Addr :
               /\ ~Known(m) /\ ~InUse(a) /\ ServableIp(a)
               /\ Entered(lease', lease, m, a)

TableStep == /\ Shrunk(lease', lease) \/ EntersOne
             /\ image' \in {image, ImageOf(lease')}
             /\ UNCHANGED cfg

LEMMA PacketTable ==
  ASSUME TypeOK, HandlePacket
  PROVE  TableStep
<1>. DEFINE p == Head(queue)
<1>0. UNCHANGED cfg
  BY PacketType
<1>a. ASSUME UNCHANGED lease PROVE Shrunk(lease', lease)
  BY <1>a DEF Shrunk
<1>b. ASSUME p.mac \in Mac, p.ip \in Addr, NEW first, NEW scan, NEW al, NEW t,
             al = Allocation(p.mac, p.ip, first, scan), al.slot # 0,
             lease' = Grant(p.mac, al, t)
      PROVE  Shrunk(lease', lease) \/ EntersOne
  <2>1. al.ip \in Addr
    BY <1>b, AllocationCases
  <2>. QED BY <1>b, <2>1, GrantCases DEF EntersOne
<1>1. ASSUME NEW heard \in BOOLEAN, NEW first, NEW scan, HandleDiscover(heard, first, scan)
      PROVE  TableStep
  <2>. DEFINE al == Allocation(p.mac, p.ip, first, scan)
  <2>0. p.mac \in Mac /\ p.ip \in Addr
    BY <1>1, QueueHead DEF HandleDiscover, Receive
  <2>1. \/ UNCHANGED lease
        \/ al.slot # 0 /\ lease' = Grant(p.mac, al, Deadline)
    BY <1>1 DEF HandleDiscover
  <2>2. UNCHANGED image
    BY <1>1 DEF HandleDiscover
  <2>. QED BY <1>0, <1>a, <1>b, <2>0, <2>1, <2>2 DEF TableStep
<1>2. ASSUME NEW heard \in BOOLEAN, NEW first, NEW scan, HandleRequest(heard, first, scan)
      PROVE  TableStep
  <2>. DEFINE al == Allocation(p.mac, p.ip, first, scan)
  <2>0. p.mac \in Mac /\ p.ip \in Addr
    BY <1>2, QueueHead DEF HandleRequest, Receive
  <2>1. \/ UNCHANGED lease
        \/ al.slot # 0 /\ lease' = Grant(p.mac, al, lease[al.slot].expires)
        \/ al.slot # 0 /\ lease' = Grant(p.mac, al, Deadline)
    BY <1>2 DEF HandleRequest
  <2>2. image' \in {image, ImageOf(lease')}
    BY <1>2 DEF HandleRequest
  <2>. QED BY <1>0, <1>a, <1>b, <2>0, <2>1, <2>2 DEF TableStep
<1>3. CASE HandleGiveBack
  <2>0. p.mac \in Mac
    BY <1>3, QueueHead DEF HandleGiveBack, Receive
  <2>1. \/ UNCHANGED lease
        \/ /\ LeaseFor(p.mac) \in Slot
           /\ lease' = [lease EXCEPT ![LeaseFor(p.mac)] = Freed(lease[LeaseFor(p.mac)])]
    BY <1>3, <2>0, KnownSlot DEF HandleGiveBack
  <2>2. Shrunk(lease', lease)
    <3>. DEFINE k == LeaseFor(p.mac)
    <3>1. CASE k \in Slot /\ lease' = [lease EXCEPT ![k] = Freed(lease[k])]
      <4>1. lease' = [s \in Slot |-> IF s = k THEN Freed(lease[k]) ELSE lease[s]]
        BY <3>1 DEF TypeOK
      <4>. QED BY <4>1 DEF Shrunk, Freed
    <3>. QED BY <1>a, <2>1, <3>1
  <2>3. image' = ImageOf(lease')
    BY <1>3 DEF HandleGiveBack
  <2>. QED BY <1>0, <2>2, <2>3 DEF TableStep
<1>4. CASE HandleInform
  BY <1>0, <1>a, <1>4 DEF HandleInform, TableStep
<1>. QED BY <1>1, <1>2, <1>3, <1>4 DEF HandlePacket

\* Every step is a reboot, or an entry, or leaves only old entries.
LEMMA TableCases ==
  ASSUME TypeOK, [Next]_vars
  PROVE  TableStep \/ \E c \in Configs, bound \in BOOLEAN : Restart(c, bound)
<1>1. CASE TickExpire
  BY <1>1 DEF TickExpire, TableStep, Shrunk, Freed
<1>2. CASE HandlePacket
  BY <1>2, PacketTable
<1>3. CASE UNCHANGED <<cfg, lease, image>>
  BY <1>3 DEF TableStep, Shrunk
<1>4. TickDone \/ Elapse \/ (\E m \in Mac : ClientStep(m)) \/ UNCHANGED vars
        => UNCHANGED <<cfg, lease, image>>
  BY ClientType DEF TickDone, Elapse, vars
<1>. QED BY <1>1, <1>2, <1>3, <1>4 DEF Next
-----------------------------------------------------------------------------
(* Leases are servable *)

\* The table and the image it is restored from hold servable addresses only.
ServableInv ==
  \A s \in Slot : /\ lease[s].mac # NoMac => ServableIp(lease[s].ip)
                  /\ image[s].mac # NoMac => ServableIp(image[s].ip)

LEMMA ServableInit == Init => ServableInv
BY DEF Init, EmptyTable, ServableInv

LEMMA ServableStep ==
  ASSUME \A c, d \in Configs : c = d, TypeOK, ServableInv, [Next]_vars
  PROVE  ServableInv'
<1>1. CASE TableStep
  <2>1. \A a : ServableIp(a)' <=> ServableIp(a)
    BY <1>1 DEF TableStep, ServableIp
  <2>2. ASSUME NEW s \in Slot, lease'[s].mac # NoMac
        PROVE  ServableIp(lease'[s].ip)
    <3>1. CASE Shrunk(lease', lease)
      BY <2>2, <3>1 DEF Shrunk, ServableInv
    <3>2. CASE EntersOne
      BY <2>2, <3>2 DEF EntersOne, Entered, ServableInv
    <3>. QED BY <1>1, <3>1, <3>2 DEF TableStep
  <2>3. ASSUME NEW s \in Slot, image'[s].mac # NoMac
        PROVE  ServableIp(image'[s].ip)
    <3>1. CASE image' = image
      BY <2>3, <3>1 DEF ServableInv
    <3>2. CASE image' = ImageOf(lease')
      BY <2>2, <2>3, <3>2 DEF ImageOf
    <3>. QED BY <1>1, <3>1, <3>2 DEF TableStep
  <2>. QED BY <2>1, <2>2, <2>3 DEF ServableInv
<1>2. ASSUME NEW c \in Configs, NEW bound \in BOOLEAN, Restart(c, bound)
      PROVE  ServableInv'
  <2>1. cfg' = cfg
    BY <1>2 DEF Restart, TypeOK
  <2>2. \A a : ServableIp(a)' <=> ServableIp(a)
    BY <2>1 DEF ServableIp
  <2>3. lease' \in {Restored, EmptyTable} /\ image' = image
    BY <1>2 DEF Restart
  <2>. QED BY <2>2, <2>3 DEF ServableInv, Restored, EmptyTable
<1>. QED BY <1>1, <1>2, TableCases

\* A lease is for an address of the pool other than the server's own, whatever
\* clients ask for, as long as the fallback settings stay what they are: every
\* address enters the table through PickAddr, and what is restored from the
\* image was in the table when the same settings were in force.
THEOREM LeasesStayServable ==
  ASSUME \A c, d \in Configs : c = d
  PROVE  Spec => []LeasesServable
<1>1. TypeOK /\ ServableInv /\ [Next]_vars => ServableInv'
  BY ServableStep
<1>2. ServableInv => LeasesServable
  BY DEF ServableInv, ServableIp, LeasesServable, Used
<1>. QED BY <1>1, <1>2, ServableInit, TypeCorrect, PTL DEF Spec
-----------------------------------------------------------------------------
(* An acknowledged client is not moved *)

\* The server answers a client that holds a lease with that lease's address.
LEMMA HolderAllocation ==
  ASSUME TypeOK, LeasesDistinct, NEW m \in Mac, Backed(m), NEW want, NEW first, NEW scan
  PROVE  /\ Known(m)
         /\ Allocation(m, want, first, scan).slot # 0
         /\ Allocation(m, want, first, scan).ip = client[m].ip
<1>1. PICK s \in Slot : lease[s].mac = m /\ lease[s].ip = client[m].ip
  BY DEF Backed
<1>2. Known(m)
  BY <1>1 DEF Known, SlotsFor
<1>3. LeaseFor(m) \in Slot /\ lease[LeaseFor(m)].mac = m
  BY <1>2, KnownSlot
<1>4. LeaseFor(m) = s
  BY <1>1, <1>3, MacAssumption DEF LeasesDistinct, Distinct
<1>. QED BY <1>1, <1>2, <1>3, <1>4, SizeAssumption DEF Allocation, Slot
\* What a client that renews has asked for, and would still hear the answer
\* to, is the address it holds.
RenewalsAsk ==
  \A i \in 1 .. Len(queue) :
    /\ queue[i].type = "REQUEST" /\ queue[i].live
    /\ client[queue[i].mac].st = "renewing"
    => queue[i].ip = client[queue[i].mac].ip

LEMMA AskInit == Init => RenewalsAsk
BY DEF Init, RenewalsAsk

\* The queue after a client has sent something.
LEMMA SendQueue ==
  ASSUME TypeOK, NEW m \in Mac, NEW q \in {queue, Retired(m)}, NEW type,
         NEW a, NEW other, Send(q, m, type, a, other)
  PROVE  /\ Len(queue) \in Nat /\ Len(queue') = Len(queue) + 1
         /\ \A i \in 1 .. Len(queue) :
              /\ queue[i].mac \in Mac
              /\ queue'[i].type = queue[i].type
              /\ queue'[i].mac = queue[i].mac
              /\ queue'[i].ip = queue[i].ip
              /\ queue'[i].live => queue[i].live
              /\ q = Retired(m) /\ queue[i].mac = m => ~queue'[i].live
         /\ queue'[Len(queue) + 1] =
              [type |-> type, mac |-> m, ip |-> a, other |-> other, live |-> TRUE]
<1>. DEFINE new == [type |-> type, mac |-> m, ip |-> a, other |-> other, live |-> TRUE]
<1>1. queue \in Seq(Message) /\ Len(queue) \in Nat
  BY DEF TypeOK
<1>2. ASSUME NEW i \in 1 .. Len(queue)
      PROVE  /\ queue[i] \in Message /\ Retired(m)[i] \in Message
             /\ Retired(m)[i].type = queue[i].type
             /\ Retired(m)[i].mac = queue[i].mac
             /\ Retired(m)[i].ip = queue[i].ip
             /\ Retired(m)[i].live => queue[i].live
             /\ queue[i].mac = m => ~Retired(m)[i].live
  <2>1. queue[i] \in Message
    BY <1>1
  <2>2. Retired(m)[i] = IF queue[i].mac = m THEN [queue[i] EXCEPT !.live = FALSE] ELSE queue[i]
    BY DEF Retired
  <2>. QED BY <2>1, <2>2 DEF Message
<1>3. Retired(m) \in Seq(Message) /\ Len(Retired(m)) = Len(queue)
  BY <1>1, <1>2 DEF Retired
<1>4. q \in Seq(Message \cup {new}) /\ Len(q) = Len(queue)
  BY <1>1, <1>3
<1>5. queue' = Append(q, new)
  BY DEF Send
<1>6. /\ Len(queue') = Len(queue) + 1
      /\ \A i \in 1 .. Len(queue) : queue'[i] = q[i]
      /\ queue'[Len(queue) + 1] = new
  BY <1>1, <1>4, <1>5
<1>7. ASSUME NEW i \in 1 .. Len(queue)
      PROVE  /\ queue[i].mac \in Mac
             /\ q[i].type = queue[i].type
             /\ q[i].mac = queue[i].mac
             /\ q[i].ip = queue[i].ip
             /\ q[i].live => queue[i].live
             /\ q = Retired(m) /\ queue[i].mac = m => ~q[i].live
  <2>1. queue[i].mac \in Mac
    BY <1>2 DEF Message
  <2>. QED BY <1>2, <2>1
<1>. QED BY <1>1, <1>6, <1>7

\* A client that renews asks for what it holds, and forgets what it asked
\* before.
LEMMA SendAsks ==
  ASSUME TypeOK, RenewalsAsk, NEW m \in Mac, NEW q \in {queue, Retired(m)}, NEW type,
         NEW a, NEW other, Send(q, m, type, a, other),
         \A k \in Mac \ {m} : client'[k] = client[k],
         client'[m].st = "renewing" =>
            /\ type = "REQUEST" => a = client'[m].ip
            /\ q = Retired(m) \/ client'[m] = client[m]
  PROVE  RenewalsAsk'
<1>0. /\ Len(queue) \in Nat /\ Len(queue') = Len(queue) + 1
      /\ queue'[Len(queue) + 1] =
           [type |-> type, mac |-> m, ip |-> a, other |-> other, live |-> TRUE]
  BY SendQueue
<1>1. ASSUME NEW i \in 1 .. Len(queue)
      PROVE  /\ queue[i].mac \in Mac
             /\ queue'[i].type = queue[i].type
             /\ queue'[i].mac = queue[i].mac
             /\ queue'[i].ip = queue[i].ip
             /\ queue'[i].live => queue[i].live
             /\ q = Retired(m) /\ queue[i].mac = m => ~queue'[i].live
  BY SendQueue
<1>. SUFFICES ASSUME NEW j \in 1 .. Len(queue'), queue'[j].type = "REQUEST", queue'[j].live,
                     client'[queue'[j].mac].st = "renewing"
              PROVE  queue'[j].ip = client'[queue'[j].mac].ip
  BY DEF RenewalsAsk
<1>2. CASE j = Len(queue) + 1
  <2>1. queue'[j].mac = m /\ queue'[j].ip = a /\ type = "REQUEST"
    BY <1>0, <1>2
  <2>. QED BY <2>1
<1>3. CASE j \in 1 .. Len(queue)
  <2>1. client'[queue[j].mac] = client[queue[j].mac]
    BY <1>1, <1>3
  <2>. QED BY <1>1, <1>3, <2>1 DEF RenewalsAsk
<1>. QED BY <1>0, <1>2, <1>3

LEMMA ClientAsks ==
  ASSUME TypeOK, RenewalsAsk, NEW m \in Mac, ClientStep(m)
  PROVE  RenewalsAsk'
<1>1. client[m] \in ClientRecord /\ client \in [Mac -> ClientRecord]
  BY DEF TypeOK, ClientRecord
<1>2. \A c : Becomes(m, c) => client'[m] = c /\ \A k \in Mac \ {m} : client'[k] = client[k]
  BY <1>1 DEF Becomes
<1>3. ASSUME NEW a \in ReqAddr, Discover(m, a) PROVE RenewalsAsk'
  <2>1. [Idle EXCEPT !.st = "discovering"].st # "renewing"
    BY DEF Idle
  <2>. QED BY <1>2, <1>3, <2>1, SendAsks DEF Discover
<1>4. ASSUME NEW a \in ReqAddr, Remember(m, a) PROVE RenewalsAsk'
  <2>1. [Idle EXCEPT !.st = "requesting", !.ip = a].st # "renewing"
    BY DEF Idle
  <2>. QED BY <1>2, <1>4, <2>1, SendAsks DEF Remember
<1>5. CASE Select(m)
  <2>1. [client[m] EXCEPT !.st = "requesting"].st # "renewing"
    BY <1>1 DEF ClientRecord
  <2>. QED BY <1>2, <1>5, <2>1, SendAsks DEF Select
<1>6. CASE Elsewhere(m) \/ GiveBack(m)
  <2>1. Idle.st # "renewing"
    BY DEF Idle
  <2>. QED BY <1>2, <1>6, <2>1, SendAsks DEF Elsewhere, GiveBack
<1>7. CASE Repeat(m) \/ Inform(m)
  BY <1>7, SendAsks DEF Repeat, Inform
<1>8. CASE Renew(m)
  <2>1. [client[m] EXCEPT !.st = "renewing"].ip = client[m].ip
    BY <1>1 DEF ClientRecord
  <2>. QED BY <1>2, <1>8, <2>1, SendAsks DEF Renew
<1>. QED BY <1>3, <1>4, <1>5, <1>6, <1>7, <1>8 DEF ClientStep

\* No answer makes a client renew.
LEMMA AnswerAsks ==
  ASSUME TypeOK, HandlePacket
  PROVE  \A k \in Mac : client'[k] = client[k] \/ client'[k].st # "renewing"
<1>. DEFINE p == Head(queue)
<1>a. /\ p \in Message /\ p.mac \in Mac
  BY QueueHead DEF HandlePacket, HandleDiscover, HandleRequest, HandleGiveBack,
                   HandleInform, Receive
<1>1. \/ UNCHANGED client
      \/ \E heard, a : Offered(p, a, heard) \/ Acked(p, a, heard) \/ Naked(p, heard)
  BY DEF HandlePacket, HandleDiscover, HandleRequest, HandleGiveBack, HandleInform
<1>2. ASSUME NEW heard, NEW states, NEW c, c.st # "renewing", Hears(p, heard, states, c)
      PROVE  \A k \in Mac : client'[k] = client[k] \/ client'[k].st # "renewing"
  BY <1>a, <1>2 DEF Hears, TypeOK
<1>3. ASSUME NEW a
      PROVE  /\ [Idle EXCEPT !.st = "offered", !.ip = a].st # "renewing"
             /\ [st |-> "bound", ip |-> a, left |-> LeaseMs, here |-> TRUE].st # "renewing"
             /\ Idle.st # "renewing"
  BY DEF Idle
<1>4. ASSUME NEW heard, NEW a, Offered(p, a, heard) \/ Acked(p, a, heard) \/ Naked(p, heard)
      PROVE  \A k \in Mac : client'[k] = client[k] \/ client'[k].st # "renewing"
  BY <1>2, <1>3, <1>4 DEF Offered, Acked, Naked
<1>. QED BY <1>1, <1>4

LEMMA AskStep == TypeOK /\ RenewalsAsk /\ [Next]_vars => RenewalsAsk'
<1>. SUFFICES ASSUME TypeOK, RenewalsAsk, [Next]_vars PROVE RenewalsAsk'
  OBVIOUS
<1>0. queue \in Seq(Message) /\ client \in [Mac -> ClientRecord]
  BY DEF TypeOK, ClientRecord
<1>1. CASE HandlePacket
  <2>1. queue # <<>> /\ queue' = Tail(queue)
    BY <1>1 DEF HandlePacket, HandleDiscover, HandleRequest, HandleGiveBack,
                HandleInform, Receive
  <2>2. ASSUME NEW j \in 1 .. Len(queue')
        PROVE  j + 1 \in 1 .. Len(queue) /\ queue'[j] = queue[j + 1] /\ queue[j + 1].mac \in Mac
    <3>1. j + 1 \in 1 .. Len(queue) /\ queue'[j] = queue[j + 1]
      BY <1>0, <2>1
    <3>2. queue[j + 1] \in Message
      BY <1>0, <3>1
    <3>. QED BY <3>1, <3>2 DEF Message
  <2>. QED BY <1>1, <2>2, AnswerAsks DEF RenewalsAsk
<1>2. ASSUME NEW m \in Mac, ClientStep(m) PROVE RenewalsAsk'
  BY <1>2, ClientAsks
<1>3. CASE Elapse
  <2>1. ASSUME NEW k \in Mac, client'[k].st = "renewing"
        PROVE  client[k].st = "renewing" /\ client'[k].ip = client[k].ip
    <3>1. client[k] \in ClientRecord /\ client'[k] = Aged(client[k])
      BY <1>0, <1>3 DEF Elapse
    <3>. QED BY <2>1, <3>1 DEF Aged, Idle, ClientRecord
  <2>2. queue' = queue
    BY <1>3 DEF Elapse
  <2>3. \A j \in 1 .. Len(queue) : queue[j].mac \in Mac
    <3>1. ASSUME NEW j \in 1 .. Len(queue) PROVE queue[j] \in Message
      BY <1>0
    <3>. QED BY <3>1 DEF Message
  <2>. QED BY <2>1, <2>2, <2>3 DEF RenewalsAsk
<1>4. CASE UNCHANGED <<queue, client>>
  BY <1>4 DEF RenewalsAsk
<1>5. ASSUME NEW c \in Configs, NEW bound \in BOOLEAN, Restart(c, bound) PROVE RenewalsAsk'
  BY <1>5 DEF Restart, RenewalsAsk
<1>6. TickExpire \/ TickDone \/ UNCHANGED vars => UNCHANGED <<queue, client>>
  BY DEF TickExpire, TickDone, vars
<1>. QED BY <1>1, <1>2, <1>3, <1>4, <1>5, <1>6 DEF Next
\* An answer to a client that holds a lease of this boot is an ACK of it, or
\* not for that client.
LEMMA AnswerKeeps ==
  ASSUME TypeOK, LeasesDistinct, HolderInv, RenewalsAsk, HandlePacket,
         NEW m \in Mac, Holding(client[m]), client[m].here
  PROVE  client'[m].ip = client[m].ip
<1>. DEFINE p == Head(queue)
<1>a. /\ p \in Message /\ p.mac \in Mac /\ queue # <<>>
  BY QueueHead DEF HandlePacket, HandleDiscover, HandleRequest, HandleGiveBack,
                   HandleInform, Receive
<1>b. Backed(m)
  BY DEF HolderInv
<1>c. client \in [Mac -> ClientRecord] /\ client[m].st \in {"bound", "renewing"}
  BY DEF TypeOK, ClientRecord, Holding
<1>1. ASSUME NEW heard, NEW a, Offered(p, a, heard)
      PROVE  client'[m] = client[m]
  BY <1>a, <1>c, <1>1 DEF Offered, Hears
<1>2. ASSUME NEW heard, NEW a, Acked(p, a, heard), p.mac = m => a = client[m].ip
      PROVE  client'[m].ip = client[m].ip
  BY <1>a, <1>c, <1>2 DEF Acked, Hears
<1>3. ASSUME NEW heard, Naked(p, heard),
             ~(p.mac = m /\ p.live /\ client[m].st = "renewing")
      PROVE  client'[m] = client[m]
  BY <1>a, <1>c, <1>3 DEF Naked, Hears
<1>4. ASSUME NEW heard \in BOOLEAN, NEW first, NEW scan, HandleDiscover(heard, first, scan)
      PROVE  client'[m].ip = client[m].ip
  BY <1>1, <1>4 DEF HandleDiscover
<1>5. ASSUME NEW heard \in BOOLEAN, NEW first, NEW scan, HandleRequest(heard, first, scan)
      PROVE  client'[m].ip = client[m].ip
  <2>. DEFINE al == Allocation(p.mac, p.ip, first, scan)
  <2>1. p.mac = m => al.slot # 0 /\ al.ip = client[m].ip
    BY <1>b, HolderAllocation
  <2>2. p.mac = m /\ p.live /\ client[m].st = "renewing" => p.ip = client[m].ip
    <3>1. queue \in Seq(Message) /\ p.type = "REQUEST"
      BY <1>5 DEF TypeOK, HandleRequest, Receive
    <3>2. 1 \in 1 .. Len(queue) /\ queue[1] = p
      BY <1>a, <3>1
    <3>. QED BY <3>1, <3>2 DEF RenewalsAsk
  <2>3. CASE UNCHANGED client
    BY <2>3
  <2>4. CASE al.slot = 0 /\ Naked(p, heard)
    BY <1>3, <2>1, <2>4
  <2>5. CASE p.ip # al.ip /\ Naked(p, heard)
    BY <1>3, <2>1, <2>2, <2>5
  <2>6. CASE Acked(p, al.ip, heard)
    BY <1>2, <2>1, <2>6
  <2>. QED BY <1>5, <2>3, <2>4, <2>5, <2>6 DEF HandleRequest
<1>6. CASE HandleGiveBack \/ HandleInform
  BY <1>6 DEF HandleGiveBack, HandleInform
<1>. QED BY <1>4, <1>5, <1>6 DEF HandlePacket

LEMMA TakenKeeps ==
  ASSUME TypeOK, LeasesDistinct, HolderInv, RenewalsAsk, [Next]_vars, PacketTaken,
         NEW m \in Mac, Holding(client[m]), client[m].here
  PROVE  client'[m].ip = client[m].ip
<1>1. queue \in Seq(Message) /\ queue # <<>> /\ queue' = Tail(queue)
  BY DEF TypeOK, PacketTaken
<1>2. Len(queue') = Len(queue) - 1 /\ Len(queue) \in Nat
  BY <1>1
<1>3. CASE HandlePacket
  BY <1>3, AnswerKeeps
<1>4. ASSUME NEW c \in Configs, NEW bound \in BOOLEAN, Restart(c, bound)
      PROVE  client'[m].ip = client[m].ip
  <2>1. client[m] \in ClientRecord
    BY DEF TypeOK, ClientRecord
  <2>2. client'[m] = [client[m] EXCEPT !.here = FALSE]
    BY <1>4 DEF Restart, Rebooted, Holding
  <2>. QED BY <2>1, <2>2 DEF ClientRecord
<1>5. ASSUME NEW k \in Mac, ClientStep(k)
      PROVE  FALSE
  <2>1. ASSUME NEW q \in {queue, Retired(k)}, NEW type, NEW a, NEW other,
               Send(q, k, type, a, other)
        PROVE  Len(queue') = Len(queue) + 1
    BY <2>1, SendQueue
  <2>2. Len(queue') = Len(queue) + 1
    <3>1. ASSUME NEW a \in ReqAddr, Discover(k, a) \/ Remember(k, a) PROVE Len(queue') = Len(queue) + 1
      BY <2>1, <3>1 DEF Discover, Remember
    <3>2. CASE Select(k) \/ Elsewhere(k) \/ Repeat(k)
      BY <2>1, <3>2 DEF Select, Elsewhere, Repeat
    <3>3. CASE Renew(k) \/ GiveBack(k) \/ Inform(k)
      BY <2>1, <3>3 DEF Renew, GiveBack, Inform
    <3>. QED BY <1>5, <3>1, <3>2, <3>3 DEF ClientStep
  <2>. QED BY <1>2, <2>2
<1>6. UNCHANGED queue => FALSE
  BY <1>2
<1>7. TickExpire \/ TickDone \/ Elapse \/ UNCHANGED vars => UNCHANGED queue
  BY DEF TickExpire, TickDone, Elapse, vars
<1>. QED BY <1>3, <1>4, <1>5, <1>6, <1>7 DEF Next

\* No answer of the server moves a client off the address of a lease that is
\* running: HolderInv says that the table has that lease, so that it is what
\* allocateLease finds; RenewalsAsk that a NAK to an older question of the
\* client is one it no longer hears.
THEOREM AckedLeasesStay == Spec => AckedStays
<1>. DEFINE Unmoved == \A m \in Mac : (Holding(client[m]) /\ client[m].here /\ PacketTaken)
                                      => client'[m].ip = client[m].ip
<1>1. TypeOK /\ LeasesDistinct /\ HolderInv /\ RenewalsAsk /\ [Next]_vars => [Unmoved]_vars
  BY TakenKeeps
<1>. QED BY <1>1, TypeCorrect, LeasesStayDistinct, HolderInvariant, AskInit, AskStep, PTL
         DEF Spec, AckedStays
-----------------------------------------------------------------------------
(* The server implements the book *)

LEMMA BookInits == Init => Book!BookInit
BY DEF Init, EmptyTable, PairsOf, Book!BookInit

LEMMA ShrunkPairs ==
  ASSUME NEW new, NEW old, Shrunk(new, old)
  PROVE  PairsOf(new) \subseteq PairsOf(old)
BY MacAssumption DEF Shrunk, PairsOf

LEMMA EnteredPairs ==
  ASSUME NEW new, NEW old, NEW m \in Mac, NEW a, Entered(new, old, m, a)
  PROVE  PairsOf(new) = PairsOf(old) \cup {<<m, a>>}
<1>1. PICK k \in Slot : /\ old[k].mac = NoMac
                        /\ new[k].mac = m /\ new[k].ip = a
                        /\ \A s \in Slot \ {k} : new[s] = old[s]
  BY DEF Entered
<1>2. \A s \in Slot : new[s].mac # NoMac <=> s = k \/ old[s].mac # NoMac
  BY <1>1, MacAssumption
<1>. QED BY <1>1, <1>2 DEF PairsOf

LEMMA ImagePairs ==
  ASSUME NEW table
  PROVE  PairsOf(ImageOf(table)) = PairsOf(table)
BY DEF PairsOf, ImageOf

LEMMA BookSteps ==
  ASSUME TypeOK, [Next]_vars
  PROVE  Book!BookNext
<1>1. CASE TableStep
  <2>1. Book!SaveOrKeep
    BY <1>1, ImagePairs DEF TableStep, Book!SaveOrKeep
  <2>2. CASE Shrunk(lease', lease)
    <3>. DEFINE gone == PairsOf(lease) \ PairsOf(lease')
    <3>1. gone \in SUBSET PairsOf(lease) /\ PairsOf(lease') = PairsOf(lease) \ gone
      BY <2>2, ShrunkPairs
    <3>2. Book!Drop(gone)
      BY <2>1, <3>1 DEF Book!Drop
    <3>. QED BY <3>1, <3>2 DEF Book!BookNext
  <2>3. CASE EntersOne
    <3>1. PICK m \in Mac, a \in Addr : /\ ~Known(m) /\ ~InUse(a) /\ ServableIp(a)
                                       /\ Entered(lease', lease, m, a)
      BY <2>3 DEF EntersOne
    <3>2. \A q \in PairsOf(lease) : q[1] # m /\ q[2] # a
      BY <3>1 DEF PairsOf, Known, SlotsFor, InUse, Used
    <3>3. a \in PoolAddresses
      BY <3>1 DEF ServableIp, PoolAddresses, TypeOK
    <3>4. Book!Grant(m, a)
      BY <2>1, <3>1, <3>2, EnteredPairs DEF Book!Grant
    <3>. QED BY <3>3, <3>4 DEF Book!BookNext
  <2>. QED BY <1>1, <2>2, <2>3 DEF TableStep
<1>2. ASSUME NEW c \in Configs, NEW bound \in BOOLEAN, Restart(c, bound)
      PROVE  Book!BookNext
  <2>1. PairsOf(Restored) = PairsOf(image) /\ PairsOf(EmptyTable) = {}
    BY DEF PairsOf, Restored, EmptyTable
  <2>2. Book!Reboot
    BY <1>2, <2>1 DEF Restart, Book!Reboot
  <2>. QED BY <2>2 DEF Book!BookNext
<1>. QED BY <1>1, <1>2, TableCases

\* The server with its slots, clock, packets and power cuts keeps the abstract
\* promise: the book grows by an unused address for a client without one,
\* shrinks, or goes back to its saved copy, which is always an earlier book.
THEOREM ServerImplementsBook == Spec => ImplementsBook
<1>1. TypeOK /\ [Next]_vars => [Book!BookNext]_(Book!bookVars)
  BY BookSteps
<1>. QED BY <1>1, BookInits, TypeCorrect, PTL DEF Spec, ImplementsBook, Book!BookSpec
=============================================================================
