----------------------------- MODULE DhcpClient -----------------------------
(***************************************************************************)
(* Ethernet.begin(mac, timeout, responseTimeout): the DHCP client that     *)
(* runs at boot (Dhcp.cpp), among servers that may be several, on a        *)
(* network that loses, delays and repeats packets.  Time is in steps of    *)
(* the client's delay(50).                                                 *)
(***************************************************************************)
EXTENDS Integers

CONSTANTS
  Servers,         \* each has one address to give
  Timeout, ResponseTimeout, \* in steps
  MaxXid           \* transactions of one begin()

Times == {Timeout, ResponseTimeout, MaxXid} \subseteq Nat \ {0}

None == "none"

VARIABLES
  state,    \* _dhcp_state: "START", "DISCOVER", "REQUEST", "LEASED"; "FAILED": begin returned 0
  xid,      \* _dhcpTransactionId, counted from _dhcpInitialTransactionId
  localIp, serverIp, \* _dhcpLocalIp, _dhcpDhcpServerIp, each by the server it is of
  clock, waited, \* since request_DHCP_lease began, and parseDHCPResponse
  toServers, toClient, \* packets sent; each may arrive, again and late, or never
  rx,       \* the packet in the socket, or none
  acked     \* servers that have acknowledged their address to this client

client == <<state, xid, localIp, serverIp, clock, waited>>
net    == <<toServers, toClient, rx>>
vars   == <<client, net, acked>>

Empty == [type |-> None]
Requests == [type : {"DISCOVER"}, xid : 0 .. MaxXid, to : {None}, ip : {None}]
              \union [type : {"REQUEST"}, xid : 0 .. MaxXid, to : Servers, ip : Servers]
Replies  == [type : {"OFFER", "ACK", "NAK"}, xid : 0 .. MaxXid, from : Servers]
Returned == state \in {"LEASED", "FAILED"}

\* beginWithDHCP: all is reset, and the socket is opened.
Init ==
  /\ state = "START" /\ xid = 0 /\ localIp = None /\ serverIp = None /\ clock = 0 /\ waited = 0
  /\ toServers = {} /\ toClient = {} /\ rx = Empty /\ acked = {}
-----------------------------------------------------------------------------
(* The servers and the network *)

\* A server answers what it hears, each time it hears it.
Answer(p, type, s) == toClient' = toClient \union {[type |-> type, xid |-> p.xid, from |-> s]}

ServerHears(s) ==
  /\ \E p \in toServers :
       \/ p.type = "DISCOVER" /\ Answer(p, "OFFER", s) /\ UNCHANGED acked
       \/ p.to = s /\ p.ip = s /\ Answer(p, "ACK", s) /\ acked' = acked \union {s}
       \/ p.to = s /\ Answer(p, "NAK", s) /\ UNCHANGED acked
  /\ UNCHANGED <<client, toServers, rx>>

\* A packet reaches the socket.
Delivered ==
  /\ rx = Empty /\ \E p \in toClient : rx' = p
  /\ UNCHANGED <<client, toServers, toClient, acked>>
-----------------------------------------------------------------------------
(* request_DHCP_lease *)

Expired == clock > Timeout
Send(p) == toServers' = toServers \union {p}

\* Every turn of the loop ends with a look at the clock.
GoOn(st) == state' = IF Expired THEN "FAILED" ELSE st

Discover ==
  /\ state = "START" /\ xid < MaxXid
  /\ xid' = xid + 1 /\ waited' = 0
  /\ Send([type |-> "DISCOVER", xid |-> xid + 1, to |-> None, ip |-> None])
  /\ GoOn("DISCOVER")
  /\ UNCHANGED <<localIp, serverIp, clock, toClient, rx, acked>>

Listening == state \in {"DISCOVER", "REQUEST"}

\* parsePacket finds nothing: delay(50), or 255 after responseTimeout.
Delay ==
  /\ Listening /\ rx = Empty /\ waited <= ResponseTimeout
  /\ clock' = clock + 1 /\ waited' = waited + 1
  /\ UNCHANGED <<state, xid, localIp, serverIp, net, acked>>

NoAnswer ==
  /\ Listening /\ rx = Empty /\ waited > ResponseTimeout
  /\ GoOn("START")
  /\ UNCHANGED <<xid, localIp, serverIp, clock, waited, net, acked>>

Mine(p) == p.xid <= xid

\* The server identifier is taken when there is none, or from the same server.
Identified(p) == IF serverIp = None THEN p.from ELSE serverIp

\* Mutant: the address is taken from the offer only.
AddressOffered(p) == IF p.type = "OFFER" THEN p.from ELSE localIp
Address(p) == IF p.type = "NAK" THEN None ELSE p.from

NotMine ==
  /\ Listening /\ rx # Empty /\ ~Mine(rx)
  /\ rx' = Empty /\ waited' = 0 /\ GoOn(state)
  /\ UNCHANGED <<xid, localIp, serverIp, clock, toServers, toClient, acked>>

\* Whatever the type, the address and the options of the answer are kept.
Parse(p) ==
  /\ rx = p /\ p # Empty /\ Mine(p)
  /\ localIp' = Address(p) /\ serverIp' = Identified(p)
  /\ rx' = Empty /\ waited' = 0

Offered ==
  /\ state = "DISCOVER" /\ rx.type = "OFFER" /\ Parse(rx)
  /\ xid' = rx.xid
  /\ Send([type |-> "REQUEST", xid |-> rx.xid, to |-> serverIp', ip |-> localIp'])
  /\ GoOn("REQUEST")
  /\ UNCHANGED <<clock, toClient, acked>>

Acknowledged ==
  /\ state = "REQUEST" /\ rx.type = "ACK" /\ Parse(rx)
  /\ state' = "LEASED"
  /\ UNCHANGED <<xid, clock, toServers, toClient, acked>>

Refused ==
  /\ state = "REQUEST" /\ rx.type = "NAK" /\ Parse(rx)
  /\ GoOn("START")
  /\ UNCHANGED <<xid, clock, toServers, toClient, acked>>

\* A late answer to something else: the client goes on listening.
Ignored ==
  /\ Listening
  /\ rx.type \in (IF state = "DISCOVER" THEN {"ACK", "NAK"} ELSE {"OFFER"}) /\ Parse(rx)
  /\ GoOn(state)
  /\ UNCHANGED <<xid, clock, toServers, toClient, acked>>

Done == Returned /\ UNCHANGED vars

Client == Discover \/ Delay \/ NoAnswer \/ NotMine \/ Offered \/ Acknowledged \/ Refused \/ Ignored
Next == (~Returned /\ (Client \/ (\E s \in Servers : ServerHears(s)) \/ Delivered)) \/ Done

Spec == Init /\ [][Next]_vars /\ WF_vars(Delay \/ NoAnswer \/ Discover)
-----------------------------------------------------------------------------
TypeOK ==
  /\ state \in {"START", "DISCOVER", "REQUEST", "LEASED", "FAILED"} /\ xid \in 0 .. MaxXid
  /\ {localIp, serverIp} \subseteq Servers \union {None}
  /\ toServers \subseteq Requests /\ toClient \subseteq Replies /\ acked \subseteq Servers

\* The unit comes up only with an address that its server acknowledged to it, whatever
\* answers to other requests came in between and left their address behind.
LeaseGranted == state = "LEASED" => localIp \in acked

\* begin() is back soon after its time, whatever comes in.
ReturnsInTime == clock <= Timeout + ResponseTimeout + 2

\* Does not hold: a REQUEST goes to the server whose address it asks for.
RequestsOwner == \A p \in toServers : p.type = "REQUEST" => p.to = p.ip
=============================================================================
