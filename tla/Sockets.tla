------------------------------ MODULE Sockets ------------------------------
(***************************************************************************)
(* The four hardware sockets of the W5500 and the parts of masterETH that  *)
(* share them: the web server (lib/EthernetWebServer over EthernetServer), *)
(* the identify probes, the two UDP sockets, and the port scanner          *)
(* (src/scanner.cpp), which keeps one open from a pass of loop() to the    *)
(* next.  A holder knows its socket by number only; the chip closes a      *)
(* socket by itself when the other side resets it, and socketBegin gives   *)
(* whoever asks the first one that is closed.                              *)
(***************************************************************************)
EXTENDS Integers, FiniteSets, FiniteSetsExt, TLAPS, WellFoundedInduction

CONSTANTS
  NSock,     \* MAX_SOCK_NUM
  NPort,     \* ports of a scan
  NHost,     \* hosts of a scan
  Alive,     \* those of them that answer
  OpenHosts, \* those of these that have open ports
  OpenPorts, \* the ports they have open
  Nodes,     \* those that may be in the registry and online
  Fallback,  \* the DHCP server has a socket
  Browsers,  \* somebody uses the web interface
  MaxData,   \* requests that wait in one connection
  Stalls     \* loop() may be kept for longer than the chip retries a SYN

Sock == 0 .. NSock - 1
None == NSock
Port == 0 .. NPort - 1
Host == 1 .. NHost

ASSUME SockAssumption == NSock \in Nat /\ NSock >= 3 /\ {NPort, NHost, MaxData} \subseteq Nat \ {0}
ASSUME HostAssumption == /\ Alive \subseteq Host /\ Nodes \subseteq Host
                         /\ OpenHosts \subseteq Alive /\ OpenPorts \subseteq Port
ASSUME CaseAssumption == {Fallback, Browsers, Stalls} \subseteq BOOLEAN

VARIABLES
  chip,   \* socket -> [status, the host and port it connects to, requests waiting in it]
  server, \* sockets with server_port = 80
  scan,   \* the PortScanner
  pc,     \* the part of loop() that is next
  quiet   \* history: no browser has connected, and no SYN been given up on

vars == <<chip, server, scan, pc, quiet>>

\* The sockets of setup(), in the order they are begun.
DhcpSock == IF Fallback THEN {0} ELSE {}
WebSock  == IF Fallback THEN 1 ELSE 0
ArtSock  == WebSock + 1
Udp      == DhcpSock \cup {ArtSock}

Open(h) == IF h \in OpenHosts THEN OpenPorts ELSE {}

Sk(st) == [status |-> st, host |-> 0, port |-> 0, data |-> 0]
-----------------------------------------------------------------------------
(* The chip and its driver; c is a state of all sockets *)

With(c, S) == { s \in Sock : c[s].status \in S }

\* Mutant: as a last resort any socket at all is closed.
TakenGreedy(c) == IF With(c, {"closed"}) # {} THEN Min(With(c, {"closed"})) ELSE 0

\* socketBegin: a closed socket, else one that is closing, else none.
Taken(c) == IF With(c, {"closed"}) # {} THEN Min(With(c, {"closed"}))
            ELSE IF With(c, {"closing"}) # {} THEN Min(With(c, {"closing"}))
            ELSE None

Put(c, s, r) == [i \in Sock |-> IF i = s THEN r ELSE c[i]]

Closed(c, s) == Put(c, s, Sk("closed"))              \* socketClose, stop

\* EthernetClient::connect ... stop, from the first line to the last.
Probed(c) == Closed(c, Taken(c))
-----------------------------------------------------------------------------
(* The scanner *)

Idle == [active |-> FALSE, host |-> 1, port |-> 0, sock |-> None, late |-> FALSE,
         found |-> [h \in Host |-> {}], alive |-> {}]

Started(s) == IF s.active THEN s ELSE [Idle EXCEPT !.active = TRUE]

\* Mutant: the socket is forgotten and not closed.
StoppedOpen(c, s) == <<c, [s EXCEPT !.active = FALSE, !.sock = None]>>

Stopped(c, s) == <<Closed(c, s.sock), [s EXCEPT !.active = FALSE, !.sock = None]>>

\* Mutants: the end is compared before the step; the host number wraps.
NextHostPast(s) == IF s.host > NHost THEN [s EXCEPT !.port = 0, !.active = FALSE]
                   ELSE [s EXCEPT !.port = 0, !.host = @ + 1]
NextHostWraps(s) == [s EXCEPT !.port = 0, !.host = (@ % NHost) + 1]

NextHost(s) == IF s.host = NHost THEN [s EXCEPT !.port = 0, !.active = FALSE]
               ELSE [s EXCEPT !.port = 0, !.host = @ + 1]

NextPort(s) == IF s.port = NPort - 1 THEN NextHost(s) ELSE [s EXCEPT !.port = @ + 1]

\* The scanner's socket is done with, and the scan goes on as s.
Release(s) == /\ chip' = Closed(chip, scan.sock)
              /\ scan' = [s EXCEPT !.sock = None]

\* Mutant: silence counts as an answer.
SilentAlive == Release(NextPort([scan EXCEPT !.alive = @ \cup {scan.host}]))

Silent == Release(IF scan.port = 0 THEN NextHost(scan) ELSE NextPort(scan))

ScanOpens ==
  /\ scan.active /\ scan.sock = None
  /\ LET s == Taken(chip) IN
     IF s = None THEN UNCHANGED <<chip, server, scan>>
     ELSE /\ chip' = Put(chip, s, [Sk("syn") EXCEPT !.host = scan.host, !.port = scan.port])
          /\ server' = server \ {s}
          /\ scan' = [scan EXCEPT !.sock = s, !.late = FALSE]

ScanSkips ==
  /\ scan.active /\ scan.sock = None /\ scan.host \in Nodes
  /\ scan' = NextHost(scan)
  /\ UNCHANGED <<chip, server>>

ScanLooks ==
  /\ scan.active /\ scan.sock # None
  /\ LET st == chip[scan.sock].status
         up == [scan EXCEPT !.alive = @ \cup {scan.host}]
     IN \/ /\ st \in {"up", "half"}
           /\ Release(NextPort([up EXCEPT !.found[scan.host] = @ \cup {scan.port}]))
        \/ /\ st = "closed"
           /\ Release(NextPort(up))
        \/ /\ st \notin {"up", "half", "closed"} /\ scan.late
           /\ Silent
        \/ /\ st \notin {"up", "half", "closed"} /\ ~scan.late
           /\ UNCHANGED <<chip, scan>>
  /\ UNCHANGED server

ScanTick ==
  /\ pc = "scan" /\ pc' = "web"
  /\ \/ ~scan.active /\ UNCHANGED <<chip, server, scan>>
     \/ ScanOpens \/ ScanSkips \/ ScanLooks
-----------------------------------------------------------------------------
(* Requests, by the web server or over USB, as far as they touch sockets *)

Request == {"start", "stop", "probe", "other"}

After(r, c) == CASE r = "start" -> <<c, Started(scan)>>
                 [] r = "stop"  -> Stopped(c, scan)
                 [] r = "probe" -> <<Probed(c), scan>>
                 [] OTHER       -> <<c, scan>>

\* What a request does to the sockets of the web server: socketBegin clears
\* server_port of the socket it returns.
ServerAfter(r, c, S) == IF r = "probe" THEN S \ {Taken(c)} ELSE S

SerialTick ==
  /\ pc = "serial" /\ pc' = "disc"
  /\ \E r \in Request :
       /\ chip' = After(r, chip)[1] /\ scan' = After(r, chip)[2]
       /\ server' = ServerAfter(r, chip, server)

DiscoveryTick ==                                 \* a probe may be due
  /\ pc = "disc" /\ pc' = "scan"
  /\ \E r \in {"probe", "other"} :
       chip' = After(r, chip)[1] /\ server' = ServerAfter(r, chip, server)
  /\ UNCHANGED scan
-----------------------------------------------------------------------------
(* The web server: handleClient *)

\* Mutant: a connection whose other side is gone stays as it is.
EndedNot(s) == FALSE

\* EthernetServer::available: connections the other side has ended are ended
\* here, closed sockets are struck off, and a listening one is made sure of.
Ended(s)    == s \in server /\ chip[s].status = "half" /\ chip[s].data = 0
Swept       == [s \in Sock |-> IF Ended(s) THEN Sk("closing") ELSE chip[s]]
Serving     == server \ With(chip, {"closed"})
Ready       == { s \in server : chip[s].status \in {"up", "half"} /\ chip[s].data > 0 }
Listener    == IF \E s \in server : chip[s].status = "listen" THEN None ELSE Taken(Swept)
Listening   == Put(Swept, Listener, Sk("listen"))
ServerNow   == IF Listener = None THEN Serving ELSE Serving \cup {Listener}

WebIdle ==
  /\ Ready = {}
  /\ chip' = Listening /\ server' = ServerNow
  /\ UNCHANGED scan

\* The request is read and handled, or found malformed; then _currentClient is given up
\* without a stop(): it is the browser that ends the connection, or sends more on it.
WebServes ==
  /\ Ready # {}
  /\ LET s == Max(Ready)
     IN \E r \in Request, left \in 0 .. chip[s].data - 1 :
          LET c == Put(Listening, s, [Listening[s] EXCEPT !.data = left])
          IN /\ chip' = After(r, c)[1] /\ scan' = After(r, c)[2]
             /\ server' = ServerAfter(r, c, ServerNow)

WebTick == /\ pc = "web" /\ pc' = "serial"
           /\ WebIdle \/ WebServes
-----------------------------------------------------------------------------
(* The network and the clock, between any two parts of loop() *)

Turns(s, r) == chip' = Put(chip, s, r) /\ UNCHANGED <<server, scan, pc>>

Connect(s) == Browsers /\ chip[s].status = "listen" /\ Turns(s, Sk("up")) /\ quiet' = FALSE
GivesUp(s) == Stalls /\ chip[s].status = "syn" /\ Turns(s, Sk("closed")) /\ quiet' = FALSE
Sends(s)   == /\ chip[s].status = "up" /\ chip[s].host = 0 /\ chip[s].data < MaxData
              /\ Turns(s, [chip[s] EXCEPT !.data = @ + 1])
Fin(s)     == chip[s].status = "up" /\ Turns(s, [chip[s] EXCEPT !.status = "half"])
Reset(s)   == chip[s].status \in {"up", "half"} /\ Turns(s, Sk("closed"))
Ends(s)    == chip[s].status = "closing" /\ Turns(s, Sk("closed"))
Answers(s) ==
  /\ chip[s].status = "syn" /\ chip[s].host \in Alive
  /\ Turns(s, IF chip[s].port \in Open(chip[s].host) THEN [chip[s] EXCEPT !.status = "up"]
                                                     ELSE Sk("closed"))

ScanLate == /\ scan.sock # None /\ ~scan.late      \* PROBE_TIMEOUT_MS
            /\ scan' = [scan EXCEPT !.late = TRUE]
            /\ UNCHANGED <<chip, server, pc, quiet>>
Init ==
  /\ chip = [s \in Sock |-> IF s \in Udp THEN Sk("udp")
                            ELSE IF s = WebSock THEN Sk("listen") ELSE Sk("closed")]
  /\ server = {WebSock}
  /\ scan = Idle /\ pc = "web"
  /\ quiet = TRUE

Loop == WebTick \/ SerialTick \/ DiscoveryTick \/ ScanTick
Net(s) == \/ Connect(s) \/ GivesUp(s)
          \/ (Sends(s) \/ Fin(s) \/ Reset(s) \/ Ends(s) \/ Answers(s)) /\ UNCHANGED quiet
Next == \/ Loop /\ UNCHANGED quiet
        \/ ScanLate
        \/ \E s \in Sock : Net(s)

Spec     == Init /\ [][Next]_vars
FairSpec == Spec /\ WF_vars(Loop /\ UNCHANGED quiet) /\ WF_vars(ScanLate)
-----------------------------------------------------------------------------
(* Properties *)

Status == {"closed", "listen", "syn", "up", "half", "closing", "udp"}

TypeOK ==
  /\ chip \in [Sock -> [status : Status, host : 0 .. NHost, port : Port, data : 0 .. MaxData]]
  /\ server \subseteq Sock
  /\ scan \in [active : BOOLEAN, host : Host, port : Port, sock : Sock \cup {None},
               late : BOOLEAN, found : [Host -> SUBSET Port], alive : SUBSET Host]
  /\ pc \in {"web", "serial", "disc", "scan"} /\ quiet \in BOOLEAN

\* No mix-up of socket numbers reaches the sockets discovery and the DHCP server have.
UdpKept == \A s \in Udp : chip[s].status = "udp"

\* No socket is lost: one that is open has somebody who will look at it.
NoneLost == \A s \in Sock : chip[s].status \notin {"closed", "closing"} =>
                              s \in Udp \cup server \/ (scan.active /\ scan.sock = s)

\* Both: whatever the order of taking and closing, a socket has one owner who will free it.
SocketsOwned == UdpKept /\ NoneLost

\* What a scan reports is what the hosts answered, as long as nobody uses the
\* web interface and loop() is never kept for longer than the chip tries.
ReportMatches == /\ scan.alive \subseteq Alive
                 /\ \A h \in Host : scan.found[h] \subseteq Open(h)
QuietReportTrue == quiet => ReportMatches

\* The same always: "a host is up if it answers a SYN with SYN-ACK (port open)
\* or RST (port closed)", and "the web UI stays responsive while a scan runs".
ReportsTrue == ReportMatches

\* A scan ends, if sockets keep coming free for it.
Room     == pc = "scan" /\ (scan.sock # None \/ Taken(chip) # None)
ScanEnds == []<>Room => []<>~scan.active

\* A browser finds a listening socket again and again, if no connection stays for ever:
\* the server itself ends none, and the scanner and the probes leave it its turn.
Held(s)         == chip[s].status = "up" /\ s \in server
ListenerReturns == (\A s \in Sock : []<>~Held(s)) => []<>(\E s \in server : chip[s].status = "listen")
-----------------------------------------------------------------------------
(* Proofs: who owns the sockets, for any number of them, any hosts and ports, *)
(* with or without browsers and stalls.                                       *)
-----------------------------------------------------------------------------
(* Taking a socket *)

LessThan == { p \in Nat \X Nat : p[1] < p[2] }

\* The least of a non-empty set of sockets is one of them.
LEMMA MinIn ==
  ASSUME NEW S \in SUBSET Nat, S # {}
  PROVE  Min(S) \in S
<1>1. IsWellFoundedOn(LessThan, Nat)
  BY NatLessThanWellFounded, SMT DEF OpToRel, LessThan
<1>2. PICK x \in S : \A y \in S : ~ (<<y, x>> \in LessThan)
  BY <1>1, WFMin
<1>3. ASSUME NEW y \in S PROVE x <= y
  <2>1. x \in Nat /\ y \in Nat
    OBVIOUS
  <2>2. ~ (y < x)
    BY <1>2, <2>1 DEF LessThan
  <2>. QED BY <2>1, <2>2
<1>. QED BY <1>3 DEF Min

\* socketBegin returns a closed or a closing socket, or none.
LEMMA TakenIsFree ==
  ASSUME NEW c, Taken(c) # None
  PROVE  Taken(c) \in Sock /\ c[Taken(c)].status \in {"closed", "closing"}
<1>1. \A S : With(c, S) \in SUBSET Nat /\ With(c, S) \subseteq Sock
  BY SockAssumption DEF With, Sock
<1>2. ASSUME NEW S, With(c, S) # {}
      PROVE  Min(With(c, S)) \in Sock /\ c[Min(With(c, S))].status \in S
  <2>1. Min(With(c, S)) \in With(c, S)
    BY <1>1, <1>2, MinIn
  <2>. QED BY <2>1 DEF With
<1>. QED BY <1>2 DEF Taken

LEMMA NoneIsNoSock == None \notin Sock
BY SockAssumption DEF None, Sock
-----------------------------------------------------------------------------
(* The inductive invariant: the scanner's number and the web server's are  *)
(* never those of a UDP socket, and a scanner at rest has none.  c, S and  *)
(* sc stand for chip, server and scan, between two parts of a step too.    *)

SockRecord == [status : Status, host : 0 .. NHost, port : Port, data : 0 .. MaxData]
ScanRecord == [active : BOOLEAN, host : Host, port : Port, sock : Sock \cup {None},
               late : BOOLEAN, found : [Host -> SUBSET Port], alive : SUBSET Host]

IsOpen(r) == r.status \notin {"closed", "closing"}

Good(c, S, sc) ==
  /\ c \in [Sock -> SockRecord] /\ S \subseteq Sock \ Udp /\ sc \in ScanRecord
  /\ sc.sock \notin Udp
  /\ sc.sock # None => sc.active
  /\ \A s \in Udp : c[s].status = "udp"
  /\ \A s \in Sock : IsOpen(c[s]) => s \in Udp \cup S \/ s = sc.sock

OwnerInv == Good(chip, server, scan) /\ pc \in {"web", "serial", "disc", "scan"} /\ quiet \in BOOLEAN

LEMMA UdpSocks == Udp \subseteq Sock /\ WebSock \in Sock \ Udp
BY SockAssumption, CaseAssumption DEF Udp, DhcpSock, ArtSock, WebSock, Sock

LEMMA SkType == \A st \in Status : Sk(st) \in SockRecord /\ Sk(st).status = st
BY SockAssumption DEF Sk, SockRecord, Port

LEMMA PutFacts ==
  ASSUME NEW c \in [Sock -> SockRecord], NEW s, NEW r, s \in Sock => r \in SockRecord
  PROVE  /\ Put(c, s, r) \in [Sock -> SockRecord]
         /\ \A i \in Sock : Put(c, s, r)[i] = IF i = s THEN r ELSE c[i]
BY DEF Put

\* Closing a socket that is not a UDP one leaves nothing without an owner.
LEMMA ClosedGood ==
  ASSUME NEW c, NEW S, NEW sc, Good(c, S, sc), NEW s, s \notin Udp
  PROVE  Good(Closed(c, s), S, sc)
<1>1. Sk("closed") \in SockRecord /\ ~IsOpen(Sk("closed"))
  BY SkType DEF Status, IsOpen
<1>2. /\ Closed(c, s) \in [Sock -> SockRecord]
      /\ \A i \in Sock : Closed(c, s)[i] = IF i = s THEN Sk("closed") ELSE c[i]
  BY <1>1, PutFacts DEF Good, Closed
<1>. QED BY <1>1, <1>2, UdpSocks DEF Good

\* What was taken belongs to nobody, so that somebody else may lose it.
LEMMA TakenGood ==
  ASSUME NEW c, NEW S, NEW sc, Good(c, S, sc)
  PROVE  /\ Taken(c) \notin Udp
         /\ Good(c, S \ {Taken(c)}, sc)
<1>1. Taken(c) # None => Taken(c) \in Sock /\ ~IsOpen(c[Taken(c)])
  BY TakenIsFree DEF IsOpen
<1>2. \A s \in Udp : IsOpen(c[s])
  BY DEF Good, IsOpen
<1>3. Taken(c) \notin Udp
  BY <1>1, <1>2, UdpSocks, NoneIsNoSock
<1>. QED BY <1>1, <1>3, NoneIsNoSock DEF Good

\* A socket that stays as open as it was, or becomes less so.
LEMMA PutGood ==
  ASSUME NEW c, NEW S, NEW sc, Good(c, S, sc), NEW s, NEW r,
         s \in Sock => /\ r \in SockRecord
                       /\ IsOpen(r) => IsOpen(c[s])
                       /\ s \in Udp => r.status = "udp"
  PROVE  Good(Put(c, s, r), S, sc)
<1>1. /\ Put(c, s, r) \in [Sock -> SockRecord]
      /\ \A i \in Sock : Put(c, s, r)[i] = IF i = s THEN r ELSE c[i]
  BY PutFacts DEF Good
<1>. QED BY <1>1, UdpSocks DEF Good
-----------------------------------------------------------------------------
(* Requests and the web server *)

LEMMA IdleRecord == Idle \in ScanRecord /\ Idle.sock = None
BY SockAssumption DEF Idle, ScanRecord, Host, Port

LEMMA RequestGood ==
  ASSUME NEW c, NEW S, Good(c, S, scan), NEW r \in Request
  PROVE  Good(After(r, c)[1], ServerAfter(r, c, S), After(r, c)[2])
<1>1. CASE r = "start"
  <2>1. \/ Started(scan) = scan
        \/ ~scan.active /\ Started(scan) = [Idle EXCEPT !.active = TRUE]
    BY DEF Started
  <2>2. /\ [Idle EXCEPT !.active = TRUE] \in ScanRecord
        /\ [Idle EXCEPT !.active = TRUE].sock = None
    BY IdleRecord DEF ScanRecord
  <2>3. ~scan.active => scan.sock = None
    BY DEF Good
  <2>4. Good(c, S, Started(scan))
    BY <2>1, <2>2, <2>3, UdpSocks, NoneIsNoSock DEF Good
  <2>. QED BY <1>1, <2>4 DEF After, ServerAfter
<1>2. CASE r = "stop"
  <2>. DEFINE to == [scan EXCEPT !.active = FALSE, !.sock = None]
  <2>1. scan.sock \notin Udp /\ scan \in ScanRecord
    BY DEF Good
  <2>2. to \in ScanRecord /\ to.sock = None
    BY <2>1 DEF ScanRecord
  <2>3. Good(Closed(c, scan.sock), S, scan)
    BY <2>1, ClosedGood
  <2>4. scan.sock \in Sock => ~IsOpen(Closed(c, scan.sock)[scan.sock])
    BY SkType DEF Closed, Put, IsOpen, Status
  <2>5. Good(Closed(c, scan.sock), S, to)
    BY <2>2, <2>3, <2>4, UdpSocks, NoneIsNoSock DEF Good
  <2>. QED BY <1>2, <2>5 DEF After, ServerAfter, Stopped
<1>3. CASE r = "probe"
  <2>1. Good(c, S \ {Taken(c)}, scan) /\ Taken(c) \notin Udp
    BY TakenGood
  <2>2. Good(Probed(c), S \ {Taken(c)}, scan)
    BY <2>1, ClosedGood DEF Probed
  <2>. QED BY <1>3, <2>2 DEF After, ServerAfter
<1>4. CASE r = "other"
  BY <1>4 DEF After, ServerAfter
<1>. QED BY <1>1, <1>2, <1>3, <1>4 DEF Request

\* EthernetServer::available closes only its own sockets and takes a free one.
LEMMA ListeningGood ==
  ASSUME Good(chip, server, scan)
  PROVE  Good(Listening, ServerNow, scan)
<1>1. Sk("closing") \in SockRecord /\ ~IsOpen(Sk("closing"))
  BY SkType DEF Status, IsOpen
<1>2. Good(Swept, server, scan)
  <2>1. \A s \in Sock : Swept[s] = IF Ended(s) THEN Sk("closing") ELSE chip[s]
    BY DEF Swept
  <2>2. Swept \in [Sock -> SockRecord]
    BY <1>1 DEF Swept, Good
  <2>3. \A s \in Udp : ~Ended(s)
    BY DEF Ended, Good
  <2>. QED BY <1>1, <2>1, <2>2, <2>3, UdpSocks DEF Good
<1>3. Good(Swept, Serving, scan)
  <2>1. \A s \in Sock : IsOpen(Swept[s]) => chip[s].status # "closed"
    BY <1>1 DEF Swept, IsOpen
  <2>2. Serving \subseteq server /\ \A s \in server : chip[s].status # "closed" => s \in Serving
    BY DEF Serving, With, Good
  <2>. QED BY <1>2, <2>1, <2>2 DEF Good
<1>4. CASE Listener = None
  <2>1. Listening = Swept
    BY <1>4, NoneIsNoSock DEF Listening, Put, Swept
  <2>. QED BY <1>3, <1>4, <2>1 DEF ServerNow
<1>5. CASE Listener # None
  <2>1. Listener = Taken(Swept)
    BY <1>5 DEF Listener
  <2>2. Listener \notin Udp /\ Listener \in Sock
    BY <1>2, <1>5, <2>1, TakenGood, TakenIsFree
  <2>3. Sk("listen") \in SockRecord
    BY SkType DEF Status
  <2>4. /\ Listening \in [Sock -> SockRecord]
        /\ \A i \in Sock : Listening[i] = IF i = Listener THEN Sk("listen") ELSE Swept[i]
    BY <1>3, <2>3, PutFacts DEF Good, Listening
  <2>5. ServerNow = Serving \cup {Listener}
    BY <1>5 DEF ServerNow
  <2>. QED BY <1>3, <2>2, <2>4, <2>5, UdpSocks DEF Good
<1>. QED BY <1>4, <1>5

LEMMA WebGood ==
  ASSUME OwnerInv, WebTick
  PROVE  Good(chip', server', scan')
<1>0. Good(chip, server, scan) /\ Good(Listening, ServerNow, scan)
  BY ListeningGood DEF OwnerInv
<1>1. CASE WebIdle
  BY <1>0, <1>1 DEF WebIdle
<1>2. CASE WebServes
  <2>. DEFINE s == Max(Ready)
  <2>1. PICK r \in Request, left \in 0 .. chip[s].data - 1 :
           LET c == Put(Listening, s, [Listening[s] EXCEPT !.data = left])
           IN  /\ chip' = After(r, c)[1] /\ scan' = After(r, c)[2]
               /\ server' = ServerAfter(r, c, ServerNow)
    BY <1>2 DEF WebServes
  <2>. DEFINE c == Put(Listening, s, [Listening[s] EXCEPT !.data = left])
  <2>2. ASSUME s \in Sock
        PROVE  /\ [Listening[s] EXCEPT !.data = left] \in SockRecord
               /\ [Listening[s] EXCEPT !.data = left].status = Listening[s].status
    <3>1. Listening[s] \in SockRecord /\ chip[s] \in SockRecord
      BY <1>0, <2>2 DEF Good
    <3>2. left \in 0 .. MaxData
      BY <3>1, SockAssumption DEF SockRecord
    <3>. QED BY <3>1, <3>2 DEF SockRecord
  <2>. HIDE DEF s
  <2>3. Good(c, ServerNow, scan)
    <3>. DEFINE rec == [Listening[s] EXCEPT !.data = left]
    <3>1. s \in Sock => /\ rec \in SockRecord
                        /\ IsOpen(rec) => IsOpen(Listening[s])
                        /\ s \in Udp => rec.status = "udp"
      BY <1>0, <2>2 DEF Good, IsOpen
    <3>. HIDE DEF rec
    <3>2. Good(Put(Listening, s, rec), ServerNow, scan)
      BY <1>0, <3>1, PutGood
    <3>. QED BY <3>2 DEF rec
  <2>. QED BY <2>1, <2>3, RequestGood
<1>. QED BY <1>1, <1>2 DEF WebTick
-----------------------------------------------------------------------------
(* The scanner *)

LEMMA NextRecord ==
  ASSUME NEW sc \in ScanRecord
  PROVE  /\ NextHost(sc) \in ScanRecord /\ NextHost(sc).sock = sc.sock
         /\ NextPort(sc) \in ScanRecord /\ NextPort(sc).sock = sc.sock
<1>0. /\ sc.host \in Host /\ sc.port \in Port /\ 0 \in Port
      /\ sc.host # NHost => sc.host + 1 \in Host
      /\ sc.port # NPort - 1 => sc.port + 1 \in Port
  BY SockAssumption DEF ScanRecord, Host, Port
<1>1. NextHost(sc) \in ScanRecord /\ NextHost(sc).sock = sc.sock
  <2>1. CASE sc.host = NHost
    <3>1. NextHost(sc) = [sc EXCEPT !.port = 0, !.active = FALSE]
      BY <2>1 DEF NextHost
    <3>. QED BY <1>0, <3>1 DEF ScanRecord
  <2>2. CASE sc.host # NHost
    <3>1. NextHost(sc) = [sc EXCEPT !.port = 0, !.host = sc.host + 1]
      BY <2>2 DEF NextHost
    <3>. QED BY <1>0, <2>2, <3>1 DEF ScanRecord
  <2>. QED BY <2>1, <2>2
<1>2. NextPort(sc) \in ScanRecord /\ NextPort(sc).sock = sc.sock
  <2>1. CASE sc.port = NPort - 1
    BY <1>1, <2>1 DEF NextPort
  <2>2. CASE sc.port # NPort - 1
    <3>1. NextPort(sc) = [sc EXCEPT !.port = sc.port + 1]
      BY <2>2 DEF NextPort
    <3>. QED BY <1>0, <2>2, <3>1 DEF ScanRecord
  <2>. QED BY <2>1, <2>2
<1>. QED BY <1>1, <1>2

\* The scanner gives its socket back, wherever it goes on.
LEMMA ReleaseGood ==
  ASSUME Good(chip, server, scan), NEW sc \in ScanRecord, Release(sc), UNCHANGED server
  PROVE  Good(chip', server', scan')
<1>1. chip' = Closed(chip, scan.sock) /\ scan' = [sc EXCEPT !.sock = None]
  BY DEF Release
<1>2. scan' \in ScanRecord /\ scan'.sock = None
  BY <1>1 DEF ScanRecord
<1>3. Good(chip', server, scan)
  <2>1. scan.sock \notin Udp
    BY DEF Good
  <2>. QED BY <1>1, <2>1, ClosedGood
<1>4. scan.sock \in Sock => ~IsOpen(chip'[scan.sock])
  BY <1>1, SkType DEF Closed, Put, IsOpen, Status
<1>. QED BY <1>2, <1>3, <1>4, UdpSocks, NoneIsNoSock DEF Good

LEMMA ScanGood ==
  ASSUME OwnerInv, ScanTick
  PROVE  Good(chip', server', scan')
<1>0. Good(chip, server, scan) /\ scan \in ScanRecord
  BY DEF OwnerInv, Good
<1>1. CASE UNCHANGED <<chip, server, scan>>
  BY <1>0, <1>1 DEF Good
<1>2. ASSUME ScanOpens, Taken(chip) # None
      PROVE  Good(chip', server', scan')
  <2>. DEFINE s   == Taken(chip)
              rec == [Sk("syn") EXCEPT !.host = scan.host, !.port = scan.port]
  <2>1. /\ scan.active
        /\ chip' = Put(chip, s, rec)
        /\ server' = server \ {s}
        /\ scan' = [scan EXCEPT !.sock = s, !.late = FALSE]
    BY <1>2 DEF ScanOpens
  <2>2. s \in Sock /\ s \notin Udp
    BY <1>0, <1>2, TakenIsFree, TakenGood
  <2>3. rec \in SockRecord
    <3>1. Sk("syn") \in SockRecord
      BY SkType DEF Status
    <3>2. scan.host \in 0 .. NHost /\ scan.port \in Port
      BY <1>0, SockAssumption DEF ScanRecord, Host
    <3>. QED BY <3>1, <3>2 DEF SockRecord
  <2>4. /\ chip' \in [Sock -> SockRecord]
        /\ \A i \in Sock : i # s => chip'[i] = chip[i]
    BY <1>0, <2>1, <2>3, PutFacts DEF Good
  <2>5. scan' \in ScanRecord /\ scan'.sock = s /\ scan'.active
    BY <1>0, <2>1, <2>2 DEF ScanRecord
  <2>6. scan.sock = None
    BY <1>2 DEF ScanOpens
  <2>. HIDE DEF s
  <2>. QED BY <1>0, <2>1, <2>2, <2>4, <2>5, <2>6, UdpSocks, NoneIsNoSock DEF Good
<1>3. CASE ScanSkips
  <2>1. /\ scan' = NextHost(scan) /\ scan.sock = None
        /\ UNCHANGED <<chip, server>>
    BY <1>3 DEF ScanSkips
  <2>2. scan' \in ScanRecord /\ scan'.sock = None
    BY <1>0, <2>1, NextRecord
  <2>. QED BY <1>0, <2>1, <2>2, UdpSocks, NoneIsNoSock DEF Good
<1>4. CASE ScanLooks
  <2>. DEFINE up   == [scan EXCEPT !.alive = scan.alive \cup {scan.host}]
              open == [up EXCEPT !.found[scan.host] = up.found[scan.host] \cup {scan.port}]
  <2>1. up \in ScanRecord
    BY <1>0 DEF ScanRecord
  <2>2. open \in ScanRecord
    BY <1>0 DEF ScanRecord
  <2>3. /\ UNCHANGED server
        /\ \/ UNCHANGED <<chip, scan>>
           \/ Release(NextPort(open)) \/ Release(NextPort(up))
           \/ Release(NextHost(scan)) \/ Release(NextPort(scan))
    BY <1>4 DEF ScanLooks, Silent
  <2>. HIDE DEF up, open
  <2>. QED BY <1>0, <1>1, <2>1, <2>2, <2>3, NextRecord, ReleaseGood
<1>. QED BY <1>1, <1>2, <1>3, <1>4 DEF ScanTick, ScanOpens
-----------------------------------------------------------------------------
(* Everything together *)

LEMMA LoopGood ==
  ASSUME OwnerInv, Loop
  PROVE  Good(chip', server', scan') /\ pc' \in {"web", "serial", "disc", "scan"}
<1>0. Good(chip, server, scan)
  BY DEF OwnerInv
<1>1. CASE WebTick
  BY <1>1, WebGood DEF WebTick
<1>2. CASE SerialTick
  BY <1>0, <1>2, RequestGood DEF SerialTick
<1>3. CASE DiscoveryTick
  <2>1. PICK r \in {"probe", "other"} :
           chip' = After(r, chip)[1] /\ server' = ServerAfter(r, chip, server)
    BY <1>3 DEF DiscoveryTick
  <2>2. r \in Request /\ scan' = After(r, chip)[2]
    BY <1>3 DEF DiscoveryTick, Request, After
  <2>3. Good(chip', server', scan')
    BY <1>0, <2>1, <2>2, RequestGood
  <2>. QED BY <1>3, <2>3 DEF DiscoveryTick
<1>4. CASE ScanTick
  BY <1>4, ScanGood DEF ScanTick
<1>. QED BY <1>1, <1>2, <1>3, <1>4 DEF Loop

\* What the network does to a socket closes it or leaves it open.
LEMMA NetGood ==
  ASSUME OwnerInv, NEW s \in Sock, Net(s)
  PROVE  Good(chip', server', scan') /\ UNCHANGED pc /\ quiet' \in BOOLEAN
<1>0. /\ Good(chip, server, scan) /\ chip[s] \in SockRecord /\ quiet \in BOOLEAN
      /\ s \in Udp => chip[s].status = "udp"
  BY DEF OwnerInv, Good
<1>1. ASSUME NEW r \in SockRecord, Turns(s, r), IsOpen(r) => IsOpen(chip[s]),
             chip[s].status # "udp"
      PROVE  Good(chip', server', scan') /\ UNCHANGED pc
  <2>1. Good(Put(chip, s, r), server, scan)
    BY <1>0, <1>1, PutGood
  <2>. QED BY <1>1, <2>1 DEF Turns
<1>2. Sk("up") \in SockRecord /\ Sk("closed") \in SockRecord /\ ~IsOpen(Sk("closed"))
  BY SkType DEF Status, IsOpen
<1>3. CASE Connect(s)
  BY <1>1, <1>2, <1>3 DEF Connect, IsOpen
<1>4. CASE GivesUp(s) \/ Reset(s) \/ Ends(s)
  <2>1. chip[s].status # "udp" /\ Turns(s, Sk("closed"))
    BY <1>4 DEF GivesUp, Reset, Ends
  <2>2. quiet' \in BOOLEAN
    BY <1>0, <1>4 DEF Net, GivesUp, Reset, Ends, Connect
  <2>. QED BY <1>1, <1>2, <2>1, <2>2
<1>5. CASE (Sends(s) \/ Fin(s) \/ Answers(s)) /\ UNCHANGED quiet
  <2>1. \E r \in SockRecord : /\ Turns(s, r)
                              /\ IsOpen(r) => IsOpen(chip[s])
                              /\ chip[s].status # "udp"
    <3>1. CASE Sends(s)
      <4>1. [chip[s] EXCEPT !.data = chip[s].data + 1] \in SockRecord
        BY <1>0, <3>1, SockAssumption DEF Sends, SockRecord
      <4>. QED BY <3>1, <4>1 DEF Sends, IsOpen
    <3>2. CASE Fin(s)
      <4>1. [chip[s] EXCEPT !.status = "half"] \in SockRecord
        BY <1>0 DEF SockRecord, Status
      <4>. QED BY <3>2, <4>1 DEF Fin, IsOpen
    <3>3. CASE Answers(s)
      <4>1. [chip[s] EXCEPT !.status = "up"] \in SockRecord
        BY <1>0 DEF SockRecord, Status
      <4>. QED BY <1>2, <3>3, <4>1 DEF Answers, IsOpen
    <3>. QED BY <1>5, <3>1, <3>2, <3>3
  <2>. QED BY <1>0, <1>1, <1>5, <2>1
<1>. QED BY <1>3, <1>4, <1>5 DEF Net

LEMMA OwnerInit == Init => OwnerInv
<1>. SUFFICES ASSUME Init PROVE OwnerInv
  OBVIOUS
<1>1. /\ Sk("udp") \in SockRecord /\ Sk("listen") \in SockRecord /\ Sk("closed") \in SockRecord
      /\ Sk("udp").status = "udp" /\ ~IsOpen(Sk("closed"))
  BY SkType DEF Status, IsOpen
<1>2. /\ chip \in [Sock -> SockRecord]
      /\ \A s \in Sock : chip[s] = IF s \in Udp THEN Sk("udp")
                                   ELSE IF s = WebSock THEN Sk("listen") ELSE Sk("closed")
  BY <1>1 DEF Init
<1>3. /\ server = {WebSock} /\ scan = Idle /\ pc = "web" /\ quiet = TRUE
  BY DEF Init
<1>4. Good(chip, server, scan)
  BY <1>1, <1>2, <1>3, UdpSocks, IdleRecord, NoneIsNoSock DEF Good
<1>. QED BY <1>3, <1>4 DEF OwnerInv

LEMMA OwnerStep == OwnerInv /\ [Next]_vars => OwnerInv'
<1>. SUFFICES ASSUME OwnerInv, [Next]_vars PROVE OwnerInv'
  OBVIOUS
<1>0. /\ Good(chip, server, scan) /\ quiet \in BOOLEAN
      /\ pc \in {"web", "serial", "disc", "scan"}
  BY DEF OwnerInv
<1>a. Good(chip', server', scan') => Good(chip, server, scan)'
  BY DEF Good
<1>1. CASE Loop /\ UNCHANGED quiet
  BY <1>0, <1>1, <1>a, LoopGood DEF OwnerInv
<1>2. CASE ScanLate
  <2>1. scan' = [scan EXCEPT !.late = TRUE] /\ UNCHANGED <<chip, server, pc, quiet>>
    BY <1>2 DEF ScanLate
  <2>2. scan' \in ScanRecord /\ scan'.sock = scan.sock /\ scan'.active = scan.active
    BY <1>0, <2>1 DEF Good, ScanRecord
  <2>3. Good(chip', server', scan')
    BY <1>0, <2>1, <2>2 DEF Good
  <2>. QED BY <1>0, <1>a, <2>1, <2>3 DEF OwnerInv
<1>3. ASSUME NEW s \in Sock, Net(s) PROVE OwnerInv'
  BY <1>0, <1>3, <1>a, NetGood DEF OwnerInv
<1>4. CASE UNCHANGED vars
  BY <1>0, <1>4 DEF OwnerInv, Good, vars
<1>. QED BY <1>1, <1>2, <1>3, <1>4 DEF Next

\* Types, and the scanner's and the web server's numbers apart from the UDP
\* sockets': the inductive invariant of the next two theorems.
THEOREM OwnerInvariant == Spec => []OwnerInv
BY OwnerInit, OwnerStep, PTL DEF Spec

\* Every variable of Sockets keeps its type.
THEOREM TypeCorrect == Spec => []TypeOK
<1>1. OwnerInv => TypeOK
  BY DEF OwnerInv, Good, TypeOK, SockRecord, ScanRecord
<1>. QED BY <1>1, OwnerInvariant, PTL

\* Discovery and the DHCP server keep their UDP sockets, and every open socket
\* has somebody who will close it, however web server, probes and scanner take
\* sockets from each other: what is taken is closed or closing, so not a UDP
\* one, and the scanner holds a number only while it is active.
THEOREM SocketsStayOwned == Spec => []SocketsOwned
<1>1. OwnerInv => SocketsOwned
  BY NoneIsNoSock DEF OwnerInv, Good, IsOpen, SocketsOwned, UdpKept, NoneLost
<1>. QED BY <1>1, OwnerInvariant, PTL
-----------------------------------------------------------------------------
(* What a scan reports: the second inductive invariant.  Again c and sc    *)
(* stand for chip and scan, between two parts of a step too.               *)

Trying == {"syn", "up", "half"}

HonestScan(sc) == sc.alive \subseteq Alive /\ \A h \in Host : sc.found[h] \subseteq Open(h)

\* While nobody connects and no SYN is given up on, a socket that is trying or
\* has succeeded is the scanner's and stands for its host and port; and the
\* scanner's socket is in any other state only because that host has answered.
Told(c, sc) ==
  /\ HonestScan(sc)
  /\ \A s \in Sock : c[s].status \in Trying =>
                     s = sc.sock /\ c[s].host = sc.host /\ c[s].port = sc.port
  /\ \A s \in Sock : c[s].status \in {"up", "half"} => c[s].port \in Open(c[s].host)
  /\ \A s \in Sock : s = sc.sock /\ c[s].status # "syn" => sc.host \in Alive

\* A socket that stops trying because its host has answered, or goes on.
LEMMA PutTold ==
  ASSUME NEW c \in [Sock -> SockRecord], NEW sc, Told(c, sc), NEW s, NEW r,
         s \in Sock => /\ r \in SockRecord
                       /\ r.status \in Trying =>
                            /\ c[s].status \in Trying /\ r.host = c[s].host /\ r.port = c[s].port
                            /\ r.status # "syn" => r.port \in Open(r.host)
                       /\ r.status # "syn" /\ c[s].status = "syn" => c[s].host \in Alive
  PROVE  Told(Put(c, s, r), sc)
<1>1. \A i \in Sock : Put(c, s, r)[i] = IF i = s THEN r ELSE c[i]
  BY PutFacts
<1>2. \A i \in Sock : Put(c, s, r)[i].status \in Trying =>
         i = sc.sock /\ Put(c, s, r)[i].host = sc.host /\ Put(c, s, r)[i].port = sc.port
  BY <1>1 DEF Told
<1>3. \A i \in Sock : Put(c, s, r)[i].status \in {"up", "half"} =>
         Put(c, s, r)[i].port \in Open(Put(c, s, r)[i].host)
  BY <1>1 DEF Told, Trying
<1>4. \A i \in Sock : i = sc.sock /\ Put(c, s, r)[i].status # "syn" => sc.host \in Alive
  BY <1>1 DEF Told, Trying
<1>. QED BY <1>2, <1>3, <1>4 DEF Told

LEMMA ClosedTold ==
  ASSUME NEW c \in [Sock -> SockRecord], NEW sc, Told(c, sc), NEW s,
         s \in Sock => c[s].status # "syn"
  PROVE  Told(Closed(c, s), sc)
<1>1. Sk("closed") \in SockRecord /\ Sk("closed").status = "closed"
  BY SkType DEF Status
<1>. QED BY <1>1, PutTold DEF Closed, Trying

\* When the scanner has given its socket back, nothing is trying any more.
LEMMA ReleasedTold ==
  ASSUME NEW c \in [Sock -> SockRecord], NEW sc, Told(c, sc), NEW to, HonestScan(to), to.sock = None
  PROVE  Told(Closed(c, sc.sock), to)
<1>1. Sk("closed") \in SockRecord /\ Sk("closed").status \notin Trying
  BY SkType DEF Status, Trying
<1>2. \A i \in Sock : Closed(c, sc.sock)[i] = IF i = sc.sock THEN Sk("closed") ELSE c[i]
  BY <1>1, PutFacts DEF Closed
<1>3. \A i \in Sock : Closed(c, sc.sock)[i].status \notin Trying
  BY <1>1, <1>2 DEF Told
<1>. QED BY <1>3, NoneIsNoSock DEF Told, Trying

LEMMA RequestTold ==
  ASSUME NEW c, NEW S, Good(c, S, scan), Told(c, scan), NEW r \in Request
  PROVE  Told(After(r, c)[1], After(r, c)[2])
<1>0. c \in [Sock -> SockRecord] /\ scan \in ScanRecord
  BY DEF Good
<1>1. CASE r = "start"
  <2>1. CASE scan.active
    BY <1>1, <2>1 DEF After, Started
  <2>2. CASE ~scan.active
    <3>. DEFINE to == [Idle EXCEPT !.active = TRUE]
    <3>1. scan.sock = None
      BY <2>2 DEF Good
    <3>2. to.sock = None /\ HonestScan(to)
      BY DEF Idle, HonestScan
    <3>3. \A s \in Sock : c[s].status \notin Trying
      BY <3>1, NoneIsNoSock DEF Told
    <3>4. Told(c, to)
      BY <3>2, <3>3, NoneIsNoSock DEF Told, Trying
    <3>. QED BY <1>1, <2>2, <3>4 DEF After, Started
  <2>. QED BY <2>1, <2>2
<1>2. CASE r = "stop"
  <2>. DEFINE to == [scan EXCEPT !.active = FALSE, !.sock = None]
  <2>1. to.sock = None /\ to.alive = scan.alive /\ to.found = scan.found
    BY <1>0 DEF ScanRecord
  <2>2. HonestScan(to)
    BY <2>1 DEF HonestScan, Told
  <2>3. Told(Closed(c, scan.sock), to)
    BY <1>0, <2>1, <2>2, ReleasedTold
  <2>. QED BY <1>2, <2>3 DEF After, Stopped
<1>3. CASE r = "probe"
  <2>1. Taken(c) \in Sock => c[Taken(c)].status # "syn"
    BY TakenIsFree, NoneIsNoSock
  <2>. QED BY <1>0, <1>3, <2>1, ClosedTold DEF After, Probed
<1>4. CASE r = "other"
  BY <1>4 DEF After
<1>. QED BY <1>1, <1>2, <1>3, <1>4 DEF Request

LEMMA ListeningTold ==
  ASSUME Good(chip, server, scan), Told(chip, scan)
  PROVE  Told(Listening, scan)
<1>0. chip \in [Sock -> SockRecord]
  BY DEF Good
<1>1. /\ Sk("closing") \in SockRecord /\ Sk("closing").status = "closing"
      /\ Sk("listen") \in SockRecord /\ Sk("listen").status = "listen"
  BY SkType DEF Status
<1>2. /\ Swept \in [Sock -> SockRecord]
      /\ \A s \in Sock : Swept[s] = IF Ended(s) THEN Sk("closing") ELSE chip[s]
  BY <1>0, <1>1 DEF Swept
<1>3. \A s \in Sock : Ended(s) => chip[s].status = "half"
  BY DEF Ended
<1>4. Told(Swept, scan)
  BY <1>1, <1>2, <1>3 DEF Told, Trying
<1>5. Listener \in Sock => Swept[Listener].status # "syn"
  BY TakenIsFree, NoneIsNoSock DEF Listener
<1>. QED BY <1>1, <1>2, <1>4, <1>5, PutTold DEF Listening, Trying

LEMMA WebTold ==
  ASSUME OwnerInv, WebTick, Told(chip, scan)
  PROVE  Told(chip', scan')
<1>0. /\ Good(chip, server, scan) /\ Good(Listening, ServerNow, scan)
      /\ Told(Listening, scan) /\ Listening \in [Sock -> SockRecord]
  BY ListeningGood, ListeningTold DEF OwnerInv, Good
<1>1. CASE WebIdle
  BY <1>0, <1>1 DEF WebIdle
<1>2. CASE WebServes
  <2>. DEFINE s == Max(Ready)
  <2>1. PICK r \in Request, left \in 0 .. chip[s].data - 1 :
           LET c == Put(Listening, s, [Listening[s] EXCEPT !.data = left])
           IN  /\ chip' = After(r, c)[1] /\ scan' = After(r, c)[2]
               /\ server' = ServerAfter(r, c, ServerNow)
    BY <1>2 DEF WebServes
  <2>. DEFINE rec == [Listening[s] EXCEPT !.data = left]
              c   == Put(Listening, s, rec)
  <2>2. ASSUME s \in Sock
        PROVE  /\ rec \in SockRecord /\ rec.status = Listening[s].status
               /\ rec.host = Listening[s].host /\ rec.port = Listening[s].port
    <3>1. Listening[s] \in SockRecord /\ chip[s] \in SockRecord
      BY <1>0, <2>2 DEF Good
    <3>2. left \in 0 .. MaxData
      BY <3>1, SockAssumption DEF SockRecord
    <3>. QED BY <3>1, <3>2 DEF SockRecord
  <2>. HIDE DEF s
  <2>3. Good(c, ServerNow, scan)
    <3>1. s \in Sock => /\ rec \in SockRecord
                        /\ IsOpen(rec) => IsOpen(Listening[s])
                        /\ s \in Udp => rec.status = "udp"
      BY <1>0, <2>2 DEF Good, IsOpen
    <3>. HIDE DEF rec
    <3>. QED BY <1>0, <3>1, PutGood
  <2>4. Told(c, scan)
    <3>1. s \in Sock /\ rec.status \in Trying /\ rec.status # "syn" => rec.port \in Open(rec.host)
      BY <1>0, <2>2 DEF Told, Trying
    <3>. HIDE DEF rec
    <3>. QED BY <1>0, <2>2, <3>1, PutTold
  <2>. QED BY <2>1, <2>3, <2>4, RequestTold
<1>. QED BY <1>1, <1>2 DEF WebTick

\* Stepping to the next port or host changes nothing in the report.
LEMMA NextHonest ==
  ASSUME NEW sc \in ScanRecord, HonestScan(sc)
  PROVE  HonestScan(NextHost(sc)) /\ HonestScan(NextPort(sc))
BY DEF HonestScan, NextHost, NextPort, ScanRecord

LEMMA ScanTold ==
  ASSUME OwnerInv, ScanTick, Told(chip, scan)
  PROVE  Told(chip', scan')
<1>0. Good(chip, server, scan) /\ scan \in ScanRecord /\ chip \in [Sock -> SockRecord]
  BY DEF OwnerInv, Good
<1>1. CASE UNCHANGED <<chip, scan>>
  BY <1>1
<1>2. ASSUME scan.sock = None, NEW to \in ScanRecord, HonestScan(to), to.sock = None
      PROVE  Told(chip, to)
  <2>1. \A s \in Sock : chip[s].status \notin Trying
    BY <1>2, NoneIsNoSock DEF Told
  <2>. QED BY <1>2, <2>1, NoneIsNoSock DEF Told, Trying
<1>3. ASSUME ScanOpens, Taken(chip) # None
      PROVE  Told(chip', scan')
  <2>. DEFINE s   == Taken(chip)
              rec == [Sk("syn") EXCEPT !.host = scan.host, !.port = scan.port]
  <2>1. /\ chip' = Put(chip, s, rec) /\ scan.sock = None
        /\ scan' = [scan EXCEPT !.sock = s, !.late = FALSE]
    BY <1>3 DEF ScanOpens
  <2>2. s \in Sock
    BY <1>3, TakenIsFree
  <2>3. rec \in SockRecord /\ rec.status = "syn" /\ rec.host = scan.host /\ rec.port = scan.port
    <3>1. Sk("syn") \in SockRecord /\ Sk("syn").status = "syn"
      BY SkType DEF Status
    <3>2. scan.host \in 0 .. NHost /\ scan.port \in Port
      BY <1>0, SockAssumption DEF ScanRecord, Host
    <3>. QED BY <3>1, <3>2 DEF SockRecord
  <2>4. /\ scan'.sock = s /\ scan'.host = scan.host /\ scan'.port = scan.port
        /\ scan'.alive = scan.alive /\ scan'.found = scan.found
    BY <1>0, <2>1 DEF ScanRecord
  <2>. HIDE DEF s, rec
  <2>5. \A i \in Sock : chip'[i] = IF i = s THEN rec ELSE chip[i]
    BY <1>0, <2>1, <2>3, PutFacts
  <2>6. \A i \in Sock : chip[i].status \notin Trying
    BY <2>1, NoneIsNoSock DEF Told
  <2>7. HonestScan(scan')
    BY <2>4 DEF HonestScan, Told
  <2>. QED BY <2>3, <2>4, <2>5, <2>6, <2>7 DEF Told, Trying
<1>4. CASE ScanSkips
  <2>1. scan' = NextHost(scan) /\ scan.sock = None /\ UNCHANGED chip
    BY <1>4 DEF ScanSkips
  <2>2. scan' \in ScanRecord /\ scan'.sock = None /\ HonestScan(scan')
    BY <1>0, <2>1, NextRecord, NextHonest DEF Told
  <2>. QED BY <1>2, <2>1, <2>2
<1>5. ASSUME NEW sc \in ScanRecord, HonestScan(sc), Release(sc)
      PROVE  Told(chip', scan')
  <2>1. chip' = Closed(chip, scan.sock) /\ scan' = [sc EXCEPT !.sock = None]
    BY <1>5 DEF Release
  <2>2. scan'.sock = None /\ scan'.alive = sc.alive /\ scan'.found = sc.found
    BY <2>1 DEF ScanRecord
  <2>3. HonestScan(scan')
    BY <1>5, <2>2 DEF HonestScan
  <2>. QED BY <1>0, <2>1, <2>2, <2>3, ReleasedTold
<1>6. CASE ScanLooks
  <2>. DEFINE st   == chip[scan.sock].status
              up   == [scan EXCEPT !.alive = scan.alive \cup {scan.host}]
              open == [up EXCEPT !.found[scan.host] = up.found[scan.host] \cup {scan.port}]
  <2>1. scan.sock \in Sock /\ HonestScan(scan)
    BY <1>0, <1>6 DEF ScanLooks, ScanRecord, Told
  <2>2. ASSUME st # "syn" PROVE up \in ScanRecord /\ HonestScan(up)
    <3>1. scan.host \in Alive
      BY <2>1, <2>2 DEF Told
    <3>2. up.alive = scan.alive \cup {scan.host} /\ up.found = scan.found
      BY <1>0 DEF ScanRecord
    <3>3. up \in ScanRecord
      BY <1>0 DEF ScanRecord
    <3>. QED BY <2>1, <3>1, <3>2, <3>3 DEF HonestScan
  <2>3. ASSUME st \in {"up", "half"} PROVE open \in ScanRecord /\ HonestScan(open)
    <3>1. scan.port \in Open(scan.host)
      BY <2>1, <2>3 DEF Told, Trying
    <3>2. up \in ScanRecord /\ HonestScan(up) /\ up.found = scan.found
      BY <1>0, <2>2, <2>3 DEF ScanRecord
    <3>3. open \in ScanRecord
      BY <1>0 DEF ScanRecord
    <3>4. /\ open.alive = up.alive
          /\ \A h \in Host : open.found[h] = IF h = scan.host THEN up.found[h] \cup {scan.port}
                                                             ELSE up.found[h]
      BY <1>0, <3>2 DEF ScanRecord
    <3>. QED BY <3>1, <3>2, <3>3, <3>4 DEF HonestScan
  <2>4. \/ UNCHANGED <<chip, scan>>
        \/ st \in {"up", "half"} /\ Release(NextPort(open))
        \/ st # "syn" /\ Release(NextPort(up))
        \/ Release(NextHost(scan)) \/ Release(NextPort(scan))
    BY <1>6 DEF ScanLooks, Silent
  <2>. HIDE DEF st, up, open
  <2>5. CASE st \in {"up", "half"} /\ Release(NextPort(open))
    BY <1>5, <2>3, <2>5, NextRecord, NextHonest
  <2>6. CASE st # "syn" /\ Release(NextPort(up))
    BY <1>5, <2>2, <2>6, NextRecord, NextHonest
  <2>7. CASE Release(NextHost(scan)) \/ Release(NextPort(scan))
    BY <1>0, <1>5, <2>1, <2>7, NextRecord, NextHonest
  <2>. QED BY <1>1, <2>4, <2>5, <2>6, <2>7
<1>. QED BY <1>1, <1>3, <1>4, <1>6 DEF ScanTick, ScanOpens

\* Unless somebody connects or a SYN is given up on, the network only answers.
LEMMA NetTold ==
  ASSUME OwnerInv, NEW s \in Sock, Net(s), quiet', Told(chip, scan)
  PROVE  Told(chip', scan')
<1>0. chip \in [Sock -> SockRecord] /\ chip[s] \in SockRecord
  BY DEF OwnerInv, Good
<1>1. ASSUME NEW r \in SockRecord, Turns(s, r),
             r.status \in Trying => /\ chip[s].status \in Trying
                                    /\ r.host = chip[s].host /\ r.port = chip[s].port
                                    /\ r.status # "syn" => r.port \in Open(r.host),
             r.status # "syn" /\ chip[s].status = "syn" => chip[s].host \in Alive
      PROVE  Told(chip', scan')
  <2>1. Told(Put(chip, s, r), scan)
    BY <1>0, <1>1, PutTold
  <2>. QED BY <1>1, <2>1 DEF Turns
<1>2. Sk("closed") \in SockRecord /\ Sk("closed").status \notin Trying
  BY SkType DEF Status, Trying
<1>3. CASE Sends(s)
  <2>1. [chip[s] EXCEPT !.data = chip[s].data + 1] \in SockRecord
    BY <1>0, <1>3, SockAssumption DEF Sends, SockRecord
  <2>2. chip[s].port \in Open(chip[s].host)
    BY <1>3 DEF Sends, Told
  <2>. QED BY <1>0, <1>1, <1>3, <2>1, <2>2 DEF Sends, SockRecord, Trying
<1>4. CASE Fin(s)
  <2>1. [chip[s] EXCEPT !.status = "half"] \in SockRecord
    BY <1>0 DEF SockRecord, Status
  <2>2. chip[s].port \in Open(chip[s].host)
    BY <1>4 DEF Fin, Told
  <2>. QED BY <1>0, <1>1, <1>4, <2>1, <2>2 DEF Fin, SockRecord, Trying
<1>5. CASE Reset(s) \/ Ends(s)
  BY <1>1, <1>2, <1>5 DEF Reset, Ends
<1>6. CASE Answers(s)
  <2>1. [chip[s] EXCEPT !.status = "up"] \in SockRecord
    BY <1>0 DEF SockRecord, Status
  <2>2. CASE chip[s].port \in Open(chip[s].host)
    BY <1>0, <1>1, <1>6, <2>1, <2>2 DEF Answers, SockRecord, Trying
  <2>3. CASE chip[s].port \notin Open(chip[s].host)
    BY <1>1, <1>2, <1>6, <2>3 DEF Answers
  <2>. QED BY <2>2, <2>3
<1>. QED BY <1>3, <1>4, <1>5, <1>6 DEF Net, Connect, GivesUp

ToldInv == quiet => Told(chip, scan)

LEMMA ToldInit == Init => ToldInv
<1>. SUFFICES ASSUME Init PROVE Told(chip, scan)
  BY DEF ToldInv
<1>1. \A s \in Sock : chip[s] \in {Sk("udp"), Sk("listen"), Sk("closed")}
  BY DEF Init
<1>2. \A s \in Sock : chip[s].status \notin Trying
  BY <1>1, SkType DEF Status, Trying
<1>3. scan.sock = None /\ HonestScan(scan)
  BY DEF Init, Idle, HonestScan
<1>. QED BY <1>2, <1>3, NoneIsNoSock DEF Told, Trying

LEMMA ToldStep == OwnerInv /\ ToldInv /\ [Next]_vars => ToldInv'
<1>. SUFFICES ASSUME OwnerInv, ToldInv, [Next]_vars, quiet' PROVE Told(chip', scan')
  BY DEF ToldInv, Told, HonestScan
<1>0. Good(chip, server, scan)
  BY DEF OwnerInv
<1>1. CASE Loop /\ UNCHANGED quiet
  <2>0. Told(chip, scan)
    BY <1>1 DEF ToldInv
  <2>1. CASE WebTick
    BY <2>0, <2>1, WebTold
  <2>2. CASE SerialTick
    BY <1>0, <2>0, <2>2, RequestTold DEF SerialTick
  <2>3. CASE DiscoveryTick
    <3>1. PICK r \in {"probe", "other"} : chip' = After(r, chip)[1]
      BY <2>3 DEF DiscoveryTick
    <3>2. r \in Request /\ scan' = After(r, chip)[2]
      BY <2>3 DEF DiscoveryTick, Request, After
    <3>. QED BY <1>0, <2>0, <3>1, <3>2, RequestTold
  <2>4. CASE ScanTick
    BY <2>0, <2>4, ScanTold
  <2>. QED BY <1>1, <2>1, <2>2, <2>3, <2>4 DEF Loop
<1>2. CASE ScanLate
  <2>1. scan' = [scan EXCEPT !.late = TRUE] /\ UNCHANGED <<chip, quiet>>
    BY <1>2 DEF ScanLate
  <2>2. /\ scan'.sock = scan.sock /\ scan'.host = scan.host /\ scan'.port = scan.port
        /\ scan'.alive = scan.alive /\ scan'.found = scan.found
    BY <1>0, <2>1 DEF Good, ScanRecord
  <2>3. Told(chip, scan)
    BY <2>1 DEF ToldInv
  <2>. QED BY <2>1, <2>2, <2>3 DEF Told, HonestScan
<1>3. ASSUME NEW s \in Sock, Net(s) PROVE Told(chip', scan')
  <2>1. quiet
    BY <1>3 DEF Net, Connect, GivesUp, Turns
  <2>. QED BY <1>3, <2>1, NetTold DEF ToldInv
<1>4. CASE UNCHANGED vars
  BY <1>4 DEF vars, ToldInv, Told, HonestScan
<1>. QED BY <1>1, <1>2, <1>3, <1>4 DEF Next

\* What a scan reports is what its hosts answered, whatever the web server and the
\* probes do with the scanner's socket after the chip has closed it - as long as
\* nobody connects to it, and loop() is in time to see an answer.
THEOREM QuietScanIsTrue == Spec => []QuietReportTrue
<1>1. ToldInv => QuietReportTrue
  BY DEF ToldInv, Told, HonestScan, QuietReportTrue, ReportMatches
<1>. QED BY <1>1, OwnerInvariant, ToldInit, ToldStep, PTL DEF Spec
=============================================================================
