--------------------------- MODULE SocketReceive ---------------------------
(***************************************************************************)
(* The receiving half of a socket: the chip's ring with its own pointer    *)
(* and count, and the driver's copies of both, which it brings up to date  *)
(* only now and then (socket.cpp).  On it a TCP client reads a stream, or  *)
(* EthernetUDP reads datagrams, which the chip puts a header before.       *)
(***************************************************************************)
EXTENDS Integers, Sequences

CONSTANTS
  SSIZE,       \* bytes of a socket's receive buffer in the chip
  Pointers,    \* the chip's pointers count modulo this (2^16)
  Lazy,        \* bytes read before the chip is told (250)
  Header,      \* bytes the chip puts before a datagram (8)
  StreamBytes, \* bytes a TCP peer sends
  Datagrams,   \* sizes of the datagrams a UDP peer sends, in turn
  ReadSizes    \* lengths the application asks for

Buffers == /\ {SSIZE, Pointers, Lazy, Header} \subseteq Nat \ {0} /\ ReadSizes \subseteq Nat \ {0}
           /\ Pointers % SSIZE = 0 /\ Pointers > SSIZE /\ Header < SSIZE
           /\ Datagrams \in Seq(Nat) /\ StreamBytes \in Nat

VARIABLES
  kind,      \* "tcp" or "udp"
  sent,      \* bytes, or datagrams, the peer has sent
  ring, wr, rxRd, rsr, \* the chip: ring, end of what came, Sn_RX_RD, Sn_RX_RSR
  RX_RD, RX_RSR, RX_inc, \* the driver's state[s]
  remaining, \* _remaining: bytes of the datagram not read yet
  parsing,   \* parsePacket is under way
  got,       \* bytes the application was given
  heads      \* headers parsePacket read

chip   == <<ring, wr, rxRd, rsr>>
driver == <<RX_RD, RX_RSR, RX_inc>>
vars   == <<kind, sent, chip, driver, remaining, parsing, got, heads>>

Least(a, b) == IF a < b THEN a ELSE b
\* A byte knows the datagram it is of and its place in it; TCP is datagram 0.
Bytes(d, first, last) == [i \in 1 .. last - first + 1 |-> <<d, first + i - 1>>]
Packet(d) == Bytes(d, 1 - Header, Datagrams[d])
Room == SSIZE - rsr

Init ==
  /\ kind \in {"tcp", "udp"} /\ sent = 0
  /\ ring = [i \in 0 .. SSIZE - 1 |-> <<0, 0>>] /\ wr = 0 /\ rxRd = 0 /\ rsr = 0
  /\ RX_RD = 0 /\ RX_RSR = 0 /\ RX_inc = 0
  /\ remaining = 0 /\ parsing = FALSE /\ got = <<>> /\ heads = <<>>
-----------------------------------------------------------------------------
(* The peer and the chip *)

Put(bytes) ==
  /\ ring' = [i \in 0 .. SSIZE - 1 |->
                LET j == (i - wr + Pointers) % SSIZE IN IF j < Len(bytes) THEN bytes[j + 1] ELSE ring[i]]
  /\ wr' = (wr + Len(bytes)) % Pointers /\ rsr' = rsr + Len(bytes)
  /\ UNCHANGED rxRd

Segment ==
  /\ kind = "tcp"
  /\ \E n \in 1 .. Least(Room, StreamBytes - sent) :
       Put(Bytes(0, sent + 1, sent + n)) /\ sent' = sent + n
  /\ UNCHANGED <<kind, driver, remaining, parsing, got, heads>>

\* What finds no room is dropped.
Datagram ==
  /\ kind = "udp" /\ sent < Len(Datagrams)
  /\ sent' = sent + 1
  /\ IF Header + Datagrams[sent + 1] <= Room THEN Put(Packet(sent + 1)) ELSE UNCHANGED chip
  /\ UNCHANGED <<kind, driver, remaining, parsing, got, heads>>
-----------------------------------------------------------------------------
(* The driver *)

\* Mutant: the chip's count is taken as it is, though it still counts what was read.
PendingRaw == rsr
Pending    == rsr - RX_inc

\* socketRecvAvailable: asks the chip only when nothing is known of.
Available == IF RX_RSR = 0 THEN Pending ELSE RX_RSR
\* What socketRecv(len) knows of, and what it returns (0 or -1 for nothing).
Known(len)   == IF RX_RSR < len THEN Pending ELSE RX_RSR
Recvd(len)   == Least(Known(len), len)
BytesAt(p, n) == [i \in 1 .. n |-> ring[(p + i - 1) % SSIZE]]

\* socketRecv with n > 0 bytes: the chip hears of them when they are Lazy or the last.
Take(n, left) ==
  /\ RX_RD' = (RX_RD + n) % Pointers /\ RX_RSR' = left
  /\ IF RX_inc + n >= Lazy \/ left = 0
     THEN /\ RX_inc' = 0 /\ rxRd' = RX_RD' /\ rsr' = rsr - (RX_inc + n)
     ELSE /\ RX_inc' = RX_inc + n /\ UNCHANGED <<rxRd, rsr>>
  /\ UNCHANGED <<ring, wr>>

\* EthernetClient::read(buf, len), read() with len 1.
ClientRead(len) ==
  /\ kind = "tcp" /\ Recvd(len) > 0
  /\ Take(Recvd(len), Known(len) - Recvd(len))
  /\ got' = got \o BytesAt(RX_RD, Recvd(len))
  /\ UNCHANGED <<kind, sent, remaining, parsing, heads>>

\* EthernetClient::available(), which also peek() asks first.
ClientAvailable ==
  /\ kind = "tcp" /\ RX_RSR = 0
  /\ RX_RSR' = Available
  /\ UNCHANGED <<kind, sent, chip, RX_RD, RX_inc, remaining, parsing, got, heads>>
-----------------------------------------------------------------------------
(* EthernetUDP *)

ParsePacket ==
  /\ kind = "udp" /\ ~parsing
  /\ parsing' = TRUE
  /\ UNCHANGED <<kind, sent, chip, driver, remaining, got, heads>>

\* Mutant: a new packet is looked for behind what was not read of the last.
DiscardNone == FALSE
MustDiscard == remaining > 0

\* while (_remaining) read(NULL, _remaining)
Discard ==
  /\ parsing /\ MustDiscard /\ Recvd(remaining) > 0
  /\ Take(Recvd(remaining), Known(remaining) - Recvd(remaining))
  /\ remaining' = remaining - Recvd(remaining)
  /\ UNCHANGED <<kind, sent, parsing, got, heads>>

\* The header tells the length; one that is none would tell whatever stands there.
LengthIn(byte) == IF byte[1] = 0 THEN 0 ELSE Datagrams[byte[1]]

ReadHead ==
  /\ parsing /\ ~MustDiscard /\ Available > 0
  /\ LET known == IF Available < Header THEN Pending ELSE Available
         n == Least(known, Header)
         head == BytesAt(RX_RD, n)
     IN  /\ Take(n, known - n)
         /\ heads' = Append(heads, head) /\ remaining' = LengthIn(head[1])
  /\ parsing' = FALSE
  /\ UNCHANGED <<kind, sent, got>>

NoPacket ==
  /\ parsing /\ ~MustDiscard /\ Available = 0
  /\ parsing' = FALSE
  /\ UNCHANGED <<kind, sent, chip, driver, remaining, got, heads>>

\* read(buffer, len): of the datagram, as far as it goes.
PacketRead(len) ==
  /\ kind = "udp" /\ ~parsing /\ remaining > 0
  /\ LET n == Recvd(Least(remaining, len))
     IN  /\ n > 0
         /\ Take(n, Known(Least(remaining, len)) - n)
         /\ got' = got \o BytesAt(RX_RD, n) /\ remaining' = remaining - n
  /\ UNCHANGED <<kind, sent, parsing, heads>>

\* begin() on an open socket: it is closed and opened anew, and what waited is gone.
Reopen ==
  /\ kind = "udp" /\ ~parsing /\ (remaining > 0 \/ rsr > 0)
  /\ wr' = 0 /\ rxRd' = 0 /\ rsr' = 0 /\ RX_RD' = 0 /\ RX_RSR' = 0 /\ RX_inc' = 0
  /\ remaining' = 0
  /\ UNCHANGED <<kind, sent, ring, parsing, got, heads>>

Peer == Segment \/ Datagram
Application ==
  \/ ClientAvailable \/ \E len \in ReadSizes : ClientRead(len) \/ PacketRead(len)
  \/ ParsePacket \/ Discard \/ ReadHead \/ NoPacket
Next == Peer \/ Application \/ Reopen

Spec == Init /\ [][Next]_vars /\ WF_vars(Peer)
             /\ WF_vars(\E len \in ReadSizes : ClientRead(len))
             /\ WF_vars(ParsePacket) /\ WF_vars(Discard \/ ReadHead \/ NoPacket)
-----------------------------------------------------------------------------
TypeOK ==
  /\ {wr, rxRd, RX_RD} \subseteq 0 .. Pointers - 1
  /\ rsr \in 0 .. SSIZE /\ RX_RSR \in 0 .. SSIZE /\ RX_inc \in 0 .. Lazy
  /\ remaining \in Nat /\ parsing \in BOOLEAN

\* The driver never knows of more than the chip has, nor the chip thinks free what
\* has not been read.
CountsAgree == /\ RX_inc + RX_RSR <= rsr
               /\ (RX_RD - RX_inc - rxRd) % Pointers = 0

\* A TCP reader gets the peer's bytes in their order, and what peek() shows is the next one.
StreamInOrder ==
  kind = "tcp" => /\ \A i \in DOMAIN got : got[i] = <<0, i>>
                  /\ RX_RSR > 0 => ring[RX_RD % SSIZE] = <<0, Len(got) + 1>>

\* Every header is one: however little the application read of a datagram, the next
\* one begins where it begins, and no byte of one is taken for another's.
HeadersAreHeads ==
  kind = "udp" =>
    /\ \A h \in DOMAIN heads : heads[h] = Bytes(heads[h][1][1], 1 - Header, 0)
    /\ \A i \in 2 .. Len(got) :
         \/ got[i][1] = got[i - 1][1] /\ got[i][2] = got[i - 1][2] + 1
         \/ got[i][1] > got[i - 1][1] /\ got[i][2] = 1

\* A peer that waits for room gets it: all of the stream is read in the end.
AllRead    == kind = "tcp" => Len(got) = StreamBytes
StreamRead == <>AllRead
=============================================================================
