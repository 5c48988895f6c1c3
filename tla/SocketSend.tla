----------------------------- MODULE SocketSend -----------------------------
(***************************************************************************)
(* How an answer leaves the unit: webServer.send and serveIndex, the       *)
(* client's write() and the chip's transmit ring behind socketSend.  Bytes *)
(* of the answer are numbered; the ring holds the numbers, so that a byte  *)
(* overwritten, sent twice or left out shows in what the browser received. *)
(***************************************************************************)
EXTENDS Integers, Sequences

CONSTANTS
  SSIZE,    \* bytes of a socket's transmit buffer in the chip
  Pointers, \* the chip's pointers count modulo this (2^16)
  Chunk,    \* serveIndex sends so many bytes at once
  Lists,    \* sizes of answers sent by one write
  Pages     \* sizes of pages sent in chunks

Buffers == /\ {SSIZE, Pointers, Chunk} \subseteq Nat \ {0}
           /\ Pointers % SSIZE = 0 /\ Pointers > SSIZE /\ Chunk <= SSIZE
           /\ Lists \union Pages \subseteq Nat

VARIABLES
  job,      \* [kind, size]: the answer, with size as its Content-Length
  at,       \* where the handler is: "write", "room", "sending", "over"
  off,      \* bytes the handler has handed to write()
  asked,    \* length of the write() in progress
  ring, wr, rd, \* transmit ring, Sn_TX_WR, Sn_TX_RD
  sr,       \* Sn_SR: "established", "close_wait", "closing", "closed"
  received, \* bytes the browser took
  cut       \* the connection broke, or the browser did not wait

chip   == <<ring, wr, rd>>
server == <<at, off, asked>>
vars   == <<job, server, chip, sr, received, cut>>

Least(a, b) == IF a < b THEN a ELSE b
Waiting == (wr - rd + Pointers) % Pointers
\* getSnTX_FSR
Free == SSIZE - Waiting
\* What socketSend sends of a write() of n bytes.
Sendable(n) == Least(n, SSIZE)

Init ==
  /\ job \in [kind : {"list"}, size : Lists] \union [kind : {"page"}, size : Pages]
  /\ at = "write" /\ off = 0 /\ asked = 0
  /\ ring = [i \in 0 .. SSIZE - 1 |-> 0]
  /\ wr \in {0, Pointers - 1} /\ rd = wr
  /\ sr = "established" /\ received = <<>> /\ cut = FALSE
-----------------------------------------------------------------------------
(* The server *)

\* sendContent writes all at once, serveIndex the next chunk.
Write ==
  /\ at = "write" /\ off < job.size
  /\ asked' = IF job.kind = "list" THEN job.size ELSE Least(Chunk, job.size - off)
  /\ at' = "room"
  /\ UNCHANGED <<job, off, chip, sr, received, cut>>

\* Mutant: does not wait until there is room for all of it.
RoomForSome == Free > 0
RoomForAll  == Free >= Sendable(asked)

\* write_data: n numbered bytes from the write pointer on, round the ring.
Filled(n) ==
  [i \in 0 .. SSIZE - 1 |->
     LET j == (i - wr + Pointers) % SSIZE IN IF j < n THEN off + 1 + j ELSE ring[i]]

Room ==
  /\ at = "room" /\ sr # "closed" /\ RoomForAll
  /\ ring' = Filled(Sendable(asked)) /\ wr' = (wr + Sendable(asked)) % Pointers
  /\ at' = "sending"
  /\ UNCHANGED <<job, off, asked, rd, sr, received, cut>>

\* Connection lost: socketSend returns 0, the list's sender does not look at it, serveIndex breaks.
NoRoom ==
  /\ at \in {"room", "sending"} /\ sr = "closed"
  /\ at' = "over"
  /\ UNCHANGED <<job, off, asked, chip, sr, received, cut>>

\* SEND_OK; write() returns the length it was asked for, whatever was sent of it.
Sent ==
  /\ at = "sending" /\ sr # "closed"
  /\ off' = off + asked /\ at' = "write"
  /\ UNCHANGED <<job, asked, chip, sr, received, cut>>

\* handleClient forgets the client and stops nothing: it is the browser that closes.
Answered ==
  /\ at = "write" /\ off >= job.size
  /\ at' = "over"
  /\ UNCHANGED <<job, off, asked, chip, sr, received, cut>>

\* EthernetServer::available, of a later pass: socketDisconnect, after which the chip
\* sends what is left.
Disconnect ==
  /\ at = "over" /\ sr = "close_wait"
  /\ sr' = "closing"
  /\ UNCHANGED <<job, server, chip, received, cut>>
-----------------------------------------------------------------------------
(* The browser *)

Takes ==
  /\ Waiting > 0 /\ sr # "closed"
  /\ received' = Append(received, ring[rd % SSIZE]) /\ rd' = (rd + 1) % Pointers
  /\ UNCHANGED <<job, server, ring, wr, sr, cut>>

\* The browser has all that Content-Length announced, or asks no more from the start.
HalfCloses ==
  /\ sr = "established" /\ Len(received) \in {0, job.size}
  /\ sr' = "close_wait"
  /\ UNCHANGED <<job, server, chip, received, cut>>

GoesAway ==
  /\ sr \in {"established", "close_wait"} /\ sr' = "closed" /\ cut' = TRUE
  /\ UNCHANGED <<job, server, chip, received>>

\* The chip's end of it.
Closed ==
  /\ sr = "closing" /\ Waiting = 0
  /\ sr' = "closed"
  /\ UNCHANGED <<job, server, chip, received, cut>>

Next ==
  \/ Write \/ Room \/ NoRoom \/ Sent \/ Answered \/ Disconnect
  \/ Takes \/ HalfCloses \/ GoesAway \/ Closed

\* loop() goes on; a browser takes what it was sent, or its connection ends.
Serving == Write \/ Room \/ NoRoom \/ Sent \/ Answered \/ Disconnect
Spec == Init /\ [][Next]_vars /\ WF_vars(Serving) /\ WF_vars(Takes \/ GoesAway)
-----------------------------------------------------------------------------
TypeOK ==
  /\ off \in Nat /\ asked \in Nat /\ cut \in BOOLEAN
  /\ wr \in 0 .. Pointers - 1 /\ rd \in 0 .. Pointers - 1
  /\ at \in {"write", "room", "sending", "over"}
  /\ sr \in {"established", "close_wait", "closing", "closed"}

\* The browser gets the bytes of the answer in their order, none lost between.
InOrder == \A i \in DOMAIN received : received[i] = i

\* The handler has done its part, and the browser has taken all it was sent.
AllTaken == at = "over" /\ Waiting = 0 /\ ~cut

\* A page, or a list that fits the chip's buffer, comes whole to a browser that waits for it.
AnswerWhole == AllTaken /\ (job.kind = "page" \/ job.size <= SSIZE) => Len(received) = job.size

\* Does not hold: the list of nodes comes whole, "~6.4 KB which fits comfortably" (api.cpp:272).
\* socketSend sends one buffer's worth of it, write() says that was all, and the browser
\* waits for the rest on a connection that nobody closes.
ListComesWhole == AllTaken /\ job.kind = "list" => Len(received) = job.size

\* The handler comes to an end with every answer.
AnswerOver == at = "over"
AnswerEnds == <>AnswerOver
=============================================================================
