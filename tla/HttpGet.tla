------------------------------ MODULE HttpGet ------------------------------
(***************************************************************************)
(* httpGet in src/discovery.cpp: the HTTP/1.0 request with which a node is *)
(* identified, for the discovery sweep and for the page.  The header is    *)
(* skipped byte by byte up to the empty line, the body is kept as far as   *)
(* the buffer goes, and the time for both is limited, but looked at only   *)
(* when no byte is there to be read.  The node sends its answer when it    *)
(* likes and closes the connection after it, or before.                    *)
(***************************************************************************)
EXTENDS Integers, Sequences, SequencesExt

CONSTANTS
  Bodies,   \* bodies a node may send, sequences of bytes ("r", "n" and others)
  MaxLines, \* most lines before the empty one
  OutCap,   \* size of the buffer, its final zero included
  Timeout,  \* IDENTIFY_TIMEOUT_MS
  YieldMax, \* longest yield()
  ReadMax   \* longest read of a byte

Limits == /\ {MaxLines, OutCap, Timeout, YieldMax} \subseteq Nat \ {0} /\ ReadMax \in Nat
          /\ \A b \in Bodies : b \in Seq({"r", "n", "b"})

VARIABLES
  answer,    \* [lines, body]: what the node sends if it sends everything
  arrived, got,  \* bytes that came, bytes that were read
  connected, \* the node has not closed
  stage,     \* "connect", "header", "body", "done"
  idle,      \* the inner loop, while (client.available()), is over
  crlf, out,
  clock, deadline, \* millis(); this model stays away from its wrap
  result,    \* what httpGet returns
  unwatched  \* history: time of the reads since the deadline was looked at

wire == <<answer, arrived, connected>>
vars == <<wire, got, stage, idle, crlf, out, clock, deadline, result, unwatched>>

HeadOf(n) == FlattenSeq([i \in 1 .. n |-> <<"x", "r", "n">>]) \o <<"r", "n">>
Stream    == HeadOf(answer.lines) \o answer.body
Byte      == Stream[got + 1]
Available == got < arrived
-----------------------------------------------------------------------------
(* The node *)

Arrive == /\ stage \in {"header", "body"} /\ connected /\ arrived < Len(Stream)
          /\ arrived' = arrived + 1
          /\ UNCHANGED <<answer, connected, got, stage, idle, crlf, out, clock, deadline, result, unwatched>>

Close == /\ stage \in {"header", "body"} /\ connected' = FALSE /\ connected
         /\ UNCHANGED <<answer, arrived, got, stage, idle, crlf, out, clock, deadline, result, unwatched>>
-----------------------------------------------------------------------------
(* httpGet *)

Return(n) == stage' = "done" /\ result' = n

\* The connection, which takes up to the time the client was given.
Connect(d) ==
  /\ stage = "connect" /\ clock' = clock + d
  /\ IF d = Timeout THEN Return(-1) /\ UNCHANGED deadline
     ELSE stage' = "header" /\ deadline' = clock' + Timeout /\ UNCHANGED result
  /\ UNCHANGED <<wire, got, idle, crlf, out, unwatched>>

\* Mutant: after the end of a line the next byte is not looked at.
StepNoReset(c) ==
  CASE crlf = 0 -> IF c = "r" THEN 1 ELSE 0
    [] crlf = 1 -> IF c = "n" THEN 2 ELSE IF c = "r" THEN 1 ELSE 0
    [] crlf = 2 -> IF c = "r" THEN 3 ELSE 2
    [] OTHER    -> IF c = "n" THEN 4 ELSE 0

Step(c) ==
  CASE crlf = 0 -> IF c = "r" THEN 1 ELSE 0
    [] crlf = 1 -> IF c = "n" THEN 2 ELSE IF c = "r" THEN 1 ELSE 0
    [] crlf = 2 -> IF c = "r" THEN 3 ELSE 0
    [] OTHER    -> IF c = "n" THEN 4 ELSE 0

\* Mutant: the body has its own time.
DeadlineAnew == IF Step(Byte) = 4 THEN clock + Timeout ELSE deadline
DeadlineKept == deadline

\* Mutant: a closed connection is given up with what has not been read yet.
OverAtClose == ~connected
Over        == ~connected /\ ~Available
Late == clock >= deadline
Full == Len(out) >= OutCap - 1

Reads(d) == ~idle /\ Available /\ got' = got + 1 /\ clock' = clock + d

\* The byte that ends the header leaves both loops, and the body's begins with a look at the time.
ReadHeader(d) ==
  /\ stage = "header" /\ Reads(d)
  /\ crlf' = Step(Byte) /\ deadline' = DeadlineKept
  /\ IF crlf' = 4 /\ (Full \/ clock' >= deadline') THEN Return(0)
     ELSE stage' = (IF crlf' = 4 THEN "body" ELSE "header") /\ UNCHANGED result
  /\ unwatched' = IF stage' = "body" THEN 0 ELSE unwatched + d
  /\ UNCHANGED <<wire, idle, out>>

ReadBody(d) ==
  /\ stage = "body" /\ ~Full /\ Reads(d)
  /\ out' = Append(out, Byte) /\ unwatched' = unwatched + d
  /\ UNCHANGED <<wire, stage, idle, crlf, deadline, result>>

\* Nothing is there, or no room: the connection is asked next, and more may come before.
NoneLeft ==
  /\ stage \in {"header", "body"} /\ ~idle /\ (~Available \/ (stage = "body" /\ Full))
  /\ idle' = TRUE
  /\ UNCHANGED <<wire, got, stage, crlf, out, clock, deadline, result, unwatched>>

Result == IF stage = "header" THEN -1 ELSE Len(out)

Closed ==
  /\ stage \in {"header", "body"} /\ idle /\ Over
  /\ Return(Result)
  /\ UNCHANGED <<wire, got, idle, crlf, out, clock, deadline, unwatched>>

\* yield(), and the outer loop's condition.
Yield(d) ==
  /\ stage \in {"header", "body"} /\ idle /\ ~Over
  /\ clock' = clock + d
  /\ IF clock' >= deadline \/ (stage = "body" /\ Full)
     THEN Return(Result) /\ UNCHANGED <<idle, unwatched>>
     ELSE idle' = FALSE /\ unwatched' = 0 /\ UNCHANGED <<stage, result>>
  /\ UNCHANGED <<wire, got, crlf, out, deadline>>

Returned == stage = "done" /\ UNCHANGED vars

Init == /\ answer \in [lines : 1 .. MaxLines, body : Bodies] /\ arrived = 0 /\ connected = TRUE
        /\ got = 0 /\ stage = "connect" /\ idle = FALSE /\ crlf = 0 /\ out = <<>>
        /\ clock = 0 /\ deadline = 0 /\ result = -1 /\ unwatched = 0

Next == \/ Arrive \/ Close \/ NoneLeft \/ Closed \/ Returned
        \/ \E d \in 0 .. ReadMax : ReadHeader(d) \/ ReadBody(d)
        \/ \E d \in 0 .. Timeout : Connect(d)
        \/ \E d \in 1 .. YieldMax : Yield(d)

Spec == Init /\ [][Next]_vars
-----------------------------------------------------------------------------
(* Properties *)

\* What is returned begins where the body does, and is it, unless the buffer was
\* too small, the node was late or it closed early; never a byte of the header.
BodyReturned ==
  (stage = "done" /\ result >= 0) =>
    /\ IsPrefix(out, answer.body)
    /\ (arrived = Len(Stream) /\ ~Late /\ Len(answer.body) < OutCap) => out = answer.body

\* loop() is kept for no longer than the time to connect and the time to read: a node
\* that stops half-way, or sends a byte now and then, does not extend it.  Bytes that
\* follow one another do, by as long as it takes to read them: nobody looks at the time.
LoopKeptBriefly == clock < 2 * Timeout + YieldMax + unwatched

\* Does not hold: it is not kept for longer by any node.
LoopKeptByNone == clock < 2 * Timeout + YieldMax

\* Does not hold: an answer that was cut off is told from one that is whole.
\* identifyProbe takes it for "not JSON", and the node for another maker's.
CutIsToldApart == (stage = "done" /\ result > 0) => out = answer.body
=============================================================================
