----------------------------- MODULE SerialLink -----------------------------
(***************************************************************************)
(* The USB configuration link (src/serialConfig.cpp): bytes are gathered   *)
(* into lines, a line that carries the prefix is a command, and a command  *)
(* is run by the handler the web server would run, with the transport      *)
(* swapped for the time of the call (src/api.cpp).  Other lines on the     *)
(* same wire are a person's or a program's and are passed over.            *)
(***************************************************************************)
EXTENDS Integers, Sequences

CONSTANTS
  Script,     \* what the PC sends: a sequence of [what, size], size without the line's end
  LineMax,    \* MAX_LINE
  TickMax,    \* MAX_BYTES_PER_TICK
  RxMax       \* bytes the UART's receive buffer holds

\* What a line may be: "noise", "garbled" (prefix, no JSON), "hello", "route" (a
\* path there is), "stray" (one there is not), "other" (an unknown command).
Kind == {"noise", "garbled", "hello", "route", "stray", "other"}
Lines == /\ {LineMax, TickMax, RxMax} \subseteq Nat \ {0}
         /\ Script \in Seq([what : Kind, size : Nat \ {0}])

VARIABLES
  typed,      \* <<line, byte>> next to be sent
  rx,         \* the UART's receive buffer
  lineBuf, overflowed,
  budget,     \* what is left of this tick's bytes; -1 between ticks
  transport,  \* apiTransport: "web" or "serial"
  replies,    \* lines answered: [line, how]
  lost        \* history: a byte found the receive buffer full

vars == <<typed, rx, lineBuf, overflowed, budget, transport, replies, lost>>

\* A byte is <<line, place>>; the place after the last is the line's end.
EndOf(c) == c[2] > Script[c[1]].size
Type ==
  /\ typed[1] <= Len(Script)
  /\ IF Len(rx) < RxMax THEN rx' = Append(rx, typed) /\ UNCHANGED lost
     ELSE lost' = TRUE /\ UNCHANGED rx
  /\ typed' = IF EndOf(typed) THEN <<typed[1] + 1, 1>> ELSE <<typed[1], typed[2] + 1>>
  /\ UNCHANGED <<lineBuf, overflowed, budget, transport, replies>>
-----------------------------------------------------------------------------
(* serialConfigTick *)

\* The handler that the last command called has not returned yet.
Running == replies # <<>> /\ replies[Len(replies)].how = "running"

TickBegin == /\ budget = -1 /\ rx # <<>> /\ ~Running /\ budget' = TickMax
             /\ UNCHANGED <<typed, rx, lineBuf, overflowed, transport, replies, lost>>

TickEnd == /\ budget # -1 /\ ~Running /\ (rx = <<>> \/ budget = 0) /\ budget' = -1
           /\ UNCHANGED <<typed, rx, lineBuf, overflowed, transport, replies, lost>>

Reads == budget > 0 /\ rx # <<>> /\ ~Running
Rest  == rx' = Tail(rx) /\ budget' = budget - 1

\* An ordinary byte; one that does not fit is dropped, up to the end of the line.
Gather ==
  /\ Reads /\ ~EndOf(Head(rx)) /\ Rest
  /\ IF Len(lineBuf) >= LineMax THEN overflowed' = TRUE /\ UNCHANGED lineBuf
     ELSE lineBuf' = Append(lineBuf, Head(rx)) /\ UNCHANGED overflowed
  /\ UNCHANGED <<typed, transport, replies, lost>>

\* Which command a line is taken for: the one whose prefix it begins with.
Command(l) == Script[l[1][1]].what
Addressed(l) == l[1][2] = 1 /\ Command(l) # "noise"

Reply(l, how) == replies' = Append(replies, [line |-> l, how |-> how])

\* Mutant: the buffer of a line that was too long is not emptied.
ClearedIfWhole == IF overflowed THEN lineBuf ELSE <<>>
Cleared        == <<>>

\* Mutant: a line that was cut off is run all the same.
CutOffNever == FALSE
CutOff == overflowed

LineEnd ==
  /\ Reads /\ EndOf(Head(rx)) /\ Rest
  /\ lineBuf' = Cleared /\ overflowed' = FALSE
  /\ IF lineBuf = <<>> \/ ~Addressed(lineBuf) THEN UNCHANGED <<transport, replies>>
     ELSE IF CutOff THEN Reply(lineBuf, "too long") /\ UNCHANGED transport
     ELSE IF Command(lineBuf) = "route" THEN transport' = "serial" /\ Reply(lineBuf, "running")
     ELSE Reply(lineBuf, Command(lineBuf)) /\ UNCHANGED transport
  /\ UNCHANGED <<typed, lost>>

\* Mutant: the web transport is put back only when the handler answered.
RestoredIfAnswered(answered) == IF answered THEN "web" ELSE "serial"
Restored(answered) == "web"

\* The handler returns, after up to seconds, with an answer or (it should not
\* happen) without one; either way there is one reply.
HandlerReturns(answered) ==
  /\ Running /\ transport' = Restored(answered)
  /\ replies' = [replies EXCEPT ![Len(replies)].how =
                   IF answered THEN "done" ELSE "no answer"]
  /\ UNCHANGED <<typed, rx, lineBuf, overflowed, budget, lost>>

Init == /\ typed = <<1, 1>> /\ rx = <<>> /\ lineBuf = <<>> /\ overflowed = FALSE /\ budget = -1
        /\ transport = "web" /\ replies = <<>> /\ lost = FALSE

\* One step of loop().
Work == TickBegin \/ TickEnd \/ Gather \/ LineEnd \/ \E answered \in BOOLEAN : HandlerReturns(answered)
Next == Type \/ Work

FairSpec == Init /\ [][Next]_vars /\ WF_vars(Work) /\ WF_vars(Type)
-----------------------------------------------------------------------------
(* Properties *)

Whole(l) == Len(l) = Script[l[1][1]].size /\ \A i \in DOMAIN l : l[i] = <<l[1][1], i>>

\* A command is run only as the PC sent it: never with a piece missing, and never
\* the tail of a line that was too long.
OnlyWholeLinesRun ==
  ~lost => \A i \in DOMAIN replies : replies[i].how # "too long" => Whole(replies[i].line)

\* Unless bytes were lost, the PC gets one reply to each command, in order, and
\* none to anything else; and in the end it has them all.
Answers == { i \in DOMAIN Script : Script[i].what # "noise" }
OneReplyEach ==
  ~lost => \A i, j \in DOMAIN replies : i < j => replies[i].line[1][1] < replies[j].line[1][1]
Answered    == lost \/ { replies[i].line[1][1] : i \in DOMAIN replies } = Answers
AllAnswered == <>[]Answered

\* When no command runs, answers go to the web server's client again.
WebServerServed == ~Running => transport = "web"

\* Does not hold: bytes that arrive while loop() is busy elsewhere find the
\* receive buffer full, and two lines may be run into one.
NeverMixed == \A i \in DOMAIN replies : replies[i].how # "too long" => Whole(replies[i].line)
=============================================================================
