------------------------------ MODULE Reports ------------------------------
(***************************************************************************)
(* The fixed buffers into which the GET handlers write their answers       *)
(* (src/api.cpp, src/discovery.cpp, src/scanner.cpp).  Text is its length. *)
(* There are two kinds: "checked" handlers look at what snprintf returns   *)
(* and answer 500 when it did not fit; "guarded" ones stop before a row    *)
(* that might not fit and send what they have.                             *)
(***************************************************************************)
EXTENDS Integers

\* Mutant: all lists in buffers of the size of the lease list.
BufferOfLeases == [identify |-> 512, status |-> 896, nodes |-> 1536, tags |-> 1536,
                   leases |-> 1536, monitor |-> 3100, scan |-> 1200]

\* The size of each handler's static buffer.
Buffer == [identify |-> 512, status |-> 896, nodes |-> 8192, tags |-> 2048,
           leases |-> 1536, monitor |-> 3100, scan |-> 1200]

\* What each handler writes: the text before the rows, the largest number of
\* rows, the shortest and the longest row with its comma, the text after them
\* (of the monitor: four timecode senders at their longest), and for the guarded
\* ones the room they leave.
Text ==
  [identify |-> [head |-> 204, rows |-> 1,   row |-> {45, 63},   tail |-> 0, room |-> -1],
   status   |-> [head |-> 382, rows |-> 1,   row |-> {77, 206},  tail |-> 0, room |-> -1],
   nodes    |-> [head |-> 10,  rows |-> 32,  row |-> {168, 270}, tail |-> 2, room |-> -1],
   tags     |-> [head |-> 9,   rows |-> 32,  row |-> {40, 63},   tail |-> 2, room |-> -1],
   leases   |-> [head |-> 26,  rows |-> 32,  row |-> {64, 76},   tail |-> 2, room |-> -1],
   monitor  |-> [head |-> 12,  rows |-> 24,  row |-> {75, 104},
                 tail |-> 14 + 4 * 110 + 2, room |-> 130 + 4 * 110],
   scan     |-> [head |-> 116, rows |-> 254, row |-> {28, 71},   tail |-> 2, room |-> 140]]

VARIABLES at,     \* the handler that runs
          done,   \* rows written
          off,    \* length of the text so far
          reply   \* 0 while it runs, then the status

vars == <<at, done, off, reply>>

E       == Text[at]
Guarded == E.room >= 0

\* Mutant: text of exactly the buffer's size, of which the last byte is cut off.
OverflowsByOne(n) == n > Buffer[at] - off

Overflows(n) == n >= Buffer[at] - off   \* n >= sizeof(json) - off
Stops        == Guarded /\ off > Buffer[at] - E.room

Row(n) ==
  /\ reply = 0 /\ done < E.rows /\ ~Stops
  /\ IF ~Guarded /\ Overflows(n) THEN reply' = 500 /\ UNCHANGED <<done, off>>
     ELSE done' = done + 1 /\ off' = off + n /\ UNCHANGED reply
  /\ UNCHANGED at

Finish ==
  /\ reply = 0
  /\ reply' = IF ~Guarded /\ Overflows(E.tail) THEN 500 ELSE 200
  /\ off' = off + E.tail
  /\ UNCHANGED <<at, done>>

Answered == reply # 0 /\ UNCHANGED vars

Init == at \in DOMAIN Text /\ done = 0 /\ off = E.head /\ reply = 0
Next == (\E n \in E.row : Row(n)) \/ Finish \/ Answered
Spec == Init /\ [][Next]_vars
-----------------------------------------------------------------------------
(* Properties *)

\* An answer that is sent is whole, down to the closing bracket: nothing was
\* cut off at the end of the buffer, whatever the widths of its rows.
SentIsWhole == reply = 200 => off < Buffer[at]

\* The label of every tag, and what a unit says of itself, always fits.
AlwaysShown(ep) == at = ep => reply # 500
TagsShown == \A ep \in {"tags", "identify", "status"} : AlwaysShown(ep)

\* The same of the lists of nodes ("fits comfortably") and of leases.  Does not
\* hold: some thirty nodes with long names, or 21 leases, are one too many.
NodesShown  == AlwaysShown("nodes")
LeasesShown == AlwaysShown("leases")
=============================================================================
