---------------------------- MODULE ProbeQueue ----------------------------
(***************************************************************************)
(* The order in which drainProbeQueue() of src/discovery.cpp serves the    *)
(* table: every pass of loop() probes the first slot that is due, and no   *)
(* other.  A full table, a settled network and a clock that does not wrap  *)
(* are taken for granted; Discovery has the table, the answers and the     *)
(* clock.  What is kept of a slot is the time until its probe is due.      *)
(***************************************************************************)
EXTENDS Integers

CONSTANTS
  QueueCap,       \* entries in the table
  RetryPeriod,    \* until the next probe after one without an answer
  ReprobePeriod,  \* ... and after one with an answer: not shorter
  MaxProbe,       \* longest probe
  MaxPass         \* longest pass of loop(), the probe not counted

\* What the constants must be.
Periods ==
  /\ {QueueCap, RetryPeriod, MaxPass} \subseteq Nat \ {0}
  /\ MaxProbe \in Nat
  /\ ReprobePeriod \in Nat /\ ReprobePeriod >= RetryPeriod

Slot == 1 .. QueueCap

VARIABLES
  wait,    \* slot -> nextProbeMs - millis(), 0 when due
  probed   \* the slot probed in the last pass, 0 for none

vars == <<wait, probed>>

Left(w, t) == IF w > t THEN w - t ELSE 0
Due        == { s \in Slot : wait[s] = 0 }

First(S) == CHOOSE s \in S : \A t \in S : s <= t

\* One pass of t, with no slot due.
Idle(t) ==
  /\ Due = {}
  /\ wait' = [s \in Slot |-> Left(wait[s], t)]
  /\ probed' = 0

\* Mutant: a probe without an answer is not put off.
ProbeAgain(t, d, answered) ==
  /\ Due # {}
  /\ probed' = First(Due)
  /\ wait' = [s \in Slot |->
                IF s = First(Due) THEN Left(IF answered THEN ReprobePeriod ELSE 0, t)
                ELSE Left(wait[s], d + t)]

\* A pass of t with a probe of d, answered or not.
Probe(t, d, answered) ==
  /\ Due # {}
  /\ probed' = First(Due)
  /\ wait' = [s \in Slot |->
                IF s = First(Due) THEN Left(IF answered THEN ReprobePeriod ELSE RetryPeriod, t)
                ELSE Left(wait[s], d + t)]

Pass == \E t \in 1 .. MaxPass :
           Idle(t) \/ \E d \in 0 .. MaxProbe, answered \in BOOLEAN : Probe(t, d, answered)

Init == wait = [s \in Slot |-> 0] /\ probed = 0        \* a table just loaded
Spec == Init /\ [][Pass]_vars /\ WF_vars(Pass)
-----------------------------------------------------------------------------
(* Properties *)

\* The slots that get their turn: in the time it takes to try all those in front, the
\* first of these is not due again.  The 2 * POLL_PERIOD_MS of an entry are counted from
\* the end of its own probe.
InReach(s) == (s - 1) * (MaxProbe + MaxPass) - MaxProbe < RetryPeriod
Served(s)  == probed = s

\* One probe a pass "drains the queue" as far as that: a node whose slot is in reach is
\* probed again and again, whatever the slots before and behind it are doing.
ReachedIsProbed == \A s \in Slot : InReach(s) => []<>Served(s)

\* ... and no node waits for its probe for ever.  Does not hold: when the probes of the
\* slots in front take a retry period, these are due again before the next one's turn.
EveryNodeProbed == \A s \in Slot : []<>Served(s)
===========================================================================
