------------------------------ MODULE NodeCalls ------------------------------
(* How the webpage talks to the nodes (data/index.html, embedded in ui.cpp).
   nodeApi chains every request to an address behind the one issued before it
   to that address, because a node's web server accepts one socket at a time;
   the background poller puts one status request per node and tick on those
   chains.  The browser runs one callback at a time; what interleaves is the
   order in which answers, timers and the cleanup callbacks come. *)
EXTENDS Naturals, Sequences, FiniteSets

CONSTANTS
  Nodes,     \* the addresses that are called
  Ticks,     \* ticks of the status poller the model runs, 1 .. the last
  Limit      \* time units until nodeApi aborts the request

VARIABLES
  tail,      \* nodeRequestQueues: per address the last call chained, or None
  prev,      \* per call the call it was chained behind, or None
  stage,     \* per call how far it is
  age,       \* per call the time its timer has run
  issued,    \* per address the calls in the order the page made them
  settled,   \* per address the calls in the order they ended
  tick       \* per tick of the poller how far it is

vars == <<tail, prev, stage, age, issued, settled, tick>>

None == <<>>

TicksOK == Ticks \subseteq Nat \ {0}

\* One status request per tick and node, and one request of the open page (0).
Calls == {<<t, n>> : t \in Ticks \union {0}, n \in Nodes}
AddressOf(c) == c[2]
Ended(c) == stage[c] \in {"answered", "failed"}

Init ==
  /\ tail = [n \in Nodes |-> None]
  /\ prev = [c \in Calls |-> None]
  /\ stage = [c \in Calls |-> "unused"]
  /\ age = [c \in Calls |-> 0]
  /\ issued = [n \in Nodes |-> <<>>]
  /\ settled = [n \in Nodes |-> <<>>]
  /\ tick = [t \in Ticks |-> "unused"]

-----------------------------------------------------------------------------
(* nodeApi *)

\* The calls of the set cs are chained, each at its own address.
Chained(cs) ==
  LET At(n) == {c \in cs : AddressOf(c) = n}
      New(n) == CHOOSE c \in cs : AddressOf(c) = n
  IN  /\ prev' = [c \in Calls |-> IF c \in cs THEN tail[AddressOf(c)] ELSE prev[c]]
      /\ tail' = [n \in Nodes |-> IF At(n) = {} THEN tail[n] ELSE New(n)]
      /\ issued' = [n \in Nodes |-> IF At(n) = {} THEN issued[n] ELSE Append(issued[n], New(n))]
      /\ stage' = [c \in Calls |-> IF c \in cs THEN "chained" ELSE stage[c]]

PageCalls(n) ==
  /\ stage[<<0, n>>] = "unused"
  /\ Chained({<<0, n>>})
  /\ UNCHANGED <<age, settled, tick>>

\* Mutant: a request does not wait for the one before it.
RunsAtOnce(c) == TRUE

\* A call runs when the one before it has ended, well or badly.
MayRun(c) == prev[c] # None => Ended(prev[c])

Exec(c) ==
  /\ stage[c] = "chained" /\ MayRun(c)
  /\ stage' = [stage EXCEPT ![c] = "sent"]
  /\ UNCHANGED <<tail, prev, age, issued, settled, tick>>

Settle(c, how) ==
  /\ stage' = [stage EXCEPT ![c] = how]
  /\ settled' = [settled EXCEPT ![AddressOf(c)] = Append(@, c)]
  /\ UNCHANGED <<tail, prev, age, issued, tick>>

\* The headers arrive: the timer is cleared, and a status outside 200..299 ends
\* the call; else the body is read, under no timer.
Headers(c) ==
  /\ stage[c] = "sent"
  /\ \/ Settle(c, "failed")
     \/ /\ stage' = [stage EXCEPT ![c] = "reading"]
        /\ UNCHANGED <<tail, prev, age, issued, settled, tick>>

Body(c) == stage[c] = "reading" /\ \E how \in {"answered", "failed"} : Settle(c, how)

\* Mutant: nodeApi sets no timer.
TimerNever(c) == FALSE

TimerRuns(c) == stage[c] = "sent"
Abort(c) == TimerRuns(c) /\ age[c] = Limit /\ Settle(c, "failed")

\* next.finally: the last call of an address removes the entry.
CleanUp(c) ==
  /\ Ended(c) /\ tail[AddressOf(c)] = c
  /\ tail' = [tail EXCEPT ![AddressOf(c)] = None]
  /\ UNCHANGED <<prev, stage, age, issued, settled, tick>>

-----------------------------------------------------------------------------
(* statusPollerTick, every STATUS_POLL_MS whether or not the last has ended *)

TickStarts(t) ==
  /\ tick[t] = "unused" /\ \A u \in Ticks : u < t => tick[u] # "unused"
  /\ tick' = [tick EXCEPT ![t] = "registry"]
  /\ UNCHANGED <<tail, prev, stage, age, issued, settled>>

\* GET /api/nodes answers: the compatible nodes that are online are asked.
RegistryAnswers(t) ==
  /\ tick[t] = "registry"
  /\ \E targets \in SUBSET Nodes :
       /\ Chained({<<t, n>> : n \in targets})
       /\ tick' = [tick EXCEPT ![t] = "polling"]
  /\ UNCHANGED <<age, settled>>

RegistryFails(t) ==
  /\ tick[t] = "registry"
  /\ tick' = [tick EXCEPT ![t] = "dropped"]
  /\ UNCHANGED <<tail, prev, stage, age, issued, settled>>

\* Promise.all: every request of the tick has ended; the pages are told.
HooksRun(t) ==
  /\ tick[t] = "polling"
  /\ \A n \in Nodes : stage[<<t, n>>] = "unused" \/ Ended(<<t, n>>)
  /\ tick' = [tick EXCEPT ![t] = "shown"]
  /\ UNCHANGED <<tail, prev, stage, age, issued, settled>>

\* Time passes, up to the first timer that is due.
Elapse ==
  /\ \E c \in Calls : TimerRuns(c)
  /\ \A c \in Calls : TimerRuns(c) => age[c] < Limit
  /\ age' = [c \in Calls |-> IF TimerRuns(c) THEN age[c] + 1 ELSE age[c]]
  /\ UNCHANGED <<tail, prev, stage, issued, settled, tick>>

Runs(c) == Exec(c) \/ Headers(c) \/ Abort(c) \/ CleanUp(c)
Next ==
  \/ \E n \in Nodes : PageCalls(n)
  \/ \E c \in Calls : Runs(c) \/ Body(c)
  \/ \E t \in Ticks : TickStarts(t) \/ RegistryAnswers(t) \/ RegistryFails(t) \/ HooksRun(t)
  \/ Elapse

\* The browser runs the callbacks that are due and its clock moves; no answer of
\* a node is promised, but a body whose headers came is.
Fairness ==
  /\ \A c \in Calls : WF_vars(Exec(c)) /\ WF_vars(Abort(c)) /\ WF_vars(Body(c))
  /\ \A t \in Ticks : WF_vars(HooksRun(t))
  /\ WF_vars(Elapse)

Spec == Init /\ [][Next]_vars /\ Fairness

-----------------------------------------------------------------------------
TypeOK ==
  /\ tail \in [Nodes -> Calls \union {None}]
  /\ prev \in [Calls -> Calls \union {None}]
  /\ stage \in [Calls -> {"unused", "chained", "sent", "reading", "answered", "failed"}]
  /\ age \in [Calls -> 0..Limit]
  /\ issued \in [Nodes -> Seq(Calls)] /\ settled \in [Nodes -> Seq(Calls)]
  /\ tick \in [Ticks -> {"unused", "registry", "polling", "shown", "dropped"}]

\* A node never has two requests of this page open, and its answers come in the
\* order the page asked: a save made while a status poll is out can neither be
\* refused by the node's single socket nor overtaken by a later read, whichever
\* way the cleanup of an ended call and the chaining of a new one interleave.
OneAtATime ==
  \A n \in Nodes :
    /\ Cardinality({c \in Calls : AddressOf(c) = n /\ stage[c] \in {"sent", "reading"}}) <= 1
    /\ settled[n] = SubSeq(issued[n], 1, Len(settled[n]))

\* No call and no tick is under way; each is made once, and what has ended has ended.
Settled ==
  /\ \A c \in Calls : stage[c] = "unused" \/ Ended(c)
  /\ \A t \in Ticks : tick[t] # "polling"

\* Every call made ends and every tick reports, although nodes do not answer:
\* an address nobody answers holds up the calls behind it for the limit only.
\* (It needs the body of an answer whose headers came: its wait has no timer.)
AllSettle == <>[]Settled
=============================================================================
