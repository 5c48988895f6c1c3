------------------------------ MODULE FleetTables ------------------------------
(* The tables of the webpage that look for conflicts across the fleet
   (data/index.html, embedded in ui.cpp): the Universes page, the IP and DHCP
   overview of the Network page, and the Art-Net Monitor.  Each asks the nodes or
   masterETH, takes an answer that does not come as nothing, and builds its table
   when the last answer is in. *)
EXTENDS Naturals, Sequences, FiniteSets

CONSTANTS
  Duals, Quads,   \* nodes with ports, online
  Switches,       \* online quadNETs
  PerUniverse     \* 170: pixels that one universe carries

VARIABLES
  page,       \* the page that is open
  answers,    \* per thing asked the answer, Nothing, or Waiting
  table       \* what the page shows, or Waiting

vars == <<page, answers, table>>

Waiting == [is |-> "waiting"]
Nothing == [is |-> "nothing"]

PortLettersFor(n) == IF n \in Quads THEN {"A"} ELSE {"A", "B"}
Ports == UNION {{n} \X PortLettersFor(n) : n \in Duals \union Quads}

\* A port's configuration; its universe array always has its full length.
Arrays == [1..2 -> {0, 1}]
Cfgs == [is : {"cfg"}, mode : {"output"}, net : {0, 1}, universe : Arrays, numPixels : {0}]
  \union [is : {"cfg"}, mode : {"pixels"}, net : {0}, universe : Arrays,
          numPixels : {0, PerUniverse, PerUniverse + 1, 2 * PerUniverse + 1}]
Addresses == 0..2  \* 0 for none
Modes == {"server", "client", "static", "unknown"}  \* unknown: its own status did not come
masterETH == <<"masterETH">>
Known == {<<s>> : s \in Switches} \union {masterETH}
Devices == [is : {"device"}, ip : Addresses, mode : Modes]
Sources == {0, 1} \X {1, 2}  \* universe and sender
Tallies == {[is |-> "tally", sources |-> s] : s \in SUBSET Sources}

\* What a page asks, and the answers there are.
Asked == CASE page = "universes" -> Ports
           [] page = "network" -> Known
           [] page = "monitor" -> {masterETH}
Answers == CASE page = "universes" -> Cfgs [] page = "network" -> Devices [] page = "monitor" -> Tallies
Things == Ports \union Known

Sizes == /\ IsFiniteSet(Duals \union Quads \union Switches) /\ Duals \intersect Quads = {}
         /\ PerUniverse \in Nat \ {0}

Init ==
  /\ page \in {"universes", "network", "monitor"}
  /\ answers = [x \in Things |-> Waiting] /\ table = Waiting

-----------------------------------------------------------------------------
(* Universes *)

Min2(a, b) == IF a < b THEN a ELSE b
\* Mutant: the last universe of a pixel chain is left out unless it is full.
Floor(a, b) == a \div b

Ceil(a, b) == (a + b - 1) \div b

\* computeConsumedUniverses
computeConsumedUniverses(n, cfg) ==
  IF n \in Quads \/ cfg.mode # "pixels" THEN {cfg.universe[1]}
  ELSE LET wanted == Ceil(cfg.numPixels, PerUniverse)
           count == IF wanted = 0 THEN 1 ELSE wanted
       IN  {cfg.universe[i] : i \in 1..Min2(count, Len(cfg.universe))}

\* The map from a universe to the ports that take it, and its conflicts.
Read == {x \in Asked : answers[x] # Nothing}
Refs(k) == {x \in Read : answers[x].net = k[1] /\ k[2] \in computeConsumedUniverses(x[1], answers[x])}
Keys == {k \in {0, 1} \X {0, 1} : Refs(k) # {}}
UniverseMap == [rows |-> [k \in Keys |-> Refs(k)],
                conflicts |-> {k \in Keys : Cardinality(Refs(k)) > 1}]

-----------------------------------------------------------------------------
(* IP and DHCP overview *)

\* The addresses are the registry's; a node that did not answer has no mode.
ipCount(ip) == Cardinality({x \in Read : answers[x].ip = ip})
dupIps == {ip \in Addresses \ {0} : ipCount(ip) > 1}
dhcpServers == {x \in Read : answers[x].mode = "server"}
IpOverview == [dup |-> dupIps, servers |-> Cardinality(dhcpServers) > 1]

-----------------------------------------------------------------------------
(* Monitor *)

byUni(sources, u) == {s[2] : s \in {t \in sources : t[1] = u}}
MonitorRows ==
  IF Read = {} THEN [rows |-> {}, conflicts |-> {}]
  ELSE LET sources == answers[masterETH].sources
       IN  [rows |-> sources, conflicts |-> {u \in {0, 1} : Cardinality(byUni(sources, u)) > 1}]

-----------------------------------------------------------------------------
Answer(x, a) ==
  /\ x \in Asked /\ answers[x] = Waiting
  /\ page = "network" => IF x = masterETH THEN a # Nothing => a.mode # "unknown" ELSE a # Nothing
  /\ answers' = [answers EXCEPT ![x] = a]
  /\ UNCHANGED <<page, table>>

\* The answers are waited for together; masterETH's own are all it takes to give up
\* the overview.
Paint ==
  /\ table = Waiting /\ \A x \in Asked : answers[x] # Waiting
  /\ page = "network" => answers[masterETH] # Nothing
  /\ table' = CASE page = "universes" -> UniverseMap
                [] page = "network" -> IpOverview
                [] page = "monitor" -> MonitorRows
  /\ UNCHANGED <<page, answers>>

Next == Paint \/ \E x \in Things : \E a \in Answers \union {Nothing} : Answer(x, a)

Spec == Init /\ [][Next]_vars

-----------------------------------------------------------------------------
(* What the tables say, from the pixels, the devices and the senders: a universe
   is in conflict when two ports that answered take it, a pixel chain taking the
   universe that each of its pixels is in, and at least the first; an address when
   two devices have it; the DHCP service when two devices serve. *)
Takes(n, cfg, u) ==
  \/ u = cfg.universe[1]
  \/ /\ n \in Duals /\ cfg.mode = "pixels"
     /\ \E pixel \in 0..cfg.numPixels - 1 :
          pixel \div PerUniverse < Len(cfg.universe) /\ cfg.universe[pixel \div PerUniverse + 1] = u

Two(P(_)) == \E x, y \in Asked : x # y /\ P(x) /\ P(y)
TablesTrue ==
  table # Waiting =>
    CASE page = "universes" ->
           \A k \in {0, 1} \X {0, 1} :
             LET At(x) == answers[x] # Nothing /\ answers[x].net = k[1] /\ Takes(x[1], answers[x], k[2])
             IN  /\ k \in table.conflicts <=> Two(At)
                 /\ k \in DOMAIN table.rows <=> \E x \in Asked : At(x)
      [] page = "network" ->
           /\ \A ip \in Addresses \ {0} :
                LET At(x) == answers[x] # Nothing /\ answers[x].ip = ip IN ip \in table.dup <=> Two(At)
           /\ LET Serves(x) == answers[x] # Nothing /\ answers[x].mode = "server" IN table.servers <=> Two(Serves)
      [] page = "monitor" ->
           \A u \in {0, 1} : u \in table.conflicts <=>
             \E s, t \in table.rows : s[1] = u /\ t[1] = u /\ s[2] # t[2]
=============================================================================
