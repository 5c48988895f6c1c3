----------------------------- MODULE ArtMonitor -----------------------------
(***************************************************************************)
(* The Art-Net activity monitor of src/discovery.cpp: two small tables,    *)
(* one of the senders of ArtDmx and one of the senders of timecode, filled *)
(* from packets that readUdp() sees anyway, and the list made of them for  *)
(* GET /api/artnet-monitor.  A full table gives up the sender not heard    *)
(* for longest, told by the least stamp.                                   *)
(***************************************************************************)
EXTENDS Integers, FiniteSets

CONSTANTS
  Sender,    \* (port-address, source IP), or (source IP, stream)
  Nobody,
  MonSlots,  \* ART_MON_MAX, or ART_TC_MAX
  Fresh,     \* the 10000 ms after which a sender is left out of the list
  MonClock,  \* values of millis()
  MonEnd     \* bound on the time that passes; millis() wraps if it exceeds MonClock

Sizes == /\ Nobody \notin Sender
         /\ {MonSlots, MonClock, MonEnd} \subseteq Nat \ {0} /\ Fresh \in 0 .. MonClock - 1

\* millis() has not come round, and addresses are finitely many.
Young == MonEnd < MonClock - 1 /\ IsFiniteSet(Sender)

Slot  == 1 .. MonSlots

VARIABLES
  table, \* the one of the two tables that a behaviour follows; they never meet
  entry, \* g_artMon or g_artTc
  time,  \* true time; millis() is its remainder
  heard  \* history: sender -> when its last packet came, -1 for never

vars == <<table, entry, time, heard>>

now  == time % MonClock
Free == [key |-> Nobody, ms |-> 0]
Least(S) == CHOOSE i \in S : \A j \in S : i <= j
-----------------------------------------------------------------------------
Holding(e, k) == { i \in Slot : e[i].key = k }

\* Mutant: the newest is given up.
Newest(e) == Least({ i \in Slot : \A j \in Slot : e[i].ms >= e[j].ms })

\* The first slot with the least stamp, which must be below the largest there is.
Oldest(e) ==
  LET older == { i \in Slot : /\ e[i].ms < MonClock - 1
                              /\ \A j \in Slot : e[i].ms <= e[j].ms }
  IN  IF older = {} THEN 1 ELSE Least(older)

\* Its own slot, else a free one, else the oldest.
Place(e, k) ==
  IF Holding(e, k) # {} THEN Least(Holding(e, k))
  ELSE IF Holding(e, Nobody) # {} THEN Least(Holding(e, Nobody))
  ELSE Oldest(e)

Record(k) ==
  /\ entry' = [entry EXCEPT ![Place(entry, k)] = [key |-> k, ms |-> now]]
  /\ heard' = [heard EXCEPT ![k] = time]
  /\ UNCHANGED <<table, time>>

recordArtDmx(k)      == table = "dmx" /\ Record(k)
recordArtTimecode(k) == table = "timecode" /\ Record(k)

\* Mutant: an age is told by comparing absolute times.
ListedAbsolute == { entry[i].key : i \in { j \in Slot :
   entry[j].key # Nobody /\ now < entry[j].ms + Fresh } }

\* artnetMonitorJson
Listed == { entry[i].key : i \in { j \in Slot :
   entry[j].key # Nobody /\ (now - entry[j].ms) % MonClock <= Fresh } }

Tick == time < MonEnd /\ time' = time + 1 /\ UNCHANGED <<table, entry, heard>>

Init == /\ table \in {"dmx", "timecode"}
        /\ entry = [i \in Slot |-> Free]
        /\ time = 0
        /\ heard = [k \in Sender |-> -1]

Next == Tick \/ \E k \in Sender : recordArtDmx(k) \/ recordArtTimecode(k)

Spec == Init /\ [][Next]_vars
-----------------------------------------------------------------------------
(* Properties *)

TypeOK == /\ entry \in [Slot -> [key : Sender \cup {Nobody}, ms : 0 .. MonClock - 1]]
          /\ time \in 0 .. MonEnd /\ heard \in [Sender -> -1 .. time]

Lately == { k \in Sender : heard[k] >= 0 /\ time - heard[k] <= Fresh }

\* The page lists no sender that has been silent for more than ten seconds, and
\* as long as those heard since have room in the table it lists every one of
\* them ("evict least-recently-seen", "stale entries ... are dropped").
MonitorTrue == /\ Listed \subseteq Lately
               /\ Cardinality(Lately) <= MonSlots => Lately \subseteq Listed
=============================================================================
