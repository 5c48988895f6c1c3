------------------------------ MODULE StatusLed ------------------------------
(***************************************************************************)
(* The status LED (src/statusLeds.cpp): what loop() and setup() tell it,   *)
(* what tick() makes of that, and the locate flash that one asks for from  *)
(* the page.  A colour is the name of the state it stands for; how bright  *)
(* it is in the course of a breath is left out.  One unit of time is a     *)
(* tick of the LED.  millis() comes round, for ever; what has to be known  *)
(* of the past is kept as an age.                                          *)
(***************************************************************************)
EXTENDS Integers

CONSTANTS
  TickPeriod,   \* TICK_INTERVAL_MS
  NotePeriod,   \* the 1000 of loop()'s statusTimer
  LocatePeriod, \* the 10000 of startLocate
  StalePeriod,  \* OFFLINE_AFTER_MS
  LongPass,     \* longest pass of loop()
  LedClock,     \* values of millis()
  Fallback      \* networkMode == FallbackServer

\* A clock that takes longer to come round than all the periods together.
Timers == /\ {TickPeriod, NotePeriod, LocatePeriod, StalePeriod, LongPass, LedClock} \subseteq Nat \ {0}
          /\ TickPeriod + NotePeriod + LocatePeriod + 2 * LongPass < LedClock
          /\ Fallback \in BOOLEAN

VARIABLES
  pc,          \* "cable": ethernetStart waits; "web", "led", "note": the parts of loop()
  bootMode,    \* bootMode_
  linkUp,      \* linkUp_
  counts,      \* knownNodes_, onlineNodes_, as "none", "offline", "online"
  amber,       \* fallbackServer_
  lastTick, locateUntil, shown, statusTimer,
  registry,    \* what the node table says, as counts
  now,         \* millis()
  asked,       \* history: time since locate was last asked for, LocatePeriod for longer or
               \* never; Late after a request shortly before the clock comes round
  heard        \* history: time since a node was last heard, up to Silent

told  == <<bootMode, linkUp, counts, amber>>
vars  == <<pc, told, lastTick, locateUntil, shown, statusTimer, registry, now, asked, heard>>

After(d)       == (now + d) % LedClock
Elapsed(since) == (now - since) % LedClock
Older(age, d, limit) == IF age + d > limit THEN limit ELSE age + d

Late   == -1
Silent == StalePeriod + NotePeriod + LongPass + 1

\* The clock comes round before a deadline so far ahead, or in the pass that meets it.
RoundBefore(d) == now + d + TickPeriod + LongPass > LedClock
-----------------------------------------------------------------------------
\* The states, first match wins.
Colour ==
  IF ~linkUp THEN "link-down" ELSE IF counts = "none" THEN "searching"
  ELSE IF counts = "offline" THEN "all-offline"
  ELSE IF amber THEN "fallback-server" ELSE "healthy"

Locating == locateUntil > 0 /\ now < locateUntil

tick ==
  IF Elapsed(lastTick) < TickPeriod THEN UNCHANGED <<lastTick, shown, locateUntil>>
  ELSE /\ lastTick' = now
       /\ shown' = IF bootMode THEN "boot" ELSE IF Locating THEN "flash" ELSE Colour
       /\ locateUntil' = IF bootMode \/ Locating THEN locateUntil ELSE 0

\* Mutant: a second request does not start the time anew.
UntilOfFirst == IF locateUntil # 0 THEN locateUntil ELSE After(LocatePeriod)
Until == After(LocatePeriod)

startLocate ==
  /\ pc = "web" /\ locateUntil' = Until
  /\ asked' = IF RoundBefore(LocatePeriod) THEN Late ELSE 0
  /\ UNCHANGED <<pc, told, lastTick, shown, statusTimer, registry, now, heard>>

\* A node is heard (discoveryTick).
Hear ==
  /\ pc = "web" /\ registry' = "online" /\ heard' = 0
  /\ UNCHANGED <<pc, told, lastTick, locateUntil, shown, statusTimer, now, asked>>

Passes(d) ==
  /\ now' = After(d)
  /\ asked' = IF asked = Late THEN Late ELSE Older(asked, d, LocatePeriod)
  /\ heard' = Older(heard, d, Silent)

\* ethernetStart: no link, wait.
NoCable ==
  /\ pc = "cable" /\ linkUp' = FALSE /\ tick /\ Passes(1)
  /\ UNCHANGED <<pc, bootMode, counts, amber, statusTimer, registry>>

\* The link is up; the rest of setup(), and endBoot.
Cable ==
  /\ pc = "cable" /\ linkUp' = TRUE /\ bootMode' = FALSE /\ pc' = "web" /\ Passes(1)
  /\ UNCHANGED <<counts, amber, lastTick, locateUntil, shown, statusTimer, registry>>

Web == /\ pc = "web" /\ pc' = "led"
       /\ UNCHANGED <<told, lastTick, locateUntil, shown, statusTimer, registry, now, asked, heard>>

Led == /\ pc = "led" /\ pc' = "note" /\ tick
       /\ UNCHANGED <<told, statusTimer, registry, now, asked, heard>>

\* Mutant: nodes that are known are reported as online.
CountsKnown(r) == IF r = "offline" THEN "online" ELSE r
\* noteNodeCounts(nodeRegistryKnownCount(), nodeRegistryOnlineCount())
Counts(r) == r

\* nodeRegistryExpire
Expired == IF registry = "online" /\ heard > StalePeriod THEN "offline" ELSE registry

\* The end of a pass that takes d.  The timer is compared as a number, not as a distance.
Note(d) ==
  /\ pc = "note"
  /\ IF statusTimer < now
     THEN /\ registry' = Expired /\ counts' = Counts(Expired) /\ amber' = Fallback
          /\ statusTimer' = After(NotePeriod)
     ELSE UNCHANGED <<registry, counts, amber, statusTimer>>
  /\ pc' = "web" /\ Passes(d)
  /\ UNCHANGED <<bootMode, linkUp, lastTick, locateUntil, shown>>

Init == /\ pc = "cable" /\ bootMode = TRUE /\ linkUp = FALSE /\ counts = "none" /\ amber = FALSE
        /\ lastTick = 0 /\ locateUntil = 0 /\ shown = "boot" /\ statusTimer = 0
        /\ registry \in {"none", "offline"}        \* the table as it was saved
        /\ now = 0 /\ asked = LocatePeriod /\ heard = Silent

Next == \/ startLocate \/ Hear \/ NoCable \/ Cable \/ Web \/ Led
        \/ \E d \in 1 .. LongPass : Note(d)

Spec == Init /\ [][Next]_vars
-----------------------------------------------------------------------------
(* Properties, of the ticks after setup() *)

Ticked == pc = "note" /\ lastTick = now

\* From the first tick after a request on, and until ten seconds after the last one,
\* the LED flashes; and it stops when they are over.  Excepted is a request less than
\* that and a pass before the clock comes round.
LocateTenSeconds == Ticked /\ asked # Late => (shown = "flash" <=> asked < LocatePeriod)

\* The status timer stands in the last pass before the clock comes round: a pass that
\* steps over it leaves it there, ahead of every time until the clock is there again.
Stranded == statusTimer + LongPass >= LedClock

\* Green or amber: a node was heard before it became stale, up to a second and a pass ago.
GreenIsRecent ==
  Ticked /\ shown \in {"healthy", "fallback-server"} /\ ~Stranded
  => heard <= StalePeriod + NotePeriod + LongPass

\* Does not hold: "LinkDown - Ethernet PHY reports no link".
RedWithoutLink == (pc = "cable" /\ lastTick # 0 /\ ~linkUp) => shown = "link-down"
=============================================================================
