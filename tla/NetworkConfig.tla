--------------------------- MODULE NetworkConfig ---------------------------
(***************************************************************************)
(* The network settings: how POST /api/network changes them                *)
(* (networkConfigApply in src/api.cpp), which of them ethernetStart        *)
(* (src/startFunctions.cpp) follows at boot, what it writes back, and when *)
(* loop() saves that.  Last octets of addresses are numbers, the uint8_t   *)
(* and uint16_t fields have their widths.  The pool has the first three    *)
(* octets of the fallback address, whatever they are, and the server is    *)
(* told fallbackSubnet and hands it on: neither is here, as no condition   *)
(* looks at them.  Boot has the restarts.                                  *)
(***************************************************************************)
EXTENDS Integers

CONSTANTS
  Chosen,     \* addresses an operator may set
  Factory,    \* 10.0.0.2: the default, and what a failed DHCP attempt ends on
  Leased,     \* what the LAN's DHCP server, when there is one, gives the unit
  Owns,       \* last octets of a fallbackIp that a request may contain, Absent among them
  Absent,     \* a field that the request leaves out
  Starts, Sizes, Leases,   \* numbers a request may contain, Absent among them
  NetBoots    \* bound on the number of boots

Octet == 0 .. 255

Addresses == /\ ({Factory, Leased} \cup Octet) \cap Chosen = {} /\ NetBoots \in Nat
             /\ (Starts \cup Sizes \cup Leases) \ {Absent} \subseteq Nat
             /\ Owns \ {Absent} \subseteq Octet

VARIABLES
  ram,      \* deviceSettings
  flash,    \* the same in EEPROM
  net,      \* "off", "up"
  mode,     \* networkMode
  live,     \* the address the unit has: of fallbackIp its last octet
  unsaved,  \* resetCounter # 0: loop() saves once more after six seconds
  fresh,    \* history: what the last request asked of the pool, Absent at a boot
  booted    \* boots so far

vars == <<ram, flash, net, mode, live, unsaved, fresh, booted>>

\* store.cpp's initial values
Defaults == [dhcp |-> TRUE, ip |-> Factory, fallback |-> FALSE, own |-> 1,
             start |-> 100, size |-> 32, lease |-> 3600]

Given(x, old) == IF x = Absent THEN old ELSE x

\* What ArduinoJson makes of a number that does not fit the type.
Fits(x, span) == IF x < span THEN x ELSE 0
-----------------------------------------------------------------------------
(* POST /api/network *)

NotBelow(x, least) == IF x < least THEN least ELSE x
NotAbove(x, most)  == IF x > most THEN most ELSE x

\* Mutant: the size is clipped before the start is.
ClippedSizeFirst(s) ==
  [s EXCEPT !.start = NotAbove(NotBelow(s.start, 2), 253),
            !.size  = NotBelow(NotAbove(s.size, (254 - s.start) % 256), 1), !.lease = NotBelow(@, 60)]

\* Mutant: room for one address fewer.
ClippedShort(s) ==
  LET start == NotAbove(NotBelow(s.start, 2), 253)
  IN  [s EXCEPT !.start = start, !.size = NotBelow(NotAbove(s.size, (253 - start) % 256), 1),
                !.lease = NotBelow(@, 60)]

\* "Sanity-clip pool against /24 wraparound."  fallbackIp is not looked at.
Clipped(s) ==
  LET start == NotAbove(NotBelow(s.start, 2), 253)
  IN  [s EXCEPT !.start = start, !.size = NotBelow(NotAbove(s.size, (254 - start) % 256), 1),
                !.lease = NotBelow(@, 60)]

\* A request: dhcp, ip and name at its top, pool the fallback group or Absent.
Pool == [on : {TRUE, Absent}, own : Owns, start : Starts, size : Sizes, lease : Leases]
Request == [dhcp : BOOLEAN \cup {Absent}, ip : Chosen \cup {Absent}, name : {TRUE, Absent},
            pool : Pool \cup {Absent}]

\* "Nothing to change", also when there is a pool ("Every field is optional").
Refused(r) == r.dhcp = Absent /\ r.ip = Absent /\ r.name = Absent

Top(s, r) == [s EXCEPT !.dhcp = Given(r.dhcp, @), !.ip = Given(r.ip, @)]

Group(s, p) ==
  Clipped([s EXCEPT !.fallback = Given(p.on, @), !.own = Given(p.own, @),
     !.start = IF p.start = Absent THEN @ ELSE Fits(p.start, 256),
     !.size  = IF p.size = Absent THEN @ ELSE Fits(p.size, 256),
     !.lease = IF p.lease = Absent THEN @ ELSE Fits(p.lease, 65536)])

Applied(s, r) == IF r.pool = Absent THEN Top(s, r) ELSE Group(Top(s, r), r.pool)

networkConfigApply(r) ==
  /\ net = "up" /\ ~Refused(r)
  /\ ram' = Applied(ram, r)
  /\ flash' = ram'                          \* eepromSave
  /\ fresh' = r.pool
  /\ UNCHANGED <<net, mode, live, unsaved, booted>>
-----------------------------------------------------------------------------
(* Boot *)

\* Mutant: without DHCP the unit comes up on the default address.
StartsDefault(s, upstream) ==
  IF s.dhcp /\ upstream THEN <<"dhcp-client", Leased>>
  ELSE IF s.dhcp /\ s.fallback THEN <<"fallback-server", s.own>> ELSE <<"static", Factory>>

\* The mode and the address ethernetStart ends with, with or without a DHCP
\* server that answers one of its two attempts.
Started(s, upstream) ==
  IF ~s.dhcp THEN <<"static", s.ip>>
  ELSE IF upstream THEN <<"dhcp-client", Leased>>
  ELSE IF s.fallback THEN <<"fallback-server", s.own>>
  ELSE <<"static", Factory>>

ethernetStart(upstream) ==
  /\ net = "off" /\ booted < NetBoots
  /\ LET how == Started(flash, upstream) IN
       /\ mode' = how[1] /\ live' = how[2]
       /\ ram' = [flash EXCEPT !.ip = how[2]]   \* deviceSettings.ip = Ethernet.localIP()
  /\ net' = "up" /\ unsaved' = TRUE /\ fresh' = Absent /\ booted' = booted + 1
  /\ UNCHANGED flash

\* loop(), six seconds on.
SaveCounters ==
  /\ net = "up" /\ unsaved
  /\ unsaved' = FALSE /\ flash' = ram
  /\ UNCHANGED <<ram, net, mode, live, fresh, booted>>

Restart ==            \* asked for, or a power cut
  /\ net = "up" /\ net' = "off"
  /\ UNCHANGED <<ram, flash, mode, live, unsaved, fresh, booted>>

Init == /\ ram = Defaults /\ flash = Defaults /\ net = "off" /\ mode = "dhcp-client"
        /\ live = Factory /\ unsaved = FALSE /\ fresh = Absent /\ booted = 0

Next == \/ \E r \in Request : networkConfigApply(r)
        \/ \E upstream \in BOOLEAN : ethernetStart(upstream)
        \/ SaveCounters \/ Restart

Spec == Init /\ [][Next]_vars
-----------------------------------------------------------------------------
(* Properties *)

\* Whatever requests are made in whatever order, the pool's last octets run from 2
\* or more to 253 or less and there is one of them at least (api.cpp:655-660): the
\* range the DHCP server's uint8_t arithmetic needs.
PoolFits == \A s \in {ram, flash} :
  s.start \in 2 .. 253 /\ s.size >= 1 /\ s.start + s.size <= 254 /\ s.lease >= 60

\* A pool that fits is taken as it was asked for.
LegalPoolKept ==
  (/\ fresh # Absent
     /\ Absent \notin {fresh.start, fresh.size}
     /\ fresh.start \in 2 .. 253 /\ fresh.size \in 1 .. 254 - fresh.start)
  => ram.start = fresh.start /\ ram.size = fresh.size

\* With DHCP off, the unit has after each boot the address it was told before it.
StaticKept  == net' = "up" /\ net = "off" /\ ~flash.dhcp => live' = flash.ip
StaticStays == [][StaticKept]_vars

\* The rest does not hold, see the README.
\* A lease time is taken as it was asked for; the page lets one ask for a day.
LeaseAsAsked ==
  (fresh # Absent /\ fresh.lease # Absent /\ fresh.lease >= 60) => ram.lease = fresh.lease

\* A unit without DHCP has an address that somebody chose for it.
OperatorsAddress == net = "up" /\ mode = "static" => live \in Chosen \cup {Factory}

\* "Pool must fit between the configured fallback IP's last octet and 254"
\* (api.cpp:653-654); a pool of one address can be the unit's own.
PoolAboveOwn == \A s \in {ram, flash} : s.own < s.start
PoolHasRoom  == \A s \in {ram, flash} : s.start .. s.start + s.size - 1 # {s.own}
=============================================================================
