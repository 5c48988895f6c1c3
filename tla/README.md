# masterETH in TLA+

masterETH is a small box on a lighting network: an ESP8266 with a W5500 Ethernet chip that finds the dualETH and
quadETH nodes on its LAN, shows them in a web page, serves DHCP when nobody else does, scans the LAN, and keeps the
status LEDs of all units in step. The firmware is single-threaded - `setup()` once, then `loop()` for ever
(`src/src/main.cpp`) - and yet everything hard about it is concurrency: what other devices do between two passes of
`loop()`, what waits in a receive buffer while one pass takes seconds, what the chip does to a socket by itself, what
a power cut leaves in the EEPROM, and, in the browser, which answer comes back to a page that is no longer open.

This directory has the specifications (`*.tla`), their instances for TLC (`MC*.tla`, `*.cfg`), proofs for TLAPS
(`*Proofs.tla`, and the last sections of `DhcpServer`, `Boot`, `Sockets`, `Discovery` and `MCDiscovery`) and `PROJECT.json`,
which ties each definition to source lines.

To check a run: `tlc -config DhcpLeases.cfg DhcpServer.tla`. To check proofs: `tlapm DhcpServer.tla`.

Contents: 1 inventory - 2 modules, how they correspond to the code - 3 runs and bounds - 4 fairness - 5 proofs -
6 where the code and its documentation disagree - 7 what is not modelled - 8 plan.

## 1. Inventory

Nothing is shared between the firmware's components by more than function calls, global variables of one thread, one
EEPROM and four sockets. The web page talks to masterETH and to the nodes over HTTP. The table gives each component's
state and operations; the paragraphs after it what is hard.

| component | source | state | operations | talks to |
|---|---|---|---|---|
| DHCP fallback server | dhcpServer.cpp | 32 leases, own address, pool; image in EEPROM | tick: expire, then drain UDP/67 (DISCOVER, REQUEST, RELEASE, DECLINE, INFORM); load, save | clients, EEPROM, `ipLikelyInUse` (TCP) |
| Discovery | discovery.cpp | poll deadline, poll-now flag, UDP socket | tick: ArtPoll, read replies, one identify probe, fleet beat | node registry, FleetClock, monitor, sockets |
| Node registry | nodeRegistry.cpp | 32 nodes, their cache in EEPROM | note seen / identified / incompatible, expire, save, load | discovery, loop, API |
| Fleet clock | FleetClock.h | leader, three stamps, offset | begin, handle, poll | the same object on every unit of the LAN |
| Boot and settings | main.cpp, store.cpp, startFunctions.cpp | settings record with two counters, link flag, restart flags | setup, loop, eepromLoad / Save, update mode | API, watchdog, cable |
| Network settings | api.cpp, startFunctions.cpp | the same record; live address and mode | POST /api/network, ethernetStart | DHCP server, settings |
| Node tags | nodeTags.cpp | 32 labels, image in EEPROM | begin, set, persist | EEPROM, API |
| Port scanner | scanner.cpp | one probe under way, result | start, stop, tick | sockets, registry, API |
| Sockets | lib/EthernetLarge | four hardware sockets, their rings, who serves port 80 | socketBegin, socketClose, socketSend, socketRecv, available | everything that uses the network |
| Web server | lib/EthernetWebServer | the current client, the request parsed | handleClient, _parseRequest, _parseForm, send | API |
| DHCP client | lib/EthernetLarge/Dhcp.cpp | its state, xid, server | request_DHCP_lease, at boot only | the LAN's servers |
| REST API | api.cpp | static answer buffers | 30 handlers, over HTTP and over USB | all of the above |
| USB serial link | serialConfig.cpp | a line buffer | tick, handleLine | REST API |
| Art-Net monitor, test generator | discovery.cpp, api.cpp | two small tables of senders; a frame buffer | record, JSON; POST /api/artdmx | API |
| Status LED | statusLeds.cpp, ethWs2812Driver.cpp | locate deadline, counts of nodes | tick, locate, the bit loops | flags of the others, fleet clock |
| Firmware update | firmUpdate.cpp | the updater of the ESP8266 core | prepare, upload chunks, result | settings (update flag), page |
| Web page | data/index.html in ui.cpp | per page: timers, requests under way, forms, caches | one async function per event | API of masterETH and of every node |
| Self-test, tools | selfTest.cpp, tools/ | none | report | - |

What is hard, and what makes each component correct:

* **DHCP server.** Deadlines live in a 32-bit clock that wraps; clients retransmit, change their minds, and are cut
  off by a power failure of the server between an ACK and a save. Correct means: an address is leased once
  (`LeasesDistinct`), inside the pool and never the server's own (`LeasesServable`), and a client that was
  acknowledged keeps its lease for its term (`HoldersBacked`, `HoldersDistinct`, `AckedStays`).
* **Discovery and registry.** Devices come, go, swap addresses and answer late; probes block `loop()` for seconds;
  the table goes to EEPROM after some events and not after others. Correct means: one entry per device, nothing
  learned is lost, a moved node is probed again, a silent one goes offline in time. (That every node is probed, as the
  code's comment has it, is not so: section 6.)
* **Fleet clock.** A leader election with three timers and no acknowledgements. Correct means: one leader in the end,
  one clock in the end, and nobody's LEDs jump on the way.
* **Boot and network settings.** Counters that are saved before the thing they count has happened; an address that
  ethernetStart writes back into the settings. Correct means: settings survive, update mode ends, a saved setting
  comes into force, the unit comes up, and the pool it then serves from is one its arithmetic can bear.
* **EEPROM.** Five parts write one 4 KB image at offsets of their own. Correct means: nobody's save damages
  another's data.
* **Sockets.** A holder knows its socket by a number that outlives the connection. Correct means: permanent sockets
  stay, none leaks, a scan ends and reports what the hosts answered, and the web server gets a listener back.
* **Web server and driver.** Rings with wrapping pointers, cached register values, a peer that closes at any byte.
  Correct means: what is sent arrives in order and once, what is received is parsed as it was sent, and every call
  returns.
* **Status LED, serial link, monitor.** Deadlines in a wrapping clock, lines longer than a buffer, tables with fewer
  slots than senders. Correct means: the LED shows the state, a command runs only as it was sent, the list shows who
  was heard last.
* **Web page.** One thread of callbacks, and behind every `await` a world that may have changed: another page, another
  node, another port, a form rebuilt under the user's fingers. Correct means: a page paints only itself, a save
  reaches the node whose page it was made on, everything ends although nodes do not answer, and a page that stays
  open comes to show the truth.

`PROJECT.json` lists the hazards line by line with the properties aimed at each.

## 2. Modules and how they correspond to the code

### The unit among other devices

**`LeaseBook`** - what a DHCP server promises, without table, clock or packets: a one-to-one book of clients and
addresses, to which grants add and from which leases drop out, and a saved book to which a reboot returns.

**`DhcpServer`** - dhcpServer.cpp in full. `lease` is `g_leases`, `image` the records in EEPROM, `now` is `millis()`
modulo `ClockSize`, `queue` the receive buffer. `TickExpire`, `HandlePacket`, `TickDone` are one `dhcpServerTick`;
each packet's handler is one action because nothing else runs inside it. `Allocation` is `allocateLease` with its
search order: the client's own lease, the wanted address if it is honoured, the scan with its probe budget, the
fallback. The answer of `ipLikelyInUse`, which times a TCP connect, is any subset of the addresses that somebody has
and the table has not, the only ones it is asked of (`ProbeResult`). `Restart` is a power cut at any point, with the
configuration the next boot finds. The clients follow RFC 2131 as far as the server can tell: they discard answers
with an xid they no longer wait for (`live`), retransmit, renew, give back, choose another server, come back with a
remembered address. Addresses are last octets, as in the code's arithmetic.

**`Discovery`** - discoveryTick, the node table, its cache and the once-a-second expiry of loop(). `pc` cuts one pass of
loop() where time passes or the network acts: poll, read, drain, status. A device's web server is a constant (`Kind`):
modern, older, of another vendor, not JSON, or silent. `Drain` blocks for up to `MaxProbe`, as the code does. Timers are
compared as the code compares them (`<`, `>=` on absolute values, which is wrong across the wrap; `Since` where the
code subtracts).

**`ProbeQueue`** - drainProbeQueue alone, with a full table: which slot is probed when, so that starvation can
be examined with more slots than `Discovery` could bear. It keeps the time to each deadline instead of the deadline.

**`HttpGet`** - httpGet of discovery.cpp byte by byte: the search for the empty line, the body into a buffer, the two
time limits; the node sends when it likes and closes where it likes. A read takes time, and while one byte follows another
the inner loops do not look at the deadline: `unwatched` is that time.

**`FleetClock`** - FleetClock.h on several units. Stamps are kept as ages, saturated where the code stops telling them
apart; a clock is its offset to true time. `Read` is handle() for one packet, `Poll` poll(), `Block` an identify probe
between the two, `Elapse` a unit of time, `Join`/`Leave` power. `calm` is history: TRUE while every change of the fleet
has found it settled.

### The unit by itself

**`Boot`** - setup(), loop() and the requests that lead to a restart. Settings are a version number; the record in
flash, its copy in RAM and the configuration the network came up with are kept apart, because what can go wrong is that
they differ. Power cuts and watchdog resets come at every point after eepromLoad's single commit. `told` (the last save
was not left to the wizard, and was answered with "restart needed"), `asked`, `wasUpdate`, `young` and `dogs` are history.

**`NetworkConfig`** - networkConfigApply with its clips and the widths of its fields, ethernetStart's choice among
upstream DHCP, fallback server and static address, what it writes back, and loop()'s save six seconds later. The fallback
address is kept as its last octet, the one the pool could collide with; the other three and the subnet are looked at by no
condition.

**`Eeprom`** - the five regions at their real addresses and sizes. A field is *intact* while it holds what its owner
last wrote; a save of one part tears every field of another that it overlaps. A one-byte flag that is overwritten may by
chance keep its value, or turn into a 1. A table's operations (set, remove, save, load) are those of its owner.

**`StatusLed`** - what setup() and loop() tell the LED, tick() with its order of states, and locate, over a clock that
comes round again and again. **`PixelDriver`** - doPixel and doAPA106 below it, bit by bit against the cycle counter as BGE
reads it, a signed number: pulse lengths, masked interrupts, and what becomes of a wait when the sign changes.

**`ArtMonitor`** - the two tables of Art-Net senders with their eviction, and the list made of them. **`TestFrame`** -
POST /api/artdmx: the frame from its query in the one static buffer, and the broadcast. **`Reports`** - the buffers
into which the GET handlers write; a row is its length. **`SerialLink`** - the line assembler of the USB link with its
overflow state, its budget of bytes per tick, and the swap of the transport for the time of a command.

### Sockets and the vendored stack

The project uses EthernetLarge and EthernetWebServer as vendored sources; what the firmware runs of them is modelled.

**`Sockets`** - the four hardware sockets with everybody who takes one. `chip` has for each socket the class of its
W5500 status (SYN_SENT `syn`, ESTABLISHED `up`, CLOSE_WAIT `half`, the FIN states `closing`), `server` who serves
port 80, `scan` the scanner. The identify probes and `ipLikelyInUse` open and close a socket inside one call, so they
are one step. The parts of loop() run in the order of main.cpp; the network acts between any two. `WebIdle` and
`WebServes` are the two ways through handleClient. The server never closes a connection: at the end of a request
handleClient sets `_currentClient = EthernetClient()` without a stop (EthernetWebServer-impl.h:238-332), so that a
socket of port 80 comes back only when the browser closes.

**`SocketSend`**, **`SocketReceive`** - the two rings of a socket, with the chip's pointers and the driver's copies of
them, which are brought up to date only now and then (socket.cpp). Bytes are numbers, so that one lost, doubled or out of order
shows. **`HttpRequest`** - _parseRequest: request line, headers, body, the arguments of the address and of an encoded body,
and the stream's timeout of a second at every line. **`UploadForm`** - _parseForm and the search for the boundary, for the part a firmware upload has; "stuck" is
its endless loop.
**`DhcpClient`** - request_DHCP_lease with retransmissions, several servers, packets lost, late and doubled.

### The web page

`src/src/ui.cpp` is `src/data/index.html` byte for byte, as a C array of 24 bytes a line from line 10 on; `map` names
the lines of ui.cpp that hold the JavaScript a definition translates (index.html:818-5544). The browser runs one
callback at a time, so an action is the stretch from one `await` to the next; an answer, a timer and a click are
actions of their own and come in any order.

| module | part of the page | what is kept |
|---|---|---|
| `NodeCalls` | nodeApi and the status poller | per node the chain of requests, each request's stage and age |
| `PageRouter` | the hash router and the pages' timers | open page, fetches under way, intervals |
| `TagStore` | the labels of nodes, their move from localStorage to the unit | server, mirrors, requests |
| `Wizard` | the first-boot wizard, with the two handlers it drives | step, form, address announced, unit's state |
| `NodesList` | list, search, bulk universe assignment | text, selection, bulk walk |
| `NodeDetail` | a node's page: loading, wiring of forms, buttons | visits, the document's elements by id, who answers at each visit's address |
| `RdmTable`, `RdmDiscover` | fixture table with its open row; the search for fixtures | table, edit, loads and detail request; the node's queue, phase |
| `TimecodePage`, `SwitchPage`, `DisplayTab` | masterMIDI, quadNET and display forms | forms, timers, saves |
| `TestDesk` | DMX faders, blackout, master cue | desk, posts under way |
| `FleetTables` | universes, IP overview, monitor table | answers, table |
| `ScanPanel` | scan on the Network page, with the unit's handlers | polls, answers on their way |
| `Backup` | bundle of the fleet's settings: collect, preview, apply | bundle, registry, nodes' settings |
| `FirmwareUpload`, `FleetFlash` | the unit's own update; updates pushed to nodes | page, update mode, image; loops |

`StreamProofs`, `ServicesProofs`, `PageProofs`: section 5. `MCDiscovery`,
`MCServices` and `MCPage` choose what is run. The last two are unions: components that share no state are run one at a
time in one run, which one being chosen in the initial state, and each property says what it asks of which component.
`MCPage` has two specifications, `Spec` for the parts that a user drives and `LiveSpec` for those that poll.
The sizes and inputs of both are constants, which `Services.cfg`, `Page.cfg` and `PageLive.cfg` give values; the theorems
are about them all.

Components interact in the models as they do in the code: `Sockets` composes the web server, the scanner, discovery's
probes and the USB link over the chip; `Eeprom` composes all five users of the EEPROM; `Boot` the settings, the wizard
and the API; `DhcpServer` the server with its clients; `FleetClock` several units; `Wizard`, `ScanPanel` and
`FirmwareUpload` the page with the handlers of the unit, and `Backup` the page with the nodes.

## 3. Runs and bounds

Every `VARIABLE` is finite without constraints; the bounds are constants, named and explained in each module.

| run | instance | what it shows |
|---|---|---|
| dhcp_leases | 2 clients, 2 slots, a pool of 3 with the server's own address and a foreign host in it, lease 1, clock 3, buffer 1 | leases of this boot are never forgotten, doubled or moved, and stay servable; the table implements `LeaseBook` |
| dhcp_reboot | one pool of 2, lease 2, clock 5 | finding 1 |
| discovery | two instances: 2 devices (one garbled), 2 slots, 2 addresses, 1 reboot; and an older and a foreign device, 1 slot, clock 8, retry 2, re-probe 5 | one entry per device, what was learned survives; moves and silence are noticed in time |
| fleet_clock | 3 units, the real ratio 5 : 3 : 1 of TTL, listening and beat, clock 6, 3 joins, 1 leave, prompt loop() | no jump in a calm fleet; one leader and one clock in the end, calm or not |
| fleet_gap | as fleet_clock with a clock of 8 | finding 2 |
| boot | counters' limits 2 and 4 for 5 and 10, 2 saves, 6 restarts, 2 cable moves | settings kept and applied, update mode ends, the unit comes up |
| eeprom_tags | real addresses, records 0 and 1, 1 reboot | finding 3 |
| sockets | 4 sockets, 3 hosts (silent, refusing, open), 2 ports, fallback server, browsers, stalls | UDP sockets stay, none is lost, a scan ends and, undisturbed, is right, a listener returns |
| services | fifteen small components, one at a time | see below |
| page | ten parts of the web page, one at a time | what is shown is true, a save reaches its node, nothing of the fleet is lost |
| page_live | seven parts that poll, one at a time | requests, searches and flashes end; who stays sees the truth |
| answer_cut | ring of 4, a list of 6 | finding 4 |

Why these are enough:

* *DHCP.* A clock of 3 with a lease of 1 wraps, so that deadlines lie on either side of the wrap and a lease in
  force is compared with both. Two clients are what every conflict takes (an owner and a claimant). Full table,
  exhausted pool and requests for the own address all happen. The proofs of section 5 hold for every value of these;
  `HolderInv`, which they rest on, was first checked with one slot and a buffer of 2, in which a retired packet stands
  in front of a current one.
* *Discovery.* The properties relate one or two devices and one or two addresses; a swap needs two of each. A full table
  is `SlotCap = 1` with two devices. `MaxPass` and `MaxProbe` of 1 let every timer fire early, in time and late.
* *FleetClock.* Three units are a leader, its successor and a newcomer. The code's constants are 5000, 3000 and 1000 ms,
  and their ratios are kept; `Step` 2 is the least that tells a step from a drift. The clock's modulus is more than twice
  the step, so every error has a sign. The first unit's
  clock is where true time is counted from; every later one starts anywhere.
* *Boot.* The limits are compared with counters that go up by one; with 2 and 4 the order of the two thresholds and of
  `WdtUpdate` (1 for 3) is kept.
* *Eeprom.* Regions overlap at their ends or not at all; records 0 and 31 (in services) are the ends, 0 and 1 (in
  eeprom_tags) the first that tags meet.
* *Sockets.* Four is the real number. Three hosts cover the three answers, two ports the step to the next port.
* *services.* Tables of 2 slots and 3 senders (one too many); a queue of 4 slots of which the retry period lets three be
  reached and the last starve; numbers below, at and above the
  width of the field (250, 255, 300) for the network settings, which are what the clips tell apart; a line buffer of 2
  for lines of 1, 2 and 3; rings of 4 and 8 bytes with pointers of twice that, filled, emptied and wrapped; an upload buffer of
  3 for files that resemble the boundary in six ways; two DHCP servers; an LED clock of 12, which is longer than its periods
  together and comes round within the run; a cycle counter of 8 bits, started at its least value,
  before 0, before the end of the signed range, and in between. Reports has the real widths.
* *page, page_live.* Most hazards take two of something: two visits, two nodes, two ports, two requests under way, one
  change between them; the constants of the two configurations give exactly that. Where a third matters it is there
  (three changes while two flashes run; three tabs opened). A node's queue of two (`SearchQueue`) has a search and a poll
  of the one before it; two loads (`MaxLoads`) are what a tab left and opened again has under way.

What the properties of the unions ask of each component:

| run | property | components: their definitions |
|---|---|---|
| services | `ListsTrue` | ArtMonitor: who was heard last is listed and nobody else (`MonitorTrue`); Reports: what is sent is whole, and tags always fit |
| | `PoolServable` | NetworkConfig: `PoolFits`, and a legal pool is taken as asked (`LegalPoolKept`) |
| | `LedTrue`, `ColourInTime` | StatusLed: ten seconds of flashing, green only if a node was online lately, with the two exceptions of section 6; PixelDriver: the bits arrive, waits end in time unless the counter's sign changed, and interrupts come back |
| | `SerialInStep` | SerialLink: only whole lines run, one reply each, the web server gets its transport back |
| | `AnswersTrue` | HttpGet, TestFrame, HttpRequest, DhcpClient: what is returned is what was sent, in the time allowed |
| | `StreamsKept` | SocketSend, SocketReceive, UploadForm: bytes in order, once; a file without its boundary |
| | `StoredStays`, `AllAnswered` | Eeprom and NetworkConfig across boots; what is begun ends (serial commands, sends, receptions, requests), and the handler of an upload hears of a browser that went away in the file |
| | `ReachedIsProbed` | ProbeQueue: a slot in front of which one round of probes is shorter than the retry period is probed again and again |
| page | `OwnPagePainted`, `ShowsTruth` | PageRouter; and the timer of the open page, the text being typed, the output behind the faders, the conflicts listed |
| | `SavesReachTheirNode` | Wizard, NodeDetail, TimecodePage, NodesList - for a user who waits for a page to load, see section 6 |
| | `FleetKept` | TagStore, Backup, FirmwareUpload |
| page_live | `ReachTheirNode`, `EditKept` | NodeCalls (one request a node), RdmDiscover, DisplayTab, FleetFlash; RdmTable |
| | `AllEnd`, `AllCatchUp` | NodeCalls, RdmDiscover, FleetFlash, ScanPanel; RdmTable, SwitchPage, DisplayTab, ScanPanel |

Deadlock detection is off in six configurations. In `Boot.cfg` a unit without a cable really waits in ethernetStart.
In `Services.cfg`, `Page.cfg`, `PageLive.cfg` and `AnswerCut.cfg` some components do one thing and are done: a list has
been sent, a parser has returned, the user's bounded number of clicks is spent. All other runs detect deadlock, and
there is none.

## 4. Fairness

Safety runs assume none. The liveness properties assume what `loop()` and the browser's event loop guarantee and no
more:

* `FleetClock!FairSpec`: time advances, and each unit that runs goes on reading packets and calling poll(). `OneLeader`
  and `OneClock` are of the form "eventually always", which the bound on joins and leaves turns into "once units stop
  coming and going".
* `Boot!FairSpec`: setup() goes on when it can, six seconds pass, loop() looks at its flags. Nothing is assumed of
  the cable; `ComesUp` has it as its premise.
* `Sockets!FairSpec`: loop() goes on and the scanner's deadline passes. Nothing is assumed of browsers or hosts:
  `ScanEnds` has as its premise that sockets keep coming free, and `ListenerReturns` that no connection to port 80 is
  held for ever, because the server itself closes none.
* `MCServices!Spec`: the loop() of each component goes on, the PC goes on typing, the peer of a connection goes on
  taking bytes or goes away (socketSend has no timeout: with a peer that does neither, it waits for ever), the sender of
  a stream goes on.
* `MCPage!LiveSpec`: a request is answered or fails, a timer that is set fires, and a callback that is due runs. Strong
  fairness is assumed of success, and only for the properties that a page catches up: a node that is asked again and
  again answers some time. `nodeApi` aborts a request by its own timer; but see the last part of section 6.

## 5. Proofs

TLAPS proves the following for every value of the constants that satisfies the assumptions named in the modules.

| module | theorem | statement |
|---|---|---|
| `DhcpServer` | `TypeCorrect`, `LeasesStayDistinct` | `[]TypeOK`, `[]LeasesDistinct` |
| | `HolderInvariant`, `HoldersStayBacked`, `HoldersStayDistinct` | `[]HolderInv`, `[]HoldersBacked`, `[]HoldersDistinct` |
| | `LeasesStayServable` | `[]LeasesServable`, if every boot finds the same configuration |
| | `AckedLeasesStay` | `AckedStays`: no packet moves a client that holds a lease |
| | `ServerImplementsBook` | `ImplementsBook`: the refinement of `LeaseBook` |
| `Boot` | `SavedGetsApplied`, `UpdateIsAsked`, `SettingsStay` | `[]SavedIsApplied`, `UpdateByFlagOnce`, `SettingsKept` |
| `Sockets` | `TypeCorrect`, `SocketsStayOwned` | `[]TypeOK`, `[]SocketsOwned` |
| | `QuietScanIsTrue` | `[]QuietReportTrue`: what a scan reports while nobody connects and loop() is in time |
| `Discovery` | `TypeCorrect`, `RowsAreKept` | `[]TypeOK`, `[](DevicesDistinct /\ IdentityKept)` |
| | `PeriodsHold` | `[](MovedIsReprobed /\ OnlineIsRecent)`, while millis() does not come round |
| `MCDiscovery` | `RowsHold` | `[]RowsStay`: the same of the instance the run checks |
| | `MovesAreFollowed`, `SilenceShows` | `[]MovesAreNoticed`, `[]SilenceIsSeen`, while millis() does not come round |
| `ServicesProofs` | `StreamsHold` | `[]StreamsKept`: SocketSend, SocketReceive (their half is in `StreamProofs`) and UploadForm |
| | `PoolStaysFit` | `Net!Spec => []Net!PoolFits`, for any numbers and fallback addresses in the requests |
| | `ListsShow`, `PoolStaysServable` | `[]ListsTrue`: ArtMonitor, Reports; `[]PoolServable`: NetworkConfig |
| | `LedShows`, `ColourComes` | `[]LedTrue`: StatusLed, over any number of rounds of millis(); `[]ColourInTime`: PixelDriver, from any count |
| | `SerialKeepsStep` | `[]SerialInStep`: SerialLink |
| | `StoredKeeps` | `StoredStays`: Eeprom and NetworkConfig across boots |
| | `AnswersHold` | `[]AnswersTrue`: HttpGet, HttpRequest (their half is in `StreamProofs`), TestFrame and DhcpClient |
| `PageProofs` | `PageShowsTruth` | `[]ShowsTruth`: PageRouter, NodesList, TestDesk, FleetTables |
| | `SavesArrive` | `[]SavesReachTheirNode`: Wizard, NodeDetail, TimecodePage, NodesList |
| | `FleetStaysKept` | `[]FleetKept`: TagStore, Backup, FirmwareUpload |
| | `PagesPaintOwn` | `OwnPagePainted`: PageRouter |
| | `CommandsArrive`, `EditsAreKept` | `[]ReachTheirNode`: NodeCalls, RdmDiscover, DisplayTab, FleetFlash; `EditKept`: RdmTable |

The assumptions are about the constants only; TLC evaluates them in every run. `DhcpServer` has `MacAssumption`,
`SizeAssumption`, `ClockAssumption` (a lease, and the longest time between two ticks, are less than half the clock - the
code's 16-bit number of seconds guarantees the first), `ConfigAssumption` (what networkConfigApply leaves of a pool:
`PoolStaysFit` is the proof that it does) and `AddrAssumption`. `MCServices` has `Parameters`, the sizes
each component needs, and `Circumstances`, which is more than the code guarantees and is said of each component by name:
`Monitor!Young`, the unit has not been up for the 49.7 days after which millis() comes round, and only
finitely many addresses send; `Form!Apart`, the boundary a browser has
chosen is not in the file and has no CR in it. `MCPage` has `Parameters` too: numbers are numbers, sets are finite,
the model's names for "no node" or "no page" are not those of a node or a page (`Sizes`, `PageOK`, `FirstOK`,
`Disjoint`, `UidsOK`), and a round of the status poller is not round 0, which is the user's (`TicksOK`). One part of it the page
does not see to: a fleet has no more DMX ports than there are Art-Net addresses from 0 to the limits (`List!Sizes`).
`PeriodsHold` and the two theorems made of it have the hypothesis `~Wraps`, which is the instance the run checks; with
a wrap they are false (section 6). `TimedAssumption` says the periods fit the longer clock of `MCDiscovery`'s second
instance.

*DHCP.* `LeasesDistinct` is inductive with `TypeOK`: an address enters the table only through `PickAddr`, whose
result is not in the table (lemmas about `Least`, `PickAddr` and `Allocation`), a client only when it has no slot.
`HoldersBacked` is not inductive: that a holder's lease is in the table now says nothing of the next expiry or of the
packets still in the queue. `HolderInv` adds the two facts that are missing. First, the lease ends for the server no
sooner than for the client, and within one lease time, so that the signed difference of two wrapping clocks has the
right sign (lemmas about `Wrap` and `Since`). Second, `GiveBackLast`: a RELEASE in the queue comes from a client that
holds nothing, and nothing that client sent before it can still be answered - the xid is what makes the late RELEASE
harmless. `HoldersDistinct` then follows from `HolderInv` and `LeasesDistinct`.
`LeasesServable` needs the same of the image (`ServableInv`), and that all boots agree on the pool: without that it is
false, see section 6. `AckedStays` needs to know what a holder may still have in the queue (`RenewalsAsk`): every
REQUEST of its that can be answered asks for the address it has, and by `HolderInv` that is the one allocateLease finds
first. The refinement maps the table to the book by client; each action either leaves the book alone, adds one pair
whose two halves are new, or takes pairs away.

*Boot.* `SettingsKept` is not inductive because RAM and flash differ between the parts of setup(). `BootInv` says when
they agree (from eepromLoad on), what each counter bounds, and that a configuration differing from the running one has a restart coming or was left to whoever saved it (`told`); the three theorems follow from it step by step.

*Sockets.* `OwnerInv` says by number who may own what: the UDP sockets belong neither to the server nor to the scanner,
a scanner at rest has no socket, and every other open socket is the server's or the scanner's. It is stated of a chip, a
server and a scanner that are arguments (`Good`), because one pass of handleClient or of the scanner goes through states
in between. That scanner and server may have the same socket - the alias of section 6 - is allowed by it: ownership
survives the alias, only the report does not. `Told` says what the report rests on in the quiet case: a socket that is
trying or has succeeded is the scanner's and stands for its host and port, and the scanner's socket is in any other
state - closed, or taken again by the web server or a probe - only because the host has answered.

*Discovery.* `RowsAreKept` rests on two lemmas: what nodeRegistryNoteSeen (`SeenSlot`) and a probe (`ProbeSlot`) can do
to the table, whichever slot they find; a name enters the table only together with the image of the whole table.
`PeriodsHold` needs to know how late loop() may be with the expiry: `PassInv` bounds statusTimer against the clock at each
place of the pass (at "drain" it is late by one pass at most, at "status" by a probe more), and `HeardInv` says of every
node shown online that statusTimer is at most the offline period and one status period after it was heard. `MovedIsReprobed`
is then inductive: a move makes the probe due at once, and a probe that fails puts it off by the retry period. The
theorems of `MCDiscovery` cite those of `Discovery` twice, plainly and through the instance `Timed`, whose constants
are shown to satisfy the assumptions (`TimedAssumptions`).

*The services* (`BeginsAs`, `Moves`: while a component is chosen, Next is its next-state relation). Each has an
invariant of its own:

* *NetworkConfig.* `NetClips` is the arithmetic of the clips; `(254 - start) % 256` cannot wrap because the start was
  clipped first. That a legal pool is taken as asked is inductive with it.
* *SocketSend.* `RingInv`: the ring holds the bytes that follow those the browser has, up to the last that the handler put
  there, each in the slot its number says (`RingSlot`: pointers that run round a multiple of the ring's size still find
  their slot). `AnswerInv` ties what was put there to how far the handler is, until the connection is cut.
* *SocketReceive.* The pointer the driver keeps runs ahead of the chip's by what it took and has not told (`PointersInv`),
  and what is between it and the writer is, seen as one sequence (`Left`), the rest of the stream (`TcpInv`), or
  whole datagrams behind the rest of one (`Packets`, `UdpInv`). Lemmas say what adding a datagram, taking a header,
  taking some bytes and dropping the rest do to such a sequence.
* *UploadForm.* `PartInv`: the bytes handed over, those in the buffer and the piece of the boundary that is being compared
  make up the first part of what the browser sent - whatever in the file looks like the beginning of the boundary is put
  back. With `Apart` the comparison succeeds only at the end of the file (`MarkOnce`).
* *Eeprom.* The leases in the EEPROM are intact or were never stored, because `FieldFacts` places every field of
  every record, and no other part's fields lie in theirs (`NobodyElse`). Of the nodes and tags the same is false (finding 3).
* *SerialLink.* What waits in the receive buffer is a stretch of what was typed (`Stretch`), the line buffer the beginning
  of the line it belongs to, all of it unless it ran over (`Begun`), and replies are to lines that are over, each later
  than the one before (`Replied`) - until a byte was lost.
* *StatusLed.* `LocateInv` ties the deadline to the last request, and says that an old deadline is taken down before the
  clock is back there; `GreenInv` the counts to the time when a node was online: the registry is looked at once a period,
  the LED once a tick, and a pass may be long in between. Both are stated of a clock modulo `LedClock` (`Around`, `Distance`).
* *ArtMonitor.* `TableInv`: an entry has its sender's last stamp, no sender has two, and a sender that was heard and has
  none was silent for longer than all who have one, with the table full. That everybody is listed when there is room then is
  a count: were one missing, the entries and the one would be more than the table has slots.
* *Reports.* A row has a longest form (`TextWidths`, from the formats), and the guards leave room for one more row and the end.
* *PixelDriver.* As long as nothing has crossed the end of the signed range, a finishing time is the count at which the wait
  began and the time of the pulse (`WaitInv`), so the signed comparison is the one that was meant; then a pulse has its
  bit's side of the threshold, and the LED has read the bits whose pulses are over (`ReadInv`).
* *HttpGet.* The answer is a header of any number of lines and a body (`HeadIs`, `StreamIs`: which byte stands where).
  `GetInv`: crlf counts what stands before the byte that comes next, so that the search ends behind the header and not
  before (`CrlfStep`); what is in the buffer is the body up to where the reader is. `GetTime` bounds the clock by the
  deadline, one wait, and the reads since the deadline was looked at.
* *TestFrame.* `BuiltIs`: after the list of channels was worked off, a channel has the value that the last pair for it
  asks for, or the fill - for lists of every length (`WantedNext`: what one pair more changes).
* *HttpRequest.* `ReqInv` places the lines of the request in what the browser sends (`LineStarts`): the parser is in a
  line (`InLine`) and has of it what was read, or a byte came so late that what it takes for a line is the rest of one
  (`OutOfStep`) - it looks like none of the headers the parser knows and ends them. `ArgumentsAre`: what
  `_parseArguments` does with a query, seen from its places (`ArgumentsFrom`), is what cutting it at its "&" gives.
* *DhcpClient.* `DhcpInv`: an ACK on its way is by a server that has acknowledged, and the clock is at most a wait behind
  the timeout in each state.

*The page* (`PageProofs`; `PageBegins`, `PageMovesOn`, `PollBegins`, `PollMovesOn` do for it what `BeginsAs` and `Moves` do for
the services). What a user sees is hardly ever inductive, because what comes next depends on answers under way:

* *PageRouter.* `TimerIsOwn` is inductive once intervals are numbers. `OwnPagePainted` is proved step by step (`RouterPaints`):
  whoever paints has asked which page is open, except in the late paints that the property names.
* *TestDesk.* `DeskInv`: frames have numbers; the newest is under way or is the output, and shows what the desk shows
  unless the timer is still to send a newer one (`DeskShows`).
* *FleetTables.* A table is built once, from all the answers (`FleetInv`); the rest is that a conflict is a set of more than
  one element (`TwoAre`), for each of the three tables.
* *NodesList.* `TypingInv` for the search field. For the bulk operation, the addresses that were given are behind the walk: `Num`
  numbers them, `Apart` says that an address already given is not among the next k the walk will give, and `BulkInv`
  has it for as many as there are ports left; so addresses differ although the walk wraps, as long as there are no more
  ports than addresses (`List!Sizes`).
* *Wizard.* What is on its way to the unit, in order, decides where the unit will be. `WizardInv` says which requests can follow
  which (`Orderly`) and what the page knows of the last one (`PageKnows`).
* *NodeDetail.* The document's elements are found by id, so a visit may fill and wire those of another. Without haste all visits
  under way are to one node (`OneNode`), and slots, forms and buttons belong to visits of the page's node (`SlotsOK`, `MarkupOK`);
  and unless another node has taken a visit's address, its node answers there or nobody does (`HoldersOK`).
* *TimecodePage.* A save in its second step was accepted, and the form of a page left alone is that of every save under
  way (`SavesOK`).
* *TagStore.* What a migrating browser has not sent yet is in its own store (`Sending`), what it has sent is on the unit or
  lost (`Sent`).
* *Backup.* Without a stir every node has settings of its own, and so has its place in the file (`BackOwn`), what is to be
  read or written is where the list says (`BackWay`), and the sets of the summary part the file's nodes (`BackParted`).
* *NodeCalls.* `Right`: of the calls to an address, in the order they were made, a beginning is over, at most the next is out,
  and each of the others waits for the one before it. So at most one is open, for any number of rounds (`CallsGives`);
  what the cleanup of an ended call does to the chain is `RightCleans`.
* *RdmDiscover, DisplayTab, FleetFlash, FirmwareUpload.* As long as the user has not swayed, port, node and file are what they
  were when the request was made. *RdmTable.* `EditKept` needs no invariant: a poll and the
  details ask for the focus first, and the steps that do not ask are the ones it names.

Where an invariant speaks of sequences of every length - what FlattenSeq joins, the arguments found from a place on, the
channels after some pairs - there is no induction theorem to use. The proofs take the least length at which the
statement fails (`HasLeast`, from `WFMin` on the natural numbers) and refute it from the length before; that the
recursive functions exist at all is shown in the same way (`Chained`, `ArgsExist`, `OverridesExist`).

Each proof has a step per action, and under it one per conjunct the action can disturb.

Model-checked only: the fleet clock's action property `NoJump`, and all liveness: that a scan ends, a listener
returns, a slot in reach is probed, the unit comes up, one leader and one clock, that everything begun is answered, and that
pages end and catch up. Liveness under fairness and `ENABLED` are beyond the prover. `NoJump` is out of reach for
another reason: it holds because a unit that listens hears enough beats to halve its error before it may lead, so an
invariant would have to count beats against time; and it is not true of all constants (Step, Listen and Every have to
fit each other). In `ArtMonitor` a clock that comes round is covered neither by a proof nor by a run (`Young`).

## 6. Where code and documentation disagree

Four are runs of the project (`findings` in `PROJECT.json` has the lines and quotations):

1. **A lease got in the ordinary way is not saved** (`DhcpReboot.cfg`, `RenewalSurvivesReboot`). The ACK saves only when
   the REQUEST itself took the slot (dhcpServer.cpp:428); after a DISCOVER it never does. After a power cut the renewal
   may be refused, which CHANGELOG.md:12 says restoring leases is there to prevent.
2. **A unit that starts between two beats makes the fleet jump** (`FleetGap.cfg`, `NeverJumps`). Listening takes 3 s, but
   after the leader is gone nobody beats for up to 5 s (FleetClock.h:53).
3. **Node tags are overwritten by the node cache** (`EepromTags.cfg`, `TagsComeBack`). Their region lies inside it
   (nodeTags.h:22).
4. **A list of some twenty nodes never comes whole** (`AnswerCut.cfg`, `ListComesWhole`). An answer of more than the
   transmit ring's 4096 bytes is cut (socket.cpp:429) while its Content-Length announces all of it; the browser waits on
   a connection that nobody closes. api.cpp:271 says 32 nodes "fit comfortably".

Others were met while modelling. Each has a property in its module; replace the properties of the configuration named,
and the constants where given, to see TLC's counterexample.

| configuration, module | property and constants | what happens |
|---|---|---|
| DhcpLeases, DhcpServer | `NoLeaseOutlivesItsTerm`; ClockSize 7, Configs <- OnePool, Foreign {}, ReqAddr {0, 256} | a REQUEST that is refused leaves its slot with the deadline of a previous user (dhcpServer.cpp:417), which a wrapped clock may take for the far future |
| DhcpReboot, DhcpServer | `NeverLeasesItself`; Configs <- TwoPools, ReqAddr {0, 9} | leases are restored without a look at the new configuration (dhcpServer.cpp:494) |
| Discovery, MCDiscovery | `OfflineIsSeen`; one device and address, Kind <- AllModern, Wraps TRUE, ClockSize 16, PollPeriod 2, RetryPeriod 4, ReprobePeriod 6, OfflineAfter 3, MaxProbe 2, MaxBoots 0 | `statusTimer < millis()` (main.cpp:160) fails for a whole round of the clock when a blocked pass skips the wrap |
| Discovery, MCDiscovery | `VerdictsStay`; ClockSize 6 | an answer that is not JSON is not saved (discovery.cpp:318) |
| ProbeQueue | `EveryNodeProbed` (4 slots, probe and pass 1, retry 5, as in Services.cfg) | every pass probes the first slot that is due; when the slots in front take a retry period to fail (some ten dead addresses at a second each) they are due again before the others are reached, which never are (discovery.cpp:342; discovery.cpp:46 calls one probe a pass "fast enough") |
| FleetClock | `NoJump`; 2 units, Clock 8, MaxStall 1, MaxJoins 4 | a beat that waits out an identify probe is read as the time of now (FleetClock.h:95); `OneLeader` holds even so |
| Boot | `UpdateThisBootOnly`; MaxSaves 0 | after watchdog resets an ordinary restart enters update mode again (main.cpp:115) |
| Boot | `FactoryResetUsbOnly`; ResetTop 5, WdtTop 10, WdtUpdate 3, MaxEvents 8 | five short power-ups wipe the settings (store.cpp:55); the real limits |
| Boot | `RestartsItself` | a save outside the wizard changes the stored settings only; the unit says that a restart is needed and leaves it to the page (api.cpp:713) |
| Boot | `LinkShown` | the link flag is never taken down (startFunctions.cpp:49) |
| Sockets | `ReportsTrue`, SPECIFICATION Spec; Fallback FALSE, Stalls FALSE | a refused probe leaves the scanner's number on a closed socket; the web server's next listener takes it, a browser connects, and the scanner reports an open port and closes the browser's connection (scanner.cpp:88-92) |
| Sockets | `ReportsTrue`, SPECIFICATION Spec; Fallback FALSE, Browsers FALSE | the chip's own timeout is read as a refusal (scanner.cpp:92) |
| NetworkConfig | `LeaseAsAsked`; a lease of 86400 | a lease time that does not fit 16 bits becomes 0 and is then clipped to a minute (api.cpp:651) |
| NetworkConfig | `OperatorsAddress` | an address leased from upstream is written into the settings and, after DHCP is switched off, is the "static" one (startFunctions.cpp:123, main.cpp:137-141) |
| NetworkConfig | `PoolAboveOwn`, `PoolHasRoom` | nothing ties the pool to the fallback address: it may begin below it, or consist of it alone, so that no client gets an address ("Pool must fit between the configured fallback IP's last octet and 254", api.cpp:653) |
| StatusLed | `RedWithoutLink` | the LED does not tell a link that is down |
| StatusLed | `LocateTenSeconds` without `asked # Late` | a locate less than ten seconds before millis() comes round flashes too long, or not at all (statusLeds.cpp:85) |
| StatusLed | `GreenIsRecent` without `~Stranded` | a status timer left in the last pass of a round keeps the LED green (main.cpp:160) |
| PixelDriver | `WaitBounded`, `ColourArrives`; Begins {100, 121} | the counter is compared as a signed number (ethWs2812Driver.cpp:144, "If finishtime >= nowtime -> loop again"). A finishing time beyond the sign change is over at once, and the LED reads another colour; one just below it that the poll steps over lies ahead of every later count, and the wait lasts a turn of the counter (27 s), interrupts masked |
| Reports | `NodesShown`, `LeasesShown` | 32 nodes with long names, or 21 leases, are answered with 500 |
| HttpGet | `CutIsToldApart` | an answer that was cut is taken for one that is not JSON, and the node for another maker's (nodeRegistry.h:26) |
| HttpGet | `LoopKeptByNone` | a node that sends without a gap keeps the reading loop from looking at its deadline (discovery.cpp:250, 273): loop() is kept for as long as that lasts, in the body as long as the buffer has room |
| SerialLink | `NeverMixed` | bytes lost while loop() is busy run two lines into one |
| TestFrame | `OnlyAskedChannels` | an odd length sends a byte of an earlier frame (api.cpp:399, discovery.cpp:376) |
| UploadForm | `FileComes` | a file ending in CR LF "--" swallows the boundary; the upload never ends |
| UploadForm | `ComesBack` | a browser that goes away in a line of the part's head or in the final "--" leaves `_parseForm` in a loop that does not look at the connection (Parsing-impl.h:829, 1004-1014): the unit hangs |
| HttpRequest | `LateIsRefused` | a header line a second late is taken for the end of the headers; the handler runs without its body, and an upload is answered with success |
| DhcpClient | `RequestsOwner` | after the first server goes silent, the REQUEST names the wrong server |
| NodeDetail, TimecodePage | `ActsOnItsNode`, `OwnRouting` | a page still loading wires the forms of the page opened after it; and a page calls the address its node had (index.html:2877, 2947, 2973), though another node may have taken it: a save or a factory reset goes to the other node |
| RdmTable | `EditKeptByAll` | a poll that finds Port A out of RDM mode (index.html:3427), or the second of two loads of the tab (3391), replaces the pane under an address being typed |
| PageRouter, SwitchPage, DisplayTab | `NoTimerLeft`, `TornDown`, `PollsWhenVisible` | intervals set after the page was left run for ever (comments at index.html ~1860 and 2590 say they are torn down) |
| NodesList, TestDesk, ScanPanel | `ClearClears`, `DeskIsOutput`, `ReflectsScan` | Clear does not clear; an overtaken frame undoes Blackout; a scan found running is shown once and never followed |
| FleetFlash, FirmwareUpload | `OneAtATime`, `UploadedRuns` | a change while flashing starts a second loop; an upload served within the second before the restart leaves the new firmware in update mode |

The modules that are part of a union are checked alone with their constants as in the union's `INSTANCE`.

Without a property of their own, noticed on the way: a body with nothing but a pool is refused although
"Every field is optional" (api.cpp:609, 623); names and labels go into JSON unescaped (api.cpp:293, 492);
"Failures are reported in the node's error field" (collectBackup) is not so, a setting that fails is null; the page's
"Every call has a time limit" does not cover a body that stalls after its header; httpGet misses an empty line that
follows a stray CR; firmUpdate.cpp restarts after a failed upload too, though its header says on success;
`_uploadReadByte` has no timeout at all;
`Ethernet.maintain()` is never called, so masterETH's own lease is never renewed.

## 7. What is not modelled, and why

* *Bytes.* DHCP options, ArtPollReply fields and JSON are read and written by straight-line code; the models
  start from the fields the decisions use. A tag's label and a node's strings are identities.
* *Losses inside one network segment* in `FleetClock`, and drift between crystals. A full inbox does drop beats. Ages
  saturate: that a stamp 49.7 days old looks new again for a moment is left out.
* *EEPROM.commit().* A power cut while the flash sector is erased loses everything; that is inside the core.
* *The firmware image.* Its bytes go to the core's updater; `UploadForm` has how they are cut out of the request,
  `FirmwareUpload` what the unit does before and after.
* *Vendored code that nothing calls:* DNS, the HTTP client, authentication, static files, websockets of
  EthernetWebServer; renewal in Dhcp.cpp. *Register access over SPI* (w5100.cpp) has no state of its own.
* *Web page:* HTML, styles and drawing; the Scenes tab, the self-test page and the settings forms that read once and
  post once; wording. Two pages open in one browser tab do not exist; two browsers are modelled where they meet
  (`TagStore`, `Backup`, `ScanPanel`).
* *Brightness of a breath, strip functions, doPixelDouble:* nothing depends on them or calls them.
* *Self-test:* reads the state of others once. *Flashing tools:* scripts on a PC.

## 8. Plan

Done, in this order: (1) `LeaseBook`, `DhcpServer`, its proofs; (2) `Discovery`, `ProbeQueue`; (3) `FleetClock`;
(4) `Boot`; (5) `Eeprom`; (6) `Sockets` with the liveness of its listener; (7) `NetworkConfig`, `ArtMonitor`,
`SerialLink`, `StatusLed`, `PixelDriver`, `HttpGet`, `TestFrame`, `Reports`; (8) the web page; (9) the vendored stack;
(10) the refinement of `LeaseBook`, and the proofs about `Boot`, `Sockets`, `Discovery` and `NetworkConfig`; (11) the
proofs about the periods of `Discovery`, about the streams, the other services and the parts of the page, all of whose
invariants are proved.

Left to prove: `NoJump` of `FleetClock`, from an assumption that says how many beats a listener hears. Left to model: a bound
on how long a slot of `ProbeQueue` in reach waits; a clock that wraps in `ArtMonitor`; the composition
of `SocketSend` with `Sockets` (a send that blocks keeps every other part waiting).
