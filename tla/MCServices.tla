---------------------------- MODULE MCServices ----------------------------
(***************************************************************************)
(* One run for the firmware's small components, which share no state: the  *)
(* component is chosen at the start and its own next-state relation does   *)
(* the rest.  Its variables are the first of x1, x2, ..., in the order of  *)
(* the INSTANCE below; the others stay 0.                                  *)
(***************************************************************************)
EXTENDS Integers, Sequences

CONSTANTS
  Sender, Nobody, MonSlots, Fresh, MonClock, MonEnd,                \* ArtMonitor
  QueueCap, RetryPeriod, ReprobePeriod, MaxProbe, MaxPass,          \* ProbeQueue
  Rec, MaxBoots,                                                    \* Eeprom
  Chosen, Factory, Leased, Owns, Absent, Starts, PoolSizes, Leases, NetBoots, \* NetworkConfig
  TickPeriod, NotePeriod, LocatePeriod, StalePeriod, LongPass, LedClock, Fallback, \* StatusLed
  Bits, HighOne, HighZero, LowOne, LowZero, Threshold, PollCycles, IsrCycles, Half, Begins, \* PixelDriver
  Script, LineMax, TickMax, RxMax,                                  \* SerialLink
  AnswerBodies, MaxLines, OutCap, Timeout, YieldMax, ReadMax,            \* HttpGet
  Universe, Channels, FullScale, Asked, Pairs,                      \* TestFrame
  TxBuffer, TxPointers, PageChunk, Lists, Pages,                    \* SocketSend
  RxBuffer, RxPointers, Lazy, Header, StreamBytes, Datagrams, ReadSizes, \* SocketReceive
  Files, Boundary, UploadBuffer,                                    \* UploadForm
  Queries, PostBodies,                                              \* HttpRequest
  Servers, DhcpTimeout, ResponseTimeout, MaxXid                     \* DhcpClient

VARIABLES component, x1, x2, x3, x4, x5, x6, x7, x8, x9, x10, x11, x12, x13

\* CCOUNT far from its edges, where it comes round as a number without sign, and
\* near the change of its sign.
SomeCounts == {-128, -64, -5, 20, 60, 100, 121}

FourLines == << [what |-> "noise", size |-> 1], [what |-> "route", size |-> 2],
                [what |-> "hello", size |-> 3], [what |-> "route", size |-> 1] >>
TwoBodies == {<<"b">>, <<"b", "r", "n", "b">>}
InAndOut  == {-1, 3, 9}
SomePairs == {<<>>, << <<3, 1>>, <<3, 0>> >>, << <<4, 5>>, <<0, 1>> >>}
FourDatagrams == <<3, 0, 5, 1>>
\* Files that resemble the boundary <<"b", "c">> and what stands before it.
TwoBytes == <<"b", "c">>
SixFiles == {<<>>, <<"r", "r", "n">>, <<"r", "n", "-", "b">>, <<"b", "c", "r", "b", "c">>,
             <<"r", "n", "-", "-", "b", "r">>, <<"r", "n", "-", "-", "b">>}
SomeQueries == {<<>>, <<"&", "=", "&", "a", "=", "a", "=", "&", "a">>}
SmallBodies == {<<>>, <<"=", "r", "n">>}

Monitor == INSTANCE ArtMonitor WITH
  table <- x1, entry <- x2, time <- x3, heard <- x4
Queue == INSTANCE ProbeQueue WITH
  wait <- x1, probed <- x2
Eeprom == INSTANCE Eeprom WITH
  inUse <- x1, good <- x2, kept <- x3, intact <- x4, done <- x5, boots <- x6
Report == INSTANCE Reports WITH
  at <- x1, done <- x2, off <- x3, reply <- x4
Net == INSTANCE NetworkConfig WITH
  ram <- x1, flash <- x2, net <- x3, mode <- x4, live <- x5, unsaved <-
  x6, fresh <- x7, booted <- x8, Sizes <- PoolSizes
Led == INSTANCE StatusLed WITH
  pc <- x1, bootMode <- x2, linkUp <- x3, counts <- x4, amber <- x5,
  lastTick <- x6, locateUntil <- x7, shown <- x8, statusTimer <- x9, registry
  <- x10, now <- x11, asked <- x12, heard <- x13
Pixel == INSTANCE PixelDriver WITH
  driver <- x1, data <- x2, sent <- x3, phase <- x4, masked <- x5, ccount
  <- x6, until <- x7, waited <- x8, read <- x9, crossed <- x10
Serial == INSTANCE SerialLink WITH
  typed <- x1, rx <- x2, lineBuf <- x3, overflowed <- x4, budget <- x5,
  transport <- x6, replies <- x7, lost <- x8
Get == INSTANCE HttpGet WITH
  answer <- x1, arrived <- x2, got <- x3, connected <- x4, stage <- x5,
  crlf <- x6, out <- x7, clock <- x8, deadline <- x9, result <- x10, unwatched <-
  x11, idle <- x12, Bodies <- AnswerBodies
Frame == INSTANCE TestFrame WITH
  dmx <- x1, output <- x2, request <- x3, Full <- FullScale
Send == INSTANCE SocketSend WITH
  job <- x1, at <- x2, off <- x3, asked <- x4, ring <- x5, wr <- x6, rd <-
  x7, sr <- x8, received <- x9, cut <- x10,
  SSIZE <- TxBuffer, Pointers <- TxPointers, Chunk <- PageChunk
Receive == INSTANCE SocketReceive WITH
  kind <- x1, sent <- x2, ring <- x3, wr <- x4, rxRd <- x5, rsr <- x6,
  RX_RD <- x7, RX_RSR <- x8, RX_inc <- x9, remaining <- x10, parsing <-
  x11, got <- x12, heads <- x13,
  SSIZE <- RxBuffer, Pointers <- RxPointers
Form == INSTANCE UploadForm WITH
  file <- x1, arrived <- x2, got <- x3, conn <- x4, stage <- x5, held <-
  x6, endBuf <- x7, buf <- x8, given <- x9, status <- x10, late <- x11,
  BufLen <- UploadBuffer
Request == INSTANCE HttpRequest WITH
  request <- x1, arrived <- x2, got <- x3, stage <- x4, text <- x5,
  skipping <- x6, length <- x7, isForm <- x8, plain <- x9, args <- x10,
  late <- x11, isEncoded <- x12, Bodies <- PostBodies
Dhcp == INSTANCE DhcpClient WITH
  state <- x1, xid <- x2, localIp <- x3, serverIp <- x4, clock <- x5,
  waited <- x6, toServers <- x7, toClient <- x8, rx <- x9, acked <- x10,
  Timeout <- DhcpTimeout

ASSUME Parameters ==
  /\ Monitor!Sizes /\ Queue!Periods /\ Eeprom!Records /\ Net!Addresses /\ Led!Timers
  /\ Pixel!Cycles /\ Serial!Lines /\ Get!Limits /\ Frame!Widths
  /\ Send!Buffers /\ Receive!Buffers /\ Form!Forms /\ Request!Texts /\ Dhcp!Times

\* A monitor whose clock does not come round meanwhile, and a boundary that marks a file's end.
ASSUME Circumstances == Monitor!Young /\ Form!Apart
-----------------------------------------------------------------------------
Unused13 == x13 = 0
Unused12 == x12 = 0 /\ Unused13
Unused11 == x11 = 0 /\ Unused12
Unused10 == x10 = 0 /\ Unused11
Unused9 == x9 = 0 /\ Unused10
Unused8 == x8 = 0 /\ Unused9
Unused7 == x7 = 0 /\ Unused8
Unused6 == x6 = 0 /\ Unused7
Unused5 == x5 = 0 /\ Unused6
Unused4 == x4 = 0 /\ Unused5
Unused3 == x3 = 0 /\ Unused4

Rest3 == <<x3, x4, x5, x6, x7, x8, x9, x10, x11, x12, x13>>
Rest4 == <<x4, x5, x6, x7, x8, x9, x10, x11, x12, x13>>
Rest5 == <<x5, x6, x7, x8, x9, x10, x11, x12, x13>>
Rest7 == <<x7, x8, x9, x10, x11, x12, x13>>
Rest9 == <<x9, x10, x11, x12, x13>>
Rest11 == <<x11, x12, x13>>
Rest12 == <<x12, x13>>

Init ==
  \/ component = "monitor" /\ Monitor!Init /\ Unused5
  \/ component = "queue" /\ Queue!Init /\ Unused3
  \/ component = "eeprom" /\ Eeprom!Init /\ Unused7
  \/ component = "reports" /\ Report!Init /\ Unused5
  \/ component = "network" /\ Net!Init /\ Unused9
  \/ component = "led" /\ Led!Init
  \/ component = "pixel" /\ Pixel!Init /\ Unused11
  \/ component = "serial" /\ Serial!Init /\ Unused9
  \/ component = "get" /\ Get!Init /\ Unused13
  \/ component = "frame" /\ Frame!Init /\ Unused4
  \/ component = "send" /\ Send!Init /\ Unused11
  \/ component = "receive" /\ Receive!Init
  \/ component = "form" /\ Form!Init /\ Unused12
  \/ component = "request" /\ Request!Init /\ Unused13
  \/ component = "dhcp" /\ Dhcp!Init /\ Unused11

QueuePass  == component = "queue" /\ Queue!Pass /\ UNCHANGED <<component, Rest3>>
SerialType == component = "serial" /\ Serial!Type /\ UNCHANGED <<component, Rest9>>
SerialWork == component = "serial" /\ Serial!Work /\ UNCHANGED <<component, Rest9>>
SendStep(A) == component = "send" /\ A /\ UNCHANGED <<component, Rest11>>
ReceiveStep(A) == component = "receive" /\ A /\ UNCHANGED component
FormStep(A) == component = "form" /\ A /\ UNCHANGED <<component, Rest12>>
RequestStep(A) == component = "request" /\ A /\ UNCHANGED <<component, x13>>

Next ==
  \/ component = "monitor" /\ Monitor!Next /\ UNCHANGED <<component, Rest5>>
  \/ QueuePass
  \/ component = "eeprom" /\ Eeprom!Next /\ UNCHANGED <<component, Rest7>>
  \/ component = "reports" /\ Report!Next /\ UNCHANGED <<component, Rest5>>
  \/ component = "network" /\ Net!Next /\ UNCHANGED <<component, Rest9>>
  \/ component = "led" /\ Led!Next /\ UNCHANGED component
  \/ component = "pixel" /\ Pixel!Next /\ UNCHANGED <<component, Rest11>>
  \/ SerialType \/ SerialWork
  \/ component = "get" /\ Get!Next /\ UNCHANGED <<component, x13>>
  \/ component = "frame" /\ Frame!Next /\ UNCHANGED <<component, Rest4>>
  \/ SendStep(Send!Next) \/ ReceiveStep(Receive!Next)
  \/ FormStep(Form!Next) \/ RequestStep(Request!Next)
  \/ component = "dhcp" /\ Dhcp!Next /\ UNCHANGED <<component, Rest11>>

vars == <<component, x1, x2, Rest3>>
Spec == /\ Init /\ [][Next]_vars
        /\ WF_vars(QueuePass) /\ WF_vars(SerialType) /\ WF_vars(SerialWork)
        /\ WF_vars(SendStep(Send!Serving)) /\ WF_vars(SendStep(Send!Takes \/ Send!GoesAway))
        /\ WF_vars(ReceiveStep(Receive!Peer)) /\ WF_vars(ReceiveStep(\E len \in ReadSizes : Receive!ClientRead(len)))
        /\ WF_vars(FormStep(Form!Parser)) /\ WF_vars(RequestStep(Request!Parse))
-----------------------------------------------------------------------------
(* The properties of each module, of the component that was chosen. *)

\* The list of Art-Net senders on the page shows who was heard last, and when; and
\* the lists are never sent cut off, the tags shown however many there are.
ListsTrue == /\ component = "monitor" => Monitor!MonitorTrue
             /\ component = "reports" => Report!SentIsWhole /\ Report!TagsShown

\* drainProbeQueue(): a node whose slot is in reach of one probe a pass and of the retry
\* period is probed again and again; slots behind it may starve.
ReachedIsProbed ==
  \A s \in Queue!Slot : Queue!InReach(s) => []<>(component = "queue" => Queue!Served(s))

\* What one part saved in the EEPROM the others' saves and a reboot leave as it was,
\* and with DHCP off the unit has after each boot the address it was told before it.
StoredStays == [][/\ component = "eeprom" => Eeprom!LeasesKept /\ Eeprom!WizardKept
                  /\ component = "network" => Net!StaticKept]_vars

\* The pool the network handler stores has last octets from 2 to 253, and is the one asked for
\* if that is legal.
PoolServable == component = "network" => Net!PoolFits /\ Net!LegalPoolKept

\* The LED blinks for locate as long as it was asked to, and is green only while nodes answer.
LedTrue == component = "led" => Led!LocateTenSeconds /\ Led!GreenIsRecent

\* The LED's bits arrive as the colour that was set, and no wait in them outlasts its
\* pulse, unless CCOUNT changed its sign meanwhile; and interrupts come back.
ColourInTime == component = "pixel" => Pixel!InTimeUnlessCrossed /\ Pixel!InterruptsBack

\* Only whole lines are commands, each command gets one reply, and the web server its transport back.
SerialInStep == component = "serial" => /\ Serial!OnlyWholeLinesRun
                                        /\ Serial!OneReplyEach
                                        /\ Serial!WebServerServed

\* Every command of the console is answered, every request read and every answer sent
\* in the end, and the handler of an upload hears when the browser went away in the file.
AllAnswered ==
  /\ <>[](component = "serial" => Serial!Answered)
  /\ <>(component = "send" => Send!AnswerOver)
  /\ <>(component = "receive" => Receive!AllRead)
  /\ <>(component = "request" => Request!Over)
  /\ (component = "form" /\ Form!Gone) ~> (component = "form" /\ Form!Told)

\* httpGet returns what the node sent, after one connect and one answer's time at
\* most; the test frame's channels are those of the request, inside the limits; a
\* handler gets the whole request; and the unit an address its server acknowledged.
AnswersTrue == /\ component = "get" => Get!BodyReturned /\ Get!LoopKeptBriefly
               /\ component = "frame" => Frame!FrameAsAsked
               /\ component = "request" => Request!RequestWhole
               /\ component = "dhcp" => Dhcp!LeaseGranted /\ Dhcp!ReturnsInTime

\* The bytes of a stream, a datagram and an uploaded file are passed on in their order
\* and whole, through rings and buffers smaller than they are.
StreamsKept == /\ component = "send" => Send!InOrder /\ Send!AnswerWhole
               /\ component = "receive" => /\ Receive!CountsAgree
                                           /\ Receive!StreamInOrder /\ Receive!HeadersAreHeads
               /\ component = "form" => Form!FileKept /\ Form!EndOrAbort
=============================================================================
