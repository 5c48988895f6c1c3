------------------------------- MODULE MCPage -------------------------------
(***************************************************************************)
(* Two runs for the parts of the webpage: Spec for those whose safety is   *)
(* the question, LiveSpec for those that poll, whose requests, timers and  *)
(* answers must come to an end.  In the browser the parts take turns; they *)
(* share no state that matters, so the part is chosen at the start and its *)
(* own next-state relation does the rest.  Its variables are the first of  *)
(* x1, x2, ..., in the order of the INSTANCE below; the others stay 0.     *)
(***************************************************************************)
EXTENDS Integers, Sequences

CONSTANTS
  Browsers, Macs, Labels,                                           \* TagStore
  Pages, MaxLoads,                                                  \* PageRouter; MaxLoads also RdmTable
  Ips, FirstIp, FormsSent,                                          \* Wizard
  NodesOpened, Editable, DetailVisits,                              \* NodeDetail
  ListMacs, Dmx, MaxRenders, MaxTyped, TopNet, TopSubnet, TopUniverse, StartAt, \* NodesList
  MidiNodes, MaxReads, RoutesSaved, MaxPlaces,                      \* TimecodePage
  Channels, DeskMoves, MaxPosts, Quads,                             \* TestDesk
  Duals, Switches, PerUniverse,                                     \* FleetTables, and Quads
  BackedUp, Parts, MaxEdits, MaxMoves,                              \* Backup
  MaxUploads,                                                       \* FirmwareUpload
  Called, Ticks, Limit,                                             \* NodeCalls
  Uids, TableStates, Reads,                                         \* RdmTable
  SearchPorts, SearchPolls, SearchQueue,                            \* RdmDiscover
  SwitchUnits, SwitchVisits, MaxChanges,                            \* SwitchPage
  Shown, MaxOpens,                                                  \* DisplayTab
  Hosts, ScanPolls, MaxScans, ScanVisits,                           \* ScanPanel
  Flashable, Midis, MaxRuns, FormChanges                            \* FleetFlash

VARIABLES component, x1, x2, x3, x4, x5, x6, x7, x8, x9, x10, x11, x12, x13, x14, x15, x16

Tags == INSTANCE TagStore WITH
  server <- x1, tagStore <- x2, localStorage <- x3, loading <- x4, saving
  <- x5, legacy <- x6, lost <- x7
Router == INSTANCE PageRouter WITH
  currentPage <- x1, shown <- x2, loading <- x3, repainting <- x4,
  intervals <- x5, pollTimer <- x6, reloadDue <- x7
Setup == INSTANCE Wizard WITH
  First <- FirstIp, MaxSaves <- FormsSent,
  onboardIndex <- x1, body <- x2, form <- x3, onboardPendingIp <- x4,
  onboardChangedIp <- x5, target <- x6, sent <- x7, saves <- x8, saved <-
  x9, pendingReboot <- x10, done <- x11, restarting <- x12, upset <- x13
Detail == INSTANCE NodeDetail WITH
  Nodes <- NodesOpened, MaxVisits <- DetailVisits,
  visits <- x1, open <- x2, who <- x3, at <- x4, slot <- x5, content <-
  x6, filled <- x7, wired <- x8, buttons <- x9, portCfgCache <- x10, holder
  <- x11, acts <- x12, crossed <- x13
List == INSTANCE NodesList WITH
  Macs <- ListMacs,
  open <- x1, renders <- x2, field <- x3, typed <- x4, changes <- x5,
  searchQuery <- x6, cachedNodes <- x7, rows <- x8, selectedMacs <- x9,
  job <- x10, walk <- x11, address <- x12, acted <- x13, meant <- x14
Timecode == INSTANCE TimecodePage WITH
  Nodes <- MidiNodes, MaxSaves <- RoutesSaved,
  place <- x1, moves <- x2, editing <- x3, reads <- x4, form <- x5, saves
  <- x6, node <- x7, card <- x8, busy <- x9, crossed <- x10
Desk == INSTANCE TestDesk WITH
  MaxMoves <- DeskMoves,
  testFill <- x1, testState <- x2, timer <- x3, posts <- x4, last <- x5,
  output <- x6, outputOf <- x7, disturbed <- x8, moves <- x9, online <-
  x10, cue <- x11, ok <- x12
Fleet == INSTANCE FleetTables WITH
  page <- x1, answers <- x2, table <- x3
Store == INSTANCE Backup WITH
  Nodes <- BackedUp,
  live <- x1, at <- x2, edits <- x3, moves <- x4, stage <- x5, list <- x6,
  bundle <- x7, pending <- x8, shown <- x9, left <- x10, current <- x11,
  ok <- x12, missing <- x13, failed <- x14, stirred <- x15
Upload == INSTANCE FirmwareUpload WITH
  page <- x1, uploads <- x2, mode <- x3, flag <- x4, begun <- x5, staged
  <- x6, image <- x7

Calls == INSTANCE NodeCalls WITH
  Nodes <- Called,
  tail <- x1, prev <- x2, stage <- x3, age <- x4, issued <- x5, settled <-
  x6, tick <- x7
Table == INSTANCE RdmTable WITH
  Versions <- TableStates,
  tab <- x1, opening <- x2, notice <- x3, polling <- x4, table <- x5,
  enabled <- x6, data <- x7, painted <- x8, signature <- x9, editing <-
  x10, rdmOpenUid <- x11, rdmDetail <- x12, rdmDetailInFlight <- x13,
  rdmDetailTimer <- x14, reading <- x15, inspected <- x16
Search == INSTANCE RdmDiscover WITH
  Ports <- SearchPorts, MaxPolls <- SearchPolls, MaxQueue <- SearchQueue,
  tab <- x1, btn <- x2, pressed <- x3, rdmPort <- x4, rdmBusy <- x5,
  rdmPollTimer <- x6, polls <- x7, queue <- x8, phase <- x9, listed <-
  x10, sent <- x11, swayed <- x12
Switch == INSTANCE SwitchPage WITH
  Switches <- SwitchUnits, MaxVisits <- SwitchVisits,
  visits <- x1, place <- x2, who <- x3, loaded <- x4, reading <- x5,
  timers <- x6, quadNetTimer <- x7, shown <- x8, enabled <- x9, asked <-
  x10, changes <- x11, leaving <- x12
Mirror == INSTANCE DisplayTab WITH
  Nodes <- Shown,
  detailNode <- x1, tab <- x2, loads <- x3, opens <- x4, oledTimer <- x5,
  oledInFlight <- x6, canvas <- x7, fetches <- x8, form <- x9,
  displayCfgCache <- x10, saves <- x11, crossed <- x12
Scan == INSTANCE ScanPanel WITH
  MaxPolls <- ScanPolls, MaxVisits <- ScanVisits,
  active <- x1, done <- x2, scans <- x3, open <- x4, visits <- x5, timer
  <- x6, due <- x7, polls <- x8, asked <- x9, answers <- x10, shown <-
  x11, met <- x12
Flashing == INSTANCE FleetFlash WITH
  Quads <- Flashable, MaxChanges <- FormChanges,
  product <- x1, file <- x2, boxes <- x3, button <- x4, left <- x5, now <-
  x6, runs <- x7, changes <- x8, said <- x9, installed <- x10

ASSUME Parameters ==
  /\ Router!PageOK /\ Setup!FirstOK /\ Detail!Sizes /\ List!Sizes /\ Timecode!Sizes
  /\ Fleet!Sizes /\ Store!Sizes /\ Calls!TicksOK /\ Table!UidsOK /\ Flashing!Disjoint
-----------------------------------------------------------------------------
Unused16 == x16 = 0
Unused15 == x15 = 0 /\ Unused16
Unused14 == x14 = 0 /\ Unused15
Unused13 == x13 = 0 /\ Unused14
Unused12 == x12 = 0 /\ Unused13
Unused11 == x11 = 0 /\ Unused12
Unused10 == x10 = 0 /\ Unused11
Unused9 == x9 = 0 /\ Unused10
Unused8 == x8 = 0 /\ Unused9
Unused7 == x7 = 0 /\ Unused8
Unused6 == x6 = 0 /\ Unused7
Unused5 == x5 = 0 /\ Unused6
Unused4 == x4 = 0 /\ Unused5

Rest4 == <<x4, x5, x6, x7, x8, x9, x10, x11, x12, x13, x14, x15, x16>>
Rest8 == <<x8, x9, x10, x11, x12, x13, x14, x15, x16>>
Rest11 == <<x11, x12, x13, x14, x15, x16>>
Rest13 == <<x13, x14, x15, x16>>
Rest14 == <<x14, x15, x16>>
Rest15 == <<x15, x16>>
Rest16 == <<x16>>

Init ==
  \/ component = "tags" /\ Tags!Init /\ Unused8
  \/ component = "router" /\ Router!Init /\ Unused8
  \/ component = "wizard" /\ Setup!Init /\ Unused14
  \/ component = "detail" /\ Detail!Init /\ Unused14
  \/ component = "list" /\ List!Init /\ Unused15
  \/ component = "timecode" /\ Timecode!Init /\ Unused11
  \/ component = "desk" /\ Desk!Init /\ Unused13
  \/ component = "tables" /\ Fleet!Init /\ Unused4
  \/ component = "backup" /\ Store!Init /\ Unused16
  \/ component = "upload" /\ Upload!Init /\ Unused8

TagsStep(A) == component = "tags" /\ A /\ UNCHANGED <<component, Rest8>>
RouterStep(A) == component = "router" /\ A /\ UNCHANGED <<component, Rest8>>
SetupStep(A) == component = "wizard" /\ A /\ UNCHANGED <<component, Rest14>>
DetailStep(A) == component = "detail" /\ A /\ UNCHANGED <<component, Rest14>>
ListStep(A) == component = "list" /\ A /\ UNCHANGED <<component, Rest15>>
TimecodeStep(A) == component = "timecode" /\ A /\ UNCHANGED <<component, Rest11>>
DeskStep(A) == component = "desk" /\ A /\ UNCHANGED <<component, Rest13>>
FleetStep(A) == component = "tables" /\ A /\ UNCHANGED <<component, Rest4>>
StoreStep(A) == component = "backup" /\ A /\ UNCHANGED <<component, Rest16>>
UploadStep(A) == component = "upload" /\ A /\ UNCHANGED <<component, Rest8>>

Next ==
  \/ TagsStep(Tags!Next)
  \/ RouterStep(Router!Next)
  \/ SetupStep(Setup!Next)
  \/ DetailStep(Detail!Next)
  \/ ListStep(List!Next)
  \/ TimecodeStep(Timecode!Next)
  \/ DeskStep(Desk!Next)
  \/ FleetStep(Fleet!Next)
  \/ StoreStep(Store!Next)
  \/ UploadStep(Upload!Next)

vars == <<component, x1, x2, x3, x4, x5, x6, x7, x8, x9, x10, x11, x12, x13, x14, x15, x16>>
Spec == Init /\ [][Next]_vars
-----------------------------------------------------------------------------
(* The parts that poll *)

LiveInit ==
  \/ component = "calls" /\ Calls!Init /\ Unused8
  \/ component = "rdm" /\ Table!Init
  \/ component = "search" /\ Search!Init /\ Unused13
  \/ component = "switch" /\ Switch!Init /\ Unused13
  \/ component = "display" /\ Mirror!Init /\ Unused13
  \/ component = "scan" /\ Scan!Init /\ Unused13
  \/ component = "flash" /\ Flashing!Init /\ Unused11

CallsStep(A) == component = "calls" /\ A /\ UNCHANGED <<component, Rest8>>
TableStep(A) == component = "rdm" /\ A /\ UNCHANGED component
SearchStep(A) == component = "search" /\ A /\ UNCHANGED <<component, Rest13>>
SwitchStep(A) == component = "switch" /\ A /\ UNCHANGED <<component, Rest13>>
MirrorStep(A) == component = "display" /\ A /\ UNCHANGED <<component, Rest13>>
ScanStep(A) == component = "scan" /\ A /\ UNCHANGED <<component, Rest13>>
FlashingStep(A) == component = "flash" /\ A /\ UNCHANGED <<component, Rest11>>

LiveNext ==
  \/ CallsStep(Calls!Next)
  \/ TableStep(Table!Next)
  \/ SearchStep(Search!Next)
  \/ SwitchStep(Switch!Next)
  \/ MirrorStep(Mirror!Next)
  \/ ScanStep(Scan!Next)
  \/ FlashingStep(Flashing!Next)

\* The fairness of each polling part's Spec.  A behaviour is of one part, so a disjunction
\* over parts is as strong as the conditions one by one, and keeps them few; there are
\* two of them for the two visits and the two nodes of PageLive.cfg.
OneShown == CHOOSE n \in Shown : TRUE
Again ==
  \/ SearchStep(Search!StatusAnswers) \/ SwitchStep(Switch!StateRead(1))
  \/ MirrorStep(x6 = OneShown /\ Mirror!Picture) \/ ScanStep(Scan!Progress /\ Scan!Arrives)
AgainToo ==
  SwitchStep(\E v \in 2..SwitchVisits : Switch!StateRead(v)) \/ MirrorStep(x6 # OneShown /\ Mirror!Picture)
Fair ==
  /\ SF_vars(Again) /\ SF_vars(AgainToo)
  /\ \A c \in Calls!Calls :
       WF_vars(CallsStep(Calls!Exec(c))) /\ WF_vars(CallsStep(Calls!Abort(c))) /\ WF_vars(CallsStep(Calls!Body(c)))
  /\ \A t \in Ticks : WF_vars(CallsStep(Calls!HooksRun(t)))
  /\ WF_vars(CallsStep(Calls!Elapse))
  /\ WF_vars(TableStep(Table!Poll \/ Table!PollFindsOff)) /\ WF_vars(TableStep(Table!DetailTimer))
  /\ WF_vars(TableStep(Table!TableArrives \/ Table!NoTable)) /\ WF_vars(TableStep(Table!NodeReads))
  /\ WF_vars(TableStep(Table!DetailAnswers \/ Table!DetailFails))
  /\ WF_vars(SearchStep(Search!DiscoverStarted \/ Search!DiscoverFails)) /\ WF_vars(SearchStep(Search!Poll))
  /\ WF_vars(SearchStep(Search!StatusAnswers \/ Search!StatusFails))
  /\ \A v \in 1..SwitchVisits : WF_vars(SwitchStep(Switch!Interval(v))) /\ WF_vars(SwitchStep(Switch!Answers(v)))
  /\ \A s \in SwitchUnits : WF_vars(SwitchStep(Switch!PortSwitched(s) \/ Switch!PortRefused(s)))
  /\ \A v \in [node : Shown, tab : Mirror!Tabs] : WF_vars(MirrorStep(Mirror!Loaded(v)))
  /\ WF_vars(MirrorStep(Mirror!OledTick)) /\ WF_vars(MirrorStep(Mirror!Picture \/ Mirror!NoPicture))
  /\ WF_vars(ScanStep(Scan!ScanStep)) /\ WF_vars(ScanStep(Scan!Tick)) /\ WF_vars(ScanStep(Scan!ServePoll))
  /\ WF_vars(ScanStep(Scan!TimedPoll)) /\ WF_vars(ScanStep(Scan!Arrives \/ Scan!AnswerLost))
  /\ \A r \in 1..MaxRuns : WF_vars(FlashingStep(Flashing!Push(r))) /\ WF_vars(FlashingStep(Flashing!Ends(r)))
LiveSpec == LiveInit /\ [][LiveNext]_vars /\ Fair
-----------------------------------------------------------------------------
(* The properties of each part, of the part that was chosen. *)

\* A page paints over another only when it is the one that is open.
OwnPagePainted == [][component = "router" => Router!PaintsOwnPage]_vars

\* What the user sees stays what it stands for: the timer of a page, the text being
\* typed, the output behind the faders, the conflicts in the tables.
ShowsTruth ==
  /\ component = "router" => Router!TimerIsOwn
  /\ component = "list" => List!TypingKept
  /\ component = "desk" => Desk!OutputIsDesk
  /\ component = "tables" => Fleet!TablesTrue

\* What the user saves reaches the thing it was shown for, and what the wizard or a
\* routing editor did not get accepted is not followed.
SavesReachTheirNode ==
  /\ component = "wizard" => Setup!FollowsUnit
  /\ component = "detail" => Detail!ActsWhenPatient
  /\ component = "timecode" => Timecode!RoutingRight
  /\ component = "list" => List!BulkRight

\* What is kept for the fleet, labels and settings in a bundle, comes back to its
\* owner, and success is reported of what has succeeded.
FleetKept ==
  /\ component = "tags" => Tags!LegacyKept
  /\ component = "backup" => Store!OwnSettings /\ Store!SummaryTrue
  /\ component = "upload" => Upload!ToldIsInstalled

\* A node has one request of the page at a time, commands reach the fixture and the
\* display they were given for, and a tick means the node runs its own firmware.
ReachTheirNode ==
  /\ component = "calls" => Calls!OneAtATime
  /\ component = "search" => Search!CommandsReach
  /\ component = "display" => Mirror!SavesOwnDisplay
  /\ component = "flash" => Flashing!TickTrue

\* No poll of the fixtures throws away what is being edited in their table.
EditKept == [][component = "rdm" => Table!EditKept]_vars

\* Every call, search and flash ends, although nodes do not answer.
AllEnd ==
  /\ <>[](component = "calls" => Calls!Settled)
  /\ []<>(component = "search" => Search!SearchOver)
  /\ \A n \in Flashable \union Midis : []<>(component = "flash" => ~Flashing!Waits(n))
  /\ <>[](component = "scan" => ~x4) => <>[](component = "scan" => ~x6)

\* Whoever stays on a page comes to see the state of the unit or node it is about.
AllCatchUp ==
  /\ \A u \in Uids : []<>(component = "rdm" => Table!FilledOrClosed(u))
  /\ \A t \in TableStates : []<>(component = "rdm" => Table!CaughtUp(t))
  /\ \A v \in 1..SwitchVisits : <>[](component = "switch" => x2 = v) => <>[](component = "switch" => Switch!PortsSeen(v))
  /\ \A n \in Shown :
       <>[](component = "display" => Mirror!Stays(n)) => <>[](component = "display" => x7 = n)
  /\ <>[](component = "scan" => Scan!Stays) => <>[](component = "scan" => Scan!ShownNow)
=============================================================================
