SPECIFICATION Spec
CONSTANTS
  Sender = {k1, k2, k3}
  Nobody = Nobody
  MonSlots = 2
  Fresh = 2
  MonClock = 12
  MonEnd = 8
  QueueCap = 4
  RetryPeriod = 5
  ReprobePeriod = 7
  MaxProbe = 1
  MaxPass = 1
  Rec = {0, 31}
  MaxBoots = 2
  Chosen = {s1}
  Factory = ten2
  Leased = leased
  Owns = {Absent, 252}
  Absent = Absent
  Starts = {Absent, 250, 300}
  PoolSizes = {Absent, 4, 255}
  Leases = {Absent}
  NetBoots = 2
  TickPeriod = 1
  NotePeriod = 2
  LocatePeriod = 3
  StalePeriod = 2
  LongPass = 2
  LedClock = 12
  Fallback = TRUE
  Bits = 3
  HighOne = 9
  HighZero = 4
  LowOne = 6
  LowZero = 8
  Threshold = 8
  PollCycles = 2
  IsrCycles = 12
  Half = 128
  Begins <- SomeCounts
  Script <- FourLines
  LineMax = 2
  TickMax = 2
  RxMax = 2
  AnswerBodies <- TwoBodies
  MaxLines = 2
  OutCap = 4
  Timeout = 3
  YieldMax = 2
  ReadMax = 1
  Universe = {0, 1}
  Channels = 4
  FullScale = 1
  Asked <- InAndOut
  Pairs <- SomePairs
  TxBuffer = 4
  TxPointers = 8
  PageChunk = 3
  Lists = {0, 4, 6}
  Pages = {3, 8}
  RxBuffer = 8
  RxPointers = 16
  Lazy = 3
  Header = 2
  StreamBytes = 11
  Datagrams <- FourDatagrams
  ReadSizes = {1, 2, 5}
  Files <- SixFiles
  Boundary <- TwoBytes
  UploadBuffer = 3
  Queries <- SomeQueries
  PostBodies <- SmallBodies
  Servers = {v1, v2}
  DhcpTimeout = 2
  ResponseTimeout = 1
  MaxXid = 2
INVARIANTS
  ListsTrue
  PoolServable
  LedTrue
  ColourInTime
  SerialInStep
  AnswersTrue
  StreamsKept
PROPERTIES
  StoredStays
  AllAnswered
  ReachedIsProbed
CHECK_DEADLOCK FALSE
