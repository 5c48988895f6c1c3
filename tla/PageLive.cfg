SPECIFICATION LiveSpec
CONSTANTS
  Browsers = {"b", "c"}
  Macs = {"m", "n"}
  Labels = {"L"}
  Pages = {"nodes", "timecode", "universes"}
  MaxLoads = 2
  Ips = {"a", "b"}
  FirstIp = "a"
  FormsSent = 2
  NodesOpened = {"x", "y"}
  Editable = {"x", "y"}
  DetailVisits = 2
  ListMacs = {1, 2}
  Dmx = {2}
  MaxRenders = 2
  MaxTyped = 1
  TopNet = 0
  TopSubnet = 1
  TopUniverse = 0
  StartAt = 1
  MidiNodes = {"n1", "n2"}
  MaxReads = 1
  RoutesSaved = 1
  MaxPlaces = 2
  Channels = {1, 2}
  DeskMoves = 3
  MaxPosts = 2
  Quads = {"q"}
  Duals = {"d"}
  Switches = {"s", "t"}
  PerUniverse = 2
  BackedUp = {1, 2}
  Parts = {1, 2}
  MaxEdits = 1
  MaxMoves = 1
  MaxUploads = 2
  Called = {"n"}
  Ticks = {1, 2}
  Limit = 1
  Uids = {"u", "v"}
  TableStates = {1, 2}
  Reads = 1
  SearchPorts = {0, 1}
  SearchPolls = 2
  SearchQueue = 2
  SwitchUnits = {"s"}
  SwitchVisits = 2
  MaxChanges = 2
  Shown = {"a", "b"}
  MaxOpens = 3
  Hosts = 1
  ScanPolls = 2
  MaxScans = 2
  ScanVisits = 2
  Flashable = {1, 2}
  Midis = {3}
  MaxRuns = 2
  FormChanges = 3
INVARIANTS
  ReachTheirNode
PROPERTIES
  EditKept
  AllEnd
  AllCatchUp
CHECK_DEADLOCK FALSE
