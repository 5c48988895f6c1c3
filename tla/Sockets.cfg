SPECIFICATION FairSpec
CONSTANTS
  NSock = 4
  NPort = 2
  NHost = 3
  Alive = {2, 3}
  OpenHosts = {3}
  OpenPorts = {1}
  Nodes = {3}
  Fallback = TRUE
  Browsers = TRUE
  MaxData = 1
  Stalls = TRUE
INVARIANTS
  SocketsOwned
  QuietReportTrue
PROPERTIES
  ScanEnds
  ListenerReturns
