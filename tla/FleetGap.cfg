SPECIFICATION Spec
CONSTANTS
  Unit = {1, 2, 3}
  Ttl = 5
  Listen = 3
  Every = 1
  Step = 2
  Clock = 8
  Fine = 3
  MaxStall = 0
  InboxCap = 3
  MaxJoins = 3
  MaxLeaves = 1
PROPERTIES
  NeverJumps
