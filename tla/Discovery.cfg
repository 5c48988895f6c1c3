SPECIFICATION MCSpec
CONSTANTS
  a = a
  b = b
  Mac = {a, b}
  NoMac = NoMac
  Kind <- OneGarbled
  Ip = {1, 2}
  NoIp = 0
  SlotCap = 2
  PollPeriod = 1
  RetryPeriod = 1
  ReprobePeriod = 2
  OfflineAfter = 1
  StatusPeriod = 1
  MaxPass = 1
  MaxProbe = 1
  ClockSize = 3
  Wraps = FALSE
  WireCap = 1
  MaxBoots = 1
INVARIANTS
  RowsStay
  MovesAreNoticed
  SilenceIsSeen
