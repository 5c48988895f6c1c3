SPECIFICATION Spec
CONSTANTS
  Mac = {m1, m2}
  NoMac = NoMac
  SlotCap = 2
  ProbeBudget = 1
  LeaseMs = 1
  ClockSize = 3
  MaxStall = 1
  Configs <- SelfPool
  Foreign = {11}
  ReqAddr = {10}
  QueueCap = 1
SYMMETRY MacSymmetry
INVARIANTS
  TypeOK
  LeasesDistinct
  LeasesServable
  HoldersBacked
  HoldersDistinct
PROPERTIES
  AckedStays
  ImplementsBook
