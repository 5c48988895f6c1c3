SPECIFICATION Spec
CONSTANTS
  Mac = {m1, m2}
  NoMac = NoMac
  SlotCap = 2
  ProbeBudget = 1
  LeaseMs = 2
  ClockSize = 5
  MaxStall = 1
  Configs <- OnePool
  Foreign = {}
  ReqAddr = {0}
  QueueCap = 1
SYMMETRY MacSymmetry
PROPERTIES
  RenewalSurvivesReboot
