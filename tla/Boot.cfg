SPECIFICATION FairSpec
CONSTANTS
  ResetTop = 2
  WdtTop = 4
  WdtUpdate = 1
  MaxSaves = 2
  MaxEvents = 6
  MaxLinks = 2
INVARIANTS
  SavedIsApplied
PROPERTIES
  SettingsKept
  UpdateByFlagOnce
  ComesUp
CHECK_DEADLOCK FALSE
