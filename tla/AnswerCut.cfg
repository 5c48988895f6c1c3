SPECIFICATION Spec
CONSTANTS
  SSIZE = 4
  Pointers = 8
  Chunk = 3
  Lists = {6}
  Pages = {3}
INVARIANT ListComesWhole
CHECK_DEADLOCK FALSE
