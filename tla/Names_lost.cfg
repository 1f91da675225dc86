SPECIFICATION TreeSpec
CONSTANTS
  Components = {a, b}
  LongNames = {long}
  LastIno = 3
  Slots = 5
  MaxFree = 3
CHECK_DEADLOCK FALSE
INVARIANT FilesReachable
