SPECIFICATION StorageSpec
CONSTANTS
  DataStart = 1
  Total = 11
  Unit = 2
  MaxEntries = 6
  Lengths = {1, 2, 4}
  PageBudget = 8
  Word = 4
  Components = {a, b}
  LongNames = {long}
  LastIno = 3
  Slots = 5
  MaxFree = 3
SYMMETRY NameSymmetry
\* The kernel panics, or has no page left for a request.
CHECK_DEADLOCK FALSE
INVARIANTS TypeOK NoDoubleAllocation InStepUntilTimeout InodesAccounted EntriesSound
PROPERTY FreeReturns
