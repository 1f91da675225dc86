SPECIFICATION BlkSpec
CONSTANTS
  PageBudget = 6
  Word = 4
CHECK_DEADLOCK FALSE
INVARIANT SuccessIsOwn
