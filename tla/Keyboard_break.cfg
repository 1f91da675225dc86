SPECIFICATION KeySpec
CONSTANTS
  Scancodes = {"75"}
  PauseKey = FALSE
  Unknown = {}
  Contexts <- BothPoll
  MaxKeys = 3
  QueueSize = 3
CHECK_DEADLOCK FALSE
INVARIANT DecodesTyped
