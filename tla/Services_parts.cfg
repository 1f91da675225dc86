SPECIFICATION ServicesSpec
CONSTANTS
  Capacity = 3
  Word = 12
  Producers = {p1, p2}
  Consumers = {c1, c2}
  Uses <- SafeUses
  Messages = {m1, m2}
  NoMessage = NoMessage
  MaxApps = 3
  MaxStarts = 4
  Names = {"a", "b"}
  Quantum = 2
  FirstFd = 3
  FdTableMax = 10
  MaxPipes = 2
  BufSize = 2
  MaxMade = 5
  Scancodes = {"75", "02"}
  PauseKey = TRUE
  Unknown = {"02"}
  Contexts = {{"irq"}, {"thread"}}
  MaxKeys = 4
  QueueSize = 3
\* The keyboard stops at its bound, the table when its numbers are used up.
CHECK_DEADLOCK FALSE
INVARIANTS QuotaKept ThreadsListed PipesPrivate EndsCounted DecodesTyped
PROPERTIES IsFifo HandOver
