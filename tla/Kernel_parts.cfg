SPECIFICATION KernelSpec
CONSTANTS
  MaxTid = 3
  RqSize = 2
  WqSize = 1
  SliceTicks = 2
  MaxVruntime = 1
  Tags = {"a", "b"}
  Procs = {}
  Amounts = {1}
  Zones <- TwoZones
  Usable <- MapPages
  MaxOrder = 2
  BootCaches <- Classes
  Created = {"own"}
  Total <- SlotsPerPage
  Meta = "small"
  PoolSize = 10
  Align = 2
  MemorySize = 3
  Clients = {"face", "glyph"}
  Sizes = {1, 2, 3}
  Inos = {1}
  Indices = {0, 1}
  Hash <- TwoBuckets
  MaxPages = 2
  Addrs = {a1, a2, a3}
  BlockCount = 2
  Data = {x, y}
  KmallocOutcomes = {TRUE, FALSE}
SYMMETRY CacheSymmetry
\* The scheduler may run out of tasks, and the kernel may read through a null
\* pointer or wait for its own lock.
CHECK_DEADLOCK FALSE
INVARIANTS TypeOK OnePlace CurrentOnCpu RqOrder
INVARIANTS BlocksDisjoint PagesAccounted SlotsOnce PagesListed SlabPagesHeld DataKept
INVARIANTS ChainsSound DirtyCounted DirtyKept
PROPERTY LegalTransitions
