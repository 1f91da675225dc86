SPECIFICATION FileSpec
CONSTANTS
  Inos = {1}
  Indices = {0, 1}
  Hash <- TwoBuckets
  MaxPages = 2
  Addrs = {a1, a2, a3}
  BlockCount = 2
  Data = {x}
  KmallocOutcomes = {TRUE}
CHECK_DEADLOCK FALSE
INVARIANT ReadsLastWrite
