SPECIFICATION SyncSpec
CONSTANTS
  Cpus = {c1, c2}
  RwThreads = {t1, t2, t3}
  CounterMod = 4
  NoStore = NoStore
  SemThreads = {s1, s2, s3, s4}
  Permits = 2
INVARIANTS MutualExclusion NoSelfDeadlock InterruptsOff OneWriter PermitsConserved
PROPERTIES FlagRestored Progress
\* A reader count left too high keeps the writer and every reader waiting.
CHECK_DEADLOCK FALSE
