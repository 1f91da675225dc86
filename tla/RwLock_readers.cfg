CONSTANTS
    RwThreads = {t1, t2, t3}
    CounterMod = 4
    NoStore = NoStore
SPECIFICATION RwSpec
INVARIANT WriterExcludesReaders
CHECK_DEADLOCK FALSE
