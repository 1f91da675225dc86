CONSTANTS
    MaxTid = 3
    RqSize = 3
    WqSize = 3
    SliceTicks = 2
    MaxVruntime = 2
    Tags = {"a"}
    Procs = {}
    Amounts = {}
SPECIFICATION FairSpec
INVARIANTS NoTaskLost
PROPERTY ReadyRuns
CHECK_DEADLOCK FALSE
