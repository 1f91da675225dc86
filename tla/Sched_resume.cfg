CONSTANTS
    MaxTid = 3
    RqSize = 3
    WqSize = 3
    SliceTicks = 2
    MaxVruntime = 2
    Tags = {"a"}
    Procs = {1}
    Amounts = {2}
SPECIFICATION Spec
INVARIANT ResumesWhereItStopped
CHECK_DEADLOCK FALSE
