SPECIFICATION FairSpec
CONSTANTS
    NCpu = 2
    Caller = {i1}
    BcTimer = {bt}
    ScTimer = {st}
    WORK_INCR = 1
    MaxWork = 2
    MaxScan = 1
    MaxBc = 1
CHECK_DEADLOCK FALSE
INVARIANTS
    RunnersSound
PROPERTIES
    RunnersRest
