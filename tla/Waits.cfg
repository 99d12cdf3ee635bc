SPECIFICATION MCSpec
CONSTANTS
    w1 = w1
    w2 = w2
    Writer = {w1, w2}
    NoTask = NoTask
    Kinds <- WriteKinds
    BlockSize = 3
    HiWater = 1
    Faults = TRUE
    Errors = {"read"}
    MaxCalls <- Calls
    MaxErrors = 1
    MaxFreezes = 1
    MaxSignals = 1
    N_BCHASH = 2
    Node = {n1, n2, n3}
    Caller = {c1, c2}
    Runner = {r1, r2}
    MaxId = 4
    NoNode = NoNode
    Racing = FALSE
    THASH = 3
    HMAX = 7
    Tlist = {t1, t2}
    Driver = {d1, d2}
    MaxTimeout = 3
CHECK_DEADLOCK FALSE
INVARIANTS
    SleepersCounted WrittenAndSent TablesSound
PROPERTIES
    NoneWaits
