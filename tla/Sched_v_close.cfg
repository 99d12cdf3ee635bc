SPECIFICATION Spec
CONSTANTS
    Stream <- HeadDriver
    HasSrvp <- DriverQueues
    Runner = {r1}
    Caller = {c1}
    Timer = {}
    Closer = {k}
    Program <- CloseProgram
    q_qsp <- LockPerQueue
    NoLock = NoLock
    NoTask = NoTask
    NoQueue = NoQueue
    Quiesces = TRUE
    AtomicFlags = TRUE
INVARIANT FreedIsQuiet
