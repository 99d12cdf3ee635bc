SPECIFICATION Spec
CONSTANTS
    Stream <- HeadDriver
    HasSrvp <- DriverQueues
    Runner = {r1}
    Caller = {c1, c2}
    Timer = {t}
    Closer = {}
    Program <- NoProgram
    q_qsp <- NoDriverLock
    NoLock = NoLock
    NoTask = NoTask
    NoQueue = NoQueue
    Quiesces = TRUE
    AtomicFlags = FALSE
INVARIANTS
    ListsAccounted
