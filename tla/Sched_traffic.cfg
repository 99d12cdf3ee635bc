SPECIFICATION MCSpec
CONSTANTS
    Stream <- HeadDriver
    HasSrvp <- UpQueues
    Runner = {r1}
    Caller = {c1}
    Timer = {}
    Closer = {k}
    Program <- PushProgram
    q_qsp <- LockPerQueue
    NoLock = NoLock
    NoTask = NoTask
    NoQueue = NoQueue
    Quiesces = TRUE
    AtomicFlags = TRUE
INVARIANTS
    HeadRefsBalanced
PROPERTIES
    PushGoesOn
