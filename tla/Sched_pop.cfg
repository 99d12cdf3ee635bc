SPECIFICATION Spec
CONSTANTS
    Stream <- HeadModDriver
    HasSrvp <- ModQueues
    Runner = {r1, r2}
    Caller = {c1}
    Timer = {}
    Closer = {k}
    Program <- PopAndMark
    q_qsp <- LockPerQueue
    NoLock = NoLock
    NoTask = NoTask
    NoQueue = NoQueue
    Quiesces = TRUE
    AtomicFlags = TRUE
INVARIANTS
    OneRunnerPerQueue Detached
