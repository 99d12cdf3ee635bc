SPECIFICATION FairSpec
CONSTANTS
    q_hiwat = 1
    q_lowat = 0
    MaxUp = 3
    MaxIntr = 1
    UpClass = {"d0", "d1"}
    IntrClass = {"hi", "c0"}
    FlushKind <- SomeFlushes
    MaxFlush = 1
    NoMsg = NoMsg
CHECK_DEADLOCK FALSE
INVARIANTS
    InOrder Accounted
PROPERTIES
    NotedIsServed
