SPECIFICATION Spec
CONSTANTS
    Reader = {r1, r2}
    NoTask = NoTask
    Types = {"DATA", "PCPROTO", "FLUSH", "HANGUP"}
    r1 = r1
    r2 = r2
    Kinds <- ReadKinds
    ReadOptions <- RdOpts
    MaxSignals = 1
    Faults = TRUE
    PeerCloses = TRUE
    MaxMsgs = 2
    MaxCalls = 1
CHECK_DEADLOCK FALSE
INVARIANTS
    OneReader ReadOnce PriNotStuck
PROPERTIES
    SleeperIsServed
