SPECIFICATION FairSpec
CONSTANTS
    Proc = {p, q}
    Timed = {p}
    MaxSend = 3
    MaxTrouble = 1
CHECK_DEADLOCK FALSE
INVARIANTS
    AnswersMatch
PROPERTIES
    LateFreed SleepersWake
