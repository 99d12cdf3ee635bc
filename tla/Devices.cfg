SPECIFICATION MCSpec
CONSTANTS
    None = None
    LoopStream = {a, b, c}
    LoopMinor = {1, 2}
    Level = {1, 2}
    Hiwat = 1
    MaxWrite = 2
    LoopMaxCall = 4
    Upper = {u, v}
    Lower = {x, y}
    Entry = {1, 2, 3, 4}
    MaxLink = 2
    SadMinor = {0, 1}
    SadProcess = {p, q}
    SadMaxOpen = 3
    Pid = {1, 2}
    Poller = {r}
    Wants = {{"POLLIN", "POLLOUT"}, {"POLLPRI", "POLLMSG"}}
    AsksFor = {{"S_INPUT", "S_MSG", "S_HIPRI"}, {"S_RDBAND", "S_BANDURG", "S_OUTPUT", "S_HANGUP", "S_ERROR"}}
    Arrival = {"M_DATA", "band", "M_PCPROTO", "M_SIG", "M_PCSIG", "M_ERROR", "M_HANGUP"}
    MaxQueue = 2
    MaxArrival = 2
    MaxAsk = 2
    Proc = {p, q}
    Name = {m1, m2}
    Cmds = {"I_PUSH", "I_POP", "I_FIND", "I_LIST", "I_SRDOPT", "I_FDINSERT"}
    MaxPush = 2
    HeadIoctlMaxCall = 2
    MaxSet = 1
    PipesStream = {a, b, f}
    End0 = a
    End1 = b
    Units = 3
    PipesMaxOpen = 4
    MaxInterrupt = 1
    Own = {o1, o2}
    Other = {x}
    Copy = {c1, c2}
    Fresh = {n}
    MaxFds = 2
    MaxSend = 3
    FattachProcess = {p, q}
    FattachStream = {s, t}
    Path = {x}
    FattachData = {d1, d2}
    MaxFattach = 2
    FattachMaxCall = 2
CHECK_DEADLOCK FALSE
INVARIANTS
    LoopSound RoutesSound DialogueInStep EventsTold HeadSound
    PipesSound PassesSound AttachSound
