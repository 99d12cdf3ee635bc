SPECIFICATION MCSpec
CONSTANTS
    Cpu = {c1, c2}
    NoTask = NoTask
    MaxNest = 2
    NestedTry = FALSE
    Hdr = {h1, h2, h3}
    Task = {t1, t2}
    NoHdr = NoHdr
    NoOne = NoOne
    Width = 256
    SharedPullup = FALSE
    Type = {"M_DATA", "M_PROTO"}
    MaxBlocks = 3
    MaxBytes = 2
    MaxUtilities = 2
    File = {f1, f2, f3}
    MaxWCounter = 4
    Proc = {p1, p2}
    p1 = p1
    p2 = p2
    Null = Null
    s1 = s1
    s2 = s2
    s3 = s3
    Stream = {s1, s2, s3}
    Cmds = {"I_LINK", "I_PLINK"}
    MaxNaks = 1
    MaxLinks = 2
    MaxUnlinks = 1
    Name = {m1, m2}
    m1 = m1
    m2 = m2
    NoName = NoName
    MAX_STRMOD = 3
    Signals = TRUE
    MaxCalls = 2
    MaxLoads = 2
    Entry = {e1, e2, e3}
    LastMinor = 1
    MaxList = 2
    MaxSets = 3
    MaxGone = 1
CHECK_DEADLOCK FALSE
INVARIANTS
    HeldByOne BlocksSound CountsAreFiles LinksSound SomeCallGoesOn TablesSound
PROPERTIES
    ConfiguresMinors
