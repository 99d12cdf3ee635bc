SPECIFICATION MCSpec
CONSTANTS
    Proc = {p1, p2}
    Stdata = {h1, h2, h3}
    Dev = {d}
    Clone = Clone
    NoHead = NoHead
    Signals = TRUE
    MaxOpens = 3
    MaxUses = 1
    Changer = c
    NoTask = NoTask
    PerPutter = 2
    Options = {"none", "queue", "global"}
    Changes = {"push", "pop"}
    Width = 8
CHECK_DEADLOCK FALSE
INVARIANTS
    HeadsSound PutsTakeTurns
PROPERTIES
    IsCounted AllReturn
