SPECIFICATION Spec
CONSTANTS
    Name = {f1, f2}
    Server = {s1}
    NoName = NoName
    MaxPkts = 1
    MaxCmds = 4
    MaxBoots = 2
    Cap = 3
    Lossy = FALSE
    EarlyRetry = FALSE
    NoServer = FALSE
SYMMETRY MCSymmetry
INVARIANT UniqueChunkIds
CHECK_DEADLOCK FALSE
