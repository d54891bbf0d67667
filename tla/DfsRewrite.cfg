SPECIFICATION Spec
CONSTANTS
    Name = {f1, f2}
    Server = {s1}
    NoName = NoName
    MaxPkts = 1
    MaxCmds = 5
    MaxBoots = 1
    Cap = 3
    Lossy = FALSE
    EarlyRetry = FALSE
    NoServer = FALSE
SYMMETRY MCSymmetry
INVARIANT HandleIsMapped
CHECK_DEADLOCK FALSE
