SPECIFICATION CardSpec
CONSTANTS
    File = {f1, f2, f3}
    NumClusters = 3
    MaxGrow = 1
    Shrink = "empty"
    RenameSelf = FALSE
    Lengthen = FALSE
    MaxOps = 5
    Crashes = TRUE
    MaxMounts = 1
    MountInWindow = FALSE
    Name <- MCName
    Mirror = {m1}
    MaxClus = 5
    Slots = 3
    OpDir <- MCOpDir
    Odd = {}
    MaxCalls = 8
    MaxRemounts = 1
    RemountInWindow = FALSE
    Word = 1024
    Half = 32
    Sectors = 2
    EmmcTries = 2
    EmmcFaults = 1
    EmmcLate = 1
    EmmcReqs = 2
INVARIANTS
    ReadBack NothingLost OthersIntact TreeKept  AnswersRight DataRight FaultsMasked
PROPERTIES
    RequestEnds
CHECK_DEADLOCK FALSE
