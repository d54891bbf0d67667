SPECIFICATION ProtocolSpec
CONSTANTS
    Name = {f1, f2}
    Server = {s1}
    NoName = NoName
    MaxPkts = 2
    MaxCmds = 4
    MaxBoots = 1
    Cap = 2
    Lossy = TRUE
    EarlyRetry = FALSE
    NoServer = TRUE
    Client = {1, 2, 3}
    DFS_MAX_CONN = 2
    SesCap = 2
    SesLosses = 1
    Commands <- MCCommands
    SesCmds = 2
    SesRetries = 1
INVARIANTS
     ChunksSound  SessionsInv PortsExact RepliesToAsker 
PROPERTIES
    EveryCommandEnds
CHECK_DEADLOCK FALSE
