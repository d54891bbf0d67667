SPECIFICATION DevSpec
CONSTANTS
    CQ_N = 6
    Word = 12
    Byte = {0, 1}
    PktLen = 2
    MaxBytes = 10
    SetupDepth = 2
    SetupPkts = 2
    SendCap = 2
    SendFifo = 2
    SendIn = 3
    SendOut = 2
    SendFails = 2
    RtNode = {n1, n2}
    RtAddr = {a1, a2}
    RtWindow = 2
    RtTurns = 2
    RtFull = 6
    UFifo = 1
    UQueue = 2
    UTyped = 3
    UPrinted = 3
    BootServers = 4
    BootStarts = 3
INVARIANTS
    QueueInv SetupClean SendRight AcceptedIsServed UartRight StartUpSound
PROPERTIES
    FifoSpec DevicesGoOn
CHECK_DEADLOCK FALSE
