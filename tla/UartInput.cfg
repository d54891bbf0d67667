SPECIFICATION UartSpec
CONSTANTS
    UFifo = 2
    UQueue = 2
    UTyped = 2
    UPrinted = 0
PROPERTY InputComplete
CHECK_DEADLOCK FALSE
