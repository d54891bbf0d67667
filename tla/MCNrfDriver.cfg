SPECIFICATION FairSpec
CONSTANTS
    t1 = t1
    t2 = t2
    Thread <- MCThread
    Radio <- MCRadio
    RxDepth = 2
    QueueCap = 2
    MaxPkts = 3
INVARIANTS NoStuckPacket PacketsInOrder AssertsHold
PROPERTIES RadioGoesOn
CHECK_DEADLOCK FALSE
