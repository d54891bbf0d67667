SPECIFICATION Spec
CONSTANTS
    NumServer = 2
    DFS_HB_MAX_LAG = 3
    Word = 16
    MaxHb = 5
    QueueCap = 2
    Configs <- MCConfigs
INVARIANTS HeartbeatInv DeadIsDown ActiveHasAnswered
PROPERTIES HeartbeatsInOrder
