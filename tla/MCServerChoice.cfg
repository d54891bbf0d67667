SPECIFICATION ChoiceSpec
CONSTANTS
    NumServer = 3
    DFS_HB_MAX_LAG = 1
    Word = 16
    MaxHb = 2
    QueueCap = 1
    Configs <- MCConfigs
INVARIANTS SearchPicksActive
