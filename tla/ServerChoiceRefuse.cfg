SPECIFICATION ChoiceSpec
CONSTANTS
    NumServer = 2
    DFS_HB_MAX_LAG = 3
    Word = 16
    MaxHb = 6
    QueueCap = 1
    Configs <- MCConfigs
PROPERTIES ActiveServersServe
