SPECIFICATION ThreadsSpec
CONSTANTS
    ForkOrder <- MCForkOrder
    MaxOps = 2
    StdinCap = 1
    Block = {b1, b2, b3, b4}
    First = b1
    Null = Null
    ForkMasked = TRUE
    MaxForks = 4
    CoBlock = {1, 2, 3, 4}
    CoForks = 5
    CoYields = 5
    VmAccess = {5, 6}
    VmPerms = {0, 2, 3}
    VmMapped = {4}
INVARIANTS
    OnePlace StdioExclusive BlocksSound SeesItsTable
PROPERTIES
    OwnContext RunsOn
CHECK_DEADLOCK FALSE
