SPECIFICATION RqSpec
CONSTANTS
    Block = {b1, b2, b3, b4}
    First = b1
    Null = Null
    ForkMasked = FALSE
    MaxForks = 4
INVARIANTS
    EmptyAsserts
CHECK_DEADLOCK FALSE
