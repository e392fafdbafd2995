SPECIFICATION Spec
CONSTANTS
    a = a
    b = b
    Sources = {a, b}
    W = 4
    SW = 2
    SCB = 2
    CCB = 2
    DP = 2
    Batch = 2
    MaxStreams = 2
    Plans <- RenewOnly
INVARIANT
    RenewalPreserved
CHECK_DEADLOCK FALSE
