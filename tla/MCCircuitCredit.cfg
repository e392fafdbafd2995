SPECIFICATION Spec
CONSTANTS
    a = a
    b = b
    Sources = {a, b}
    W = 2
    SW = 1
    SCB = 1
    CCB = 2
    DP = 1
    Batch = 2
    MaxStreams = 2
    Plans <- ContendAndDuplex
INVARIANTS
    CircuitConserved
    GrantsAccounted
    StreamConserved
    HonestPeersAgree
    NobodyStarves
CHECK_DEADLOCK FALSE
