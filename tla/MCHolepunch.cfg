SPECIFICATION Spec
CONSTANTS
    MaxReopens = 2
    Birthday = 2
    MaxRounds = 4
    MaxDups = 1
    Plans <- MCPlans
INVARIANTS
    RandomBudget
    PunchesMeet
    NothingInLimbo
    SocketsReleased
CHECK_DEADLOCK FALSE
