SPECIFICATION FairSpec
CONSTANTS
    MaxOrders = 2
    MaxFills = 2
    MaxTs = 1
    MaxLives = 2
    Env <- Failing
INVARIANTS
    TypeOK
    RemainderGone
PROPERTIES
    OldStaysOld
    ImplementsLog
    FillsDealtWith
CHECK_DEADLOCK FALSE
