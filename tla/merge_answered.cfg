SPECIFICATION FairSpec
CONSTANTS
    Threads <- OneThread
    Env <- Answered
    MaxBal = 1
    MaxEvents = 1
    MaxTx = 2
    MinShares = 1
    Tolerance = 0
INVARIANTS
    SubmittedOnce
    SharesFree
PROPERTIES
    ReservationEnds
    ImplementsLedger
