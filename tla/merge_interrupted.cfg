SPECIFICATION Spec
CONSTANTS
    Threads <- OneThread
    Env <- Interrupted
    MaxBal = 1
    MaxEvents = 2
    MaxTx = 2
    MinShares = 1
    Tolerance = 0
INVARIANTS
    TypeOK
    OneActive
    SubmittedHasTx
PROPERTIES
    SettledOnce
