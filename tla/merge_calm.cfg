SPECIFICATION HSpec
CONSTANTS
    Threads <- OneThread
    Env <- NoDisturbance
    MaxBal = 2
    MaxEvents = 2
    MaxTx = 2
    MinShares = 2
    Tolerance = 1
INVARIANTS
    OneLiveFok
PROPERTIES
    BooksOnlyBurnt
