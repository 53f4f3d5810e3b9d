SPECIFICATION Spec
CONSTANTS
    Threads <- OneThread
    Env <- NoDisturbance
    MaxBal = 2
    MaxEvents = 2
    MaxTx = 2
    MinShares = 1
    Tolerance = 1
INVARIANTS
    ConfirmedWasMined
