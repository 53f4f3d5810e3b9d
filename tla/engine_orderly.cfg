SPECIFICATION FairSpec
CONSTANTS
    w1 = w1
    s1 = s1
    s2 = s2
    r1 = r1
    None = None
    Wallets = {w1}
    Scanners = {s1, s2}
    Routes = {r1}
    MaxMonitors = 2
    MaxScans = 2
    Env <- Orderly
INVARIANTS
    TypeOK
    OneScanner
    OneMonitor
    BuysAreWatched
PROPERTIES
    SavedForward
    StatusSettles
