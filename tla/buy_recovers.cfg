SPECIFICATION FairSpec
CONSTANTS
    m1 = m1
    m2 = m2
    Off = Off
    p1 = p1
    Markets <- BothMarkets
    Tokens <- One
    Prices = {p1}
    Slots = {1, 2}
    Placers = {"scan"}
    Env <- Lost
    MaxConcurrent = 2
    MaxShares = 2
    TierShares = 2
    MinSize = 1
    TestLimit = 1
    MaxHeld = 1
PROPERTIES
    BlacklistCleared
    ConvergesToOne
CHECK_DEADLOCK FALSE
