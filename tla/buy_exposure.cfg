SPECIFICATION Spec
CONSTANTS
    m1 = m1
    m2 = m2
    Off = Off
    p1 = p1
    Markets <- BothMarkets
    Tokens <- Both
    Prices = {p1}
    Slots = {1, 2}
    Placers = {"scan"}
    Env <- Drift
    MaxConcurrent = 2
    MaxShares = 3
    TierShares = 2
    MinSize = 1
    TestLimit = 1
    MaxHeld = 1
INVARIANTS
    ExposureCap
