SPECIFICATION Spec
CONSTANTS
    Unread = Unread
    Unknown = Unknown
    Positions <- Both
    Bought <- BothBought
    Resting <- Left
    Buys <- Dearer
    Books <- AllBooks
    Rewards <- BothRewards
    Cash = 3000
    Enough = 4000
    Templates <- AllTemplates
    MaxMoves = 1
    MaxFaults = 1
INVARIANTS
    TypeOK
    
    OneSell
    NeverBelowCost
    CalmTickCovers
PROPERTIES
    NoOverSale
