SPECIFICATION Spec
CONSTANTS
    Levels <- Prices
    Books <- AllBooks
    Rewards <- AllRewards
    Templates <- AllTemplates
    Balances = {1400, 2400}
    Market <- Match
    MinSize = 2
    Scale = 8
    Changes = 7
    MaxMoves = 2
INVARIANTS
    TypeOK
    SameVerdict
    ReasonNamesWall
    WithinBudget
    Settles
CHECK_DEADLOCK FALSE
