SPECIFICATION FairSpec
CONSTANTS
    yes = yes
    no = no
    Tokens <- TwoTokens
    Days = 4
    Pasts <- SomePasts
    Fills <- SomeFills
    Grants <- SomeGrants
    Gains <- SomeGains
    MaxEvents = 1
    MaxFaults = 1
INVARIANTS
    PastDaysAreRight
    FlatIsCash
PROPERTIES
    KeepsUp
CHECK_DEADLOCK FALSE
