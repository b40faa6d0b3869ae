CONSTANTS
    MaxTip = 6
    Locktimes = {3, 6}
    Cltvs = {0, 1}
    Margin = 1
    Ratio = 2
    PayDelay = 1
    TipFails = TRUE
SPECIFICATION FairSpec
INVARIANTS
    TypeOK
    PaidLegIsOurs
    LiveRevealLeavesMargin
PROPERTIES
    WriteAhead
    Recovered
