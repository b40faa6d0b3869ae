CONSTANTS
    MaxTip = 6
    Locktimes = {3, 5}
    Margin = 2
    Depth = 3
    MaxLag = 1
    FundIn = 2
    TipFails = TRUE
SPECIFICATION FairSpec
INVARIANTS
    TypeOK
    ClearedIsUnfunded
PROPERTIES
    WriteAhead
    FundsReturn
    Unwedged
