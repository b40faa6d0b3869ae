CONSTANTS
    Lifts = {l1}
    Screen = screen
    MaxTime = 3
    TSeq = 2
    TBtc = 3
    Margin = 1
    Delay = 1
    MineIn = 0
    OneAtATime = TRUE
SPECIFICATION FairSpec
PROPERTY AlwaysRefundable
CHECK_DEADLOCK FALSE
