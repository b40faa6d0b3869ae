CONSTANTS
    Lifts = {l1, l2}
    Screen = screen
    MaxTime = 3
    TSeq = 2
    TBtc = 3
    Margin = 1
    Delay = 1
    MineIn = 0
    OneAtATime = FALSE
SPECIFICATION FairSpec
INVARIANT NeverOverwritten
CHECK_DEADLOCK FALSE
