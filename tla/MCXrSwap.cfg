CONSTANTS
    MaxBtc = 3
    TSeq = 1
SPECIFICATION FairSpec
INVARIANTS
    TypeOK
    AnnouncedIsCovered
PROPERTIES
    WriteAhead
    Settles
CHECK_DEADLOCK FALSE
