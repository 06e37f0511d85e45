SPECIFICATION FairSpec
CONSTANT MaxActs = 5
INVARIANTS
    SavesAreConsistent
    CleanIsSaved
    SavesAreAttempted
PROPERTIES
    SavesAndRevertsEnd
CHECK_DEADLOCK FALSE
