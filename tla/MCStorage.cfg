SPECIFICATION StorageFairSpec
CONSTANTS
    Keys = {k1, k2}
    Values = {v1}
    None = None
    MayFail = TRUE
    MaxCalls = 3
    MaxWaits = 1
INVARIANTS
    AnswerIsFresh
    DatabaseFollowsTheCache
    ClosedHoldsCache
PROPERTIES
    CallersAreTold
CHECK_DEADLOCK FALSE
