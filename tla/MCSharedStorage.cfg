SPECIFICATION SharedFairSpec
CONSTANTS
    Windows = {w1, w2}
    Keys = {k1, k2}
    Values = {v1}
    None = None
    Same = Same
    MaxChanges = 3
INVARIANTS
    WindowsAgree
PROPERTIES
    EventuallyAgreed
CHECK_DEADLOCK FALSE
