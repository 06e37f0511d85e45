SPECIFICATION Spec
CONSTANTS
    Backups = TRUE
    MaxSaves = 2
    MaxSessions = 2
    MaxInFlight = 2
    Texts <- MCTexts
INVARIANTS
    AckedIsKept
    
CHECK_DEADLOCK FALSE
