SPECIFICATION FairSpec
CONSTANTS
    client = client
    server = server
    MaxSends = 2
    MaxConn = 3
    MaxFaults = 2
    Handover = TRUE
INVARIANTS
    NothingIsMissing
    NothingWaitsUnarmed
PROPERTIES
    ImplementsChannel
    EverythingArrives
CHECK_DEADLOCK FALSE
