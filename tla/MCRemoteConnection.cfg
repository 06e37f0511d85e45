SPECIFICATION FairSpec
CONSTANTS
    mgmt = mgmt
    exthost = exthost
    Connection <- Both
    Fatal <- OnlyManagement
    MaxAttempts = 0
    MaxSocket = 2
    MaxMishaps = 2
INVARIANTS
    SessionsFitTheirClients
PROPERTIES
    LoopEnds
    SessionOfDisposedEnds
CHECK_DEADLOCK FALSE
