SPECIFICATION Spec
CONSTANTS
    MaxNodes = 3
    MaxEdges = 1
    MaxUpdates = 1
    MaxEntries = 3
    Long = 2
    Recent = 2
    GivenNodes = 1
    GivenEdges = 0
    Given <- MCGiven
INVARIANTS
    GraphIsConsistent
    StreamTellsTheGraph
    ConversationIsRecorded
CHECK_DEADLOCK FALSE
