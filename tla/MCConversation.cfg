SPECIFICATION ConversationFairSpec
CONSTANTS
    Views = {v1, v2}
    MaxConversations = 3
    MaxSends = 2
    MaxChunks = 2
    Recorded = 1
INVARIANTS
    StreamsStayApart
    ViewsAreFaithful
PROPERTIES
    SendingEnds
CHECK_DEADLOCK FALSE
