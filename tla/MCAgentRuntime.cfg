SPECIFICATION FairSpec
CONSTANTS
    planner = planner
    builder = builder
    c1 = c1
    c2 = c2
    t1 = t1
    NoAgent = NoAgent
    Agent <- MCAgent
    AgentSeq <- MCAgentSeq
    Priority <- MCPriority
    Tracking = {builder}
    Delayed <- MCAgent
    Throwing = {planner}
    TaskId = {t1}
    Can <- MCCan
    Call = {c1, c2}
    TaskOf <- MCTaskOf
    Shutdown = {s1, s2}
INVARIANTS
    EntriesAreAlive
    StatusTellsTheWork
    StreamTellsActive
    EndReportedOnce
    BestAgentRunsTask
    NoOrphanAgent
PROPERTIES
    AcceptedTaskReturns
    ShutdownReturns
CHECK_DEADLOCK FALSE
