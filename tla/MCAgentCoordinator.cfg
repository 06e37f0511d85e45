SPECIFICATION Spec
CONSTANTS
    planner = planner
    builder = builder
    w1 = w1
    s1 = s1
    r1 = r1
    Workflow = {w1}
    Agent <- MCAgent
    SequentialCall = {s1}
    RecoveryCall = {r1}
    WorkflowOf <- MCWorkflowOf
    StepsOf <- MCStepsOf
    AgentOf <- MCAgentOf
    Fits <- MCFits
    MaxRetries = 2
    Known <- MCKnown
    Answers = {"success", "empty", "validation_error", "threw"}
    MaxTime = 0
    MaxImports = 1
INVARIANTS
    MemoryIsConsistent
    HistoryIsFaithful
    SequenceFollowsItsSteps
    EndingAnswersEndTheCall
CHECK_DEADLOCK FALSE
