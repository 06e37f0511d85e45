SPECIFICATION FairSpec
CONSTANTS
    planner = planner
    builder = builder
    w1 = w1
    s1 = s1
    r1 = r1
    Workflow = {w1}
    Agent <- MCAgent
    SequentialCall = {s1}
    RecoveryCall = {r1}
    WorkflowOf <- MCWorkflowOf
    StepsOf <- MCStepsOf
    AgentOf <- MCAgentOf
    Fits <- MCFits
    MaxRetries = 3
    Known <- MCKnownNone
    Answers = {"success", "timeout_error"}
    MaxTime = 1
    MaxImports = 0
INVARIANT RecoveryIsBounded
PROPERTY CallsEnd
CHECK_DEADLOCK FALSE
