----------------------------- MODULE BaseAgent -----------------------------
(***************************************************************************)
(* The agents of packages/agent-runtime: the life cycle, the task table    *)
(* and the counters that agents/BaseAgentImpl.ts keeps for every agent,    *)
(* and the shape of executeTask in the concrete agents.                    *)
(*                                                                         *)
(* A method runs without interruption up to its next await, so one action  *)
(* is the code between two awaits.  Builder and Designer are the agents    *)
(* that record a task in currentTasks; Planner and Builder sleep one       *)
(* millisecond before they touch the task.                                 *)
(***************************************************************************)
EXTENDS Integers, FiniteSets

CONSTANTS
    Agent,      \* the agents
    Tracking,   \* those whose executeTask calls onTaskStarted/Completed/Failed
    Delayed,    \* those whose executeTask awaits a timer first
    Throwing,   \* those whose executeTask may reject instead of answering
    Call,       \* the invocations of executeTask, each made at most once
    TaskId,     \* the values of task.id
    TaskOf,     \* the id of the task each invocation is given
    NoAgent     \* the agent of an invocation not made yet

ASSUME AgentAssumption ==
    /\ Tracking \subseteq Agent
    /\ Delayed \subseteq Agent
    /\ Throwing \subseteq Agent \ Tracking
    /\ TaskOf \in [Call -> TaskId]
    /\ NoAgent \notin Agent
    /\ IsFiniteSet(TaskId)
    /\ IsFiniteSet(Call)

VARIABLES
    initializing,   \* an initialize() is suspended in onInitialize()
    isInitialized,  \* the field of that name
    isEnabled,      \* status.isEnabled
    shutdownAt,     \* where the one effective shutdown() stands
    currentTasks,   \* the ids in the currentTasks map
    status,         \* the counters getStatus() returns
    workAt,         \* where each executeTask stands
    workAgent,      \* the agent that runs it
    outcome         \* what it resolved to

lifeVars == <<initializing, isInitialized, isEnabled, shutdownAt>>
workVars == <<workAt, workAgent, outcome>>
agentVars == <<lifeVars, currentTasks, status, workVars>>

Counters == [currentTasks: Nat, totalTasksCompleted: Nat, totalTasksFailed: Nat]

\* Success and failure are the two TaskResults; "threw" is a rejected promise.
Outcome == {"success", "failure", "threw"}

AgentTypeOK ==
    /\ initializing \in [Agent -> BOOLEAN]
    /\ isInitialized \in [Agent -> BOOLEAN]
    /\ isEnabled \in [Agent -> BOOLEAN]
    /\ shutdownAt \in [Agent -> {"open", "cancelling", "closing", "closed"}]
    /\ currentTasks \in [Agent -> SUBSET TaskId]
    /\ status \in [Agent -> Counters]
    /\ workAt \in [Call -> {"none", "delayed", "working", "settled"}]
    /\ workAgent \in [Call -> Agent \union {NoAgent}]
    /\ outcome \in [Call -> Outcome \union {"none"}]

\* The agents as constructed; for those in S initialize() has been called.
AgentsAtStart(S) ==
    /\ initializing = [a \in Agent |-> a \in S]
    /\ isInitialized = [a \in Agent |-> FALSE]
    /\ isEnabled = [a \in Agent |-> TRUE]
    /\ shutdownAt = [a \in Agent |-> "open"]
    /\ currentTasks = [a \in Agent |-> {}]
    /\ status = [a \in Agent |-> [currentTasks |-> 0,
                                  totalTasksCompleted |-> 0,
                                  totalTasksFailed |-> 0]]
    /\ workAt = [c \in Call |-> "none"]
    /\ workAgent = [c \in Call |-> NoAgent]
    /\ outcome = [c \in Call |-> "none"]

---------------------------------------------------------------------------
(* Life cycle.                                                             *)

\* initialize() up to "await this.onInitialize()"; it returns at once on an
\* initialized agent.
InitializeBegin(a) ==
    /\ ~isInitialized[a]
    /\ initializing' = [initializing EXCEPT ![a] = TRUE]
    /\ UNCHANGED <<isInitialized, isEnabled, shutdownAt,
                   currentTasks, status, workVars>>

\* The rest of initialize(): the hook has returned.
InitializeEnd(a) ==
    /\ initializing[a]
    /\ initializing' = [initializing EXCEPT ![a] = FALSE]
    /\ isInitialized' = [isInitialized EXCEPT ![a] = TRUE]
    /\ UNCHANGED <<isEnabled, shutdownAt, currentTasks, status, workVars>>

\* The guard of shutdown(): isShuttingDown is set once and never reset.
CanShutdown(a) == isInitialized[a] /\ shutdownAt[a] = "open"

\* One turn of shutdown()'s loop over the live map: cancel the next task, or,
\* when none is left, clear the map and call onShutdown().
CancelOrClose(a) ==
    \/ \E t \in currentTasks[a]:
        /\ currentTasks' = [currentTasks EXCEPT ![a] = @ \ {t}]
        /\ shutdownAt' = [shutdownAt EXCEPT ![a] = "cancelling"]
    \/ /\ currentTasks[a] = {}
       /\ shutdownAt' = [shutdownAt EXCEPT ![a] = "closing"]
       /\ UNCHANGED currentTasks

\* shutdown() as called: set isShuttingDown and enter the loop.
ShutdownBegin(a) ==
    /\ CanShutdown(a)
    /\ CancelOrClose(a)
    /\ UNCHANGED <<initializing, isInitialized, isEnabled, status, workVars>>

\* The loop resumes after "await this.onTaskCancelled(task)".
ShutdownCancel(a) ==
    /\ shutdownAt[a] = "cancelling"
    /\ CancelOrClose(a)
    /\ UNCHANGED <<initializing, isInitialized, isEnabled, status, workVars>>

\* onShutdown() has returned.
ShutdownEnd(a) ==
    /\ shutdownAt[a] = "closing"
    /\ shutdownAt' = [shutdownAt EXCEPT ![a] = "closed"]
    /\ isInitialized' = [isInitialized EXCEPT ![a] = FALSE]
    /\ isEnabled' = [isEnabled EXCEPT ![a] = FALSE]
    /\ UNCHANGED <<initializing, currentTasks, status, workVars>>

---------------------------------------------------------------------------
(* Task execution.                                                         *)

\* onTaskStarted up to its await.
OnTaskStarted(a, t) ==
    currentTasks' = IF a \in Tracking
                    THEN [currentTasks EXCEPT ![a] = @ \union {t}]
                    ELSE currentTasks

\* executeTask as called.  It does not look at isInitialized or isEnabled.
AgentExecute(a, c) ==
    /\ workAt[c] = "none"
    /\ workAgent' = [workAgent EXCEPT ![c] = a]
    /\ IF a \in Delayed
       THEN /\ workAt' = [workAt EXCEPT ![c] = "delayed"]
            /\ UNCHANGED currentTasks
       ELSE /\ workAt' = [workAt EXCEPT ![c] = "working"]
            /\ OnTaskStarted(a, TaskOf[c])
    /\ UNCHANGED <<lifeVars, status, outcome>>

\* The timer of a delayed agent fires.
AgentWake(c) ==
    /\ workAt[c] = "delayed"
    /\ workAt' = [workAt EXCEPT ![c] = "working"]
    /\ OnTaskStarted(workAgent[c], TaskOf[c])
    /\ UNCHANGED <<lifeVars, status, workAgent, outcome>>

\* updateTaskMetrics, called with the map as it is after the deletion.
UpdateTaskMetrics(a, tasks, ok) ==
    status' = [status EXCEPT
        ![a].currentTasks = Cardinality(tasks),
        ![a].totalTasksCompleted = @ + (IF ok THEN 1 ELSE 0),
        ![a].totalTasksFailed = @ + (IF ok THEN 0 ELSE 1)]

\* Fault: only a task still in the map is counted.
OnTaskSettledIfCurrent(a, t, ok) ==
    LET rest == currentTasks[a] \ {t} IN
    /\ currentTasks' = [currentTasks EXCEPT ![a] = rest]
    /\ IF t \in currentTasks[a]
       THEN UpdateTaskMetrics(a, rest, ok)
       ELSE UNCHANGED status

\* onTaskCompleted or onTaskFailed, up to its await.
OnTaskSettled(a, t, ok) ==
    LET rest == currentTasks[a] \ {t} IN
    /\ currentTasks' = [currentTasks EXCEPT ![a] = rest]
    /\ UpdateTaskMetrics(a, rest, ok)

\* The agent's own work ends, in its try block, in its catch block, or, for an
\* agent that may throw, in a rejection that records nothing.
AgentFinish(c) ==
    /\ workAt[c] = "working"
    /\ \E o \in Outcome:
        /\ o = "threw" => workAgent[c] \in Throwing
        /\ outcome' = [outcome EXCEPT ![c] = o]
        /\ IF workAgent[c] \in Tracking /\ o # "threw"
           THEN OnTaskSettled(workAgent[c], TaskOf[c], o = "success")
           ELSE UNCHANGED <<currentTasks, status>>
    /\ workAt' = [workAt EXCEPT ![c] = "settled"]
    /\ UNCHANGED <<lifeVars, workAgent>>

---------------------------------------------------------------------------
(* The agents on their own: any caller may use the BaseAgent interface.    *)

AgentInit == AgentsAtStart({})

AgentNext ==
    \/ \E a \in Agent:
        \/ InitializeBegin(a)
        \/ InitializeEnd(a)
        \/ ShutdownBegin(a)
        \/ ShutdownCancel(a)
        \/ ShutdownEnd(a)
    \/ \E c \in Call:
        \/ \E a \in Agent: AgentExecute(a, c)
        \/ AgentWake(c)
        \/ AgentFinish(c)

AgentSpec == AgentInit /\ [][AgentNext]_agentVars

---------------------------------------------------------------------------
(* Properties.                                                             *)

WorkingOn(a) == {c \in Call: workAt[c] = "working" /\ workAgent[c] = a}

\* currentTasks never holds a task nobody works on any more: whatever the order
\* of starts, answers and cancellations, and also when two invocations carry
\* the same task id, an entry belongs to an executeTask still under way.
NoGhostTasks ==
    \A a \in Agent: \A t \in currentTasks[a]:
        \E c \in WorkingOn(a): TaskOf[c] = t

\* status.currentTasks is refreshed only when a task ends, and it is stale in
\* between; an agent with no task under way nevertheless always reports 0.
IdleAgentReportsZero ==
    \A a \in Agent:
        WorkingOn(a) = {} => currentTasks[a] = {} /\ status[a].currentTasks = 0

Answered(a, o) == {c \in Call: workAgent[c] = a /\ outcome[c] = o}

\* Every answered task is counted exactly once, on the side of its result,
\* whether it was cancelled by a shutdown meanwhile or not; an agent that does
\* not track its tasks counts none.
AnswersCountedOnce ==
    \A a \in Agent:
        LET counted(o) == IF a \in Tracking THEN Cardinality(Answered(a, o)) ELSE 0 IN
        /\ status[a].totalTasksCompleted = counted("success")
        /\ status[a].totalTasksFailed = counted("failure")

\* getStatus() tells what the agent is doing and what it did, in these parts.
StatusTellsTheWork == IdleAgentReportsZero /\ AnswersCountedOnce
=============================================================================
