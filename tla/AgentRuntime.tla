---------------------------- MODULE AgentRuntime ----------------------------
(***************************************************************************)
(* The runtime of packages/agent-runtime (AgentRuntime.ts) over its agents *)
(* (BaseAgent): the asynchronous registration the constructor starts and   *)
(* does not await, executeTask, cancelTask, shutdown, the activeTasks map  *)
(* and the tasks$ stream its subscribers see.                              *)
(***************************************************************************)
EXTENDS BaseAgent, Sequences

CONSTANTS
    Shutdown,   \* the invocations of shutdown(), each made at most once
    AgentSeq,   \* the agents in the order of agentConfigs
    Priority,   \* config.priority of each agent
    Can         \* Can[t]: the agents whose canExecuteTask accepts task t

ASSUME RuntimeAssumption ==
    /\ AgentSeq \in Seq(Agent) /\ AgentSeq # <<>>
    /\ \A i, j \in DOMAIN AgentSeq: AgentSeq[i] = AgentSeq[j] => i = j
    /\ \A a \in Agent: \E i \in DOMAIN AgentSeq: AgentSeq[i] = a
    /\ Priority \in [Agent -> Nat]
    /\ \A i, j \in DOMAIN AgentSeq: i <= j => Priority[AgentSeq[j]] <= Priority[AgentSeq[i]]
    /\ Can \in [TaskId -> SUBSET Agent]

VARIABLES
    initAt,         \* how far initializeAgents() has come in AgentSeq
    agents,         \* the agents registered in the agents map
    activeTasks,    \* the invocation whose copy of the task each id maps to
    callAt,         \* where each executeTask of the runtime stands
    stream,         \* the events of tasks$, for each task id
    shutdownPos,    \* how far each shutdown() has come in the agents map
    shutdownOwns    \* whether it waits for an agent.shutdown() that has effect

runtimeVars == <<initAt, agents, activeTasks, callAt, stream, shutdownPos, shutdownOwns>>
vars == <<agentVars, runtimeVars>>

\* "refused" and "cancelled" are published as 'failed' events too; the task
\* inside the event (its status and error) tells the four apart.
EventType == {"started", "completed", "failed", "cancelled", "refused"}
Event == [type: EventType, call: Call]
NoCall == "none"    \* no entry

ASSUME NoCallAssumption == NoCall \notin Call

\* Positions in AgentSeq; for a shutdown(), Idle is before the call and Done
\* after it.
Position == 1..Len(AgentSeq)
Idle == 0
Done == Len(AgentSeq) + 1

TypeOK ==
    /\ AgentTypeOK
    /\ initAt \in Position \union {Done}
    /\ agents \subseteq Agent
    /\ activeTasks \in [TaskId -> Call \union {NoCall}]
    /\ callAt \in [Call -> {"idle", "awaiting", "returned", "refused"}]
    /\ stream \in [TaskId -> Seq(Event)]
    /\ shutdownPos \in [Shutdown -> Position \union {Idle, Done}]
    /\ shutdownOwns \in [Shutdown -> BOOLEAN]

\* The constructor has run: initialize() of the first agent is suspended.
\* Without an LLM service initializeAgents() only warns and goes on.
Init ==
    /\ initAt = 1
    /\ AgentsAtStart({AgentSeq[1]})
    /\ agents = {}
    /\ activeTasks = [t \in TaskId |-> NoCall]
    /\ callAt = [c \in Call |-> "idle"]
    /\ stream = [t \in TaskId |-> <<>>]
    /\ shutdownPos = [s \in Shutdown |-> Idle]
    /\ shutdownOwns = [s \in Shutdown |-> FALSE]

---------------------------------------------------------------------------
(* Registration: the loop of initializeAgents().                           *)

\* "await agent.initialize()" returns: the agent enters the map and the loop
\* goes on to initialize the next one.
Register ==
    /\ initAt \in Position
    /\ isInitialized[AgentSeq[initAt]] /\ ~initializing[AgentSeq[initAt]]
    /\ agents' = agents \union {AgentSeq[initAt]}
    /\ initAt' = initAt + 1
    /\ IF initAt + 1 \in Position
       THEN InitializeBegin(AgentSeq[initAt + 1])
       ELSE UNCHANGED agentVars
    /\ UNCHANGED <<activeTasks, callAt, stream, shutdownPos, shutdownOwns>>

---------------------------------------------------------------------------
(* Tasks.                                                                  *)

Publish(t, type, c) ==
    stream' = [stream EXCEPT ![t] = Append(@, [type |-> type, call |-> c])]

\* The registered agents that accept the task.
Capable(t) == agents \intersect Can[t]

\* Fault: the list is sorted by ascending priority.
SelectedAscending(t) ==
    {a \in Capable(t): \A b \in Capable(t): Priority[b] >= Priority[a]}

\* The head of the list sorted by descending priority.
Selected(t) ==
    {a \in Capable(t): \A b \in Capable(t): Priority[b] <= Priority[a]}

\* executeTask finds no agent: a 'failed' event, and the promise rejects.
RefuseTask(c) ==
    /\ callAt[c] = "idle"
    /\ Capable(TaskOf[c]) = {}
    /\ callAt' = [callAt EXCEPT ![c] = "refused"]
    /\ Publish(TaskOf[c], "refused", c)
    /\ UNCHANGED <<agentVars, initAt, agents, activeTasks, shutdownPos, shutdownOwns>>

\* executeTask up to "await selectedAgent.executeTask(task)", with what that
\* call does at once.  The entry of an invocation with the same id is replaced.
ExecuteTask(c) ==
    /\ callAt[c] = "idle"
    /\ \E a \in Selected(TaskOf[c]): AgentExecute(a, c)
    /\ activeTasks' = [activeTasks EXCEPT ![TaskOf[c]] = c]
    /\ callAt' = [callAt EXCEPT ![c] = "awaiting"]
    /\ Publish(TaskOf[c], "started", c)
    /\ UNCHANGED <<initAt, agents, shutdownPos, shutdownOwns>>

\* Fault: an invocation deletes only an entry of its own.
ReturnTaskOwnEntry(c) ==
    /\ callAt[c] = "awaiting"
    /\ workAt[c] = "settled"
    /\ activeTasks' = [activeTasks EXCEPT ![TaskOf[c]] = IF @ = c THEN NoCall ELSE @]
    /\ callAt' = [callAt EXCEPT ![c] = "returned"]
    /\ Publish(TaskOf[c], "completed", c)
    /\ UNCHANGED <<agentVars, initAt, agents, shutdownPos, shutdownOwns>>

\* Fault: the entry is deleted only after a success.
ReturnTaskKeepsFailed(c) ==
    /\ callAt[c] = "awaiting"
    /\ workAt[c] = "settled"
    /\ activeTasks' = IF outcome[c] = "success"
                      THEN [activeTasks EXCEPT ![TaskOf[c]] = NoCall]
                      ELSE activeTasks
    /\ callAt' = [callAt EXCEPT ![c] = "returned"]
    /\ Publish(TaskOf[c], "completed", c)
    /\ UNCHANGED <<agentVars, initAt, agents, shutdownPos, shutdownOwns>>

\* Fault: an invocation whose task is not active any more is never settled.
ReturnTaskIfActive(c) ==
    /\ callAt[c] = "awaiting"
    /\ workAt[c] = "settled"
    /\ activeTasks[TaskOf[c]] # NoCall
    /\ activeTasks' = [activeTasks EXCEPT ![TaskOf[c]] = NoCall]
    /\ callAt' = [callAt EXCEPT ![c] = "returned"]
    /\ Publish(TaskOf[c], "completed", c)
    /\ UNCHANGED <<agentVars, initAt, agents, shutdownPos, shutdownOwns>>

\* The rest of executeTask.  A result with success = false is published as
\* 'completed' all the same; only a rejection reaches the catch block.
ReturnTask(c) ==
    /\ callAt[c] = "awaiting"
    /\ workAt[c] = "settled"
    /\ activeTasks' = [activeTasks EXCEPT ![TaskOf[c]] = NoCall]
    /\ callAt' = [callAt EXCEPT ![c] = "returned"]
    /\ Publish(TaskOf[c], IF outcome[c] = "threw" THEN "failed" ELSE "completed", c)
    /\ UNCHANGED <<agentVars, initAt, agents, shutdownPos, shutdownOwns>>

\* Fault: cancelTask settles the promise of the invocation it cancels.
CancelTaskSettles(t) ==
    /\ activeTasks[t] # NoCall
    /\ activeTasks' = [activeTasks EXCEPT ![t] = NoCall]
    /\ callAt' = [callAt EXCEPT ![activeTasks[t]] = "returned"]
    /\ Publish(t, "cancelled", activeTasks[t])
    /\ UNCHANGED <<agentVars, initAt, agents, shutdownPos, shutdownOwns>>

\* cancelTask on an active id (on any other it does nothing).  The agent is
\* not told; the event carries the copy of the task that the map holds.
CancelTask(t) ==
    /\ activeTasks[t] # NoCall
    /\ activeTasks' = [activeTasks EXCEPT ![t] = NoCall]
    /\ Publish(t, "cancelled", activeTasks[t])
    /\ UNCHANGED <<agentVars, initAt, agents, callAt, shutdownPos, shutdownOwns>>

---------------------------------------------------------------------------
(* shutdown().                                                             *)

\* Fault: the iteration skips the agent it should visit next.
UnvisitedSkipping(p) == {i \in Position: i > p /\ AgentSeq[i] \in agents}

\* The positions of registered agents from p on: what the iterator over the
\* live map has still to visit, agents registered since the call included.
Unvisited(p) == {i \in Position: i >= p /\ AgentSeq[i] \in agents}

\* The loop moves to the next agent and calls its shutdown(), or it ends and
\* the map is cleared.
Advance(s, p) ==
    \/ /\ Unvisited(p) = {}
       /\ agents' = {}
       /\ shutdownPos' = [shutdownPos EXCEPT ![s] = Done]
       /\ shutdownOwns' = [shutdownOwns EXCEPT ![s] = FALSE]
       /\ UNCHANGED agentVars
    \/ \E i \in Unvisited(p):
       /\ \A j \in Unvisited(p): i <= j
       /\ shutdownPos' = [shutdownPos EXCEPT ![s] = i]
       /\ shutdownOwns' = [shutdownOwns EXCEPT ![s] = CanShutdown(AgentSeq[i])]
       /\ IF CanShutdown(AgentSeq[i])
          THEN ShutdownBegin(AgentSeq[i])
          ELSE UNCHANGED agentVars
       /\ UNCHANGED agents

ShutdownCall(s) ==
    /\ shutdownPos[s] = Idle
    /\ Advance(s, 1)
    /\ UNCHANGED <<initAt, activeTasks, callAt, stream>>

\* Fault: an agent.shutdown() that has no effect never resolves.
ShutdownResumeOwned(s) ==
    /\ shutdownPos[s] \in Position
    /\ shutdownOwns[s] /\ shutdownAt[AgentSeq[shutdownPos[s]]] = "closed"
    /\ Advance(s, shutdownPos[s] + 1)
    /\ UNCHANGED <<initAt, activeTasks, callAt, stream>>

\* "await agent.shutdown()" returns: at once where that call had no effect.
ShutdownResume(s) ==
    /\ shutdownPos[s] \in Position
    /\ shutdownOwns[s] => shutdownAt[AgentSeq[shutdownPos[s]]] = "closed"
    /\ Advance(s, shutdownPos[s] + 1)
    /\ UNCHANGED <<initAt, activeTasks, callAt, stream>>

---------------------------------------------------------------------------

\* What an agent does of its own accord: the rest of initialize() or shutdown().
AgentContinues(a) ==
    /\ InitializeEnd(a) \/ ShutdownCancel(a) \/ ShutdownEnd(a)
    /\ UNCHANGED runtimeVars

\* What it does for an invocation: the timer fires, or the work ends.
WorkContinues(c) ==
    /\ AgentWake(c) \/ AgentFinish(c)
    /\ UNCHANGED runtimeVars

\* A step of an agent between two awaits.
AgentStep ==
    \/ \E a \in Agent: AgentContinues(a)
    \/ \E c \in Call: WorkContinues(c)

Next ==
    \/ Register
    \/ AgentStep
    \/ \E c \in Call: RefuseTask(c) \/ ExecuteTask(c) \/ ReturnTask(c)
    \/ \E t \in TaskId: CancelTask(t)
    \/ \E s \in Shutdown: ShutdownCall(s) \/ ShutdownResume(s)

Spec == Init /\ [][Next]_vars

\* Suspended code resumes when what it awaits is there: the event loop starves
\* no continuation, timers fire, and the agents' own work is a finite chain of
\* promises.  Calls are made or not, as the caller likes.
Fairness ==
    /\ WF_vars(Register)
    /\ \A a \in Agent: WF_vars(AgentContinues(a))
    /\ \A c \in Call: WF_vars(WorkContinues(c) \/ ReturnTask(c))
    /\ \A s \in Shutdown: WF_vars(ShutdownResume(s))

FairSpec == Spec /\ Fairness

---------------------------------------------------------------------------
(* Properties.                                                             *)

\* The last of the events, refusals aside, is the 'started' event of c.
StartedLast(events, c) ==
    \E i \in DOMAIN events:
        /\ events[i] = [type |-> "started", call |-> c]
        /\ \A j \in DOMAIN events: j > i => events[j].type = "refused"

\* Somebody who only listens to tasks$ can tell which tasks are active: id t is
\* in activeTasks, on behalf of invocation c, exactly when the last event of t,
\* refusals aside, is the 'started' event of c.  Cancellations and invocations
\* that share an id do not break this.
StreamTellsActive ==
    \A t \in TaskId: \A c \in Call:
        activeTasks[t] = c <=> StartedLast(stream[t], c)

\* No leak: an entry of activeTasks belongs to an executeTask still under way,
\* whatever was cancelled or replaced in between.
ActiveHasLiveOwner ==
    \A t \in TaskId: activeTasks[t] # NoCall =>
        callAt[activeTasks[t]] = "awaiting" /\ TaskOf[activeTasks[t]] = t

OwnEvents(c, types) ==
    {i \in DOMAIN stream[TaskOf[c]]:
        stream[TaskOf[c]][i].call = c /\ stream[TaskOf[c]][i].type \in types}

\* Every invocation reports its own end exactly once, after its own start, and
\* only when it has returned; a cancellation comes between the two, at most once.
EndReportedOnce ==
    \A c \in Call:
        LET start == OwnEvents(c, {"started"})
            end == OwnEvents(c, {"completed", "failed"})
            cancel == OwnEvents(c, {"cancelled"})
        IN  /\ Cardinality(start) = (IF callAt[c] \in {"awaiting", "returned"} THEN 1 ELSE 0)
            /\ Cardinality(end) = (IF callAt[c] = "returned" THEN 1 ELSE 0)
            /\ Cardinality(cancel) <= 1
            /\ \A i \in start: \A j \in end \union cancel: i < j
            /\ \A i \in cancel: \A j \in end: i < j

\* Until somebody calls shutdown(), an accepted task runs on the best agent of
\* all that can ever be registered, also while registration is still going on.
\* This rests on the order of agentConfigs, which is that of their priorities.
BestAgentRunsTask ==
    (\A s \in Shutdown: shutdownPos[s] = Idle) =>
        \A c \in Call: workAgent[c] # NoAgent =>
            \A b \in Can[TaskOf[c]]: Priority[b] <= Priority[workAgent[c]]

\* No agent is dropped alive: when no shutdown() is under way, an agent that
\* runs is in the map or about to enter it, also when it was registered while a
\* shutdown() was going on or when two of them overlapped.
NoOrphanAgent ==
    (\A s \in Shutdown: shutdownPos[s] \notin Position) =>
        \A a \in Agent: isInitialized[a] =>
            a \in agents \/ (initAt \in Position /\ a = AgentSeq[initAt])

\* A task that was accepted comes back to its caller.
AcceptedTaskReturns ==
    \A c \in Call: callAt[c] = "awaiting" ~> callAt[c] = "returned"

\* A shutdown() returns, also when tasks keep starting and another shutdown()
\* clears the map it iterates over.
ShutdownReturns ==
    \A s \in Shutdown: shutdownPos[s] \in Position ~> shutdownPos[s] = Done

\* What the runtime and its agents hold of tasks belongs to work under way: the
\* tables are well typed, and no entry outlives the executeTask it stands for.
EntriesAreAlive == TypeOK /\ NoGhostTasks /\ ActiveHasLiveOwner
=============================================================================
