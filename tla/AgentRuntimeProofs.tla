------------------------- MODULE AgentRuntimeProofs -------------------------
(***************************************************************************)
(* Theorems about the agents and their runtime, for every set of agents,   *)
(* invocations and concurrent shutdowns; about the average duration of the *)
(* tasks of an agent; and about the conversations the runtime streams, for *)
(* any views, conversations and messages.                                  *)
(***************************************************************************)
EXTENDS AgentRuntime, TaskMetrics, Conversation, FiniteSetTheorems, SequenceTheorems, TLAPS

---------------------------------------------------------------------------
(* The agents on their own: type correctness.                              *)

\* The size of a currentTasks map is a number.
LEMMA TaskCount ==
    ASSUME NEW S \in SUBSET TaskId
    PROVE  Cardinality(S) \in Nat
BY FS_Subset, FS_CardinalityType, AgentAssumption

\* Recording a task keeps the task tables well typed.
LEMMA StartedTypeOK ==
    ASSUME AgentTypeOK, NEW a \in Agent, NEW t \in TaskId, OnTaskStarted(a, t)
    PROVE  currentTasks' \in [Agent -> SUBSET TaskId]
<1>1. currentTasks \in [Agent -> SUBSET TaskId]
  BY DEF AgentTypeOK
<1>2. currentTasks[a] \union {t} \in SUBSET TaskId
  BY <1>1
<1> QED
  BY <1>1, <1>2 DEF OnTaskStarted

\* The counters stay numbers when a tracked task settles.
LEMMA SettledTypeOK ==
    ASSUME AgentTypeOK, NEW a \in Agent, NEW t \in TaskId, NEW ok \in BOOLEAN,
           OnTaskSettled(a, t, ok)
    PROVE  /\ currentTasks' \in [Agent -> SUBSET TaskId]
           /\ status' \in [Agent -> Counters]
<1> DEFINE rest == currentTasks[a] \ {t}
<1>1. currentTasks \in [Agent -> SUBSET TaskId] /\ status \in [Agent -> Counters]
  BY DEF AgentTypeOK
<1>2. rest \in SUBSET TaskId
  BY <1>1
<1>3. Cardinality(rest) \in Nat
  BY <1>2, TaskCount
<1>4. currentTasks' = [currentTasks EXCEPT ![a] = rest]
  BY DEF OnTaskSettled
<1>5. UpdateTaskMetrics(a, rest, ok)
  BY DEF OnTaskSettled
<1> HIDE DEF rest
<1>6. status' \in [Agent -> Counters]
  BY <1>1, <1>3, <1>5 DEF UpdateTaskMetrics, Counters
<1>7. currentTasks' \in [Agent -> SUBSET TaskId]
  BY <1>1, <1>2, <1>4
<1> QED
  BY <1>6, <1>7

\* Every operation of an agent preserves the types of the agents' state.
LEMMA AgentStepTypeOK ==
    ASSUME AgentTypeOK,
           [AgentNext]_agentVars
    PROVE  AgentTypeOK'
<1>1. CASE UNCHANGED agentVars
  BY <1>1 DEF AgentTypeOK, agentVars, lifeVars, workVars
<1>2. ASSUME NEW a \in Agent, InitializeBegin(a)
      PROVE  AgentTypeOK'
  BY <1>2 DEF AgentTypeOK, InitializeBegin, workVars
<1>3. ASSUME NEW a \in Agent, InitializeEnd(a)
      PROVE  AgentTypeOK'
  BY <1>3 DEF AgentTypeOK, InitializeEnd, workVars
<1>4. ASSUME NEW a \in Agent, ShutdownBegin(a) \/ ShutdownCancel(a)
      PROVE  AgentTypeOK'
  <2>1. UNCHANGED <<initializing, isInitialized, isEnabled, status, workVars>>
    BY <1>4 DEF ShutdownBegin, ShutdownCancel
  <2>2. CancelOrClose(a)
    BY <1>4 DEF ShutdownBegin, ShutdownCancel
  <2>3. /\ currentTasks' \in [Agent -> SUBSET TaskId]
        /\ shutdownAt' \in [Agent -> {"open", "cancelling", "closing", "closed"}]
    BY <2>2 DEF CancelOrClose, AgentTypeOK
  <2> QED
    BY <2>1, <2>3 DEF AgentTypeOK, workVars
<1>5. ASSUME NEW a \in Agent, ShutdownEnd(a)
      PROVE  AgentTypeOK'
  BY <1>5 DEF AgentTypeOK, ShutdownEnd, workVars
<1>6. ASSUME NEW c \in Call, NEW a \in Agent, AgentExecute(a, c)
      PROVE  AgentTypeOK'
  <2>1. TaskOf[c] \in TaskId
    BY AgentAssumption
  <2>2. currentTasks' \in [Agent -> SUBSET TaskId]
    <3>1. CASE a \in Delayed \/ a \notin Tracking
      BY <1>6, <3>1 DEF AgentTypeOK, AgentExecute, OnTaskStarted
    <3>2. CASE a \notin Delayed /\ a \in Tracking
      BY <1>6, <2>1, <3>2, StartedTypeOK DEF AgentExecute
    <3> QED
      BY <3>1, <3>2
  <2> QED
    BY <1>6, <2>2 DEF AgentTypeOK, AgentExecute, lifeVars
<1>7. ASSUME NEW c \in Call, AgentWake(c)
      PROVE  AgentTypeOK'
  <2>1. TaskOf[c] \in TaskId /\ Tracking \subseteq Agent
    BY AgentAssumption
  <2>2. currentTasks' \in [Agent -> SUBSET TaskId]
    <3>1. CASE workAgent[c] \notin Tracking
      BY <1>7, <3>1 DEF AgentTypeOK, AgentWake, OnTaskStarted
    <3>2. CASE workAgent[c] \in Tracking
      BY <1>7, <2>1, <3>2, StartedTypeOK DEF AgentWake
    <3> QED
      BY <3>1, <3>2
  <2> QED
    BY <1>7, <2>2 DEF AgentTypeOK, AgentWake, lifeVars
<1>8. ASSUME NEW c \in Call, AgentFinish(c)
      PROVE  AgentTypeOK'
  <2>1. PICK o \in Outcome:
            /\ outcome' = [outcome EXCEPT ![c] = o]
            /\ IF workAgent[c] \in Tracking /\ o # "threw"
               THEN OnTaskSettled(workAgent[c], TaskOf[c], o = "success")
               ELSE UNCHANGED <<currentTasks, status>>
    BY <1>8 DEF AgentFinish
  <2>2. /\ currentTasks' \in [Agent -> SUBSET TaskId]
        /\ status' \in [Agent -> Counters]
    <3>1. CASE workAgent[c] \in Tracking /\ o # "threw"
      BY <2>1, <3>1, SettledTypeOK, AgentAssumption
    <3>2. CASE ~(workAgent[c] \in Tracking /\ o # "threw")
      BY <2>1, <3>2 DEF AgentTypeOK
    <3> QED
      BY <3>1, <3>2
  <2> QED
    BY <1>8, <2>1, <2>2 DEF AgentTypeOK, AgentFinish, lifeVars
<1> QED
  BY <1>1, <1>2, <1>3, <1>4, <1>5, <1>6, <1>7, <1>8 DEF AgentNext

\* The agents' state is well typed at the start.
LEMMA StartTypeOK ==
    ASSUME NEW S, AgentsAtStart(S)
    PROVE  AgentTypeOK
<1>1. initializing \in [Agent -> BOOLEAN] /\ status \in [Agent -> Counters]
  BY DEF AgentsAtStart, Counters
<1> QED
  BY <1>1 DEF AgentsAtStart, AgentTypeOK

\* Every reachable state of the agents is well typed.
THEOREM AgentTypeCorrect == AgentSpec => []AgentTypeOK
<1>1. AgentInit => AgentTypeOK
  BY StartTypeOK DEF AgentInit
<1>2. AgentTypeOK /\ [AgentNext]_agentVars => AgentTypeOK'
  BY AgentStepTypeOK
<1> QED
  BY <1>1, <1>2, PTL DEF AgentSpec

---------------------------------------------------------------------------
(* The agents on their own: the task tables hold no ghosts.                *)

\* The inductive form of NoGhostTasks: an agent that does not track its tasks
\* has no entry at all, so that the end of its work leaves nothing behind.
TrackingInv ==
    /\ NoGhostTasks
    /\ \A a \in Agent \ Tracking: currentTasks[a] = {}

\* Every operation of an agent preserves it.
LEMMA TrackingStep ==
    ASSUME AgentTypeOK, TrackingInv, [AgentNext]_agentVars
    PROVE  TrackingInv'
<1> USE DEF TrackingInv, NoGhostTasks, WorkingOn
<1>0. /\ currentTasks \in [Agent -> SUBSET TaskId]
      /\ workAt \in [Call -> {"none", "delayed", "working", "settled"}]
      /\ workAgent \in [Call -> Agent \union {NoAgent}]
      /\ TaskOf \in [Call -> TaskId]
      /\ Tracking \subseteq Agent
  BY AgentAssumption DEF AgentTypeOK
<1>1. CASE UNCHANGED <<currentTasks, workVars>>
  BY <1>1 DEF workVars
<1>2. ASSUME NEW a \in Agent, ShutdownBegin(a) \/ ShutdownCancel(a)
      PROVE  TrackingInv'
  <2>1. UNCHANGED workVars
    BY <1>2 DEF ShutdownBegin, ShutdownCancel
  <2>2. \A b \in Agent: currentTasks'[b] \subseteq currentTasks[b]
    BY <1>0, <1>2 DEF ShutdownBegin, ShutdownCancel, CancelOrClose
  <2> QED
    BY <2>1, <2>2 DEF workVars
<1>3. ASSUME NEW c \in Call, NEW a \in Agent,
             workAt[c] # "working",
             workAt' = [workAt EXCEPT ![c] = "working"],
             workAgent' = [workAgent EXCEPT ![c] = a],
             OnTaskStarted(a, TaskOf[c])
      PROVE  TrackingInv'
  <2>1. \A b \in Agent: \A d \in WorkingOn(b): d \in WorkingOn(b)'
    BY <1>0, <1>3
  <2>2. c \in WorkingOn(a)'
    BY <1>0, <1>3
  <2>3. \A b \in Agent: \A t \in currentTasks'[b]:
            t \in currentTasks[b] \/ (b = a /\ b \in Tracking /\ t = TaskOf[c])
    BY <1>0, <1>3 DEF OnTaskStarted
  <2>4. NoGhostTasks'
    <3> SUFFICES ASSUME NEW b \in Agent, NEW t \in currentTasks'[b]
                 PROVE  \E d \in WorkingOn(b)': TaskOf[d] = t
      OBVIOUS
    <3>1. CASE t \in currentTasks[b]
      BY <2>1, <3>1
    <3>2. CASE b = a /\ t = TaskOf[c]
      BY <2>2, <3>2
    <3> QED
      BY <2>3, <3>1, <3>2
  <2> QED
    BY <2>3, <2>4
<1>4. ASSUME NEW c \in Call, NEW a \in Agent, AgentExecute(a, c)
      PROVE  TrackingInv'
  <2>1. CASE a \in Delayed
    <3>1. \A b \in Agent: \A d \in WorkingOn(b): d \in WorkingOn(b)'
      BY <1>0, <1>4, <2>1 DEF AgentExecute
    <3> QED
      BY <1>4, <2>1, <3>1 DEF AgentExecute
  <2>2. CASE a \notin Delayed
    BY <1>3, <1>4, <2>2 DEF AgentExecute
  <2> QED
    BY <2>1, <2>2
<1>5. ASSUME NEW c \in Call, workAgent[c] \in Agent, AgentWake(c)
      PROVE  TrackingInv'
  <2>1. workAgent' = [workAgent EXCEPT ![c] = workAgent[c]]
    BY <1>0, <1>5 DEF AgentWake
  <2> QED
    BY <1>3, <1>5, <2>1 DEF AgentWake
<1>6. ASSUME NEW c \in Call, AgentFinish(c)
      PROVE  TrackingInv'
  <2> DEFINE a == workAgent[c]
  <2>1. /\ workAt[c] = "working"
        /\ workAt' = [workAt EXCEPT ![c] = "settled"]
        /\ UNCHANGED workAgent
    BY <1>6 DEF AgentFinish
  <2>2. \/ /\ a \in Tracking
           /\ currentTasks' = [currentTasks EXCEPT ![a] = currentTasks[a] \ {TaskOf[c]}]
        \/ /\ a \notin Tracking
           /\ UNCHANGED currentTasks
    BY <1>6, AgentAssumption DEF AgentFinish, OnTaskSettled
  <2>3. \A b \in Agent: \A d \in WorkingOn(b): d # c => d \in WorkingOn(b)'
    BY <1>0, <2>1
  <2>4. \A b \in Agent: \A t \in currentTasks'[b]:
            t \in currentTasks[b] /\ (b = a => t # TaskOf[c])
    BY <1>0, <2>2
  <2>5. NoGhostTasks'
    <3> SUFFICES ASSUME NEW b \in Agent, NEW t \in currentTasks'[b]
                 PROVE  \E d \in WorkingOn(b)': TaskOf[d] = t
      OBVIOUS
    <3>1. PICK d \in WorkingOn(b): TaskOf[d] = t
      BY <2>4
    <3>2. d # c
      BY <2>4, <3>1
    <3> QED
      BY <2>3, <3>1, <3>2
  <2> QED
    BY <2>4, <2>5
<1>7. ASSUME NEW c \in Call, AgentWake(c), workAgent[c] \notin Agent
      PROVE  TrackingInv'
  <2>1. UNCHANGED currentTasks
    BY <1>0, <1>7 DEF AgentWake, OnTaskStarted
  <2>2. \A b \in Agent: \A d \in WorkingOn(b): d \in WorkingOn(b)'
    BY <1>0, <1>7 DEF AgentWake
  <2> QED
    BY <2>1, <2>2
<1>8. ASSUME NEW a \in Agent, InitializeBegin(a) \/ InitializeEnd(a) \/ ShutdownEnd(a)
      PROVE  TrackingInv'
  BY <1>1, <1>8 DEF InitializeBegin, InitializeEnd, ShutdownEnd
<1> QED
  BY <1>1, <1>2, <1>4, <1>5, <1>6, <1>7, <1>8 DEF AgentNext, agentVars

\* No entry of an agent's task table outlives the work it stands for, whatever
\* the interleaving of starts, answers, shutdowns and equal task ids.
THEOREM AgentsHoldNoGhosts == AgentSpec => []NoGhostTasks
<1>1. AgentInit => TrackingInv
  BY DEF AgentInit, AgentsAtStart, TrackingInv, NoGhostTasks
<1>2. AgentTypeOK /\ TrackingInv /\ [AgentNext]_agentVars => TrackingInv'
  BY TrackingStep
<1>3. TrackingInv => NoGhostTasks
  BY DEF TrackingInv
<1> QED
  BY <1>1, <1>2, <1>3, AgentTypeCorrect, PTL DEF AgentSpec

---------------------------------------------------------------------------
(* The runtime: type correctness.                                          *)

\* Publishing an event keeps the streams well typed.
LEMMA PublishTypeOK ==
    ASSUME stream \in [TaskId -> Seq(Event)],
           NEW t \in TaskId, NEW type \in EventType, NEW c \in Call,
           Publish(t, type, c)
    PROVE  stream' \in [TaskId -> Seq(Event)]
<1>1. [type |-> type, call |-> c] \in Event
  BY DEF Event
<1>2. Append(stream[t], [type |-> type, call |-> c]) \in Seq(Event)
  BY <1>1
<1> QED
  BY <1>2 DEF Publish

\* The marks of an iteration that is not under way are no positions.
LEMMA PositionsAreNumbers ==
    /\ Position \subseteq Nat
    /\ Idle \in Nat
    /\ Done \in Nat
    /\ 1 \in Position
    /\ \A i \in Position: AgentSeq[i] \in Agent /\ (i + 1 \in Position \/ i + 1 = Done)
BY RuntimeAssumption DEF Position, Idle, Done

\* A shutdown() step moves the agents as one of their own operations does and
\* keeps the types of the rest, whichever way its loop goes.
LEMMA AdvanceStep ==
    ASSUME TypeOK, NEW s \in Shutdown, NEW p \in Nat, Advance(s, p)
    PROVE  /\ [AgentNext]_agentVars
           /\ agents' \subseteq Agent
           /\ shutdownPos' \in [Shutdown -> Position \union {Idle, Done}]
           /\ shutdownOwns' \in [Shutdown -> BOOLEAN]
<1>1. CASE /\ agents' = {}
           /\ shutdownPos' = [shutdownPos EXCEPT ![s] = Done]
           /\ shutdownOwns' = [shutdownOwns EXCEPT ![s] = FALSE]
           /\ UNCHANGED agentVars
  BY <1>1 DEF TypeOK
<1>2. ASSUME NEW i \in Unvisited(p),
             shutdownPos' = [shutdownPos EXCEPT ![s] = i],
             shutdownOwns' = [shutdownOwns EXCEPT ![s] = CanShutdown(AgentSeq[i])],
             IF CanShutdown(AgentSeq[i])
             THEN ShutdownBegin(AgentSeq[i])
             ELSE UNCHANGED agentVars,
             UNCHANGED agents
      PROVE  /\ [AgentNext]_agentVars
             /\ agents' \subseteq Agent
             /\ shutdownPos' \in [Shutdown -> Position \union {Idle, Done}]
             /\ shutdownOwns' \in [Shutdown -> BOOLEAN]
  <2>1. i \in Position /\ AgentSeq[i] \in Agent
    BY PositionsAreNumbers DEF Unvisited
  <2>2. CanShutdown(AgentSeq[i]) \in BOOLEAN
    BY <2>1 DEF CanShutdown, TypeOK, AgentTypeOK
  <2>3. [AgentNext]_agentVars
    BY <1>2, <2>1 DEF AgentNext
  <2> QED
    BY <1>2, <2>1, <2>2, <2>3 DEF TypeOK
<1> QED
  BY <1>1, <1>2 DEF Advance

\* The runtime moves its agents only by their own operations.
LEMMA AgentsMove == TypeOK /\ [Next]_vars => [AgentNext]_agentVars
<1> SUFFICES ASSUME TypeOK, [Next]_vars
             PROVE  [AgentNext]_agentVars
  OBVIOUS
<1>1. CASE Register
  <2>1. initAt + 1 \in Position => AgentSeq[initAt + 1] \in Agent
    BY PositionsAreNumbers
  <2> QED
    BY <1>1, <2>1 DEF Register, AgentNext
<1>2. CASE AgentStep
  BY <1>2 DEF AgentStep, AgentContinues, WorkContinues, AgentNext
<1>3. ASSUME NEW c \in Call, ExecuteTask(c)
      PROVE  AgentNext
  <2>1. PICK a \in Selected(TaskOf[c]): AgentExecute(a, c)
    BY <1>3 DEF ExecuteTask
  <2>2. a \in Agent
    BY <2>1 DEF Selected, Capable, TypeOK
  <2> QED
    BY <2>1, <2>2 DEF AgentNext
<1>4. ASSUME NEW s \in Shutdown, ShutdownCall(s) \/ ShutdownResume(s)
      PROVE  [AgentNext]_agentVars
  <2>1. PICK p \in Nat: Advance(s, p)
    BY <1>4, PositionsAreNumbers DEF ShutdownCall, ShutdownResume
  <2> QED
    BY <2>1, AdvanceStep
<1>5. ASSUME NEW c \in Call, RefuseTask(c) \/ ReturnTask(c)
      PROVE  UNCHANGED agentVars
  BY <1>5 DEF RefuseTask, ReturnTask
<1>6. ASSUME NEW t \in TaskId, CancelTask(t)
      PROVE  UNCHANGED agentVars
  BY <1>6 DEF CancelTask
<1>7. CASE UNCHANGED vars
  BY <1>7 DEF vars
<1> QED
  BY <1>1, <1>2, <1>3, <1>4, <1>5, <1>6, <1>7 DEF Next

\* The runtime as constructed is well typed.
LEMMA InitTypeOK == Init => TypeOK
<1> SUFFICES ASSUME Init
             PROVE  TypeOK
  OBVIOUS
<1>1. AgentTypeOK
  BY StartTypeOK DEF Init
<1> QED
  BY <1>1, PositionsAreNumbers DEF Init, TypeOK, Position, Idle, Done

\* Every step of the runtime keeps it well typed.
LEMMA StepTypeOK == TypeOK /\ [Next]_vars => TypeOK'
<1> SUFFICES ASSUME TypeOK, [Next]_vars
             PROVE  TypeOK'
  OBVIOUS
<1>0. AgentTypeOK'
  BY AgentsMove, AgentStepTypeOK DEF TypeOK
<1>1. CASE Register
  <2>1. initAt \in Position /\ AgentSeq[initAt] \in Agent
    BY <1>1, PositionsAreNumbers DEF Register
  <2>2. initAt' \in Position \union {Done}
    BY <1>1, <2>1, PositionsAreNumbers DEF Register
  <2> QED
    BY <1>0, <1>1, <2>1, <2>2 DEF Register, TypeOK
<1>2. CASE AgentStep
  BY <1>0, <1>2 DEF AgentStep, AgentContinues, WorkContinues, TypeOK, runtimeVars
<1>3. ASSUME NEW c \in Call, RefuseTask(c)
      PROVE  TypeOK'
  <2>1. stream' \in [TaskId -> Seq(Event)]
    BY <1>3, AgentAssumption, PublishTypeOK DEF RefuseTask, TypeOK, EventType
  <2> QED
    BY <1>0, <1>3, <2>1 DEF RefuseTask, TypeOK
<1>4. ASSUME NEW c \in Call, ExecuteTask(c)
      PROVE  TypeOK'
  <2>1. stream' \in [TaskId -> Seq(Event)]
    BY <1>4, AgentAssumption, PublishTypeOK DEF ExecuteTask, TypeOK, EventType
  <2> QED
    BY <1>0, <1>4, <2>1 DEF ExecuteTask, TypeOK
<1>5. ASSUME NEW c \in Call, ReturnTask(c)
      PROVE  TypeOK'
  <2>1. stream' \in [TaskId -> Seq(Event)]
    BY <1>5, AgentAssumption, PublishTypeOK DEF ReturnTask, TypeOK, EventType
  <2> QED
    BY <1>0, <1>5, <2>1 DEF ReturnTask, TypeOK
<1>6. ASSUME NEW t \in TaskId, CancelTask(t)
      PROVE  TypeOK'
  <2>1. stream' \in [TaskId -> Seq(Event)]
    BY <1>6, PublishTypeOK DEF CancelTask, TypeOK, EventType
  <2> QED
    BY <1>0, <1>6, <2>1 DEF CancelTask, TypeOK
<1>7. ASSUME NEW s \in Shutdown, ShutdownCall(s) \/ ShutdownResume(s)
      PROVE  TypeOK'
  <2>1. PICK p \in Nat: Advance(s, p)
    BY <1>7, PositionsAreNumbers DEF ShutdownCall, ShutdownResume
  <2>2. UNCHANGED <<initAt, activeTasks, callAt, stream>>
    BY <1>7 DEF ShutdownCall, ShutdownResume
  <2> QED
    BY <1>0, <2>1, <2>2, AdvanceStep DEF TypeOK
<1>8. CASE UNCHANGED vars
  BY <1>0, <1>8 DEF vars, runtimeVars, TypeOK
<1> QED
  BY <1>1, <1>2, <1>3, <1>4, <1>5, <1>6, <1>7, <1>8 DEF Next

\* Every reachable state is well typed, whatever the agents, the invocations,
\* the task ids and the number of concurrent shutdowns.
THEOREM TypeCorrect == Spec => []TypeOK
<1> QED
  BY InitTypeOK, StepTypeOK, PTL DEF Spec

\* The runtime implements the agents: the constructor has begun to initialize
\* the first of the list, and whatever the runtime does afterwards, with any
\* number of shutdowns under way, is for its agents one of their own steps.
THEOREM RuntimeDrivesItsAgents ==
    Spec => AgentsAtStart({AgentSeq[1]}) /\ [][AgentNext]_agentVars
<1>1. Init => AgentsAtStart({AgentSeq[1]})
  BY DEF Init
<1> QED
  BY <1>1, AgentsMove, TypeCorrect, PTL DEF Spec
---------------------------------------------------------------------------
(* The active tasks and the event stream.                                  *)

\* What the steps that touch neither calls nor tasks leave alone.
LEMMA QuietStep ==
    ASSUME \/ Register \/ AgentStep \/ UNCHANGED vars
           \/ \E s \in Shutdown: ShutdownCall(s) \/ ShutdownResume(s)
    PROVE  UNCHANGED <<activeTasks, callAt, stream>>
BY DEF Register, AgentStep, AgentContinues, WorkContinues, ShutdownCall, ShutdownResume, vars, runtimeVars

\* An active task has an invocation of executeTask that is still under way and
\* was given that id: no entry of activeTasks outlives its owner.
THEOREM ActiveOwnership == Spec => []ActiveHasLiveOwner
<1>1. Init => ActiveHasLiveOwner
  BY DEF Init, ActiveHasLiveOwner
<1>2. TypeOK /\ ActiveHasLiveOwner /\ [Next]_vars => ActiveHasLiveOwner'
  <2> SUFFICES ASSUME TypeOK, ActiveHasLiveOwner, [Next]_vars
               PROVE  ActiveHasLiveOwner'
    OBVIOUS
  <2> USE DEF ActiveHasLiveOwner
  <2>1. ASSUME NEW c \in Call, RefuseTask(c)
        PROVE  ActiveHasLiveOwner'
    BY <2>1 DEF RefuseTask, TypeOK
  <2>2. ASSUME NEW c \in Call, ExecuteTask(c)
        PROVE  ActiveHasLiveOwner'
    BY <2>2 DEF ExecuteTask, TypeOK
  <2>3. ASSUME NEW c \in Call, ReturnTask(c)
        PROVE  ActiveHasLiveOwner'
    BY <2>3 DEF ReturnTask, TypeOK
  <2>4. ASSUME NEW t \in TaskId, CancelTask(t)
        PROVE  ActiveHasLiveOwner'
    BY <2>4 DEF CancelTask, TypeOK
  <2>5. CASE UNCHANGED <<activeTasks, callAt, stream>>
    BY <2>5
  <2> QED
    BY <2>1, <2>2, <2>3, <2>4, <2>5, QuietStep DEF Next
<1> QED
  BY <1>1, <1>2, TypeCorrect, PTL DEF Spec

\* How one more event changes who started last: a refusal does not, a start
\* makes its invocation the one, any other event leaves none.
LEMMA AppendedEvent ==
    ASSUME NEW s \in Seq(Event), NEW e \in Event, NEW c \in Call
    PROVE  /\ e.type = "refused" =>
                (StartedLast(Append(s, e), c) <=> StartedLast(s, c))
           /\ e.type # "refused" =>
                (StartedLast(Append(s, e), c) <=> e.type = "started" /\ e.call = c)
<1> DEFINE q == Append(s, e)
           n == Len(s) + 1
           start == [type |-> "started", call |-> c]
<1>1. /\ n \in Nat \ {0}
      /\ DOMAIN q = 1..n
      /\ DOMAIN s = 1..(n - 1)
      /\ q[n] = e
      /\ \A i \in 1..(n - 1): q[i] = s[i]
  OBVIOUS
<1>2. e = start <=> e.type = "started" /\ e.call = c
  BY DEF Event
<1> HIDE DEF q, n, start
<1>3. StartedLast(q, c) <=> \E i \in 1..n: q[i] = start /\ \A j \in 1..n: j > i => q[j].type = "refused"
  BY <1>1 DEF StartedLast, start
<1>4. StartedLast(s, c) <=> \E i \in 1..(n-1): s[i] = start /\ \A j \in 1..(n-1): j > i => s[j].type = "refused"
  BY <1>1 DEF StartedLast, start
<1>5. CASE e.type = "refused"
  <2>1. e # start
    BY <1>5 DEF start
  <2>2. ASSUME StartedLast(q, c)
        PROVE  StartedLast(s, c)
    <3>1. PICK i \in 1..n: q[i] = start /\ \A j \in 1..n: j > i => q[j].type = "refused"
      BY <1>3, <2>2
    <3>2. i \in 1..(n - 1)
      BY <1>1, <2>1, <3>1
    <3>3. s[i] = start
      BY <1>1, <3>1, <3>2
    <3>4. \A j \in 1..(n-1): j > i => s[j].type = "refused"
      BY <1>1, <3>1
    <3> QED
      BY <1>4, <3>2, <3>3, <3>4
  <2>3. ASSUME StartedLast(s, c)
        PROVE  StartedLast(q, c)
    <3>1. PICK i \in 1..(n-1): s[i] = start /\ \A j \in 1..(n-1): j > i => s[j].type = "refused"
      BY <1>4, <2>3
    <3>2. i \in 1..n /\ q[i] = start
      BY <1>1, <3>1
    <3>3. ASSUME NEW j \in 1..n, j > i
          PROVE  q[j].type = "refused"
      BY <1>1, <1>5, <3>1, <3>3
    <3> QED
      BY <1>3, <3>2, <3>3
  <2> QED
    BY <1>5, <2>2, <2>3 DEF q
<1>6. CASE e.type # "refused"
  <2>1. ASSUME NEW i \in 1..n, \A j \in 1..n: j > i => q[j].type = "refused"
        PROVE  i = n
    BY <1>1, <1>6, <2>1
  <2>2. n \in 1..n /\ \A j \in 1..n: ~(j > n)
    BY <1>1
  <2>3. StartedLast(q, c) <=> q[n] = start
    BY <1>3, <2>1, <2>2
  <2> QED
    BY <1>1, <1>2, <1>6, <2>3 DEF q
<1> QED
  BY <1>5, <1>6

\* The same for the streams, when an event of one id is published.
LEMMA PublishedEvent ==
    ASSUME stream \in [TaskId -> Seq(Event)],
           NEW t \in TaskId, NEW type \in EventType, NEW d \in Call,
           Publish(t, type, d),
           NEW u \in TaskId, NEW c \in Call
    PROVE  /\ u # t \/ type = "refused" =>
                (StartedLast(stream'[u], c) <=> StartedLast(stream[u], c))
           /\ u = t /\ type # "refused" =>
                (StartedLast(stream'[u], c) <=> type = "started" /\ d = c)
<1> DEFINE e == [type |-> type, call |-> d]
<1>1. e \in Event
  BY DEF Event
<1>2. CASE u # t
  <2>1. stream'[u] = stream[u]
    BY <1>2 DEF Publish
  <2> QED
    BY <1>2, <2>1
<1>3. CASE u = t
  <2>1. stream'[u] = Append(stream[u], e)
    BY <1>3 DEF Publish
  <2>2. stream[u] \in Seq(Event) /\ e.type = type /\ e.call = d
    OBVIOUS
  <2> HIDE DEF e
  <2> QED
    BY <1>1, <1>3, <2>1, <2>2, AppendedEvent
<1> QED
  BY <1>2, <1>3

\* A subscriber of tasks$ can reconstruct activeTasks, and on whose behalf each
\* entry is there, from the events alone.
THEOREM StreamFaithful == Spec => []StreamTellsActive
<1>1. Init => StreamTellsActive
  <2> SUFFICES ASSUME Init, NEW t \in TaskId, NEW c \in Call
               PROVE  activeTasks[t] # c /\ ~StartedLast(stream[t], c)
    BY DEF StreamTellsActive
  <2> QED
    BY NoCallAssumption DEF Init, StartedLast
<1>2. TypeOK /\ StreamTellsActive /\ [Next]_vars => StreamTellsActive'
  <2> SUFFICES ASSUME TypeOK, StreamTellsActive, [Next]_vars,
                      NEW u \in TaskId, NEW d \in Call
               PROVE  activeTasks'[u] = d <=> StartedLast(stream'[u], d)
    BY DEF StreamTellsActive
  <2>0. /\ activeTasks[u] = d <=> StartedLast(stream[u], d)
        /\ activeTasks \in [TaskId -> Call \union {NoCall}]
        /\ stream \in [TaskId -> Seq(Event)]
    BY DEF StreamTellsActive, TypeOK
  <2>1. ASSUME NEW c \in Call, RefuseTask(c)
        PROVE  activeTasks'[u] = d <=> StartedLast(stream'[u], d)
    <3>1. TaskOf[c] \in TaskId /\ "refused" \in EventType /\ Publish(TaskOf[c], "refused", c)
      BY <2>1, AgentAssumption DEF RefuseTask, EventType
    <3>2. StartedLast(stream'[u], d) <=> StartedLast(stream[u], d)
      BY <2>0, <3>1, PublishedEvent
    <3> QED
      BY <2>0, <2>1, <3>2 DEF RefuseTask
  <2>2. ASSUME NEW c \in Call, ExecuteTask(c)
        PROVE  activeTasks'[u] = d <=> StartedLast(stream'[u], d)
    <3>1. TaskOf[c] \in TaskId /\ "started" \in EventType /\ Publish(TaskOf[c], "started", c)
      BY <2>2, AgentAssumption DEF ExecuteTask, EventType
    <3>2. activeTasks' = [activeTasks EXCEPT ![TaskOf[c]] = c]
      BY <2>2 DEF ExecuteTask
    <3>3. CASE u = TaskOf[c]
      BY <2>0, <3>1, <3>2, <3>3, PublishedEvent
    <3>4. CASE u # TaskOf[c]
      BY <2>0, <3>1, <3>2, <3>4, PublishedEvent
    <3> QED
      BY <3>3, <3>4
  <2>3. ASSUME NEW t \in TaskId, NEW type \in EventType \ {"started", "refused"}, NEW c \in Call,
               activeTasks' = [activeTasks EXCEPT ![t] = NoCall],
               Publish(t, type, c)
        PROVE  activeTasks'[u] = d <=> StartedLast(stream'[u], d)
    <3>1. CASE u = t
      BY <2>0, <2>3, <3>1, PublishedEvent, NoCallAssumption
    <3>2. CASE u # t
      BY <2>0, <2>3, <3>2, PublishedEvent
    <3> QED
      BY <3>1, <3>2
  <2>4. ASSUME NEW c \in Call, ReturnTask(c)
        PROVE  activeTasks'[u] = d <=> StartedLast(stream'[u], d)
    BY <2>3, <2>4, AgentAssumption DEF ReturnTask, EventType
  <2>5. ASSUME NEW t \in TaskId, CancelTask(t)
        PROVE  activeTasks'[u] = d <=> StartedLast(stream'[u], d)
    <3>1. activeTasks[t] \in Call
      BY <2>0, <2>5 DEF CancelTask
    <3> QED
      BY <2>3, <2>5, <3>1 DEF CancelTask, EventType
  <2>6. CASE UNCHANGED <<activeTasks, callAt, stream>>
    BY <2>0, <2>6
  <2> QED
    BY <2>1, <2>2, <2>4, <2>5, <2>6, QuietStep DEF Next
<1> QED
  BY <1>1, <1>2, TypeCorrect, PTL DEF Spec

---------------------------------------------------------------------------
(* The agents' tables and the choice of the agent.                         *)

\* Under the runtime, too, an agent's task table holds only work under way.
THEOREM RuntimeHoldsNoGhosts == Spec => []NoGhostTasks
<1>1. Init => TrackingInv
  BY DEF Init, AgentsAtStart, TrackingInv, NoGhostTasks
<1>2. TypeOK /\ TrackingInv /\ [Next]_vars => TrackingInv'
  BY AgentsMove, TrackingStep DEF TypeOK
<1>3. TrackingInv => NoGhostTasks
  BY DEF TrackingInv
<1> QED
  BY <1>1, <1>2, <1>3, TypeCorrect, PTL DEF Spec

\* The inductive form of BestAgentRunsTask: until a shutdown() is called, the
\* map holds exactly the agents the registration loop has passed, which are
\* the best ones.
NoShutdown == \A s \in Shutdown: shutdownPos[s] = Idle

RegistrationInv ==
    NoShutdown =>
        /\ agents = {AgentSeq[i]: i \in {j \in Position: j < initAt}}
        /\ BestAgentRunsTask

\* While the map holds the first agents of AgentSeq only, the best of those
\* that accept a task is the best of all that do.
LEMMA FirstAgentsAreBest ==
    ASSUME TypeOK, NEW t \in TaskId, NEW a \in Selected(t), NEW b \in Can[t],
           agents = {AgentSeq[i]: i \in {j \in Position: j < initAt}}
    PROVE  Priority[b] <= Priority[a]
<1>1. a \in agents /\ a \in Agent /\ b \in Agent
  BY RuntimeAssumption DEF Selected, Capable, TypeOK
<1>2. PICK i \in Position: i < initAt /\ a = AgentSeq[i]
  BY <1>1
<1>3. PICK k \in Position: b = AgentSeq[k]
  BY <1>1, RuntimeAssumption DEF Position
<1>4. CASE k < initAt
  BY <1>1, <1>3, <1>4 DEF Selected, Capable
<1>5. CASE ~(k < initAt)
  <2>1. i <= k
    BY <1>2, <1>3, <1>5, PositionsAreNumbers DEF TypeOK
  <2> QED
    BY <1>2, <1>3, <2>1, RuntimeAssumption DEF Position
<1> QED
  BY <1>4, <1>5

\* Until somebody shuts the runtime down, every task runs on the agent with the
\* highest priority of all that accept it, registered yet or not.
THEOREM BestAgent == Spec => []BestAgentRunsTask
<1>1. Init => RegistrationInv
  BY DEF Init, AgentsAtStart, RegistrationInv, BestAgentRunsTask, Position
<1>2. TypeOK /\ RegistrationInv /\ [Next]_vars => RegistrationInv'
  <2> SUFFICES ASSUME TypeOK, RegistrationInv, [Next]_vars, NoShutdown'
               PROVE  /\ agents' = {AgentSeq[i]: i \in {j \in Position: j < initAt'}}
                      /\ BestAgentRunsTask'
    BY DEF RegistrationInv
  <2>1. ASSUME NEW s \in Shutdown, ShutdownCall(s) \/ ShutdownResume(s)
        PROVE  FALSE
    <3>1. shutdownPos'[s] \in Position \union {Done}
      BY <2>1 DEF ShutdownCall, ShutdownResume, Advance, Unvisited, TypeOK
    <3> QED
      BY <2>1, <3>1, RuntimeAssumption DEF NoShutdown, Position, Idle, Done
  <2>2. NoShutdown
    BY <2>1 DEF NoShutdown, Next, Register, AgentStep, AgentContinues, WorkContinues, RefuseTask, ExecuteTask,
                ReturnTask, CancelTask, vars, runtimeVars
  <2>3. /\ agents = {AgentSeq[i]: i \in {j \in Position: j < initAt}}
        /\ \A c \in Call: workAgent[c] # NoAgent =>
              \A b \in Can[TaskOf[c]]: Priority[b] <= Priority[workAgent[c]]
    BY <2>2 DEF RegistrationInv, BestAgentRunsTask, NoShutdown
  <2>4. CASE Register
    <3>1. initAt \in Position /\ initAt' = initAt + 1 /\ agents' = agents \union {AgentSeq[initAt]}
      BY <2>4 DEF Register
    <3>2. {j \in Position: j < initAt'} = {j \in Position: j < initAt} \union {initAt}
      <4>1. \A j \in Position: j < initAt + 1 <=> j < initAt \/ j = initAt
        BY <3>1, PositionsAreNumbers
      <4> QED
        BY <3>1, <4>1
    <3>3. agents' = {AgentSeq[i]: i \in {j \in Position: j < initAt'}}
      BY <2>3, <3>1, <3>2
    <3>4. UNCHANGED workAgent
      BY <2>4 DEF Register, InitializeBegin, agentVars, workVars
    <3> QED
      BY <2>3, <3>3, <3>4 DEF BestAgentRunsTask
  <2>5. ASSUME NEW c \in Call, ExecuteTask(c)
        PROVE  UNCHANGED <<agents, initAt>> /\ BestAgentRunsTask'
    <3>1. PICK a \in Selected(TaskOf[c]): AgentExecute(a, c)
      BY <2>5 DEF ExecuteTask
    <3>2. /\ workAgent' = [workAgent EXCEPT ![c] = a]
          /\ workAgent \in [Call -> Agent \union {NoAgent}]
      BY <3>1 DEF AgentExecute, TypeOK, AgentTypeOK
    <3>3. \A b \in Can[TaskOf[c]]: Priority[b] <= Priority[a]
      BY <2>3, <3>1, FirstAgentsAreBest, AgentAssumption
    <3> QED
      <4>1. UNCHANGED <<agents, initAt>>
        BY <2>5 DEF ExecuteTask
      <4>2. ASSUME NEW d \in Call, workAgent'[d] # NoAgent, NEW b \in Can[TaskOf[d]]
            PROVE  Priority[b] <= Priority[workAgent'[d]]
        <5>1. CASE d = c
          BY <3>2, <3>3, <4>2, <5>1
        <5>2. CASE d # c
          BY <2>3, <3>2, <4>2, <5>2
        <5> QED
          BY <5>1, <5>2
      <4> QED
        BY <4>1, <4>2 DEF BestAgentRunsTask
  <2>6. CASE UNCHANGED <<agents, initAt, workAgent>>
    BY <2>3, <2>6 DEF BestAgentRunsTask
  <2>7. CASE AgentStep
    BY <2>6, <2>7 DEF AgentStep, AgentContinues, WorkContinues, runtimeVars, InitializeEnd, ShutdownCancel, ShutdownEnd,
                      AgentWake, AgentFinish, workVars
  <2>8. ASSUME NEW c \in Call, RefuseTask(c) \/ ReturnTask(c)
        PROVE  UNCHANGED <<agents, initAt, workAgent>>
    BY <2>8 DEF RefuseTask, ReturnTask, agentVars, workVars
  <2>9. ASSUME NEW t \in TaskId, CancelTask(t)
        PROVE  UNCHANGED <<agents, initAt, workAgent>>
    BY <2>9 DEF CancelTask, agentVars, workVars
  <2>10. CASE UNCHANGED vars
    BY <2>6, <2>10 DEF vars, runtimeVars, agentVars, workVars
  <2> QED
    BY <2>1, <2>3, <2>4, <2>5, <2>6, <2>7, <2>8, <2>9, <2>10 DEF Next
<1>3. RegistrationInv => BestAgentRunsTask
  BY DEF RegistrationInv, NoShutdown, BestAgentRunsTask
<1> QED
  BY <1>1, <1>2, <1>3, TypeCorrect, PTL DEF Spec

\* The entries of both tables: well typed, and each of work still under way.
THEOREM RuntimeEntriesAreAlive == Spec => []EntriesAreAlive
<1>1. TypeOK /\ NoGhostTasks /\ ActiveHasLiveOwner => EntriesAreAlive
  BY DEF EntriesAreAlive
<1> QED
  BY <1>1, TypeCorrect, RuntimeHoldsNoGhosts, ActiveOwnership, PTL

---------------------------------------------------------------------------
(* The status of the agents.                                               *)

\* The inductive form of StatusTellsTheWork: what is not settled has no outcome
\* yet, and an agent that tracks nothing reports nothing.
StatusInv ==
    /\ TrackingInv
    /\ StatusTellsTheWork
    /\ \A c \in Call: workAt[c] # "settled" => outcome[c] = "none"
    /\ \A a \in Agent \ Tracking: status[a].currentTasks = 0

\* The answers of an agent can be counted.
LEMMA AnswersAreFinite ==
    ASSUME NEW a, NEW o
    PROVE  IsFiniteSet(Answered(a, o)) /\ Cardinality(Answered(a, o)) \in Nat
<1>1. Answered(a, o) \subseteq Call
  BY DEF Answered
<1> QED
  BY <1>1, AgentAssumption, FS_Subset, FS_CardinalityType

\* Steps that neither settle a call nor touch a counter.
LEMMA StatusIsKept ==
    ASSUME AgentTypeOK, StatusInv, TrackingInv', UNCHANGED <<status, outcome>>,
           \A c \in Call: outcome[c] # "none" => workAgent'[c] = workAgent[c],
           \A c \in Call: workAt'[c] # "settled" => workAt[c] # "settled",
           \A a \in Agent: WorkingOn(a) \subseteq WorkingOn(a)'
    PROVE  StatusInv'
<1>1. ASSUME NEW a \in Agent, NEW o \in {"success", "failure"}
      PROVE  Answered(a, o)' = Answered(a, o)
  <2>1. \A c \in Call: outcome[c] = o => workAgent'[c] = workAgent[c]
    OBVIOUS
  <2>2. ASSUME NEW c \in Call
        PROVE  c \in Answered(a, o)' <=> c \in Answered(a, o)
    BY <2>1 DEF Answered
  <2> QED
    BY <2>2 DEF Answered
<1>2. AnswersCountedOnce'
  BY <1>1 DEF AnswersCountedOnce, StatusInv, StatusTellsTheWork
<1>3. IdleAgentReportsZero'
  <2> SUFFICES ASSUME NEW a \in Agent, WorkingOn(a)' = {}
               PROVE  currentTasks'[a] = {} /\ status'[a].currentTasks = 0
    BY DEF IdleAgentReportsZero
  <2>1. WorkingOn(a) = {}
    OBVIOUS
  <2>2. status[a].currentTasks = 0
    BY <2>1 DEF StatusInv, StatusTellsTheWork, IdleAgentReportsZero
  <2>3. currentTasks'[a] = {}
    BY DEF TrackingInv, NoGhostTasks
  <2> QED
    BY <2>2, <2>3
<1> QED
  BY <1>2, <1>3 DEF StatusInv, StatusTellsTheWork

\* The end of a call is counted once, and the last one leaves an empty table.
LEMMA FinishIsCounted ==
    ASSUME AgentTypeOK, StatusInv, TrackingInv', NEW c \in Call, AgentFinish(c),
           NEW a, a = workAgent[c]
    PROVE  StatusInv'
<1>0. /\ status \in [Agent -> Counters]
      /\ currentTasks \in [Agent -> SUBSET TaskId]
      /\ workAt \in [Call -> {"none", "delayed", "working", "settled"}]
      /\ outcome \in [Call -> Outcome \union {"none"}]
      /\ Tracking \subseteq Agent /\ Throwing \subseteq Agent \ Tracking
  BY AgentAssumption DEF AgentTypeOK
<1>1. PICK o \in Outcome:
          /\ o = "threw" => a \in Throwing
          /\ outcome' = [outcome EXCEPT ![c] = o]
          /\ IF a \in Tracking /\ o # "threw"
             THEN OnTaskSettled(a, TaskOf[c], o = "success")
             ELSE UNCHANGED <<currentTasks, status>>
  BY DEF AgentFinish
<1>2. /\ workAt[c] = "working" /\ outcome[c] = "none"
      /\ workAt' = [workAt EXCEPT ![c] = "settled"]
      /\ UNCHANGED workAgent
  BY DEF AgentFinish, StatusInv
<1>3. a \in Tracking => OnTaskSettled(a, TaskOf[c], o = "success") /\ o \in {"success", "failure"}
  BY <1>0, <1>1 DEF Outcome
<1>4. a \notin Tracking => UNCHANGED <<currentTasks, status>>
  BY <1>1
<1>5. \A d \in Call: workAt'[d] # "settled" => outcome'[d] = "none"
  BY <1>0, <1>1, <1>2 DEF StatusInv
<1>6. ASSUME NEW b \in Agent, b # a
      PROVE  /\ status'[b] = status[b] /\ WorkingOn(b)' = WorkingOn(b)
             /\ \A r: Answered(b, r)' = Answered(b, r)
  <2>1. status'[b] = status[b]
    BY <1>0, <1>3, <1>4, <1>6 DEF OnTaskSettled, UpdateTaskMetrics
  <2>2. \A d \in Call: d # c => workAt'[d] = workAt[d] /\ outcome'[d] = outcome[d]
    BY <1>0, <1>1, <1>2
  <2>3. WorkingOn(b)' = WorkingOn(b)
    BY <1>2, <1>6, <2>2 DEF WorkingOn
  <2>4. \A r: Answered(b, r)' = Answered(b, r)
    BY <1>2, <1>6, <2>2 DEF Answered
  <2> QED
    BY <2>1, <2>3, <2>4
<1>7. ASSUME a \in Agent, NEW r \in {"success", "failure"}
      PROVE  Cardinality(Answered(a, r)') = Cardinality(Answered(a, r)) + (IF r = o THEN 1 ELSE 0)
  <2>1. c \notin Answered(a, r)
    BY <1>2 DEF Answered
  <2>2. Answered(a, r)' = IF r = o THEN Answered(a, r) \union {c} ELSE Answered(a, r)
    <3>1. \A d \in Call: outcome'[d] = IF d = c THEN o ELSE outcome[d]
      BY <1>0, <1>1
    <3>2. ASSUME NEW d \in Call
          PROVE  d \in Answered(a, r)' <=> d \in Answered(a, r) \/ (r = o /\ d = c)
      BY <1>2, <3>1 DEF Answered
    <3>3. Answered(a, r)' \subseteq Call /\ Answered(a, r) \subseteq Call
      BY DEF Answered
    <3> QED
      BY <3>2, <3>3
  <2>3. IsFiniteSet(Answered(a, r)) /\ Cardinality(Answered(a, r)) \in Nat
    BY AnswersAreFinite
  <2>4. Cardinality(Answered(a, r) \union {c}) = Cardinality(Answered(a, r)) + 1
    BY <2>1, <2>3, FS_AddElement
  <2> QED
    BY <2>2, <2>3, <2>4
<1>8. ASSUME a \in Tracking
      PROVE  /\ status'[a].totalTasksCompleted = status[a].totalTasksCompleted + (IF o = "success" THEN 1 ELSE 0)
             /\ status'[a].totalTasksFailed = status[a].totalTasksFailed + (IF o = "failure" THEN 1 ELSE 0)
             /\ status'[a].currentTasks = Cardinality(currentTasks'[a])
  <2> DEFINE rest == currentTasks[a] \ {TaskOf[c]}
  <2>1. a \in Agent
    BY <1>0, <1>8
  <2>2. currentTasks'[a] = rest /\ UpdateTaskMetrics(a, rest, o = "success")
    BY <1>0, <1>3, <1>8, <2>1 DEF OnTaskSettled
  <2>3. Cardinality(rest) = Cardinality(currentTasks'[a])
    BY <2>2
  <2> HIDE DEF rest
  <2>4. o \in {"success", "failure"}
    BY <1>3, <1>8
  <2>5. status[a] \in Counters
    BY <1>0, <2>1
  <2>6. /\ status'[a].currentTasks = Cardinality(rest)
        /\ status'[a].totalTasksCompleted = status[a].totalTasksCompleted + (IF o = "success" THEN 1 ELSE 0)
        /\ status'[a].totalTasksFailed = status[a].totalTasksFailed + (IF o = "success" THEN 0 ELSE 1)
    BY <1>0, <2>1, <2>2, <2>5 DEF UpdateTaskMetrics, Counters
  <2> QED
    BY <2>3, <2>4, <2>6
<1>9. AnswersCountedOnce'
  <2> SUFFICES ASSUME NEW b \in Agent
               PROVE  /\ b \in Tracking =>
                            /\ status'[b].totalTasksCompleted = Cardinality(Answered(b, "success")')
                            /\ status'[b].totalTasksFailed = Cardinality(Answered(b, "failure")')
                      /\ b \notin Tracking =>
                            /\ status'[b].totalTasksCompleted = 0
                            /\ status'[b].totalTasksFailed = 0
    BY DEF AnswersCountedOnce
  <2>1. /\ b \in Tracking =>
               /\ status[b].totalTasksCompleted = Cardinality(Answered(b, "success"))
               /\ status[b].totalTasksFailed = Cardinality(Answered(b, "failure"))
        /\ b \notin Tracking =>
               /\ status[b].totalTasksCompleted = 0
               /\ status[b].totalTasksFailed = 0
    BY DEF AnswersCountedOnce, StatusInv, StatusTellsTheWork
  <2>2. CASE b # a
    BY <1>6, <2>1, <2>2
  <2>3. CASE b = a /\ b \notin Tracking
    BY <1>4, <2>1, <2>3
  <2>4. CASE b = a /\ b \in Tracking
    <3>1. /\ Cardinality(Answered(a, "success")') = Cardinality(Answered(a, "success")) + (IF "success" = o THEN 1 ELSE 0)
          /\ Cardinality(Answered(a, "failure")') = Cardinality(Answered(a, "failure")) + (IF "failure" = o THEN 1 ELSE 0)
      BY <1>7, <2>4
    <3> QED
      BY <1>8, <2>1, <2>4, <3>1
  <2> QED
    BY <2>2, <2>3, <2>4
<1>10. IdleAgentReportsZero'
  <2> SUFFICES ASSUME NEW b \in Agent, WorkingOn(b)' = {}
               PROVE  currentTasks'[b] = {} /\ status'[b].currentTasks = 0
    BY DEF IdleAgentReportsZero
  <2>1. currentTasks'[b] = {}
    BY DEF TrackingInv, NoGhostTasks
  <2>2. CASE b # a
    BY <1>6, <2>1, <2>2 DEF StatusInv, StatusTellsTheWork, IdleAgentReportsZero
  <2>3. CASE b = a /\ b \notin Tracking
    BY <1>4, <2>1, <2>3 DEF StatusInv
  <2>4. CASE b = a /\ b \in Tracking
    BY <1>8, <2>1, <2>4, FS_EmptySet
  <2> QED
    BY <2>2, <2>3, <2>4
<1>11. \A b \in Agent \ Tracking: status'[b].currentTasks = 0
  BY <1>4, <1>6 DEF StatusInv
<1> QED
  BY <1>5, <1>9, <1>10, <1>11 DEF StatusInv, StatusTellsTheWork

\* Every operation of an agent preserves it.
LEMMA StatusStep ==
    ASSUME AgentTypeOK, StatusInv, [AgentNext]_agentVars
    PROVE  StatusInv'
<1>0. /\ workAt \in [Call -> {"none", "delayed", "working", "settled"}]
      /\ workAgent \in [Call -> Agent \union {NoAgent}]
      /\ \A c \in Call: workAt[c] # "settled" => outcome[c] = "none"
  BY DEF AgentTypeOK, StatusInv
<1>1. TrackingInv'
  BY TrackingStep DEF StatusInv
<1>2. CASE UNCHANGED <<status, workVars>>
  BY <1>1, <1>2, StatusIsKept DEF workVars, WorkingOn
<1>3. ASSUME NEW c \in Call, NEW a \in Agent, AgentExecute(a, c)
      PROVE  StatusInv'
  <2>1. /\ UNCHANGED <<status, outcome>>
        /\ workAt[c] = "none" /\ workAgent' = [workAgent EXCEPT ![c] = a]
        /\ \E w \in {"delayed", "working"}: workAt' = [workAt EXCEPT ![c] = w]
    BY <1>3 DEF AgentExecute
  <2>2. \A b \in Agent: WorkingOn(b) \subseteq WorkingOn(b)'
    BY <1>0, <2>1 DEF WorkingOn
  <2>3. /\ \A d \in Call: outcome[d] # "none" => workAgent'[d] = workAgent[d]
        /\ \A d \in Call: workAt'[d] # "settled" => workAt[d] # "settled"
    BY <1>0, <2>1
  <2> QED
    BY <1>1, <2>1, <2>2, <2>3, StatusIsKept
<1>4. ASSUME NEW c \in Call, AgentWake(c)
      PROVE  StatusInv'
  <2>1. /\ UNCHANGED <<status, outcome, workAgent>>
        /\ workAt[c] = "delayed" /\ workAt' = [workAt EXCEPT ![c] = "working"]
    BY <1>4 DEF AgentWake
  <2>2. \A b \in Agent: WorkingOn(b) \subseteq WorkingOn(b)'
    BY <1>0, <2>1 DEF WorkingOn
  <2>3. \A d \in Call: workAt'[d] # "settled" => workAt[d] # "settled"
    BY <1>0, <2>1
  <2> QED
    BY <1>1, <2>1, <2>2, <2>3, StatusIsKept
<1>5. ASSUME NEW c \in Call, AgentFinish(c)
      PROVE  StatusInv'
  BY <1>1, <1>5, FinishIsCounted
<1>6. ASSUME NEW a \in Agent,
             InitializeBegin(a) \/ InitializeEnd(a) \/ ShutdownBegin(a) \/ ShutdownCancel(a) \/ ShutdownEnd(a)
      PROVE  UNCHANGED <<status, workVars>>
  BY <1>6 DEF InitializeBegin, InitializeEnd, ShutdownBegin, ShutdownCancel, ShutdownEnd
<1> QED
  BY <1>2, <1>3, <1>4, <1>5, <1>6 DEF AgentNext, agentVars

\* The agents' status at the start.
LEMMA StartStatus ==
    ASSUME NEW S, AgentsAtStart(S)
    PROVE  StatusInv
<1>1. \A a \in Agent: \A o \in {"success", "failure"}: Answered(a, o) = {}
  BY DEF AgentsAtStart, Answered
<1>2. \A a \in Agent: \A o \in {"success", "failure"}: Cardinality(Answered(a, o)) = 0
  BY <1>1, FS_EmptySet
<1>3. AnswersCountedOnce
  BY <1>2 DEF AgentsAtStart, AnswersCountedOnce
<1>4. IdleAgentReportsZero /\ TrackingInv
  BY DEF AgentsAtStart, IdleAgentReportsZero, TrackingInv, NoGhostTasks
<1> QED
  BY <1>3, <1>4 DEF AgentsAtStart, StatusInv, StatusTellsTheWork

\* getStatus() of an agent, under the runtime: it counts every answered task
\* once, whatever was cancelled meanwhile, and an idle agent reports no task.
THEOREM RuntimeStatus == Spec => []StatusTellsTheWork
<1>1. Init => StatusInv
  BY StartStatus DEF Init
<1>2. TypeOK /\ StatusInv /\ [Next]_vars => StatusInv'
  BY AgentsMove, StatusStep DEF TypeOK
<1>3. StatusInv => StatusTellsTheWork
  BY DEF StatusInv
<1> QED
  BY <1>1, <1>2, <1>3, TypeCorrect, PTL DEF Spec

---------------------------------------------------------------------------
(* Shutdowns and the map of the agents.                                    *)

\* An executing shutdown() waits for the agent at position k, which it is
\* shutting down itself.
WaitsFor(k) == \E s \in Shutdown: shutdownPos[s] = k /\ shutdownOwns[s]

\* The registration loop: it has started the agents up to initAt, and put those
\* before initAt into the map.
PassedInOrder ==
    /\ \A a \in agents: \E k \in Position: k < initAt /\ a = AgentSeq[k]
    /\ \A s \in Shutdown: shutdownPos[s] \in Position => shutdownPos[s] < initAt
    /\ \A k \in Position:
          /\ initializing[AgentSeq[k]] => k = initAt
          /\ isInitialized[AgentSeq[k]] => k <= initAt
          /\ initAt <= k => shutdownAt[AgentSeq[k]] = "open"

\* The agents that shut down: somebody waits for each until it is closed, and
\* whoever iterates over the map has left none open behind him.
ClosedInOrder ==
    /\ \A k \in Position:
          /\ shutdownAt[AgentSeq[k]] = "closed" => ~isInitialized[AgentSeq[k]]
          /\ shutdownAt[AgentSeq[k]] \in {"cancelling", "closing"} => WaitsFor(k)
          /\ AgentSeq[k] \in agents => isInitialized[AgentSeq[k]] \/ shutdownAt[AgentSeq[k]] # "open"
    /\ \A s \in Shutdown: \A k \in Position:
          shutdownPos[s] \in Position /\ k <= shutdownPos[s] /\ AgentSeq[k] \in agents
              => shutdownAt[AgentSeq[k]] # "open"

\* An agent that runs and has been dropped from the map is waited for.
DroppedIsWaitedFor ==
    \A k \in Position:
        k < initAt /\ isInitialized[AgentSeq[k]] /\ AgentSeq[k] \notin agents => WaitsFor(k)

MapInv == PassedInOrder /\ ClosedInOrder /\ DroppedIsWaitedFor

\* What it is made of.
mapVars == <<lifeVars, initAt, agents, shutdownPos, shutdownOwns>>

\* The positions name the agents.
LEMMA PositionsNameAgents ==
    /\ \A i, j \in Position: AgentSeq[i] = AgentSeq[j] => i = j
    /\ \A a \in Agent: \E i \in Position: AgentSeq[i] = a
    /\ Done \notin Position /\ Idle \notin Position
BY RuntimeAssumption DEF Position, Done, Idle

LEMMA InitMap == Init => MapInv
<1> SUFFICES ASSUME Init PROVE MapInv
  OBVIOUS
<1>1. initAt = 1 /\ agents = {} /\ (\A s \in Shutdown: shutdownPos[s] \notin Position)
  BY PositionsNameAgents DEF Init
<1>2. \A a \in Agent: /\ initializing[a] <=> a = AgentSeq[1]
                      /\ ~isInitialized[a] /\ shutdownAt[a] = "open"
  BY DEF Init, AgentsAtStart
<1>3. PassedInOrder
  BY <1>1, <1>2, PositionsAreNumbers, PositionsNameAgents DEF PassedInOrder
<1>4. ClosedInOrder /\ DroppedIsWaitedFor
  BY <1>1, <1>2, PositionsAreNumbers DEF ClosedInOrder, DroppedIsWaitedFor
<1> QED
  BY <1>3, <1>4 DEF MapInv

\* The loop of the registration goes on.
LEMMA RegisterKeepsMap ==
    ASSUME TypeOK, MapInv, Register
    PROVE  MapInv'
<1>1. /\ initAt \in Position /\ initAt \in Nat
      /\ initAt' = initAt + 1
      /\ agents' = agents \union {AgentSeq[initAt]}
      /\ isInitialized[AgentSeq[initAt]] /\ ~initializing[AgentSeq[initAt]]
      /\ UNCHANGED <<isInitialized, shutdownAt, shutdownPos, shutdownOwns>>
  BY PositionsAreNumbers DEF Register, InitializeBegin, agentVars, lifeVars
<1>2. \A k \in Position: initializing'[AgentSeq[k]] => k = initAt + 1
  <2>1. CASE initAt + 1 \in Position
    <3>1. initializing' = [initializing EXCEPT ![AgentSeq[initAt + 1]] = TRUE]
      BY <2>1 DEF Register, InitializeBegin
    <3>2. \A k \in Position: AgentSeq[k] \in Agent /\ (initializing[AgentSeq[k]] => k = initAt)
      BY PositionsAreNumbers DEF MapInv, PassedInOrder
    <3>3. \A k \in Position: k # initAt + 1 => initializing'[AgentSeq[k]] = initializing[AgentSeq[k]]
      BY <2>1, <3>1, <3>2, PositionsNameAgents DEF TypeOK, AgentTypeOK
    <3> QED
      BY <1>1, <3>2, <3>3
  <2>2. CASE initAt + 1 \notin Position
    <3>1. UNCHANGED initializing
      BY <2>2 DEF Register, agentVars, lifeVars
    <3> QED
      BY <1>1, <3>1 DEF MapInv, PassedInOrder
  <2> QED
    BY <2>1, <2>2
<1>3. \A k \in Position: AgentSeq[k] \in Agent /\ k \in Nat
  BY PositionsAreNumbers
<1>4. PassedInOrder'
  <2>1. \A a \in agents': \E k \in Position: k < initAt' /\ a = AgentSeq[k]
    BY <1>1, <1>3 DEF MapInv, PassedInOrder
  <2>2. ASSUME NEW s \in Shutdown, shutdownPos'[s] \in Position
        PROVE  shutdownPos'[s] < initAt'
    <3>1. shutdownPos[s] \in Nat /\ shutdownPos[s] < initAt
      BY <1>1, <2>2, PositionsAreNumbers DEF MapInv, PassedInOrder
    <3> QED
      BY <1>1, <3>1
  <2>3. \A k \in Position: isInitialized'[AgentSeq[k]] => k <= initAt'
    BY <1>1, <1>3 DEF MapInv, PassedInOrder
  <2>4. ASSUME NEW k \in Position, initAt' <= k
        PROVE  shutdownAt'[AgentSeq[k]] = "open"
    <3>1. k \in Nat /\ initAt <= k
      BY <1>1, <2>4, PositionsAreNumbers
    <3> QED
      BY <1>1, <3>1 DEF MapInv, PassedInOrder
  <2> QED
    BY <1>1, <1>2, <2>1, <2>2, <2>3, <2>4 DEF PassedInOrder
<1>5. \A k \in Position: WaitsFor(k)' <=> WaitsFor(k)
  BY <1>1 DEF WaitsFor
<1>6. \A k \in Position: AgentSeq[k] \in agents' => AgentSeq[k] \in agents \/ k = initAt
  BY <1>1, PositionsNameAgents
<1>7. ClosedInOrder'
  <2>1. ASSUME NEW k \in Position
        PROVE  /\ shutdownAt'[AgentSeq[k]] = "closed" => ~isInitialized'[AgentSeq[k]]
               /\ shutdownAt'[AgentSeq[k]] \in {"cancelling", "closing"} => WaitsFor(k)'
               /\ AgentSeq[k] \in agents' => isInitialized'[AgentSeq[k]] \/ shutdownAt'[AgentSeq[k]] # "open"
    BY <1>1, <1>5, <1>6 DEF MapInv, ClosedInOrder
  <2>2. ASSUME NEW s \in Shutdown, NEW k \in Position,
               shutdownPos'[s] \in Position, k <= shutdownPos'[s], AgentSeq[k] \in agents'
        PROVE  shutdownAt'[AgentSeq[k]] # "open"
    <3>1. shutdownPos[s] < initAt /\ shutdownPos[s] \in Nat /\ k <= shutdownPos[s]
      BY <1>1, <2>2, PositionsAreNumbers DEF MapInv, PassedInOrder
    <3>2. k # initAt
      BY <1>1, <3>1
    <3> QED
      BY <1>1, <1>6, <2>2, <3>2 DEF MapInv, ClosedInOrder
  <2> QED
    BY <2>1, <2>2 DEF ClosedInOrder
<1>8. DroppedIsWaitedFor'
  <2> SUFFICES ASSUME NEW k \in Position, k < initAt + 1, isInitialized[AgentSeq[k]], AgentSeq[k] \notin agents'
               PROVE  WaitsFor(k)
    BY <1>1, <1>5 DEF DroppedIsWaitedFor
  <2>1. k < initAt /\ AgentSeq[k] \notin agents
    BY <1>1, <1>3, PositionsAreNumbers
  <2> QED
    BY <2>1 DEF MapInv, DroppedIsWaitedFor
<1> QED
  BY <1>4, <1>7, <1>8 DEF MapInv

\* An agent comes up, or goes on with its shutdown.
LEMMA AgentContinuesKeepsMap ==
    ASSUME TypeOK, MapInv, NEW k \in Position, AgentContinues(AgentSeq[k])
    PROVE  MapInv'
<1> DEFINE a == AgentSeq[k]
<1>0. /\ UNCHANGED <<initAt, agents, shutdownPos, shutdownOwns>>
      /\ \A j \in Position: AgentSeq[j] \in Agent /\ j \in Nat
      /\ \A j \in Position: AgentSeq[j] = a => j = k
      /\ \A j \in Position: WaitsFor(j)' <=> WaitsFor(j)
      /\ isInitialized \in [Agent -> BOOLEAN] /\ initializing \in [Agent -> BOOLEAN]
      /\ shutdownAt \in [Agent -> {"open", "cancelling", "closing", "closed"}]
  BY PositionsAreNumbers, PositionsNameAgents DEF AgentContinues, runtimeVars, WaitsFor, TypeOK, AgentTypeOK
<1>1. CASE InitializeEnd(a)
  <2>1. /\ initializing[a] /\ k = initAt
        /\ initializing' = [initializing EXCEPT ![a] = FALSE]
        /\ isInitialized' = [isInitialized EXCEPT ![a] = TRUE]
        /\ UNCHANGED shutdownAt
    BY <1>1 DEF InitializeEnd, MapInv, PassedInOrder
  <2>2. shutdownAt[a] = "open"
    BY <1>0, <2>1 DEF MapInv, PassedInOrder
  <2>3. \A j \in Position:
            /\ initializing'[AgentSeq[j]] => initializing[AgentSeq[j]]
            /\ isInitialized[AgentSeq[j]] => isInitialized'[AgentSeq[j]]
            /\ isInitialized'[AgentSeq[j]] => isInitialized[AgentSeq[j]] \/ j = k
    BY <1>0, <2>1
  <2>4. PassedInOrder'
    BY <1>0, <2>1, <2>3 DEF MapInv, PassedInOrder
  <2>5. ClosedInOrder'
    BY <1>0, <2>1, <2>2, <2>3 DEF MapInv, ClosedInOrder
  <2>6. DroppedIsWaitedFor'
    BY <1>0, <2>1, <2>3 DEF MapInv, DroppedIsWaitedFor
  <2> QED
    BY <2>4, <2>5, <2>6 DEF MapInv
<1>2. CASE ShutdownCancel(a)
  <2>1. PICK to \in {"cancelling", "closing"}: shutdownAt' = [shutdownAt EXCEPT ![a] = to]
    BY <1>2 DEF ShutdownCancel, CancelOrClose
  <2>2. shutdownAt[a] = "cancelling" /\ UNCHANGED <<initializing, isInitialized>>
    BY <1>2 DEF ShutdownCancel
  <2>3. \A j \in Position: j # k => shutdownAt'[AgentSeq[j]] = shutdownAt[AgentSeq[j]]
    BY <1>0, <2>1
  <2>4. shutdownAt'[a] \in {"cancelling", "closing"}
    BY <1>0, <2>1
  <2>5. PassedInOrder'
    BY <1>0, <2>2, <2>3 DEF MapInv, PassedInOrder
  <2>6. ClosedInOrder'
    BY <1>0, <2>2, <2>3, <2>4 DEF MapInv, ClosedInOrder
  <2>7. DroppedIsWaitedFor'
    BY <1>0, <2>2 DEF MapInv, DroppedIsWaitedFor
  <2> QED
    BY <2>5, <2>6, <2>7 DEF MapInv
<1>3. CASE ShutdownEnd(a)
  <2>1. /\ shutdownAt[a] = "closing"
        /\ shutdownAt' = [shutdownAt EXCEPT ![a] = "closed"]
        /\ isInitialized' = [isInitialized EXCEPT ![a] = FALSE]
        /\ UNCHANGED initializing
    BY <1>3 DEF ShutdownEnd
  <2>2. \A j \in Position: j # k => /\ shutdownAt'[AgentSeq[j]] = shutdownAt[AgentSeq[j]]
                                    /\ isInitialized'[AgentSeq[j]] = isInitialized[AgentSeq[j]]
    BY <1>0, <2>1
  <2>3. shutdownAt'[a] = "closed" /\ ~isInitialized'[a]
    BY <1>0, <2>1
  <2>4. PassedInOrder'
    BY <1>0, <2>1, <2>2, <2>3 DEF MapInv, PassedInOrder
  <2>5. ClosedInOrder'
    BY <1>0, <2>2, <2>3 DEF MapInv, ClosedInOrder
  <2>6. DroppedIsWaitedFor'
    BY <1>0, <2>2, <2>3 DEF MapInv, DroppedIsWaitedFor
  <2> QED
    BY <2>4, <2>5, <2>6 DEF MapInv
<1> QED
  BY <1>1, <1>2, <1>3 DEF AgentContinues

\* A shutdown() moves on to its next agent, or clears the map: it leaves nobody
\* behind, since the agents it passed are closed or waited for by others.
LEMMA AdvanceKeepsMap ==
    ASSUME TypeOK, MapInv, NEW s \in Shutdown, NEW p \in Nat, Advance(s, p),
           UNCHANGED initAt,
           \/ shutdownPos[s] = Idle /\ p = 1
           \/ /\ shutdownPos[s] \in Position /\ p = shutdownPos[s] + 1
              /\ shutdownOwns[s] => shutdownAt[AgentSeq[shutdownPos[s]]] = "closed"
    PROVE  MapInv'
<1>0. /\ \A j \in Position: AgentSeq[j] \in Agent /\ j \in Nat /\ j >= 1
      /\ initAt \in Nat
      /\ shutdownPos \in [Shutdown -> Position \union {Idle, Done}]
      /\ shutdownOwns \in [Shutdown -> BOOLEAN]
      /\ shutdownAt \in [Agent -> {"open", "cancelling", "closing", "closed"}]
      /\ Idle \in Nat /\ Done \in Nat /\ Idle \notin Position /\ Done \notin Position
  BY PositionsAreNumbers, PositionsNameAgents DEF TypeOK, AgentTypeOK, Position
\* What is waited for by another is so afterwards.
<1>1. ASSUME NEW k \in Position, WaitsFor(k), shutdownAt[AgentSeq[k]] # "closed",
             \A t \in Shutdown: t # s => shutdownPos'[t] = shutdownPos[t] /\ shutdownOwns'[t] = shutdownOwns[t]
      PROVE  WaitsFor(k)'
  <2>1. PICK t \in Shutdown: shutdownPos[t] = k /\ shutdownOwns[t]
    BY <1>1 DEF WaitsFor
  <2>2. t # s
    BY <1>0, <1>1, <2>1
  <2> QED
    BY <1>1, <2>1, <2>2 DEF WaitsFor
\* The agents before p that are in the map are not open.
<1>2. ASSUME NEW k \in Position, k < p, AgentSeq[k] \in agents
      PROVE  shutdownAt[AgentSeq[k]] # "open"
  <2>1. shutdownPos[s] \in Position /\ k <= shutdownPos[s]
    BY <1>0, <1>2
  <2> QED
    BY <1>2, <2>1 DEF MapInv, ClosedInOrder
<1>3. CASE /\ Unvisited(p) = {}
           /\ agents' = {}
           /\ shutdownPos' = [shutdownPos EXCEPT ![s] = Done]
           /\ shutdownOwns' = [shutdownOwns EXCEPT ![s] = FALSE]
           /\ UNCHANGED agentVars
  <2>1. /\ UNCHANGED <<initializing, isInitialized, shutdownAt>>
        /\ \A t \in Shutdown: t # s => shutdownPos'[t] = shutdownPos[t] /\ shutdownOwns'[t] = shutdownOwns[t]
        /\ shutdownPos'[s] = Done
    BY <1>0, <1>3 DEF agentVars, lifeVars
  <2>2. PassedInOrder'
    BY <1>0, <1>3, <2>1 DEF MapInv, PassedInOrder
  <2>3. ClosedInOrder'
    <3>1. ASSUME NEW k \in Position
          PROVE  /\ shutdownAt'[AgentSeq[k]] = "closed" => ~isInitialized'[AgentSeq[k]]
                 /\ shutdownAt'[AgentSeq[k]] \in {"cancelling", "closing"} => WaitsFor(k)'
      BY <1>1, <2>1 DEF MapInv, ClosedInOrder
    <3> QED
      BY <1>3, <3>1 DEF ClosedInOrder
  <2>4. DroppedIsWaitedFor'
    <3> SUFFICES ASSUME NEW k \in Position, k < initAt, isInitialized[AgentSeq[k]]
                 PROVE  WaitsFor(k)'
      BY <2>1 DEF DroppedIsWaitedFor
    <3>1. shutdownAt[AgentSeq[k]] # "closed"
      BY DEF MapInv, ClosedInOrder
    <3>2. CASE AgentSeq[k] \notin agents
      BY <1>1, <2>1, <3>1, <3>2 DEF MapInv, DroppedIsWaitedFor
    <3>3. CASE AgentSeq[k] \in agents
      <4>1. k < p
        BY <1>0, <1>3, <3>3 DEF Unvisited
      <4>2. shutdownAt[AgentSeq[k]] \in {"cancelling", "closing"}
        BY <1>0, <1>2, <3>1, <3>3, <4>1
      <4>3. WaitsFor(k)
        BY <4>2 DEF MapInv, ClosedInOrder
      <4> QED
        BY <1>1, <2>1, <3>1, <4>3
    <3> QED
      BY <3>2, <3>3
  <2> QED
    BY <2>2, <2>3, <2>4 DEF MapInv
<1>4. ASSUME NEW i \in Unvisited(p),
             \A j \in Unvisited(p): i <= j,
             shutdownPos' = [shutdownPos EXCEPT ![s] = i],
             shutdownOwns' = [shutdownOwns EXCEPT ![s] = CanShutdown(AgentSeq[i])],
             IF CanShutdown(AgentSeq[i]) THEN ShutdownBegin(AgentSeq[i]) ELSE UNCHANGED agentVars,
             UNCHANGED agents
      PROVE  MapInv'
  <2>1. i \in Position /\ i >= p /\ AgentSeq[i] \in agents /\ AgentSeq[i] \in Agent /\ i \in Nat
    BY <1>0 DEF Unvisited
  <2>2. i < initAt
    BY <2>1, PositionsNameAgents DEF MapInv, PassedInOrder
  <2>3. /\ UNCHANGED <<initializing, isInitialized>>
        /\ \A j \in Position: j # i => shutdownAt'[AgentSeq[j]] = shutdownAt[AgentSeq[j]]
        /\ CanShutdown(AgentSeq[i]) => shutdownAt'[AgentSeq[i]] \in {"cancelling", "closing"}
        /\ ~CanShutdown(AgentSeq[i]) => shutdownAt'[AgentSeq[i]] = shutdownAt[AgentSeq[i]]
    <3>1. CASE CanShutdown(AgentSeq[i])
      <4>1. ShutdownBegin(AgentSeq[i])
        BY <1>4, <3>1
      <4>2. PICK to \in {"cancelling", "closing"}: shutdownAt' = [shutdownAt EXCEPT ![AgentSeq[i]] = to]
        BY <4>1 DEF ShutdownBegin, CancelOrClose
      <4>3. UNCHANGED <<initializing, isInitialized>>
        BY <4>1 DEF ShutdownBegin
      <4>4. shutdownAt'[AgentSeq[i]] = to
        BY <1>0, <2>1, <4>2
      <4>5. \A j \in Position: j # i => shutdownAt'[AgentSeq[j]] = shutdownAt[AgentSeq[j]]
        BY <1>0, <2>1, <4>2, PositionsNameAgents
      <4> QED
        BY <3>1, <4>3, <4>4, <4>5
    <3>2. CASE ~CanShutdown(AgentSeq[i])
      BY <1>4, <3>2 DEF agentVars, lifeVars
    <3> QED
      BY <3>1, <3>2
  <2>4. /\ shutdownPos'[s] = i
        /\ shutdownOwns'[s] = CanShutdown(AgentSeq[i])
        /\ \A t \in Shutdown: t # s => shutdownPos'[t] = shutdownPos[t] /\ shutdownOwns'[t] = shutdownOwns[t]
    BY <1>0, <1>4
  <2>5. shutdownAt'[AgentSeq[i]] # "open"
    BY <2>1, <2>3 DEF CanShutdown, MapInv, ClosedInOrder
  <2>6. CanShutdown(AgentSeq[i]) => WaitsFor(i)'
    BY <2>4 DEF WaitsFor
  <2>7. PassedInOrder'
    BY <1>0, <1>4, <2>1, <2>2, <2>3, <2>4 DEF MapInv, PassedInOrder
  <2>8. ClosedInOrder'
    <3>1. ASSUME NEW k \in Position
          PROVE  /\ shutdownAt'[AgentSeq[k]] = "closed" => ~isInitialized'[AgentSeq[k]]
                 /\ shutdownAt'[AgentSeq[k]] \in {"cancelling", "closing"} => WaitsFor(k)'
                 /\ AgentSeq[k] \in agents' => isInitialized'[AgentSeq[k]] \/ shutdownAt'[AgentSeq[k]] # "open"
      <4>1. CASE k = i /\ CanShutdown(AgentSeq[i])
        BY <2>3, <2>6, <4>1
      <4>2. CASE ~(k = i /\ CanShutdown(AgentSeq[i]))
        <5>1. shutdownAt'[AgentSeq[k]] = shutdownAt[AgentSeq[k]]
          BY <2>3, <4>2
        <5> QED
          BY <1>1, <1>4, <2>3, <2>4, <5>1 DEF MapInv, ClosedInOrder
      <4> QED
        BY <4>1, <4>2
    <3>2. ASSUME NEW t \in Shutdown, NEW k \in Position,
                 shutdownPos'[t] \in Position, k <= shutdownPos'[t], AgentSeq[k] \in agents'
          PROVE  shutdownAt'[AgentSeq[k]] # "open"
      <4>1. CASE k = i
        BY <2>5, <4>1
      <4>2. CASE k # i /\ t = s
        <5>1. k \notin Unvisited(p)
          BY <1>0, <1>4, <2>1, <2>4, <3>2, <4>2
        <5>2. k < p
          BY <1>0, <1>4, <3>2, <5>1 DEF Unvisited
        <5> QED
          BY <1>2, <1>4, <2>3, <3>2, <4>2, <5>2
      <4>3. CASE k # i /\ t # s
        BY <1>4, <2>3, <2>4, <3>2, <4>3 DEF MapInv, ClosedInOrder
      <4> QED
        BY <4>1, <4>2, <4>3
    <3> QED
      BY <3>1, <3>2 DEF ClosedInOrder
  <2>9. DroppedIsWaitedFor'
    <3> SUFFICES ASSUME NEW k \in Position, k < initAt, isInitialized[AgentSeq[k]], AgentSeq[k] \notin agents
                 PROVE  WaitsFor(k)'
      BY <1>4, <2>3 DEF DroppedIsWaitedFor
    <3>1. WaitsFor(k) /\ shutdownAt[AgentSeq[k]] # "closed"
      BY DEF MapInv, ClosedInOrder, DroppedIsWaitedFor
    <3> QED
      BY <1>1, <2>4, <3>1
  <2> QED
    BY <2>7, <2>8, <2>9 DEF MapInv
<1> QED
  BY <1>3, <1>4 DEF Advance

LEMMA NextKeepsMap == TypeOK /\ MapInv /\ [Next]_vars => MapInv'
<1> SUFFICES ASSUME TypeOK, MapInv, [Next]_vars PROVE MapInv'
  OBVIOUS
<1>1. CASE UNCHANGED mapVars
  BY <1>1 DEF mapVars, lifeVars, MapInv, PassedInOrder, ClosedInOrder, DroppedIsWaitedFor, WaitsFor
<1>2. CASE Register
  BY <1>2, RegisterKeepsMap
<1>3. ASSUME NEW a \in Agent, AgentContinues(a)
      PROVE  MapInv'
  <2>1. PICK k \in Position: AgentSeq[k] = a
    BY PositionsNameAgents
  <2> QED
    BY <1>3, <2>1, AgentContinuesKeepsMap
<1>4. ASSUME NEW s \in Shutdown, ShutdownCall(s)
      PROVE  MapInv'
  <2>1. shutdownPos[s] = Idle /\ Advance(s, 1) /\ UNCHANGED initAt
    BY <1>4 DEF ShutdownCall
  <2> QED
    BY <2>1, AdvanceKeepsMap
<1>5. ASSUME NEW s \in Shutdown, ShutdownResume(s)
      PROVE  MapInv'
  <2>1. /\ shutdownPos[s] \in Position /\ shutdownPos[s] + 1 \in Nat
        /\ shutdownOwns[s] => shutdownAt[AgentSeq[shutdownPos[s]]] = "closed"
        /\ Advance(s, shutdownPos[s] + 1) /\ UNCHANGED initAt
    BY <1>5, PositionsAreNumbers DEF ShutdownResume
  <2> QED
    BY <2>1, AdvanceKeepsMap
<1>6. ASSUME NEW c \in Call, WorkContinues(c) \/ RefuseTask(c) \/ ExecuteTask(c) \/ ReturnTask(c)
      PROVE  UNCHANGED mapVars
  BY <1>6 DEF WorkContinues, AgentWake, AgentFinish, RefuseTask, ExecuteTask, AgentExecute, ReturnTask,
              mapVars, lifeVars, agentVars, runtimeVars
<1>7. ASSUME NEW t \in TaskId, CancelTask(t)
      PROVE  UNCHANGED mapVars
  BY <1>7 DEF CancelTask, mapVars, agentVars
<1>8. CASE UNCHANGED vars
  BY <1>1, <1>8 DEF vars, mapVars, agentVars, runtimeVars
<1> QED
  BY <1>1, <1>2, <1>3, <1>4, <1>5, <1>6, <1>7, <1>8 DEF Next, AgentStep

\* No agent is left running without being registered: overlapping shutdowns, and
\* registrations during them, lose nobody.
THEOREM NobodyIsDropped == Spec => []NoOrphanAgent
<1>1. TypeOK /\ MapInv => NoOrphanAgent
  <2> SUFFICES ASSUME TypeOK, MapInv,
                      \A s \in Shutdown: shutdownPos[s] \notin Position,
                      NEW a \in Agent, isInitialized[a]
               PROVE  a \in agents \/ (initAt \in Position /\ a = AgentSeq[initAt])
    BY DEF NoOrphanAgent
  <2>1. PICK k \in Position: AgentSeq[k] = a
    BY PositionsNameAgents
  <2>2. k <= initAt /\ k \in Nat /\ initAt \in Nat
    BY <2>1, PositionsAreNumbers DEF MapInv, PassedInOrder, TypeOK
  <2>3. ~WaitsFor(k)
    BY <2>1 DEF WaitsFor
  <2>4. CASE k < initAt
    BY <2>1, <2>3, <2>4 DEF MapInv, DroppedIsWaitedFor
  <2>5. CASE k = initAt
    BY <2>1, <2>5
  <2> QED
    BY <2>2, <2>4, <2>5
<1> QED
  BY <1>1, InitMap, NextKeepsMap, TypeCorrect, PTL DEF Spec

---------------------------------------------------------------------------
(* What the stream tells of one invocation.                                *)

\* A cancellation is told of a call under way or returned, whose entry is gone.
CancelledIsInactive ==
    \A c \in Call:
        OwnEvents(c, {"cancelled"}) # {} =>
            callAt[c] \in {"awaiting", "returned"} /\ activeTasks[TaskOf[c]] # c

ReportInv == ActiveHasLiveOwner /\ CancelledIsInactive /\ EndReportedOnce

\* The events of a call are finitely many.
LEMMA OwnEventsAreFinite ==
    ASSUME TypeOK, NEW c \in Call, NEW types
    PROVE  /\ OwnEvents(c, types) \subseteq 1..Len(stream[TaskOf[c]])
           /\ IsFiniteSet(OwnEvents(c, types))
           /\ Cardinality(OwnEvents(c, types)) \in Nat
<1>1. Len(stream[TaskOf[c]]) \in Nat /\ DOMAIN stream[TaskOf[c]] = 1..Len(stream[TaskOf[c]])
  BY AgentAssumption DEF TypeOK
<1>2. OwnEvents(c, types) \subseteq 1..Len(stream[TaskOf[c]])
  BY <1>1 DEF OwnEvents
<1>3. IsFiniteSet(1..Len(stream[TaskOf[c]]))
  <2>1. 1 \in Int /\ Len(stream[TaskOf[c]]) \in Int
    BY <1>1
  <2> QED
    BY <2>1, FS_Interval
<1> QED
  BY <1>2, <1>3, FS_Subset, FS_CardinalityType

\* A published event is a later one of its invocation, and nobody else's.
LEMMA PublishedIsOwn ==
    ASSUME TypeOK, NEW t \in TaskId, NEW type \in EventType, NEW d \in Call,
           Publish(t, type, d), TaskOf[d] = t,
           NEW c \in Call, NEW types
    PROVE  OwnEvents(c, types)' =
               IF c = d /\ type \in types THEN OwnEvents(c, types) \union {Len(stream[t]) + 1}
               ELSE OwnEvents(c, types)
<1> DEFINE s == stream[TaskOf[c]]
           e == [type |-> type, call |-> d]
<1>0. s \in Seq(Event) /\ e \in Event /\ TaskOf[c] \in TaskId /\ stream \in [TaskId -> Seq(Event)]
  BY AgentAssumption DEF TypeOK, Event
<1>1. CASE TaskOf[c] # t
  <2>1. stream'[TaskOf[c]] = s /\ c # d
    BY <1>0, <1>1 DEF Publish
  <2> QED
    BY <2>1 DEF OwnEvents
<1>2. CASE TaskOf[c] = t
  <2>1. stream'[TaskOf[c]] = Append(s, e)
    BY <1>0, <1>2 DEF Publish
  <2> DEFINE n == Len(s) + 1
             q == Append(s, e)
  <2>2. /\ n \in Nat
        /\ DOMAIN q = 1..n /\ DOMAIN s = 1..(n - 1)
        /\ q[n] = e /\ \A i \in 1..(n - 1): q[i] = s[i]
    BY <1>0
  <2>3. e.type = type /\ e.call = d
    OBVIOUS
  <2>4. /\ OwnEvents(c, types)' = {i \in DOMAIN q: q[i].call = c /\ q[i].type \in types}
        /\ OwnEvents(c, types) = {i \in DOMAIN s: s[i].call = c /\ s[i].type \in types}
    BY <2>1 DEF OwnEvents
  <2>5. n = Len(stream[t]) + 1
    BY <1>2
  <2>6. n >= 1
    BY <1>0
  <2> HIDE DEF n, q, s, e
  <2>7. ASSUME NEW i
        PROVE  i \in OwnEvents(c, types)' <=>
                   i \in OwnEvents(c, types) \/ (i = n /\ c = d /\ type \in types)
    <3>0. n \in Nat /\ n >= 1
      BY <2>2, <2>6
    <3>1. i \in 1..n <=> i \in 1..(n - 1) \/ i = n
      BY <3>0
    <3>2. n \notin 1..(n - 1)
      BY <3>0
    <3> QED
      BY <2>2, <2>3, <2>4, <3>1, <3>2
  <2> QED
    BY <2>5, <2>7
<1> QED
  BY <1>1, <1>2

\* EndReportedOnce of one call.
ReportedOnce(c) ==
    LET start == OwnEvents(c, {"started"})
        end == OwnEvents(c, {"completed", "failed"})
        cancel == OwnEvents(c, {"cancelled"})
    IN  /\ Cardinality(start) = (IF callAt[c] \in {"awaiting", "returned"} THEN 1 ELSE 0)
        /\ Cardinality(end) = (IF callAt[c] = "returned" THEN 1 ELSE 0)
        /\ Cardinality(cancel) <= 1
        /\ \A i \in start: \A j \in end \union cancel: i < j
        /\ \A i \in cancel: \A j \in end: i < j

\* A call of which nothing is published is reported as before.
LEMMA ReportIsKept ==
    ASSUME NEW c \in Call, ReportedOnce(c),
           callAt'[c] = callAt[c] \/ {callAt[c], callAt'[c]} \subseteq {"idle", "refused"},
           \A types \in {{"started"}, {"completed", "failed"}, {"cancelled"}}:
               OwnEvents(c, types)' = OwnEvents(c, types)
    PROVE  ReportedOnce(c)'
<1>1. /\ OwnEvents(c, {"started"})' = OwnEvents(c, {"started"})
      /\ OwnEvents(c, {"completed", "failed"})' = OwnEvents(c, {"completed", "failed"})
      /\ OwnEvents(c, {"cancelled"})' = OwnEvents(c, {"cancelled"})
  OBVIOUS
<1>2. /\ callAt'[c] \in {"awaiting", "returned"} <=> callAt[c] \in {"awaiting", "returned"}
      /\ callAt'[c] = "returned" <=> callAt[c] = "returned"
  <2>1. CASE callAt'[c] = callAt[c]
    BY <2>1
  <2>2. CASE {callAt[c], callAt'[c]} \subseteq {"idle", "refused"}
    <3>1. callAt[c] \in {"idle", "refused"} /\ callAt'[c] \in {"idle", "refused"}
      BY <2>2
    <3> QED
      BY <3>1
  <2> QED
    BY <2>1, <2>2
<1> QED
  BY <1>1, <1>2 DEF ReportedOnce

\* A call that starts has ended and been cancelled never, one that ends was
\* started and has not ended.
LEMMA ReportMovesOn ==
    ASSUME TypeOK, NEW c \in Call, ReportedOnce(c),
           NEW type \in EventType, Publish(TaskOf[c], type, c),
           \/ /\ type = "started" /\ callAt[c] = "idle" /\ callAt'[c] = "awaiting"
              /\ OwnEvents(c, {"cancelled"}) = {}
           \/ type \in {"completed", "failed"} /\ callAt[c] = "awaiting" /\ callAt'[c] = "returned"
           \/ /\ type = "cancelled" /\ callAt[c] = "awaiting" /\ callAt'[c] = "awaiting"
              /\ OwnEvents(c, {"cancelled"}) = {}
    PROVE  ReportedOnce(c)'
<1> DEFINE start == OwnEvents(c, {"started"})
           end == OwnEvents(c, {"completed", "failed"})
           cancel == OwnEvents(c, {"cancelled"})
           n == Len(stream[TaskOf[c]]) + 1
<1>0. /\ TaskOf[c] \in TaskId
      /\ n \in Nat
  BY AgentAssumption DEF TypeOK
<1>1. /\ start' = IF type = "started" THEN start \union {n} ELSE start
      /\ end' = IF type \in {"completed", "failed"} THEN end \union {n} ELSE end
      /\ cancel' = IF type = "cancelled" THEN cancel \union {n} ELSE cancel
  <2>1. \A types: OwnEvents(c, types)' = IF type \in types THEN OwnEvents(c, types) \union {n}
                                         ELSE OwnEvents(c, types)
    BY <1>0, PublishedIsOwn
  <2> HIDE DEF n
  <2> QED
    BY <2>1
<1>2. /\ \A i \in start \union end \union cancel: i \in Nat /\ i < n
      /\ IsFiniteSet(start) /\ IsFiniteSet(end) /\ IsFiniteSet(cancel)
  <2>1. /\ start \subseteq 1..Len(stream[TaskOf[c]]) /\ IsFiniteSet(start)
        /\ end \subseteq 1..Len(stream[TaskOf[c]]) /\ IsFiniteSet(end)
        /\ cancel \subseteq 1..Len(stream[TaskOf[c]]) /\ IsFiniteSet(cancel)
    BY OwnEventsAreFinite
  <2> QED
    BY <1>0, <2>1
<1>3. /\ Cardinality(start) = (IF callAt[c] \in {"awaiting", "returned"} THEN 1 ELSE 0)
      /\ Cardinality(end) = (IF callAt[c] = "returned" THEN 1 ELSE 0)
      /\ Cardinality(cancel) <= 1
      /\ \A i \in start: \A j \in end \union cancel: i < j
      /\ \A i \in cancel: \A j \in end: i < j
  BY DEF ReportedOnce
<1>4. SUFFICES /\ Cardinality(start') = (IF callAt'[c] \in {"awaiting", "returned"} THEN 1 ELSE 0)
               /\ Cardinality(end') = (IF callAt'[c] = "returned" THEN 1 ELSE 0)
               /\ Cardinality(cancel') <= 1
               /\ \A i \in start': \A j \in end' \union cancel': i < j
               /\ \A i \in cancel': \A j \in end': i < j
  BY DEF ReportedOnce
<1> HIDE DEF start, end, cancel, n
<1>5. Cardinality({n}) = 1
  BY FS_Singleton
<1>6. CASE type = "started"
  <2>1. callAt[c] = "idle" /\ callAt'[c] = "awaiting" /\ cancel = {}
    BY <1>6 DEF cancel
  <2>2. start = {} /\ end = {}
    BY <1>2, <1>3, <2>1, FS_EmptySet
  <2>3. start' = {n} /\ end' = {} /\ cancel' = {}
    BY <1>1, <1>6, <2>1, <2>2
  <2> QED
    BY <1>5, <2>1, <2>3, FS_EmptySet
<1>7. CASE type \in {"completed", "failed"}
  <2>1. callAt[c] = "awaiting" /\ callAt'[c] = "returned"
    BY <1>7
  <2>2. end = {}
    BY <1>2, <1>3, <2>1, FS_EmptySet
  <2>3. start' = start /\ end' = {n} /\ cancel' = cancel
    BY <1>1, <1>7, <2>2
  <2> QED
    BY <1>2, <1>3, <1>5, <2>1, <2>3
<1>8. CASE type = "cancelled"
  <2>1. callAt[c] = "awaiting" /\ callAt'[c] = "awaiting" /\ cancel = {}
    BY <1>8 DEF cancel
  <2>2. end = {}
    BY <1>2, <1>3, <2>1, FS_EmptySet
  <2>3. start' = start /\ end' = {} /\ cancel' = {n}
    BY <1>1, <1>8, <2>1, <2>2
  <2> QED
    BY <1>2, <1>3, <1>5, <2>1, <2>3, FS_EmptySet
<1> QED
  BY <1>6, <1>7, <1>8

LEMMA EndIsReported == EndReportedOnce <=> \A c \in Call: ReportedOnce(c)
BY DEF EndReportedOnce, ReportedOnce

\* The steps that publish something, by the event.
LEMMA PublishKeepsReports ==
    ASSUME TypeOK, ReportInv, NEW d \in Call, NEW type \in EventType,
           Publish(TaskOf[d], type, d),
           NEW at, callAt' = [callAt EXCEPT ![d] = at],
           \A t \in TaskId: activeTasks'[t] # activeTasks[t] =>
               activeTasks'[t] \in {d, NoCall} /\ t = TaskOf[d],
           \/ type = "refused" /\ callAt[d] = "idle" /\ at = "refused" /\ UNCHANGED activeTasks
           \/ type = "started" /\ callAt[d] = "idle" /\ at = "awaiting"
           \/ /\ type \in {"completed", "failed"} /\ callAt[d] = "awaiting" /\ at = "returned"
              /\ activeTasks'[TaskOf[d]] = NoCall
           \/ /\ type = "cancelled" /\ callAt[d] = "awaiting" /\ at = "awaiting"
              /\ activeTasks[TaskOf[d]] = d /\ activeTasks'[TaskOf[d]] = NoCall
    PROVE  CancelledIsInactive' /\ EndReportedOnce'
<1>0. /\ TaskOf[d] \in TaskId
      /\ callAt \in [Call -> {"idle", "awaiting", "returned", "refused"}]
      /\ \A c \in Call: ReportedOnce(c) /\ TaskOf[c] \in TaskId /\ NoCall # c
  BY AgentAssumption, NoCallAssumption, EndIsReported DEF TypeOK, ReportInv
<1>1. \A c \in Call: c # d => callAt'[c] = callAt[c]
  BY <1>0
<1>2. callAt'[d] = at
  BY <1>0
<1>3. ASSUME NEW c \in Call, NEW types, c # d \/ type \notin types
      PROVE  OwnEvents(c, types)' = OwnEvents(c, types)
  BY <1>0, <1>3, PublishedIsOwn
<1>4. ASSUME NEW c \in Call
      PROVE  OwnEvents(c, {"cancelled"}) # {} =>
                 callAt[c] \in {"awaiting", "returned"} /\ activeTasks[TaskOf[c]] # c
  BY DEF ReportInv, CancelledIsInactive
<1>5. ASSUME NEW c \in Call
      PROVE  ReportedOnce(c)'
  <2>1. CASE c # d \/ type = "refused"
    <3>1. callAt'[c] = callAt[c] \/ {callAt[c], callAt'[c]} \subseteq {"idle", "refused"}
      BY <1>1, <1>2, <2>1
    <3>2. \A types \in {{"started"}, {"completed", "failed"}, {"cancelled"}}: c # d \/ type \notin types
      BY <2>1
    <3>3. \A types \in {{"started"}, {"completed", "failed"}, {"cancelled"}}:
              OwnEvents(c, types)' = OwnEvents(c, types)
      BY <1>3, <3>2
    <3> QED
      BY <1>0, <3>1, <3>3, ReportIsKept
  <2>2. CASE c = d /\ type # "refused"
    <3>1. type \in {"started", "cancelled"} => OwnEvents(c, {"cancelled"}) = {}
      BY <1>4, <2>2
    <3>2. ReportedOnce(d)
      BY <1>0
    <3> QED
      BY <1>0, <1>2, <2>2, <3>1, <3>2, ReportMovesOn
  <2> QED
    BY <2>1, <2>2
<1>6. ASSUME NEW c \in Call, OwnEvents(c, {"cancelled"})' # {}
      PROVE  callAt'[c] \in {"awaiting", "returned"} /\ activeTasks'[TaskOf[c]] # c
  <2>1. CASE c # d
    <3>1. callAt[c] \in {"awaiting", "returned"} /\ activeTasks[TaskOf[c]] # c
      BY <1>3, <1>4, <1>6, <2>1
    <3> QED
      BY <1>0, <1>1, <2>1, <3>1
  <2>2. CASE c = d /\ type = "cancelled"
    BY <1>0, <1>2, <2>2
  <2>3. CASE c = d /\ type # "cancelled"
    <3>1. callAt[d] \in {"awaiting", "returned"} /\ activeTasks[TaskOf[d]] # d
      BY <1>3, <1>4, <1>6, <2>3
    <3>2. type \in {"completed", "failed"}
      BY <2>3, <3>1
    <3> QED
      BY <1>0, <1>2, <2>3, <3>2
  <2> QED
    BY <2>1, <2>2, <2>3
<1>7. CancelledIsInactive'
  BY <1>6 DEF CancelledIsInactive
<1>8. (\A c \in Call: ReportedOnce(c)')  => EndReportedOnce'
  BY DEF EndReportedOnce, ReportedOnce
<1> QED
  BY <1>5, <1>7, <1>8

\* Every invocation reports its start, then at most one cancellation, and its end
\* exactly once, whoever shares its task id.
THEOREM EndsAreReported == Spec => []EndReportedOnce
<1>1. Init => CancelledIsInactive /\ EndReportedOnce
  <2> SUFFICES ASSUME Init PROVE CancelledIsInactive /\ EndReportedOnce
    OBVIOUS
  <2>1. \A c \in Call: \A types: OwnEvents(c, types) = {}
    BY AgentAssumption DEF Init, OwnEvents
  <2>2. \A c \in Call: callAt[c] = "idle"
    BY DEF Init
  <2> QED
    BY <2>1, <2>2, FS_EmptySet DEF CancelledIsInactive, EndReportedOnce
<1>2. TypeOK /\ ActiveHasLiveOwner /\ CancelledIsInactive /\ EndReportedOnce /\ [Next]_vars
          => CancelledIsInactive' /\ EndReportedOnce'
  <2> SUFFICES ASSUME TypeOK, ActiveHasLiveOwner, CancelledIsInactive, EndReportedOnce, [Next]_vars
               PROVE  CancelledIsInactive' /\ EndReportedOnce'
    OBVIOUS
  <2>0. /\ ReportInv
        /\ activeTasks \in [TaskId -> Call \union {NoCall}]
        /\ callAt \in [Call -> {"idle", "awaiting", "returned", "refused"}]
        /\ \A c \in Call: TaskOf[c] \in TaskId
    BY AgentAssumption DEF ReportInv, TypeOK
  <2>1. ASSUME NEW c \in Call, RefuseTask(c)
        PROVE  CancelledIsInactive' /\ EndReportedOnce'
    <3>1. /\ Publish(TaskOf[c], "refused", c) /\ "refused" \in EventType
          /\ callAt[c] = "idle" /\ callAt' = [callAt EXCEPT ![c] = "refused"]
          /\ UNCHANGED activeTasks
      BY <2>1 DEF RefuseTask, EventType
    <3> QED
      BY <2>0, <3>1, PublishKeepsReports
  <2>2. ASSUME NEW c \in Call, ExecuteTask(c)
        PROVE  CancelledIsInactive' /\ EndReportedOnce'
    <3>1. /\ Publish(TaskOf[c], "started", c) /\ "started" \in EventType
          /\ callAt[c] = "idle" /\ callAt' = [callAt EXCEPT ![c] = "awaiting"]
          /\ activeTasks' = [activeTasks EXCEPT ![TaskOf[c]] = c]
      BY <2>2 DEF ExecuteTask, EventType
    <3>2. \A t \in TaskId: activeTasks'[t] # activeTasks[t] => activeTasks'[t] \in {c, NoCall} /\ t = TaskOf[c]
      BY <2>0, <3>1
    <3> QED
      BY <2>0, <3>1, <3>2, PublishKeepsReports
  <2>3. ASSUME NEW c \in Call, ReturnTask(c)
        PROVE  CancelledIsInactive' /\ EndReportedOnce'
    <3>1. PICK type \in {"completed", "failed"}: Publish(TaskOf[c], type, c)
      BY <2>3 DEF ReturnTask
    <3>2. /\ type \in EventType
          /\ callAt[c] = "awaiting" /\ callAt' = [callAt EXCEPT ![c] = "returned"]
          /\ activeTasks' = [activeTasks EXCEPT ![TaskOf[c]] = NoCall]
      BY <2>3 DEF ReturnTask, EventType
    <3>3. /\ \A t \in TaskId: activeTasks'[t] # activeTasks[t] => activeTasks'[t] \in {c, NoCall} /\ t = TaskOf[c]
          /\ activeTasks'[TaskOf[c]] = NoCall
      BY <2>0, <3>2
    <3> QED
      BY <2>0, <3>1, <3>2, <3>3, PublishKeepsReports
  <2>4. ASSUME NEW t \in TaskId, CancelTask(t)
        PROVE  CancelledIsInactive' /\ EndReportedOnce'
    <3>1. PICK c \in Call: c = activeTasks[t]
      BY <2>0, <2>4 DEF CancelTask
    <3>2. callAt[c] = "awaiting" /\ TaskOf[c] = t
      BY <2>4, <3>1 DEF ActiveHasLiveOwner, CancelTask
    <3>3. /\ Publish(TaskOf[c], "cancelled", c) /\ "cancelled" \in EventType
          /\ activeTasks' = [activeTasks EXCEPT ![t] = NoCall]
          /\ UNCHANGED callAt
      BY <2>4, <3>1, <3>2 DEF CancelTask, EventType
    <3>4. callAt' = [callAt EXCEPT ![c] = "awaiting"]
      BY <2>0, <3>2, <3>3
    <3>5. /\ \A u \in TaskId: activeTasks'[u] # activeTasks[u] => activeTasks'[u] \in {c, NoCall} /\ u = TaskOf[c]
          /\ activeTasks'[TaskOf[c]] = NoCall
          /\ activeTasks[TaskOf[c]] = c
      BY <2>0, <3>1, <3>2, <3>3
    <3> QED
      BY <2>0, <3>2, <3>3, <3>4, <3>5, PublishKeepsReports
  <2>5. CASE UNCHANGED <<activeTasks, callAt, stream>>
    <3>1. \A c \in Call: \A types: OwnEvents(c, types)' = OwnEvents(c, types)
      BY <2>5 DEF OwnEvents
    <3>2. CancelledIsInactive'
      BY <2>5, <3>1 DEF CancelledIsInactive
    <3>3. EndReportedOnce'
      BY <2>5, <3>1 DEF EndReportedOnce
    <3> QED
      BY <3>2, <3>3
  <2> QED
    BY <2>1, <2>2, <2>3, <2>4, <2>5, QuietStep DEF Next
<1> QED
  BY <1>1, <1>2, TypeCorrect, ActiveOwnership, PTL DEF Spec

----------------------------------------------------------------------------
(* The average duration of the tasks of an agent.                          *)

\* The average times the number of completed tasks is at most the sum of their
\* durations, and equal to it while nothing fails, also before the first ends.
MetricsInv ==
    /\ MetricsTypeOK
    /\ average[1] * totalTasksCompleted <= total * average[2]
    /\ totalTasksFailed = 0 => average[1] * totalTasksCompleted = total * average[2]

\* What the update gives for a task that was completed.
LEMMA OneMoreTask ==
    ASSUME NEW a \in Nat, NEW b \in Nat \ {0}, NEW n \in Nat, NEW t \in Nat, NEW d \in Nat
    PROVE  LET new == <<a * n + d * b, b * (n + 1)>> IN
           /\ new \in Nat \X (Nat \ {0})
           /\ a * n <= t * b => new[1] * (n + 1) <= (t + d) * new[2]
           /\ a * n = t * b => new[1] * (n + 1) = (t + d) * new[2]
<1>1. PICK x, y, z, m : x = a * n /\ y = t * b /\ z = d * b /\ m = n + 1
  OBVIOUS
<1>2. x \in Nat /\ y \in Nat /\ z \in Nat /\ m \in Nat
  BY <1>1
<1>3. b * m # 0 /\ b * m \in Nat
  <2>1. b > 0 /\ m > 0
    BY <1>1
  <2>. QED  BY <1>2, <2>1
<1>4. (t + d) * (b * m) = (y + z) * m
  BY <1>1, <1>2
<1>5. x <= y => (x + z) * m <= (y + z) * m
  <2>1. SUFFICES ASSUME x <= y
                 PROVE  (x + z) * m <= (y + z) * m
    OBVIOUS
  <2>2. PICK k \in Nat : y = x + k
    <3>1. y - x \in Nat /\ y = x + (y - x)
      BY <1>2, <2>1
    <3>. QED  BY <3>1
  <2>3. (y + z) * m = (x + z) * m + k * m /\ k * m >= 0 /\ (x + z) * m \in Nat /\ k * m \in Nat
    BY <1>2, <2>2
  <2>. QED  BY <2>3
<1>6. x = y => (x + z) * m = (y + z) * m
  OBVIOUS
<1>. QED  BY <1>1, <1>2, <1>3, <1>4, <1>5, <1>6

\* And for one that failed.
LEMMA OneMoreFailure ==
    ASSUME NEW a \in Nat, NEW b \in Nat \ {0}, NEW n \in Nat, n > 0, NEW t \in Nat, a * n <= t * b
    PROVE  LET new == <<a * (n - 1), b * n>> IN
           new \in Nat \X (Nat \ {0}) /\ new[1] * n <= t * new[2]
<1>1. PICK x, y, w : x = a * n /\ y = t * b /\ w = a * (n - 1)
  OBVIOUS
<1>2. x \in Nat /\ y \in Nat /\ w \in Nat /\ n - 1 \in Nat
  BY <1>1
<1>3. x = w + a
  BY <1>1, <1>2
<1>4. b * n # 0 /\ b * n \in Nat
  <2>1. b > 0
    OBVIOUS
  <2>. QED  BY <2>1
<1>5. t * (b * n) = y * n
  BY <1>1
<1>6. w * n <= y * n
  <2>1. PICK k \in Nat : y = w + k
    <3>1. y - w \in Nat /\ y = w + (y - w)
      BY <1>1, <1>2, <1>3
    <3>. QED  BY <3>1
  <2>2. y * n = w * n + k * n /\ k * n \in Nat /\ w * n \in Nat
    BY <1>2, <2>1
  <2>. QED  BY <2>2
<1>. QED  BY <1>1, <1>2, <1>4, <1>5, <1>6

LEMMA MetricsStep == MetricsInv /\ [MetricsNext]_metricsVars => MetricsInv'
<1>. SUFFICES ASSUME MetricsInv, [MetricsNext]_metricsVars
              PROVE  MetricsInv'
  OBVIOUS
<1>1. PICK a \in Nat, b \in Nat \ {0} : average = <<a, b>>
  BY DEF MetricsInv, MetricsTypeOK
<1>2. PICK n \in Nat, t \in Nat, f \in Nat : n = totalTasksCompleted /\ t = total /\ f = totalTasksFailed
  BY DEF MetricsInv, MetricsTypeOK
<1>3. a * n <= t * b /\ (f = 0 => a * n = t * b)
  BY <1>1, <1>2 DEF MetricsInv
<1>4. CASE UNCHANGED metricsVars
  BY <1>4 DEF metricsVars, MetricsInv, MetricsTypeOK
<1>5. ASSUME NEW d \in 0 .. MaxDuration, TaskCompleted(d)
      PROVE  MetricsInv'
  <2>. DEFINE new == <<a * n + d * b, b * (n + 1)>>
  <2>1. d \in Nat
    BY MetricsAssumption
  <2>2. /\ new \in Nat \X (Nat \ {0})
        /\ a * n <= t * b => new[1] * (n + 1) <= (t + d) * new[2]
        /\ a * n = t * b => new[1] * (n + 1) = (t + d) * new[2]
    BY <2>1, OneMoreTask
  <2>3. average' = new
    <3>1. n + 1 > 0 /\ n + 1 - 1 = n
      OBVIOUS
    <3>2. average' = UpdateAverage(n + 1, d)
      BY <1>2, <1>5 DEF TaskCompleted
    <3>. QED  BY <1>1, <3>1, <3>2 DEF UpdateAverage
  <2>. HIDE DEF new
  <2>4. /\ totalTasksCompleted' = n + 1 /\ total' = t + d /\ totalTasksFailed' = f
        /\ n + 1 \in Nat /\ t + d \in Nat
    BY <1>2, <1>5, <2>1 DEF TaskCompleted
  <2>. QED  BY <1>2, <1>3, <2>2, <2>3, <2>4 DEF MetricsInv, MetricsTypeOK
<1>6. CASE TaskFailed
  <2>1. /\ totalTasksCompleted' = n /\ total' = t /\ totalTasksFailed' = f + 1 /\ f + 1 \in Nat /\ f + 1 # 0
        /\ average' = UpdateAverage(n, 0)
    BY <1>2, <1>6 DEF TaskFailed
  <2>2. CASE n > 0
    <3>. DEFINE new == <<a * (n - 1), b * n>>
    <3>1. new \in Nat \X (Nat \ {0}) /\ new[1] * n <= t * new[2]
      BY <1>3, <2>2, OneMoreFailure
    <3>2. average' = new
      <4>1. 0 * b = 0 /\ a * (n - 1) + 0 = a * (n - 1)
        BY <2>2
      <4>. QED  BY <1>1, <2>1, <2>2, <4>1 DEF UpdateAverage
    <3>. HIDE DEF new
    <3>. QED  BY <2>1, <3>1, <3>2 DEF MetricsInv, MetricsTypeOK
  <2>3. CASE n = 0
    <3>1. average' = <<0, 1>>
      BY <2>1, <2>3 DEF UpdateAverage
    <3>. QED  BY <2>1, <2>3, <3>1 DEF MetricsInv, MetricsTypeOK
  <2>. QED  BY <2>2, <2>3
<1>. QED  BY <1>4, <1>5, <1>6 DEF MetricsNext

\* The average duration is well formed, right while no task fails, and never
\* too high: for any number of tasks of any durations.
THEOREM AveragesAreSound == MetricsSpec => []AverageIsSound
<1>1. MetricsInit => MetricsInv
  BY DEF MetricsInit, MetricsInv, MetricsTypeOK
<1>2. MetricsInv => AverageIsSound
  BY DEF MetricsInv, AverageIsSound, MeanWhileNothingFails, AverageNeverOverstates
<1>. QED  BY <1>1, <1>2, MetricsStep, PTL DEF MetricsSpec

----------------------------------------------------------------------------
(* Conversations with the planner.                                         *)

Conversations == 1 .. MaxConversations
ChatMessages == [conversation : Conversations, send : Sends, by : {"user", "planner"}, chunks : Nat, own : BOOLEAN]

AnswerStates ==
    [state : {"none", "streaming", "complete", "failed"}, conversation : 0 .. MaxConversations, chunks : Nat]

ConversationTyped ==
    /\ sends \in 0 .. MaxSends /\ newest \in 0 .. MaxConversations /\ Recorded <= newest
    /\ contexts \in [Conversations -> Seq(ChatMessages)]
    /\ answers \in [Sends -> AnswerStates]
    /\ current \in [Views -> 0 .. newest]
    /\ shown \in [Views -> Seq(ChatMessages)]
    /\ sending \in [Views -> 0 .. sends]
    /\ active \in [Views -> BOOLEAN]
    /\ streaming \in [Views -> [send : Nat, chunks : Nat]]
    /\ selected \in [Views -> BOOLEAN]
    /\ loaded = [v \in Views |-> loaded[v]]

\* Each answer is awaited by the one view that set it off, and has a conversation.
AnswersAreAwaited ==
    /\ \A s \in Sends : /\ answers[s].state = "none" <=> s > sends
                        /\ answers[s].state = "streaming" <=> \E v \in Views : sending[v] = s
                        /\ s <= sends => answers[s].conversation \in 1 .. newest
    /\ \A v, w \in Views : sending[v] = sending[w] /\ sending[v] # 0 => v = w

\* What is in a sequence of messages.
Elements(ms) == {ms[i] : i \in DOMAIN ms}

\* A message is one that was sent, or an answer that is complete.
Came(m, upTo, given) == m.send <= upTo /\ (m.by = "planner" => given[m.send].state = "complete")
AllCame == \A v \in Views : \A x \in Elements(shown[v]) : Came(x, sends, answers)

\* What a conversation holds of a sending: one message, and one answer after it.
HoldsAnswer(context, s) == \E i \in DOMAIN context : context[i].send = s /\ context[i].by = "planner"
InOrder(context) ==
    \A i, j \in DOMAIN context :
        context[i].send = context[j].send =>
            /\ context[i].by = context[j].by => i = j
            /\ context[i].by = "user" /\ context[j].by = "planner" => i < j
BelongsTo(m, c, given) == m.conversation = c /\ ~ m.own /\ (m.by = "planner" => given[m.send].conversation = c)

ContextOK(c) ==
    /\ InOrder(contexts[c])
    /\ \A x \in Elements(contexts[c]) : Came(x, sends, answers) /\ BelongsTo(x, c, answers)
    /\ c > newest => contexts[c] = <<>>

\* An answer that is complete has arrived.
Arrived ==
    \A s \in Sends : answers[s].state = "complete" => HoldsAnswer(contexts[answers[s].conversation], s)

\* The partial answers come from the streams they are shown for.
PartialOK(v) ==
    /\ streaming[v].send \in 0 .. sends
    /\ streaming[v].send # 0 => streaming[v].chunks = answers[streaming[v].send].chunks
    /\ active[v] => sending[v] # 0
    /\ streaming[v].send \notin {0, sending[v]} => answers[streaming[v].send].state = "failed"

\* The definitions of Told and Shows, for any messages and conversation.
ToldIn(messages, c) ==
    {i \in 1 .. Len(messages) : /\ messages[i].conversation = c /\ ~ messages[i].own
                                /\ \A j \in 1 .. i - 1 : messages[j] # messages[i]}
ShowsAll(messages, c, context) ==
    /\ Cardinality(ToldIn(messages, c)) = Len(context)
    /\ \A i \in ToldIn(messages, c) : context[Cardinality(ToldIn(messages, c) \cap 1 .. i)] = messages[i]

ShownOK(v) == current[v] # 0 /\ ~ selected[v] => ShowsAll(shown[v], current[v], contexts[current[v]])

ConversationInv ==
    /\ ConversationTyped /\ AnswersAreAwaited /\ AllCame /\ Arrived
    /\ \A c \in Conversations : ContextOK(c)
    /\ \A v \in Views : PartialOK(v) /\ ShownOK(v)

\* What one more message changes.
LEMMA MessagesHave ==
    ASSUME NEW ms \in Seq(ChatMessages)
    PROVE  /\ Len(ms) \in Nat /\ DOMAIN ms = 1 .. Len(ms)
           /\ \A i \in 1 .. Len(ms) : i \in Nat /\ ms[i] \in ChatMessages
<1>1. Len(ms) \in Nat /\ DOMAIN ms = 1 .. Len(ms)
  BY LenProperties
<1>. QED  BY <1>1, ElementOfSeq

LEMMA OneMore ==
    ASSUME NEW ms \in Seq(ChatMessages), NEW m \in ChatMessages
    PROVE  LET new == Append(ms, m) IN
           /\ new \in Seq(ChatMessages) /\ Len(new) = Len(ms) + 1 /\ DOMAIN new = 1 .. Len(ms) + 1
           /\ \A i \in 1 .. Len(ms) : new[i] = ms[i]
           /\ new[Len(ms) + 1] = m
<1>1. Append(ms, m) \in Seq(ChatMessages) /\ Len(Append(ms, m)) = Len(ms) + 1
  BY AppendProperties
<1>2. DOMAIN Append(ms, m) = 1 .. Len(ms) + 1
  BY <1>1, LenProperties
<1>. QED  BY <1>1, <1>2, AppendProperties

\* Each message of the longer sequence is an old one or the last.
LEMMA OldOrLast ==
    ASSUME NEW ms \in Seq(ChatMessages), NEW m \in ChatMessages, NEW new, new = Append(ms, m)
    PROVE  \E last \in Nat :
               /\ \A i \in DOMAIN new : i \in Nat /\ (i = last \/ (i \in DOMAIN ms /\ i < last))
               /\ \A i \in DOMAIN ms : i \in DOMAIN new /\ i \in Nat /\ i < last /\ new[i] = ms[i]
               /\ last \in DOMAIN new /\ last \notin DOMAIN ms /\ new[last] = m
<1>. DEFINE n == Len(ms)
<1>1. n \in Nat /\ DOMAIN ms = 1 .. n /\ DOMAIN new = 1 .. n + 1
  BY MessagesHave, OneMore
<1>2. new[n + 1] = m /\ \A i \in 1 .. n : new[i] = ms[i]
  BY OneMore
<1>. HIDE DEF n
<1>3. n + 1 \in Nat /\ n + 1 \in 1 .. n + 1 /\ n + 1 \notin 1 .. n
  BY <1>1
<1>4. \A i \in 1 .. n + 1 : i \in Nat /\ (i = n + 1 \/ (i \in 1 .. n /\ i < n + 1))
  BY <1>1
<1>5. \A i \in 1 .. n : i \in 1 .. n + 1 /\ i \in Nat /\ i < n + 1
  BY <1>1
<1>. DEFINE last == n + 1
<1>6. /\ last \in Nat
      /\ \A i \in DOMAIN new : i \in Nat /\ (i = last \/ (i \in DOMAIN ms /\ i < last))
      /\ \A i \in DOMAIN ms : i \in DOMAIN new /\ i \in Nat /\ i < last /\ new[i] = ms[i]
      /\ last \in DOMAIN new /\ last \notin DOMAIN ms /\ new[last] = m
  BY <1>1, <1>2, <1>3, <1>4, <1>5
<1>. HIDE DEF last
<1>. QED  BY <1>6

\* The places of the told messages can be counted.
LEMMA CountTold ==
    ASSUME NEW ms \in Seq(ChatMessages), NEW c
    PROVE  /\ IsFiniteSet(ToldIn(ms, c)) /\ Cardinality(ToldIn(ms, c)) \in Nat
           /\ ToldIn(ms, c) \subseteq 1 .. Len(ms)
           /\ \A i \in ToldIn(ms, c) :
                  Cardinality(ToldIn(ms, c) \cap 1 .. i) \in 1 .. Cardinality(ToldIn(ms, c))
<1>. DEFINE T == ToldIn(ms, c)
<1>1. Len(ms) \in Nat
  BY MessagesHave
<1>2. T \subseteq 1 .. Len(ms)
  BY DEF ToldIn
<1>3. IsFiniteSet(1 .. Len(ms))
  BY <1>1, FS_Interval
<1>4. IsFiniteSet(T) /\ Cardinality(T) \in Nat
  BY <1>2, <1>3, FS_Subset, FS_CardinalityType
<1>5. ASSUME NEW i \in T
      PROVE  Cardinality(T \cap 1 .. i) \in 1 .. Cardinality(T)
  <2>. DEFINE U == T \cap 1 .. i
  <2>1. U \subseteq T /\ i \in U
    BY <1>1, <1>2
  <2>. HIDE DEF U, T
  <2>2. IsFiniteSet(U) /\ Cardinality(U) \in Nat /\ Cardinality(U) <= Cardinality(T)
    BY <1>4, <2>1, FS_Subset, FS_CardinalityType
  <2>3. Cardinality(U) # 0
    BY <2>1, <2>2, FS_EmptySet
  <2>4. Cardinality(U) \in 1 .. Cardinality(T)
    BY <1>4, <2>2, <2>3
  <2>. QED  BY <2>4 DEF U
<1>. QED  BY <1>2, <1>4, <1>5

\* A message that is not of the conversation, is the view's own, or is shown
\* already, adds nothing.
LEMMA NothingAdded ==
    ASSUME NEW ms \in Seq(ChatMessages), NEW m \in ChatMessages, NEW c, NEW context, ShowsAll(ms, c, context),
           m.conversation # c \/ m.own \/ \E i \in 1 .. Len(ms) : ms[i] = m
    PROVE  ShowsAll(Append(ms, m), c, context)
<1>. DEFINE new == Append(ms, m)
            n == Len(ms)
            Is(i) == /\ ms[i].conversation = c /\ ~ ms[i].own /\ \A j \in 1 .. i - 1 : ms[j] # ms[i]
<1>1. /\ n \in Nat /\ Len(new) = n + 1
      /\ \A i \in 1 .. n : new[i] = ms[i]
      /\ new[n + 1] = m
  BY MessagesHave, OneMore
<1>2. m.conversation # c \/ m.own \/ \E i \in 1 .. n : ms[i] = m
  OBVIOUS
<1>. HIDE DEF new, n
<1>3. n + 1 \notin ToldIn(new, c)
  <2>1. SUFFICES ASSUME n + 1 \in ToldIn(new, c)
                 PROVE  FALSE
    OBVIOUS
  <2>2. m.conversation = c /\ ~ m.own /\ \A j \in 1 .. n + 1 - 1 : new[j] # m
    BY <1>1, <2>1 DEF ToldIn
  <2>3. \A j \in 1 .. n : j \in 1 .. n + 1 - 1
    BY <1>1
  <2>. QED  BY <1>1, <1>2, <2>2, <2>3
<1>4. \A i \in 1 .. n : i \in ToldIn(new, c) <=> i \in ToldIn(ms, c)
  <2>1. ASSUME NEW i \in 1 .. n
        PROVE  i \in ToldIn(new, c) <=> i \in ToldIn(ms, c)
    <3>1. new[i] = ms[i] /\ \A j \in 1 .. i - 1 : new[j] = ms[j]
      BY <1>1
    <3>2. i \in 1 .. Len(new) /\ i \in 1 .. Len(ms)
      BY <1>1 DEF n
    <3>. QED  BY <3>1, <3>2 DEF ToldIn
  <2>. QED  BY <2>1
<1>5. ToldIn(ms, c) \subseteq 1 .. n /\ ToldIn(new, c) \subseteq 1 .. n + 1
  BY <1>1 DEF ToldIn, n
<1>6. \A i \in 1 .. n + 1 : i \in 1 .. n \/ i = n + 1
  BY <1>1
<1>7. ToldIn(new, c) = ToldIn(ms, c)
  BY <1>3, <1>4, <1>5, <1>6
<1>. QED  BY <1>1, <1>5, <1>7 DEF ShowsAll, new

\* A new one is the next of the conversation.
LEMMA OneAdded ==
    ASSUME NEW ms \in Seq(ChatMessages), NEW m \in ChatMessages, NEW c, NEW context \in Seq(ChatMessages),
           ShowsAll(ms, c, context),
           m.conversation = c, ~ m.own, \A i \in 1 .. Len(ms) : ms[i] # m
    PROVE  ShowsAll(Append(ms, m), c, Append(context, m))
<1>. DEFINE new == Append(ms, m)
            n == Len(ms)
            T == ToldIn(ms, c)
            U == ToldIn(new, c)
            longer == Append(context, m)
<1>1. /\ n \in Nat /\ Len(new) = n + 1
      /\ \A i \in 1 .. n : new[i] = ms[i]
      /\ new[n + 1] = m
  BY MessagesHave, OneMore
<1>2. /\ Len(context) \in Nat /\ Len(longer) = Len(context) + 1 /\ longer[Len(context) + 1] = m
      /\ \A i \in 1 .. Len(context) : longer[i] = context[i]
  BY MessagesHave, OneMore
<1>3. /\ IsFiniteSet(T) /\ T \subseteq 1 .. n /\ Cardinality(T) = Len(context)
      /\ \A i \in T : Cardinality(T \cap 1 .. i) \in 1 .. Len(context) /\ context[Cardinality(T \cap 1 .. i)] = ms[i]
  BY CountTold DEF ShowsAll
<1>. HIDE DEF new, longer
<1>4. n + 1 \in U
  <2>1. \A j \in 1 .. n + 1 - 1 : j \in 1 .. n
    BY <1>1
  <2>2. \A j \in 1 .. n + 1 - 1 : new[j] # m
    BY <1>1, <2>1
  <2>3. n + 1 \in 1 .. Len(new)
    BY <1>1
  <2>. QED  BY <1>1, <2>2, <2>3 DEF ToldIn
<1>5. \A i \in 1 .. n : i \in U <=> i \in T
  <2>1. ASSUME NEW i \in 1 .. n
        PROVE  i \in U <=> i \in T
    <3>1. new[i] = ms[i] /\ \A j \in 1 .. i - 1 : new[j] = ms[j]
      BY <1>1
    <3>2. i \in 1 .. Len(new) /\ i \in 1 .. Len(ms)
      BY <1>1 DEF n
    <3>. QED  BY <3>1, <3>2 DEF ToldIn
  <2>. QED  BY <2>1
<1>6. U \subseteq 1 .. n + 1
  BY <1>1 DEF ToldIn
<1>. HIDE DEF T, U, n
<1>7. (\A i \in 1 .. n + 1 : i \in 1 .. n \/ i = n + 1) /\ n + 1 \notin 1 .. n
  BY <1>1
<1>8. U = T \cup {n + 1} /\ n + 1 \notin T
  BY <1>3, <1>4, <1>5, <1>6, <1>7
<1>9. Cardinality(U) = Len(context) + 1
  <2>1. Cardinality(T \cup {n + 1}) = Cardinality(T) + 1
    BY <1>3, <1>8, FS_AddElement
  <2>. QED  BY <1>3, <1>8, <2>1
<1>10. ASSUME NEW i \in U
       PROVE  longer[Cardinality(U \cap 1 .. i)] = new[i]
  <2>1. CASE i = n + 1
    <3>1. U \cap 1 .. i = U
      BY <1>6, <2>1
    <3>. QED  BY <1>1, <1>2, <1>9, <2>1, <3>1
  <2>2. CASE i # n + 1
    <3>1. i \in T /\ i \in 1 .. n
      BY <1>3, <1>8, <2>2
    <3>2. n + 1 \notin 1 .. i
      BY <1>1, <3>1
    <3>3. U \cap 1 .. i = T \cap 1 .. i
      BY <1>8, <3>2
    <3>. QED  BY <1>1, <1>2, <1>3, <3>1, <3>3
  <2>. QED  BY <2>1, <2>2
<1>11. Cardinality(U) = Len(longer)
  BY <1>2, <1>9
<1>. QED  BY <1>10, <1>11 DEF ShowsAll, new, longer, U

\* A conversation shows all of itself: its messages are told apart.
LEMMA ShowsItself ==
    ASSUME NEW context \in Seq(ChatMessages), NEW c, InOrder(context),
           \A i \in DOMAIN context : context[i].conversation = c /\ ~ context[i].own
    PROVE  ShowsAll(context, c, context)
<1>. DEFINE n == Len(context)
<1>1. n \in Nat /\ DOMAIN context = 1 .. n
  BY MessagesHave
<1>2. \A i, j \in 1 .. n : context[i] = context[j] => i = j
  BY <1>1 DEF InOrder
<1>3. ASSUME NEW i \in 1 .. n
      PROVE  i \in ToldIn(context, c)
  <2>1. \A j \in 1 .. i - 1 : j \in 1 .. n /\ j # i
    BY <1>1
  <2>. QED  BY <1>1, <1>2, <2>1 DEF ToldIn
<1>4. ToldIn(context, c) = 1 .. n
  <2>1. ToldIn(context, c) \subseteq 1 .. n
    BY DEF ToldIn
  <2>. QED  BY <1>3, <2>1
<1>. HIDE DEF n
<1>5. Cardinality(1 .. n) = n
  BY <1>1, FS_Interval
<1>6. ASSUME NEW i \in 1 .. n
      PROVE  Cardinality(1 .. n \cap 1 .. i) = i
  <2>1. (1 .. n) \cap (1 .. i) = 1 .. i
    BY <1>1
  <2>2. Cardinality(1 .. i) = i
    BY <1>1, FS_Interval
  <2>. QED  BY <2>1, <2>2
<1>. QED  BY <1>4, <1>5, <1>6 DEF ShowsAll, n

\* What is in the longer sequence.
LEMMA OneMoreElement ==
    ASSUME NEW ms \in Seq(ChatMessages), NEW m \in ChatMessages
    PROVE  /\ Append(ms, m) \in Seq(ChatMessages)
           /\ Elements(Append(ms, m)) = Elements(ms) \cup {m}
           /\ \A x \in Elements(ms) : \E i \in 1 .. Len(ms) : ms[i] = x
           /\ \A i \in 1 .. Len(ms) : ms[i] \in Elements(ms)
<1>. DEFINE new == Append(ms, m)
<1>1. PICK last \in Nat :
          /\ \A i \in DOMAIN new : i \in Nat /\ (i = last \/ (i \in DOMAIN ms /\ i < last))
          /\ \A i \in DOMAIN ms : i \in DOMAIN new /\ i \in Nat /\ i < last /\ new[i] = ms[i]
          /\ last \in DOMAIN new /\ last \notin DOMAIN ms /\ new[last] = m
  BY OldOrLast
<1>2. new \in Seq(ChatMessages) /\ DOMAIN ms = 1 .. Len(ms)
  BY OneMore, MessagesHave
<1>. HIDE DEF new
<1>3. Elements(new) = Elements(ms) \cup {m}
  <2>1. \A x \in Elements(new) : x \in Elements(ms) \cup {m}
    BY <1>1 DEF Elements
  <2>2. \A x \in Elements(ms) : x \in Elements(new)
    BY <1>1 DEF Elements
  <2>3. m \in Elements(new)
    BY <1>1 DEF Elements
  <2>. QED  BY <2>1, <2>2, <2>3
<1>4. /\ \A x \in Elements(ms) : \E i \in 1 .. Len(ms) : ms[i] = x
      /\ \A i \in 1 .. Len(ms) : ms[i] \in Elements(ms)
  BY <1>2 DEF Elements
<1>. QED  BY <1>2, <1>3, <1>4 DEF new

\* What a view may show before it hears of message m, which it may have sent.
Sought(old, m, o) == {old, Append(old, m), Append(old, o), Append(Append(old, m), o)}

LEMMA StillShows ==
    ASSUME NEW ms \in Seq(ChatMessages), NEW m \in ChatMessages, NEW c, NEW context, ShowsAll(ms, c, context),
           m.conversation # c \/ m.own \/ m \in Elements(ms)
    PROVE  ShowsAll(Append(ms, m), c, context)
<1>1. m.conversation # c \/ m.own \/ \E i \in 1 .. Len(ms) : ms[i] = m
  BY OneMoreElement
<1>. QED  BY <1>1, NothingAdded

LEMMA ShowsOneMore ==
    ASSUME NEW ms \in Seq(ChatMessages), NEW m \in ChatMessages, NEW c, NEW context \in Seq(ChatMessages),
           ShowsAll(ms, c, context), m.conversation = c, ~ m.own, m \notin Elements(ms)
    PROVE  ShowsAll(Append(ms, m), c, Append(context, m))
<1>1. \A i \in 1 .. Len(ms) : ms[i] # m
  BY OneMoreElement
<1>. QED  BY <1>1, OneAdded

\* A view that hears of a message adds it to the conversation it shows.
LEMMA HeardShown ==
    ASSUME NEW old \in Seq(ChatMessages), NEW m \in ChatMessages, NEW o \in ChatMessages,
           ~ m.own, o.own, m \notin Elements(old), NEW before \in Sought(old, m, o)
    PROVE  /\ before \in Seq(ChatMessages) /\ Append(before, m) \in Seq(ChatMessages)
           /\ Elements(before) \subseteq Elements(old) \cup {m, o}
           /\ Elements(Append(before, m)) \subseteq Elements(old) \cup {m, o}
           /\ \A c : \A context \in Seq(ChatMessages) :
                  ShowsAll(old, c, context) =>
                      /\ m.conversation # c => ShowsAll(Append(before, m), c, context)
                      /\ m.conversation = c => ShowsAll(Append(before, m), c, Append(context, m))
<1>. DEFINE a == Append(old, m)
            b == Append(old, o)
            d == Append(a, o)
<1>0. m # o
  OBVIOUS
<1>1. a \in Seq(ChatMessages) /\ b \in Seq(ChatMessages)
  BY OneMoreElement
<1>2. d \in Seq(ChatMessages)
  BY <1>1, OneMoreElement
<1>3. Elements(a) = Elements(old) \cup {m} /\ Elements(b) = Elements(old) \cup {o}
  BY OneMoreElement
<1>4. Elements(d) = Elements(a) \cup {o}
  BY <1>1, OneMoreElement
<1>5. before = old \/ before = a \/ before = b \/ before = d
  BY DEF Sought
<1>. HIDE DEF a, b, d
<1>6. before \in Seq(ChatMessages) /\ Elements(before) \subseteq Elements(old) \cup {m, o}
  BY <1>1, <1>2, <1>3, <1>4, <1>5
<1>7. Append(before, m) \in Seq(ChatMessages) /\ Elements(Append(before, m)) = Elements(before) \cup {m}
  BY <1>6, OneMoreElement
<1>8. ASSUME NEW c, NEW context \in Seq(ChatMessages), ShowsAll(old, c, context), m.conversation # c
      PROVE  ShowsAll(Append(before, m), c, context)
  <2>1. ShowsAll(a, c, context) /\ ShowsAll(b, c, context)
    BY <1>8, StillShows DEF a, b
  <2>2. ShowsAll(d, c, context)
    BY <1>1, <2>1, StillShows DEF d
  <2>3. ShowsAll(before, c, context)
    BY <1>5, <1>8, <2>1, <2>2
  <2>. QED  BY <1>6, <1>8, <2>3, StillShows
<1>9. ASSUME NEW c, NEW context \in Seq(ChatMessages), ShowsAll(old, c, context), m.conversation = c
      PROVE  ShowsAll(Append(before, m), c, Append(context, m))
  <2>1. ShowsAll(b, c, context)
    BY <1>9, StillShows DEF b
  <2>2. ShowsAll(a, c, Append(context, m))
    BY <1>9, ShowsOneMore DEF a
  <2>3. ShowsAll(d, c, Append(context, m))
    BY <1>1, <2>2, StillShows DEF d
  <2>4. CASE before = old \/ before = b
    <3>1. m \notin Elements(before) /\ ShowsAll(before, c, context)
      BY <1>0, <1>3, <1>9, <2>1, <2>4
    <3>. QED  BY <1>6, <1>9, <3>1, ShowsOneMore
  <2>5. CASE before = a \/ before = d
    <3>1. m \in Elements(before) /\ ShowsAll(before, c, Append(context, m))
      BY <1>3, <1>4, <2>2, <2>3, <2>5
    <3>. QED  BY <1>6, <3>1, StillShows
  <2>. QED  BY <1>5, <2>4, <2>5
<1>. QED  BY <1>6, <1>7, <1>8, <1>9

\* One more message in a conversation: it is the first of its sending, or an
\* answer to the message there.
LEMMA ContextGrows ==
    ASSUME NEW context \in Seq(ChatMessages), NEW m \in ChatMessages, InOrder(context),
           \A x \in Elements(context) : x.send = m.send => m.by = "planner" /\ x.by = "user"
    PROVE  /\ Append(context, m) \in Seq(ChatMessages) /\ InOrder(Append(context, m))
           /\ Elements(Append(context, m)) = Elements(context) \cup {m}
           /\ \A s : HoldsAnswer(context, s) => HoldsAnswer(Append(context, m), s)
           /\ m.by = "planner" => HoldsAnswer(Append(context, m), m.send)
<1>. DEFINE new == Append(context, m)
<1>1. PICK last \in Nat :
          /\ \A i \in DOMAIN new : i \in Nat /\ (i = last \/ (i \in DOMAIN context /\ i < last))
          /\ \A i \in DOMAIN context : i \in DOMAIN new /\ i \in Nat /\ i < last /\ new[i] = context[i]
          /\ last \in DOMAIN new /\ last \notin DOMAIN context /\ new[last] = m
  BY OldOrLast
<1>2. new \in Seq(ChatMessages) /\ Elements(new) = Elements(context) \cup {m}
  BY OneMoreElement
<1>3. \A i \in DOMAIN context : context[i].send = m.send => m.by = "planner" /\ context[i].by = "user"
  BY DEF Elements
<1>. HIDE DEF new
<1>4. ASSUME NEW i \in DOMAIN new, NEW j \in DOMAIN new, new[i].send = new[j].send
      PROVE  /\ new[i].by = new[j].by => i = j
             /\ new[i].by = "user" /\ new[j].by = "planner" => i < j
  <2>1. CASE i # last /\ j # last
    <3>1. i \in DOMAIN context /\ j \in DOMAIN context /\ new[i] = context[i] /\ new[j] = context[j]
      BY <1>1, <2>1
    <3>. QED  BY <1>4, <3>1 DEF InOrder
  <2>2. CASE i = last /\ j # last
    <3>1. j \in DOMAIN context /\ new[j] = context[j] /\ new[i] = m
      BY <1>1, <2>2
    <3>. QED  BY <1>3, <1>4, <3>1
  <2>3. CASE i # last /\ j = last
    <3>1. i \in DOMAIN context /\ new[i] = context[i] /\ new[j] = m /\ i < last
      BY <1>1, <2>3
    <3>. QED  BY <1>3, <1>4, <2>3, <3>1
  <2>4. CASE i = last /\ j = last
    <3>1. new[i].by = new[j].by /\ i = j
      BY <2>4
    <3>. QED  BY <3>1
  <2>. QED  BY <2>1, <2>2, <2>3, <2>4
<1>5. InOrder(new)
  BY <1>4 DEF InOrder
<1>6. /\ \A s : HoldsAnswer(context, s) => HoldsAnswer(new, s)
      /\ m.by = "planner" => HoldsAnswer(new, m.send)
  BY <1>1 DEF HoldsAnswer
<1>. QED  BY <1>2, <1>5, <1>6 DEF new

\* A message joins conversation c and every mounted view hears of it.
LEMMA MessageKept ==
    ASSUME ConversationInv, NEW m \in ChatMessages, NEW o \in ChatMessages, NEW c \in Conversations,
           m.conversation = c, ~ m.own, o.own, o.by = "user", o.send = m.send, c <= newest,
           \A w \in Views : m \notin Elements(shown[w]),
           \A x \in Elements(contexts[c]) : x.send = m.send => m.by = "planner" /\ x.by = "user",
           contexts' = [contexts EXCEPT ![c] = Append(@, m)],
           shown' = [w \in Views |-> shown'[w]],
           \A w \in Views : \E before \in Sought(shown[w], m, o) :
               shown'[w] = IF current[w] = 0 THEN before ELSE Append(before, m),
           current' = current, selected' = selected, newest' = newest,
           sends \in Nat, sends' \in Nat, sends <= sends',
           \A s \in Sends : s <= sends =>
               /\ answers'[s].conversation = answers[s].conversation
               /\ answers[s].state = "complete" => answers'[s].state = "complete",
           \A s \in Sends : answers'[s].state = "complete" =>
               \/ s <= sends /\ answers[s].state = "complete"
               \/ s = m.send /\ m.by = "planner",
           Came(m, sends', answers'), m.by = "planner" => answers'[m.send].conversation = c
    PROVE  /\ contexts' \in [Conversations -> Seq(ChatMessages)] /\ shown' \in [Views -> Seq(ChatMessages)]
           /\ AllCame' /\ Arrived' /\ \A d \in Conversations : ContextOK(d)'
           /\ \A w \in Views : ShownOK(w)'
<1>1. /\ contexts \in [Conversations -> Seq(ChatMessages)]
      /\ \A w \in Views : shown[w] \in Seq(ChatMessages) /\ current[w] \in 0 .. newest
      /\ newest \in 0 .. MaxConversations
      /\ \A s \in Sends : answers[s].conversation \in 0 .. MaxConversations
  BY DEF ConversationInv, ConversationTyped, AnswerStates
<1>2. \A d \in Conversations : ContextOK(d) /\ contexts[d] \in Seq(ChatMessages)
  BY <1>1 DEF ConversationInv
<1>. DEFINE longer == Append(contexts[c], m)
<1>3. /\ longer \in Seq(ChatMessages) /\ InOrder(longer)
      /\ Elements(longer) = Elements(contexts[c]) \cup {m}
      /\ \A s : HoldsAnswer(contexts[c], s) => HoldsAnswer(longer, s)
      /\ m.by = "planner" => HoldsAnswer(longer, m.send)
  BY <1>2, ContextGrows DEF ContextOK
<1>4. contexts'[c] = longer /\ \A d \in Conversations : d # c => contexts'[d] = contexts[d]
  BY <1>1
<1>5. contexts' \in [Conversations -> Seq(ChatMessages)]
  BY <1>1, <1>3
<1>. HIDE DEF longer
<1>6. ASSUME NEW x \in ChatMessages, Came(x, sends, answers)
      PROVE  Came(x, sends', answers')
  <2>1. x.send \in Sends /\ x.send <= sends
    BY <1>6 DEF Came, ChatMessages
  <2>2. x.send <= sends'
    BY <2>1 DEF Sends
  <2>. QED  BY <1>6, <2>1, <2>2 DEF Came
<1>7. ASSUME NEW d \in Conversations, NEW x \in ChatMessages, Came(x, sends, answers), BelongsTo(x, d, answers)
      PROVE  BelongsTo(x, d, answers')
  <2>1. x.send \in Sends /\ x.send <= sends
    BY <1>7 DEF Came, ChatMessages
  <2>. QED  BY <1>7, <2>1 DEF BelongsTo
<1>8. \A ms \in Seq(ChatMessages) : \A x \in Elements(ms) : x \in ChatMessages
  BY MessagesHave DEF Elements
<1>9. ASSUME NEW d \in Conversations
      PROVE  ContextOK(d)'
  <2>1. ContextOK(d) /\ \A x \in Elements(contexts[d]) : x \in ChatMessages
    BY <1>2, <1>8
  <2>2. \A x \in Elements(contexts[d]) : Came(x, sends', answers') /\ BelongsTo(x, d, answers')
    BY <1>6, <1>7, <2>1 DEF ContextOK
  <2>3. CASE d = c
    <3>1. Came(m, sends', answers') /\ BelongsTo(m, c, answers')
      BY DEF BelongsTo
    <3>2. \A x \in Elements(longer) : Came(x, sends', answers') /\ BelongsTo(x, c, answers')
      BY <1>3, <2>2, <2>3, <3>1
    <3>3. ~ (c > newest')
      BY <1>1 DEF Conversations
    <3>. QED  BY <1>3, <1>4, <2>3, <3>2, <3>3 DEF ContextOK
  <2>4. CASE d # c
    BY <1>4, <2>1, <2>2, <2>4 DEF ContextOK
  <2>. QED  BY <2>3, <2>4
<1>10. Arrived'
  <2>1. SUFFICES ASSUME NEW s \in Sends, answers'[s].state = "complete"
                 PROVE  HoldsAnswer(contexts'[answers'[s].conversation], s)
    BY DEF Arrived
  <2>2. CASE s <= sends /\ answers[s].state = "complete"
    <3>1. /\ HoldsAnswer(contexts[answers[s].conversation], s) /\ answers'[s].conversation = answers[s].conversation
          /\ answers[s].conversation \in Conversations
      BY <1>1, <2>2 DEF ConversationInv, Arrived, AnswersAreAwaited, Conversations
    <3>. QED  BY <1>3, <1>4, <3>1
  <2>3. CASE s = m.send /\ m.by = "planner"
    BY <1>3, <1>4, <2>3
  <2>. QED  BY <2>1, <2>2, <2>3
<1>11. ASSUME NEW w \in Views
       PROVE  /\ shown'[w] \in Seq(ChatMessages)
              /\ Elements(shown'[w]) \subseteq Elements(shown[w]) \cup {m, o}
              /\ current[w] # 0 =>
                     \A d : \A context \in Seq(ChatMessages) :
                         ShowsAll(shown[w], d, context) =>
                             /\ c # d => ShowsAll(shown'[w], d, context)
                             /\ c = d => ShowsAll(shown'[w], d, Append(context, m))
  <2>1. PICK before \in Sought(shown[w], m, o) :
            shown'[w] = IF current[w] = 0 THEN before ELSE Append(before, m)
    OBVIOUS
  <2>2. shown[w] \in Seq(ChatMessages) /\ m \notin Elements(shown[w])
    BY <1>1
  <2>3. /\ before \in Seq(ChatMessages) /\ Append(before, m) \in Seq(ChatMessages)
        /\ Elements(before) \subseteq Elements(shown[w]) \cup {m, o}
        /\ Elements(Append(before, m)) \subseteq Elements(shown[w]) \cup {m, o}
        /\ \A d : \A context \in Seq(ChatMessages) :
               ShowsAll(shown[w], d, context) =>
                   /\ m.conversation # d => ShowsAll(Append(before, m), d, context)
                   /\ m.conversation = d => ShowsAll(Append(before, m), d, Append(context, m))
    BY <2>2, HeardShown
  <2>. QED  BY <2>1, <2>3
<1>12. shown' \in [Views -> Seq(ChatMessages)]
  BY <1>11
<1>13. AllCame'
  <2>1. Came(o, sends', answers')
    BY DEF Came
  <2>2. ASSUME NEW w \in Views, NEW x \in Elements(shown'[w])
        PROVE  Came(x, sends', answers')
    <3>1. x \in Elements(shown[w]) \/ x = m \/ x = o
      BY <1>11
    <3>2. x \in Elements(shown[w]) => Came(x, sends, answers) /\ x \in ChatMessages
      BY <1>1, <1>8 DEF ConversationInv, AllCame
    <3>. QED  BY <1>6, <2>1, <3>1, <3>2
  <2>. QED  BY <2>2 DEF AllCame
<1>14. ASSUME NEW w \in Views
       PROVE  ShownOK(w)'
  <2>1. SUFFICES ASSUME current[w] # 0, ~ selected[w]
                 PROVE  ShowsAll(shown'[w], current[w], contexts'[current[w]])
    BY DEF ShownOK
  <2>2. ShowsAll(shown[w], current[w], contexts[current[w]])
    BY <2>1 DEF ConversationInv, ShownOK
  <2>3. current[w] \in Conversations
    BY <1>1, <2>1, ConversationAssumption DEF Conversations
  <2>4. contexts[current[w]] \in Seq(ChatMessages)
    BY <1>2, <2>3
  <2>5. /\ c # current[w] => ShowsAll(shown'[w], current[w], contexts[current[w]])
        /\ c = current[w] => ShowsAll(shown'[w], current[w], Append(contexts[current[w]], m))
    BY <1>11, <2>1, <2>2, <2>4
  <2>. QED  BY <1>4, <2>3, <2>5 DEF longer
<1>. QED  BY <1>5, <1>9, <1>10, <1>12, <1>13, <1>14

\* What is known of the views and the answers.
LEMMA OfConversations ==
    ASSUME ConversationInv
    PROVE  /\ sends \in Nat /\ sends <= MaxSends /\ newest \in Nat /\ newest <= MaxConversations
           /\ Recorded \in Nat /\ Recorded <= newest
           /\ MaxSends \in Nat /\ MaxConversations \in Nat /\ MaxChunks \in Nat
           /\ \A v \in Views : /\ current[v] \in 0 .. newest /\ shown[v] \in Seq(ChatMessages)
                               /\ sending[v] \in 0 .. sends /\ active[v] \in BOOLEAN
                               /\ streaming[v] \in [send : Nat, chunks : Nat] /\ selected[v] \in BOOLEAN
                               /\ PartialOK(v) /\ ShownOK(v)
           /\ \A c \in Conversations : ContextOK(c) /\ contexts[c] \in Seq(ChatMessages)
           /\ \A s \in Sends : answers[s] \in AnswerStates
<1>1. /\ MaxSends \in Nat /\ MaxConversations \in Nat /\ MaxChunks \in Nat /\ Recorded \in 0 .. MaxConversations
  BY ConversationAssumption
<1>2. ConversationTyped
  BY DEF ConversationInv
<1>. QED  BY <1>1, <1>2 DEF ConversationInv, ConversationTyped

LEMMA SendKeeps ==
    ASSUME ConversationInv, NEW v \in Views, Send(v)
    PROVE  ConversationInv'
<1>1. /\ ConversationTyped /\ AnswersAreAwaited /\ AllCame
      /\ sends \in Nat /\ MaxSends \in Nat /\ MaxConversations \in Nat /\ newest \in 0 .. MaxConversations
  BY OfConversations DEF ConversationInv
<1>. DEFINE n == sends + 1
            chosen == current[v]
<1>2. PICK s : s = n
  OBVIOUS
<1>3. PICK c : c = chosen
  OBVIOUS
<1>. DEFINE mine == Message(c, s, "user", 0, TRUE)
            heard == Message(c, s, "user", 0, FALSE)
<1>4. /\ current[v] # 0 /\ sending[v] = 0 /\ sends < MaxSends /\ sends' = s
      /\ contexts' = [contexts EXCEPT ![c] = Append(@, heard)]
      /\ Heard([Before(heard) EXCEPT ![v] = Append(@, mine)], heard)
      /\ answers' = [answers EXCEPT ![s] = [state |-> "streaming", conversation |-> c, chunks |-> 0]]
      /\ sending' = [sending EXCEPT ![v] = s] /\ active' = [active EXCEPT ![v] = TRUE]
      /\ newest' = newest /\ current' = current /\ streaming' = streaming /\ selected' = selected
  BY <1>2, <1>3 DEF Send
<1>5. s \in Sends /\ s = sends + 1 /\ s # 0 /\ s \in Nat
  BY <1>1, <1>2, <1>4 DEF Sends
<1>6. c \in Conversations /\ c \in 1 .. newest /\ c <= newest /\ current[v] = c
  <2>1. current[v] \in 0 .. newest
    BY OfConversations
  <2>. QED  BY <1>1, <1>3, <1>4, <2>1 DEF Conversations
<1>7. /\ heard \in ChatMessages /\ mine \in ChatMessages
      /\ heard.conversation = c /\ ~ heard.own /\ mine.own /\ mine.by = "user" /\ heard.by = "user"
      /\ heard.send = s /\ mine.send = s
  BY <1>5, <1>6 DEF ChatMessages, Message
<1>8. \A x : Came(x, sends, answers) /\ x \in ChatMessages => x.send # s
  BY <1>1, <1>5 DEF Came, ChatMessages, Sends
<1>9. \A ms \in Seq(ChatMessages) : \A x \in Elements(ms) : x \in ChatMessages
  BY MessagesHave DEF Elements
<1>10. \A w \in Views : heard \notin Elements(shown[w])
  <2>1. \A w \in Views : shown[w] \in Seq(ChatMessages)
    BY OfConversations
  <2>. HIDE DEF heard
  <2>. QED  BY <1>1, <1>7, <1>8, <1>9, <2>1 DEF AllCame
<1>11. \A x \in Elements(contexts[c]) : x.send # s
  <2>1. ContextOK(c) /\ contexts[c] \in Seq(ChatMessages)
    BY <1>6, OfConversations
  <2>. QED  BY <1>8, <1>9, <2>1 DEF ContextOK
<1>12. /\ shown' = [w \in Views |-> shown'[w]] /\ loaded' = [w \in Views |-> loaded'[w]]
       /\ \A w \in Views : \E before \in Sought(shown[w], heard, mine) :
              shown'[w] = IF current[w] = 0 THEN before ELSE Append(before, heard)
  <2>. DEFINE first == Before(heard)
              before == [first EXCEPT ![v] = Append(@, mine)]
  <2>1. /\ shown' = [w \in Views |-> IF current[w] = 0 THEN before[w] ELSE Append(before[w], heard)]
        /\ loaded' = [w \in Views |-> 0]
    BY <1>4 DEF Heard
  <2>2. /\ first = [w \in Views |-> first[w]]
        /\ \A w \in Views : first[w] \in {shown[w], Append(shown[w], heard)}
    BY DEF Before
  <2>. HIDE DEF first, heard, mine
  <2>3. \A w \in Views : before[w] = IF w = v THEN Append(first[w], mine) ELSE first[w]
    BY <2>2
  <2>. HIDE DEF before
  <2>4. \A w \in Views : before[w] \in Sought(shown[w], heard, mine)
    BY <2>2, <2>3 DEF Sought
  <2>. QED  BY <2>1, <2>4
<1>. HIDE DEF heard, mine
<1>13. /\ answers'[s] = [state |-> "streaming", conversation |-> c, chunks |-> 0]
       /\ \A t \in Sends : t # s => answers'[t] = answers[t]
       /\ answers' \in [Sends -> AnswerStates]
  BY <1>1, <1>4, <1>5, <1>6 DEF ConversationTyped, Conversations, AnswerStates
<1>14. \A t \in Sends : t <= sends => t # s
  BY <1>1, <1>5
<1>15. /\ \A t \in Sends : t <= sends => /\ answers'[t].conversation = answers[t].conversation
                                         /\ answers[t].state = "complete" => answers'[t].state = "complete"
       /\ \A t \in Sends : answers'[t].state = "complete" => t <= sends /\ answers[t].state = "complete"
  <2>1. \A t \in Sends : answers'[t].state = "complete" => answers[t].state = "complete"
    BY <1>13
  <2>2. \A t \in Sends : answers[t].state = "complete" => t <= sends
    BY <1>1 DEF AnswersAreAwaited, Sends
  <2>. QED  BY <1>13, <1>14, <2>1, <2>2
<1>16. Came(heard, sends', answers')
  BY <1>4, <1>5, <1>7 DEF Came
<1>17. sends' \in Nat /\ sends <= sends'
  BY <1>1, <1>4, <1>5
<1>18. /\ contexts' \in [Conversations -> Seq(ChatMessages)] /\ shown' \in [Views -> Seq(ChatMessages)]
       /\ AllCame' /\ Arrived' /\ \A d \in Conversations : ContextOK(d)'
       /\ \A w \in Views : ShownOK(w)'
  BY <1>1, <1>4, <1>6, <1>7, <1>10, <1>11, <1>12, <1>15, <1>16, <1>17, MessageKept
<1>19. ConversationTyped'
  <2>1. sends' \in 0 .. MaxSends
    BY <1>1, <1>4, <1>5
  <2>2. sending' \in [Views -> 0 .. sends']
    <3>1. \A i \in 0 .. sends : i \in 0 .. sends'
      BY <1>1, <1>17
    <3>2. s \in 0 .. sends'
      BY <1>4, <1>5
    <3>. QED  BY <1>1, <1>4, <3>1, <3>2 DEF ConversationTyped
  <2>. QED  BY <1>1, <1>4, <1>12, <1>13, <1>18, <2>1, <2>2 DEF ConversationTyped
<1>20. /\ sending'[v] = s /\ active'[v] = TRUE
       /\ \A w \in Views : w # v => sending'[w] = sending[w] /\ active'[w] = active[w]
       /\ \A w \in Views : sending[w] \in Nat /\ sending[w] # s
  <2>1. \A w \in Views : sending[w] \in 0 .. sends
    BY OfConversations
  <2>. QED  BY <1>1, <1>4, <1>5, <2>1 DEF ConversationTyped
<1>21. AnswersAreAwaited'
  <2>1. ASSUME NEW t \in Sends
        PROVE  /\ answers'[t].state = "none" <=> t > sends'
               /\ answers'[t].state = "streaming" <=> \E w \in Views : sending'[w] = t
               /\ t <= sends' => answers'[t].conversation \in 1 .. newest'
    <3>1. CASE t = s
      <4>1. ~ (t > sends')
        BY <1>4, <1>5, <3>1
      <4>. QED  BY <1>4, <1>6, <1>13, <1>20, <3>1, <4>1
    <3>2. CASE t # s
      <4>1. (t > sends' <=> t > sends) /\ (t <= sends' <=> t <= sends)
        BY <1>1, <1>4, <1>5, <3>2 DEF Sends
      <4>2. (\E w \in Views : sending'[w] = t) <=> \E w \in Views : sending[w] = t
        <5>1. sending[v] # t /\ sending'[v] # t
          BY <1>4, <1>20, <3>2 DEF Sends
        <5>. QED  BY <1>20, <5>1
      <4>. QED  BY <1>1, <1>4, <1>13, <3>2, <4>1, <4>2 DEF AnswersAreAwaited
    <3>. QED  BY <3>1, <3>2
  <2>2. ASSUME NEW w \in Views, NEW x \in Views, sending'[w] = sending'[x], sending'[w] # 0
        PROVE  w = x
    BY <1>1, <1>20, <2>2 DEF AnswersAreAwaited
  <2>. QED  BY <2>1, <2>2 DEF AnswersAreAwaited
<1>22. ASSUME NEW w \in Views
       PROVE  PartialOK(w)'
  <2>1. PartialOK(w)
    BY OfConversations
  <2>2. streaming[w].send \in 0 .. sends /\ streaming[w].send # s
    BY <1>1, <1>5, <2>1 DEF PartialOK
  <2>3. streaming[w].send \in 0 .. sends'
    BY <1>1, <1>17, <2>2
  <2>4. streaming[w].send # 0 => answers'[streaming[w].send] = answers[streaming[w].send]
    BY <1>1, <1>13, <2>2 DEF Sends, ConversationTyped
  <2>5. w = v => sending[w] = 0
    BY <1>4
  <2>. QED  BY <1>4, <1>5, <1>20, <2>1, <2>3, <2>4, <2>5 DEF PartialOK
<1>. QED  BY <1>18, <1>19, <1>21, <1>22 DEF ConversationInv

LEMMA CompleteKeeps ==
    ASSUME ConversationInv, NEW v \in Views, Complete(v)
    PROVE  ConversationInv'
<1>1. /\ ConversationTyped /\ AnswersAreAwaited /\ AllCame
      /\ sends \in Nat /\ MaxSends \in Nat /\ MaxConversations \in Nat /\ newest \in 0 .. MaxConversations
      /\ sends <= MaxSends
  BY OfConversations DEF ConversationInv
<1>2. PICK s : s = sending[v]
  OBVIOUS
<1>3. PICK c : c = answers[s].conversation
  OBVIOUS
<1>4. PICK heard : heard = Message(c, s, "planner", answers[s].chunks, FALSE)
  OBVIOUS
<1>. DEFINE mine == Message(c, s, "user", 0, TRUE)
<1>5. /\ s # 0 /\ answers[s].state = "streaming"
      /\ contexts' = [contexts EXCEPT ![c] = Append(@, heard)]
      /\ Heard(Before(heard), heard)
      /\ answers' = [answers EXCEPT ![s].state = "complete"]
      /\ sending' = [sending EXCEPT ![v] = 0] /\ active' = [active EXCEPT ![v] = FALSE]
      /\ streaming' = [streaming EXCEPT ![v] = NoStream]
      /\ sends' = sends /\ newest' = newest /\ current' = current /\ selected' = selected
  BY <1>2, <1>3, <1>4 DEF Complete, Streams
<1>6. s \in Sends /\ s <= sends /\ s \in Nat
  <2>1. sending[v] \in 0 .. sends
    BY OfConversations
  <2>. QED  BY <1>1, <1>2, <1>5, <2>1 DEF Sends
<1>7. c \in Conversations /\ c \in 1 .. newest /\ c <= newest
  <2>1. c \in 1 .. newest
    BY <1>1, <1>3, <1>6 DEF AnswersAreAwaited
  <2>. QED  BY <1>1, <2>1 DEF Conversations
<1>8. answers[s] \in AnswerStates
  BY <1>6, OfConversations
<1>9. /\ heard \in ChatMessages /\ mine \in ChatMessages
      /\ heard.conversation = c /\ ~ heard.own /\ mine.own /\ mine.by = "user" /\ heard.by = "planner"
      /\ heard.send = s /\ mine.send = s
  BY <1>4, <1>6, <1>7, <1>8 DEF ChatMessages, Message, AnswerStates
<1>10. \A x : Came(x, sends, answers) /\ x.send = s => x.by # "planner"
  BY <1>5 DEF Came
<1>11. \A ms \in Seq(ChatMessages) : \A x \in Elements(ms) : x \in ChatMessages
  BY MessagesHave DEF Elements
<1>12. \A w \in Views : heard \notin Elements(shown[w])
  BY <1>1, <1>9, <1>10 DEF AllCame
<1>13. \A x \in Elements(contexts[c]) : x.send = s => x.by = "user"
  <2>1. ContextOK(c) /\ contexts[c] \in Seq(ChatMessages)
    BY <1>7, OfConversations
  <2>2. \A x \in Elements(contexts[c]) : x.by \in {"user", "planner"}
    BY <1>11, <2>1 DEF ChatMessages
  <2>. QED  BY <1>10, <2>1, <2>2 DEF ContextOK
<1>14. /\ shown' = [w \in Views |-> shown'[w]] /\ loaded' = [w \in Views |-> loaded'[w]]
       /\ \A w \in Views : \E before \in Sought(shown[w], heard, mine) :
              shown'[w] = IF current[w] = 0 THEN before ELSE Append(before, heard)
  <2>. DEFINE before == Before(heard)
  <2>1. /\ shown' = [w \in Views |-> IF current[w] = 0 THEN before[w] ELSE Append(before[w], heard)]
        /\ loaded' = [w \in Views |-> 0]
    BY <1>5 DEF Heard
  <2>2. \A w \in Views : before[w] \in {shown[w], Append(shown[w], heard)}
    BY DEF Before
  <2>. HIDE DEF before, mine
  <2>3. \A w \in Views : before[w] \in Sought(shown[w], heard, mine)
    BY <2>2 DEF Sought
  <2>. QED  BY <2>1, <2>3
<1>. HIDE DEF mine
<1>15. /\ answers'[s].state = "complete" /\ answers'[s].conversation = c
       /\ \A t \in Sends : t # s => answers'[t] = answers[t]
       /\ answers' \in [Sends -> AnswerStates]
  BY <1>1, <1>3, <1>5, <1>6, <1>8 DEF ConversationTyped, AnswerStates
<1>16. /\ \A t \in Sends : t <= sends => /\ answers'[t].conversation = answers[t].conversation
                                         /\ answers[t].state = "complete" => answers'[t].state = "complete"
       /\ \A t \in Sends : answers'[t].state = "complete" =>
              \/ t <= sends /\ answers[t].state = "complete"
              \/ t = s
  <2>1. \A t \in Sends : answers[t].state = "complete" => t <= sends
    BY <1>1 DEF AnswersAreAwaited, Sends
  <2>. QED  BY <1>3, <1>15, <2>1
<1>17. Came(heard, sends', answers')
  BY <1>5, <1>6, <1>9, <1>15 DEF Came
<1>18. sends' \in Nat /\ sends <= sends'
  BY <1>1, <1>5
<1>19. /\ contexts' \in [Conversations -> Seq(ChatMessages)] /\ shown' \in [Views -> Seq(ChatMessages)]
       /\ AllCame' /\ Arrived' /\ \A d \in Conversations : ContextOK(d)'
       /\ \A w \in Views : ShownOK(w)'
  <2>1. \A x \in Elements(contexts[c]) : x.send = heard.send => heard.by = "planner" /\ x.by = "user"
    BY <1>9, <1>13
  <2>2. \A t \in Sends : answers'[t].state = "complete" =>
            \/ t <= sends /\ answers[t].state = "complete"
            \/ t = heard.send /\ heard.by = "planner"
    BY <1>9, <1>16
  <2>3. heard.by = "planner" => answers'[heard.send].conversation = c
    BY <1>9, <1>15
  <2>. QED  BY <1>1, <1>5, <1>7, <1>9, <1>12, <1>14, <1>16, <1>17, <1>18, <2>1, <2>2, <2>3, MessageKept
<1>20. ConversationTyped'
  <2>1. sending' \in [Views -> 0 .. sends'] /\ active' \in [Views -> BOOLEAN]
    BY <1>1, <1>5 DEF ConversationTyped
  <2>2. streaming' \in [Views -> [send : Nat, chunks : Nat]]
    BY <1>1, <1>5 DEF ConversationTyped, NoStream
  <2>. QED  BY <1>1, <1>5, <1>14, <1>15, <1>19, <2>1, <2>2 DEF ConversationTyped
<1>21. /\ sending'[v] = 0 /\ active'[v] = FALSE /\ streaming'[v] = NoStream
       /\ \A w \in Views : w # v => sending'[w] = sending[w] /\ active'[w] = active[w] /\ streaming'[w] = streaming[w]
  BY <1>1, <1>5 DEF ConversationTyped
<1>22. \A w \in Views : w # v => sending[w] # s
  BY <1>1, <1>2, <1>5 DEF AnswersAreAwaited
<1>23. AnswersAreAwaited'
  <2>1. ASSUME NEW t \in Sends
        PROVE  /\ answers'[t].state = "none" <=> t > sends'
               /\ answers'[t].state = "streaming" <=> \E w \in Views : sending'[w] = t
               /\ t <= sends' => answers'[t].conversation \in 1 .. newest'
    <3>1. CASE t = s
      <4>1. \A w \in Views : sending'[w] # t
        BY <1>5, <1>21, <1>22, <3>1
      <4>2. ~ (t > sends')
        BY <1>1, <1>5, <1>6, <3>1
      <4>. QED  BY <1>5, <1>7, <1>15, <3>1, <4>1, <4>2
    <3>2. CASE t # s
      <4>1. (\E w \in Views : sending'[w] = t) <=> \E w \in Views : sending[w] = t
        <5>1. sending[v] # t /\ sending'[v] # t
          BY <1>2, <1>21, <3>2 DEF Sends
        <5>. QED  BY <1>21, <5>1
      <4>. QED  BY <1>1, <1>5, <1>15, <3>2, <4>1 DEF AnswersAreAwaited
    <3>. QED  BY <3>1, <3>2
  <2>2. ASSUME NEW w \in Views, NEW x \in Views, sending'[w] = sending'[x], sending'[w] # 0
        PROVE  w = x
    BY <1>1, <1>21, <2>2 DEF AnswersAreAwaited
  <2>. QED  BY <2>1, <2>2 DEF AnswersAreAwaited
<1>24. ASSUME NEW w \in Views
       PROVE  PartialOK(w)'
  <2>1. PartialOK(w)
    BY OfConversations
  <2>2. CASE w = v
    <3>1. streaming'[w].send = 0 /\ active'[w] = FALSE
      BY <1>21, <2>2 DEF NoStream
    <3>. QED  BY <1>1, <1>5, <3>1 DEF PartialOK
  <2>3. CASE w # v
    <3>1. /\ streaming'[w] = streaming[w] /\ sending'[w] = sending[w] /\ active'[w] = active[w]
          /\ streaming[w].send \in 0 .. sends
      BY <1>21, <2>1, <2>3 DEF PartialOK
    <3>2. streaming[w].send # s
      <4>1. streaming[w].send = s => answers[s].state = "failed"
        BY <1>5, <1>22, <2>1, <2>3 DEF PartialOK
      <4>. QED  BY <1>5, <4>1
    <3>3. streaming[w].send # 0 => answers'[streaming[w].send] = answers[streaming[w].send]
      BY <1>1, <1>15, <3>1, <3>2 DEF Sends
    <3>. QED  BY <1>5, <2>1, <3>1, <3>3 DEF PartialOK
  <2>. QED  BY <2>2, <2>3
<1>. QED  BY <1>19, <1>20, <1>23, <1>24 DEF ConversationInv

\* The conversations stay while no answer is completed.
LEMMA ConversationsStay ==
    ASSUME ConversationInv, contexts' = contexts, sends' = sends, newest' \in Nat, newest <= newest',
           \A s \in Sends : /\ answers'[s].conversation = answers[s].conversation
                            /\ answers'[s].state = "complete" <=> answers[s].state = "complete"
    PROVE  /\ \A x \in ChatMessages : Came(x, sends, answers) => Came(x, sends', answers')
           /\ \A v \in Views : \A x \in Elements(shown[v]) : Came(x, sends', answers')
           /\ \A c \in Conversations : ContextOK(c)'
           /\ Arrived'
<1>1. /\ newest \in Nat /\ \A v \in Views : shown[v] \in Seq(ChatMessages)
      /\ \A c \in Conversations : ContextOK(c) /\ contexts[c] \in Seq(ChatMessages)
      /\ AllCame /\ Arrived
  BY OfConversations DEF ConversationInv
<1>2. ASSUME NEW x \in ChatMessages, Came(x, sends, answers)
      PROVE  Came(x, sends', answers')
  <2>1. x.send \in Sends
    BY DEF ChatMessages
  <2>. QED  BY <1>2, <2>1 DEF Came
<1>3. \A ms \in Seq(ChatMessages) : \A x \in Elements(ms) : x \in ChatMessages
  BY MessagesHave DEF Elements
<1>4. \A v \in Views : \A x \in Elements(shown[v]) : Came(x, sends', answers')
  BY <1>1, <1>2, <1>3 DEF AllCame
<1>5. ASSUME NEW c \in Conversations
      PROVE  ContextOK(c)'
  <2>1. \A x \in Elements(contexts[c]) : x \in ChatMessages /\ Came(x, sends', answers') /\ BelongsTo(x, c, answers)
    BY <1>1, <1>2, <1>3 DEF ContextOK
  <2>2. \A x \in ChatMessages : BelongsTo(x, c, answers) => BelongsTo(x, c, answers')
    BY DEF BelongsTo, ChatMessages
  <2>3. c > newest' => c > newest
    BY <1>1 DEF Conversations
  <2>. QED  BY <1>1, <2>1, <2>2, <2>3 DEF ContextOK
<1>6. Arrived'
  BY <1>1 DEF Arrived
<1>. QED  BY <1>2, <1>4, <1>5, <1>6

LEMMA ChunkKeeps ==
    ASSUME ConversationInv, NEW v \in Views, Chunk(v)
    PROVE  ConversationInv'
<1>1. /\ ConversationTyped /\ AnswersAreAwaited
      /\ sends \in Nat /\ MaxSends \in Nat /\ newest \in Nat /\ sends <= MaxSends
  BY OfConversations DEF ConversationInv
<1>2. PICK s : s = sending[v]
  OBVIOUS
<1>3. /\ s # 0 /\ answers[s].state = "streaming"
      /\ answers' = [answers EXCEPT ![s].chunks = @ + 1]
      /\ streaming' = [streaming EXCEPT ![v] = [send |-> s, chunks |-> answers'[s].chunks]]
      /\ contexts' = contexts /\ sends' = sends /\ newest' = newest /\ current' = current
      /\ shown' = shown /\ loaded' = loaded /\ sending' = sending /\ active' = active /\ selected' = selected
  BY <1>2 DEF Chunk, Streams
<1>4. s \in Sends /\ s <= sends /\ s \in 0 .. sends /\ s \in Nat
  <2>1. sending[v] \in 0 .. sends
    BY OfConversations
  <2>. QED  BY <1>1, <1>2, <1>3, <2>1 DEF Sends
<1>5. answers[s] \in AnswerStates
  BY <1>4, OfConversations
<1>6. /\ answers'[s] = [answers[s] EXCEPT !.chunks = @ + 1]
      /\ \A t \in Sends : t # s => answers'[t] = answers[t]
      /\ answers' = [t \in Sends |-> answers'[t]]
  BY <1>1, <1>3, <1>4 DEF ConversationTyped
<1>7. answers'[s] \in AnswerStates
  BY <1>5, <1>6 DEF AnswerStates
<1>8. \A t \in Sends : answers'[t].state = answers[t].state /\ answers'[t].conversation = answers[t].conversation
  BY <1>5, <1>6 DEF AnswerStates
<1>9. answers' \in [Sends -> AnswerStates]
  BY <1>1, <1>6, <1>7 DEF ConversationTyped
<1>10. /\ streaming'[v].send = s /\ streaming'[v].chunks = answers'[s].chunks
       /\ \A w \in Views : w # v => streaming'[w] = streaming[w]
       /\ streaming' \in [Views -> [send : Nat, chunks : Nat]]
  BY <1>1, <1>3, <1>4, <1>7 DEF ConversationTyped, AnswerStates
<1>11. ConversationTyped'
  BY <1>1, <1>3, <1>9, <1>10 DEF ConversationTyped
<1>12. AnswersAreAwaited'
  BY <1>1, <1>3, <1>8 DEF AnswersAreAwaited
<1>13. AllCame' /\ Arrived' /\ \A c \in Conversations : ContextOK(c)'
  <2>1. /\ \A w \in Views : \A x \in Elements(shown[w]) : Came(x, sends', answers')
        /\ \A c \in Conversations : ContextOK(c)'
        /\ Arrived'
    <3>1. newest' \in Nat /\ newest <= newest'
      BY <1>1, <1>3
    <3>2. \A t \in Sends : /\ answers'[t].conversation = answers[t].conversation
                           /\ answers'[t].state = "complete" <=> answers[t].state = "complete"
      BY <1>8
    <3>3. contexts' = contexts /\ sends' = sends
      BY <1>3
    <3>. QED  BY <3>1, <3>2, <3>3, ConversationsStay
  <2>. QED  BY <1>3, <2>1 DEF AllCame
<1>14. \A w \in Views : ShownOK(w)'
  BY <1>3, OfConversations DEF ShownOK
<1>15. ASSUME NEW w \in Views
       PROVE  PartialOK(w)'
  <2>1. PartialOK(w)
    BY OfConversations
  <2>2. CASE w = v
    BY <1>2, <1>3, <1>4, <1>10, <2>1, <2>2 DEF PartialOK
  <2>3. CASE w # v
    <3>1. streaming'[w] = streaming[w] /\ streaming[w].send \in 0 .. sends
      BY <1>10, <2>1, <2>3 DEF PartialOK
    <3>2. streaming[w].send # s
      <4>1. sending[w] # s
        BY <1>1, <1>2, <1>3, <2>3 DEF AnswersAreAwaited
      <4>2. streaming[w].send = s => answers[s].state = "failed"
        BY <1>3, <2>1, <4>1 DEF PartialOK
      <4>. QED  BY <1>3, <4>2
    <3>3. streaming[w].send # 0 => answers'[streaming[w].send] = answers[streaming[w].send]
      BY <1>1, <1>6, <3>1, <3>2 DEF Sends
    <3>. QED  BY <1>3, <2>1, <3>1, <3>3 DEF PartialOK
  <2>. QED  BY <2>2, <2>3
<1>. QED  BY <1>11, <1>12, <1>13, <1>14, <1>15 DEF ConversationInv

LEMMA FailKeeps ==
    ASSUME ConversationInv, NEW v \in Views, Fail(v)
    PROVE  ConversationInv'
<1>1. /\ ConversationTyped /\ AnswersAreAwaited
      /\ sends \in Nat /\ MaxSends \in Nat /\ newest \in Nat /\ sends <= MaxSends
  BY OfConversations DEF ConversationInv
<1>2. PICK s : s = sending[v]
  OBVIOUS
<1>3. /\ s # 0 /\ answers[s].state = "streaming"
      /\ answers' = [answers EXCEPT ![s].state = "failed"]
      /\ sending' = [sending EXCEPT ![v] = 0] /\ active' = [active EXCEPT ![v] = FALSE]
      /\ contexts' = contexts /\ sends' = sends /\ newest' = newest /\ current' = current
      /\ shown' = shown /\ loaded' = loaded /\ streaming' = streaming /\ selected' = selected
  BY <1>2 DEF Fail, Streams
<1>4. s \in Sends /\ s <= sends /\ s \in 0 .. sends /\ s \in Nat
  <2>1. sending[v] \in 0 .. sends
    BY OfConversations
  <2>. QED  BY <1>1, <1>2, <1>3, <2>1 DEF Sends
<1>5. answers[s] \in AnswerStates
  BY <1>4, OfConversations
<1>6. /\ answers'[s] = [answers[s] EXCEPT !.state = "failed"]
      /\ \A t \in Sends : t # s => answers'[t] = answers[t]
      /\ answers' = [t \in Sends |-> answers'[t]]
  BY <1>1, <1>3, <1>4 DEF ConversationTyped
<1>7. /\ answers'[s] \in AnswerStates
      /\ answers'[s].state = "failed" /\ answers'[s].conversation = answers[s].conversation
      /\ answers'[s].chunks = answers[s].chunks
  BY <1>5, <1>6 DEF AnswerStates
<1>8. \A t \in Sends : /\ answers'[t].conversation = answers[t].conversation
                       /\ answers'[t].chunks = answers[t].chunks
                       /\ answers'[t].state = "complete" <=> answers[t].state = "complete"
                       /\ answers[t].state = "failed" => answers'[t].state = "failed"
  BY <1>3, <1>6, <1>7
<1>9. answers' \in [Sends -> AnswerStates]
  BY <1>1, <1>6, <1>7 DEF ConversationTyped
<1>10. /\ sending'[v] = 0 /\ active'[v] = FALSE
       /\ \A w \in Views : w # v => sending'[w] = sending[w] /\ active'[w] = active[w] /\ sending[w] # s
  BY <1>1, <1>2, <1>3 DEF ConversationTyped, AnswersAreAwaited
<1>11. ConversationTyped'
  BY <1>1, <1>3, <1>9 DEF ConversationTyped
<1>12. AnswersAreAwaited'
  <2>1. ASSUME NEW t \in Sends
        PROVE  /\ answers'[t].state = "none" <=> t > sends'
               /\ answers'[t].state = "streaming" <=> \E w \in Views : sending'[w] = t
               /\ t <= sends' => answers'[t].conversation \in 1 .. newest'
    <3>1. CASE t = s
      <4>1. \A w \in Views : sending'[w] # t
        BY <1>3, <1>10, <3>1
      <4>2. ~ (t > sends')
        BY <1>1, <1>3, <1>4, <3>1
      <4>. QED  BY <1>1, <1>3, <1>7, <3>1, <4>1, <4>2 DEF AnswersAreAwaited
    <3>2. CASE t # s
      <4>1. (\E w \in Views : sending'[w] = t) <=> \E w \in Views : sending[w] = t
        <5>1. sending[v] # t /\ sending'[v] # t
          BY <1>2, <1>10, <3>2 DEF Sends
        <5>. QED  BY <1>10, <5>1
      <4>. QED  BY <1>1, <1>3, <1>6, <3>2, <4>1 DEF AnswersAreAwaited
    <3>. QED  BY <3>1, <3>2
  <2>2. ASSUME NEW w \in Views, NEW x \in Views, sending'[w] = sending'[x], sending'[w] # 0
        PROVE  w = x
    BY <1>1, <1>10, <2>2 DEF AnswersAreAwaited
  <2>. QED  BY <2>1, <2>2 DEF AnswersAreAwaited
<1>13. AllCame' /\ Arrived' /\ \A c \in Conversations : ContextOK(c)'
  <2>1. /\ \A w \in Views : \A x \in Elements(shown[w]) : Came(x, sends', answers')
        /\ \A c \in Conversations : ContextOK(c)'
        /\ Arrived'
    <3>1. newest' \in Nat /\ newest <= newest'
      BY <1>1, <1>3
    <3>2. \A t \in Sends : /\ answers'[t].conversation = answers[t].conversation
                           /\ answers'[t].state = "complete" <=> answers[t].state = "complete"
      BY <1>8
    <3>3. contexts' = contexts /\ sends' = sends
      BY <1>3
    <3>. QED  BY <3>1, <3>2, <3>3, ConversationsStay
  <2>. QED  BY <1>3, <2>1 DEF AllCame
<1>14. \A w \in Views : ShownOK(w)'
  BY <1>3, OfConversations DEF ShownOK
<1>15. ASSUME NEW w \in Views
       PROVE  PartialOK(w)'
  <2>1. PartialOK(w)
    BY OfConversations
  <2>2. streaming[w].send # 0 => streaming[w].send \in Sends
    BY <1>1, <2>1 DEF PartialOK, Sends
  <2>3. CASE w = v
    <3>1. streaming[w].send # 0 => streaming[w].send = s \/ answers[streaming[w].send].state = "failed"
      BY <1>2, <2>1, <2>3 DEF PartialOK
    <3>2. streaming[w].send # 0 => answers'[streaming[w].send].state = "failed"
      BY <1>7, <1>8, <2>2, <3>1
    <3>. QED  BY <1>3, <1>8, <1>10, <2>1, <2>2, <2>3, <3>2 DEF PartialOK
  <2>4. CASE w # v
    BY <1>3, <1>8, <1>10, <2>1, <2>2, <2>4 DEF PartialOK
  <2>. QED  BY <2>3, <2>4
<1>. QED  BY <1>11, <1>12, <1>13, <1>14, <1>15 DEF ConversationInv

\* A view turns to a conversation and shows all of it, or chose it from the list.
LEMMA TurnsTo ==
    ASSUME ConversationInv, NEW v \in Views, NEW c \in Conversations,
           contexts' = contexts, sends' = sends, answers' = answers, sending' = sending,
           newest' \in 0 .. MaxConversations, newest <= newest', c <= newest',
           current' = [current EXCEPT ![v] = c], shown' = [w \in Views |-> shown'[w]],
           \A w \in Views : w # v => /\ shown'[w] = shown[w] /\ selected'[w] = selected[w]
                                     /\ streaming'[w] = streaming[w] /\ active'[w] = active[w],
           \/ shown'[v] = contexts[c]
           \/ shown'[v] = shown[v] /\ selected'[v] = TRUE,
           selected' \in [Views -> BOOLEAN], loaded' = [w \in Views |-> loaded'[w]],
           active' \in [Views -> BOOLEAN], streaming' \in [Views -> [send : Nat, chunks : Nat]],
           (streaming'[v] = streaming[v] /\ active'[v] = active[v]) \/ (streaming'[v] = NoStream /\ active'[v] = FALSE)
    PROVE  ConversationInv'
<1>1. /\ ConversationTyped /\ AnswersAreAwaited /\ sends \in Nat /\ newest \in Nat
      /\ MaxConversations \in Nat /\ Recorded \in Nat /\ Recorded <= newest
  BY OfConversations DEF ConversationInv
<1>2. newest' \in Nat
  BY <1>1
<1>3. /\ current'[v] = c /\ c \in 0 .. newest'
      /\ \A w \in Views : w # v => current'[w] = current[w]
      /\ current' = [w \in Views |-> current'[w]]
  <2>1. c \in 0 .. newest'
    BY <1>1, <1>2 DEF Conversations
  <2>2. current = [w \in Views |-> current[w]]
    BY <1>1 DEF ConversationTyped
  <2>. QED  BY <2>1, <2>2
<1>4. contexts[c] \in Seq(ChatMessages) /\ \A w \in Views : shown[w] \in Seq(ChatMessages)
  BY OfConversations
<1>5. \A w \in Views : shown'[w] \in Seq(ChatMessages)
  BY <1>4
<1>6. ConversationTyped'
  <2>1. \A i \in 0 .. newest : i \in 0 .. newest'
    BY <1>1, <1>2
  <2>2. \A w \in Views : current'[w] \in 0 .. newest'
    BY <1>3, <2>1, OfConversations
  <2>3. current' \in [Views -> 0 .. newest'] /\ shown' \in [Views -> Seq(ChatMessages)]
    BY <1>3, <1>5, <2>2
  <2>4. Recorded <= newest'
    BY <1>1, <1>2
  <2>. QED  BY <1>1, <2>3, <2>4 DEF ConversationTyped
<1>7. AnswersAreAwaited'
  <2>1. \A i \in 1 .. newest : i \in 1 .. newest'
    BY <1>1, <1>2
  <2>. QED  BY <1>1, <2>1 DEF AnswersAreAwaited
<1>8. /\ \A x \in ChatMessages : Came(x, sends, answers) => Came(x, sends', answers')
      /\ \A w \in Views : \A x \in Elements(shown[w]) : Came(x, sends', answers')
      /\ \A d \in Conversations : ContextOK(d)'
      /\ Arrived'
  BY <1>2, ConversationsStay
<1>9. AllCame'
  <2>1. \A x \in Elements(contexts[c]) : Came(x, sends', answers')
    BY <1>8 DEF ContextOK
  <2>. QED  BY <1>8, <2>1 DEF AllCame
<1>10. ASSUME NEW w \in Views
       PROVE  PartialOK(w)'
  <2>1. PartialOK(w)
    BY OfConversations
  <2>2. CASE streaming'[w] = streaming[w] /\ active'[w] = active[w]
    BY <2>1, <2>2 DEF PartialOK
  <2>3. CASE streaming'[w] = NoStream /\ active'[w] = FALSE
    <3>1. streaming'[w].send = 0
      BY <2>3 DEF NoStream
    <3>. QED  BY <1>1, <2>3, <3>1 DEF PartialOK
  <2>. QED  BY <2>2, <2>3
<1>11. ASSUME NEW w \in Views
       PROVE  ShownOK(w)'
  <2>1. CASE w # v
    <3>1. ShownOK(w)
      BY OfConversations
    <3>. QED  BY <1>3, <2>1, <3>1 DEF ShownOK
  <2>2. CASE w = v /\ shown'[v] = contexts[c]
    <3>1. ContextOK(c)
      BY OfConversations
    <3>2. \A i \in DOMAIN contexts[c] : contexts[c][i].conversation = c /\ ~ contexts[c][i].own
      BY <3>1 DEF ContextOK, Elements, BelongsTo
    <3>3. ShowsAll(contexts[c], c, contexts[c])
      BY <1>4, <3>1, <3>2, ShowsItself DEF ContextOK
    <3>. QED  BY <1>3, <2>2, <3>3 DEF ShownOK
  <2>3. CASE w = v /\ selected'[v] = TRUE
    BY <2>3 DEF ShownOK
  <2>. QED  BY <2>1, <2>2, <2>3
<1>. QED  BY <1>6, <1>7, <1>8, <1>9, <1>10, <1>11 DEF ConversationInv

LEMMA MountKeeps ==
    ASSUME ConversationInv, NEW v \in Views, NEW c \in 1 .. MaxConversations, Mount(v, c)
    PROVE  ConversationInv'
<1>1. /\ ConversationTyped /\ newest \in Nat /\ newest <= MaxConversations /\ MaxConversations \in Nat
  BY OfConversations DEF ConversationInv
<1>2. /\ newest' = IF c > newest THEN c ELSE newest
      /\ current' = [current EXCEPT ![v] = c]
      /\ shown' = [shown EXCEPT ![v] = contexts[c]]
      /\ loaded' = [loaded EXCEPT ![v] = IF contexts[c] = <<>> THEN 0 ELSE c]
      /\ UNCHANGED <<contexts, sends, answers, sending, active, streaming, selected>>
  BY DEF Mount
<1>3. newest' \in 0 .. MaxConversations /\ newest <= newest' /\ c <= newest' /\ c \in Conversations
  BY <1>1, <1>2 DEF Conversations
<1>4. /\ shown' = [w \in Views |-> shown'[w]] /\ loaded' = [w \in Views |-> loaded'[w]]
      /\ shown'[v] = contexts[c] /\ \A w \in Views : w # v => shown'[w] = shown[w]
  BY <1>1, <1>2 DEF ConversationTyped
<1>5. /\ selected' \in [Views -> BOOLEAN] /\ active' \in [Views -> BOOLEAN]
      /\ streaming' \in [Views -> [send : Nat, chunks : Nat]]
  BY <1>1, <1>2 DEF ConversationTyped
<1>. QED  BY <1>2, <1>3, <1>4, <1>5, TurnsTo

LEMMA SelectKeeps ==
    ASSUME ConversationInv, NEW v \in Views, NEW c \in 1 .. MaxConversations, Select(v, c)
    PROVE  ConversationInv'
<1>1. /\ ConversationTyped /\ newest \in Nat /\ newest <= MaxConversations /\ MaxConversations \in Nat
      /\ Recorded \in Nat /\ Recorded <= newest
  BY OfConversations DEF ConversationInv
<1>2. /\ c \in 1 .. Recorded /\ current' = [current EXCEPT ![v] = c] /\ selected' = [selected EXCEPT ![v] = TRUE]
      /\ UNCHANGED <<contexts, sends, answers, newest, shown, loaded, sending, active, streaming>>
  BY DEF Select
<1>3. newest' \in 0 .. MaxConversations /\ newest <= newest' /\ c <= newest' /\ c \in Conversations
  BY <1>1, <1>2 DEF Conversations
<1>4. /\ shown' = [w \in Views |-> shown'[w]] /\ loaded' = [w \in Views |-> loaded'[w]]
      /\ selected'[v] = TRUE /\ \A w \in Views : w # v => selected'[w] = selected[w]
  BY <1>1, <1>2 DEF ConversationTyped
<1>5. /\ selected' \in [Views -> BOOLEAN] /\ active' \in [Views -> BOOLEAN]
      /\ streaming' \in [Views -> [send : Nat, chunks : Nat]]
  BY <1>1, <1>2 DEF ConversationTyped
<1>. QED  BY <1>2, <1>3, <1>4, <1>5, TurnsTo

LEMMA NewConversationKeeps ==
    ASSUME ConversationInv, NEW v \in Views, NewConversation(v)
    PROVE  ConversationInv'
<1>1. /\ ConversationTyped /\ newest \in Nat /\ MaxConversations \in Nat
  BY OfConversations DEF ConversationInv
<1>. DEFINE n == newest + 1
<1>2. PICK c : c = n
  OBVIOUS
<1>3. /\ newest < MaxConversations /\ newest' = c
      /\ current' = [current EXCEPT ![v] = c]
      /\ shown' = [shown EXCEPT ![v] = <<>>]
      /\ loaded' = [loaded EXCEPT ![v] = 0]
      /\ streaming' = [streaming EXCEPT ![v] = NoStream]
      /\ active' = [active EXCEPT ![v] = FALSE]
      /\ selected' = [selected EXCEPT ![v] = FALSE]
      /\ UNCHANGED <<contexts, sends, answers, sending>>
  BY <1>2 DEF NewConversation
<1>4. newest' \in 0 .. MaxConversations /\ newest <= newest' /\ c <= newest' /\ c \in Conversations /\ c > newest
  BY <1>1, <1>2, <1>3 DEF Conversations
<1>5. contexts[c] = <<>>
  <2>1. ContextOK(c)
    BY <1>4, OfConversations
  <2>. QED  BY <1>4, <2>1 DEF ContextOK
<1>6. /\ shown' = [w \in Views |-> shown'[w]] /\ loaded' = [w \in Views |-> loaded'[w]]
      /\ shown'[v] = contexts[c] /\ streaming'[v] = NoStream /\ active'[v] = FALSE
      /\ \A w \in Views : w # v => /\ shown'[w] = shown[w] /\ selected'[w] = selected[w]
                                   /\ streaming'[w] = streaming[w] /\ active'[w] = active[w]
  BY <1>1, <1>3, <1>5 DEF ConversationTyped
<1>7. /\ selected' \in [Views -> BOOLEAN] /\ active' \in [Views -> BOOLEAN]
      /\ streaming' \in [Views -> [send : Nat, chunks : Nat]]
  BY <1>1, <1>3 DEF ConversationTyped, NoStream
<1>. QED  BY <1>3, <1>4, <1>6, <1>7, TurnsTo

LEMMA ConversationInitInv == ConversationInit => ConversationInv
<1>. SUFFICES ASSUME ConversationInit
              PROVE  ConversationInv
  OBVIOUS
<1>1. /\ MaxSends \in Nat /\ MaxConversations \in Nat /\ Recorded \in Nat /\ Recorded <= MaxConversations
  BY ConversationAssumption
<1>2. /\ contexts = [c \in Conversations |-> <<>>] /\ sends = 0 /\ newest = Recorded
      /\ answers = [s \in Sends |-> [state |-> "none", conversation |-> 0, chunks |-> 0]]
      /\ current = [v \in Views |-> 0] /\ shown = [v \in Views |-> <<>>] /\ loaded = [v \in Views |-> 0]
      /\ sending = [v \in Views |-> 0] /\ active = [v \in Views |-> FALSE]
      /\ streaming = [v \in Views |-> NoStream] /\ selected = [v \in Views |-> FALSE]
  BY DEF ConversationInit, Conversations
<1>3. ConversationTyped
  <2>1. <<>> \in Seq(ChatMessages)
    OBVIOUS
  <2>2. [state |-> "none", conversation |-> 0, chunks |-> 0]
            \in AnswerStates
    BY <1>1 DEF AnswerStates
  <2>3. NoStream \in [send : Nat, chunks : Nat]
    BY DEF NoStream
  <2>4. 0 \in 0 .. MaxSends /\ 0 \in 0 .. newest /\ newest \in 0 .. MaxConversations /\ 0 \in 0 .. sends /\ Recorded <= newest
    BY <1>1, <1>2
  <2>. HIDE DEF NoStream
  <2>. QED  BY <1>2, <2>1, <2>2, <2>3, <2>4 DEF ConversationTyped
<1>4. AnswersAreAwaited
  <2>1. \A s \in Sends : s > 0 /\ s # 0 /\ ~ (s <= 0)
    BY DEF Sends
  <2>2. \A s \in Sends : answers[s].state = "none"
    BY <1>2
  <2>3. \A v \in Views : sending[v] = 0
    BY <1>2
  <2>. QED  BY <1>2, <2>1, <2>2, <2>3 DEF AnswersAreAwaited
<1>5. AllCame /\ Arrived
  BY <1>2 DEF AllCame, Arrived, Elements
<1>6. \A c \in Conversations : ContextOK(c)
  BY <1>2 DEF ContextOK, InOrder, Elements
<1>7. \A v \in Views : PartialOK(v) /\ ShownOK(v)
  <2>1. \A v \in Views : streaming[v].send = 0 /\ active[v] = FALSE /\ current[v] = 0
    BY <1>2 DEF NoStream
  <2>2. 0 \in 0 .. sends
    BY <1>2
  <2>. QED  BY <2>1, <2>2 DEF PartialOK, ShownOK
<1>. QED  BY <1>3, <1>4, <1>5, <1>6, <1>7 DEF ConversationInv

LEMMA ConversationStep == ConversationInv /\ [ConversationNext]_conversationVars => ConversationInv'
<1>. SUFFICES ASSUME ConversationInv, [ConversationNext]_conversationVars
              PROVE  ConversationInv'
  OBVIOUS
<1>1. CASE UNCHANGED conversationVars
  BY <1>1 DEF conversationVars, viewVars, ConversationInv, ConversationTyped, AnswersAreAwaited, AllCame, Arrived,
              ContextOK, PartialOK, ShownOK
<1>2. ASSUME NEW v \in Views, NEW c \in 1 .. MaxConversations, Mount(v, c) \/ Select(v, c)
      PROVE  ConversationInv'
  BY <1>2, MountKeeps, SelectKeeps
<1>3. ASSUME NEW v \in Views, Send(v) \/ Chunk(v) \/ Complete(v) \/ Fail(v) \/ NewConversation(v)
      PROVE  ConversationInv'
  BY <1>3, SendKeeps, ChunkKeeps, CompleteKeeps, FailKeeps, NewConversationKeeps
<1>. QED  BY <1>1, <1>2, <1>3 DEF ConversationNext

\* Messages, answers and what the views show of them fit, at any time.
THEOREM ConversationAlways == ConversationSpec => []ConversationInv
<1>. QED  BY ConversationInitInv, ConversationStep, PTL DEF ConversationSpec

LEMMA StreamsApart == ConversationInv => StreamsStayApart
<1>. SUFFICES ASSUME ConversationInv
              PROVE  StreamsStayApart
  OBVIOUS
<1>1. /\ ConversationTyped /\ AnswersAreAwaited /\ sends \in Nat /\ sends <= MaxSends /\ MaxSends \in Nat
  BY OfConversations DEF ConversationInv
<1>2. ConversationTypeOK
  BY <1>1 DEF ConversationTypeOK, ConversationTyped, AnswersAreAwaited
<1>3. ChunksGoToTheirAnswer
  BY DEF ConversationInv, PartialOK, ChunksGoToTheirAnswer
<1>4. ASSUME NEW s \in 1 .. sends, NEW c \in 1 .. MaxConversations
      PROVE  LET answered == Place(c, s, "planner")
             IN  IF answers[s].state = "complete" /\ c = answers[s].conversation
                 THEN /\ Cardinality(answered) = 1
                      /\ \A i \in Place(c, s, "user"), j \in answered : i < j
                 ELSE answered = {}
  <2>1. ContextOK(c) /\ contexts[c] \in Seq(ChatMessages)
    BY OfConversations DEF Conversations
  <2>2. DOMAIN contexts[c] = 1 .. Len(contexts[c])
    BY <2>1, MessagesHave
  <2>3. \A who : Place(c, s, who) = {i \in DOMAIN contexts[c] : contexts[c][i].send = s /\ contexts[c][i].by = who}
    BY <2>2 DEF Place
  <2>4. \A i \in Place(c, s, "planner") : answers[s].state = "complete" /\ answers[s].conversation = c
    BY <2>1, <2>3 DEF ContextOK, Elements, Came, BelongsTo
  <2>5. \A i, j \in Place(c, s, "planner") : i = j
    BY <2>1, <2>3 DEF ContextOK, InOrder
  <2>6. \A i \in Place(c, s, "user"), j \in Place(c, s, "planner") : i < j
    BY <2>1, <2>3 DEF ContextOK, InOrder
  <2>7. ASSUME answers[s].state = "complete", c = answers[s].conversation
        PROVE  Cardinality(Place(c, s, "planner")) = 1
    <3>1. s \in Sends
      BY <1>1 DEF Sends
    <3>2. HoldsAnswer(contexts[c], s)
      BY <2>7, <3>1 DEF ConversationInv, Arrived
    <3>3. PICK i : i \in Place(c, s, "planner")
      BY <2>3, <3>2 DEF HoldsAnswer
    <3>4. Place(c, s, "planner") = {i}
      BY <2>5, <3>3
    <3>. QED  BY <3>4, FS_Singleton
  <2>. QED  BY <2>4, <2>6, <2>7
<1>5. AnswersFollowMessages
  BY <1>4 DEF AnswersFollowMessages
<1>. QED  BY <1>2, <1>3, <1>5 DEF StreamsStayApart

LEMMA ViewsFaithful == ConversationInv => ViewsAreFaithful
<1>. SUFFICES ASSUME ConversationInv
              PROVE  ViewsAreFaithful
  OBVIOUS
<1>1. ASSUME NEW v \in Views, current[v] # 0, ~ selected[v]
      PROVE  Shows(v)
  <2>1. ShowsAll(shown[v], current[v], contexts[current[v]])
    BY <1>1 DEF ConversationInv, ShownOK
  <2>2. Told(v) = ToldIn(shown[v], current[v])
    BY DEF Told, ToldIn
  <2>. QED  BY <2>1, <2>2 DEF Shows, ShowsAll
<1>2. ShowsWhatIsUnderWay
  BY DEF ConversationInv, PartialOK, ShowsWhatIsUnderWay
<1>. QED  BY <1>1, <1>2 DEF ViewsAreFaithful, ShowsItsConversation

\* Answers that stream side by side stay apart, and each ends up once, after its
\* message, in its conversation: for any views, conversations and sendings.
THEOREM AnswersStayApart == ConversationSpec => []StreamsStayApart
<1>. QED  BY StreamsApart, ConversationAlways, PTL

\* Every view shows all of its conversation in order, unless it was chosen from
\* the history, and is busy only while it waits for an answer.
THEOREM ConversationsAreShown == ConversationSpec => []ViewsAreFaithful
<1>. QED  BY ViewsFaithful, ConversationAlways, PTL
=============================================================================
