-------------------------- MODULE AgentCoordinator --------------------------
(***************************************************************************)
(* coordination/AgentCoordinator.ts of packages/agent-runtime over its     *)
(* memory graph: executeWorkflow, the sequential workflow, the workflow    *)
(* with retries, backoff and fallback, and agents registered and graphs    *)
(* exported and imported while workflows run.                              *)
(*                                                                         *)
(* A call runs without interruption up to its next await: the agent's      *)
(* answer, the promise of executeWorkflow, or the backoff timer.           *)
(***************************************************************************)
EXTENDS WorkflowMemory, FiniteSets

CONSTANTS
    SequentialCall, \* the invocations of executeSequentialWorkflow
    RecoveryCall,   \* the invocations of executeWorkflowWithRecovery
    WorkflowOf,     \* the id of the request each call is given
    StepsOf,        \* the steps of a sequential call
    AgentOf,        \* the agent a recovery call asks for
    Fits,           \* Fits[w]: the names whose capabilities suit request w
    MaxRetries,     \* the parameter of executeWorkflowWithRecovery
    Known,          \* the agents registered at the start
    Answers,        \* the answers the agents at hand may give
    MaxTime,        \* bound: the clock runs by itself up to this
    MaxImports      \* bound on the calls of import()

Call == SequentialCall \union RecoveryCall
None == "none"
PlanStep == [agent: Agent, dependency: Agent \union {None}]

ErrorType == {"validation_error", "timeout_error", "resource_error",
              "agent_not_found", "execution_error", "dependency_error", "absent"}

\* A response that succeeded, with a truthy or a falsy result, or the type of
\* its error; "absent" is a failure without an error.
Response == {"success", "empty"} \union ErrorType
Succeeded == {"success", "empty"}

\* What an agent may do with a request: answer, or reject ("threw").
Answer == (Response \ {"agent_not_found", "dependency_error"}) \union {"threw"}

ASSUME CoordinatorAssumption ==
    /\ SequentialCall \intersect RecoveryCall = {}
    /\ WorkflowOf \in [Call -> Workflow]
    /\ StepsOf \in [SequentialCall -> Seq(PlanStep)]
    /\ AgentOf \in [RecoveryCall -> Agent]
    /\ Fits \in [Workflow -> SUBSET Agent]
    /\ MaxRetries \in Nat \ {0}
    /\ Known \in Seq(Agent)
    /\ Answers \subseteq Answer
    /\ MaxTime \in Nat /\ MaxImports \in Nat
    /\ None \notin Agent

VARIABLES
    now,        \* Date.now()
    agents,     \* the registered names, in the order of the map
    graph,      \* the nodes and edges of the memory graph
    history,    \* its workflowHistory
    saved,      \* what export() last returned, or the last import() was given
    shared,     \* the ids whose node is one object in the graph and in saved
    stale,      \* history: whether graph, or saved, holds nodes to which edges
                \* were added since they were put beside its edges
    imports,    \* how often import() was called
    callAt,     \* where each call stands
    target,     \* the agent its executeWorkflow was asked for
    startTime,  \* when that executeWorkflow started
    response,   \* what that executeWorkflow resolved to
    turn,       \* the number of executeWorkflow calls but for the fallback
    fellBack,   \* whether it runs, or has run, a fallback agent
    results,    \* the agents with a truthy entry in a sequential call's results
    runs        \* history: the agent executions of each call that have ended

memoryVars == <<graph, history, saved, shared, stale, imports>>
callVars == <<callAt, target, startTime, response, turn, fellBack, results, runs>>
vars == <<now, agents, memoryVars, callVars>>

Place == {"idle", "executing", "answered", "sleeping", "returned", "rejected"}
Run == [agent: Agent, answer: Answer]

TypeOK ==
    /\ now \in Nat
    /\ agents \in Seq(Agent)
    /\ IsGraph(graph)
    /\ history \in [Workflow -> Seq(Step)]
    /\ IsGraph(saved)
    /\ shared \subseteq DOMAIN graph.nodes \intersect DOMAIN saved.nodes
    /\ stale \in [graph: BOOLEAN, saved: BOOLEAN]
    /\ imports \in 0..MaxImports
    /\ callAt \in [Call -> Place]
    /\ target \in [Call -> Agent \union {None}]
    /\ startTime \in [Call -> Nat]
    /\ response \in [Call -> Response \union {None}]
    /\ turn \in [Call -> Nat]
    /\ fellBack \in [Call -> BOOLEAN]
    /\ results \in [Call -> SUBSET Agent]
    /\ runs \in [Call -> Seq(Run)]

Init ==
    /\ now = 0
    /\ agents = Known
    /\ graph = [nodes |-> [n \in {Root} \union {AgentNode(a): a \in ToSet(Known)} |-> {}],
                edges |-> {}]
    /\ history = [w \in Workflow |-> <<>>]
    /\ saved = graph
    /\ shared = {}
    /\ stale = [graph |-> FALSE, saved |-> FALSE]
    /\ imports = 0
    /\ callAt = [c \in Call |-> "idle"]
    /\ target = [c \in Call |-> None]
    /\ startTime = [c \in Call |-> 0]
    /\ response = [c \in Call |-> None]
    /\ turn = [c \in Call |-> 0]
    /\ fellBack = [c \in Call |-> FALSE]
    /\ results = [c \in Call |-> {}]
    /\ runs = [c \in Call |-> <<>>]

---------------------------------------------------------------------------
(* The surroundings: time, registration, persistence.                      *)

Tick ==
    /\ now < MaxTime
    /\ now' = now + 1
    /\ UNCHANGED <<agents, memoryVars, callVars>>

\* What happens to the nodes that saved shares with the graph happens in both,
\* but for those replaced in the graph; the edges of saved are its own.
SavedFollows(replaced) ==
    /\ shared' = shared \ replaced
    /\ saved' = [saved EXCEPT !.nodes =
                    [n \in DOMAIN @ |-> IF n \in shared' THEN graph'.nodes[n] ELSE @[n]]]
    /\ stale' = [stale EXCEPT !.saved = @ \/ saved' # saved]

\* A name registered again keeps its place in the map.
RegisterAgent(a) ==
    /\ agents' = IF a \in ToSet(agents) THEN agents ELSE Append(agents, a)
    /\ graph' = AddNode(graph, AgentNode(a))
    /\ SavedFollows({AgentNode(a)})
    /\ UNCHANGED <<now, history, imports, callVars>>

\* export() returns the nodes themselves in arrays of its own; the caller keeps
\* them as they are or writes them down at once.  (An export after the last
\* import makes no difference.)
Export ==
    /\ imports < MaxImports
    /\ saved' = graph
    /\ shared' \in {{}, DOMAIN graph.nodes}
    /\ stale' = [stale EXCEPT !.saved = stale.graph]
    /\ UNCHANGED <<now, agents, graph, history, imports, callVars>>

\* import() replaces nodes and edges, and leaves the history as it is; it is
\* given saved, whose nodes it takes over, or a copy made of it.
Import ==
    /\ imports < MaxImports
    /\ imports' = imports + 1
    /\ graph' = Imported(saved)
    /\ stale' = [stale EXCEPT !.graph = stale.saved]
    /\ \/ /\ shared' = {}
          /\ UNCHANGED saved
       \/ /\ shared' = DOMAIN saved.nodes
          /\ saved' = [saved EXCEPT !.nodes = graph'.nodes]
    /\ UNCHANGED <<now, agents, history, callVars>>

---------------------------------------------------------------------------
(* executeWorkflow.                                                        *)

\* Up to "await agent.execute(request)", at time t; an unknown name is
\* answered at once and leaves no trace.
Execute(c, a, t) ==
    /\ target' = [target EXCEPT ![c] = a]
    /\ \/ /\ a \in ToSet(agents)
          /\ callAt' = [callAt EXCEPT ![c] = "executing"]
          /\ startTime' = [startTime EXCEPT ![c] = t]
          /\ graph' = StoreContext(graph, WorkflowOf[c])
          /\ SavedFollows({ContextNode(WorkflowOf[c])})
          /\ UNCHANGED response
       \/ /\ a \notin ToSet(agents)
          /\ callAt' = [callAt EXCEPT ![c] = "answered"]
          /\ response' = [response EXCEPT ![c] = "agent_not_found"]
          /\ UNCHANGED <<graph, saved, shared, stale, startTime>>
    /\ UNCHANGED <<agents, history, imports, runs>>

\* The step that a run of c that succeeded, or failed, is recorded as.
StepOf(c, success) ==
    [workflow |-> WorkflowOf[c], at |-> startTime[c],
     agent |-> target[c], success |-> success]

Record(c, steps) ==
    history' = [history EXCEPT ![WorkflowOf[c]] = @ \o steps]

\* Fault: a rejection is not recorded.
AnswerThrewUnrecorded(c) ==
    /\ response' = [response EXCEPT ![c] = "execution_error"]
    /\ callAt' = [callAt EXCEPT ![c] = "answered"]
    /\ UNCHANGED <<graph, history>>

\* The agent rejects: the catch block records a failure.  When that throws in
\* turn, executeWorkflow rejects, and its caller with it.
AnswerThrew(c) ==
    LET past == history[WorkflowOf[c]]
        step == StepOf(c, FALSE)
    IN  /\ Record(c, <<step>>)
        /\ graph' = GraphWithStep(graph, past, step)
        /\ \/ /\ RecordThrows(graph, past, step)
              /\ callAt' = [callAt EXCEPT ![c] = "rejected"]
              /\ UNCHANGED response
           \/ /\ ~RecordThrows(graph, past, step)
              /\ callAt' = [callAt EXCEPT ![c] = "answered"]
              /\ response' = [response EXCEPT ![c] = "execution_error"]

\* The agent answers and the answer is recorded.  When that throws, the catch
\* block records a failure after it, and answers with an execution error.
AnswerResolved(c, answer) ==
    LET past == history[WorkflowOf[c]]
        step == StepOf(c, answer \in Succeeded)
        failure == StepOf(c, FALSE)
        recorded == GraphWithStep(graph, past, step)
    IN  /\ callAt' = [callAt EXCEPT ![c] = "answered"]
        /\ \/ /\ ~RecordThrows(graph, past, step)
              /\ Record(c, <<step>>)
              /\ graph' = recorded
              /\ response' = [response EXCEPT ![c] = answer]
           \/ /\ RecordThrows(graph, past, step)
              /\ Record(c, <<step, failure>>)
              /\ graph' = GraphWithStep(recorded, Append(past, step), failure)
              /\ response' = [response EXCEPT ![c] = "execution_error"]

\* The rest of executeWorkflow.
AgentAnswers(c) ==
    /\ callAt[c] = "executing"
    /\ \E answer \in Answers:
        /\ runs' = [runs EXCEPT ![c] = Append(@, [agent |-> target[c], answer |-> answer])]
        /\ IF answer = "threw" THEN AnswerThrew(c) ELSE AnswerResolved(c, answer)
    /\ SavedFollows({StepNode(StepOf(c, TRUE))})
    /\ UNCHANGED <<now, agents, imports, target, startTime, turn, fellBack, results>>

---------------------------------------------------------------------------
(* executeSequentialWorkflow.                                              *)

\* The call returns r.
Return(c, r) ==
    /\ callAt' = [callAt EXCEPT ![c] = "returned"]
    /\ response' = [response EXCEPT ![c] = r]
    /\ UNCHANGED <<agents, memoryVars, target, startTime, turn, runs>>

\* Fault: the dependency is not checked.
ProceedUnchecked(c, i, have) ==
    /\ results' = [results EXCEPT ![c] = have]
    /\ \/ /\ i > Len(StepsOf[c])
          /\ Return(c, "success")
       \/ /\ i <= Len(StepsOf[c])
          /\ turn' = [turn EXCEPT ![c] = i]
          /\ Execute(c, StepsOf[c][i].agent, now)
    /\ UNCHANGED <<now, fellBack>>

\* The loop at step i, with the results there are.
Proceed(c, i, have) ==
    /\ results' = [results EXCEPT ![c] = have]
    /\ \/ /\ i > Len(StepsOf[c])
          /\ Return(c, "success")
       \/ /\ i <= Len(StepsOf[c])
          /\ StepsOf[c][i].dependency \notin have \union {None}
          /\ Return(c, "dependency_error")
       \/ /\ i <= Len(StepsOf[c])
          /\ StepsOf[c][i].dependency \in have \union {None}
          /\ turn' = [turn EXCEPT ![c] = i]
          /\ Execute(c, StepsOf[c][i].agent, now)
    /\ UNCHANGED <<now, fellBack>>

SequentialStart(c) ==
    /\ callAt[c] = "idle"
    /\ Proceed(c, 1, {})

\* executeWorkflow resolved: the loop goes on after a success.
SequentialResume(c) ==
    /\ callAt[c] = "answered"
    /\ \/ /\ response[c] \notin Succeeded
          /\ Return(c, response[c])
          /\ UNCHANGED <<now, fellBack, results>>
       \/ /\ response[c] = "success"
          /\ Proceed(c, turn[c] + 1, results[c] \union {target[c]})
       \/ /\ response[c] = "empty"
          /\ Proceed(c, turn[c] + 1, results[c] \ {target[c]})

---------------------------------------------------------------------------
(* executeWorkflowWithRecovery.                                            *)

\* determineRecoveryStrategy
RecoveryStrategy(error, attempts) ==
    CASE error = "absent" -> "abort"
      [] error = "validation_error" -> IF attempts < 2 THEN "retry" ELSE "abort"
      [] error = "timeout_error" -> IF attempts < 3 THEN "retry" ELSE "fallback"
      [] error \in {"resource_error", "agent_not_found"} -> "fallback"
      [] OTHER -> IF attempts < 2 THEN "retry" ELSE "fallback"

\* The places, in the order of the map, of the names findFallbackAgent has to
\* choose from; it takes the first.
Candidates(c) ==
    {i \in DOMAIN agents: agents[i] \in Fits[WorkflowOf[c]] \ {AgentOf[c]}}

RecoveryStart(c) ==
    /\ callAt[c] = "idle"
    /\ turn' = [turn EXCEPT ![c] = 1]
    /\ Execute(c, AgentOf[c], now)
    /\ UNCHANGED <<now, fellBack, results>>

\* The loop is over: a success, the answer of the fallback agent, a strategy
\* to abort, or no attempt left.
RecoveryEnd(c) ==
    /\ Return(c, response[c])
    /\ UNCHANGED <<now, fellBack, results>>

FallBack(c) ==
    /\ \E i \in Candidates(c):
        /\ \A j \in Candidates(c): i <= j
        /\ Execute(c, agents[i], now)
    /\ fellBack' = [fellBack EXCEPT ![c] = TRUE]
    /\ UNCHANGED <<now, turn, results>>

Sleep(c) ==
    /\ callAt' = [callAt EXCEPT ![c] = "sleeping"]
    /\ UNCHANGED <<now, agents, memoryVars, target, startTime, response,
                   turn, fellBack, results, runs>>

\* Fault: a success without a result is taken for a failure.
RecoverySettledTruthy(c) == fellBack[c] \/ response[c] = "success"

\* What executeWorkflow resolved to is the answer of the call.
RecoverySettled(c) == fellBack[c] \/ response[c] \in Succeeded

\* Fault: nothing is done when no agent to fall back on is found.
RecoveryResumeStuck(c) ==
    /\ callAt[c] = "answered"
    /\ LET strategy == RecoveryStrategy(response[c], turn[c]) IN
       IF RecoverySettled(c) \/ strategy = "abort" THEN RecoveryEnd(c)
       ELSE IF strategy = "fallback" THEN Candidates(c) # {} /\ FallBack(c)
       ELSE IF turn[c] < MaxRetries THEN Sleep(c)
       ELSE RecoveryEnd(c)

\* Fault: an attempt too many.
RecoveryResumeOneMore(c) ==
    /\ callAt[c] = "answered"
    /\ LET strategy == RecoveryStrategy(response[c], turn[c]) IN
       IF RecoverySettled(c) \/ strategy = "abort" THEN RecoveryEnd(c)
       ELSE IF strategy = "fallback" /\ Candidates(c) # {} THEN FallBack(c)
       ELSE IF turn[c] <= MaxRetries THEN Sleep(c)
       ELSE RecoveryEnd(c)

\* executeWorkflow resolved: the rest of the loop's body.
RecoveryResume(c) ==
    /\ callAt[c] = "answered"
    /\ LET strategy == RecoveryStrategy(response[c], turn[c]) IN
       IF RecoverySettled(c) \/ strategy = "abort" THEN RecoveryEnd(c)
       ELSE IF strategy = "fallback" /\ Candidates(c) # {} THEN FallBack(c)
       ELSE IF turn[c] < MaxRetries THEN Sleep(c)
       ELSE RecoveryEnd(c)

\* The backoff timer fires, later than it was set.
RecoveryWake(c) ==
    /\ callAt[c] = "sleeping"
    /\ now' = now + 1
    /\ turn' = [turn EXCEPT ![c] = @ + 1]
    /\ Execute(c, AgentOf[c], now')
    /\ UNCHANGED <<fellBack, results>>

---------------------------------------------------------------------------

SequentialStep(c) == SequentialStart(c) \/ SequentialResume(c)
RecoveryStep(c) == RecoveryStart(c) \/ RecoveryResume(c) \/ RecoveryWake(c)

Next ==
    \/ Tick
    \/ \E a \in Agent: RegisterAgent(a)
    \/ Export
    \/ Import
    \/ \E c \in Call: AgentAnswers(c)
    \/ \E c \in SequentialCall: SequentialStep(c)
    \/ \E c \in RecoveryCall: RecoveryStep(c)

Spec == Init /\ [][Next]_vars

\* Agents answer in the end, resolved promises resume their callers, timers
\* fire.  Nobody has to start a call, register an agent or import a graph.
Fairness ==
    /\ \A c \in Call: WF_vars(AgentAnswers(c))
    /\ \A c \in SequentialCall: WF_vars(SequentialResume(c))
    /\ \A c \in RecoveryCall: WF_vars(RecoveryResume(c)) /\ WF_vars(RecoveryWake(c))

FairSpec == Spec /\ Fairness

---------------------------------------------------------------------------
(* Properties.                                                             *)

\* "Verify all node relationships have corresponding edges" (MemoryGraph.ts:458;
\* the code below it only looks for the nodes): every relationship has its edge,
\* also after an import and when a node is replaced, unless an import brought
\* back nodes that had gone on changing in the graph they were exported from.
RelationshipsHaveEdges ==
    ~stale.graph =>
        \A n \in DOMAIN graph.nodes: \A m \in graph.nodes[n]: <<n, m>> \in graph.edges

\* The pairs of nodes of steps that follow each other in a history.
Links ==
    UNION {{<<StepNode(history[w][i - 1]), StepNode(history[w][i])>>:
                i \in 2..Len(history[w])}: w \in Workflow}

\* Whatever is shared, exported and imported: a relationship or an edge joins
\* two steps that followed each other.
GraphTellsHistory ==
    /\ graph.edges \subseteq Links
    /\ \A n \in DOMAIN graph.nodes: \A m \in graph.nodes[n]: <<n, m>> \in Links

\* Without an import, the history of a workflow is a path of the graph, also
\* when steps of several calls interleave and when they start at the same time.
HistoryIsLinked ==
    imports = 0 =>
        \A w \in Workflow: \A i \in 2..Len(history[w]):
            <<StepNode(history[w][i - 1]), StepNode(history[w][i])>> \in graph.edges

StepsIn(w, a, success) ==
    Cardinality({i \in DOMAIN history[w]:
        history[w][i].agent = a /\ history[w][i].success = success})

\* The runs of agent a, as pairs of a call and a place in its runs, that ended
\* with or without success for workflow w.
EndedRuns(w, a, success) ==
    {run \in UNION {{c} \X DOMAIN runs[c]: c \in Call}:
        /\ WorkflowOf[run[1]] = w
        /\ runs[run[1]][run[2]].agent = a
        /\ (runs[run[1]][run[2]].answer \in Succeeded) = success}

RunsIn(w, a, success) == Cardinality(EndedRuns(w, a, success))

\* Every run of an agent is recorded, under the agent that made it: a success
\* exactly once, whatever is imported; a failure exactly once too, but for the
\* failures that are recorded because a recording failed after an import.
HistoryTellsRuns ==
    \A w \in Workflow: \A a \in Agent:
        /\ StepsIn(w, a, TRUE) = RunsIn(w, a, TRUE)
        /\ StepsIn(w, a, FALSE) >= RunsIn(w, a, FALSE)
        /\ imports = 0 => StepsIn(w, a, FALSE) = RunsIn(w, a, FALSE)

\* A sequential call runs the agents of its steps in their order; it runs one
\* only after a run of its own made the dependency available, and none after a
\* run that failed; if it reports success all steps have run.
SequenceFollowsItsSteps ==
    \A c \in SequentialCall:
        /\ \A i \in DOMAIN runs[c]:
            /\ runs[c][i].agent = StepsOf[c][i].agent
            /\ i < Len(runs[c]) => runs[c][i].answer \in Succeeded
            /\ \/ StepsOf[c][i].dependency = None
               \/ \E j \in 1..(i - 1):
                    runs[c][j] = [agent |-> StepsOf[c][i].dependency, answer |-> "success"]
        /\ callAt[c] = "returned" /\ response[c] = "success" =>
            Len(runs[c]) = Len(StepsOf[c])

\* A call with recovery runs its agent at most MaxRetries times, and one other
\* agent, once, after that: registrations, imports and backoff included.
RecoveryIsBounded ==
    \A c \in RecoveryCall:
        LET own == {i \in DOMAIN runs[c]: runs[c][i].agent = AgentOf[c]} IN
        /\ Cardinality(own) <= MaxRetries
        /\ \A i \in (DOMAIN runs[c]) \ own: i = Len(runs[c])

\* Without an import: a success, a failure without an error, and a validation
\* error of any run but the first end a call with recovery; no agent runs for
\* the call after them, and the call returns them.
EndingAnswersEndTheCall ==
    imports = 0 =>
        \A c \in RecoveryCall: \A i \in DOMAIN runs[c]:
            \/ runs[c][i].answer \in Succeeded \union {"absent"}
            \/ runs[c][i].answer = "validation_error" /\ i > 1
            => /\ i = Len(runs[c])
               /\ callAt[c] \in {"answered", "returned"}
               /\ response[c] = runs[c][i].answer

\* A call that has begun ends, although every await in it gives way to others.
CallsEnd ==
    \A c \in Call: callAt[c] # "idle" ~> callAt[c] \in {"returned", "rejected"}

\* MemoryGraph.ts: whatever is recorded, replaced, exported and imported, the
\* memory joins only what followed each other, and has an edge for every
\* relationship but for those that an import of shared nodes brought back.
MemoryIsConsistent == TypeOK /\ RelationshipsHaveEdges /\ GraphTellsHistory

\* recordWorkflowStep: the recorded history of a workflow is what ran, and the
\* graph holds it as a path.
HistoryIsFaithful == HistoryIsLinked /\ HistoryTellsRuns
=============================================================================
