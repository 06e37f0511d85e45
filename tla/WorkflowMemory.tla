--------------------------- MODULE WorkflowMemory ---------------------------
(***************************************************************************)
(* memory/MemoryGraph.ts of packages/agent-runtime: the graph of memory    *)
(* nodes and edges and the history of workflow steps that the coordinator  *)
(* writes.  Its methods are synchronous, so they are operators here, from  *)
(* the memory before to the memory after; AgentCoordinator holds the state.*)
(*                                                                         *)
(* Payloads are left out.  All steps recorded for a workflow carry the     *)
(* type of its request as their phase, so a step's node is identified by   *)
(* the workflow and the millisecond the step started at.                   *)
(***************************************************************************)
EXTENDS Integers, SequencesExt

CONSTANTS
    Workflow,   \* the request ids, which are the workflow ids as well
    Agent       \* the names agents are registered under

Root == <<"root">>
ContextNode(w) == <<"context", w>>
AgentNode(a) == <<"agent", a>>

Step == [workflow: Workflow, at: Nat, agent: Agent, success: BOOLEAN]

\* `${workflowId}-${phase}-${timestamp}`
StepNode(step) == <<"step", step.workflow, step.at>>

NodeId ==
    {Root} \union ({"context"} \X Workflow) \union ({"agent"} \X Agent)
        \union ({"step"} \X Workflow \X Nat)

\* nodes maps the id of a node to its relationships.  The id of an edge is made
\* of those of its ends, which therefore stand for it.
IsGraph(graph) ==
    /\ DOMAIN graph = {"nodes", "edges"}
    /\ DOMAIN graph.nodes \subseteq NodeId
    /\ \A n \in DOMAIN graph.nodes: graph.nodes[n] \subseteq NodeId
    /\ graph.edges \subseteq NodeId \X NodeId

\* updateSystemIntegrity
Cleaned(nodes, edges) ==
    [nodes |-> [n \in DOMAIN nodes |-> nodes[n] \intersect DOMAIN nodes],
     edges |-> edges \intersect ((DOMAIN nodes) \X (DOMAIN nodes))]

\* A node with a known id replaces the one there is, relationships included.
AddNode(graph, id) ==
    Cleaned([n \in DOMAIN graph.nodes \union {id} |->
                IF n = id THEN {} ELSE graph.nodes[n]],
            graph.edges)

\* addEdge between nodes that exist.  (Only directed edges are ever added.)
AddEdge(graph, from, to) ==
    Cleaned([graph.nodes EXCEPT ![from] = @ \union {to}],
            graph.edges \union {<<from, to>>})

StoreContext(graph, w) == AddNode(graph, ContextNode(w))

\* recordWorkflowStep throws in addEdge when the node of the previous step is
\* gone; by then the step is in the history and its node in the graph.
RecordThrows(graph, past, step) ==
    /\ past # <<>>
    /\ StepNode(Last(past)) \notin DOMAIN graph.nodes \union {StepNode(step)}

\* The graph after recordWorkflowStep, past being the history before it.
GraphWithStep(graph, past, step) ==
    LET added == AddNode(graph, StepNode(step)) IN
    IF past = <<>> \/ RecordThrows(graph, past, step)
    THEN added
    ELSE AddEdge(added, StepNode(Last(past)), StepNode(step))

\* Fault: the edges are not imported.
ImportedWithoutEdges(saved) == Cleaned(saved.nodes, {})

\* import() of exported data: its nodes as they are now, its edges as they were.
Imported(saved) == Cleaned(saved.nodes, saved.edges)
=============================================================================
