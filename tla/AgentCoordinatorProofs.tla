----------------------- MODULE AgentCoordinatorProofs -----------------------
(***************************************************************************)
(* Theorems of AgentCoordinator: its types, the edges behind every         *)
(* relationship of the memory graph, what one call runs (a sequential      *)
(* workflow follows its steps, a workflow with recovery is bounded and ends*)
(* with an answer that ends it), and the history of all of them.           *)
(*                                                                         *)
(* The invariants about runs speak of one call at a time: the steps of the *)
(* others leave its variables alone.  What they share is the memory: until *)
(* a graph is imported it only grows, so that no recording fails in it.    *)
(***************************************************************************)
EXTENDS AgentCoordinator, FiniteSetTheorems, TLAPS

---------------------------------------------------------------------------
(* The memory graph: its methods return graphs, and every relationship of  *)
(* a graph they return has its edge.                                       *)

\* Every relationship of g has its edge.
HasEdges(g) ==
    \A n \in DOMAIN g.nodes: \A m \in g.nodes[n]: <<n, m>> \in g.edges

\* Cleaning keeps the nodes, and of the rest what joins them.
LEMMA CleanedGraph ==
    ASSUME NEW nodes, NEW edges,
           DOMAIN nodes \subseteq NodeId,
           \A n \in DOMAIN nodes: nodes[n] \subseteq NodeId,
           edges \subseteq NodeId \X NodeId
    PROVE  IsGraph(Cleaned(nodes, edges))
BY DEF Cleaned, IsGraph

\* Cleaning removes a relationship with its edge or not at all.
LEMMA CleanedHasEdges ==
    ASSUME NEW nodes, NEW edges,
           \A n \in DOMAIN nodes: \A m \in nodes[n]: <<n, m>> \in edges
    PROVE  HasEdges(Cleaned(nodes, edges))
BY DEF Cleaned, HasEdges

\* Adding a node to a graph.
LEMMA AddNodeGraph ==
    ASSUME NEW g, IsGraph(g), NEW id \in NodeId
    PROVE  /\ IsGraph(AddNode(g, id))
           /\ HasEdges(g) => HasEdges(AddNode(g, id))
<1> DEFINE nodes == [n \in DOMAIN g.nodes \union {id} |->
                        IF n = id THEN {} ELSE g.nodes[n]]
<1>1. IsGraph(AddNode(g, id))
  <2>1. DOMAIN nodes \subseteq NodeId
    BY DEF IsGraph
  <2>2. \A n \in DOMAIN nodes: nodes[n] \subseteq NodeId
    BY DEF IsGraph
  <2>3. g.edges \subseteq NodeId \X NodeId
    BY DEF IsGraph
  <2> HIDE DEF nodes
  <2>4. IsGraph(Cleaned(nodes, g.edges))
    BY <2>1, <2>2, <2>3, CleanedGraph
  <2> QED
    BY <2>4 DEF AddNode, nodes
<1>2. ASSUME HasEdges(g)
      PROVE  HasEdges(AddNode(g, id))
  <2>1. \A n \in DOMAIN nodes: \A m \in nodes[n]: <<n, m>> \in g.edges
    BY <1>2 DEF HasEdges
  <2> HIDE DEF nodes
  <2>2. HasEdges(Cleaned(nodes, g.edges))
    BY <2>1, CleanedHasEdges
  <2> QED
    BY <2>2 DEF AddNode, nodes
<1> QED
  BY <1>1, <1>2

\* Adding an edge to a graph.
LEMMA AddEdgeGraph ==
    ASSUME NEW g, IsGraph(g), NEW from \in NodeId, NEW to \in NodeId
    PROVE  /\ IsGraph(AddEdge(g, from, to))
           /\ HasEdges(g) => HasEdges(AddEdge(g, from, to))
<1> DEFINE nodes == [g.nodes EXCEPT ![from] = @ \union {to}]
           edges == g.edges \union {<<from, to>>}
<1>0. DOMAIN nodes = DOMAIN g.nodes
  OBVIOUS
<1>00. \A n \in DOMAIN nodes: nodes[n] \subseteq g.nodes[n] \union {to} /\ (n # from => nodes[n] = g.nodes[n])
  OBVIOUS
<1>1. IsGraph(AddEdge(g, from, to))
  <2>1. DOMAIN nodes \subseteq NodeId
    BY <1>0 DEF IsGraph
  <2>2. \A n \in DOMAIN nodes: nodes[n] \subseteq NodeId
    BY <1>0, <1>00 DEF IsGraph
  <2>3. edges \subseteq NodeId \X NodeId
    BY DEF IsGraph
  <2> HIDE DEF nodes, edges
  <2>4. IsGraph(Cleaned(nodes, edges))
    BY <2>1, <2>2, <2>3, CleanedGraph
  <2> QED
    BY <2>4 DEF AddEdge, nodes, edges
<1>2. ASSUME HasEdges(g)
      PROVE  HasEdges(AddEdge(g, from, to))
  <2>1. \A n \in DOMAIN nodes: \A m \in nodes[n]: <<n, m>> \in edges
    BY <1>2, <1>0, <1>00 DEF HasEdges
  <2> HIDE DEF nodes, edges
  <2>2. HasEdges(Cleaned(nodes, edges))
    BY <2>1, CleanedHasEdges
  <2> QED
    BY <2>2 DEF AddEdge, nodes, edges
<1> QED
  BY <1>1, <1>2

\* Importing a graph.
LEMMA ImportedGraph ==
    ASSUME NEW g, IsGraph(g)
    PROVE  /\ IsGraph(Imported(g))
           /\ HasEdges(g) => HasEdges(Imported(g))
<1>1. IsGraph(Imported(g))
  BY CleanedGraph DEF Imported, IsGraph
<1>2. HasEdges(g) => HasEdges(Imported(g))
  <2> SUFFICES ASSUME HasEdges(g)
               PROVE  HasEdges(Cleaned(g.nodes, g.edges))
    BY DEF Imported
  <2> QED
    BY CleanedHasEdges DEF HasEdges
<1> QED
  BY <1>1, <1>2

\* The node of a step has a node id.
LEMMA StepNodeIsId == ASSUME NEW step \in Step PROVE StepNode(step) \in NodeId
BY DEF StepNode, NodeId, Step

\* Recording a step in a graph.
LEMMA GraphWithStepGraph ==
    ASSUME NEW g, IsGraph(g), NEW past \in Seq(Step), NEW step \in Step
    PROVE  /\ IsGraph(GraphWithStep(g, past, step))
           /\ HasEdges(g) => HasEdges(GraphWithStep(g, past, step))
<1> DEFINE added == AddNode(g, StepNode(step))
<1>1. IsGraph(added) /\ (HasEdges(g) => HasEdges(added))
  BY StepNodeIsId, AddNodeGraph
<1>2. CASE past = <<>> \/ RecordThrows(g, past, step)
  BY <1>1, <1>2 DEF GraphWithStep
<1>3. CASE ~(past = <<>> \/ RecordThrows(g, past, step))
  <2> HIDE DEF added
  <2>1. Last(past) \in Step
    BY <1>3 DEF Last
  <2>2. StepNode(Last(past)) \in NodeId /\ StepNode(step) \in NodeId
    BY <2>1, StepNodeIsId
  <2>3. LET linked == AddEdge(added, StepNode(Last(past)), StepNode(step)) IN
        IsGraph(linked) /\ (HasEdges(g) => HasEdges(linked))
    BY <1>1, <2>2, AddEdgeGraph
  <2> QED
    BY <1>3, <2>3 DEF GraphWithStep, added
<1> QED
  BY <1>2, <1>3

\* The edges and the relationships of g join pairs of L only.
Within(g, L) ==
    /\ g.edges \subseteq L
    /\ \A n \in DOMAIN g.nodes: \A m \in g.nodes[n]: <<n, m>> \in L

\* A node brings neither.
LEMMA AddNodeWithin ==
    ASSUME NEW g, NEW id, NEW L, Within(g, L)
    PROVE  /\ Within(AddNode(g, id), L)
           /\ DOMAIN g.nodes \subseteq DOMAIN AddNode(g, id).nodes
BY DEF AddNode, Cleaned, Within

\* An edge brings itself.
LEMMA AddEdgeWithin ==
    ASSUME NEW g, NEW from, NEW to, NEW L, Within(g, L), <<from, to>> \in L
    PROVE  /\ Within(AddEdge(g, from, to), L)
           /\ DOMAIN g.nodes \subseteq DOMAIN AddEdge(g, from, to).nodes
BY DEF AddEdge, Cleaned, Within

\* A step brings the edge from the one before.
LEMMA GraphWithStepWithin ==
    ASSUME NEW g, NEW past, NEW step, NEW L, Within(g, L),
           past # <<>> => <<StepNode(Last(past)), StepNode(step)>> \in L
    PROVE  /\ Within(GraphWithStep(g, past, step), L)
           /\ DOMAIN g.nodes \subseteq DOMAIN GraphWithStep(g, past, step).nodes
<1> DEFINE added == AddNode(g, StepNode(step))
<1>1. Within(added, L) /\ DOMAIN g.nodes \subseteq DOMAIN added.nodes
  BY AddNodeWithin
<1>2. CASE past = <<>> \/ RecordThrows(g, past, step)
  BY <1>1, <1>2 DEF GraphWithStep
<1>3. CASE ~(past = <<>> \/ RecordThrows(g, past, step))
  <2> HIDE DEF added
  <2> DEFINE linked == AddEdge(added, StepNode(Last(past)), StepNode(step))
  <2>1. Within(linked, L) /\ DOMAIN added.nodes \subseteq DOMAIN linked.nodes
    BY <1>1, <1>3, AddEdgeWithin
  <2>2. GraphWithStep(g, past, step) = linked
    BY <1>3 DEF GraphWithStep, added
  <2> HIDE DEF linked
  <2> QED
    BY <1>1, <2>1, <2>2
<1> QED
  BY <1>2, <1>3

---------------------------------------------------------------------------
(* Type correctness, the edges of all relationships, and what they tell.   *)

\* The memory: the graph and the export that shares nodes with it.  Both have
\* edges for their relationships unless they are stale.
MemoryOK ==
    /\ IsGraph(graph) /\ IsGraph(saved)
    /\ shared \subseteq DOMAIN graph.nodes \intersect DOMAIN saved.nodes
    /\ stale \in [graph: BOOLEAN, saved: BOOLEAN]
    /\ ~stale.graph => HasEdges(graph)
    /\ ~stale.saved => HasEdges(saved)
    /\ Within(graph, Links) /\ Within(saved, Links)

\* What the theorems on types and relationships are proved from: besides, a
\* call that awaits executeWorkflow knows the agent.
TargetKnown ==
    \A c \in Call: callAt[c] \in {"executing", "answered"} => target[c] \in Agent

MemoryInv == TypeOK /\ TargetKnown /\ MemoryOK

\* Where the memory stays as it is.
LEMMA MemoryKept ==
    ASSUME MemoryOK, UNCHANGED <<graph, history, saved, shared, stale>>
    PROVE  MemoryOK'
<1>1. Links' = Links
  BY DEF Links
<1>2. HasEdges(graph)' = HasEdges(graph) /\ HasEdges(saved)' = HasEdges(saved)
  BY DEF HasEdges
<1>3. Within(graph, Links)' = Within(graph, Links) /\ Within(saved, Links)' = Within(saved, Links)
  BY <1>1 DEF Within
<1>4. IsGraph(graph)' /\ IsGraph(saved)'
  BY DEF IsGraph, MemoryOK
<1> QED
  BY <1>2, <1>3, <1>4 DEF MemoryOK

\* The graph has changed to one with the nodes there were and the edges there
\* should be; saved follows, and is stale if that changes it.
LEMMA SavedFollowed ==
    ASSUME MemoryOK, NEW replaced, SavedFollows(replaced),
           IsGraph(graph'), HasEdges(graph) => HasEdges(graph'),
           DOMAIN graph.nodes \subseteq DOMAIN graph'.nodes,
           Links \subseteq Links', Within(graph', Links')
    PROVE  MemoryOK'
<1>1. shared' \subseteq DOMAIN graph'.nodes \intersect DOMAIN saved.nodes
  BY DEF SavedFollows, MemoryOK
<1>2. /\ DOMAIN saved' = DOMAIN saved
      /\ saved'.edges = saved.edges
      /\ DOMAIN saved'.nodes = DOMAIN saved.nodes
      /\ \A n \in DOMAIN saved.nodes:
            saved'.nodes[n] = IF n \in shared' THEN graph'.nodes[n] ELSE saved.nodes[n]
  BY DEF SavedFollows, MemoryOK, IsGraph
<1>3. IsGraph(saved')
  BY <1>1, <1>2 DEF MemoryOK, IsGraph
<1>4. Within(saved', Links')
  BY <1>1, <1>2 DEF MemoryOK, Within
<1>5. stale'.graph = stale.graph /\ stale'.saved = (stale.saved \/ saved' # saved)
      /\ stale' \in [graph: BOOLEAN, saved: BOOLEAN]
  BY DEF SavedFollows, MemoryOK
<1>6. ~stale'.saved => HasEdges(saved')
  BY <1>5 DEF MemoryOK
<1>7. ~stale'.graph => HasEdges(graph')
  BY <1>5 DEF MemoryOK
<1> QED
  BY <1>1, <1>2, <1>3, <1>4, <1>5, <1>6, <1>7 DEF MemoryOK

\* What executeWorkflow does up to its first await keeps the types.
LEMMA ExecuteTypeOK ==
    ASSUME TypeOK, MemoryOK, NEW c \in Call, NEW a \in Agent, NEW t \in Nat,
           Execute(c, a, t)
    PROVE  /\ target' \in [Call -> Agent \union {None}]
           /\ callAt' \in [Call -> Place]
           /\ startTime' \in [Call -> Nat]
           /\ response' \in [Call -> Response \union {None}]
           /\ TargetKnown => TargetKnown'
           /\ MemoryOK'
<1>1. target' \in [Call -> Agent \union {None}]
  BY DEF TypeOK, Execute
<1>2. callAt' \in [Call -> Place]
  BY DEF TypeOK, Execute, Place
<1>3. startTime' \in [Call -> Nat]
  BY DEF TypeOK, Execute
<1>4. response' \in [Call -> Response \union {None}]
  BY DEF TypeOK, Execute, Response, ErrorType
<1>5. ContextNode(WorkflowOf[c]) \in NodeId
  BY CoordinatorAssumption DEF ContextNode, NodeId
<1>6. MemoryOK'
  <2>0. Links' = Links
    BY DEF Execute, Links
  <2>1. CASE /\ graph' = StoreContext(graph, WorkflowOf[c])
             /\ SavedFollows({ContextNode(WorkflowOf[c])})
    <3>1. IsGraph(graph') /\ (HasEdges(graph) => HasEdges(graph'))
      BY <1>5, <2>1, AddNodeGraph DEF MemoryOK, StoreContext
    <3>2. Within(graph', Links) /\ DOMAIN graph.nodes \subseteq DOMAIN graph'.nodes
      BY <2>1, AddNodeWithin DEF MemoryOK, StoreContext
    <3> QED
      BY <2>0, <2>1, <3>1, <3>2, SavedFollowed
  <2>2. CASE UNCHANGED <<graph, saved, shared, stale>>
    BY <2>2, MemoryKept DEF Execute
  <2> QED
    BY <2>1, <2>2 DEF Execute
<1>7. TargetKnown => TargetKnown'
  BY DEF TypeOK, Execute, TargetKnown
<1> QED
  BY <1>1, <1>2, <1>3, <1>4, <1>6, <1>7

\* A step that does nothing but return keeps the types.
LEMMA ReturnTypeOK ==
    ASSUME TypeOK, NEW c \in Call, NEW r \in Response \union {None}, Return(c, r)
    PROVE  /\ callAt' \in [Call -> Place]
           /\ response' \in [Call -> Response \union {None}]
           /\ TargetKnown => TargetKnown'
BY DEF TypeOK, Return, Place, TargetKnown

\* Recorded steps leave the links there were.
LEMMA RecordLinks ==
    ASSUME TypeOK, NEW c \in Call, NEW steps \in Seq(Step), Record(c, steps)
    PROVE  Links \subseteq Links'
<1>0. WorkflowOf[c] \in Workflow
  BY CoordinatorAssumption
<1> SUFFICES ASSUME NEW w \in Workflow, NEW i \in 2..Len(history[w])
             PROVE  <<StepNode(history[w][i - 1]), StepNode(history[w][i])>> \in Links'
  BY DEF Links
<1>1. history[w] \in Seq(Step)
  BY DEF TypeOK
<1>2. history'[w] = history[w] \/ history'[w] = history[w] \o steps
  BY <1>0 DEF Record, TypeOK
<1>3. i \in 2..Len(history'[w]) /\ history'[w][i] = history[w][i] /\ history'[w][i - 1] = history[w][i - 1]
  BY <1>1, <1>2
<1>4. <<StepNode(history'[w][i - 1]), StepNode(history'[w][i])>> \in Links'
  BY <1>3 DEF Links
<1> QED
  BY <1>3, <1>4

\* The first of them is linked to the last of the past.
LEMMA LinkRecorded ==
    ASSUME TypeOK, NEW c \in Call, NEW steps \in Seq(Step), steps # <<>>, Record(c, steps),
           history[WorkflowOf[c]] # <<>>
    PROVE  <<StepNode(Last(history[WorkflowOf[c]])), StepNode(steps[1])>> \in Links'
<1> DEFINE w == WorkflowOf[c]
           past == history[w]
           i == Len(past) + 1
<1>0. w \in Workflow
  BY CoordinatorAssumption
<1>1. past \in Seq(Step)
  BY <1>0 DEF TypeOK
<1>2. history'[w] = past \o steps
  BY <1>0 DEF Record, TypeOK
<1>3. i \in 2..Len(history'[w]) /\ history'[w][i] = steps[1] /\ history'[w][i - 1] = past[Len(past)]
  BY <1>1, <1>2
<1>4. <<StepNode(history'[w][i - 1]), StepNode(history'[w][i])>> \in Links'
  BY <1>0, <1>3 DEF Links
<1> QED
  BY <1>3, <1>4 DEF Last

\* The second of two is linked to the first.
LEMMA SecondLinkRecorded ==
    ASSUME TypeOK, NEW c \in Call, NEW step \in Step, NEW failure \in Step,
           Record(c, <<step, failure>>)
    PROVE  <<StepNode(step), StepNode(failure)>> \in Links'
<1> DEFINE w == WorkflowOf[c]
           past == history[w]
           i == Len(past) + 2
<1>0. w \in Workflow
  BY CoordinatorAssumption
<1>1. past \in Seq(Step)
  BY <1>0 DEF TypeOK
<1>2. history'[w] = past \o <<step, failure>>
  BY <1>0 DEF Record, TypeOK
<1>3. i \in 2..Len(history'[w]) /\ history'[w][i] = failure /\ history'[w][i - 1] = step
  BY <1>1, <1>2
<1>4. <<StepNode(history'[w][i - 1]), StepNode(history'[w][i])>> \in Links'
  BY <1>0, <1>3 DEF Links
<1> QED
  BY <1>3, <1>4

\* The rest of executeWorkflow keeps the types, however it records the answer.
LEMMA AnswerTypeOK ==
    ASSUME TypeOK, TargetKnown, MemoryOK, NEW c \in Call, AgentAnswers(c)
    PROVE  /\ runs' \in [Call -> Seq(Run)]
           /\ callAt' \in [Call -> Place]
           /\ response' \in [Call -> Response \union {None}]
           /\ history' \in [Workflow -> Seq(Step)]
           /\ TargetKnown'
           /\ MemoryOK'
<1> PICK answer \in Answers:
        /\ runs' = [runs EXCEPT ![c] = Append(@, [agent |-> target[c], answer |-> answer])]
        /\ IF answer = "threw" THEN AnswerThrew(c) ELSE AnswerResolved(c, answer)
  BY DEF AgentAnswers
<1> DEFINE past == history[WorkflowOf[c]]
           step == StepOf(c, answer \in Succeeded)
           failure == StepOf(c, FALSE)
<1>1. answer \in Answer /\ "execution_error" \in Response /\ (answer # "threw" => answer \in Response)
  BY CoordinatorAssumption DEF Answer, Response, ErrorType
<1>2. WorkflowOf[c] \in Workflow /\ past \in Seq(Step)
  BY CoordinatorAssumption DEF TypeOK
<1>3. target[c] \in Agent
  BY DEF AgentAnswers, TargetKnown
<1>4. step \in Step /\ failure \in Step
  BY <1>2, <1>3 DEF StepOf, Step, TypeOK
<1>5. runs' \in [Call -> Seq(Run)]
  <2>1. [agent |-> target[c], answer |-> answer] \in Run /\ runs[c] \in Seq(Run)
    BY <1>1, <1>3 DEF TypeOK, Run
  <2>2. Append(runs[c], [agent |-> target[c], answer |-> answer]) \in Seq(Run)
    BY <2>1
  <2> QED
    BY <2>2 DEF TypeOK
<1>6. callAt' \in [Call -> Place]
  <2>1. \/ callAt' = [callAt EXCEPT ![c] = "answered"]
        \/ callAt' = [callAt EXCEPT ![c] = "rejected"]
    BY DEF AnswerThrew, AnswerResolved
  <2> QED
    BY <2>1 DEF TypeOK, Place
<1>7. response' \in [Call -> Response \union {None}]
  <2>1. \/ response' = response
        \/ response' = [response EXCEPT ![c] = "execution_error"]
        \/ answer # "threw" /\ response' = [response EXCEPT ![c] = answer]
    BY DEF AnswerThrew, AnswerResolved
  <2> QED
    BY <1>1, <2>1 DEF TypeOK
<1>8. TargetKnown'
  BY <1>3 DEF TypeOK, AgentAnswers, AnswerThrew, AnswerResolved, TargetKnown
<1>9. \A steps \in Seq(Step): Record(c, steps) => history' \in [Workflow -> Seq(Step)]
  BY <1>2 DEF TypeOK, Record
<1>12. \A steps \in Seq(Step): Record(c, steps) => history'[WorkflowOf[c]] = past \o steps
  BY <1>2 DEF TypeOK, Record
<1>13. PICK replaced: SavedFollows(replaced)
  BY DEF AgentAnswers
<1>10. CASE answer = "threw"
  <2>1. Record(c, <<failure>>) /\ graph' = GraphWithStep(graph, past, failure)
    BY <1>10 DEF AnswerThrew
  <2> HIDE DEF past, failure
  <2>2. <<failure>> \in Seq(Step)
    BY <1>4
  <2>3. IsGraph(graph') /\ (HasEdges(graph) => HasEdges(graph'))
    BY <2>1, <1>2, <1>4, GraphWithStepGraph DEF TypeOK
  <2>4. Links \subseteq Links' /\ (past # <<>> => <<StepNode(Last(past)), StepNode(failure)>> \in Links')
    BY <2>1, <2>2, <1>2, <1>4, LinkRecorded, RecordLinks DEF past
  <2>5. Within(graph', Links') /\ DOMAIN graph.nodes \subseteq DOMAIN graph'.nodes
    <3>1. Within(graph, Links')
      BY <2>4 DEF MemoryOK, Within
    <3> QED
      BY <2>1, <2>4, <3>1, GraphWithStepWithin
  <2>6. MemoryOK'
    BY <1>13, <2>3, <2>4, <2>5, SavedFollowed
  <2> QED
    BY <2>1, <2>2, <2>6, <1>5, <1>6, <1>7, <1>8, <1>9
<1>11. CASE answer # "threw"
  <2> DEFINE recorded == GraphWithStep(graph, past, step)
  <2>1. \/ Record(c, <<step>>) /\ graph' = recorded
        \/ Record(c, <<step, failure>>) /\ graph' = GraphWithStep(recorded, Append(past, step), failure)
    BY <1>11 DEF AnswerResolved
  <2> HIDE DEF past, step, failure
  <2>2. <<step>> \in Seq(Step) /\ <<step, failure>> \in Seq(Step) /\ Append(past, step) \in Seq(Step)
    BY <1>2, <1>4
  <2>3. IsGraph(recorded) /\ (HasEdges(graph) => HasEdges(recorded))
    BY <1>2, <1>4, GraphWithStepGraph DEF TypeOK
  <2> HIDE DEF recorded
  <2>4. IsGraph(graph') /\ (HasEdges(graph) => HasEdges(graph'))
    BY <2>1, <2>2, <2>3, <1>4, GraphWithStepGraph
  <2>5. Links \subseteq Links' /\ (past # <<>> => <<StepNode(Last(past)), StepNode(step)>> \in Links')
    BY <2>1, <2>2, <1>2, <1>4, LinkRecorded, RecordLinks DEF past
  <2>6. Within(recorded, Links') /\ DOMAIN graph.nodes \subseteq DOMAIN recorded.nodes
    <3>1. Within(graph, Links')
      BY <2>5 DEF MemoryOK, Within
    <3> QED
      BY <2>5, <3>1, GraphWithStepWithin DEF recorded
  <2>7. Within(graph', Links') /\ DOMAIN graph.nodes \subseteq DOMAIN graph'.nodes
    <3>1. CASE graph' = recorded
      BY <2>6, <3>1
    <3>2. CASE /\ Record(c, <<step, failure>>)
               /\ graph' = GraphWithStep(recorded, Append(past, step), failure)
      <4>1. <<StepNode(step), StepNode(failure)>> \in Links'
        BY <2>2, <3>2, <1>2, <1>4, SecondLinkRecorded DEF past
      <4>2. Last(Append(past, step)) = step
        BY <1>2, <1>4 DEF Last
      <4>3. /\ Within(GraphWithStep(recorded, Append(past, step), failure), Links')
            /\ DOMAIN recorded.nodes \subseteq
                    DOMAIN GraphWithStep(recorded, Append(past, step), failure).nodes
        BY <2>6, <4>1, <4>2, GraphWithStepWithin
      <4> QED
        BY <2>6, <3>2, <4>3
    <3> QED
      BY <2>1, <3>1, <3>2
  <2>8. MemoryOK'
    BY <1>13, <2>4, <2>5, <2>7, SavedFollowed
  <2> QED
    BY <2>1, <2>2, <2>8, <1>5, <1>6, <1>7, <1>8, <1>9
<1> QED
  BY <1>10, <1>11

\* It holds at the start.
LEMMA InitMemory == Init => MemoryInv
<1> SUFFICES ASSUME Init
             PROVE  MemoryInv
  OBVIOUS
<1>1. IsGraph(graph) /\ HasEdges(graph)
  BY CoordinatorAssumption DEF Init, IsGraph, HasEdges, NodeId, Root, AgentNode, ToSet
<1>2. TypeOK
  BY <1>1, CoordinatorAssumption DEF Init, TypeOK, Place
<1>3. MemoryOK
  BY <1>1 DEF Init, MemoryOK, Within
<1> QED
  BY <1>1, <1>2, <1>3 DEF Init, MemoryInv, TargetKnown

\* Every step of the sequential workflow preserves it.
LEMMA SequentialMemory ==
    ASSUME MemoryInv, NEW c \in SequentialCall, SequentialStep(c)
    PROVE  MemoryInv'
<1> USE DEF MemoryInv
<1>0. c \in Call
  BY DEF Call
<1>1. ASSUME NEW i \in Nat \ {0}, NEW have \in SUBSET Agent, Proceed(c, i, have)
      PROVE  MemoryInv'
  <2>1. results' \in [Call -> SUBSET Agent]
    BY <1>0, <1>1 DEF TypeOK, Proceed
  <2>2. CASE Return(c, "success") \/ Return(c, "dependency_error")
    BY <1>0, <1>1, <2>1, <2>2, ReturnTypeOK, MemoryKept
       DEF TypeOK, Return, Proceed, Response, ErrorType, memoryVars
  <2>3. CASE /\ i <= Len(StepsOf[c])
             /\ turn' = [turn EXCEPT ![c] = i]
             /\ Execute(c, StepsOf[c][i].agent, now)
    <3>1. StepsOf[c][i].agent \in Agent
      <4>1. StepsOf[c] \in Seq(PlanStep) /\ i \in 1..Len(StepsOf[c])
        BY <2>3, CoordinatorAssumption
      <4>2. StepsOf[c][i] \in PlanStep
        BY <4>1
      <4> QED
        BY <4>2 DEF PlanStep
    <3>2. turn' \in [Call -> Nat]
      BY <2>3, <1>0 DEF TypeOK
    <3> QED
      BY <1>0, <1>1, <2>1, <2>3, <3>1, <3>2, ExecuteTypeOK DEF TypeOK, MemoryOK, Execute, Proceed
  <2> QED
    BY <1>1, <2>2, <2>3 DEF Proceed
<1>2. CASE SequentialStart(c)
  BY <1>1, <1>2 DEF SequentialStart
<1>3. CASE SequentialResume(c)
  <2>1. target[c] \in Agent /\ results[c] \in SUBSET Agent /\ turn[c] + 1 \in Nat \ {0}
    BY <1>0, <1>3 DEF SequentialResume, TargetKnown, TypeOK
  <2>2. CASE Return(c, response[c]) /\ UNCHANGED <<now, fellBack, results>>
    <3>1. response[c] \in Response \union {None}
      BY <1>0 DEF TypeOK
    <3> QED
      BY <1>0, <2>2, <3>1, ReturnTypeOK, MemoryKept DEF TypeOK, Return, memoryVars
  <2>3. CASE \E have \in SUBSET Agent: Proceed(c, turn[c] + 1, have)
    BY <1>1, <2>1, <2>3
  <2> QED
    BY <1>3, <2>1, <2>2, <2>3 DEF SequentialResume
<1> QED
  BY <1>2, <1>3 DEF SequentialStep

\* Every step of the workflow with recovery preserves it.
LEMMA RecoveryMemory ==
    ASSUME MemoryInv, NEW c \in RecoveryCall, RecoveryStep(c)
    PROVE  MemoryInv'
<1> USE DEF MemoryInv
<1>0. c \in Call /\ AgentOf[c] \in Agent
  BY CoordinatorAssumption DEF Call
<1>1. CASE RecoveryStart(c)
  <2>1. Execute(c, AgentOf[c], now) /\ now \in Nat
    BY <1>1 DEF RecoveryStart, TypeOK
  <2>2. turn' \in [Call -> Nat] /\ UNCHANGED <<now, fellBack, results>>
    BY <1>0, <1>1 DEF RecoveryStart, TypeOK
  <2> QED
    BY <1>0, <2>1, <2>2, ExecuteTypeOK DEF TypeOK, MemoryOK, Execute
<1>2. CASE RecoveryWake(c)
  <2>1. Execute(c, AgentOf[c], now') /\ now' \in Nat
    BY <1>2 DEF RecoveryWake, TypeOK
  <2>2. turn' \in [Call -> Nat] /\ UNCHANGED <<fellBack, results>>
    BY <1>0, <1>2 DEF RecoveryWake, TypeOK
  <2> QED
    BY <1>0, <2>1, <2>2, ExecuteTypeOK DEF TypeOK, MemoryOK, Execute
<1>3. CASE RecoveryResume(c)
  <2>1. CASE RecoveryEnd(c)
    <3>1. response[c] \in Response \union {None}
      BY <1>0 DEF TypeOK
    <3> QED
      BY <1>0, <2>1, <3>1, ReturnTypeOK, MemoryKept DEF RecoveryEnd, TypeOK, Return, memoryVars
  <2>2. CASE FallBack(c)
    <3>1. PICK i \in Candidates(c): Execute(c, agents[i], now)
      BY <2>2 DEF FallBack
    <3>2. agents[i] \in Agent
      BY <3>1 DEF Candidates, TypeOK
    <3>3. fellBack' \in [Call -> BOOLEAN] /\ UNCHANGED <<now, turn, results>>
      BY <2>2, <1>0 DEF FallBack, TypeOK
    <3> QED
      BY <1>0, <3>1, <3>2, <3>3, ExecuteTypeOK DEF TypeOK, MemoryOK, Execute
  <2>3. CASE Sleep(c)
    BY <1>0, <2>3, MemoryKept DEF Sleep, TypeOK, Place, TargetKnown, memoryVars
  <2> QED
    BY <1>3, <2>1, <2>2, <2>3 DEF RecoveryResume
<1> QED
  BY <1>1, <1>2, <1>3 DEF RecoveryStep

\* Every step preserves it.
LEMMA StepMemory == MemoryInv /\ [Next]_vars => MemoryInv'
<1> SUFFICES ASSUME MemoryInv, [Next]_vars
             PROVE  MemoryInv'
  OBVIOUS
<1> USE DEF MemoryInv
<1>1. CASE Tick
  BY <1>1, MemoryKept DEF Tick, TypeOK, TargetKnown, memoryVars, callVars
<1>2. ASSUME NEW a \in Agent, RegisterAgent(a)
      PROVE  MemoryInv'
  <2>1. AgentNode(a) \in NodeId
    BY DEF AgentNode, NodeId
  <2>2. MemoryOK'
    <3>1. IsGraph(graph') /\ (HasEdges(graph) => HasEdges(graph'))
      BY <1>2, <2>1, AddNodeGraph DEF RegisterAgent, MemoryOK
    <3>2. Links' = Links
      BY <1>2 DEF RegisterAgent, Links
    <3>3. Within(graph', Links') /\ DOMAIN graph.nodes \subseteq DOMAIN graph'.nodes
      BY <1>2, <3>2, AddNodeWithin DEF RegisterAgent, MemoryOK
    <3>4. SavedFollows({AgentNode(a)})
      BY <1>2 DEF RegisterAgent
    <3> QED
      BY <3>1, <3>2, <3>3, <3>4, SavedFollowed
  <2>3. agents' \in Seq(Agent)
    BY <1>2 DEF RegisterAgent, TypeOK
  <2> QED
    BY <1>2, <2>2, <2>3 DEF RegisterAgent, TypeOK, MemoryOK, TargetKnown, callVars
<1>3. CASE Export
  <2>1. MemoryOK'
    <3>1. Links' = Links /\ graph' = graph /\ saved' = graph /\ shared' \subseteq DOMAIN graph.nodes
      BY <1>3 DEF Export, Links
    <3>2. stale'.graph = stale.graph /\ stale'.saved = stale.graph
          /\ stale' \in [graph: BOOLEAN, saved: BOOLEAN]
      BY <1>3 DEF Export, MemoryOK
    <3> QED
      BY <3>1, <3>2 DEF MemoryOK
  <2> QED
    BY <1>3, <2>1 DEF Export, TypeOK, MemoryOK, TargetKnown, callVars
<1>4. CASE Import
  <2>1. IsGraph(graph') /\ (HasEdges(saved) => HasEdges(graph'))
    BY <1>4, ImportedGraph DEF Import, MemoryOK
  <2>2. imports' \in 0..MaxImports
    BY <1>4, CoordinatorAssumption DEF Import, TypeOK
  <2>3. Links' = Links
    BY <1>4 DEF Import, Links
  <2>4. /\ DOMAIN graph'.nodes = DOMAIN saved.nodes
        /\ \A n \in DOMAIN saved.nodes: graph'.nodes[n] \subseteq saved.nodes[n]
        /\ graph'.edges \subseteq saved.edges
    BY <1>4 DEF Import, Imported, Cleaned
  <2>5. Within(graph', Links)
    BY <2>4 DEF MemoryOK, Within
  <2>6. stale'.graph = stale.saved /\ stale'.saved = stale.saved
        /\ stale' \in [graph: BOOLEAN, saved: BOOLEAN]
    BY <1>4 DEF Import, MemoryOK
  <2>7. ASSUME shared' = {}, saved' = saved
        PROVE  MemoryOK'
    <3>1. HasEdges(saved') = HasEdges(saved) /\ IsGraph(saved') /\ Within(saved', Links)
      BY <2>7 DEF MemoryOK
    <3>2. (~stale'.graph => HasEdges(graph')) /\ (~stale'.saved => HasEdges(saved'))
      BY <2>1, <2>6, <3>1 DEF MemoryOK
    <3>3. shared' \subseteq DOMAIN graph'.nodes \intersect DOMAIN saved'.nodes
      BY <2>7
    <3> QED
      BY <2>1, <2>3, <2>5, <2>6, <3>1, <3>2, <3>3 DEF MemoryOK
  <2>8. ASSUME shared' = DOMAIN saved.nodes, saved' = [saved EXCEPT !.nodes = graph'.nodes]
        PROVE  MemoryOK'
    <3>1. DOMAIN saved' = DOMAIN saved /\ saved'.nodes = graph'.nodes /\ saved'.edges = saved.edges
      BY <2>8 DEF MemoryOK, IsGraph
    <3>2. IsGraph(saved')
      BY <2>1, <3>1 DEF MemoryOK, IsGraph
    <3>3. HasEdges(saved) => HasEdges(saved')
      BY <2>4, <3>1 DEF HasEdges
    <3>4. Within(saved', Links)
      BY <2>4, <3>1 DEF MemoryOK, Within
    <3> QED
      <4>1. (~stale'.graph => HasEdges(graph')) /\ (~stale'.saved => HasEdges(saved'))
        BY <2>1, <2>6, <3>3 DEF MemoryOK
      <4>2. shared' \subseteq DOMAIN graph'.nodes \intersect DOMAIN saved'.nodes
        BY <2>4, <2>8, <3>1
      <4> QED
        BY <2>1, <2>3, <2>5, <2>6, <3>2, <3>4, <4>1, <4>2 DEF MemoryOK
  <2> QED
    <3>1. MemoryOK'
      BY <1>4, <2>7, <2>8 DEF Import
    <3> QED
      BY <1>4, <2>2, <3>1 DEF Import, TypeOK, MemoryOK, TargetKnown, callVars
<1>5. ASSUME NEW c \in Call, AgentAnswers(c)
      PROVE  MemoryInv'
  BY <1>5, AnswerTypeOK DEF AgentAnswers, TypeOK, MemoryOK
<1>6. CASE UNCHANGED vars
  BY <1>6, MemoryKept DEF vars, TypeOK, TargetKnown, memoryVars, callVars
<1> QED
  BY <1>1, <1>2, <1>3, <1>4, <1>5, <1>6, SequentialMemory, RecoveryMemory DEF Next

\* The invariant of the memory in every reachable state.
LEMMA MemoryInvariant == Spec => []MemoryInv
BY InitMemory, StepMemory, PTL DEF Spec

\* Every reachable state is well typed.
THEOREM CoordinatorTypeCorrect == Spec => []TypeOK
<1>1. MemoryInv => TypeOK
  BY DEF MemoryInv
<1> QED
  BY <1>1, MemoryInvariant, PTL

\* Every relationship of the memory graph has its edge, whatever is recorded,
\* replaced, exported and imported in whatever order, until nodes come back
\* that went on changing after they were exported.
THEOREM GraphRelationships == Spec => []RelationshipsHaveEdges
<1>1. MemoryInv => RelationshipsHaveEdges
  BY DEF MemoryInv, MemoryOK, HasEdges, RelationshipsHaveEdges
<1> QED
  BY <1>1, MemoryInvariant, PTL

\* The memory as a whole: well typed, its relationships matched by edges but for
\* those, and all of them between steps that followed each other.
THEOREM CoordinatorMemory == Spec => []MemoryIsConsistent
<1>1. MemoryInv => GraphTellsHistory
  BY DEF MemoryInv, MemoryOK, Within, GraphTellsHistory
<1>2. TypeOK /\ RelationshipsHaveEdges /\ GraphTellsHistory => MemoryIsConsistent
  BY DEF MemoryIsConsistent
<1> QED
  BY <1>1, <1>2, MemoryInvariant, CoordinatorTypeCorrect, GraphRelationships, PTL

---------------------------------------------------------------------------
(* One call at a time.                                                     *)

\* A step leaves the variables of call c alone.
CallKept(c) ==
    /\ callAt'[c] = callAt[c]
    /\ target'[c] = target[c]
    /\ response'[c] = response[c]
    /\ turn'[c] = turn[c]
    /\ fellBack'[c] = fellBack[c]
    /\ results'[c] = results[c]
    /\ runs'[c] = runs[c]

\* What happens around the calls leaves them alone.
LEMMA SurroundingsKeepCalls ==
    ASSUME NEW c \in Call,
           \/ Tick \/ Export \/ Import \/ UNCHANGED vars
           \/ \E a \in Agent: RegisterAgent(a)
    PROVE  CallKept(c)
BY DEF Tick, Export, Import, RegisterAgent, vars, callVars, CallKept

\* So does executeWorkflow, up to its first await, for another call.
LEMMA ExecuteKeepsOthers ==
    ASSUME TypeOK, NEW c \in Call, NEW d \in Call, d # c, NEW a, NEW t, Execute(d, a, t)
    PROVE  /\ callAt'[c] = callAt[c]
           /\ target'[c] = target[c]
           /\ response'[c] = response[c]
           /\ runs'[c] = runs[c]
BY DEF Execute, TypeOK

\* So do the steps of another sequential call.
LEMMA SequentialKeepsOthers ==
    ASSUME TypeOK, NEW c \in Call, NEW d \in SequentialCall, d # c, SequentialStep(d)
    PROVE  CallKept(c)
<1>0. d \in Call
  BY DEF Call
<1>1. ASSUME NEW r, Return(d, r)
      PROVE  /\ callAt'[c] = callAt[c]
             /\ target'[c] = target[c]
             /\ response'[c] = response[c]
             /\ turn'[c] = turn[c]
             /\ runs'[c] = runs[c]
  BY <1>0, <1>1 DEF Return, TypeOK
<1>2. ASSUME NEW i, NEW have, Proceed(d, i, have)
      PROVE  CallKept(c)
  <2>1. results'[c] = results[c] /\ fellBack'[c] = fellBack[c]
    BY <1>0, <1>2 DEF Proceed, TypeOK
  <2>2. ASSUME turn' = [turn EXCEPT ![d] = i], Execute(d, StepsOf[d][i].agent, now)
        PROVE  CallKept(c)
    BY <1>0, <2>1, <2>2, ExecuteKeepsOthers DEF CallKept, TypeOK
  <2> QED
    BY <1>1, <1>2, <2>1, <2>2 DEF Proceed, CallKept
<1>3. CASE SequentialStart(d)
  BY <1>2, <1>3 DEF SequentialStart
<1>4. CASE SequentialResume(d)
  BY <1>1, <1>2, <1>4 DEF SequentialResume, CallKept
<1> QED
  BY <1>3, <1>4 DEF SequentialStep

\* So do the steps of another call with recovery.
LEMMA RecoveryKeepsOthers ==
    ASSUME TypeOK, NEW c \in Call, NEW d \in RecoveryCall, d # c, RecoveryStep(d)
    PROVE  CallKept(c)
<1>0. d \in Call
  BY DEF Call
<1>1. CASE RecoveryStart(d)
  BY <1>0, <1>1, ExecuteKeepsOthers DEF RecoveryStart, CallKept, TypeOK
<1>2. CASE RecoveryWake(d)
  BY <1>0, <1>2, ExecuteKeepsOthers DEF RecoveryWake, CallKept, TypeOK
<1>3. CASE RecoveryEnd(d)
  BY <1>0, <1>3 DEF RecoveryEnd, Return, CallKept, TypeOK
<1>4. CASE FallBack(d)
  BY <1>0, <1>4, ExecuteKeepsOthers DEF FallBack, CallKept, TypeOK
<1>5. CASE Sleep(d)
  BY <1>0, <1>5 DEF Sleep, CallKept, TypeOK
<1> QED
  BY <1>1, <1>2, <1>3, <1>4, <1>5 DEF RecoveryStep, RecoveryResume

\* So does the answer to another call.
LEMMA AnswerKeepsOthers ==
    ASSUME TypeOK, NEW c \in Call, NEW d \in Call, d # c, AgentAnswers(d)
    PROVE  CallKept(c)
<1>1. PICK answer \in Answers:
        /\ runs' = [runs EXCEPT ![d] = Append(@, [agent |-> target[d], answer |-> answer])]
        /\ IF answer = "threw" THEN AnswerThrew(d) ELSE AnswerResolved(d, answer)
  BY DEF AgentAnswers
<1>2. callAt'[c] = callAt[c] /\ response'[c] = response[c]
  BY <1>1 DEF AnswerThrew, AnswerResolved, TypeOK
<1>3. runs'[c] = runs[c]
  BY <1>1 DEF TypeOK
<1> QED
  BY <1>2, <1>3 DEF AgentAnswers, CallKept

\* A step that is not one of the call's own leaves its variables alone.
LEMMA OthersKeepCall ==
    ASSUME TypeOK, NEW c \in Call, [Next]_vars,
           ~AgentAnswers(c),
           c \in SequentialCall => ~SequentialStep(c),
           c \in RecoveryCall => ~RecoveryStep(c)
    PROVE  CallKept(c)
BY SurroundingsKeepCalls, SequentialKeepsOthers, RecoveryKeepsOthers, AnswerKeepsOthers
   DEF Next

\* What executeWorkflow does to its own call up to its first await.
LEMMA ExecuteOwn ==
    ASSUME TypeOK, NEW c \in Call, NEW a \in Agent, NEW t, Execute(c, a, t)
    PROVE  /\ target'[c] = a
           /\ runs' = runs
           /\ \/ a \in ToSet(agents) /\ callAt'[c] = "executing"
              \/ /\ a \notin ToSet(agents) /\ callAt'[c] = "answered"
                 /\ response'[c] = "agent_not_found"
BY DEF Execute, TypeOK

\* What the rest of it does: one more run, of the agent it was asked for.
LEMMA AnswerOwn ==
    ASSUME TypeOK, NEW c \in Call, AgentAnswers(c)
    PROVE  /\ callAt[c] = "executing"
           /\ UNCHANGED <<target, turn, fellBack, results>>
           /\ \E answer \in Answers:
                /\ runs'[c] = Append(runs[c], [agent |-> target[c], answer |-> answer])
                /\ \/ callAt'[c] = "rejected"
                   \/ callAt'[c] = "answered" /\ response'[c] \in {answer, "execution_error"}
<1>1. PICK answer \in Answers:
        /\ runs' = [runs EXCEPT ![c] = Append(@, [agent |-> target[c], answer |-> answer])]
        /\ IF answer = "threw" THEN AnswerThrew(c) ELSE AnswerResolved(c, answer)
  BY DEF AgentAnswers
<1>2. \/ callAt'[c] = "rejected"
      \/ callAt'[c] = "answered" /\ response'[c] \in {answer, "execution_error"}
  BY <1>1 DEF AnswerThrew, AnswerResolved, TypeOK
<1>3. runs'[c] = Append(runs[c], [agent |-> target[c], answer |-> answer])
  BY <1>1 DEF TypeOK
<1> QED
  BY <1>2, <1>3 DEF AgentAnswers

---------------------------------------------------------------------------
(* The sequential workflow.                                                *)

\* Call c has run agent a, which succeeded with a result.
HasResult(c, a) ==
    \E j \in DOMAIN runs[c]: runs[c][j] = [agent |-> a, answer |-> "success"]

\* No run of call c failed.
AllSucceeded(c) == \A i \in DOMAIN runs[c]: runs[c][i].answer \in Succeeded

\* The inductive form of SequenceFollowsItsSteps for one call: besides what it
\* has run, where in its steps the call stands and what its results rest on.
SequenceInv(c) ==
    /\ Len(runs[c]) <= Len(StepsOf[c])
    /\ \A i \in DOMAIN runs[c]:
        /\ runs[c][i].agent = StepsOf[c][i].agent
        /\ i < Len(runs[c]) => runs[c][i].answer \in Succeeded
        /\ \/ StepsOf[c][i].dependency = None
           \/ \E j \in 1..(i - 1):
                runs[c][j] = [agent |-> StepsOf[c][i].dependency, answer |-> "success"]
    /\ \A a \in results[c]: HasResult(c, a)
    /\ callAt[c] = "idle" => runs[c] = <<>>
    /\ callAt[c] = "executing" =>
        /\ turn[c] = Len(runs[c]) + 1
        /\ turn[c] <= Len(StepsOf[c])
        /\ target[c] = StepsOf[c][turn[c]].agent
        /\ AllSucceeded(c)
        /\ \/ StepsOf[c][turn[c]].dependency = None
           \/ HasResult(c, StepsOf[c][turn[c]].dependency)
    /\ callAt[c] = "answered" /\ response[c] \in Succeeded =>
        /\ turn[c] = Len(runs[c])
        /\ AllSucceeded(c)
        /\ response[c] = "success" => HasResult(c, target[c])
    /\ callAt[c] = "returned" /\ response[c] = "success" =>
        Len(runs[c]) = Len(StepsOf[c])

\* A step that leaves the call alone preserves the invariant.
LEMMA SequenceKept ==
    ASSUME NEW c \in SequentialCall, SequenceInv(c), CallKept(c)
    PROVE  SequenceInv(c)'
<1>1. (\A a: HasResult(c, a)' <=> HasResult(c, a)) /\ (AllSucceeded(c)' <=> AllSucceeded(c))
  BY DEF CallKept, HasResult, AllSucceeded
<1>2. /\ callAt'[c] = callAt[c] /\ target'[c] = target[c] /\ response'[c] = response[c]
      /\ turn'[c] = turn[c] /\ results'[c] = results[c] /\ runs'[c] = runs[c]
  BY DEF CallKept
<1> QED
  BY <1>1, <1>2 DEF SequenceInv

\* The agent of a sequential call answers.
LEMMA SequenceAnswered ==
    ASSUME TypeOK, NEW c \in SequentialCall, SequenceInv(c), AgentAnswers(c)
    PROVE  SequenceInv(c)'
<1>0. c \in Call /\ runs[c] \in Seq(Run) /\ results[c] \subseteq Agent
  BY DEF Call, TypeOK
<1> DEFINE n == Len(runs[c])
           plan == StepsOf[c]
<1>1. PICK answer \in Answers:
        /\ runs'[c] = Append(runs[c], [agent |-> target[c], answer |-> answer])
        /\ \/ callAt'[c] = "rejected"
           \/ callAt'[c] = "answered" /\ response'[c] \in {answer, "execution_error"}
  BY <1>0, AnswerOwn
<1>2. /\ callAt[c] = "executing"
      /\ turn'[c] = turn[c] /\ target'[c] = target[c] /\ results'[c] = results[c]
  BY <1>0, AnswerOwn
<1>3. /\ n \in Nat /\ turn[c] = n + 1 /\ n + 1 <= Len(plan)
      /\ target[c] = plan[n + 1].agent
      /\ AllSucceeded(c)
      /\ plan[n + 1].dependency = None \/ HasResult(c, plan[n + 1].dependency)
  BY <1>0, <1>2 DEF SequenceInv
<1>4. /\ Len(runs'[c]) = n + 1
      /\ DOMAIN runs'[c] = 1..(n + 1)
      /\ \A i \in 1..n: runs'[c][i] = runs[c][i]
      /\ runs'[c][n + 1] = [agent |-> target[c], answer |-> answer]
      /\ DOMAIN runs[c] = 1..n
  BY <1>0, <1>1
<1>5. \A a: HasResult(c, a) => HasResult(c, a)'
  BY <1>3, <1>4 DEF HasResult
<1>6. ASSUME NEW i \in 1..(n + 1)
      PROVE  /\ runs'[c][i].agent = plan[i].agent
             /\ i < n + 1 => runs'[c][i].answer \in Succeeded
             /\ \/ plan[i].dependency = None
                \/ \E j \in 1..(i - 1):
                     runs'[c][j] = [agent |-> plan[i].dependency, answer |-> "success"]
  <2>1. CASE i = n + 1
    BY <1>3, <1>4, <2>1 DEF HasResult
  <2>2. CASE i \in 1..n
    <3>1. /\ runs[c][i].agent = plan[i].agent
          /\ runs[c][i].answer \in Succeeded
      BY <1>3, <1>4, <2>2 DEF SequenceInv, AllSucceeded
    <3>2. \/ plan[i].dependency = None
          \/ \E j \in 1..(i - 1):
               runs[c][j] = [agent |-> plan[i].dependency, answer |-> "success"]
      BY <1>4, <2>2 DEF SequenceInv
    <3>3. \A j \in 1..(i - 1): runs'[c][j] = runs[c][j]
      BY <1>3, <1>4, <2>2
    <3> QED
      BY <1>4, <2>2, <3>1, <3>2, <3>3
  <2> QED
    BY <1>3, <2>1, <2>2
<1>7. ASSUME callAt'[c] = "answered", response'[c] \in Succeeded
      PROVE  /\ turn'[c] = Len(runs'[c])
             /\ AllSucceeded(c)'
             /\ response'[c] = "success" => HasResult(c, target[c])'
  <2>1. answer = response'[c] /\ answer \in Succeeded
    BY <1>1, <1>7 DEF Succeeded
  <2>2. AllSucceeded(c)'
    BY <1>3, <1>4, <1>6, <2>1 DEF AllSucceeded
  <2> QED
    BY <1>2, <1>3, <1>4, <2>1, <2>2 DEF HasResult
<1>8. callAt'[c] \in {"answered", "rejected"}
  BY <1>1
<1>9. \A a \in results'[c]: HasResult(c, a)'
  BY <1>2, <1>5 DEF SequenceInv
<1> QED
  BY <1>2, <1>3, <1>4, <1>6, <1>7, <1>8, <1>9 DEF SequenceInv

\* The call returns; a success only when all its steps have run.
LEMMA ReturnEnds ==
    ASSUME TypeOK, NEW c \in SequentialCall, SequenceInv(c), NEW r, Return(c, r),
           \A a \in results'[c]: HasResult(c, a),
           r = "success" => Len(runs[c]) >= Len(StepsOf[c])
    PROVE  SequenceInv(c)'
<1>1. c \in Call /\ Len(runs[c]) \in Nat /\ Len(StepsOf[c]) \in Nat
  BY CoordinatorAssumption DEF Call, TypeOK
<1>2. callAt'[c] = "returned" /\ response'[c] = r /\ runs' = runs
  BY <1>1 DEF Return, TypeOK
<1>3. \A a: HasResult(c, a)' <=> HasResult(c, a)
  BY <1>2 DEF HasResult
<1>4. r = "success" => Len(runs[c]) = Len(StepsOf[c])
  BY <1>1 DEF SequenceInv
<1>5. \A a \in results'[c]: HasResult(c, a)'
  BY <1>3
<1> QED
  BY <1>2, <1>4, <1>5 DEF SequenceInv

\* The loop goes on, after runs that all succeeded.
LEMMA SequenceProceeds ==
    ASSUME TypeOK, NEW c \in SequentialCall, SequenceInv(c), AllSucceeded(c),
           NEW have \in SUBSET Agent, \A a \in have: HasResult(c, a),
           Proceed(c, Len(runs[c]) + 1, have)
    PROVE  SequenceInv(c)'
<1> DEFINE n == Len(runs[c])
           plan == StepsOf[c]
<1>0. /\ c \in Call /\ n \in Nat /\ plan \in Seq(PlanStep) /\ n <= Len(plan)
      /\ Len(plan) \in Nat /\ DOMAIN plan = 1..Len(plan)
  BY CoordinatorAssumption DEF Call, TypeOK, SequenceInv
<1>1. results'[c] = have
  BY <1>0 DEF Proceed, TypeOK
<1>2. CASE n + 1 > Len(plan) /\ Return(c, "success")
  BY <1>0, <1>1, <1>2, ReturnEnds
<1>3. CASE Return(c, "dependency_error")
  BY <1>0, <1>1, <1>3, ReturnEnds
<1>4. CASE /\ n + 1 <= Len(plan)
           /\ plan[n + 1].dependency \in have \union {None}
           /\ turn' = [turn EXCEPT ![c] = n + 1]
           /\ Execute(c, plan[n + 1].agent, now)
  <2>1. plan[n + 1].agent \in Agent
    <3>1. n + 1 \in 1..Len(plan)
      BY <1>0, <1>4
    <3>2. plan[n + 1] \in PlanStep
      BY <1>0, <3>1
    <3> QED
      BY <3>2 DEF PlanStep
  <2>2. /\ target'[c] = plan[n + 1].agent
        /\ runs' = runs
        /\ \/ callAt'[c] = "executing"
           \/ callAt'[c] = "answered" /\ response'[c] = "agent_not_found"
    BY <1>0, <1>4, <2>1, ExecuteOwn
  <2>3. turn'[c] = n + 1
    BY <1>0, <1>4 DEF TypeOK
  <2>4. plan[n + 1].dependency = None \/ HasResult(c, plan[n + 1].dependency)
    BY <1>4
  <2> QED
    BY <1>0, <1>1, <1>4, <2>2, <2>3, <2>4 DEF SequenceInv, HasResult, AllSucceeded, Succeeded
<1> QED
  BY <1>2, <1>3, <1>4 DEF Proceed

\* Every step of a sequential call preserves its invariant.
LEMMA SequenceStepped ==
    ASSUME TypeOK, NEW c \in SequentialCall, SequenceInv(c), SequentialStep(c)
    PROVE  SequenceInv(c)'
<1>0. c \in Call /\ results[c] \subseteq Agent /\ turn[c] \in Nat
  BY DEF Call, TypeOK
<1>1. CASE SequentialStart(c)
  <2>1. runs[c] = <<>> /\ AllSucceeded(c) /\ Len(runs[c]) + 1 = 1
    BY <1>1 DEF SequentialStart, SequenceInv, AllSucceeded
  <2>2. Proceed(c, Len(runs[c]) + 1, {})
    BY <1>1, <2>1 DEF SequentialStart
  <2> QED
    BY <2>1, <2>2, SequenceProceeds
<1>2. CASE SequentialResume(c)
  <2>1. CASE response[c] \notin Succeeded /\ Return(c, response[c]) /\ UNCHANGED results
    BY <1>0, <2>1, ReturnEnds DEF SequenceInv, Succeeded
  <2>2. CASE response[c] = "success" /\ Proceed(c, turn[c] + 1, results[c] \union {target[c]})
    <3>1. turn[c] = Len(runs[c]) /\ AllSucceeded(c) /\ HasResult(c, target[c])
      BY <1>2, <2>2 DEF SequentialResume, SequenceInv, Succeeded
    <3>2. target[c] \in Agent
      BY <1>0, <3>1 DEF HasResult, TypeOK, Run
    <3>3. \A a \in results[c] \union {target[c]}: HasResult(c, a)
      BY <3>1 DEF SequenceInv
    <3> QED
      BY <1>0, <2>2, <3>1, <3>2, <3>3, SequenceProceeds
  <2>3. CASE response[c] = "empty" /\ Proceed(c, turn[c] + 1, results[c] \ {target[c]})
    <3>1. turn[c] = Len(runs[c]) /\ AllSucceeded(c)
      BY <1>2, <2>3 DEF SequentialResume, SequenceInv, Succeeded
    <3>2. \A a \in results[c] \ {target[c]}: HasResult(c, a)
      BY DEF SequenceInv
    <3> QED
      BY <1>0, <2>3, <3>1, <3>2, SequenceProceeds
  <2> QED
    BY <1>2, <2>1, <2>2, <2>3 DEF SequentialResume
<1> QED
  BY <1>1, <1>2 DEF SequentialStep

\* The invariants of the sequential calls together.
SequencesInv == \A c \in SequentialCall: SequenceInv(c)

\* A sequential call runs the agents of its steps in order, each after a run of
\* its own that made the dependency available, none after a failure, and all of
\* them if it reports success; whatever other calls do to the shared memory.
THEOREM StepsInOrder == Spec => []SequenceFollowsItsSteps
<1>1. Init => SequencesInv
  <2> SUFFICES ASSUME Init, NEW c \in SequentialCall
               PROVE  SequenceInv(c)
    BY DEF SequencesInv
  <2>1. c \in Call /\ StepsOf[c] \in Seq(PlanStep)
    BY CoordinatorAssumption DEF Call
  <2> QED
    BY <2>1 DEF Init, SequenceInv, HasResult
<1>2. TypeOK /\ SequencesInv /\ [Next]_vars => SequencesInv'
  <2> SUFFICES ASSUME TypeOK, [Next]_vars, NEW c \in SequentialCall, SequenceInv(c)
               PROVE  SequenceInv(c)'
    BY DEF SequencesInv
  <2>1. c \in Call /\ c \notin RecoveryCall
    BY CoordinatorAssumption DEF Call
  <2>2. CASE AgentAnswers(c)
    BY <2>2, SequenceAnswered
  <2>3. CASE SequentialStep(c)
    BY <2>3, SequenceStepped
  <2>4. CASE ~AgentAnswers(c) /\ ~SequentialStep(c)
    <3>1. CallKept(c)
      BY <2>1, <2>4, OthersKeepCall
    <3> QED
      BY <3>1, SequenceKept
  <2> QED
    BY <2>2, <2>3, <2>4
<1>3. SequencesInv => SequenceFollowsItsSteps
  BY DEF SequencesInv, SequenceInv, SequenceFollowsItsSteps
<1> QED
  BY <1>1, <1>2, <1>3, CoordinatorTypeCorrect, PTL DEF Spec

---------------------------------------------------------------------------
(* The workflow with recovery.                                             *)

\* Call c has run no other agent than the one it asks for, once a turn at most.
OnlyOwnRuns(c) ==
    /\ Len(runs[c]) <= turn[c]
    /\ \A i \in DOMAIN runs[c]: runs[c][i].agent = AgentOf[c]

\* The inductive form of RecoveryIsBounded for one call: a run of another
\* agent is the last one, and comes after at most as many runs as turns.
RecoveryInv(c) ==
    /\ turn[c] <= MaxRetries
    /\ Len(runs[c]) <= turn[c] + 1
    /\ \A i \in DOMAIN runs[c]:
        /\ runs[c][i].agent # AgentOf[c] => i = Len(runs[c])
        /\ i = turn[c] + 1 => runs[c][i].agent # AgentOf[c]
    /\ ~fellBack[c] => OnlyOwnRuns(c)
    /\ callAt[c] = "idle" => runs[c] = <<>> /\ ~fellBack[c]
    /\ callAt[c] = "executing" => OnlyOwnRuns(c)
    /\ callAt[c] = "executing" /\ ~fellBack[c] =>
        Len(runs[c]) < turn[c] /\ target[c] = AgentOf[c]
    /\ callAt[c] = "executing" /\ fellBack[c] => target[c] # AgentOf[c]
    /\ callAt[c] = "sleeping" => turn[c] < MaxRetries /\ ~fellBack[c]

\* A step that leaves the call alone preserves the invariant.
LEMMA RecoveryKept ==
    ASSUME NEW c \in RecoveryCall, RecoveryInv(c), CallKept(c)
    PROVE  RecoveryInv(c)'
<1>1. OnlyOwnRuns(c)' <=> OnlyOwnRuns(c)
  BY DEF CallKept, OnlyOwnRuns
<1>2. /\ callAt'[c] = callAt[c] /\ target'[c] = target[c]
      /\ turn'[c] = turn[c] /\ fellBack'[c] = fellBack[c] /\ runs'[c] = runs[c]
  BY DEF CallKept
<1> QED
  BY <1>1, <1>2 DEF RecoveryInv

\* The agent of a call with recovery answers: one more run, its own or, after
\* it fell back, another's.
LEMMA RecoveryAnswered ==
    ASSUME TypeOK, NEW c \in RecoveryCall, RecoveryInv(c), AgentAnswers(c)
    PROVE  RecoveryInv(c)'
<1>0. c \in Call /\ runs[c] \in Seq(Run) /\ turn[c] \in Nat /\ fellBack[c] \in BOOLEAN
  BY DEF Call, TypeOK
<1> DEFINE n == Len(runs[c])
<1>1. PICK answer \in Answers:
        /\ runs'[c] = Append(runs[c], [agent |-> target[c], answer |-> answer])
        /\ callAt'[c] \in {"answered", "rejected"}
  BY <1>0, AnswerOwn
<1>2. /\ callAt[c] = "executing"
      /\ turn'[c] = turn[c] /\ fellBack'[c] = fellBack[c]
  BY <1>0, AnswerOwn
<1>3. /\ n \in Nat /\ n <= turn[c] /\ turn[c] <= MaxRetries
      /\ \A i \in 1..n: runs[c][i].agent = AgentOf[c]
      /\ ~fellBack[c] => n < turn[c] /\ target[c] = AgentOf[c]
      /\ fellBack[c] => target[c] # AgentOf[c]
  BY <1>0, <1>2 DEF RecoveryInv, OnlyOwnRuns
<1>4. /\ Len(runs'[c]) = n + 1
      /\ DOMAIN runs'[c] = 1..(n + 1)
      /\ \A i \in 1..n: runs'[c][i] = runs[c][i]
      /\ runs'[c][n + 1].agent = target[c]
  BY <1>0, <1>1
<1>5. ASSUME NEW i \in 1..(n + 1)
      PROVE  /\ runs'[c][i].agent # AgentOf[c] => i = n + 1
             /\ i = turn[c] + 1 => runs'[c][i].agent # AgentOf[c]
  <2>1. i \in 1..n \/ i = n + 1
    BY <1>3
  <2>2. i \in 1..n => runs'[c][i].agent = AgentOf[c] /\ i # turn[c] + 1
    BY <1>0, <1>3, <1>4
  <2>3. n + 1 = turn[c] + 1 => target[c] # AgentOf[c]
    BY <1>0, <1>3
  <2> QED
    BY <1>4, <2>1, <2>2, <2>3
<1>6. ASSUME ~fellBack[c]
      PROVE  OnlyOwnRuns(c)'
  <2>1. Len(runs'[c]) <= turn'[c]
    BY <1>0, <1>2, <1>3, <1>4, <1>6
  <2>2. \A i \in 1..(n + 1): runs'[c][i].agent = AgentOf[c]
    <3>1. target[c] = AgentOf[c]
      BY <1>3, <1>6
    <3>2. \A i \in 1..(n + 1): i \in 1..n \/ i = n + 1
      BY <1>3
    <3> QED
      BY <1>3, <1>4, <3>1, <3>2
  <2> QED
    BY <1>4, <2>1, <2>2 DEF OnlyOwnRuns
<1> QED
  BY <1>0, <1>1, <1>2, <1>3, <1>4, <1>5, <1>6 DEF RecoveryInv

\* The call ends.
LEMMA RecoveryEnds ==
    ASSUME TypeOK, NEW c \in RecoveryCall, RecoveryInv(c), RecoveryEnd(c)
    PROVE  RecoveryInv(c)'
<1>1. callAt'[c] = "returned" /\ turn' = turn /\ fellBack' = fellBack /\ runs' = runs
  BY DEF RecoveryEnd, Return, TypeOK, Call
<1>2. OnlyOwnRuns(c)' <=> OnlyOwnRuns(c)
  BY <1>1 DEF OnlyOwnRuns
<1> QED
  BY <1>1, <1>2 DEF RecoveryInv

\* Another turn, while there have been fewer than MaxRetries and all the runs
\* were the call's own.
LEMMA RecoveryTurn ==
    ASSUME TypeOK, NEW c \in RecoveryCall, RecoveryInv(c), ~fellBack[c],
           turn' = [turn EXCEPT ![c] = @ + 1], turn[c] < MaxRetries,
           NEW t, Execute(c, AgentOf[c], t), UNCHANGED fellBack
    PROVE  RecoveryInv(c)'
<1>0. c \in Call /\ AgentOf[c] \in Agent /\ turn[c] \in Nat /\ Len(runs[c]) \in Nat
  BY CoordinatorAssumption DEF Call, TypeOK
<1>1. /\ target'[c] = AgentOf[c] /\ runs' = runs /\ fellBack' = fellBack
      /\ callAt'[c] \in {"executing", "answered"}
  BY <1>0, ExecuteOwn
<1>2. turn'[c] = turn[c] + 1
  BY <1>0 DEF TypeOK
<1>3. Len(runs[c]) <= turn[c] /\ \A i \in DOMAIN runs[c]: runs[c][i].agent = AgentOf[c]
  BY DEF RecoveryInv, OnlyOwnRuns
<1>4. OnlyOwnRuns(c)'
  BY <1>0, <1>1, <1>2, <1>3 DEF OnlyOwnRuns
<1>5. \A i \in DOMAIN runs[c]: i # turn[c] + 1 + 1
  BY <1>0, <1>3
<1>6. turn[c] + 1 <= MaxRetries
  BY <1>0, CoordinatorAssumption
<1> QED
  BY <1>0, <1>1, <1>2, <1>3, <1>4, <1>5, <1>6 DEF RecoveryInv

\* The call falls back on another agent.
LEMMA RecoveryFallsBack ==
    ASSUME TypeOK, NEW c \in RecoveryCall, RecoveryInv(c), ~fellBack[c], FallBack(c)
    PROVE  RecoveryInv(c)'
<1>0. c \in Call
  BY DEF Call
<1>1. PICK i \in Candidates(c): Execute(c, agents[i], now)
  BY DEF FallBack
<1>2. agents[i] \in Agent /\ agents[i] \in ToSet(agents) /\ agents[i] # AgentOf[c]
  BY <1>1 DEF Candidates, TypeOK, ToSet
<1>3. /\ target'[c] = agents[i] /\ runs' = runs /\ turn' = turn
      /\ fellBack'[c] = TRUE /\ callAt'[c] = "executing"
  BY <1>0, <1>1, <1>2, ExecuteOwn DEF FallBack, TypeOK
<1>4. OnlyOwnRuns(c)'
  BY <1>3 DEF RecoveryInv, OnlyOwnRuns
<1> QED
  BY <1>2, <1>3, <1>4 DEF RecoveryInv

\* Every step of a call with recovery preserves its invariant.
LEMMA RecoveryStepped ==
    ASSUME TypeOK, NEW c \in RecoveryCall, RecoveryInv(c), RecoveryStep(c)
    PROVE  RecoveryInv(c)'
<1>0. c \in Call /\ turn[c] \in Nat /\ AgentOf[c] \in Agent /\ MaxRetries \in Nat \ {0}
  BY CoordinatorAssumption DEF Call, TypeOK
<1>1. CASE RecoveryStart(c)
  <2>1. /\ runs[c] = <<>> /\ runs' = runs
        /\ fellBack[c] = FALSE /\ fellBack' = fellBack
        /\ turn'[c] = 1 /\ target'[c] = AgentOf[c]
        /\ callAt'[c] \in {"executing", "answered"}
    BY <1>0, <1>1, ExecuteOwn DEF RecoveryStart, RecoveryInv, TypeOK
  <2>2. OnlyOwnRuns(c)'
    BY <2>1 DEF OnlyOwnRuns
  <2> QED
    BY <1>0, <2>1, <2>2 DEF RecoveryInv
<1>2. CASE RecoveryWake(c)
  <2>1. turn[c] < MaxRetries /\ ~fellBack[c]
    BY <1>2 DEF RecoveryWake, RecoveryInv
  <2> QED
    BY <1>2, <2>1, RecoveryTurn DEF RecoveryWake
<1>3. CASE RecoveryResume(c)
  <2>1. \/ RecoveryEnd(c)
        \/ ~fellBack[c] /\ FallBack(c)
        \/ ~fellBack[c] /\ turn[c] < MaxRetries /\ Sleep(c)
    BY <1>3 DEF RecoveryResume, RecoverySettled
  <2>2. CASE ~fellBack[c] /\ turn[c] < MaxRetries /\ Sleep(c)
    <3>1. callAt'[c] = "sleeping" /\ turn' = turn /\ fellBack' = fellBack /\ runs' = runs
      BY <1>0, <2>2 DEF Sleep, TypeOK
    <3>2. OnlyOwnRuns(c)' <=> OnlyOwnRuns(c)
      BY <3>1 DEF OnlyOwnRuns
    <3> QED
      BY <2>2, <3>1, <3>2 DEF RecoveryInv
  <2> QED
    BY <2>1, <2>2, RecoveryEnds, RecoveryFallsBack
<1> QED
  BY <1>1, <1>2, <1>3 DEF RecoveryStep

\* The invariants of the calls with recovery together.
RecoveriesInv == \A c \in RecoveryCall: RecoveryInv(c)

\* They hold in every reachable state.
LEMMA RecoveriesInvariant == Spec => []RecoveriesInv
<1>1. Init => RecoveriesInv
  <2> SUFFICES ASSUME Init, NEW c \in RecoveryCall
               PROVE  RecoveryInv(c)
    BY DEF RecoveriesInv
  <2>1. c \in Call
    BY DEF Call
  <2>2. runs[c] = <<>> /\ turn[c] = 0 /\ callAt[c] = "idle" /\ ~fellBack[c]
    BY <2>1 DEF Init
  <2> QED
    BY <2>2, CoordinatorAssumption DEF RecoveryInv, OnlyOwnRuns
<1>2. TypeOK /\ RecoveriesInv /\ [Next]_vars => RecoveriesInv'
  <2> SUFFICES ASSUME TypeOK, [Next]_vars, NEW c \in RecoveryCall, RecoveryInv(c)
               PROVE  RecoveryInv(c)'
    BY DEF RecoveriesInv
  <2>1. c \in Call /\ c \notin SequentialCall
    BY CoordinatorAssumption DEF Call
  <2>2. CASE AgentAnswers(c)
    BY <2>2, RecoveryAnswered
  <2>3. CASE RecoveryStep(c)
    BY <2>3, RecoveryStepped
  <2>4. CASE ~AgentAnswers(c) /\ ~RecoveryStep(c)
    <3>1. CallKept(c)
      BY <2>1, <2>4, OthersKeepCall
    <3> QED
      BY <3>1, RecoveryKept
  <2> QED
    BY <2>2, <2>3, <2>4
<1> QED
  BY <1>1, <1>2, CoordinatorTypeCorrect, PTL DEF Spec

\* A call with recovery runs its agent at most MaxRetries times, and at most one
\* other agent, once and last, whatever fails and whoever is registered meanwhile.
THEOREM RetriesAreBounded == Spec => []RecoveryIsBounded
<1>1. TypeOK /\ RecoveriesInv => RecoveryIsBounded
  <2> SUFFICES ASSUME TypeOK, NEW c \in RecoveryCall, RecoveryInv(c)
               PROVE  LET own == {i \in DOMAIN runs[c]: runs[c][i].agent = AgentOf[c]}
                      IN  /\ Cardinality(own) <= MaxRetries
                          /\ \A i \in (DOMAIN runs[c]) \ own: i = Len(runs[c])
    BY DEF RecoveriesInv, RecoveryIsBounded
  <2> DEFINE own == {i \in DOMAIN runs[c]: runs[c][i].agent = AgentOf[c]}
  <2>1. /\ DOMAIN runs[c] = 1..Len(runs[c]) /\ Len(runs[c]) \in Nat
        /\ turn[c] \in Nat /\ MaxRetries \in Nat
    BY CoordinatorAssumption DEF Call, TypeOK
  <2>2. /\ turn[c] <= MaxRetries /\ Len(runs[c]) <= turn[c] + 1
        /\ \A i \in DOMAIN runs[c]:
            /\ runs[c][i].agent # AgentOf[c] => i = Len(runs[c])
            /\ i = turn[c] + 1 => runs[c][i].agent # AgentOf[c]
    BY DEF RecoveryInv
  <2>3. own \subseteq 1..turn[c]
    BY <2>1, <2>2
  <2>4. Cardinality(own) <= turn[c] /\ Cardinality(own) \in Nat
    <3>1. /\ IsFiniteSet(1..turn[c])
          /\ Cardinality(1..turn[c]) = IF 1 > turn[c] THEN 0 ELSE turn[c] - 1 + 1
      <4>1. 1 \in Int /\ turn[c] \in Int
        BY <2>1
      <4> HIDE DEF own
      <4> QED
        BY <4>1, FS_Interval
    <3>2. IsFiniteSet(own) /\ Cardinality(own) <= Cardinality(1..turn[c])
      BY <2>3, <3>1, FS_Subset
    <3>3. Cardinality(own) \in Nat
      BY <3>2, FS_CardinalityType
    <3> QED
      BY <2>1, <3>1, <3>2, <3>3
  <2>5. Cardinality(own) <= MaxRetries
    BY <2>1, <2>2, <2>4
  <2>6. \A i \in (DOMAIN runs[c]) \ own: i = Len(runs[c])
    BY <2>2
  <2> QED
    BY <2>5, <2>6
<1> QED
  BY <1>1, RecoveriesInvariant, CoordinatorTypeCorrect, PTL

---------------------------------------------------------------------------
(* The history as a path of the memory graph.                              *)

\* The nodes of the steps of h are in g, and the edges between them.
HasPath(g, h) ==
    /\ \A i \in DOMAIN h: StepNode(h[i]) \in DOMAIN g.nodes
    /\ \A i \in 2..Len(h): <<StepNode(h[i - 1]), StepNode(h[i])>> \in g.edges

\* Nothing that is whole in g is missing in grown: neither a node nor an edge
\* between two nodes of g.
Grows(g, grown) ==
    /\ DOMAIN g.nodes \subseteq DOMAIN grown.nodes
    /\ \A from, to \in DOMAIN g.nodes: <<from, to>> \in g.edges => <<from, to>> \in grown.edges

\* A path stays in a graph that grows.
LEMMA GrownPath ==
    ASSUME NEW g, NEW grown, Grows(g, grown), NEW h \in Seq(Step), HasPath(g, h)
    PROVE  HasPath(grown, h)
<1>1. \A i \in DOMAIN h: StepNode(h[i]) \in DOMAIN grown.nodes
  BY DEF HasPath, Grows
<1>2. ASSUME NEW i \in 2..Len(h)
      PROVE  <<StepNode(h[i - 1]), StepNode(h[i])>> \in grown.edges
  <2>1. i \in DOMAIN h /\ i - 1 \in DOMAIN h
    BY <1>2
  <2>2. StepNode(h[i]) \in DOMAIN g.nodes /\ StepNode(h[i - 1]) \in DOMAIN g.nodes
    BY <2>1 DEF HasPath
  <2>3. <<StepNode(h[i - 1]), StepNode(h[i])>> \in g.edges
    BY <1>2 DEF HasPath
  <2> QED
    BY <2>2, <2>3 DEF Grows
<1> QED
  BY <1>1, <1>2 DEF HasPath

\* A node is added, or replaced: its relationships are lost, its edges are not.
LEMMA AddNodeGrows ==
    ASSUME NEW g, NEW id
    PROVE  Grows(g, AddNode(g, id)) /\ id \in DOMAIN AddNode(g, id).nodes
BY DEF AddNode, Cleaned, Grows

\* An edge is added between nodes there are.
LEMMA AddEdgeGrows ==
    ASSUME NEW g, NEW from \in DOMAIN g.nodes, NEW to \in DOMAIN g.nodes
    PROVE  Grows(g, AddEdge(g, from, to)) /\ <<from, to>> \in AddEdge(g, from, to).edges
BY DEF AddEdge, Cleaned, Grows

\* What grows twice has grown.
LEMMA GrowsTwice ==
    ASSUME NEW g, NEW next, NEW last, Grows(g, next), Grows(next, last)
    PROVE  Grows(g, last)
BY DEF Grows

\* A step is recorded, in a graph that has the path of its past: that does not
\* throw, the path is longer by the step, and what else there was is there still.
LEMMA RecordedPath ==
    ASSUME NEW g, NEW past \in Seq(Step), NEW step \in Step, HasPath(g, past)
    PROVE  /\ ~RecordThrows(g, past, step)
           /\ Grows(g, GraphWithStep(g, past, step))
           /\ HasPath(GraphWithStep(g, past, step), Append(past, step))
<1> DEFINE added == AddNode(g, StepNode(step))
           n == Len(past)
           longer == Append(past, step)
<1>1. Grows(g, added) /\ StepNode(step) \in DOMAIN added.nodes
  BY AddNodeGrows
<1>2. /\ n \in Nat /\ longer \in Seq(Step) /\ Len(longer) = n + 1
      /\ DOMAIN longer = 1..(n + 1) /\ DOMAIN past = 1..n
      /\ longer[n + 1] = step /\ \A i \in 1..n: longer[i] = past[i]
  OBVIOUS
<1>3. past # <<>> => n \in DOMAIN past /\ Last(past) = past[n]
  BY <1>2 DEF Last
<1>4. ~RecordThrows(g, past, step)
  BY <1>3 DEF RecordThrows, HasPath
<1> HIDE DEF added, longer
<1>5. CASE past = <<>>
  <2>1. GraphWithStep(g, past, step) = added
    BY <1>5 DEF GraphWithStep, added
  <2>2. n = 0
    BY <1>5
  <2>3. HasPath(added, longer)
    BY <1>1, <1>2, <2>2 DEF HasPath
  <2> QED
    BY <1>1, <1>4, <2>1, <2>3 DEF longer
<1>6. CASE past # <<>>
  <2> DEFINE linked == AddEdge(added, StepNode(Last(past)), StepNode(step))
  <2>1. GraphWithStep(g, past, step) = linked
    BY <1>4, <1>6 DEF GraphWithStep, added
  <2>2. StepNode(Last(past)) \in DOMAIN added.nodes
    BY <1>1, <1>3, <1>6 DEF HasPath, Grows
  <2>3. Grows(added, linked) /\ <<StepNode(Last(past)), StepNode(step)>> \in linked.edges
    BY <1>1, <2>2, AddEdgeGrows
  <2> HIDE DEF linked
  <2>4. Grows(g, linked)
    BY <1>1, <2>3, GrowsTwice
  <2>5. HasPath(linked, past)
    BY <2>4, GrownPath
  <2>6. ASSUME NEW i \in 1..(n + 1)
        PROVE  StepNode(longer[i]) \in DOMAIN linked.nodes
    <3>1. CASE i = n + 1
      BY <1>1, <1>2, <2>3, <3>1 DEF Grows
    <3>2. CASE i \in 1..n
      BY <1>2, <2>5, <3>2 DEF HasPath
    <3> QED
      BY <1>2, <3>1, <3>2
  <2>7. ASSUME NEW i \in 2..(n + 1)
        PROVE  <<StepNode(longer[i - 1]), StepNode(longer[i])>> \in linked.edges
    <3>1. CASE i = n + 1
      <4>1. n \in 1..n /\ longer[i - 1] = Last(past) /\ longer[i] = step
        BY <1>2, <1>3, <1>6, <3>1
      <4> QED
        BY <2>3, <4>1
    <3>2. CASE i \in 2..n
      <4>1. longer[i - 1] = past[i - 1] /\ longer[i] = past[i]
        BY <1>2, <3>2
      <4> QED
        BY <2>5, <3>2, <4>1 DEF HasPath
    <3> QED
      BY <1>2, <3>1, <3>2
  <2>8. HasPath(linked, longer)
    BY <1>2, <2>6, <2>7 DEF HasPath
  <2> QED
    BY <1>4, <2>1, <2>4, <2>8 DEF longer
<1> QED
  BY <1>5, <1>6

\* The inductive form of HistoryIsLinked.
PathsInv == imports = 0 => \A w \in Workflow: HasPath(graph, history[w])

\* An answer is recorded without a failure, under the path of its workflow.
LEMMA AnswerRecorded ==
    ASSUME MemoryInv, PathsInv, imports = 0, NEW c \in Call, AgentAnswers(c)
    PROVE  /\ \A w \in Workflow: HasPath(graph', history'[w])
           /\ \E answer \in Answers:
                /\ runs' = [runs EXCEPT ![c] = Append(@, [agent |-> target[c], answer |-> answer])]
                /\ Record(c, <<StepOf(c, answer \in Succeeded)>>)
                /\ callAt'[c] = "answered"
                /\ answer # "threw" => response'[c] = answer
<1> PICK answer \in Answers:
        /\ runs' = [runs EXCEPT ![c] = Append(@, [agent |-> target[c], answer |-> answer])]
        /\ IF answer = "threw" THEN AnswerThrew(c) ELSE AnswerResolved(c, answer)
  BY DEF AgentAnswers
<1> DEFINE past == history[WorkflowOf[c]]
           step == StepOf(c, answer \in Succeeded)
<1>1. WorkflowOf[c] \in Workflow /\ past \in Seq(Step) /\ target[c] \in Agent
  BY CoordinatorAssumption DEF MemoryInv, TypeOK, TargetKnown, AgentAnswers
<1>2. step \in Step
  BY <1>1 DEF StepOf, Step, MemoryInv, TypeOK
<1>3. answer = "threw" => answer \notin Succeeded
  BY DEF Succeeded
<1>4. /\ ~RecordThrows(graph, past, step)
      /\ Grows(graph, GraphWithStep(graph, past, step))
      /\ HasPath(GraphWithStep(graph, past, step), Append(past, step))
  <2>1. HasPath(graph, past)
    BY <1>1 DEF PathsInv
  <2> HIDE DEF past, step
  <2> QED
    BY <1>1, <1>2, <2>1, RecordedPath
<1>5. /\ Record(c, <<step>>) /\ graph' = GraphWithStep(graph, past, step)
      /\ callAt'[c] = "answered"
      /\ answer # "threw" => response'[c] = answer
  <2>1. CASE answer = "threw"
    <3>0. (answer \in Succeeded) = FALSE
      BY <1>3, <2>1
    <3>1. step = StepOf(c, FALSE)
      BY <3>0 DEF StepOf
    <3>2. ~RecordThrows(graph, past, StepOf(c, FALSE)) /\ AnswerThrew(c)
      BY <1>4, <2>1, <3>1
    <3>3. /\ Record(c, <<StepOf(c, FALSE)>>)
          /\ graph' = GraphWithStep(graph, past, StepOf(c, FALSE))
          /\ callAt' = [callAt EXCEPT ![c] = "answered"]
      BY <3>2 DEF AnswerThrew
    <3>4. callAt'[c] = "answered"
      BY <3>3 DEF MemoryInv, TypeOK
    <3> QED
      BY <2>1, <3>1, <3>3, <3>4
  <2>2. CASE answer # "threw"
    BY <1>4, <2>2 DEF AnswerResolved, MemoryInv, TypeOK
  <2> QED
    BY <2>1, <2>2
<1>6. ASSUME NEW w \in Workflow
      PROVE  HasPath(graph', history'[w])
  <2>1. history[w] \in Seq(Step) /\ HasPath(graph, history[w])
    BY DEF PathsInv, MemoryInv, TypeOK
  <2>2. CASE w = WorkflowOf[c]
    <3>1. history'[w] = past \o <<step>>
      BY <1>5, <2>2 DEF Record, MemoryInv, TypeOK
    <3>2. past \o <<step>> = Append(past, step)
      BY <1>1, <1>2
    <3> QED
      BY <1>4, <1>5, <3>1, <3>2
  <2>3. CASE w # WorkflowOf[c]
    <3>1. history'[w] = history[w]
      BY <1>5, <2>3 DEF Record, MemoryInv, TypeOK
    <3> QED
      BY <1>4, <1>5, <2>1, <3>1, GrownPath
  <2> QED
    BY <2>2, <2>3
<1> QED
  BY <1>5, <1>6

\* A step that records nothing and imports nothing lets the graph grow.
LEMMA GraphGrows ==
    ASSUME MemoryInv, [Next]_vars, ~Import, \A c \in Call: ~AgentAnswers(c)
    PROVE  Grows(graph, graph') /\ history' = history /\ imports' = imports
<1>1. Grows(graph, graph)
  BY DEF Grows
<1>2. ASSUME NEW c, NEW a, NEW t, Execute(c, a, t)
      PROVE  Grows(graph, graph') /\ history' = history /\ imports' = imports
  BY <1>1, <1>2, AddNodeGrows DEF Execute, StoreContext
<1>3. ASSUME NEW c, NEW r, Return(c, r)
      PROVE  Grows(graph, graph') /\ history' = history /\ imports' = imports
  BY <1>1, <1>3 DEF Return, memoryVars
<1>4. ASSUME NEW c \in SequentialCall, SequentialStep(c)
      PROVE  Grows(graph, graph') /\ history' = history /\ imports' = imports
  BY <1>2, <1>3, <1>4 DEF SequentialStep, SequentialStart, SequentialResume, Proceed
<1>5. ASSUME NEW c \in RecoveryCall, RecoveryStep(c)
      PROVE  Grows(graph, graph') /\ history' = history /\ imports' = imports
  <2>1. CASE RecoveryStart(c) \/ RecoveryWake(c) \/ FallBack(c)
    BY <1>2, <2>1 DEF RecoveryStart, RecoveryWake, FallBack
  <2>2. CASE RecoveryEnd(c)
    BY <1>3, <2>2 DEF RecoveryEnd
  <2>3. CASE Sleep(c)
    BY <1>1, <2>3 DEF Sleep, memoryVars
  <2> QED
    BY <1>5, <2>1, <2>2, <2>3 DEF RecoveryStep, RecoveryResume
<1>6. CASE Tick \/ Export \/ UNCHANGED vars
  BY <1>1, <1>6 DEF Tick, Export, vars, memoryVars
<1>7. ASSUME NEW a \in Agent, RegisterAgent(a)
      PROVE  Grows(graph, graph') /\ history' = history /\ imports' = imports
  BY <1>7, AddNodeGrows DEF RegisterAgent
<1> QED
  BY <1>4, <1>5, <1>6, <1>7 DEF Next

\* Every step preserves the paths.
LEMMA StepPaths == MemoryInv /\ PathsInv /\ [Next]_vars => PathsInv'
<1> SUFFICES ASSUME MemoryInv, PathsInv, [Next]_vars, imports' = 0
             PROVE  \A w \in Workflow: HasPath(graph', history'[w])
  BY DEF PathsInv
<1>1. ~Import
  BY DEF Import, MemoryInv, TypeOK
<1>2. ASSUME NEW c \in Call, AgentAnswers(c)
      PROVE  \A w \in Workflow: HasPath(graph', history'[w])
  <2>1. imports = 0
    BY <1>2 DEF AgentAnswers
  <2> QED
    BY <1>2, <2>1, AnswerRecorded
<1>3. CASE \A c \in Call: ~AgentAnswers(c)
  <2>1. Grows(graph, graph') /\ history' = history /\ imports = 0
    BY <1>1, <1>3, GraphGrows
  <2>2. \A w \in Workflow: history[w] \in Seq(Step) /\ HasPath(graph, history[w])
    BY <2>1 DEF PathsInv, MemoryInv, TypeOK
  <2> QED
    BY <2>1, <2>2, GrownPath
<1> QED
  BY <1>2, <1>3

\* The paths are there in every reachable state.
LEMMA PathsInvariant == Spec => []PathsInv
<1>1. Init => PathsInv
  BY DEF Init, PathsInv, HasPath
<1> QED
  BY <1>1, StepPaths, MemoryInvariant, PTL DEF Spec

---------------------------------------------------------------------------
(* The history and the runs, counted.                                      *)

\* The places in h of the steps of agent a that succeeded, or failed.
Matching(h, a, success) == {i \in DOMAIN h: h[i].agent = a /\ h[i].success = success}

\* How many more places there are with one more step.
OneIf(yes) == IF yes THEN 1 ELSE 0

\* One more step in a history.
LEMMA MatchingAppended ==
    ASSUME NEW h \in Seq(Step), NEW step \in Step, NEW a, NEW success
    PROVE  /\ Cardinality(Matching(h, a, success)) \in Nat
           /\ Cardinality(Matching(Append(h, step), a, success))
                = Cardinality(Matching(h, a, success))
                    + OneIf(step.agent = a /\ step.success = success)
<1> DEFINE n == Len(h)
           longer == Append(h, step)
           old == Matching(h, a, success)
<1>1. /\ n \in Nat /\ DOMAIN h = 1..n /\ DOMAIN longer = 1..(n + 1)
      /\ longer[n + 1] = step /\ \A i \in 1..n: longer[i] = h[i]
  OBVIOUS
<1>2. IsFiniteSet(old) /\ n + 1 \notin old
  <2>1. old \subseteq 1..n
    BY <1>1 DEF Matching
  <2>2. IsFiniteSet(1..n)
    <3>1. 1 \in Int /\ n \in Int
      BY <1>1
    <3> QED
      BY <3>1, FS_Interval
  <2> HIDE DEF old
  <2>3. IsFiniteSet(old)
    BY <2>1, <2>2, FS_Subset
  <2> QED
    BY <1>1, <2>1, <2>3
<1>3. Cardinality(old) \in Nat
  BY <1>2, FS_CardinalityType
<1>4. CASE step.agent = a /\ step.success = success
  <2>1. Matching(longer, a, success) = old \union {n + 1}
    BY <1>1, <1>4 DEF Matching
  <2> HIDE DEF old, longer
  <2>2. Cardinality(old \union {n + 1}) = Cardinality(old) + 1
    BY <1>2, FS_AddElement
  <2> QED
    BY <1>3, <1>4, <2>1, <2>2 DEF OneIf, old, longer
<1>5. CASE ~(step.agent = a /\ step.success = success)
  <2>1. Matching(longer, a, success) = old
    BY <1>1, <1>5 DEF Matching
  <2> HIDE DEF old, longer
  <2> QED
    BY <1>3, <1>5, <2>1 DEF OneIf, old, longer
<1> QED
  BY <1>4, <1>5

\* All the ended runs.
AllRuns == UNION {{c} \X DOMAIN runs[c]: c \in Call}

\* The run ended with success, or without.
EndedAs(run, success) == (run.answer \in Succeeded) = success

\* Call c ends one more run.
OneMoreRun(c, run) == runs' = [runs EXCEPT ![c] = Append(@, run)]

\* It adds to the count of the runs of its workflow, agent and outcome.
LEMMA RunEnded ==
    ASSUME TypeOK, NEW c \in Call, NEW run \in Run, IsFiniteSet(AllRuns),
           OneMoreRun(c, run),
           NEW w, NEW a, NEW success
    PROVE  /\ IsFiniteSet(AllRuns')
           /\ RunsIn(w, a, success) \in Nat
           /\ WorkflowOf[c] = w /\ run.agent = a /\ EndedAs(run, success)
                => RunsIn(w, a, success)' = RunsIn(w, a, success) + 1
           /\ ~(WorkflowOf[c] = w /\ run.agent = a /\ EndedAs(run, success))
                => RunsIn(w, a, success)' = RunsIn(w, a, success)
<1> DEFINE n == Len(runs[c])
           new == <<c, n + 1>>
           old == EndedRuns(w, a, success)
           matches == /\ WorkflowOf[c] = w /\ run.agent = a
                      /\ EndedAs(run, success)
<1>1. /\ n \in Nat /\ DOMAIN runs[c] = 1..n
      /\ DOMAIN runs'[c] = 1..(n + 1) /\ runs'[c][n + 1] = run
      /\ \A i \in 1..n: runs'[c][i] = runs[c][i]
      /\ \A d \in Call: d # c => runs'[d] = runs[d]
  <2>1. runs[c] \in Seq(Run) /\ runs'[c] = Append(runs[c], run)
    BY DEF TypeOK, OneMoreRun
  <2>2. \A d \in Call: d # c => runs'[d] = runs[d]
    BY DEF TypeOK, OneMoreRun
  <2> QED
    BY <2>1, <2>2
<1>2. \A r: r \in AllRuns <=> \E d \in Call: \E i \in DOMAIN runs[d]: r = <<d, i>>
  BY DEF AllRuns
<1>3. \A r: r \in AllRuns' <=> \E d \in Call: \E i \in DOMAIN runs'[d]: r = <<d, i>>
  BY DEF AllRuns
<1>4. new \notin AllRuns /\ new \in AllRuns'
  <2>1. n + 1 \notin DOMAIN runs[c] /\ n + 1 \in DOMAIN runs'[c]
    BY <1>1
  <2> QED
    BY <1>2, <1>3, <2>1
<1>5. ASSUME NEW r
      PROVE  r \in AllRuns' <=> r \in AllRuns \/ r = new
  <2>1. ASSUME NEW d \in Call, NEW i \in DOMAIN runs'[d], r = <<d, i>>
        PROVE  r \in AllRuns \/ r = new
    <3>1. CASE d # c
      BY <1>1, <1>2, <2>1, <3>1
    <3>2. CASE d = c
      <4>1. i \in 1..n \/ i = n + 1
        BY <1>1, <2>1, <3>2
      <4> QED
        BY <1>1, <1>2, <2>1, <3>2, <4>1
    <3> QED
      BY <3>1, <3>2
  <2>2. ASSUME NEW d \in Call, NEW i \in DOMAIN runs[d], r = <<d, i>>
        PROVE  r \in AllRuns'
    <3>1. i \in DOMAIN runs'[d]
      BY <1>1, <2>2
    <3> QED
      BY <1>3, <2>2, <3>1
  <2> QED
    BY <1>2, <1>3, <1>4, <2>1, <2>2
<1>6. AllRuns' = AllRuns \union {new}
  BY <1>5
<1>7. ASSUME NEW r \in AllRuns
      PROVE  r \in EndedRuns(w, a, success)' <=> r \in old
  <2>1. PICK d \in Call: \E i \in DOMAIN runs[d]: r = <<d, i>>
    BY <1>2
  <2> PICK i \in DOMAIN runs[d]: r = <<d, i>>
    BY <2>1
  <2>2. runs'[d][i] = runs[d][i] /\ r[1] = d /\ r[2] = i
    BY <1>1, <2>1
  <2>3. r \in AllRuns'
    BY <1>5
  <2> QED
    BY <2>2, <2>3 DEF EndedRuns, AllRuns
<1>8. new \in EndedRuns(w, a, success)' <=> matches
  <2>1. new[1] = c /\ new[2] = n + 1 /\ runs'[c][n + 1] = run
    BY <1>1
  <2> QED
    BY <1>4, <2>1 DEF EndedRuns, AllRuns, EndedAs
<1>9. EndedRuns(w, a, success)' \subseteq AllRuns' /\ old \subseteq AllRuns
  BY DEF EndedRuns, AllRuns
<1>10. IsFiniteSet(AllRuns')
  <2> HIDE DEF new
  <2> QED
    BY <1>6, FS_AddElement
<1>11. IsFiniteSet(old) /\ new \notin old /\ Cardinality(old) \in Nat
  <2> HIDE DEF old, new
  <2>1. IsFiniteSet(old)
    BY <1>9, FS_Subset
  <2> QED
    BY <1>4, <1>9, <2>1, FS_CardinalityType
<1>12. CASE matches
  <2>1. EndedRuns(w, a, success)' = old \union {new}
    <3> HIDE DEF old, new, matches
    <3> QED
      BY <1>6, <1>7, <1>8, <1>9, <1>12
  <2> HIDE DEF old, new
  <2>2. Cardinality(old \union {new}) = Cardinality(old) + 1
    BY <1>11, FS_AddElement
  <2> QED
    BY <1>10, <1>11, <1>12, <2>1, <2>2 DEF RunsIn, old
<1>13. CASE ~matches
  <2>1. EndedRuns(w, a, success)' = old
    <3> HIDE DEF old, new, matches
    <3> QED
      BY <1>6, <1>7, <1>8, <1>9, <1>13
  <2> HIDE DEF old, new
  <2> QED
    BY <1>10, <1>11, <1>13, <2>1 DEF RunsIn, old
<1> QED
  BY <1>12, <1>13

\* One element more, and two.
LEMMA OneOrTwoMore ==
    ASSUME NEW S, NEW seq \in Seq(S), NEW x \in S, NEW y \in S
    PROVE  /\ Append(seq, x) \in Seq(S)
           /\ seq \o <<x>> = Append(seq, x)
           /\ seq \o <<x, y>> = Append(Append(seq, x), y)
<1>1. Append(seq, x) \in Seq(S) /\ seq \o <<x>> = Append(seq, x)
  OBVIOUS
<1>2. seq \o <<x, y>> = Append(Append(seq, x), y)
  <2>1. /\ seq \o <<x, y>> \in Seq(S)
        /\ Append(Append(seq, x), y) \in Seq(S)
        /\ Len(seq \o <<x, y>>) = Len(Append(Append(seq, x), y))
    OBVIOUS
  <2>2. ASSUME NEW i \in 1..Len(seq \o <<x, y>>)
        PROVE  (seq \o <<x, y>>)[i] = Append(Append(seq, x), y)[i]
    OBVIOUS
  <2> QED
    BY <2>1, <2>2
<1> QED
  BY <1>1, <1>2

\* What recording one more step of call c does to the counts of agent a's steps.
LEMMA StepCounted ==
    ASSUME NEW past \in Seq(Step), NEW c \in Call, NEW a, NEW good \in BOOLEAN,
           StepOf(c, good) \in Step, NEW success \in BOOLEAN
    PROVE  /\ Cardinality(Matching(past, a, success)) \in Nat
           /\ Cardinality(Matching(Append(past, StepOf(c, good)), a, success))
                = Cardinality(Matching(past, a, success))
                    + OneIf(target[c] = a /\ good = success)
<1> DEFINE step == StepOf(c, good)
<1>1. step.agent = target[c] /\ step.success = good
  BY DEF StepOf
<1> HIDE DEF step
<1>2. step \in Step
  BY DEF step
<1>3. /\ Cardinality(Matching(past, a, success)) \in Nat
      /\ Cardinality(Matching(Append(past, step), a, success))
           = Cardinality(Matching(past, a, success))
               + OneIf(step.agent = a /\ step.success = success)
  BY <1>2, MatchingAppended
<1> QED
  BY <1>1, <1>3 DEF step

\* What an answer adds to the counts of workflow w and agent a: a step for the
\* run, and after an import perhaps a failure more.
LEMMA AnswerCounted ==
    ASSUME MemoryInv, PathsInv, IsFiniteSet(AllRuns), NEW c \in Call, AgentAnswers(c),
           NEW w \in Workflow, NEW a \in Agent
    PROVE  \E good \in BOOLEAN, more \in Nat:
            LET hit == WorkflowOf[c] = w /\ target[c] = a IN
            /\ RunsIn(w, a, TRUE)' = RunsIn(w, a, TRUE) + OneIf(hit /\ good)
            /\ RunsIn(w, a, FALSE)' = RunsIn(w, a, FALSE) + OneIf(hit /\ ~good)
            /\ StepsIn(w, a, TRUE)' = StepsIn(w, a, TRUE) + OneIf(hit /\ good)
            /\ StepsIn(w, a, FALSE)' = StepsIn(w, a, FALSE) + OneIf(hit /\ ~good) + more
            /\ imports = 0 => more = 0
<1> DEFINE past == history[WorkflowOf[c]]
           failure == StepOf(c, FALSE)
           hit == WorkflowOf[c] = w /\ target[c] = a
<1>1. PICK answer \in Answers:
        /\ runs' = [runs EXCEPT ![c] = Append(@, [agent |-> target[c], answer |-> answer])]
        /\ \/ Record(c, <<StepOf(c, answer \in Succeeded)>>)
           \/ imports # 0 /\ Record(c, <<StepOf(c, answer \in Succeeded), failure>>)
  <2>1. CASE imports = 0
    BY <2>1, AnswerRecorded
  <2>2. CASE imports # 0
    <3> PICK answer \in Answers:
          /\ runs' = [runs EXCEPT ![c] = Append(@, [agent |-> target[c], answer |-> answer])]
          /\ IF answer = "threw" THEN AnswerThrew(c) ELSE AnswerResolved(c, answer)
      BY DEF AgentAnswers
    <3>1. CASE answer = "threw"
      <4>1. (answer \in Succeeded) = FALSE
        BY <3>1 DEF Succeeded
      <4>2. failure = StepOf(c, answer \in Succeeded)
        BY <4>1 DEF StepOf
      <4>3. Record(c, <<failure>>)
        BY <3>1 DEF AnswerThrew
      <4> QED
        BY <4>2, <4>3
    <3>2. CASE answer # "threw"
      BY <2>2, <3>2 DEF AnswerResolved
    <3> QED
      BY <3>1, <3>2
  <2> QED
    BY <2>1, <2>2
<1> DEFINE good == answer \in Succeeded
           run == [agent |-> target[c], answer |-> answer]
           step == StepOf(c, good)
<1>2. /\ WorkflowOf[c] \in Workflow /\ past \in Seq(Step) /\ target[c] \in Agent
      /\ history[w] \in Seq(Step) /\ answer \in Answer
  BY CoordinatorAssumption DEF MemoryInv, TypeOK, TargetKnown, AgentAnswers
<1>3. good \in BOOLEAN /\ run \in Run
  BY <1>2 DEF Run
<1>4. step \in Step /\ failure \in Step
  BY <1>2, <1>3 DEF StepOf, Step, MemoryInv, TypeOK
<1>5. ASSUME NEW success \in BOOLEAN
      PROVE  RunsIn(w, a, success)' = RunsIn(w, a, success) + OneIf(hit /\ good = success)
  <2>1. PICK ended \in Run: ended = run
    BY <1>3
  <2>2. ended.agent = target[c] /\ ended.answer = answer
    BY <2>1
  <2>3. OneMoreRun(c, ended)
    BY <1>1, <2>1 DEF OneMoreRun
  <2>4. /\ RunsIn(w, a, success) \in Nat
        /\ WorkflowOf[c] = w /\ ended.agent = a /\ EndedAs(ended, success)
             => RunsIn(w, a, success)' = RunsIn(w, a, success) + 1
        /\ ~(WorkflowOf[c] = w /\ ended.agent = a /\ EndedAs(ended, success))
             => RunsIn(w, a, success)' = RunsIn(w, a, success)
    <3> HIDE DEF good, hit, run
    <3>1. TypeOK
      BY DEF MemoryInv
    <3> QED
      BY <2>3, <3>1, RunEnded
  <2>5. WorkflowOf[c] = w /\ ended.agent = a /\ EndedAs(ended, success) <=> hit /\ good = success
    BY <2>2 DEF EndedAs
  <2>6. CASE hit /\ good = success
    BY <2>4, <2>5, <2>6 DEF OneIf
  <2>7. CASE ~(hit /\ good = success)
    BY <2>4, <2>5, <2>7 DEF OneIf
  <2> QED
    BY <2>6, <2>7
<1>6. \A success \in BOOLEAN: StepsIn(w, a, success) = Cardinality(Matching(history[w], a, success))
  BY DEF StepsIn, Matching
<1>7. \A success \in BOOLEAN:
        StepsIn(w, a, success)' = Cardinality(Matching(history'[w], a, success))
  BY DEF StepsIn, Matching
<1> DEFINE yes == OneIf(hit /\ good)
           no == OneIf(hit /\ ~good)
           stepsYes == StepsIn(w, a, TRUE)
           stepsNo == StepsIn(w, a, FALSE)
           stepsYesNext == StepsIn(w, a, TRUE)'
           stepsNoNext == StepsIn(w, a, FALSE)'
<1>8. \E more \in Nat:
        /\ stepsYesNext = stepsYes + yes
        /\ stepsNoNext = stepsNo + no + more
        /\ imports = 0 => more = 0
  <2> HIDE DEF good
  <2>1. CASE w # WorkflowOf[c]
    <3>1. history'[w] = history[w]
      BY <1>1, <2>1 DEF Record, MemoryInv, TypeOK
    <3>2. stepsYesNext = stepsYes /\ stepsNoNext = stepsNo
      BY <3>1 DEF StepsIn
    <3>3. stepsYes \in Nat /\ stepsNo \in Nat
      <4>1. \A success \in BOOLEAN: Cardinality(Matching(history[w], a, success)) \in Nat
        BY <1>2, <1>4, MatchingAppended
      <4> QED
        BY <1>6, <4>1
    <3>4. yes = 0 /\ no = 0
      BY <2>1 DEF OneIf
    <3> HIDE DEF stepsYesNext, stepsYes, stepsNoNext, stepsNo, yes, no
    <3> QED
      BY <3>2, <3>3, <3>4
  <2>2. CASE w = WorkflowOf[c]
    <3> DEFINE once == Append(past, step)
               twice == Append(once, failure)
               Count(h, success) == Cardinality(Matching(h, a, success))
               own == OneIf(failure.agent = a /\ failure.success = FALSE)
    <3>1. once \in Seq(Step) /\ past \o <<step>> = once /\ past \o <<step, failure>> = twice
      <4> HIDE DEF past, step, failure
      <4> QED
        BY <1>2, <1>4, OneOrTwoMore
    <3>2. history'[w] = once \/ (imports # 0 /\ history'[w] = twice)
      <4>1. history'[w] = past \o <<step>> \/ (imports # 0 /\ history'[w] = past \o <<step, failure>>)
        BY <1>1, <2>2 DEF Record, MemoryInv, TypeOK, good
      <4> QED
        BY <3>1, <4>1
    <3>3. \A success \in BOOLEAN:
            /\ Count(past, success) \in Nat
            /\ Count(once, success) = Count(past, success) + OneIf(target[c] = a /\ good = success)
      BY <1>2, <1>3, <1>4, StepCounted
    <3>4. \A success \in BOOLEAN: Count(twice, success) =
            Count(once, success) + OneIf(failure.agent = a /\ failure.success = success)
      <4> HIDE DEF once, failure
      <4> QED
        BY <1>4, <3>1, MatchingAppended
    <3> HIDE DEF once, twice
    <3>5. stepsYes = Count(past, TRUE) /\ stepsNo = Count(past, FALSE)
      BY <1>6, <2>2
    <3>6. stepsYesNext = Count(history'[w], TRUE) /\ stepsNoNext = Count(history'[w], FALSE)
      BY <1>7
    <3>7. /\ OneIf(target[c] = a /\ good = TRUE) = yes
          /\ OneIf(target[c] = a /\ good = FALSE) = no
          /\ OneIf(failure.agent = a /\ failure.success = TRUE) = 0
          /\ yes \in Nat /\ no \in Nat /\ own \in Nat
      BY <1>3, <2>2 DEF OneIf, StepOf
    <3> DEFINE onceYes == Count(once, TRUE)
               onceNo == Count(once, FALSE)
               twiceYes == Count(twice, TRUE)
               twiceNo == Count(twice, FALSE)
    <3>8. /\ stepsYes \in Nat /\ stepsNo \in Nat
          /\ onceYes = stepsYes + yes /\ onceNo = stepsNo + no
      <4>1. /\ Count(past, TRUE) \in Nat
            /\ onceYes = Count(past, TRUE) + OneIf(target[c] = a /\ good = TRUE)
        BY <3>3
      <4>2. /\ Count(past, FALSE) \in Nat
            /\ onceNo = Count(past, FALSE) + OneIf(target[c] = a /\ good = FALSE)
        BY <3>3
      <4> HIDE DEF onceYes, onceNo, stepsYes, stepsNo, yes, no, Count
      <4> QED
        BY <3>5, <3>7, <4>1, <4>2, Zenon
    <3>9. twiceYes = onceYes + 0 /\ twiceNo = onceNo + own
      <4>1. twiceYes = onceYes + OneIf(failure.agent = a /\ failure.success = TRUE)
        BY <3>4
      <4>2. twiceNo = onceNo + own
        BY <3>4
      <4> HIDE DEF twiceYes, twiceNo, onceYes, onceNo, own
      <4> QED
        BY <3>7, <4>1, <4>2, Zenon
    <3>10. CASE history'[w] = once
      <4>1. stepsYesNext = onceYes /\ stepsNoNext = onceNo
        BY <3>6, <3>10
      <4> HIDE DEF stepsYes, stepsNo, stepsYesNext, stepsNoNext, onceYes, onceNo, yes, no
      <4> QED
        BY <3>7, <3>8, <4>1
    <3>11. CASE imports # 0 /\ history'[w] = twice
      <4>1. stepsYesNext = twiceYes /\ stepsNoNext = twiceNo
        BY <3>6, <3>11
      <4> HIDE DEF stepsYes, stepsNo, stepsYesNext, stepsNoNext, onceYes, onceNo,
                   twiceYes, twiceNo, yes, no, own
      <4> QED
        BY <3>7, <3>8, <3>9, <3>11, <4>1
    <3> QED
      BY <3>2, <3>10, <3>11
  <2> QED
    BY <2>1, <2>2
<1>9. /\ RunsIn(w, a, TRUE)' = RunsIn(w, a, TRUE) + OneIf(hit /\ good)
      /\ RunsIn(w, a, FALSE)' = RunsIn(w, a, FALSE) + OneIf(hit /\ ~good)
  <2>1. OneIf(hit /\ good = TRUE) = OneIf(hit /\ good) /\ OneIf(hit /\ good = FALSE) = OneIf(hit /\ ~good)
    BY <1>3 DEF OneIf
  <2>2. /\ RunsIn(w, a, TRUE)' = RunsIn(w, a, TRUE) + OneIf(hit /\ good = TRUE)
        /\ RunsIn(w, a, FALSE)' = RunsIn(w, a, FALSE) + OneIf(hit /\ good = FALSE)
    <3> HIDE DEF hit, good
    <3> QED
      BY <1>5
  <2> QED
    BY <2>1, <2>2
<1> HIDE DEF good
<1> QED
  BY <1>3, <1>8, <1>9

\* Only an answer adds a run or a step to what is counted.
LEMMA RunsKept ==
    ASSUME MemoryInv, [Next]_vars, \A c \in Call: ~AgentAnswers(c)
    PROVE  runs' = runs /\ history' = history
<1>1. ASSUME NEW c, NEW a, NEW t, Execute(c, a, t)
      PROVE  runs' = runs /\ history' = history
  BY <1>1 DEF Execute
<1>2. ASSUME NEW c, NEW r, Return(c, r)
      PROVE  runs' = runs /\ history' = history
  BY <1>2 DEF Return, memoryVars
<1>3. ASSUME NEW c \in SequentialCall, SequentialStep(c)
      PROVE  runs' = runs /\ history' = history
  BY <1>1, <1>2, <1>3 DEF SequentialStep, SequentialStart, SequentialResume, Proceed
<1>4. ASSUME NEW c \in RecoveryCall, RecoveryStep(c)
      PROVE  runs' = runs /\ history' = history
  <2>1. CASE RecoveryStart(c) \/ RecoveryWake(c) \/ FallBack(c)
    BY <1>1, <2>1 DEF RecoveryStart, RecoveryWake, FallBack
  <2>2. CASE RecoveryEnd(c)
    BY <1>2, <2>2 DEF RecoveryEnd
  <2>3. CASE Sleep(c)
    BY <2>3 DEF Sleep, memoryVars
  <2> QED
    BY <1>4, <2>1, <2>2, <2>3 DEF RecoveryStep, RecoveryResume
<1>5. CASE Tick \/ Export \/ Import \/ UNCHANGED vars
  BY <1>5 DEF Tick, Export, Import, vars, memoryVars, callVars
<1>6. ASSUME NEW a \in Agent, RegisterAgent(a)
      PROVE  runs' = runs /\ history' = history
  BY <1>6 DEF RegisterAgent, callVars
<1> QED
  BY <1>3, <1>4, <1>5, <1>6 DEF Next

\* The counts of workflow w and agent a agree, as HistoryTellsRuns has it.
Tells(w, a) ==
    /\ RunsIn(w, a, TRUE) \in Nat /\ RunsIn(w, a, FALSE) \in Nat
    /\ StepsIn(w, a, FALSE) \in Nat
    /\ StepsIn(w, a, TRUE) = RunsIn(w, a, TRUE)
    /\ StepsIn(w, a, FALSE) >= RunsIn(w, a, FALSE)
    /\ imports = 0 => StepsIn(w, a, FALSE) = RunsIn(w, a, FALSE)

\* The inductive form of HistoryTellsRuns: what is counted is finite.
CountInv == IsFiniteSet(AllRuns) /\ \A w \in Workflow, a \in Agent: Tells(w, a)

\* Nothing is counted at the start.
LEMMA InitCounts == Init => CountInv
<1> SUFFICES ASSUME Init
             PROVE  CountInv
  OBVIOUS
<1>1. AllRuns = {}
  BY DEF Init, AllRuns
<1>2. ASSUME NEW w \in Workflow, NEW a \in Agent
      PROVE  Tells(w, a)
  <2>1. /\ EndedRuns(w, a, TRUE) = {} /\ EndedRuns(w, a, FALSE) = {}
    BY <1>1 DEF EndedRuns, AllRuns
  <2>2. RunsIn(w, a, TRUE) = 0 /\ RunsIn(w, a, FALSE) = 0
    BY <2>1, FS_EmptySet DEF RunsIn
  <2>3. history[w] = <<>>
    BY DEF Init
  <2>4. /\ {i \in DOMAIN history[w]: history[w][i].agent = a /\ history[w][i].success = TRUE} = {}
        /\ {i \in DOMAIN history[w]: history[w][i].agent = a /\ history[w][i].success = FALSE} = {}
    BY <2>3
  <2>5. StepsIn(w, a, TRUE) = 0 /\ StepsIn(w, a, FALSE) = 0
    BY <2>4, FS_EmptySet DEF StepsIn
  <2> DEFINE ranYes == RunsIn(w, a, TRUE)
             ranNo == RunsIn(w, a, FALSE)
             stepsYes == StepsIn(w, a, TRUE)
             stepsNo == StepsIn(w, a, FALSE)
  <2>6. /\ ranYes \in Nat /\ ranNo \in Nat /\ stepsNo \in Nat
        /\ stepsYes = ranYes /\ stepsNo >= ranNo /\ stepsNo = ranNo
    <3>1. ranYes = 0 /\ ranNo = 0 /\ stepsYes = 0 /\ stepsNo = 0
      BY <2>2, <2>5
    <3> HIDE DEF ranYes, ranNo, stepsYes, stepsNo
    <3> QED
      BY <3>1
  <2> QED
    BY <2>6 DEF Tells
<1> QED
  BY <1>1, <1>2, FS_EmptySet DEF CountInv

\* Every step preserves the agreement.
LEMMA StepCounts == MemoryInv /\ PathsInv /\ CountInv /\ [Next]_vars => CountInv'
<1> SUFFICES ASSUME MemoryInv, PathsInv, CountInv, [Next]_vars
             PROVE  CountInv'
  OBVIOUS
<1>1. CASE \A c \in Call: ~AgentAnswers(c)
  <2>1. runs' = runs /\ history' = history
    BY <1>1, RunsKept
  <2>2. imports' = 0 => imports = 0
    <3>1. CASE Import
      BY <3>1 DEF Import, MemoryInv, TypeOK
    <3>2. CASE ~Import
      BY <1>1, <3>2, GraphGrows
    <3> QED
      BY <3>1, <3>2
  <2>3. AllRuns' = AllRuns
    BY <2>1 DEF AllRuns
  <2>4. ASSUME NEW w \in Workflow, NEW a \in Agent
        PROVE  Tells(w, a)'
    <3>1. /\ RunsIn(w, a, TRUE)' = RunsIn(w, a, TRUE)
          /\ RunsIn(w, a, FALSE)' = RunsIn(w, a, FALSE)
      BY <2>1 DEF RunsIn, EndedRuns
    <3>2. /\ StepsIn(w, a, TRUE)' = StepsIn(w, a, TRUE)
          /\ StepsIn(w, a, FALSE)' = StepsIn(w, a, FALSE)
      BY <2>1 DEF StepsIn
    <3>3. Tells(w, a)
      BY DEF CountInv
    <3> QED
      BY <2>2, <3>1, <3>2, <3>3 DEF Tells
  <2> QED
    BY <2>3, <2>4 DEF CountInv
<1>2. ASSUME NEW c \in Call, AgentAnswers(c)
      PROVE  CountInv'
  <2>1. IsFiniteSet(AllRuns')
    <3>1. PICK answer \in Answers:
            runs' = [runs EXCEPT ![c] = Append(@, [agent |-> target[c], answer |-> answer])]
      BY <1>2 DEF AgentAnswers
    <3>2. target[c] \in Agent /\ answer \in Answer
      BY <1>2, CoordinatorAssumption DEF MemoryInv, TargetKnown, AgentAnswers
    <3>3. PICK ended \in Run: ended = [agent |-> target[c], answer |-> answer]
      BY <3>2 DEF Run
    <3>4. OneMoreRun(c, ended)
      BY <3>1, <3>3 DEF OneMoreRun
    <3> QED
      BY <3>4, RunEnded DEF CountInv, MemoryInv
  <2>2. imports' = imports
    BY <1>2 DEF AgentAnswers
  <2>3. ASSUME NEW w \in Workflow, NEW a \in Agent
        PROVE  Tells(w, a)'
    <3> DEFINE hit == WorkflowOf[c] = w /\ target[c] = a
    <3>1. IsFiniteSet(AllRuns) /\ Tells(w, a)
      BY DEF CountInv
    <3>2. PICK good \in BOOLEAN, more \in Nat:
            /\ RunsIn(w, a, TRUE)' = RunsIn(w, a, TRUE) + OneIf(hit /\ good)
            /\ RunsIn(w, a, FALSE)' = RunsIn(w, a, FALSE) + OneIf(hit /\ ~good)
            /\ StepsIn(w, a, TRUE)' = StepsIn(w, a, TRUE) + OneIf(hit /\ good)
            /\ StepsIn(w, a, FALSE)' = StepsIn(w, a, FALSE) + OneIf(hit /\ ~good) + more
            /\ imports = 0 => more = 0
      BY <1>2, <3>1, AnswerCounted
    <3> DEFINE yes == OneIf(hit /\ good)
               no == OneIf(hit /\ ~good)
               ranYes == RunsIn(w, a, TRUE)
               ranNo == RunsIn(w, a, FALSE)
               stepsYes == StepsIn(w, a, TRUE)
               stepsNo == StepsIn(w, a, FALSE)
               ranYesNext == RunsIn(w, a, TRUE)'
               ranNoNext == RunsIn(w, a, FALSE)'
               stepsYesNext == StepsIn(w, a, TRUE)'
               stepsNoNext == StepsIn(w, a, FALSE)'
    <3>3. yes \in Nat /\ no \in Nat
      BY DEF OneIf
    <3>4. /\ ranYesNext = ranYes + yes
          /\ ranNoNext = ranNo + no
          /\ stepsYesNext = stepsYes + yes
          /\ stepsNoNext = stepsNo + no + more
      BY <3>2
    <3>5. /\ ranYes \in Nat /\ ranNo \in Nat /\ stepsNo \in Nat
          /\ stepsYes = ranYes /\ stepsNo >= ranNo
          /\ imports = 0 => stepsNo = ranNo
      BY <3>1 DEF Tells
    <3>6. /\ ranYesNext \in Nat /\ ranNoNext \in Nat /\ stepsNoNext \in Nat
          /\ stepsYesNext = ranYesNext /\ stepsNoNext >= ranNoNext
          /\ imports = 0 => stepsNoNext = ranNoNext
      <4> HIDE DEF yes, no, ranYes, ranNo, stepsYes, stepsNo,
                   ranYesNext, ranNoNext, stepsYesNext, stepsNoNext
      <4> QED
        BY <3>2, <3>3, <3>4, <3>5
    <3> QED
      BY <2>2, <3>6 DEF Tells
  <2> QED
    BY <2>1, <2>3 DEF CountInv
<1> QED
  BY <1>1, <1>2

\* The counts agree in every reachable state.
LEMMA CountsInvariant == Spec => []CountInv
BY InitCounts, StepCounts, MemoryInvariant, PathsInvariant, PTL DEF Spec

\* What is recorded for a workflow is what ran for it, a step for every run,
\* and, while nothing was imported, a path of the memory graph: whichever calls
\* interleave, and although a failing recording is recorded as a failure again.
THEOREM HistoryIsRecorded == Spec => []HistoryIsFaithful
<1>1. PathsInv /\ CountInv => HistoryIsFaithful
  <2>1. PathsInv => HistoryIsLinked
    BY DEF PathsInv, HasPath, HistoryIsLinked
  <2>2. CountInv => HistoryTellsRuns
    BY DEF CountInv, Tells, HistoryTellsRuns
  <2> QED
    BY <2>1, <2>2 DEF HistoryIsFaithful
<1> QED
  BY <1>1, PathsInvariant, CountsInvariant, PTL

---------------------------------------------------------------------------
(* The answers that end a workflow with recovery.                          *)

\* The i-th run of call c ended with an answer after which no other agent runs.
IsEnding(c, i) ==
    \/ runs[c][i].answer \in Succeeded \union {"absent"}
    \/ runs[c][i].answer = "validation_error" /\ i > 1

\* EndingAnswersEndTheCall for one call.
EndingInv(c) ==
    imports = 0 =>
        \A i \in DOMAIN runs[c]: IsEnding(c, i) =>
            /\ i = Len(runs[c])
            /\ callAt[c] \in {"answered", "returned"}
            /\ response[c] = runs[c][i].answer

\* A step that leaves the call alone preserves it.
LEMMA EndingKept ==
    ASSUME NEW c \in RecoveryCall, EndingInv(c), CallKept(c), imports' = 0 => imports = 0
    PROVE  EndingInv(c)'
<1>1. \A i: IsEnding(c, i)' <=> IsEnding(c, i)
  BY DEF CallKept, IsEnding
<1>2. callAt'[c] = callAt[c] /\ response'[c] = response[c] /\ runs'[c] = runs[c]
  BY DEF CallKept
<1> QED
  BY <1>1, <1>2 DEF EndingInv

\* The agent of the call answers: no earlier answer was an ending one, and this
\* one is what executeWorkflow resolves to.
LEMMA EndingAnswered ==
    ASSUME MemoryInv, PathsInv, NEW c \in RecoveryCall, EndingInv(c), AgentAnswers(c)
    PROVE  EndingInv(c)'
<1>0. c \in Call /\ runs[c] \in Seq(Run)
  BY DEF Call, MemoryInv, TypeOK
<1> SUFFICES ASSUME imports' = 0,
                    NEW i \in DOMAIN runs'[c], IsEnding(c, i)'
             PROVE  /\ i = Len(runs'[c])
                    /\ callAt'[c] \in {"answered", "returned"}
                    /\ response'[c] = runs'[c][i].answer
  BY DEF EndingInv
<1> DEFINE n == Len(runs[c])
<1>1. imports = 0 /\ callAt[c] = "executing"
  BY DEF AgentAnswers
<1>2. PICK answer \in Answers:
        /\ runs' = [runs EXCEPT ![c] = Append(@, [agent |-> target[c], answer |-> answer])]
        /\ callAt'[c] = "answered"
        /\ answer # "threw" => response'[c] = answer
  BY <1>0, <1>1, AnswerRecorded
<1>3. runs'[c] = Append(runs[c], [agent |-> target[c], answer |-> answer])
  BY <1>0, <1>2 DEF MemoryInv, TypeOK
<1>4. /\ n \in Nat /\ Len(runs'[c]) = n + 1
      /\ DOMAIN runs'[c] = 1..(n + 1) /\ DOMAIN runs[c] = 1..n
      /\ \A j \in 1..n: runs'[c][j] = runs[c][j]
      /\ runs'[c][n + 1].answer = answer
  BY <1>0, <1>3
<1>5. CASE i \in 1..n
  <2>1. IsEnding(c, i)
    BY <1>4, <1>5 DEF IsEnding
  <2> QED
    BY <1>1, <1>4, <1>5, <2>1 DEF EndingInv
<1>6. CASE i = n + 1
  <2>1. answer # "threw"
    BY <1>4, <1>6 DEF IsEnding, Succeeded
  <2> QED
    BY <1>2, <1>4, <1>6, <2>1
<1> QED
  BY <1>4, <1>5, <1>6

\* The call goes on from a place where it has no ending answer.
LEMMA EndingNotYet ==
    ASSUME NEW c \in RecoveryCall, EndingInv(c), runs' = runs, imports' = imports,
           imports = 0 => \A i \in DOMAIN runs[c]: ~IsEnding(c, i)
    PROVE  EndingInv(c)'
BY DEF EndingInv, IsEnding

\* Every step of the call preserves it: an ending answer ends the loop.
LEMMA EndingStepped ==
    ASSUME TypeOK, NEW c \in RecoveryCall, RecoveryInv(c), EndingInv(c), RecoveryStep(c)
    PROVE  EndingInv(c)'
<1>0. /\ c \in Call /\ turn[c] \in Nat /\ runs[c] \in Seq(Run)
      /\ DOMAIN runs[c] = 1..Len(runs[c]) /\ Len(runs[c]) \in Nat
  BY DEF Call, TypeOK
<1>1. ASSUME NEW a, NEW t, Execute(c, a, t)
      PROVE  runs' = runs /\ imports' = imports
  BY <1>1 DEF Execute
<1>2. CASE RecoveryStart(c)
  <2>1. runs[c] = <<>>
    BY <1>2 DEF RecoveryStart, RecoveryInv
  <2>2. runs' = runs /\ imports' = imports
    BY <1>1, <1>2 DEF RecoveryStart
  <2> QED
    BY <2>1, <2>2, EndingNotYet
<1>3. CASE RecoveryWake(c)
  <2>1. imports = 0 => \A i \in DOMAIN runs[c]: ~IsEnding(c, i)
    BY <1>3 DEF RecoveryWake, EndingInv
  <2>2. runs' = runs /\ imports' = imports
    BY <1>1, <1>3 DEF RecoveryWake
  <2> QED
    BY <2>1, <2>2, EndingNotYet
<1>4. CASE RecoveryResume(c)
  <2>1. CASE RecoveryEnd(c)
    <3>1. /\ callAt'[c] = "returned" /\ response'[c] = response[c]
          /\ runs' = runs /\ imports' = imports
      BY <1>0, <2>1 DEF RecoveryEnd, Return, memoryVars, TypeOK
    <3>2. \A i: IsEnding(c, i)' <=> IsEnding(c, i)
      BY <3>1 DEF IsEnding
    <3> QED
      BY <3>1, <3>2 DEF EndingInv
  <2>2. CASE ~RecoveryEnd(c)
    <3>1. /\ ~fellBack[c] /\ response[c] \notin Succeeded
          /\ RecoveryStrategy(response[c], turn[c]) # "abort"
          /\ FallBack(c) \/ Sleep(c)
      BY <1>4, <2>2 DEF RecoveryResume, RecoverySettled
    <3>2. runs' = runs /\ imports' = imports
      BY <1>1, <3>1 DEF FallBack, Sleep, memoryVars
    <3>3. Len(runs[c]) <= turn[c]
      BY <3>1 DEF RecoveryInv, OnlyOwnRuns
    <3>4. ASSUME imports = 0, NEW i \in DOMAIN runs[c], IsEnding(c, i)
          PROVE  FALSE
      <4>1. i = Len(runs[c]) /\ response[c] = runs[c][i].answer
        BY <3>4 DEF EndingInv
      <4>2. \/ response[c] = "absent"
            \/ response[c] = "validation_error" /\ i > 1
        BY <3>1, <3>4, <4>1 DEF IsEnding
      <4>3. response[c] = "absent" => RecoveryStrategy(response[c], turn[c]) = "abort"
        BY DEF RecoveryStrategy
      <4>4. CASE response[c] = "validation_error" /\ i > 1
        <5>1. ~(turn[c] < 2)
          BY <1>0, <3>3, <4>1, <4>4
        <5> QED
          BY <3>1, <4>4, <5>1 DEF RecoveryStrategy
      <4> QED
        BY <3>1, <4>2, <4>3, <4>4
    <3> QED
      BY <3>2, <3>4, EndingNotYet
  <2> QED
    BY <2>1, <2>2
<1> QED
  BY <1>2, <1>3, <1>4 DEF RecoveryStep

\* No step takes an import back.
LEMMA ImportsStay == MemoryInv /\ [Next]_vars => (imports' = 0 => imports = 0)
<1> SUFFICES ASSUME MemoryInv, [Next]_vars
             PROVE  imports' = 0 => imports = 0
  OBVIOUS
<1>1. CASE Import
  BY <1>1 DEF Import, MemoryInv, TypeOK
<1>2. ASSUME NEW c \in Call, AgentAnswers(c)
      PROVE  imports' = imports
  BY <1>2 DEF AgentAnswers
<1>3. CASE ~Import /\ \A c \in Call: ~AgentAnswers(c)
  BY <1>3, GraphGrows
<1> QED
  BY <1>1, <1>2, <1>3

\* EndingInv of all the calls with recovery.
EndingsInv == \A c \in RecoveryCall: EndingInv(c)

\* While nothing was imported, a success, a failure without an error, and a
\* validation error but at the first run end a call with recovery, and are what
\* it returns: whatever other calls record in the shared memory meanwhile.
THEOREM EndingAnswers == Spec => []EndingAnswersEndTheCall
<1>1. Init => EndingsInv
  BY DEF Init, EndingsInv, EndingInv, Call
<1>2. MemoryInv /\ PathsInv /\ RecoveriesInv /\ EndingsInv /\ [Next]_vars => EndingsInv'
  <2> SUFFICES ASSUME MemoryInv, PathsInv, [Next]_vars,
                      NEW c \in RecoveryCall, RecoveryInv(c), EndingInv(c)
               PROVE  EndingInv(c)'
    BY DEF EndingsInv, RecoveriesInv
  <2>1. c \in Call /\ c \notin SequentialCall /\ TypeOK
    BY CoordinatorAssumption DEF Call, MemoryInv
  <2>2. CASE AgentAnswers(c)
    BY <2>2, EndingAnswered
  <2>3. CASE RecoveryStep(c)
    BY <2>1, <2>3, EndingStepped
  <2>4. CASE ~AgentAnswers(c) /\ ~RecoveryStep(c)
    <3>1. CallKept(c)
      BY <2>1, <2>4, OthersKeepCall
    <3>2. imports' = 0 => imports = 0
      BY ImportsStay
    <3> QED
      BY <3>1, <3>2, EndingKept
  <2> QED
    BY <2>2, <2>3, <2>4
<1>3. EndingsInv => EndingAnswersEndTheCall
  BY DEF EndingsInv, EndingInv, IsEnding, EndingAnswersEndTheCall
<1> QED
  BY <1>1, <1>2, <1>3, MemoryInvariant, PathsInvariant, RecoveriesInvariant, PTL DEF Spec
=============================================================================
