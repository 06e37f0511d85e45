------------------------- MODULE GraphEngineProofs -------------------------
(***************************************************************************)
(* Proofs about GraphEngine: the graph is whole between two operations,    *)
(* the subscribers of changes$ hold it, and the conversation is in it.     *)
(***************************************************************************)
EXTENDS GraphEngine, FiniteSetTheorems, TLAPS

\* How many nodes and relationships there have been.
Counts == [nodes : 0 .. MaxNodes, edges : 0 .. MaxEdges]

\* Some time after m had been made, n was.
Later(m, n) ==
    /\ m \in Counts /\ n \in Counts
    /\ 1 .. m.nodes \subseteq 1 .. n.nodes /\ 1 .. m.edges \subseteq 1 .. n.edges

\* A graph of nodes and relationships made so far.
Made(g, m) == GraphOf(g, m.nodes, m.edges)

\* h has the nodes of g, but for one that was set, or removed.
NodeSet(g, h, id, node) ==
    /\ DOMAIN h.nodes = DOMAIN g.nodes \cup {id}
    /\ h.nodes[id] = node
    /\ \A j \in DOMAIN g.nodes : j # id => h.nodes[j] = g.nodes[j]

NodeGone(g, h, id) ==
    /\ DOMAIN h.nodes = DOMAIN g.nodes \ {id}
    /\ \A j \in DOMAIN g.nodes \ {id} : h.nodes[j] = g.nodes[j]

\* A subscriber that has been told everything holds the graph.
Follows == told => view = graph

\* What the operations of the engine keep, whoever calls them.
Whole ==
    /\ Made(graph, made) /\ Made(view, made) /\ Follows
    /\ EndsAreThere(graph)
    /\ counted => stats = StatsOf(graph)
    /\ stats \in [nodeCount : Nat, edgeCount : Nat]
    /\ {told, counted} \subseteq BOOLEAN
    /\ made \in Counts

\* What may be loaded: the graph that was saved, and those given to engines.
Loadable ==
    /\ Made(stored, made) /\ EndsAreThere(stored)
    /\ \A g \in Given : Made(g, made)

\* The current conversation is a node of the graph; a caller that removes it
\* forgets something.
CurrentIsThere ==
    current # 0 =>
        /\ current \in DOMAIN graph.nodes
        /\ graph.nodes[current].type = "conversation"

\* The inductive invariant.
GraphInv ==
    /\ Whole /\ Loadable
    /\ entries \in Nat /\ current \in 0 .. made.nodes
    /\ {forgotten, loaded} \subseteq BOOLEAN
    /\ ~ forgotten => CurrentIsThere

----------------------------------------------------------------------------
(* Graphs.                                                                 *)

\* What setting a node leaves.
LEMMA WithNodeParts ==
    ASSUME NEW g, DOMAIN g = {"nodes", "edges"}, NEW id, NEW node
    PROVE  /\ DOMAIN WithNode(g, id, node) = {"nodes", "edges"}
           /\ WithNode(g, id, node).nodes = With(g.nodes, id, node)
           /\ WithNode(g, id, node).edges = g.edges
BY DEF WithNode

\* The same of a relationship.
LEMMA WithEdgeParts ==
    ASSUME NEW g, DOMAIN g = {"nodes", "edges"}, NEW id, NEW edge
    PROVE  /\ DOMAIN WithEdge(g, id, edge) = {"nodes", "edges"}
           /\ WithEdge(g, id, edge).edges = With(g.edges, id, edge)
           /\ WithEdge(g, id, edge).nodes = g.nodes
BY DEF WithEdge

\* A graph that was made stays one that was.
LEMMA MadeLater == ASSUME NEW m, NEW n, Later(m, n), NEW g, Made(g, m) PROVE Made(g, n)
BY DEF Later, Made, GraphOf

\* A graph is one after a node was set that was made,
LEMMA NodeIsSet ==
    ASSUME NEW m, NEW n, Later(m, n), NEW g, Made(g, m),
           NEW id \in 1 .. n.nodes, NEW node \in Node,
           NEW h, h = WithNode(g, id, node)
    PROVE  /\ Made(h, n) /\ NodeSet(g, h, id, node) /\ h.edges = g.edges
           /\ EndsAreThere(g) => EndsAreThere(h)
<1>1. DOMAIN h = {"nodes", "edges"} /\ h.nodes = With(g.nodes, id, node) /\ h.edges = g.edges
  BY WithNodeParts DEF Made, GraphOf
<1>2. /\ DOMAIN h.nodes = DOMAIN g.nodes \cup {id}
      /\ h.nodes[id] = node
      /\ \A j \in DOMAIN g.nodes : j # id => h.nodes[j] = g.nodes[j]
  BY <1>1 DEF With
<1>3. /\ DOMAIN g.nodes \subseteq 1 .. n.nodes /\ DOMAIN g.edges \subseteq 1 .. n.edges
      /\ \A j \in DOMAIN g.nodes : g.nodes[j] \in Node
      /\ \A j \in DOMAIN g.edges : g.edges[j] \in Edge
  BY DEF Later, Made, GraphOf
<1>4. Made(h, n)
  BY <1>1, <1>2, <1>3 DEF Made, GraphOf
<1>5. EndsAreThere(g) => EndsAreThere(h)
  BY <1>1, <1>2 DEF EndsAreThere
<1> QED
  BY <1>1, <1>2, <1>4, <1>5 DEF NodeSet

\* when a relationship was set that has the ends it claims,
LEMMA EdgeIsSet ==
    ASSUME NEW m, NEW n, Later(m, n), NEW g, Made(g, m), EndsAreThere(g),
           NEW id \in 1 .. n.edges, NEW edge \in Edge,
           {edge.from, edge.to} \ edge.loose \subseteq DOMAIN g.nodes,
           NEW h, h = WithEdge(g, id, edge)
    PROVE  Made(h, n) /\ EndsAreThere(h) /\ h.nodes = g.nodes
<1>1. DOMAIN h = {"nodes", "edges"} /\ h.edges = With(g.edges, id, edge) /\ h.nodes = g.nodes
  BY WithEdgeParts DEF Made, GraphOf
<1>2. /\ DOMAIN h.edges = DOMAIN g.edges \cup {id}
      /\ h.edges[id] = edge
      /\ \A j \in DOMAIN g.edges : j # id => h.edges[j] = g.edges[j]
  BY <1>1 DEF With
<1>3. /\ DOMAIN g.nodes \subseteq 1 .. n.nodes /\ DOMAIN g.edges \subseteq 1 .. n.edges
      /\ \A j \in DOMAIN g.nodes : g.nodes[j] \in Node
      /\ \A j \in DOMAIN g.edges : g.edges[j] \in Edge
  BY DEF Later, Made, GraphOf
<1>4. Made(h, n)
  BY <1>1, <1>2, <1>3 DEF Made, GraphOf
<1>5. EndsAreThere(h)
  <2> SUFFICES ASSUME NEW j \in DOMAIN h.edges
               PROVE  {h.edges[j].from, h.edges[j].to} \ h.edges[j].loose \subseteq DOMAIN h.nodes
    BY DEF EndsAreThere
  <2>1. CASE j = id
    BY <1>1, <1>2, <2>1
  <2>2. CASE j # id
    BY <1>1, <1>2, <2>2 DEF EndsAreThere
  <2> QED
    BY <2>1, <2>2
<1> QED
  BY <1>1, <1>4, <1>5

\* when a node was removed with all that touches it,
LEMMA NodeIsGone ==
    ASSUME NEW m, NEW g, Made(g, m), EndsAreThere(g), NEW id, NEW h, h = WithoutNode(g, id)
    PROVE  Made(h, m) /\ EndsAreThere(h) /\ NodeGone(g, h, id)
<1>1. /\ DOMAIN h = {"nodes", "edges"}
      /\ h.nodes = Without(g.nodes, {id}) /\ h.edges = Without(g.edges, Touching(g, id))
  BY DEF WithoutNode
<1>2. NodeGone(g, h, id)
  BY <1>1 DEF Without, NodeGone
<1>3. /\ DOMAIN h.edges = DOMAIN g.edges \ Touching(g, id)
      /\ \A j \in DOMAIN h.edges : h.edges[j] = g.edges[j]
  BY <1>1 DEF Without
<1>4. Made(h, m)
  BY <1>1, <1>2, <1>3 DEF Made, GraphOf, NodeGone
<1>5. EndsAreThere(h)
  <2> SUFFICES ASSUME NEW j \in DOMAIN h.edges
               PROVE  {h.edges[j].from, h.edges[j].to} \ h.edges[j].loose \subseteq DOMAIN h.nodes
    BY DEF EndsAreThere
  <2>1. j \in DOMAIN g.edges /\ id \notin {g.edges[j].from, g.edges[j].to} /\ h.edges[j] = g.edges[j]
    BY <1>3 DEF Touching
  <2> QED
    BY <1>2, <2>1 DEF EndsAreThere, NodeGone
<1> QED
  BY <1>2, <1>4, <1>5

\* and when a relationship was.
LEMMA EdgeIsGone ==
    ASSUME NEW m, NEW g, Made(g, m), EndsAreThere(g), NEW id,
           NEW h, h = [g EXCEPT !.edges = Without(@, {id})]
    PROVE  Made(h, m) /\ EndsAreThere(h) /\ h.nodes = g.nodes
<1>1. DOMAIN h = {"nodes", "edges"} /\ h.nodes = g.nodes /\ h.edges = Without(g.edges, {id})
  BY DEF Made, GraphOf
<1>2. /\ DOMAIN h.edges \subseteq DOMAIN g.edges
      /\ \A j \in DOMAIN h.edges : h.edges[j] = g.edges[j]
  BY <1>1 DEF Without
<1>3. Made(h, m)
  BY <1>1, <1>2 DEF Made, GraphOf
<1>4. EndsAreThere(h)
  BY <1>1, <1>2 DEF EndsAreThere
<1> QED
  BY <1>1, <1>3, <1>4

\* So is a graph with nothing in it.
LEMMA EmptyIsMade ==
    ASSUME NEW m PROVE Made(Empty, m) /\ EndsAreThere(Empty) /\ DOMAIN Empty.nodes = {}
BY DEF Made, GraphOf, EndsAreThere, Empty

\* The statistics of a graph that was made are numbers.
LEMMA StatsAreNumbers ==
    ASSUME NEW m \in Counts, NEW g, Made(g, m)
    PROVE  StatsOf(g) \in [nodeCount : Nat, edgeCount : Nat]
<1>1. m.nodes \in Int /\ m.edges \in Int /\ 1 \in Int
  BY GraphAssumption DEF Counts
<1>2. IsFiniteSet(1 .. m.nodes)
  BY <1>1, FS_Interval
<1>3. IsFiniteSet(1 .. m.edges)
  BY <1>1, FS_Interval
<1>4. IsFiniteSet(DOMAIN g.nodes) /\ IsFiniteSet(DOMAIN g.edges)
  BY <1>2, <1>3, FS_Subset DEF Made, GraphOf
<1>5. Cardinality(DOMAIN g.nodes) \in Nat /\ Cardinality(DOMAIN g.edges) \in Nat
  BY <1>4, FS_CardinalityType
<1> QED
  BY <1>5 DEF StatsOf

----------------------------------------------------------------------------
(* The operations of the engine.                                           *)

\* An operation that leaves a whole graph, tells its change and refreshes the
\* statistics keeps the engine whole.
LEMMA OperationKeeps ==
    ASSUME Whole, Later(made, made'), Made(graph', made'), EndsAreThere(graph'),
           UpdateGraphMetadata, told' = told,
           told => view' = graph', ~ told => view' = view
    PROVE  Whole'
<1>1. Made(view', made') /\ Follows'
  <2>1. CASE told
    BY <2>1 DEF Follows
  <2>2. CASE ~ told
    <3>1. Made(view, made)
      BY DEF Whole
    <3>2. Made(view, made')
      BY <3>1, MadeLater
    <3> QED
      BY <2>2, <3>2 DEF Follows
  <2> QED
    BY <2>1, <2>2
<1>2. made' \in Counts
  BY DEF Later
<1>3. stats' = StatsOf(graph') /\ counted' = TRUE
  BY DEF UpdateGraphMetadata
<1>4. StatsOf(graph') \in [nodeCount : Nat, edgeCount : Nat]
  BY <1>2, StatsAreNumbers
<1>5. {told', counted'} \subseteq BOOLEAN
  BY <1>3 DEF Whole
<1> QED
  BY <1>1, <1>2, <1>3, <1>4, <1>5 DEF Whole

\* One that replaces the graph without a word does, too.
LEMMA SilenceKeeps ==
    ASSUME Whole, made' = made, Made(graph', made), EndsAreThere(graph'),
           TellNothing, UpdateGraphMetadata
    PROVE  Whole'
<1>1. view' = Empty /\ told' = FALSE
  BY DEF TellNothing
<1>2. Made(view', made) /\ Follows'
  BY <1>1, EmptyIsMade DEF Follows
<1>3. stats' = StatsOf(graph') /\ counted' = TRUE
  BY DEF UpdateGraphMetadata
<1>4. StatsOf(graph') \in [nodeCount : Nat, edgeCount : Nat]
  BY StatsAreNumbers DEF Whole
<1>5. {told', counted'} \subseteq BOOLEAN
  BY <1>1, <1>3
<1> QED
  BY <1>2, <1>3, <1>4, <1>5 DEF Whole

\* No time passes while nothing is made.
LEMMA StillLater == ASSUME Whole PROVE Later(made, made)
BY DEF Whole, Later

\* addNode.
LEMMA AddNodeKeeps ==
    ASSUME Whole, NEW node \in Node, AddNode(node)
    PROVE  /\ Whole' /\ Later(made, made')
           /\ made'.nodes = made.nodes + 1
           /\ DOMAIN graph'.nodes = DOMAIN graph.nodes \cup {made'.nodes}
           /\ graph'.nodes[made'.nodes] = node
           /\ \A j \in DOMAIN graph.nodes : graph'.nodes[j] = graph.nodes[j]
<1> DEFINE id == made.nodes + 1
<1>1. /\ id \in NodeIds /\ made' = [made EXCEPT !.nodes = id] /\ UpdateGraphMetadata
      /\ graph' = WithNode(graph, id, node) /\ Tell(WithNode(view, id, node))
  BY DEF AddNode
<1>2. Made(graph, made) /\ made \in Counts /\ EndsAreThere(graph) /\ Follows
  BY DEF Whole
<1>3. /\ made' \in Counts /\ made'.nodes = id /\ Later(made, made')
      /\ id \in 1 .. made'.nodes /\ id \notin 1 .. made.nodes
  BY <1>1, <1>2, GraphAssumption DEF Counts, NodeIds, Later
<1>4. id \notin DOMAIN graph.nodes
  BY <1>2, <1>3 DEF Made, GraphOf
<1> HIDE DEF id
<1>5. Made(graph', made') /\ EndsAreThere(graph') /\ NodeSet(graph, graph', id, node)
  BY <1>1, <1>2, <1>3, NodeIsSet
<1>6. told' = told /\ (told => view' = graph') /\ (~ told => view' = view)
  BY <1>1, <1>2 DEF Tell, Follows
<1>7. Whole'
  BY <1>1, <1>3, <1>5, <1>6, OperationKeeps
<1> QED
  BY <1>3, <1>4, <1>5, <1>7 DEF id, NodeSet

\* What an update does to the nodes.
NodeUpdated(id, messages) ==
    /\ DOMAIN graph'.nodes = DOMAIN graph.nodes
    /\ graph'.nodes[id].type = graph.nodes[id].type /\ graph'.nodes[id].messages = messages
    /\ \A j \in DOMAIN graph.nodes : j # id => graph'.nodes[j] = graph.nodes[j]

\* updateNode.
LEMMA UpdateNodeKeeps ==
    ASSUME Whole, NEW id, NEW messages \in Seq(Nat), id \in DOMAIN graph.nodes, UpdateNode(id, messages)
    PROVE  /\ Whole' /\ made' = made
           /\ NodeUpdated(id, messages)
<1> DEFINE node == [graph.nodes[id] EXCEPT !.messages = messages, !.version = @ + 1]
<1>1. /\ made' = made /\ UpdateGraphMetadata
      /\ graph' = WithNode(graph, id, node) /\ Tell(WithNode(view, id, node))
  BY DEF UpdateNode
<1>2. Made(graph, made) /\ made \in Counts /\ EndsAreThere(graph) /\ Follows
  BY DEF Whole
<1>3. Later(made, made') /\ id \in 1 .. made'.nodes
  BY <1>1, <1>2, StillLater DEF Made, GraphOf
<1>4. node \in Node /\ node.type = graph.nodes[id].type /\ node.messages = messages
  <2>1. graph.nodes[id] \in [type : {"conversation", "intent"}, version : Nat, messages : Seq(Nat)]
    BY <1>2 DEF Made, GraphOf, Node
  <2> DEFINE version == graph.nodes[id].version + 1
  <2>2. version \in Nat
    BY <2>1
  <2>3. node = [graph.nodes[id] EXCEPT !.messages = messages, !.version = version]
    OBVIOUS
  <2> HIDE DEF version, node
  <2> QED
    BY <2>1, <2>2, <2>3 DEF Node
<1> HIDE DEF node
<1>5. Made(graph', made') /\ EndsAreThere(graph') /\ NodeSet(graph, graph', id, node)
  <2>1. node \in Node /\ graph' = WithNode(graph, id, node)
    BY <1>1, <1>4
  <2> QED
    BY <1>2, <1>3, <2>1, NodeIsSet
<1>6. told' = told /\ (told => view' = graph') /\ (~ told => view' = view)
  BY <1>1, <1>2 DEF Tell, Follows
<1>7. Whole'
  BY <1>1, <1>3, <1>5, <1>6, OperationKeeps
<1>8. NodeUpdated(id, messages)
  BY <1>4, <1>5 DEF NodeUpdated, NodeSet
<1> QED
  BY <1>1, <1>7, <1>8

\* removeNode.
LEMMA RemoveNodeKeeps ==
    ASSUME Whole, NEW id \in DOMAIN graph.nodes, RemoveNode(id)
    PROVE  Whole' /\ made' = made /\ NodeGone(graph, graph', id)
<1>1. /\ made' = made /\ UpdateGraphMetadata
      /\ graph' = WithoutNode(graph, id) /\ Tell(WithoutNode(view, id))
  BY DEF RemoveNode
<1>2. Made(graph, made) /\ EndsAreThere(graph) /\ Follows
  BY DEF Whole
<1>3. Made(graph', made) /\ EndsAreThere(graph') /\ NodeGone(graph, graph', id)
  BY <1>1, <1>2, NodeIsGone
<1>4. told' = told /\ (told => view' = graph') /\ (~ told => view' = view)
  BY <1>1, <1>2 DEF Tell, Follows
<1>5. Whole'
  BY <1>1, <1>3, <1>4, StillLater, OperationKeeps
<1> QED
  BY <1>1, <1>3, <1>5

\* addRelationship.
LEMMA AddRelationshipKeeps ==
    ASSUME Whole, NEW from \in 1 .. made.nodes, NEW to \in 1 .. made.nodes, AddRelationship(from, to)
    PROVE  Whole' /\ Later(made, made') /\ made'.nodes = made.nodes /\ graph'.nodes = graph.nodes
<1> DEFINE id == made.edges + 1
           edge == [from |-> from, to |-> to, updates |-> 0, loose |-> Loose(graph, from, to)]
<1>1. /\ id \in EdgeIds /\ made' = [made EXCEPT !.edges = id] /\ UpdateGraphMetadata
      /\ graph' = WithEdge(graph, id, edge) /\ Tell(WithEdge(view, id, edge))
  BY DEF AddRelationship
<1>2. Made(graph, made) /\ made \in Counts /\ EndsAreThere(graph) /\ Follows
  BY DEF Whole
<1>3. made'.nodes = made.nodes /\ Later(made, made') /\ id \in 1 .. made'.edges
  BY <1>1, <1>2, GraphAssumption DEF Counts, EdgeIds, Later
<1>4. edge \in Edge /\ {edge.from, edge.to} \ edge.loose \subseteq DOMAIN graph.nodes
  <2>1. from \in 1 .. MaxNodes /\ to \in 1 .. MaxNodes
    BY <1>2, GraphAssumption DEF Counts
  <2> QED
    BY <2>1 DEF Edge, Loose
<1> HIDE DEF id, edge
<1>5. Made(graph', made') /\ EndsAreThere(graph') /\ graph'.nodes = graph.nodes
  <2>1. graph' = WithEdge(graph, id, edge)
    BY <1>1
  <2> QED
    BY <1>2, <1>3, <1>4, <2>1, EdgeIsSet
<1>6. told' = told /\ (told => view' = graph') /\ (~ told => view' = view)
  BY <1>1, <1>2 DEF Tell, Follows
<1>7. Whole'
  BY <1>1, <1>3, <1>5, <1>6, OperationKeeps
<1> QED
  BY <1>3, <1>5, <1>7

\* updateRelationship: the ends it had are there, and so are the new ones but
\* for those that are missing now.
LEMMA UpdateRelationshipKeeps ==
    ASSUME Whole, NEW id \in DOMAIN graph.edges, NEW from \in 1 .. made.nodes, NEW to \in 1 .. made.nodes,
           UpdateRelationship(id, from, to)
    PROVE  Whole' /\ made' = made /\ graph'.nodes = graph.nodes
<1> DEFINE old == graph.edges[id]
           same == from = old.from /\ to = old.to
           loose == IF same THEN old.loose ELSE Loose(graph, from, to)
           edge == [from |-> from, to |-> to, updates |-> old.updates + 1, loose |-> loose]
<1>1. /\ made' = made /\ UpdateGraphMetadata
      /\ graph' = WithEdge(graph, id, edge) /\ Tell(WithEdge(view, id, edge))
  BY DEF UpdateRelationship
<1>2. Made(graph, made) /\ made \in Counts /\ EndsAreThere(graph) /\ Follows
  BY DEF Whole
<1>3. Later(made, made') /\ id \in 1 .. made'.edges
  BY <1>1, <1>2, StillLater DEF Made, GraphOf
<1>4. edge \in Edge /\ {edge.from, edge.to} \ edge.loose \subseteq DOMAIN graph.nodes
  <2>1. from \in 1 .. MaxNodes /\ to \in 1 .. MaxNodes
    BY <1>2, GraphAssumption DEF Counts
  <2>2. old \in Edge /\ {old.from, old.to} \ old.loose \subseteq DOMAIN graph.nodes
    BY <1>2 DEF Made, GraphOf, EndsAreThere
  <2>3. old.updates + 1 \in Nat
    BY <2>2 DEF Edge
  <2>4. loose \subseteq 1 .. MaxNodes /\ {from, to} \ loose \subseteq DOMAIN graph.nodes
    <3>1. CASE same
      BY <2>2, <3>1 DEF Edge
    <3>2. CASE ~ same
      BY <2>1, <3>2 DEF Loose
    <3> QED
      BY <3>1, <3>2
  <2> HIDE DEF loose, old
  <2> QED
    BY <2>1, <2>3, <2>4 DEF Edge
<1> HIDE DEF old, same, loose, edge
<1>5. Made(graph', made') /\ EndsAreThere(graph') /\ graph'.nodes = graph.nodes
  <2>1. graph' = WithEdge(graph, id, edge)
    BY <1>1
  <2> QED
    BY <1>2, <1>3, <1>4, <2>1, EdgeIsSet
<1>6. told' = told /\ (told => view' = graph') /\ (~ told => view' = view)
  BY <1>1, <1>2 DEF Tell, Follows
<1>7. Whole'
  BY <1>1, <1>3, <1>5, <1>6, OperationKeeps
<1> QED
  BY <1>1, <1>5, <1>7

\* removeRelationship.
LEMMA RemoveRelationshipKeeps ==
    ASSUME Whole, NEW id \in DOMAIN graph.edges, RemoveRelationship(id)
    PROVE  Whole' /\ made' = made /\ graph'.nodes = graph.nodes
<1>1. /\ made' = made /\ UpdateGraphMetadata
      /\ graph' = [graph EXCEPT !.edges = Without(@, {id})]
      /\ Tell([view EXCEPT !.edges = Without(@, {id})])
  BY DEF RemoveRelationship
<1>2. Made(graph, made) /\ EndsAreThere(graph) /\ Follows
  BY DEF Whole
<1>3. Made(graph', made) /\ EndsAreThere(graph') /\ graph'.nodes = graph.nodes
  BY <1>1, <1>2, EdgeIsGone
<1>4. told' = told /\ (told => view' = graph') /\ (~ told => view' = view)
  BY <1>1, <1>2 DEF Tell, Follows
<1>5. Whole'
  BY <1>1, <1>3, <1>4, StillLater, OperationKeeps
<1> QED
  BY <1>1, <1>3, <1>5

\* clearGraph.
LEMMA ClearGraphKeeps ==
    ASSUME Whole, ClearGraph
    PROVE  Whole' /\ made' = made /\ DOMAIN graph'.nodes = {}
<1>1. made' = made /\ graph' = Empty /\ TellNothing /\ UpdateGraphMetadata
  BY DEF ClearGraph
<1>2. Made(graph', made) /\ EndsAreThere(graph') /\ DOMAIN graph'.nodes = {}
  BY <1>1, EmptyIsMade
<1>3. Whole'
  BY <1>1, <1>2, SilenceKeeps
<1> QED
  BY <1>1, <1>2, <1>3

\* What may be loaded stays so, whatever is made.
LEMMA LoadableStays ==
    ASSUME Loadable, Later(made, made'), stored' = stored
    PROVE  Loadable'
<1>1. Made(stored, made') /\ \A g \in Given : Made(g, made')
  BY MadeLater DEF Loadable
<1> QED
  BY <1>1 DEF Loadable

----------------------------------------------------------------------------
(* The steps.                                                              *)

\* slice(-10) of the history is a list of messages.
LEMMA RecentAreMessages == ASSUME NEW n \in Nat PROVE RecentMessages(n) \in Seq(Nat)
<1> DEFINE k == IF n < Recent THEN n ELSE Recent
<1>1. k \in 0 .. n
  BY GraphAssumption
<1> HIDE DEF k
<1>2. \A i \in 1 .. k : n - k + i \in Nat
  BY <1>1
<1>3. [i \in 1 .. k |-> n - k + i] \in [1 .. k -> Nat]
  BY <1>2
<1>4. [i \in 1 .. k |-> n - k + i] \in Seq(Nat)
  BY <1>1, <1>3
<1> QED
  BY <1>4 DEF RecentMessages, k

\* recordConversation with a new node.
LEMMA StartConversationKeeps ==
    ASSUME GraphInv, StartConversation
    PROVE  GraphInv'
<1> DEFINE node == [type |-> "conversation", version |-> 0, messages |-> RecentMessages(entries')]
<1>1. /\ AddNode(node) /\ current' = made'.nodes /\ forgotten' = forgotten /\ loaded' = FALSE
      /\ entries' = entries + 1 /\ stored' = stored
  BY DEF StartConversation
<1>2. entries' \in Nat /\ Whole /\ Loadable /\ {forgotten', loaded'} \subseteq BOOLEAN
  <2>1. {forgotten, loaded} \subseteq BOOLEAN
    BY DEF GraphInv
  <2>2. {forgotten', loaded'} \subseteq BOOLEAN
    BY <1>1, <2>1
  <2> QED
    BY <1>1, <2>2 DEF GraphInv
<1>3. node \in Node /\ node.type = "conversation"
  BY <1>2, RecentAreMessages DEF Node
<1> HIDE DEF node
<1>4. /\ Whole' /\ Later(made, made')
      /\ DOMAIN graph'.nodes = DOMAIN graph.nodes \cup {made'.nodes}
      /\ graph'.nodes[made'.nodes] = node
  BY <1>1, <1>2, <1>3, AddNodeKeeps
<1>5. Loadable'
  BY <1>1, <1>2, <1>4, LoadableStays
<1>6. current' \in 0 .. made'.nodes
  BY <1>1, <1>4, GraphAssumption DEF Whole, Counts
<1>7. CurrentIsThere'
  BY <1>1, <1>3, <1>4 DEF CurrentIsThere
<1> QED
  BY <1>2, <1>4, <1>5, <1>6, <1>7 DEF GraphInv

\* recordConversation with the current node, which is updated if it is there.
LEMMA ContinueConversationKeeps ==
    ASSUME GraphInv, ContinueConversation
    PROVE  GraphInv'
<1>1. /\ entries' = entries + 1 /\ entries' \in Nat /\ current' = current
      /\ forgotten' = forgotten /\ loaded' = loaded /\ stored' = stored
  BY DEF ContinueConversation, GraphInv
<1>2. Whole /\ Loadable
  BY DEF GraphInv
<1> DEFINE there == current \in DOMAIN graph.nodes /\ graph.nodes[current].type = "conversation"
<1>3. CASE there
  <2> DEFINE messages == Append(graph.nodes[current].messages, entries')
  <2>1. UpdateNode(current, messages) /\ current \in DOMAIN graph.nodes
    BY <1>3 DEF ContinueConversation
  <2>2. messages \in Seq(Nat)
    <3>1. graph.nodes[current].messages \in Seq(Nat)
      BY <1>2, <1>3 DEF Whole, Made, GraphOf, Node
    <3> QED
      BY <1>1, <3>1
  <2> HIDE DEF messages
  <2>3. Whole' /\ made' = made /\ NodeUpdated(current, messages)
    BY <1>2, <2>1, <2>2, UpdateNodeKeeps
  <2>4. Loadable'
    <3>1. Later(made, made')
      BY <1>2, <2>3, StillLater
    <3> QED
      BY <1>1, <1>2, <3>1, LoadableStays
  <2>5. CurrentIsThere'
    BY <1>1, <1>3, <2>3 DEF CurrentIsThere, NodeUpdated
  <2> QED
    BY <1>1, <2>3, <2>4, <2>5 DEF GraphInv
<1>4. CASE ~ there
  <2>1. UNCHANGED engineVars
    BY <1>4 DEF ContinueConversation
  <2> QED
    BY <1>1, <2>1 DEF GraphInv, engineVars, Whole, Follows, Loadable, CurrentIsThere
<1> QED
  BY <1>3, <1>4

\* recordIntent: a node, and a relationship that ends at it.
LEMMA RecordIntentParts ==
    ASSUME GraphInv, RecordIntent
    PROVE  /\ Whole' /\ Later(made, made') /\ made'.nodes = made.nodes + 1
           /\ made'.nodes \notin DOMAIN graph.nodes
           /\ NodeSet(graph, graph', made'.nodes, Intent)
<1> DEFINE node == made.nodes + 1
           edge == made.edges + 1
           relation == [from |-> current, to |-> node, updates |-> 0,
                        loose |-> {current} \ DOMAIN graph.nodes]
           between == [made EXCEPT !.nodes = node]
           intent == Intent
           g == WithNode(graph, node, intent)
<1>1. /\ current # 0 /\ node \in NodeIds /\ edge \in EdgeIds
      /\ made' = [nodes |-> node, edges |-> edge]
      /\ UpdateGraphMetadata
  BY DEF RecordIntent
<1>2. /\ graph' = WithEdge(g, edge, relation)
      /\ Tell(WithEdge(WithNode(view, node, intent), edge, relation))
  BY DEF RecordIntent
<1>3. /\ Whole /\ Made(graph, made) /\ made \in Counts /\ EndsAreThere(graph) /\ Follows
      /\ current \in 1 .. made.nodes
  BY <1>1, GraphAssumption DEF GraphInv, Whole, Counts
<1>4. /\ Later(made, between) /\ node \in 1 .. between.nodes /\ node \notin 1 .. made.nodes
  BY <1>1, <1>3, GraphAssumption DEF Counts, NodeIds, Later
<1>5. /\ Later(between, made') /\ Later(made, made') /\ edge \in 1 .. made'.edges
      /\ made'.nodes = node
  BY <1>1, <1>3, GraphAssumption DEF Counts, NodeIds, EdgeIds, Later
<1>6. relation \in Edge /\ {relation.from, relation.to} \ relation.loose \subseteq DOMAIN graph.nodes \cup {node}
  <2>1. current \in 1 .. MaxNodes /\ node \in 1 .. MaxNodes
    BY <1>1, <1>3, GraphAssumption DEF Counts, NodeIds
  <2> QED
    BY <2>1 DEF Edge
<1>7. intent \in Node
  BY DEF Intent, Node
<1>8. g = WithNode(graph, node, intent)
  OBVIOUS
<1>9. node \notin DOMAIN graph.nodes
  BY <1>3, <1>4 DEF Made, GraphOf
<1>10. told' = told /\ (told => view' = graph') /\ (~ told => view' = view)
  BY <1>2, <1>3 DEF Tell, Follows
<1>11. intent = Intent /\ node = made.nodes + 1
  OBVIOUS
<1> HIDE DEF node, edge, relation, between, intent, g
<1>12. Made(g, between) /\ EndsAreThere(g) /\ NodeSet(graph, g, node, intent)
  BY <1>3, <1>4, <1>7, <1>8, NodeIsSet
<1>13. Made(graph', made') /\ EndsAreThere(graph') /\ graph'.nodes = g.nodes
  <2>1. {relation.from, relation.to} \ relation.loose \subseteq DOMAIN g.nodes
    BY <1>6, <1>12 DEF NodeSet
  <2>2. graph' = WithEdge(g, edge, relation) /\ relation \in Edge
    BY <1>2, <1>6
  <2> QED
    BY <1>5, <1>12, <2>1, <2>2, EdgeIsSet
<1>14. Whole'
  BY <1>1, <1>3, <1>5, <1>10, <1>13, OperationKeeps
<1>15. NodeSet(graph, graph', node, intent)
  BY <1>12, <1>13 DEF NodeSet
<1> QED
  BY <1>5, <1>9, <1>11, <1>14, <1>15

\* recordIntent leaves the current conversation where it is.
LEMMA RecordIntentKeeps ==
    ASSUME GraphInv, RecordIntent
    PROVE  GraphInv'
<1>1. UNCHANGED <<stored, entries, current, forgotten, loaded>>
  BY DEF RecordIntent
<1>2. /\ Whole' /\ Later(made, made') /\ made'.nodes = made.nodes + 1
      /\ made'.nodes \notin DOMAIN graph.nodes
      /\ NodeSet(graph, graph', made'.nodes, Intent)
  BY RecordIntentParts
<1>3. Loadable'
  BY <1>1, <1>2, LoadableStays DEF GraphInv
<1>4. CurrentIsThere => CurrentIsThere'
  BY <1>1, <1>2 DEF CurrentIsThere, NodeSet
<1>5. current' \in 0 .. made'.nodes
  BY <1>1, <1>2, GraphAssumption DEF GraphInv, Whole, Counts
<1> QED
  BY <1>1, <1>2, <1>3, <1>4, <1>5 DEF GraphInv

\* A node that was there is of its type and has its messages; a new one is an
\* intent.
NodesStay ==
    \A id \in DOMAIN graph'.nodes :
        \/ /\ id \in DOMAIN graph.nodes
           /\ graph'.nodes[id].type = graph.nodes[id].type
           /\ graph'.nodes[id].messages = graph.nodes[id].messages
        \/ id \notin 1 .. made.nodes /\ graph'.nodes[id] = Intent

\* No conversation is removed.
ConversationsStay ==
    \A id \in DOMAIN graph.nodes : graph.nodes[id].type = "conversation" => id \in DOMAIN graph'.nodes

\* What the other operations of callers do.
LEMMA CallerActsParts ==
    ASSUME GraphInv, CallerActs
    PROVE  Whole' /\ Later(made, made') /\ NodesStay /\ ConversationsStay
<1>1. Whole
  BY DEF GraphInv
<1>2. Later(made, made)
  BY <1>1, StillLater
<1>3. CASE AddNode(Intent)
  <2>1. Intent \in Node
    BY DEF Intent, Node
  <2>2. /\ Whole' /\ Later(made, made')
        /\ made'.nodes = made.nodes + 1
        /\ DOMAIN graph'.nodes = DOMAIN graph.nodes \cup {made'.nodes}
        /\ graph'.nodes[made'.nodes] = Intent
        /\ \A j \in DOMAIN graph.nodes : graph'.nodes[j] = graph.nodes[j]
    BY <1>1, <1>3, <2>1, AddNodeKeeps
  <2>3. made'.nodes \notin 1 .. made.nodes
    BY <1>1, <2>2, GraphAssumption DEF Whole, Counts
  <2>4. NodesStay /\ ConversationsStay
    BY <2>2, <2>3 DEF NodesStay, ConversationsStay
  <2> QED
    BY <2>2, <2>4
<1>4. ASSUME NEW id \in DOMAIN graph.nodes, UpdateNode(id, graph.nodes[id].messages)
      PROVE  Whole' /\ Later(made, made') /\ NodesStay /\ ConversationsStay
  <2> DEFINE messages == graph.nodes[id].messages
  <2>1. messages \in Seq(Nat)
    BY <1>1 DEF Whole, Made, GraphOf, Node
  <2>2. UpdateNode(id, messages)
    BY <1>4
  <2> HIDE DEF messages
  <2>3. Whole' /\ made' = made /\ NodeUpdated(id, messages)
    BY <1>1, <2>1, <2>2, UpdateNodeKeeps
  <2>4. NodesStay /\ ConversationsStay
    BY <2>3 DEF messages, NodeUpdated, NodesStay, ConversationsStay
  <2> QED
    BY <1>2, <2>3, <2>4
<1>5. ASSUME NEW id \in DOMAIN graph.nodes, graph.nodes[id].type = "intent", RemoveNode(id)
      PROVE  Whole' /\ Later(made, made') /\ NodesStay /\ ConversationsStay
  <2>1. Whole' /\ made' = made /\ NodeGone(graph, graph', id)
    BY <1>1, <1>5, RemoveNodeKeeps
  <2>2. NodesStay /\ ConversationsStay
    BY <1>5, <2>1 DEF NodeGone, NodesStay, ConversationsStay
  <2> QED
    BY <1>2, <2>1, <2>2
<1>6. ASSUME graph'.nodes = graph.nodes PROVE NodesStay /\ ConversationsStay
  BY <1>6 DEF NodesStay, ConversationsStay
<1>7. ASSUME NEW from \in 1 .. made.nodes, NEW to \in 1 .. made.nodes, AddRelationship(from, to)
      PROVE  Whole' /\ Later(made, made') /\ graph'.nodes = graph.nodes
  BY <1>1, <1>7, AddRelationshipKeeps
<1>8. ASSUME NEW id \in DOMAIN graph.edges, NEW from \in 1 .. made.nodes, NEW to \in 1 .. made.nodes,
             UpdateRelationship(id, from, to)
      PROVE  Whole' /\ made' = made /\ graph'.nodes = graph.nodes
  BY <1>1, <1>8, UpdateRelationshipKeeps
<1>9. ASSUME NEW id \in DOMAIN graph.edges, RemoveRelationship(id)
      PROVE  Whole' /\ made' = made /\ graph'.nodes = graph.nodes
  BY <1>1, <1>9, RemoveRelationshipKeeps
<1> QED
  BY <1>2, <1>3, <1>4, <1>5, <1>6, <1>7, <1>8, <1>9 DEF CallerActs

\* None of them removes the current conversation.
LEMMA CallerActsKeeps ==
    ASSUME GraphInv, CallerActs
    PROVE  GraphInv'
<1>1. UNCHANGED <<stored, entries, current, forgotten, loaded>>
  BY DEF CallerActs
<1>2. Whole' /\ Later(made, made') /\ NodesStay /\ ConversationsStay
  BY CallerActsParts
<1>3. Loadable'
  BY <1>1, <1>2, LoadableStays DEF GraphInv
<1>4. CurrentIsThere => CurrentIsThere'
  <2> SUFFICES ASSUME CurrentIsThere, current # 0 PROVE CurrentIsThere'
    BY <1>1 DEF CurrentIsThere
  <2>1. current \in DOMAIN graph.nodes /\ graph.nodes[current].type = "conversation"
    BY DEF CurrentIsThere
  <2>2. current \in DOMAIN graph'.nodes /\ current \in 1 .. made.nodes
    BY <1>2, <2>1 DEF ConversationsStay, GraphInv, Whole, Made, GraphOf
  <2>3. graph'.nodes[current].type = "conversation"
    BY <1>2, <2>1, <2>2 DEF NodesStay
  <2> QED
    BY <1>1, <2>2, <2>3 DEF CurrentIsThere
<1>5. current' \in 0 .. made'.nodes
  <2>1. current \in 0 .. made.nodes /\ 1 .. made.nodes \subseteq 1 .. made'.nodes
    BY <1>2 DEF GraphInv, Later
  <2>2. made.nodes \in Nat /\ made'.nodes \in Nat
    BY <1>2, GraphAssumption DEF Later, Counts
  <2>3. CASE current = 0
    BY <1>1, <2>2, <2>3
  <2>4. CASE current # 0
    BY <1>1, <2>1, <2>2, <2>4
  <2> QED
    BY <2>3, <2>4
<1> QED
  BY <1>1, <1>2, <1>3, <1>4, <1>5 DEF GraphInv

\* What is cleared or removed leaves the graph whole.
LEMMA CallerForgetsKeeps ==
    ASSUME GraphInv, CallerForgets
    PROVE  GraphInv' /\ NodesStay
<1>1. UNCHANGED <<stored, entries, current, loaded>> /\ forgotten' = TRUE
  BY DEF CallerForgets
<1>2. Whole /\ Loadable
  BY DEF GraphInv
<1>3. CASE ClearGraph
  <2>1. Whole' /\ made' = made /\ DOMAIN graph'.nodes = {}
    BY <1>2, <1>3, ClearGraphKeeps
  <2>2. Loadable'
    BY <1>1, <1>2, <2>1, StillLater, LoadableStays
  <2> QED
    BY <1>1, <2>1, <2>2 DEF GraphInv, NodesStay
<1>4. ASSUME NEW id \in DOMAIN graph.nodes, RemoveNode(id) PROVE GraphInv' /\ NodesStay
  <2>1. Whole' /\ made' = made /\ NodeGone(graph, graph', id)
    BY <1>2, <1>4, RemoveNodeKeeps
  <2>2. Loadable'
    BY <1>1, <1>2, <2>1, StillLater, LoadableStays
  <2> QED
    BY <1>1, <2>1, <2>2 DEF GraphInv, NodeGone, NodesStay
<1> QED
  BY <1>3, <1>4 DEF CallerForgets

\* So does what is loaded.
LEMMA LoadGraphKeeps ==
    ASSUME GraphInv, LoadGraph
    PROVE  GraphInv'
<1>1. /\ UNCHANGED <<made, stored, entries, current>> /\ forgotten' = TRUE /\ loaded' = TRUE
      /\ graph' \in Given \cup {stored} /\ TellNothing /\ UpdateGraphMetadata
  BY DEF LoadGraph
<1>2. Whole /\ Loadable
  BY DEF GraphInv
<1>3. Made(graph', made) /\ EndsAreThere(graph')
  BY <1>1, <1>2, GraphAssumption DEF Loadable
<1>4. Whole'
  BY <1>1, <1>2, <1>3, SilenceKeeps
<1>5. Loadable'
  BY <1>1, <1>2, StillLater, LoadableStays
<1> QED
  BY <1>1, <1>4, <1>5 DEF GraphInv

\* Saving hands out the graph as it is.
LEMMA SaveGraphKeeps ==
    ASSUME GraphInv, SaveGraph
    PROVE  GraphInv'
<1>1. UNCHANGED <<engineVars, entries, current, forgotten, loaded>> /\ stored' = graph
  BY DEF SaveGraph
<1>2. UNCHANGED <<graph, view, told, made, stats, counted>>
  BY <1>1 DEF engineVars
<1>3. Whole'
  BY <1>2 DEF GraphInv, Whole, Follows
<1>4. Loadable'
  BY <1>1, <1>2 DEF GraphInv, Whole, Loadable
<1> QED
  BY <1>1, <1>2, <1>3, <1>4 DEF GraphInv, CurrentIsThere

\* A new subscriber holds the graph.
LEMMA SubscribeKeeps ==
    ASSUME GraphInv, Subscribe
    PROVE  GraphInv'
<1>1. /\ UNCHANGED <<graph, made, stats, counted, stored, entries, current, forgotten, loaded>>
      /\ view' = graph /\ told' = TRUE
  BY DEF Subscribe
<1>2. Whole'
  BY <1>1 DEF GraphInv, Whole, Follows
<1> QED
  BY <1>1, <1>2 DEF GraphInv, Loadable, CurrentIsThere

\* The invariant holds in every state.
LEMMA GraphInvariant == Spec => []GraphInv
<1>1. Init => GraphInv
  <2> SUFFICES ASSUME Init PROVE GraphInv
    OBVIOUS
  <2>1. /\ graph \in Given \cup {Empty} /\ stored \in Given \cup {Empty}
        /\ view = graph /\ told = TRUE /\ counted = FALSE
        /\ made = [nodes |-> GivenNodes, edges |-> GivenEdges]
        /\ stats \in {StatsOf(Empty), StatsOf(graph)}
        /\ entries = 0 /\ current = 0 /\ forgotten = FALSE /\ loaded = FALSE
    BY DEF Init
  <2>2. made \in Counts
    BY <2>1, GraphAssumption DEF Counts
  <2>3. \A g \in Given : Made(g, made) /\ EndsAreThere(g)
    BY <2>1, GraphAssumption DEF Made
  <2>4. Made(graph, made) /\ EndsAreThere(graph) /\ Loadable
    BY <2>1, <2>3, EmptyIsMade DEF Loadable
  <2>5. StatsOf(graph) \in [nodeCount : Nat, edgeCount : Nat]
    BY <2>2, <2>4, StatsAreNumbers
  <2>6. StatsOf(Empty) \in [nodeCount : Nat, edgeCount : Nat]
    BY <2>2, EmptyIsMade, StatsAreNumbers
  <2>7. Whole
    BY <2>1, <2>2, <2>4, <2>5, <2>6 DEF Whole, Follows
  <2>8. current \in 0 .. made.nodes
    BY <2>1, <2>2, GraphAssumption DEF Counts
  <2> QED
    BY <2>1, <2>4, <2>7, <2>8 DEF GraphInv, CurrentIsThere
<1>2. GraphInv /\ [Next]_vars => GraphInv'
  <2> SUFFICES ASSUME GraphInv, [Next]_vars PROVE GraphInv'
    OBVIOUS
  <2>1. CASE UNCHANGED vars
    <3>1. UNCHANGED <<graph, view, told, made, stats, counted, stored, entries, current, forgotten, loaded>>
      BY <2>1 DEF vars, engineVars
    <3> QED
      BY <3>1 DEF GraphInv, Whole, Follows, Loadable, CurrentIsThere
  <2> QED
    BY <2>1, StartConversationKeeps, ContinueConversationKeeps, RecordIntentKeeps, CallerActsKeeps,
       CallerForgetsKeeps, SaveGraphKeeps, LoadGraphKeeps, SubscribeKeeps DEF Next
<1> QED
  BY <1>1, <1>2, PTL DEF Spec

\* engine.ts: between any two operations the graph of the engine is whole: it
\* is of its types, the statistics count it once they were refreshed, and no
\* relationship has lost an end it had, nor would with what is loaded.
THEOREM GraphIsWhole == Spec => []GraphIsConsistent
<1>1. GraphInv => GraphIsConsistent
  <2> SUFFICES ASSUME GraphInv PROVE GraphIsConsistent
    OBVIOUS
  <2>1. TypeOK
    BY DEF GraphInv, Whole, Loadable, Made, Counts, Graph, TypeOK
  <2>2. StatsCountTheGraph /\ EdgesEndAtNodes
    BY DEF GraphInv, Whole, Loadable, StatsCountTheGraph, EdgesEndAtNodes
  <2> QED
    BY <2>1, <2>2 DEF GraphIsConsistent
<1> QED
  BY <1>1, GraphInvariant, PTL

\* engine.ts changes$: a subscriber that read the graph and applies what it is
\* told holds the graph, until that is cleared or another is loaded.
THEOREM SubscribersFollow == Spec => []StreamTellsTheGraph
<1>1. GraphInv => StreamTellsTheGraph
  BY DEF GraphInv, Whole, Follows, StreamTellsTheGraph
<1> QED
  BY <1>1, GraphInvariant, PTL

----------------------------------------------------------------------------
(* The conversation in the graph.                                          *)

\* Only nodes of conversations hold messages.
IntentsAreSilent(g) ==
    \A id \in DOMAIN g.nodes : g.nodes[id].type = "intent" => g.nodes[id].messages = <<>>

\* The part of the inductive invariant that speaks of messages.
Recorded ==
    /\ IntentsAreSilent(graph) /\ IntentsAreSilent(stored)
    /\ current \in DOMAIN graph.nodes /\ ~ loaded => graph.nodes[current].type = "conversation"
    /\ ConversationIsCurrent
    /\ EveryEntryIsInTheGraph

\* What leaves nodes as they are leaves the current conversation current.
LEMMA StayCurrent ==
    ASSUME GraphInv, GraphInv', Recorded, NodesStay, UNCHANGED <<stored, entries, current, loaded>>
    PROVE  /\ IntentsAreSilent(graph') /\ IntentsAreSilent(stored')
           /\ current' \in DOMAIN graph'.nodes /\ ~ loaded' => graph'.nodes[current'].type = "conversation"
           /\ ConversationIsCurrent'
<1>1. Intent.type = "intent" /\ Intent.messages = <<>>
  BY DEF Intent
<1>2. IntentsAreSilent(graph') /\ IntentsAreSilent(stored')
  BY <1>1 DEF NodesStay, Recorded, IntentsAreSilent
<1>3. current' # 0 /\ ~ forgotten' => current' \in DOMAIN graph'.nodes
  BY DEF GraphInv, CurrentIsThere
<1>4. ASSUME current \in DOMAIN graph'.nodes
      PROVE  /\ current \in DOMAIN graph.nodes
             /\ graph'.nodes[current].type = graph.nodes[current].type
             /\ graph'.nodes[current].messages = graph.nodes[current].messages
  <2>1. current # 0
    <3>1. DOMAIN graph'.nodes \subseteq 1 .. made'.nodes
      BY DEF GraphInv, Whole, Made, GraphOf
    <3> QED
      BY <1>4, <3>1
  <2>2. current \in 1 .. made.nodes
    BY <2>1, GraphAssumption DEF GraphInv, Whole, Counts
  <2> QED
    BY <1>4, <2>2 DEF NodesStay
<1>5. ConversationIsCurrent'
  BY <1>3, <1>4 DEF Recorded, ConversationIsCurrent
<1>6. current' \in DOMAIN graph'.nodes /\ ~ loaded' => graph'.nodes[current'].type = "conversation"
  BY <1>4 DEF Recorded
<1> QED
  BY <1>2, <1>5, <1>6

\* If no conversation is removed either, every entry is still recorded.
LEMMA StayRecorded ==
    ASSUME GraphInv, GraphInv', Recorded, NodesStay, ConversationsStay,
           UNCHANGED <<stored, entries, current, forgotten, loaded>>
    PROVE  Recorded'
<1>1. ASSUME NEW n, InGraph(n) PROVE InGraph(n)'
  <2>1. PICK id \in DOMAIN graph.nodes : \E i \in DOMAIN graph.nodes[id].messages : graph.nodes[id].messages[i] = n
    BY <1>1 DEF InGraph
  <2>2. graph.nodes[id].type = "conversation"
    <3>1. graph.nodes[id].type \in {"conversation", "intent"}
      BY DEF GraphInv, Whole, Made, GraphOf, Node
    <3>2. graph.nodes[id].type = "intent" => graph.nodes[id].messages = <<>>
      BY DEF Recorded, IntentsAreSilent
    <3>3. graph.nodes[id].messages # <<>>
      BY <2>1
    <3> QED
      BY <3>1, <3>2, <3>3
  <2>3. id \in DOMAIN graph'.nodes /\ id \in 1 .. made.nodes
    BY <2>2 DEF ConversationsStay, GraphInv, Whole, Made, GraphOf
  <2>4. graph'.nodes[id].messages = graph.nodes[id].messages
    BY <2>3 DEF NodesStay
  <2> QED
    BY <2>1, <2>3, <2>4 DEF InGraph
<1>2. EveryEntryIsInTheGraph'
  BY <1>1 DEF Recorded, EveryEntryIsInTheGraph
<1>3. UNCHANGED <<stored, entries, current, loaded>>
  OBVIOUS
<1> QED
  BY <1>2, <1>3, StayCurrent DEF Recorded

\* When something is forgotten the current conversation is as it was, or gone.
LEMMA ForgetsRecorded ==
    ASSUME GraphInv, GraphInv', Recorded, CallerForgets
    PROVE  Recorded'
<1>1. UNCHANGED <<stored, entries, current, loaded>> /\ forgotten'
  BY DEF CallerForgets
<1>2. NodesStay
  BY CallerForgetsKeeps
<1>3. EveryEntryIsInTheGraph'
  BY <1>1 DEF EveryEntryIsInTheGraph
<1> QED
  BY <1>1, <1>2, <1>3, StayCurrent DEF Recorded

\* recordIntent adds no more than a node without messages.
LEMMA IntentRecorded ==
    ASSUME GraphInv, GraphInv', Recorded, RecordIntent
    PROVE  Recorded'
<1>1. UNCHANGED <<stored, entries, current, forgotten, loaded>>
  BY DEF RecordIntent
<1>2. /\ made'.nodes = made.nodes + 1 /\ made'.nodes \notin DOMAIN graph.nodes
      /\ NodeSet(graph, graph', made'.nodes, Intent)
  BY RecordIntentParts
<1>3. made'.nodes \notin 1 .. made.nodes
  BY <1>2, GraphAssumption DEF GraphInv, Whole, Counts
<1>4. NodesStay /\ ConversationsStay
  BY <1>2, <1>3 DEF NodeSet, NodesStay, ConversationsStay
<1> QED
  BY <1>1, <1>4, StayRecorded

\* A graph that is loaded is silent where it should be, and nothing is claimed
\* of the current conversation.
LEMMA LoadRecorded ==
    ASSUME GraphInv, GraphInv', Recorded, LoadGraph
    PROVE  Recorded'
<1>1. /\ stored' = stored /\ forgotten' = TRUE /\ loaded' = TRUE
      /\ graph' \in Given \cup {stored}
  BY DEF LoadGraph
<1>2. IntentsAreSilent(graph') /\ IntentsAreSilent(stored')
  BY <1>1, GraphAssumption DEF Recorded, IntentsAreSilent
<1> QED
  BY <1>1, <1>2 DEF Recorded, ConversationIsCurrent, EveryEntryIsInTheGraph

\* A new node begins with the latest entries.
LEMMA StartRecorded ==
    ASSUME GraphInv, GraphInv', Recorded, StartConversation
    PROVE  Recorded'
<1> DEFINE recent == RecentMessages(entries')
           node == [type |-> "conversation", version |-> 0, messages |-> recent]
           k == IF entries' < Recent THEN entries' ELSE Recent
<1>1. /\ AddNode(node) /\ current' = made'.nodes /\ forgotten' = forgotten /\ entries' = entries + 1
      /\ stored' = stored
  BY DEF StartConversation
<1>2. entries \in Nat /\ entries' \in Nat /\ Whole
  BY <1>1 DEF GraphInv
<1>3. node \in Node /\ node.type = "conversation" /\ node.messages = recent
  BY <1>2, RecentAreMessages DEF Node
<1>4. k \in 1 .. entries' /\ k >= IF entries' < Recent THEN entries' ELSE Recent
  BY <1>1, <1>2, GraphAssumption
<1>5. /\ DOMAIN recent = 1 .. k /\ Len(recent) = k
      /\ \A i \in 1 .. k : recent[i] = entries' - k + i
  <2>1. recent = [i \in 1 .. k |-> entries' - k + i]
    BY DEF RecentMessages
  <2>2. recent \in Seq(Nat)
    BY <1>2, RecentAreMessages
  <2> HIDE DEF k, recent
  <2> QED
    BY <1>4, <2>1, <2>2
<1> HIDE DEF node, recent, k
<1>6. /\ made'.nodes = made.nodes + 1
      /\ DOMAIN graph'.nodes = DOMAIN graph.nodes \cup {made'.nodes}
      /\ graph'.nodes[made'.nodes] = node
      /\ \A j \in DOMAIN graph.nodes : graph'.nodes[j] = graph.nodes[j]
  BY <1>1, <1>2, <1>3, AddNodeKeeps
<1>7. IntentsAreSilent(graph') /\ IntentsAreSilent(stored')
  BY <1>1, <1>3, <1>6 DEF Recorded, IntentsAreSilent
<1>8. current' \in DOMAIN graph'.nodes /\ graph'.nodes[current'].messages = recent
  BY <1>1, <1>3, <1>6
<1>9. ConversationIsCurrent'
  <2>1. Len(recent) >= (IF entries' < Recent THEN entries' ELSE Recent)
    BY <1>4, <1>5
  <2>2. \A i \in 1 .. Len(recent) : recent[i] = entries' - Len(recent) + i
    BY <1>5
  <2> QED
    BY <1>8, <2>1, <2>2 DEF ConversationIsCurrent
<1>10. ASSUME NEW n, InGraph(n) PROVE InGraph(n)'
  BY <1>6, <1>10 DEF InGraph
<1>11. InGraph(entries)'
  <2>1. k \in DOMAIN recent /\ recent[k] = entries'
    BY <1>2, <1>4, <1>5
  <2> QED
    BY <1>8, <2>1 DEF InGraph
<1>12. EveryEntryIsInTheGraph'
  <2> SUFFICES ASSUME ~ forgotten', NEW n \in 1 .. entries' PROVE InGraph(n)'
    BY DEF EveryEntryIsInTheGraph
  <2>1. n \in 1 .. entries \/ n = entries'
    BY <1>1, <1>2
  <2>2. n \in 1 .. entries => InGraph(n)
    BY <1>1 DEF Recorded, EveryEntryIsInTheGraph
  <2> QED
    BY <1>10, <1>11, <2>1, <2>2 DEF InGraph
<1> QED
  BY <1>1, <1>3, <1>6, <1>7, <1>9, <1>12 DEF Recorded

\* The entry follows those the current node ends with.
LEMMA ContinueRecorded ==
    ASSUME GraphInv, GraphInv', Recorded, ContinueConversation
    PROVE  Recorded'
<1>1. /\ entries' = entries + 1 /\ current' = current /\ forgotten' = forgotten /\ current # 0
      /\ stored' = stored /\ loaded' = loaded
  BY DEF ContinueConversation
<1>2. entries \in Nat /\ Whole
  BY DEF GraphInv
<1> DEFINE there == current \in DOMAIN graph.nodes /\ graph.nodes[current].type = "conversation"
<1>3. CASE ~ there
  <2>1. graph' = graph
    BY <1>3 DEF ContinueConversation, engineVars
  <2>2. forgotten
    BY <1>1, <1>3 DEF GraphInv, CurrentIsThere
  <2> QED
    BY <1>1, <1>3, <2>1, <2>2 DEF Recorded, ConversationIsCurrent, EveryEntryIsInTheGraph
<1>4. CASE there
  <2> DEFINE held == graph.nodes[current].messages
             messages == Append(held, entries')
  <2>1. UpdateNode(current, messages)
    BY <1>4 DEF ContinueConversation
  <2>2. held \in Seq(Nat) /\ entries' \in Nat
    BY <1>1, <1>2, <1>4 DEF Whole, Made, GraphOf, Node
  <2>3. ~ loaded =>
           /\ Len(held) >= (IF entries < Recent THEN entries ELSE Recent)
           /\ \A i \in 1 .. Len(held) : held[i] = entries - Len(held) + i
    BY <1>4 DEF Recorded, ConversationIsCurrent
  <2>held. held = graph.nodes[current].messages
    OBVIOUS
  <2> HIDE DEF held
  <2>4. /\ messages \in Seq(Nat) /\ Len(messages) = Len(held) + 1
        /\ \A i \in 1 .. Len(held) : messages[i] = held[i]
        /\ messages[Len(held) + 1] = entries'
        /\ DOMAIN messages = 1 .. Len(held) + 1 /\ DOMAIN held = 1 .. Len(held) /\ Len(held) \in Nat
    BY <2>2
  <2> HIDE DEF messages
  <2>update. NodeUpdated(current, messages)
    BY <1>2, <1>4, <2>1, <2>4, UpdateNodeKeeps
  <2>5. /\ DOMAIN graph'.nodes = DOMAIN graph.nodes
        /\ graph'.nodes[current].type = graph.nodes[current].type
        /\ graph'.nodes[current].messages = messages
        /\ \A j \in DOMAIN graph.nodes : j # current => graph'.nodes[j] = graph.nodes[j]
    BY <2>update DEF NodeUpdated
  <2>6. graph.nodes[current].type = "conversation"
    BY <1>4
  <2>7. IntentsAreSilent(graph') /\ IntentsAreSilent(stored')
    BY <1>1, <2>5, <2>6 DEF Recorded, IntentsAreSilent
  <2>8. ConversationIsCurrent'
    <3> SUFFICES ASSUME ~ loaded
                 PROVE  /\ Len(messages) >= (IF entries' < Recent THEN entries' ELSE Recent)
                        /\ \A i \in 1 .. Len(messages) : messages[i] = entries' - Len(messages) + i
      BY <1>1, <1>4, <2>5 DEF ConversationIsCurrent
    <3>1. Len(messages) >= (IF entries' < Recent THEN entries' ELSE Recent)
      BY <1>1, <1>2, <2>3, <2>4, GraphAssumption
    <3>2. ASSUME NEW i \in 1 .. Len(messages)
          PROVE  messages[i] = entries' - Len(messages) + i
      <4>1. CASE i \in 1 .. Len(held)
        BY <1>1, <1>2, <2>3, <2>4, <4>1
      <4>2. CASE i = Len(held) + 1
        BY <1>1, <1>2, <2>4, <4>2
      <4> QED
        BY <2>4, <4>1, <4>2
    <3> QED
      BY <3>1, <3>2
  <2>9. ASSUME NEW n, InGraph(n) PROVE InGraph(n)'
    <3>1. PICK id \in DOMAIN graph.nodes : \E i \in DOMAIN graph.nodes[id].messages : graph.nodes[id].messages[i] = n
      BY <2>9 DEF InGraph
    <3>2. CASE id = current
      <4>1. PICK i \in DOMAIN held : held[i] = n
        BY <2>held, <3>1, <3>2
      <4>2. i \in DOMAIN messages /\ messages[i] = n
        BY <2>4, <4>1
      <4> QED
        BY <1>4, <2>5, <4>2 DEF InGraph
    <3>3. CASE id # current
      BY <2>5, <3>1, <3>3 DEF InGraph
    <3> QED
      BY <3>2, <3>3
  <2>10. InGraph(entries)'
    <3>1. Len(held) + 1 \in DOMAIN messages
      BY <2>4
    <3> QED
      BY <1>4, <2>4, <2>5, <3>1 DEF InGraph
  <2>11. EveryEntryIsInTheGraph'
    <3> SUFFICES ASSUME ~ forgotten', NEW n \in 1 .. entries' PROVE InGraph(n)'
      BY DEF EveryEntryIsInTheGraph
    <3>1. n \in 1 .. entries \/ n = entries'
      BY <1>1, <1>2
    <3>2. n \in 1 .. entries => InGraph(n)
      BY <1>1 DEF Recorded, EveryEntryIsInTheGraph
    <3> QED
      BY <2>9, <2>10, <3>1, <3>2 DEF InGraph
  <2> QED
    BY <1>1, <2>5, <2>6, <2>7, <2>8, <2>11 DEF Recorded
<1> QED
  BY <1>3, <1>4

\* runtime.ts recordConversation: as long as no conversation is removed and the
\* graph is not replaced, it holds every entry, and the current node the latest
\* ones without a gap.
THEOREM ConversationsAreRecorded == Spec => []ConversationIsRecorded
<1>1. Init => Recorded
  <2> SUFFICES ASSUME Init PROVE Recorded
    OBVIOUS
  <2>1. /\ graph \in Given \cup {Empty} /\ stored \in Given \cup {Empty}
        /\ entries = 0 /\ current = 0 /\ DOMAIN Empty.nodes = {}
    BY EmptyIsMade DEF Init
  <2>2. IntentsAreSilent(graph) /\ IntentsAreSilent(stored)
    BY <2>1, GraphAssumption DEF IntentsAreSilent
  <2>3. current \notin DOMAIN graph.nodes
    BY <2>1, GraphAssumption DEF GraphOf
  <2> QED
    BY <2>1, <2>2, <2>3 DEF Recorded, ConversationIsCurrent, EveryEntryIsInTheGraph
<1>2. Recorded /\ GraphInv /\ GraphInv' /\ [Next]_vars => Recorded'
  <2> SUFFICES ASSUME Recorded, GraphInv, GraphInv', [Next]_vars PROVE Recorded'
    OBVIOUS
  <2>1. ASSUME UNCHANGED <<graph, entries, current, forgotten, loaded>>, IntentsAreSilent(stored')
        PROVE  Recorded'
    BY <2>1 DEF Recorded, ConversationIsCurrent, EveryEntryIsInTheGraph, InGraph
  <2>2. CASE UNCHANGED vars
    <3>1. UNCHANGED <<graph, stored, entries, current, forgotten, loaded>>
      BY <2>2 DEF vars, engineVars
    <3> QED
      BY <2>1, <3>1 DEF Recorded
  <2>3. CASE SaveGraph
    <3>1. UNCHANGED <<graph, entries, current, forgotten, loaded>> /\ stored' = graph
      BY <2>3 DEF SaveGraph, engineVars
    <3> QED
      BY <2>1, <3>1 DEF Recorded
  <2>4. CASE Subscribe
    <3>1. UNCHANGED <<graph, stored, entries, current, forgotten, loaded>>
      BY <2>4 DEF Subscribe
    <3> QED
      BY <2>1, <3>1 DEF Recorded
  <2>5. CASE CallerActs
    <3>1. UNCHANGED <<stored, entries, current, forgotten, loaded>>
      BY <2>5 DEF CallerActs
    <3> QED
      BY <2>5, <3>1, CallerActsParts, StayRecorded
  <2> QED
    BY <2>2, <2>3, <2>4, <2>5, StartRecorded, ContinueRecorded, IntentRecorded, ForgetsRecorded,
       LoadRecorded DEF Next
<1>3. Recorded => ConversationIsRecorded
  BY DEF Recorded, ConversationIsRecorded
<1> QED
  BY <1>1, <1>2, <1>3, GraphInvariant, PTL DEF Spec
=============================================================================
