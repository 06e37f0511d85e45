---------------------------- MODULE GraphEngine ----------------------------
(***************************************************************************)
(* The memory graph of packages/memory-graph: MemoryGraphEngine            *)
(* (src/engine.ts) with the conversation that AgentMemoryRuntime           *)
(* (src/runtime.ts) records in it.                                         *)
(*                                                                         *)
(* Every operation but saving and loading runs to its end without a pause  *)
(* and is one action: the update of the graph, the change published on     *)
(* changes$, the refresh of the statistics.  Of saving and loading, whose  *)
(* steps are those of GraphStore, only the moment at which the graph is    *)
(* taken, or replaced, is an action.  A subscriber of changes$ that applies*)
(* what it is told is part of the model: what it holds can be compared     *)
(* with the graph.  Nodes and relationships are numbered as they are made. *)
(***************************************************************************)
EXTENDS Naturals, Sequences, FiniteSets

CONSTANTS
    MaxNodes, MaxEdges,  \* bounds: nodes and relationships ever created
    MaxUpdates,          \* bound: a caller's updates of one node or relationship
    MaxEntries,          \* bound: entries recorded
    Long,                \* 20 in the code: entries before every one gets a node
    Recent,              \* 10 in the code: entries a new node begins with
    GivenNodes, GivenEdges, \* how many there were before the engine was made
    Given                \* the graphs of those that it may be given, or load

\* A node: its type, how often it was updated (the last part of its version)
\* and the messages of a conversation.  A message is its place in the history,
\* 0 for one of an earlier session.
Node == [type : {"conversation", "intent"}, version : Nat, messages : Seq(Nat)]

\* A relationship: its ends, how often it was updated and, as history, those of
\* its ends that the graph did not have when it was given them.
Edge == [from : 1 .. MaxNodes, to : 1 .. MaxNodes, updates : Nat, loose : SUBSET (1 .. MaxNodes)]

\* A graph of the first n nodes and the first e relationships that were made.
GraphOf(g, n, e) ==
    /\ DOMAIN g = {"nodes", "edges"}
    /\ DOMAIN g.nodes \subseteq 1 .. n
    /\ DOMAIN g.edges \subseteq 1 .. e
    /\ \A id \in DOMAIN g.nodes : g.nodes[id] \in Node
    /\ \A id \in DOMAIN g.edges : g.edges[id] \in Edge

\* The ends of the relationships that were there when they became ends.
EndsAreThere(g) ==
    \A id \in DOMAIN g.edges :
        {g.edges[id].from, g.edges[id].to} \ g.edges[id].loose \subseteq DOMAIN g.nodes

ASSUME GraphAssumption ==
    /\ {MaxNodes, MaxEdges, MaxUpdates, MaxEntries, Long} \subseteq Nat
    /\ Recent \in Nat \ {0}
    /\ GivenNodes \in 0 .. MaxNodes /\ GivenEdges \in 0 .. MaxEdges
    /\ \A g \in Given :
          /\ GraphOf(g, GivenNodes, GivenEdges) /\ EndsAreThere(g)
          /\ \A id \in DOMAIN g.nodes : g.nodes[id].type = "intent" => g.nodes[id].messages = <<>>

VARIABLES
    graph,      \* the nodes and relationships of the graph, by id
    view,       \* the same as a subscriber of changes$ knows them
    told,       \* history: nothing has changed since it read the graph but what
                \* changes$ has told it
    made,       \* how many nodes and relationships there have been
    stats,      \* metadata.stats, without the complexity
    counted,    \* history: the statistics were refreshed
    stored,     \* the graph that was saved last
    entries,    \* the length of conversationHistory
    current,    \* currentConversationNodeId, 0 for null
    forgotten,  \* history: the graph was cleared or loaded, or a conversation removed
    loaded      \* history: a graph was loaded after current was set

engineVars == <<graph, view, told, made, stats, counted>>
vars == <<engineVars, stored, entries, current, forgotten, loaded>>

NodeIds == 1 .. MaxNodes
EdgeIds == 1 .. MaxEdges

\* A map without some of its keys, and with one key set.
Without(f, keys) == [i \in DOMAIN f \ keys |-> f[i]]
With(f, i, x) == [j \in DOMAIN f \cup {i} |-> IF j = i THEN x ELSE f[j]]

WithNode(g, id, node) == [g EXCEPT !.nodes = With(@, id, node)]
WithEdge(g, id, edge) == [g EXCEPT !.edges = With(@, id, edge)]

\* A graph without one of its nodes and the relationships that touch it.
Touching(g, id) == {e \in DOMAIN g.edges : id \in {g.edges[e].from, g.edges[e].to}}
WithoutNode(g, id) ==
    [nodes |-> Without(g.nodes, {id}), edges |-> Without(g.edges, Touching(g, id))]

\* A graph with nothing in it.
Empty == [nodes |-> [i \in {} |-> i], edges |-> [i \in {} |-> i]]

StatsOf(g) == [nodeCount |-> Cardinality(DOMAIN g.nodes), edgeCount |-> Cardinality(DOMAIN g.edges)]

\* The constructor: an empty graph or one that is given, whose statistics are
\* not looked at: they are 0 unless they are given with it.
Init ==
    /\ graph \in Given \cup {Empty}
    /\ view = graph
    /\ told = TRUE
    /\ made = [nodes |-> GivenNodes, edges |-> GivenEdges]
    /\ stats \in {StatsOf(Empty), StatsOf(graph)}
    /\ counted = FALSE
    /\ stored \in Given \cup {Empty}
    /\ entries = 0
    /\ current = 0
    /\ forgotten = FALSE
    /\ loaded = FALSE

----------------------------------------------------------------------------
(* The operations of the engine.                                           *)

\* updateGraphMetadata, on the graph the operation has left.
UpdateGraphMetadata ==
    /\ stats' = StatsOf(graph')
    /\ counted' = TRUE

\* The subscriber applies a change.  (What one holds that has missed something
\* is not followed.)
Tell(changed) ==
    /\ view' = IF told THEN changed ELSE view
    /\ UNCHANGED told

TellNothing ==
    /\ view' = Empty
    /\ told' = FALSE

\* A subscriber reads the graph, and follows changes$ from then on.
Subscribe ==
    /\ view' = graph
    /\ told' = TRUE
    /\ UNCHANGED <<graph, made, stats, counted, stored, entries, current, forgotten, loaded>>

\* addNode: the node is in the graph and on changes$.
AddNode(node) ==
    LET id == made.nodes + 1
    IN  /\ id \in NodeIds
        /\ graph' = WithNode(graph, id, node)
        /\ Tell(WithNode(view, id, node))
        /\ made' = [made EXCEPT !.nodes = id]
        /\ UpdateGraphMetadata

\* Fault: the change that is published holds the node before the update.
UpdateNodeToldBefore(id, messages) ==
    LET node == [graph.nodes[id] EXCEPT !.messages = messages, !.version = @ + 1]
    IN  /\ graph' = WithNode(graph, id, node)
        /\ Tell(WithNode(view, id, graph.nodes[id]))
        /\ UpdateGraphMetadata
        /\ UNCHANGED made

\* updateNode of a node the graph has: new messages, the next version.
UpdateNode(id, messages) ==
    LET node == [graph.nodes[id] EXCEPT !.messages = messages, !.version = @ + 1]
    IN  /\ graph' = WithNode(graph, id, node)
        /\ Tell(WithNode(view, id, node))
        /\ UpdateGraphMetadata
        /\ UNCHANGED made

\* Fault: only the relationships that begin at the node go with it.
RemoveNodeAndOutgoing(id) ==
    /\ graph' = [nodes |-> Without(graph.nodes, {id}),
                 edges |-> Without(graph.edges, {e \in DOMAIN graph.edges : graph.edges[e].from = id})]
    /\ Tell(WithoutNode(view, id))
    /\ UpdateGraphMetadata
    /\ UNCHANGED made

\* removeNode of a node the graph has: the relationships that touch it go
\* with it, but only the node is reported; the subscriber drops them itself.
RemoveNode(id) ==
    /\ graph' = WithoutNode(graph, id)
    /\ Tell(WithoutNode(view, id))
    /\ UpdateGraphMetadata
    /\ UNCHANGED made

\* The ends of a new relationship that the graph does not have.
Loose(g, from, to) == {from, to} \ DOMAIN g.nodes

\* addRelationship; whether its two ends exist is not looked at.
AddRelationship(from, to) ==
    LET id == made.edges + 1
        edge == [from |-> from, to |-> to, updates |-> 0, loose |-> Loose(graph, from, to)]
    IN  /\ id \in EdgeIds
        /\ graph' = WithEdge(graph, id, edge)
        /\ Tell(WithEdge(view, id, edge))
        /\ made' = [made EXCEPT !.edges = id]
        /\ UpdateGraphMetadata

\* updateRelationship of a relationship the graph has, which may get other ends.
UpdateRelationship(id, from, to) ==
    LET old == graph.edges[id]
        same == from = old.from /\ to = old.to
        edge == [from |-> from, to |-> to, updates |-> old.updates + 1,
                 loose |-> IF same THEN old.loose ELSE Loose(graph, from, to)]
    IN  /\ graph' = WithEdge(graph, id, edge)
        /\ Tell(WithEdge(view, id, edge))
        /\ UpdateGraphMetadata
        /\ UNCHANGED made

\* removeRelationship of a relationship the graph has.
RemoveRelationship(id) ==
    /\ graph' = [graph EXCEPT !.edges = Without(@, {id})]
    /\ Tell([view EXCEPT !.edges = Without(@, {id})])
    /\ UpdateGraphMetadata
    /\ UNCHANGED made

\* clearGraph; nothing is published on changes$.
ClearGraph ==
    /\ graph' = Empty
    /\ TellNothing
    /\ UpdateGraphMetadata
    /\ UNCHANGED made

\* saveGraph, at the moment the graph is handed to the adapter.
SaveGraph ==
    /\ stored # graph
    /\ stored' = graph
    /\ UNCHANGED <<engineVars, entries, current, forgotten, loaded>>

\* loadGraph, once the adapter has answered: what it found, the graph saved last
\* or one saved elsewhere, replaces the graph, whatever has become of that.
\* Nothing is published on changes$, and the recorder is not asked.
LoadGraph ==
    /\ graph' \in Given \cup {stored}
    /\ TellNothing
    /\ UpdateGraphMetadata
    /\ forgotten' = TRUE
    /\ loaded' = TRUE
    /\ UNCHANGED <<made, stored, entries, current>>

----------------------------------------------------------------------------
(* What callers and the runtime do with them.                              *)

Intent == [type |-> "intent", version |-> 0, messages |-> <<>>]

\* slice(-10) of a history of n entries.
RecentMessages(n) ==
    LET k == IF n < Recent THEN n ELSE Recent
    IN  [i \in 1 .. k |-> n - k + i]

\* Fault: a long conversation is cut down to its latest entries in its node.
StartConversationOrCut ==
    /\ entries < MaxEntries
    /\ entries' = entries + 1
    /\ current = 0 \/ entries' > Long
    /\ IF current = 0
       THEN /\ AddNode([type |-> "conversation", version |-> 0, messages |-> RecentMessages(entries')])
            /\ current' = made'.nodes
       ELSE UpdateNode(current, RecentMessages(entries')) /\ UNCHANGED current
    /\ loaded' = FALSE
    /\ UNCHANGED <<stored, forgotten>>

\* recordConversation without a node, or with too many entries: every entry
\* beyond Long begins a node of its own.
StartConversation ==
    /\ entries < MaxEntries
    /\ entries' = entries + 1
    /\ current = 0 \/ entries' > Long
    /\ AddNode([type |-> "conversation", version |-> 0, messages |-> RecentMessages(entries')])
    /\ current' = made'.nodes
    /\ loaded' = FALSE
    /\ UNCHANGED <<stored, forgotten>>

\* recordConversation otherwise: the entry joins the current node, if the
\* graph still has it.
ContinueConversation ==
    /\ entries < MaxEntries
    /\ entries' = entries + 1
    /\ current # 0 /\ entries' <= Long
    /\ IF current \in DOMAIN graph.nodes /\ graph.nodes[current].type = "conversation"
       THEN UpdateNode(current, Append(graph.nodes[current].messages, entries'))
       ELSE UNCHANGED engineVars
    /\ UNCHANGED <<stored, current, forgotten, loaded>>

\* recordIntent: a node, related to the current conversation if there is one.
RecordIntent ==
    LET node == made.nodes + 1
        edge == made.edges + 1
        relation == [from |-> current, to |-> node, updates |-> 0,
                     loose |-> {current} \ DOMAIN graph.nodes]
    IN  /\ current # 0 /\ node \in NodeIds /\ edge \in EdgeIds
        /\ graph' = WithEdge(WithNode(graph, node, Intent), edge, relation)
        /\ Tell(WithEdge(WithNode(view, node, Intent), edge, relation))
        /\ made' = [nodes |-> node, edges |-> edge]
        /\ UpdateGraphMetadata
        /\ UNCHANGED <<stored, entries, current, forgotten, loaded>>

\* The other nodes a caller adds and changes, and the relationships it draws
\* between any nodes it has ever seen (recordFeature's relatedIntentId).
CallerActs ==
    /\ \/ AddNode(Intent)
       \/ \E id \in DOMAIN graph.nodes :
             \/ graph.nodes[id].version < MaxUpdates /\ UpdateNode(id, graph.nodes[id].messages)
             \/ graph.nodes[id].type = "intent" /\ RemoveNode(id)
       \/ \E from, to \in 1 .. made.nodes : AddRelationship(from, to)
       \/ \E id \in DOMAIN graph.edges :
             \/ /\ graph.edges[id].updates < MaxUpdates
                /\ \E from, to \in 1 .. made.nodes : UpdateRelationship(id, from, to)
             \/ RemoveRelationship(id)
    /\ UNCHANGED <<stored, entries, current, forgotten, loaded>>

\* A caller clears the graph or removes a conversation.
CallerForgets ==
    /\ \/ ClearGraph
       \/ \E id \in DOMAIN graph.nodes : graph.nodes[id].type = "conversation" /\ RemoveNode(id)
    /\ forgotten' = TRUE
    /\ UNCHANGED <<stored, entries, current, loaded>>

Next ==
    \/ StartConversation \/ ContinueConversation \/ RecordIntent
    \/ CallerActs \/ CallerForgets
    \/ SaveGraph \/ LoadGraph
    \/ Subscribe

Spec == Init /\ [][Next]_vars

----------------------------------------------------------------------------
(* Properties.                                                             *)

Graph(g) == GraphOf(g, made.nodes, made.edges)

\* Graph, view and the saved graph hold nodes and relationships that were made,
\* of their types; the current conversation is a node that was made.
TypeOK ==
    /\ Graph(graph) /\ Graph(view) /\ Graph(stored)
    /\ made \in [nodes : 0 .. MaxNodes, edges : 0 .. MaxEdges]
    /\ stats \in [nodeCount : Nat, edgeCount : Nat]
    /\ entries \in Nat
    /\ current \in 0 .. made.nodes
    /\ {told, counted, forgotten, loaded} \subseteq BOOLEAN

\* engine.ts updateGraphMetadata: from the first operation on, the statistics
\* that the views and the prompts show count the graph as it is.
StatsCountTheGraph == counted => stats = StatsOf(graph)

\* engine.ts removeNode: whatever is removed, cleared, saved and loaded, a
\* relationship never loses an end it had: those that lead to a missing node
\* were given it when it was missing already.
EdgesEndAtNodes == EndsAreThere(graph) /\ EndsAreThere(stored)

\* engine.ts changes$: a subscriber that applies every change, and drops the
\* relationships of a node it hears is removed, holds the graph until that is
\* cleared or loaded, which nobody tells it, and again when it has read it anew.
StreamTellsTheGraph == told => view = graph

\* runtime.ts recordConversation: the current conversation of the graph ends
\* with the entry recorded last, and holds the latest entries without a gap,
\* also when a new node has replaced one that was removed; but where a graph was
\* loaded under it, only from the next node on.
ConversationIsCurrent ==
    /\ current # 0 /\ ~ forgotten => current \in DOMAIN graph.nodes
    /\ current \in DOMAIN graph.nodes /\ ~ loaded =>
        LET held == graph.nodes[current].messages
        IN  /\ Len(held) >= IF entries < Recent THEN entries ELSE Recent
            /\ \A i \in 1 .. Len(held) : held[i] = entries - Len(held) + i

\* The n-th entry of the history is a message of some node of the graph.
InGraph(n) ==
    \E id \in DOMAIN graph.nodes : \E i \in DOMAIN graph.nodes[id].messages :
        graph.nodes[id].messages[i] = n

\* runtime.ts recordConversation, "link it to the memory graph": every entry
\* of the history is a message of some node, as long as none was removed and
\* the graph was not replaced.
EveryEntryIsInTheGraph == ~ forgotten => \A n \in 1 .. entries : InGraph(n)

\* engine.ts: between two operations the graph is whole: of its types, counted,
\* and with the ends its relationships had.
GraphIsConsistent == TypeOK /\ StatsCountTheGraph /\ EdgesEndAtNodes

\* runtime.ts recordConversation: the graph holds the conversation, the current
\* node its latest part and all nodes together every entry.
ConversationIsRecorded == ConversationIsCurrent /\ EveryEntryIsInTheGraph
=============================================================================
