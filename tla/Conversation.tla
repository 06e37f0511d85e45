---------------------------- MODULE Conversation ----------------------------
(***************************************************************************)
(* Conversations with the planner: AgentRuntime.startConversation, which   *)
(* streams the answer of an LLM service (packages/agent-runtime), and the  *)
(* views of ConversationInterface that start conversations and show them   *)
(* (packages/ui-components).                                               *)
(*                                                                         *)
(* A view sets off one message at a time, but several views may share a    *)
(* runtime, and each hears all its messages.  What one callback, timer or  *)
(* click sets off is one step.  A message is known by the sending it       *)
(* belongs to; the chunks of an answer are counted.                        *)
(***************************************************************************)
EXTENDS Naturals, Sequences, FiniteSets

CONSTANTS
    Views,              \* the views that share the runtime
    MaxConversations,   \* bound: conversations
    MaxSends,           \* bound: messages sent
    MaxChunks,          \* bound: chunks of an answer
    Recorded            \* conversations of the history: nodes of the memory graph

ASSUME ConversationAssumption ==
    /\ {MaxConversations, MaxSends, MaxChunks} \subseteq Nat
    /\ Recorded \in 0 .. MaxConversations

VARIABLES
    contexts,   \* the messages of each conversation of the runtime
    sends,      \* how many messages were sent
    answers,    \* for each of them, how the stream of its answer stands
    newest,     \* the identifiers of conversations in use are 1 .. newest
    current,    \* conversationIdRef of each view, 0 before it is mounted
    shown,      \* the messages it shows
    loaded,     \* the conversation whose array of messages it shows, 0 if its own
    sending,    \* the sending it waits for (isProcessing), 0 without one
    active,     \* it shows the planner as active
    streaming,  \* the partial answer it shows (streamingMessage)
    selected    \* history: its conversation was chosen from the list

viewVars == <<current, shown, loaded, sending, active, streaming, selected>>
conversationVars == <<contexts, sends, answers, newest, viewVars>>

Sends == 1 .. MaxSends
NoStream == [send |-> 0, chunks |-> 0]
Message(c, s, who, chunks, own) == [conversation |-> c, send |-> s, by |-> who, chunks |-> chunks, own |-> own]

ConversationInit ==
    /\ contexts = [c \in 1 .. MaxConversations |-> <<>>]
    /\ sends = 0 /\ newest = Recorded
    /\ answers = [s \in Sends |-> [state |-> "none", conversation |-> 0, chunks |-> 0]]
    /\ current = [v \in Views |-> 0]
    /\ shown = [v \in Views |-> <<>>]
    /\ loaded = [v \in Views |-> 0]
    /\ sending = [v \in Views |-> 0]
    /\ active = [v \in Views |-> FALSE]
    /\ streaming = [v \in Views |-> NoStream]
    /\ selected = [v \in Views |-> FALSE]

\* Fault: a view starts empty, also on a conversation the runtime knows.
MountEmpty(v, c) ==
    /\ current[v] = 0
    /\ c \in 1 .. newest + 1 /\ c <= MaxConversations
    /\ newest' = IF c > newest THEN c ELSE newest
    /\ current' = [current EXCEPT ![v] = c]
    /\ UNCHANGED <<contexts, sends, answers, shown, loaded, sending, active, streaming, selected>>

\* A view is mounted, with a conversation of its own or a given one, and
\* shows what the runtime has of it: the runtime's array, not a copy.
Mount(v, c) ==
    /\ current[v] = 0
    /\ c \in 1 .. newest + 1 /\ c <= MaxConversations
    /\ newest' = IF c > newest THEN c ELSE newest
    /\ current' = [current EXCEPT ![v] = c]
    /\ shown' = [shown EXCEPT ![v] = contexts[c]]
    /\ loaded' = [loaded EXCEPT ![v] = IF contexts[c] = <<>> THEN 0 ELSE c]
    /\ UNCHANGED <<contexts, sends, answers, sending, active, streaming, selected>>

\* What the views show before they hear of a message of the runtime: an array
\* they share with it has the message already.
Before(message) == [v \in Views |-> IF loaded[v] = message.conversation THEN Append(shown[v], message) ELSE shown[v]]

\* messages$: every mounted view adds a message to what it shows, whatever its
\* conversation, in an array of its own.
Heard(before, message) ==
    /\ shown' = [v \in Views |-> IF current[v] = 0 THEN before[v] ELSE Append(before[v], message)]
    /\ loaded' = [v \in Views |-> 0]

\* handleSendMessage and startConversation up to the stream: the view shows
\* its message, and once more when it hears of it.
Send(v) ==
    /\ current[v] # 0 /\ sending[v] = 0 /\ sends < MaxSends
    /\ sends' = sends + 1
    /\ LET c == current[v]
           message == Message(c, sends', "user", 0, FALSE)
       IN  /\ contexts' = [contexts EXCEPT ![c] = Append(@, message)]
           /\ Heard([Before(message) EXCEPT ![v] = Append(@, Message(c, sends', "user", 0, TRUE))], message)
           /\ answers' = [answers EXCEPT ![sends'] = [state |-> "streaming", conversation |-> c, chunks |-> 0]]
    /\ sending' = [sending EXCEPT ![v] = sends']
    /\ active' = [active EXCEPT ![v] = TRUE]
    /\ UNCHANGED <<newest, current, streaming, selected>>

\* Fault: the stream is read only while the view is in its conversation.
StreamsInView(v) ==
    /\ sending[v] # 0 /\ answers[sending[v]].state = "streaming"
    /\ answers[sending[v]].conversation = current[v]

\* The stream of the answer a view waits for goes on.
Streams(v) == sending[v] # 0 /\ answers[sending[v]].state = "streaming"

\* A chunk of the answer: the view shows what has come so far.
Chunk(v) ==
    LET s == sending[v]
    IN  /\ Streams(v) /\ answers[s].chunks < MaxChunks
        /\ answers' = [answers EXCEPT ![s].chunks = @ + 1]
        /\ streaming' = [streaming EXCEPT ![v] = [send |-> s, chunks |-> answers'[s].chunks]]
        /\ UNCHANGED <<contexts, sends, newest, current, shown, loaded, sending, active, selected>>

\* Fault: the answer goes to the conversation the view is in now.
CompleteInCurrent(v) ==
    LET s == sending[v]
        c == current[v]
        message == Message(c, s, "planner", answers[s].chunks, FALSE)
    IN  /\ Streams(v)
        /\ contexts' = [contexts EXCEPT ![c] = Append(@, message)]
        /\ Heard(Before(message), message)
        /\ answers' = [answers EXCEPT ![s].state = "complete"]
        /\ sending' = [sending EXCEPT ![v] = 0]
        /\ active' = [active EXCEPT ![v] = FALSE]
        /\ streaming' = [streaming EXCEPT ![v] = NoStream]
        /\ UNCHANGED <<sends, newest, current, selected>>

\* The stream ends: the answer joins the conversation of its message, and the
\* view is done with the sending.
Complete(v) ==
    LET s == sending[v]
        c == answers[s].conversation
        message == Message(c, s, "planner", answers[s].chunks, FALSE)
    IN  /\ Streams(v)
        /\ contexts' = [contexts EXCEPT ![c] = Append(@, message)]
        /\ Heard(Before(message), message)
        /\ answers' = [answers EXCEPT ![s].state = "complete"]
        /\ sending' = [sending EXCEPT ![v] = 0]
        /\ active' = [active EXCEPT ![v] = FALSE]
        /\ streaming' = [streaming EXCEPT ![v] = NoStream]
        /\ UNCHANGED <<sends, newest, current, selected>>

\* The service is missing or its stream fails: the error is logged, what came
\* of the answer stays on the screen and in no conversation.
Fail(v) ==
    LET s == sending[v]
    IN  /\ Streams(v)
        /\ answers' = [answers EXCEPT ![s].state = "failed"]
        /\ sending' = [sending EXCEPT ![v] = 0]
        /\ active' = [active EXCEPT ![v] = FALSE]
        /\ UNCHANGED <<contexts, sends, newest, current, shown, loaded, streaming, selected>>

\* handleNewConversation; a sending under way goes on.
NewConversation(v) ==
    /\ current[v] # 0 /\ newest < MaxConversations
    /\ newest' = newest + 1
    /\ current' = [current EXCEPT ![v] = newest']
    /\ shown' = [shown EXCEPT ![v] = <<>>]
    /\ loaded' = [loaded EXCEPT ![v] = 0]
    /\ streaming' = [streaming EXCEPT ![v] = NoStream]
    /\ active' = [active EXCEPT ![v] = FALSE]
    /\ selected' = [selected EXCEPT ![v] = FALSE]
    /\ UNCHANGED <<contexts, sends, answers, sending>>

\* onConversationSelect of the history: the reference changes, no more.
Select(v, c) ==
    /\ current[v] # 0 /\ c \in 1 .. Recorded
    /\ current' = [current EXCEPT ![v] = c]
    /\ selected' = [selected EXCEPT ![v] = TRUE]
    /\ UNCHANGED <<contexts, sends, answers, newest, shown, loaded, sending, active, streaming>>

ConversationNext ==
    \E v \in Views :
        \/ \E c \in 1 .. MaxConversations : Mount(v, c) \/ Select(v, c)
        \/ Send(v) \/ Chunk(v) \/ Complete(v) \/ Fail(v)
        \/ NewConversation(v)

ConversationSpec == ConversationInit /\ [][ConversationNext]_conversationVars

\* The services of the LLM providers end their streams, one way or the other.
ConversationFairSpec == ConversationSpec /\ \A v \in Views : WF_conversationVars(Complete(v) \/ Fail(v))

----------------------------------------------------------------------------
(* Properties.                                                             *)

\* A stream belongs to one view at most, and a view waits for no stream that
\* is over.
ConversationTypeOK ==
    /\ sends \in 0 .. MaxSends /\ newest \in 0 .. MaxConversations
    /\ current \in [Views -> 0 .. newest]
    /\ active \in [Views -> BOOLEAN]
    /\ \A s \in Sends : /\ answers[s].state = "none" <=> s > sends
                        /\ answers[s].state = "streaming" <=> \E v \in Views : sending[v] = s
    /\ \A v, w \in Views : sending[v] = sending[w] /\ sending[v] # 0 => v = w

Place(c, s, who) == {i \in 1 .. Len(contexts[c]) : contexts[c][i].send = s /\ contexts[c][i].by = who}

\* AgentRuntime.startConversation: an answer is in the conversation of its
\* message alone, after it, once, and only when its stream is complete.
AnswersFollowMessages ==
    \A s \in 1 .. sends, c \in 1 .. MaxConversations :
        LET answered == Place(c, s, "planner")
        IN  IF answers[s].state = "complete" /\ c = answers[s].conversation
            THEN /\ Cardinality(answered) = 1
                 /\ \A i \in Place(c, s, "user"), j \in answered : i < j
            ELSE answered = {}

\* streamChatWithLLM: streams that run side by side do not mix.
ChunksGoToTheirAnswer ==
    \A v \in Views : streaming[v].send # 0 => streaming[v].chunks = answers[streaming[v].send].chunks

\* The first places where a view shows messages of its conversation that it
\* has from the runtime.
Told(v) ==
    {i \in 1 .. Len(shown[v]) : /\ shown[v][i].conversation = current[v] /\ ~ shown[v][i].own
                               /\ \A j \in 1 .. i - 1 : shown[v][j] # shown[v][i]}

\* A view shows all of its conversation, in order; messages may be repeated.
Shows(v) ==
    /\ Cardinality(Told(v)) = Len(contexts[current[v]])
    /\ \A i \in Told(v) : contexts[current[v]][Cardinality(Told(v) \cap 1 .. i)] = shown[v][i]

\* ConversationInterface: a view shows all of its conversation in order,
\* however it came to it, unless it was chosen from the history.
ShowsItsConversation == \A v \in Views : current[v] # 0 /\ ~ selected[v] => Shows(v)

\* The planner is shown as active only while the view waits for it, and a
\* partial answer only meanwhile or when its stream has failed.
ShowsWhatIsUnderWay ==
    \A v \in Views :
        /\ active[v] => sending[v] # 0
        /\ streaming[v].send \notin {0, sending[v]} => answers[streaming[v].send].state = "failed"

\* Every view gets ready to send again.
SendingEnds == \A v \in Views : sending[v] # 0 ~> sending[v] = 0

\* AgentRuntime.startConversation: answers that stream side by side stay apart,
\* down to the conversations they end up in.
StreamsStayApart == ConversationTypeOK /\ AnswersFollowMessages /\ ChunksGoToTheirAnswer

\* ConversationInterface: a view shows its conversation, and what it waits for.
ViewsAreFaithful == ShowsItsConversation /\ ShowsWhatIsUnderWay
=============================================================================
