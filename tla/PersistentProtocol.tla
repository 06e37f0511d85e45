------------------------- MODULE PersistentProtocol -------------------------
(***************************************************************************)
(* The two ends of a remote connection of the editor:                      *)
(* src/vs/base/parts/ipc/common/ipc.net.ts (PersistentProtocol, with its   *)
(* ProtocolWriter and BufferedEmitter).  The client's end is driven by     *)
(* platform/remote/common/remoteAgentConnection.ts, the server's end by    *)
(* server/node/remoteExtensionHostAgentServer.ts.                          *)
(*                                                                         *)
(* An end keeps every regular message until the other end acknowledges it  *)
(* and sends what is left again after a reconnection.  A reconnection is a *)
(* new socket: the client begins on it at once, the server reads the       *)
(* handshake there through a protocol object of its own and then moves the *)
(* connection's protocol onto it; the client ends the reconnection when    *)
(* the answer arrives.                                                     *)
(*                                                                         *)
(* Payloads are the numbers 1, 2, ... in the order an end sends them, and  *)
(* never looked at.  Time is abstract: an armed timer may fire at any      *)
(* moment, and a timer that is armed again when it fires does nothing.     *)
(***************************************************************************)
EXTENDS Integers, Sequences, SequencesExt

CONSTANTS
    client, server,
    MaxSends,       \* bound: messages sent, by both ends together
    MaxConn,        \* bound: sockets after the first one
    MaxFaults,      \* bound: disturbances, all kinds together
    Handover        \* the server hands the socket to the extension host process

ASSUME ProtocolAssumption ==
    /\ client # server
    /\ MaxSends \in Nat
    /\ MaxConn \in Nat
    /\ MaxFaults \in Nat
    /\ Handover \in BOOLEAN

Peer == {client, server}
Other == [p \in Peer |-> IF p = client THEN server ELSE client]

VARIABLES
    protocol,   \* the fields of the two protocol objects
    wire,       \* what is under way to an end on each socket
    broken,     \* the sockets that are closed
    handshake,  \* how far the client's handshake on its socket is
    sent,       \* history: the payloads given to send()
    delivered,  \* history: the payloads the listeners of onMessage got
    faults      \* how many disturbances of each kind there were

vars == <<protocol, wire, broken, handshake, sent, delivered, faults>>

Conn == 0 .. MaxConn

\* What disturbs the exchange: sockets that break and answers that do not come,
\* messages a live socket swallows, keep-alives, and ends that stop listening.
Disturbance == {"mishap", "loss", "keepAlive", "silence"}

MessageType ==
    {"Regular", "Ack", "KeepAlive", "ReplayRequest", "Pause", "Resume", "Connect", "Ok"}

\* A message of the protocol; Connect and Ok stand for the control messages of
\* the handshake.
ProtocolMessage == [type: MessageType, id: Nat, ack: Nat, data: Nat]

\* A message that carries nothing but an acknowledgement.
Bare(type, ack) == [type |-> type, id |-> 0, ack |-> ack, data |-> 0]

ProtocolFields == [
    conn: Conn,                              \* the socket it reads and writes
    isReconnecting: BOOLEAN,
    outgoingUnackMsg: Seq(ProtocolMessage),  \* sent and not acknowledged
    outgoingMsgId: Nat,
    outgoingAckId: Nat,
    outgoingAckTimeout: BOOLEAN,             \* the timer is armed
    incomingMsgId: Nat,
    incomingAckId: Nat,
    incomingAckTimeout: BOOLEAN,             \* the timer is armed
    replayAsked: BOOLEAN,                    \* less than ten seconds ago
    socketTimeout: BOOLEAN,                  \* onSocketTimeout has fired
    data: Seq(ProtocolMessage),              \* the writer's buffer
    isPaused: BOOLEAN,
    writeNowTimeout: BOOLEAN,                \* the writer's timer is armed
    hasListeners: BOOLEAN,
    bufferedMessages: Seq(Nat),
    delivering: BOOLEAN]                     \* a microtask will deliver them

TypeOK ==
    /\ protocol \in [Peer -> ProtocolFields]
    /\ wire \in [Peer -> [Conn -> Seq(ProtocolMessage)]]
    /\ broken \in [Conn -> BOOLEAN]
    /\ handshake \in {"none", "begun", "asked", "answered"}
    /\ sent \in [Peer -> Seq(Nat)]
    /\ delivered \in [Peer -> Seq(Nat)]
    /\ faults \in [Disturbance -> Nat]

NewProtocol == [
    conn |-> 0, isReconnecting |-> FALSE,
    outgoingUnackMsg |-> <<>>, outgoingMsgId |-> 0, outgoingAckId |-> 0,
    outgoingAckTimeout |-> FALSE,
    incomingMsgId |-> 0, incomingAckId |-> 0, incomingAckTimeout |-> FALSE,
    replayAsked |-> FALSE, socketTimeout |-> FALSE,
    data |-> <<>>, isPaused |-> FALSE, writeNowTimeout |-> FALSE,
    hasListeners |-> TRUE, bufferedMessages |-> <<>>, delivering |-> FALSE]

Init ==
    /\ protocol = [p \in Peer |-> NewProtocol]
    /\ wire = [p \in Peer |-> [g \in Conn |-> <<>>]]
    /\ broken = [g \in Conn |-> FALSE]
    /\ handshake = "none"
    /\ sent = [p \in Peer |-> <<>>]
    /\ delivered = [p \in Peer |-> <<>>]
    /\ faults = [d \in Disturbance |-> 0]

-----------------------------------------------------------------------------
(* The methods, as functions from the fields of a protocol to its fields.  *)

\* The writer buffers messages and arms its timer when the buffer was empty.
WriteAll(r, ms) ==
    [r EXCEPT !.data = @ \o ms,
              !.writeNowTimeout = @ \/ (r.data = <<>> /\ ms # <<>>)]

Write(r, m) == WriteAll(r, <<m>>)

\* Watch the oldest unacknowledged message.  A check that finds its time already
\* up is a timer that fires at once.
RecvAckCheck(r) ==
    IF r.outgoingMsgId <= r.outgoingAckId \/ r.isReconnecting
    THEN r
    ELSE [r EXCEPT !.outgoingAckTimeout = TRUE]

\* See to it that what was received is acknowledged.
SendAckCheck(r) ==
    IF r.incomingMsgId <= r.incomingAckId
    THEN r
    ELSE [r EXCEPT !.incomingAckTimeout = TRUE]

\* Acknowledge now, with a message of the given type.
Acknowledge(r, type) ==
    Write([r EXCEPT !.incomingAckId = r.incomingMsgId], Bare(type, r.incomingMsgId))

\* Fault: the acknowledgement is remembered as sent from before the break.
AcknowledgeOnce(r, type) ==
    IF r.incomingMsgId <= r.incomingAckId THEN r ELSE Acknowledge(r, type)

\* The queue without the messages at its front with an id up to this one.
Unconfirmed(q, ack) ==
    LET rest == {i \in DOMAIN q : q[i].id > ack}
    IN  IF rest = {} THEN <<>> ELSE SubSeq(q, Min(rest), Len(q))

\* Fault: one message too many is taken for acknowledged.
ReceiveAckOfNext(r, ack) ==
    IF ack > r.outgoingAckId
    THEN [r EXCEPT !.outgoingAckId = ack, !.outgoingUnackMsg = Unconfirmed(@, ack + 1)]
    ELSE r

\* Every message brings an acknowledgement: drop what it confirms.
ReceiveAck(r, ack) ==
    IF ack > r.outgoingAckId
    THEN [r EXCEPT !.outgoingAckId = ack, !.outgoingUnackMsg = Unconfirmed(@, ack)]
    ELSE r

\* Send again all that is unacknowledged.
Replay(r) == RecvAckCheck(WriteAll(r, r.outgoingUnackMsg))

\* A new socket, and with it a new writer.
BeginAcceptReconnection(r, g) ==
    [r EXCEPT !.isReconnecting = TRUE, !.conn = g,
              !.replayAsked = FALSE, !.socketTimeout = FALSE,
              !.data = <<>>, !.isPaused = FALSE, !.writeNowTimeout = FALSE]

\* Fault: the timer is not armed again after the reconnection.
EndUnwatched(r) ==
    LET s == Acknowledge([r EXCEPT !.isReconnecting = FALSE], "Ack")
    IN  WriteAll(s, s.outgoingUnackMsg)

\* Fault: an acknowledgement that went out before the break is not repeated.
EndWithoutAck(r) ==
    Replay(AcknowledgeOnce([r EXCEPT !.isReconnecting = FALSE], "Ack"))

EndAcceptReconnection(r) ==
    Replay(Acknowledge([r EXCEPT !.isReconnecting = FALSE], "Ack"))

-----------------------------------------------------------------------------
(* The steps of one end.                                                   *)

\* The socket an end is on.
ConnOf(p) == protocol[p].conn

\* One more disturbance, within the bound.
Disturbed(d) ==
    /\ SumFunction(faults) < MaxFaults
    /\ faults' = [faults EXCEPT ![d] = @ + 1]

\* Bytes written to a closed socket are gone.
OnWire(q, g, ms) ==
    IF broken[g] THEN wire ELSE [wire EXCEPT ![q][g] = @ \o ms]

\* A message joins the unacknowledged ones; it is written unless a reconnection
\* will write it.
Enqueue(r, m) ==
    LET queued == [r EXCEPT !.outgoingUnackMsg = Append(@, m)]
    IN  IF r.isReconnecting THEN queued ELSE RecvAckCheck(Write(queued, m))

\* send(): number the message and let it carry an acknowledgement.
Send(p) ==
    LET r == protocol[p]
        m == [type |-> "Regular", id |-> r.outgoingMsgId + 1,
              ack |-> r.incomingMsgId, data |-> Len(sent[p]) + 1]
    IN  /\ Len(sent[client]) + Len(sent[server]) < MaxSends
        /\ sent' = [sent EXCEPT ![p] = Append(@, m.data)]
        /\ protocol' = [protocol EXCEPT
               ![p] = Enqueue([r EXCEPT !.outgoingMsgId = m.id,
                                        !.incomingAckId = r.incomingMsgId], m)]
        /\ UNCHANGED <<wire, broken, handshake, delivered, faults>>

\* The writer's timer: what is buffered goes out in one write, unless paused.
WriteNow(p) ==
    LET r == protocol[p]
    IN  /\ r.writeNowTimeout
        /\ protocol' = [protocol EXCEPT ![p].writeNowTimeout = FALSE,
                                        ![p].data = IF r.isPaused THEN @ ELSE <<>>]
        /\ wire' = IF r.isPaused THEN wire ELSE OnWire(Other[p], r.conn, r.data)
        /\ UNCHANGED <<broken, handshake, sent, delivered, faults>>

\* The timer of _sendAckCheck, two seconds after the last message came in.
AckTimer(p) ==
    LET r == [protocol[p] EXCEPT !.incomingAckTimeout = FALSE]
    IN  /\ protocol[p].incomingAckTimeout
        /\ protocol' = [protocol EXCEPT
               ![p] = IF r.incomingMsgId <= r.incomingAckId THEN r ELSE Acknowledge(r, "Ack")]
        /\ UNCHANGED <<wire, broken, handshake, sent, delivered, faults>>

\* The timer of _recvAckCheck: something is unacknowledged, nothing came in for
\* twenty seconds, and the machine is not too busy to have noticed.
WatchTimer(p) ==
    LET r == protocol[p]
        waiting == r.outgoingMsgId > r.outgoingAckId /\ ~r.isReconnecting
    IN  /\ r.outgoingAckTimeout
        /\ protocol' = [protocol EXCEPT ![p].outgoingAckTimeout = FALSE,
                                        ![p].socketTimeout = @ \/ waiting]
        /\ IF waiting THEN Disturbed("mishap") ELSE UNCHANGED faults
        /\ UNCHANGED <<wire, broken, handshake, sent, delivered>>

\* The keep-alive interval, also while reconnecting.
KeepAlive(p) ==
    /\ Disturbed("keepAlive")
    /\ protocol' = [protocol EXCEPT ![p] = Acknowledge(@, "KeepAlive")]
    /\ UNCHANGED <<wire, broken, handshake, sent, delivered>>

\* The time since the last replay request grows beyond ten seconds.
ReplayWindowPasses(p) ==
    /\ protocol[p].replayAsked
    /\ protocol' = [protocol EXCEPT ![p].replayAsked = FALSE]
    /\ UNCHANGED <<wire, broken, handshake, sent, delivered, faults>>

\* An end reads the next message of its socket, which is of one of these types.
Take(p, types) ==
    LET g == ConnOf(p)
    IN  /\ wire[p][g] # <<>>
        /\ Head(wire[p][g]).type \in types
        /\ wire' = [wire EXCEPT ![p][g] = Tail(@)]

Incoming(p) == Head(wire[p][ConnOf(p)])

\* The fields after the acknowledgement the message brings has been seen to.
Acked(p) == ReceiveAck(protocol[p], Incoming(p).ack)

\* Fault: the message received last is not taken for a repetition.
IsNextOrRepeated(r, m) == m.id \in {r.incomingMsgId, r.incomingMsgId + 1}

\* The message that is due; an older one is a repetition, a later one shows a gap.
IsNext(r, m) == m.id = r.incomingMsgId + 1

\* The regular message that is due reaches the listeners, or the buffer that
\* waits for one.
ReceiveNext(p) ==
    LET m == Incoming(p)
        r == SendAckCheck([Acked(p) EXCEPT !.incomingMsgId = m.id])
        fires == r.hasListeners /\ r.bufferedMessages = <<>>
    IN  /\ Take(p, {"Regular"})
        /\ IsNext(Acked(p), m)
        /\ protocol' = [protocol EXCEPT
               ![p] = IF fires THEN r ELSE [r EXCEPT !.bufferedMessages = Append(@, m.data)]]
        /\ delivered' = [delivered EXCEPT ![p] = IF fires THEN Append(@, m.data) ELSE @]
        /\ UNCHANGED <<broken, handshake, sent, faults>>

\* A message seen before is ignored.
ReceiveRepeated(p) ==
    /\ Take(p, {"Regular"})
    /\ Incoming(p).id <= protocol[p].incomingMsgId
    /\ protocol' = [protocol EXCEPT ![p] = Acked(p)]
    /\ UNCHANGED <<broken, handshake, sent, delivered, faults>>

\* A gap: ask for a replay, unless one was asked for lately.
ReceiveAfterGap(p) ==
    LET r == Acked(p)
    IN  /\ Take(p, {"Regular"})
        /\ Incoming(p).id > r.incomingMsgId + 1
        /\ protocol' = [protocol EXCEPT
               ![p] = IF r.replayAsked THEN r
                      ELSE Write([r EXCEPT !.replayAsked = TRUE], Bare("ReplayRequest", 0))]
        /\ UNCHANGED <<broken, handshake, sent, delivered, faults>>

\* Messages that only bring an acknowledgement.
ReceiveAckOnly(p) ==
    /\ Take(p, {"Ack", "KeepAlive"})
    /\ protocol' = [protocol EXCEPT ![p] = Acked(p)]
    /\ UNCHANGED <<broken, handshake, sent, delivered, faults>>

ReceiveReplayRequest(p) ==
    /\ Take(p, {"ReplayRequest"})
    /\ protocol' = [protocol EXCEPT ![p] = Replay(Acked(p))]
    /\ UNCHANGED <<broken, handshake, sent, delivered, faults>>

\* Pause stops the writer, Resume starts it again and arms its timer.
ReceivePauseOrResume(p) ==
    LET pause == Incoming(p).type = "Pause"
    IN  /\ Take(p, {"Pause", "Resume"})
        /\ protocol' = [protocol EXCEPT ![p].isPaused = pause,
                                        ![p].writeNowTimeout = @ \/ ~pause]
        /\ UNCHANGED <<broken, handshake, sent, delivered, faults>>

\* The last listener of onMessage goes.
StopListening(p) ==
    /\ protocol[p].hasListeners
    /\ Disturbed("silence")
    /\ protocol' = [protocol EXCEPT ![p].hasListeners = FALSE]
    /\ UNCHANGED <<wire, broken, handshake, sent, delivered>>

\* A first listener comes; a microtask will deliver what was buffered.
StartListening(p) ==
    /\ ~protocol[p].hasListeners
    /\ protocol' = [protocol EXCEPT ![p].hasListeners = TRUE, ![p].delivering = TRUE]
    /\ UNCHANGED <<wire, broken, handshake, sent, delivered, faults>>

\* The microtask delivers what is buffered, as long as somebody listens.
DeliverMessages(p) ==
    LET r == protocol[p]
    IN  /\ r.delivering
        /\ protocol' = [protocol EXCEPT
               ![p].delivering = FALSE,
               ![p].bufferedMessages = IF r.hasListeners THEN <<>> ELSE @]
        /\ delivered' = [delivered EXCEPT ![p] = IF r.hasListeners THEN @ \o r.bufferedMessages ELSE @]
        /\ UNCHANGED <<wire, broken, handshake, sent, faults>>

-----------------------------------------------------------------------------
(* The reconnection, and what can go wrong.                                *)

\* The client has a new socket: because the old one closed, or timed out, or
\* because the handshake on it timed out.  The old writer's buffer is flushed
\* and the old socket is closed.
ClientBegins ==
    LET r == protocol[client]
        old == r.conn
        timedOut == r.isReconnecting /\ ~broken[old]
    IN  /\ broken[old] \/ r.socketTimeout \/ r.isReconnecting
        /\ old < MaxConn
        /\ protocol' = [protocol EXCEPT ![client] = BeginAcceptReconnection(r, old + 1)]
        /\ wire' = [OnWire(server, old, IF r.isPaused THEN <<>> ELSE r.data)
                       EXCEPT ![client][old] = <<>>]
        /\ broken' = [broken EXCEPT ![old] = TRUE]
        /\ handshake' = "begun"
        /\ IF timedOut THEN Disturbed("mishap") ELSE UNCHANGED faults
        /\ UNCHANGED <<sent, delivered>>

\* The handshake's last request is written.
ClientAsks ==
    /\ handshake = "begun"
    /\ handshake' = "asked"
    /\ protocol' = [protocol EXCEPT ![client] = Write(@, Bare("Connect", 0))]
    /\ UNCHANGED <<wire, broken, sent, delivered, faults>>

\* Messages before the request are read by the server's handshake, not by the
\* connection's own protocol.
ServerDiscards(g) ==
    /\ g # ConnOf(server)
    /\ wire[server][g] # <<>>
    /\ Head(wire[server][g]).type # "Connect"
    /\ wire' = [wire EXCEPT ![server][g] = Tail(@)]
    /\ UNCHANGED <<protocol, broken, handshake, sent, delivered, faults>>

\* The server answers the request and moves the protocol onto the socket at once;
\* the writer of the handshake is flushed before.
ServerAccepts(g) ==
    LET r == protocol[server]
        old == r.conn
        moved == EndAcceptReconnection(BeginAcceptReconnection(r, g))
        answer == IF Handover THEN <<Bare("Pause", 0), Bare("Ok", 0)>> ELSE <<Bare("Ok", 0)>>
        flushed == OnWire(client, old, IF r.isPaused THEN <<>> ELSE r.data)
    IN  /\ g # old
        /\ wire[server][g] # <<>>
        /\ Head(wire[server][g]).type = "Connect"
        /\ protocol' = [protocol EXCEPT
               ![server] = IF Handover THEN Write(moved, Bare("Resume", 0)) ELSE moved]
        /\ wire' = [flushed EXCEPT
               ![server][old] = <<>>,
               ![server][g] = Tail(@),
               ![client][g] = IF broken[g] THEN @ ELSE @ \o answer]
        /\ broken' = [broken EXCEPT ![old] = TRUE]
        /\ UNCHANGED <<handshake, sent, delivered, faults>>

\* The answer comes in; it is handed to the listener now or in a microtask.
ClientIsAnswered ==
    /\ Take(client, {"Ok"})
    /\ handshake' = "answered"
    /\ UNCHANGED <<protocol, broken, sent, delivered, faults>>

\* The listener of the answer ends the reconnection.
ClientEnds ==
    /\ handshake = "answered"
    /\ handshake' = "none"
    /\ protocol' = [protocol EXCEPT ![client] = EndAcceptReconnection(@)]
    /\ UNCHANGED <<wire, broken, sent, delivered, faults>>

\* A socket closes.
Break(g) ==
    /\ g <= ConnOf(client)
    /\ ~broken[g]
    /\ broken' = [broken EXCEPT ![g] = TRUE]
    /\ Disturbed("mishap")
    /\ UNCHANGED <<protocol, wire, handshake, sent, delivered>>

\* What was under way on a closed socket may be lost, from its end.
LoseTail(q, g) ==
    /\ broken[g]
    /\ wire[q][g] # <<>>
    /\ wire' = [wire EXCEPT ![q][g] = Front(@)]
    /\ UNCHANGED <<protocol, broken, handshake, sent, delivered, faults>>

\* A live socket swallows a message: the gap the replay request is for.
Swallow(q) ==
    LET g == ConnOf(q)
    IN  /\ \E i \in DOMAIN wire[q][g] :
              /\ wire[q][g][i].type = "Regular"
              /\ wire' = [wire EXCEPT ![q][g] = RemoveAt(@, i)]
        /\ Disturbed("loss")
        /\ UNCHANGED <<protocol, broken, handshake, sent, delivered>>

Receive(p) ==
    \/ ReceiveNext(p)
    \/ ReceiveRepeated(p)
    \/ ReceiveAfterGap(p)
    \/ ReceiveAckOnly(p)
    \/ ReceiveReplayRequest(p)
    \/ ReceivePauseOrResume(p)

\* What the two programs do by themselves.
ProgramStep ==
    \/ \E p \in Peer :
          \/ WriteNow(p) \/ AckTimer(p) \/ Receive(p)
          \/ StartListening(p) \/ DeliverMessages(p)
    \/ ClientBegins \/ ClientAsks \/ ClientIsAnswered \/ ClientEnds
    \/ \E g \in Conn : ServerDiscards(g) \/ ServerAccepts(g)

Next ==
    \/ ProgramStep
    \/ \E p \in Peer :
          \/ Send(p) \/ WatchTimer(p) \/ KeepAlive(p) \/ ReplayWindowPasses(p)
          \/ StopListening(p) \/ Swallow(p)
          \/ \E g \in Conn : LoseTail(p, g)
    \/ \E g \in Conn : Break(g)

Spec == Init /\ [][Next]_vars

\* Timers fire, sockets deliver, microtasks run and the reconnection goes on.
Fairness ==
    /\ \A p \in Peer :
          /\ WF_vars(WriteNow(p))
          /\ WF_vars(AckTimer(p))
          /\ WF_vars(Receive(p))
          /\ WF_vars(StartListening(p))
          /\ WF_vars(DeliverMessages(p))
    /\ WF_vars(ClientBegins)
    /\ WF_vars(ClientAsks)
    /\ WF_vars(ClientIsAnswered)
    /\ WF_vars(ClientEnds)
    /\ \A g \in Conn : WF_vars(ServerDiscards(g)) /\ WF_vars(ServerAccepts(g))

FairSpec == Spec /\ Fairness

-----------------------------------------------------------------------------
(* Properties.                                                             *)

Channel == INSTANCE MessageChannel WITH Peer <- Peer, Other <- Other, sent <- sent, delivered <- delivered

\* Whatever breaks, each end hands over the messages of the other once each and
\* in their order: the two protocols implement the channel of MessageChannel.
ImplementsChannel == Channel!Spec

\* The live sockets have swallowed nothing.
NothingSwallowed == faults["loss"] = 0

\* And when the sockets stop breaking, everything sent is handed over.
DeliversEverything ==
    []NothingSwallowed => \A p \in Peer : <>[](delivered[p] = sent[Other[p]])

\* An end drops a message from outgoingUnackMsg only when the other end has it,
\* and what it keeps are exactly the messages after the acknowledged one.
NothingDroppedUnseen ==
    \A p \in Peer :
        LET r == protocol[p]
        IN  /\ r.outgoingAckId <= protocol[Other[p]].incomingMsgId
            /\ Len(r.outgoingUnackMsg) = r.outgoingMsgId - r.outgoingAckId
            /\ \A i \in DOMAIN r.outgoingUnackMsg :
                  r.outgoingUnackMsg[i].id = r.outgoingAckId + i

\* Reconnections alone never leave a gap: as long as the sockets deliver what
\* they accepted, in order, nobody ever has to ask for a replay.
NoGapWithoutLoss ==
    NothingSwallowed => \A p \in Peer : ~protocol[p].replayAsked

\* A message that waits for its acknowledgement is watched: unless a reconnection
\* is under way or has been asked for, the timer that finds out about a dead
\* connection is armed.
UnacknowledgedIsWatched ==
    \A p \in Peer :
        LET r == protocol[p]
        IN  \/ r.outgoingMsgId <= r.outgoingAckId
            \/ r.isReconnecting
            \/ r.outgoingAckTimeout
            \/ r.socketTimeout

\* A writer that is not paused and holds data will write: no wake-up is lost over
\* pauses, resumes and reconnections.
BufferedIsWritten ==
    \A p \in Peer :
        LET r == protocol[p] IN r.data = <<>> \/ r.isPaused \/ r.writeNowTimeout

\* Once the sockets stop breaking, each end comes to know that everything it sent
\* was received: acknowledgements lost with a socket are repeated.
EverythingIsAcknowledged ==
    []NothingSwallowed => \A p \in Peer : <>[](protocol[p].outgoingAckId = Len(sent[p]))

\* ipc.net.ts: the two ends agree on what has passed between them: nothing is
\* dropped that may still be needed, and nothing is missing that was not lost.
NothingIsMissing == TypeOK /\ NothingDroppedUnseen /\ NoGapWithoutLoss

\* ipc.net.ts: whatever waits, for a write or for an acknowledgement, has a timer.
NothingWaitsUnarmed == UnacknowledgedIsWatched /\ BufferedIsWritten

\* ipc.net.ts: as long as the sockets swallow nothing, everything sent is handed
\* over and acknowledged in the end, however often they break.
EverythingArrives == DeliversEverything /\ EverythingIsAcknowledged
=============================================================================
