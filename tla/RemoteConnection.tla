-------------------------- MODULE RemoteConnection --------------------------
(***************************************************************************)
(* The life of the editor's remote connections across broken sockets: the  *)
(* reconnecting loop of platform/remote/common/remoteAgentConnection.ts    *)
(* (PersistentConnection) on the client, and on the server the handshake   *)
(* of server/node/remoteExtensionHostAgentServer.ts with the sessions of   *)
(* server/node/remoteExtensionManagement.ts and their two grace timers.    *)
(*                                                                         *)
(* What the protocol on top of the sockets promises is the subject of      *)
(* PersistentProtocol; here a socket is a number, and a message is a       *)
(* handshake request, its answer or a farewell.                            *)
(*                                                                         *)
(* The session of a management connection lives in the server.  That of an *)
(* extension host lives in a process of its own, timers included           *)
(* (workbench/api/node/extensionHostProcess.ts): the server answers the    *)
(* client, hands the socket over later, and knows of the process only what *)
(* its exit tells (server/node/extensionHostConnection.ts).                *)
(***************************************************************************)
EXTENDS Integers, FiniteSets

CONSTANTS
    Connection,     \* the client's connections, one reconnection token each
    Fatal,          \* those whose failure fails all: the management connections;
                    \* the others belong to extension hosts
    MaxAttempts,    \* the attempts of one loop (360 in the code)
    MaxSocket,      \* bound: sockets after the first ones, of all connections
    MaxMishaps      \* bound: sockets that break or fall silent, hosts that end unasked

ASSUME ConnectionAssumption ==
    /\ IsFiniteSet(Connection)
    /\ Fatal \subseteq Connection
    /\ MaxAttempts \in Nat
    /\ MaxSocket \in Nat
    /\ MaxMishaps \in Nat

VARIABLES
    loopAt,             \* where the reconnecting loop of each connection is
    attempt,            \* the number of the attempt
    socket,             \* the socket of the client's protocol
    made,               \* how many sockets were made after the first ones
    isDead,             \* the protocol object is disposed: it reads nothing
    gaveUp,             \* a ReconnectionPermanentFailure event was fired
    permanentFailure,   \* the static field
    isDisposed,         \* the connection object is disposed
    open,               \* the sockets of each connection that are open
    requests,           \* handshake requests on their way to the server
    answers,            \* <<socket, answer>> on their way to the client
    farewells,          \* Disconnect messages on their way to the server
    session,            \* the server has a session for the token
    sessionSocket,      \* the socket of the session's protocol
    disconnectRunner1,  \* the long grace timer runs
    disconnectRunner2,  \* the short grace timer runs
    hostAt,             \* where the life of each extension host is
    handover,           \* sockets accepted for a host that it does not have yet
    mishaps

socketVars == <<socket, made>>
clientVars == <<loopAt, attempt, socketVars, isDead, gaveUp, permanentFailure, isDisposed>>
hostVars == <<hostAt, handover>>
serverVars == <<session, sessionSocket, disconnectRunner1, disconnectRunner2, hostVars>>
netVars == <<open, requests, answers, farewells>>
vars == <<clientVars, serverVars, netVars, mishaps>>

Socket == 0 .. MaxSocket

\* The connections to extension hosts.
Hosted == Connection \ Fatal

TypeOK ==
    /\ loopAt \in [Connection -> {"idle", "sleeping", "resolving", "connecting", "handshaking"}]
    /\ attempt \in [Connection -> 0 .. MaxAttempts + 1]
    /\ socket \in [Connection -> Socket]
    /\ made \in 0 .. MaxSocket
    /\ isDead \in [Connection -> BOOLEAN]
    /\ gaveUp \in [Connection -> BOOLEAN]
    /\ permanentFailure \in BOOLEAN
    /\ isDisposed \in [Connection -> BOOLEAN]
    /\ open \in [Connection -> SUBSET Socket]
    /\ requests \in [Connection -> SUBSET Socket]
    /\ answers \in [Connection -> SUBSET (Socket \X {"ok", "error"})]
    /\ farewells \in [Connection -> BOOLEAN]
    /\ session \in [Connection -> BOOLEAN]
    /\ sessionSocket \in [Connection -> Socket]
    /\ disconnectRunner1 \in [Connection -> BOOLEAN]
    /\ disconnectRunner2 \in [Connection -> BOOLEAN]
    /\ hostAt \in [Hosted -> {"up", "terminating", "gone"}]
    /\ handover \in [Hosted -> SUBSET Socket]
    /\ mishaps \in 0 .. MaxMishaps

\* Every connection is up, on its first socket.
Init ==
    /\ loopAt = [c \in Connection |-> "idle"]
    /\ attempt = [c \in Connection |-> 0]
    /\ socket = [c \in Connection |-> 0]
    /\ made = 0
    /\ isDead = [c \in Connection |-> FALSE]
    /\ gaveUp = [c \in Connection |-> FALSE]
    /\ permanentFailure = FALSE
    /\ isDisposed = [c \in Connection |-> FALSE]
    /\ open = [c \in Connection |-> {0}]
    /\ requests = [c \in Connection |-> {}]
    /\ answers = [c \in Connection |-> {}]
    /\ farewells = [c \in Connection |-> FALSE]
    /\ session = [c \in Connection |-> TRUE]
    /\ sessionSocket = [c \in Connection |-> 0]
    /\ disconnectRunner1 = [c \in Connection |-> FALSE]
    /\ disconnectRunner2 = [c \in Connection |-> FALSE]
    /\ hostAt = [c \in Hosted |-> "up"]
    /\ handover = [c \in Hosted |-> {}]
    /\ mishaps = 0

-----------------------------------------------------------------------------
(* The client.                                                             *)

\* The connections a permanent failure of c reaches: every one that is not
\* disposed when the failure is fatal, itself alone when it is not.
FailingWith(c) ==
    IF c \in Fatal THEN {d \in Connection : ~isDisposed[d]} ELSE {c}

\* No more attempts: the event is fired, the protocol disposed, its socket closed.
GiveUp(c) ==
    LET failing == FailingWith(c)
    IN  /\ loopAt' = [loopAt EXCEPT ![c] = "idle"]
        /\ permanentFailure' = (permanentFailure \/ c \in Fatal)
        /\ gaveUp' = [d \in Connection |-> gaveUp[d] \/ d \in failing]
        /\ isDead' = [d \in Connection |-> isDead[d] \/ d \in failing]
        /\ open' = [d \in Connection |-> IF d \in failing THEN open[d] \ {socket[d]} ELSE open[d]]
        /\ UNCHANGED <<attempt, socketVars, isDisposed, requests, answers, farewells, serverVars, mishaps>>

\* Fault: the attempt is abandoned without counting it.
TryAgainUncounted(c) ==
    /\ loopAt' = [loopAt EXCEPT ![c] = "sleeping"]
    /\ UNCHANGED <<attempt, socketVars, isDead, gaveUp, permanentFailure, isDisposed,
                   netVars, serverVars, mishaps>>

\* An attempt failed for a reason that may pass: sleep and try again, unless the
\* attempts are used up or the loop's condition has become false.
TryAgain(c) ==
    IF attempt[c] > MaxAttempts
    THEN GiveUp(c)
    ELSE /\ IF permanentFailure \/ isDisposed[c]
            THEN loopAt' = [loopAt EXCEPT ![c] = "idle"] /\ UNCHANGED attempt
            ELSE /\ loopAt' = [loopAt EXCEPT ![c] = "sleeping"]
                 /\ attempt' = [attempt EXCEPT ![c] = @ + 1]
         /\ UNCHANGED <<socketVars, isDead, gaveUp, permanentFailure, isDisposed,
                        netVars, serverVars, mishaps>>

\* The loop starts, with an attempt at once.
StartLoop(c) ==
    /\ loopAt[c] = "idle"
    /\ ~permanentFailure
    /\ ~isDisposed[c]
    /\ loopAt' = [loopAt EXCEPT ![c] = "resolving"]
    /\ attempt' = [attempt EXCEPT ![c] = 0]
    /\ UNCHANGED <<socketVars, isDead, gaveUp, permanentFailure, isDisposed, netVars, serverVars>>

\* onSocketClose, as long as the protocol is not disposed.
SocketCloses(c) ==
    /\ ~isDead[c]
    /\ socket[c] \notin open[c]
    /\ StartLoop(c)
    /\ UNCHANGED mishaps

\* onSocketTimeout: nothing came in for twenty seconds.  The timer that fires it
\* is armed by every send(), also on a protocol that is disposed.
SocketTimesOut(c) ==
    /\ mishaps < MaxMishaps
    /\ StartLoop(c)
    /\ mishaps' = mishaps + 1

\* The sleep between two attempts is over.
WakeUp(c) ==
    /\ loopAt[c] = "sleeping"
    /\ loopAt' = [loopAt EXCEPT ![c] = IF permanentFailure THEN "idle" ELSE "resolving"]
    /\ UNCHANGED <<attempt, socketVars, isDead, gaveUp, permanentFailure, isDisposed,
                   netVars, serverVars, mishaps>>

\* The address is resolved.
Resolve(c) ==
    /\ loopAt[c] = "resolving"
    /\ loopAt' = [loopAt EXCEPT ![c] = "connecting"]
    /\ UNCHANGED <<attempt, socketVars, isDead, gaveUp, permanentFailure, isDisposed,
                   netVars, serverVars, mishaps>>

\* Resolving fails: for now, or for good.
FailToResolve(c) ==
    /\ loopAt[c] = "resolving"
    /\ TryAgain(c) \/ GiveUp(c)

\* A socket is created: the protocol begins on it, the old socket is closed and
\* the handshake request goes out.
Connect(c) ==
    LET new == socket[c] + 1
    IN  /\ loopAt[c] = "connecting"
        /\ made < MaxSocket
        /\ made' = made + 1
        /\ loopAt' = [loopAt EXCEPT ![c] = "handshaking"]
        /\ socket' = [socket EXCEPT ![c] = new]
        /\ isDead' = [isDead EXCEPT ![c] = FALSE]
        /\ open' = [open EXCEPT ![c] = (@ \ {socket[c]}) \cup {new}]
        /\ requests' = [requests EXCEPT ![c] = @ \cup {new}]
        /\ UNCHANGED <<attempt, gaveUp, permanentFailure, isDisposed, answers, farewells,
                       serverVars, mishaps>>

\* Creating the socket or the handshake on it times out.
TimeOut(c) ==
    /\ loopAt[c] \in {"connecting", "handshaking"}
    /\ TryAgain(c)

\* The server's answer is read: the connection is regained, or refused for good.
ReadAnswer(c) ==
    /\ loopAt[c] = "handshaking"
    /\ ~isDead[c]
    /\ \/ /\ <<socket[c], "ok">> \in answers[c]
          /\ loopAt' = [loopAt EXCEPT ![c] = "idle"]
          /\ UNCHANGED <<attempt, socketVars, isDead, gaveUp, permanentFailure, isDisposed,
                         netVars, serverVars, mishaps>>
       \/ /\ <<socket[c], "error">> \in answers[c]
          /\ GiveUp(c)

\* The connection object is disposed: it says farewell and disposes the protocol.
\* A loop that is under way is not told.
Dispose(c) ==
    /\ c \in Fatal
    /\ ~isDisposed[c]
    /\ isDisposed' = [isDisposed EXCEPT ![c] = TRUE]
    /\ isDead' = [isDead EXCEPT ![c] = TRUE]
    /\ farewells' = [farewells EXCEPT ![c] = ~isDead[c] /\ socket[c] \in open[c]
                                             /\ sessionSocket[c] = socket[c]]
    /\ open' = [open EXCEPT ![c] = @ \ {socket[c]}]
    /\ UNCHANGED <<loopAt, attempt, socketVars, gaveUp, permanentFailure, requests, answers,
                   serverVars, mishaps>>

-----------------------------------------------------------------------------
(* The server.                                                             *)

\* A management session that waits for its client on the long timer starts the
\* short one.  An extension host is told by a message: HostReducesGraceTime.
Shortened ==
    [c \in Connection |-> disconnectRunner2[c] \/ (c \in Fatal /\ disconnectRunner1[c])]

\* Fault: the protocol stays on the socket it had.
AcceptOnOldSocket(c, g) ==
    /\ disconnectRunner1' = [disconnectRunner1 EXCEPT ![c] = FALSE]
    /\ disconnectRunner2' = [Shortened EXCEPT ![c] = FALSE]
    /\ answers' = [answers EXCEPT ![c] = @ \cup {<<g, "ok">>}]
    /\ UNCHANGED <<session, sessionSocket, open, hostVars>>

\* A management session moves to the new socket; its timers stop and its old
\* socket is closed.
AcceptReconnection(c, g) ==
    /\ disconnectRunner1' = [disconnectRunner1 EXCEPT ![c] = FALSE]
    /\ disconnectRunner2' = [Shortened EXCEPT ![c] = FALSE]
    /\ open' = [open EXCEPT ![c] = @ \ ({sessionSocket[c]} \ {g})]
    /\ sessionSocket' = [sessionSocket EXCEPT ![c] = g]
    /\ answers' = [answers EXCEPT ![c] = @ \cup {<<g, "ok">>}]
    /\ UNCHANGED <<session, hostVars>>

\* The client of an extension host is answered at once; its socket goes to the
\* host when what was written to it has drained.
HandOver(c, g) ==
    /\ answers' = [answers EXCEPT ![c] = @ \cup {<<g, "ok">>}]
    /\ handover' = [handover EXCEPT ![c] = @ \cup {g}]
    /\ disconnectRunner2' = Shortened
    /\ UNCHANGED <<open, session, sessionSocket, disconnectRunner1, hostAt>>

\* The token is not, or no longer, known.
RejectConnection(c, g) ==
    /\ answers' = [answers EXCEPT ![c] = @ \cup {<<g, "error">>}]
    /\ disconnectRunner2' = Shortened
    /\ UNCHANGED <<open, session, sessionSocket, disconnectRunner1, hostVars>>

\* A handshake request is read.  That a client came shortens the grace time of
\* every session that waits.
HandleConnection(c) ==
    \E g \in requests[c] :
        /\ requests' = [requests EXCEPT ![c] = @ \ {g}]
        /\ \/ session[c] /\ c \in Fatal /\ AcceptReconnection(c, g)
           \/ session[c] /\ c \in Hosted /\ HandOver(c, g)
           \/ ~session[c] /\ RejectConnection(c, g)
        /\ UNCHANGED <<clientVars, farewells, mishaps>>

\* A window of somebody else connects.
OtherClientConnects ==
    /\ disconnectRunner2' = Shortened
    /\ UNCHANGED <<clientVars, netVars, session, sessionSocket, disconnectRunner1, hostVars, mishaps>>

\* Fault: only the first socket's closing is listened to.
FirstSocketCloses(c) ==
    /\ session[c]
    /\ c \in Hosted => hostAt[c] = "up"
    /\ sessionSocket[c] = 0
    /\ 0 \notin open[c]
    /\ ~farewells[c]
    /\ ~disconnectRunner1[c]
    /\ disconnectRunner1' = [disconnectRunner1 EXCEPT ![c] = TRUE]
    /\ UNCHANGED <<clientVars, netVars, session, sessionSocket, disconnectRunner2, hostVars, mishaps>>

\* The session's socket has closed: wait for the client to come back.
SessionSocketCloses(c) ==
    /\ session[c]
    /\ c \in Hosted => hostAt[c] = "up"
    /\ sessionSocket[c] \notin open[c]
    /\ ~farewells[c]
    /\ ~disconnectRunner1[c]
    /\ disconnectRunner1' = [disconnectRunner1 EXCEPT ![c] = TRUE]
    /\ UNCHANGED <<clientVars, netVars, session, sessionSocket, disconnectRunner2, hostVars, mishaps>>

\* _cleanResources: the session of a management connection is over.
CleanResources(c) ==
    /\ session' = [session EXCEPT ![c] = FALSE]
    /\ disconnectRunner1' = [disconnectRunner1 EXCEPT ![c] = FALSE]
    /\ disconnectRunner2' = [disconnectRunner2 EXCEPT ![c] = FALSE]
    /\ open' = [open EXCEPT ![c] = @ \ {sessionSocket[c]}]
    /\ UNCHANGED <<clientVars, sessionSocket, requests, answers, hostVars, mishaps>>

\* onTerminate: the host deactivates its extensions, for five seconds at most.
\* It still takes sockets; its timers, which do nothing from now on, are no
\* longer followed.
HostTerminates(c) ==
    /\ hostAt' = [hostAt EXCEPT ![c] = "terminating"]
    /\ disconnectRunner1' = [disconnectRunner1 EXCEPT ![c] = FALSE]
    /\ disconnectRunner2' = [disconnectRunner2 EXCEPT ![c] = FALSE]
    /\ UNCHANGED <<clientVars, session, sessionSocket, open, requests, answers, handover>>

\* A grace time is over: the session ends, or the host begins to.
GraceExpires(c) ==
    /\ disconnectRunner1[c] \/ disconnectRunner2[c]
    /\ \/ c \in Fatal /\ CleanResources(c)
       \/ c \in Hosted /\ HostTerminates(c) /\ UNCHANGED mishaps
    /\ UNCHANGED farewells

\* The client's farewell is read.
ReadFarewell(c) ==
    /\ farewells[c]
    /\ farewells' = [farewells EXCEPT ![c] = FALSE]
    /\ IF session[c]
       THEN CleanResources(c)
       ELSE UNCHANGED <<clientVars, serverVars, open, requests, answers, mishaps>>

-----------------------------------------------------------------------------
(* The extension hosts.                                                    *)

\* Fault: a reconnection leaves the timers running.
HostTakesUncancelled(c) ==
    /\ hostAt[c] # "gone"
    /\ \E g \in handover[c] :
          /\ handover' = [handover EXCEPT ![c] = @ \ {g}]
          /\ open' = [open EXCEPT ![c] = @ \ ({sessionSocket[c]} \ {g})]
          /\ sessionSocket' = [sessionSocket EXCEPT ![c] = g]
    /\ UNCHANGED <<clientVars, session, disconnectRunner1, disconnectRunner2, hostAt,
                   requests, answers, farewells, mishaps>>

\* VSCODE_EXTHOST_IPC_SOCKET: the host gets a socket, in any order since each was
\* drained first.  The timers stop, the old socket is closed.  With a socket that
\* has closed meanwhile the message may come without its handle, and is lost.
HostTakes(c) ==
    /\ hostAt[c] # "gone"
    /\ \E g \in handover[c] :
          /\ handover' = [handover EXCEPT ![c] = @ \ {g}]
          /\ \/ /\ disconnectRunner1' = [disconnectRunner1 EXCEPT ![c] = FALSE]
                /\ disconnectRunner2' = [disconnectRunner2 EXCEPT ![c] = FALSE]
                /\ open' = [open EXCEPT ![c] = @ \ ({sessionSocket[c]} \ {g})]
                /\ sessionSocket' = [sessionSocket EXCEPT ![c] = g]
             \/ /\ g \notin open[c]
                /\ UNCHANGED <<disconnectRunner1, disconnectRunner2, open, sessionSocket>>
    /\ UNCHANGED <<clientVars, session, hostAt, requests, answers, farewells, mishaps>>

\* VSCODE_EXTHOST_IPC_REDUCE_GRACE_TIME, sent whenever a client connects, arrives.
HostReducesGraceTime(c) ==
    /\ disconnectRunner1[c]
    /\ ~disconnectRunner2[c]
    /\ disconnectRunner2' = [disconnectRunner2 EXCEPT ![c] = TRUE]
    /\ UNCHANGED <<clientVars, netVars, session, sessionSocket, disconnectRunner1, hostVars, mishaps>>

\* The process is gone, and the socket it had with it.
HostExits(c) ==
    /\ hostAt' = [hostAt EXCEPT ![c] = "gone"]
    /\ disconnectRunner1' = [disconnectRunner1 EXCEPT ![c] = FALSE]
    /\ disconnectRunner2' = [disconnectRunner2 EXCEPT ![c] = FALSE]
    /\ open' = [open EXCEPT ![c] = @ \ {sessionSocket[c]}]
    /\ UNCHANGED <<clientVars, session, sessionSocket, requests, answers, farewells, handover>>

\* The host's time is up.
HostFinishes(c) ==
    /\ hostAt[c] = "terminating"
    /\ HostExits(c)
    /\ UNCHANGED mishaps

\* A host that is in use crashes, or is told to terminate.
HostFails(c) ==
    /\ mishaps < MaxMishaps
    /\ hostAt[c] = "up"
    /\ mishaps' = mishaps + 1
    /\ HostExits(c) \/ (HostTerminates(c) /\ UNCHANGED farewells)

\* The 'exit' event: only now does the server forget the token.
ServerHearsExit(c) ==
    /\ hostAt[c] = "gone"
    /\ session[c]
    /\ session' = [session EXCEPT ![c] = FALSE]
    /\ UNCHANGED <<clientVars, netVars, sessionSocket, disconnectRunner1, disconnectRunner2,
                   hostVars, mishaps>>

\* A socket that was to go to a host that is gone: the 'error' event ends the
\* session, and nobody may ever close the socket.
HandoverFails(c) ==
    /\ hostAt[c] = "gone"
    /\ \E g \in handover[c] :
          /\ handover' = [handover EXCEPT ![c] = @ \ {g}]
          /\ open' \in {open, [open EXCEPT ![c] = @ \ {g}]}
    /\ session' = [session EXCEPT ![c] = FALSE]
    /\ UNCHANGED <<clientVars, sessionSocket, disconnectRunner1, disconnectRunner2, hostAt,
                   requests, answers, farewells, mishaps>>

-----------------------------------------------------------------------------
(* The network.                                                            *)

\* A socket breaks.
Break(c) ==
    /\ mishaps < MaxMishaps
    /\ socket[c] \in open[c]
    /\ open' = [open EXCEPT ![c] = @ \ {socket[c]}]
    /\ mishaps' = mishaps + 1
    /\ UNCHANGED <<clientVars, serverVars, requests, answers, farewells>>

\* What was under way on a closed socket is lost.
LoseClosed(c) ==
    \E g \in Socket \ open[c] :
        /\ requests' = [requests EXCEPT ![c] = @ \ {g}]
        /\ answers' = [answers EXCEPT ![c] = {a \in @ : a[1] # g}]
        /\ farewells' = [farewells EXCEPT ![c] = @ /\ sessionSocket[c] # g]
        /\ UNCHANGED <<clientVars, serverVars, open, mishaps>>

ClientStep(c) ==
    \/ SocketCloses(c) \/ WakeUp(c) \/ Resolve(c) \/ FailToResolve(c)
    \/ Connect(c) \/ TimeOut(c) \/ ReadAnswer(c)

ServerStep(c) ==
    \/ HandleConnection(c) \/ SessionSocketCloses(c) \/ GraceExpires(c) \/ ReadFarewell(c)

HostStep(c) ==
    \/ HostTakes(c) \/ HostReducesGraceTime(c) \/ HostFinishes(c) \/ HostFails(c)
    \/ ServerHearsExit(c) \/ HandoverFails(c)

Next ==
    \/ \E c \in Connection :
          \/ ClientStep(c) \/ SocketTimesOut(c) \/ Dispose(c)
          \/ ServerStep(c) \/ Break(c) \/ LoseClosed(c)
    \/ \E c \in Hosted : HostStep(c)
    \/ OtherClientConnects

Spec == Init /\ [][Next]_vars

\* Timers fire, promises settle and messages arrive or are lost.
FairSpec ==
    /\ Spec
    /\ \A c \in Connection :
          /\ WF_vars(SocketCloses(c))
          /\ WF_vars(WakeUp(c) \/ Resolve(c) \/ Connect(c) \/ TimeOut(c) \/ ReadAnswer(c))
          /\ WF_vars(HandleConnection(c))
          /\ WF_vars(SessionSocketCloses(c))
          /\ WF_vars(GraceExpires(c))
          /\ WF_vars(ReadFarewell(c))

-----------------------------------------------------------------------------
(* Properties.                                                             *)

\* A grace timer only ever runs for a session whose own socket has closed, and in a
\* host that is not ending: whatever order reconnections, closed sockets and other
\* clients come in, no session is thrown away under a client that uses it.
GraceOnlyWhileAway ==
    \A c \in Connection :
        disconnectRunner1[c] \/ disconnectRunner2[c] =>
            /\ session[c]
            /\ sessionSocket[c] \notin open[c]
            /\ c \in Hosted => hostAt[c] = "up"

\* The session of the token is on the client's socket.
Served(c) == session[c] /\ sessionSocket[c] = socket[c]

\* The socket is on its way to a host that will take it, or the host is ending:
\* the client was answered before its socket arrived, and a grace time that is
\* over in between is told to nobody.
OnItsWay(c) == socket[c] \in handover[c] \/ hostAt[c] # "up"

\* A client that has neither given up nor been disposed, is done reconnecting and
\* has an open socket shares it with the session of its token; that of an
\* extension host, unless the host is still to get it or is ending.
ConnectedMeansServed ==
    \A c \in Connection :
        /\ ~gaveUp[c] /\ ~isDisposed[c]
        /\ loopAt[c] = "idle"
        /\ socket[c] \in open[c]
        => Served(c) \/ (c \in Hosted /\ OnItsWay(c))

\* Every reconnecting loop comes to an end, with the connection or without it.
LoopEnds == \A c \in Connection : loopAt[c] # "idle" ~> loopAt[c] = "idle"

\* A session whose client is disposed, its protocol with it and no loop under way,
\* does not stay on the server for ever, also when the farewell is lost.
SessionOfDisposedEnds ==
    \A c \in Connection :
        isDisposed[c] /\ isDead[c] /\ loopAt[c] = "idle" ~> ~session[c]

\* remoteExtensionManagement.ts, extensionHostProcess.ts: what the server and the
\* hosts have of a connection fits what its client is doing: they serve a client
\* that is there, on its socket, and count down only for one that is away.
SessionsFitTheirClients == TypeOK /\ GraceOnlyWhileAway /\ ConnectedMeansServed
=============================================================================
