--------------------------- MODULE EditorProcessesProofs ---------------------------
(***************************************************************************)
(* What two parts of the editor that span processes promise, for any       *)
(* number of those who take part.                                          *)
(*                                                                         *)
(* The sessions of the remote server fit their clients, for every set of   *)
(* connections and any number of attempts, sockets and mishaps.            *)
(* The numbers of the sockets carry the argument: a client has at most its *)
(* latest socket open, nothing on the server is later than it, and an      *)
(* answer to the latest one means that the session has moved there, or     *)
(* that an extension host is still to get it or is ending.                 *)
(*                                                                         *)
(* The windows agree with the main process on the storage they share, once *)
(* all is said. What is under way carries the argument: the last message   *)
(* that tells a window a key tells what the main process holds, unless it  *)
(* has noted that it must tell more; and a window that holds another value *)
(* has sent that one.                                                      *)
(***************************************************************************)
EXTENDS RemoteConnection, SharedStorage, SequenceTheorems, TLAPS

----------------------------------------------------------------------------
(* The sessions of the remote connections.                                 *)

\* A connection has no open socket but its latest, and the server knows of none
\* that is later.
Sockets ==
    \A c \in Connection :
        /\ socket[c] <= made
        /\ open[c] \subseteq {socket[c]}
        /\ sessionSocket[c] <= socket[c]
        /\ \A g \in requests[c] : g <= socket[c]
        /\ \A a \in answers[c] : a[1] <= socket[c]
        /\ c \in Hosted => \A g \in handover[c] : g <= socket[c]

\* Where the latest socket was accepted and is still open, the session uses it, or
\* the host is still to get it or is ending.
AnswersAreKept ==
    \A c \in Connection :
        /\ <<socket[c], "ok">> \in answers[c]
        /\ socket[c] \in open[c]
        => Served(c) \/ (c \in Hosted /\ OnItsWay(c))

\* The server forgets no host that lives, and only management connections say
\* farewell.
HostsHaveSessions ==
    /\ \A c \in Hosted : hostAt[c] # "gone" => session[c]
    /\ \A c \in Connection : farewells[c] => c \in Fatal

\* A failure that is fatal has reached every connection.
FailureReachesAll ==
    permanentFailure => \A c \in Connection : gaveUp[c] \/ isDisposed[c]

SessionInv ==
    /\ TypeOK
    /\ GraceOnlyWhileAway
    /\ ConnectedMeansServed
    /\ Sockets
    /\ AnswersAreKept
    /\ HostsHaveSessions
    /\ FailureReachesAll

----------------------------------------------------------------------------
(* The client.                                                             *)

LEMMA InitSessions == Init => SessionInv
<1> SUFFICES ASSUME Init PROVE SessionInv
  OBVIOUS
<1>1. TypeOK
  <2>1. 0 \in Socket /\ 0 \in 0 .. MaxAttempts + 1 /\ 0 \in 0 .. MaxSocket /\ 0 \in 0 .. MaxMishaps
    BY ConnectionAssumption DEF Socket
  <2> QED
    BY <2>1 DEF Init, TypeOK
<1>2. GraceOnlyWhileAway /\ ConnectedMeansServed /\ Sockets /\ AnswersAreKept /\ HostsHaveSessions /\ FailureReachesAll
  BY DEF Init, Hosted, GraceOnlyWhileAway, ConnectedMeansServed, Served, OnItsWay, Sockets, AnswersAreKept, HostsHaveSessions, FailureReachesAll
<1> QED
  BY <1>1, <1>2 DEF SessionInv

\* The loop moves on, but not to its end: nothing else sees it.
LEMMA LoopGoesOn ==
    ASSUME SessionInv, NEW c \in Connection,
           NEW at \in {"sleeping", "resolving", "connecting", "handshaking"},
           loopAt' = [loopAt EXCEPT ![c] = at],
           attempt' \in [Connection -> 0 .. MaxAttempts + 1],
           mishaps' \in 0 .. MaxMishaps,
           UNCHANGED <<socketVars, isDead, gaveUp, permanentFailure, isDisposed, netVars, serverVars>>
    PROVE  SessionInv'
<1> USE DEF SessionInv, socketVars, netVars, serverVars, hostVars
<1>1. TypeOK'
  BY DEF TypeOK
<1>2. GraceOnlyWhileAway'
  BY DEF GraceOnlyWhileAway
<1>3. ConnectedMeansServed'
  BY DEF ConnectedMeansServed, Served, OnItsWay, TypeOK
<1>4. Sockets' /\ AnswersAreKept' /\ HostsHaveSessions' /\ FailureReachesAll'
  BY DEF Sockets, AnswersAreKept, Served, OnItsWay, HostsHaveSessions, FailureReachesAll
<1> QED
  BY <1>1, <1>2, <1>3, <1>4

\* The loop ends where its connection has failed, is disposed or is served.
LEMMA LoopStops ==
    ASSUME SessionInv, NEW c \in Connection,
           loopAt' = [loopAt EXCEPT ![c] = "idle"],
           \/ gaveUp[c] \/ isDisposed[c]
           \/ <<socket[c], "ok">> \in answers[c],
           UNCHANGED <<attempt, socketVars, isDead, gaveUp, permanentFailure, isDisposed,
                       netVars, serverVars, mishaps>>
    PROVE  SessionInv'
<1> USE DEF SessionInv, socketVars, netVars, serverVars, hostVars
<1>1. TypeOK'
  BY DEF TypeOK
<1>2. GraceOnlyWhileAway'
  BY DEF GraceOnlyWhileAway
<1>3. ConnectedMeansServed'
  BY DEF ConnectedMeansServed, Served, OnItsWay, AnswersAreKept, TypeOK
<1>4. Sockets' /\ AnswersAreKept' /\ HostsHaveSessions' /\ FailureReachesAll'
  BY DEF Sockets, AnswersAreKept, Served, OnItsWay, HostsHaveSessions, FailureReachesAll
<1> QED
  BY <1>1, <1>2, <1>3, <1>4

\* Giving up closes sockets, and tells all whom the failure concerns.
LEMMA GiveUpKeeps ==
    ASSUME SessionInv, NEW c \in Connection, GiveUp(c)
    PROVE  SessionInv'
<1> USE DEF SessionInv, GiveUp, socketVars, serverVars, hostVars
<1>1. TypeOK'
  BY DEF TypeOK
<1>2. \A d \in Connection :
          /\ open'[d] \subseteq open[d]
          /\ gaveUp[d] => gaveUp'[d]
          /\ d # c => loopAt'[d] = loopAt[d]
  BY DEF TypeOK
<1>3. gaveUp'[c] \/ isDisposed[c]
  BY DEF FailingWith, TypeOK
<1>4. c \in Fatal => \A d \in Connection : gaveUp'[d] \/ isDisposed[d]
  BY DEF FailingWith, TypeOK
<1>5. GraceOnlyWhileAway'
  BY <1>2 DEF GraceOnlyWhileAway
<1>6. ConnectedMeansServed'
  BY <1>2, <1>3 DEF ConnectedMeansServed, Served, OnItsWay
<1>7. Sockets' /\ AnswersAreKept'
  BY <1>2 DEF Sockets, AnswersAreKept, Served, OnItsWay
<1>8. HostsHaveSessions' /\ FailureReachesAll'
  BY <1>2, <1>4 DEF HostsHaveSessions, FailureReachesAll
<1> QED
  BY <1>1, <1>5, <1>6, <1>7, <1>8

\* An attempt that fails is followed by another, or by none.
LEMMA TryAgainKeeps ==
    ASSUME SessionInv, NEW c \in Connection, TryAgain(c)
    PROVE  SessionInv'
<1>1. CASE attempt[c] > MaxAttempts
  BY <1>1, GiveUpKeeps DEF TryAgain
<1>2. CASE ~(attempt[c] > MaxAttempts) /\ (permanentFailure \/ isDisposed[c])
  <2>1. gaveUp[c] \/ isDisposed[c]
    BY <1>2 DEF SessionInv, HostsHaveSessions, FailureReachesAll
  <2> QED
    BY <1>2, <2>1, LoopStops DEF TryAgain
<1>3. CASE ~(attempt[c] > MaxAttempts) /\ ~(permanentFailure \/ isDisposed[c])
  <2>1. attempt' \in [Connection -> 0 .. MaxAttempts + 1] /\ mishaps' \in 0 .. MaxMishaps
    BY <1>3, ConnectionAssumption DEF TryAgain, SessionInv, TypeOK
  <2> QED
    BY <1>3, <2>1, LoopGoesOn DEF TryAgain
<1> QED
  BY <1>1, <1>2, <1>3

\* A loop starts.
LEMMA StartLoopKeeps ==
    ASSUME SessionInv, NEW c \in Connection, SocketCloses(c) \/ SocketTimesOut(c)
    PROVE  SessionInv'
<1>1. StartLoop(c) /\ mishaps' \in 0 .. MaxMishaps
  BY ConnectionAssumption DEF SocketCloses, SocketTimesOut, SessionInv, TypeOK
<1>2. attempt' \in [Connection -> 0 .. MaxAttempts + 1]
  BY <1>1, ConnectionAssumption DEF StartLoop, SessionInv, TypeOK
<1> QED
  BY <1>1, <1>2, LoopGoesOn DEF StartLoop

\* A new socket is later than all that the server has heard of.
LEMMA ConnectKeeps ==
    ASSUME SessionInv, NEW c \in Connection, Connect(c)
    PROVE  SessionInv'
<1> USE DEF SessionInv, Connect, serverVars, hostVars
<1>1. /\ socket'[c] = socket[c] + 1
      /\ \A d \in Connection : socket[d] \in Nat /\ (d # c => socket'[d] = socket[d])
      /\ made \in Nat /\ made' = made + 1 /\ made' <= MaxSocket
  BY ConnectionAssumption DEF TypeOK, Socket
<1>2. open'[c] \subseteq {socket'[c]} /\ \A d \in Connection : d # c => open'[d] = open[d]
  BY <1>1 DEF TypeOK, Sockets
<1>3. /\ requests'[c] = requests[c] \cup {socket'[c]}
      /\ \A d \in Connection : d # c => requests'[d] = requests[d]
  BY <1>1 DEF TypeOK
<1>4. TypeOK'
  <2>1. socket[c] + 1 \in Socket
    BY <1>1, ConnectionAssumption DEF Sockets, Socket
  <2> QED
    BY <1>1, <2>1, ConnectionAssumption DEF TypeOK
<1>5. \A d \in Connection : sessionSocket[d] \in Nat /\ sessionSocket[d] <= socket[d]
  BY ConnectionAssumption DEF TypeOK, Sockets, Socket
<1>6. GraceOnlyWhileAway'
  BY <1>1, <1>2, <1>5 DEF GraceOnlyWhileAway
<1>7. ConnectedMeansServed'
  BY <1>1, <1>2 DEF ConnectedMeansServed, Served, OnItsWay, TypeOK
<1>8. Sockets'
  <2>1. ASSUME NEW d \in Connection
        PROVE  /\ \A g \in requests[d] : g \in Nat /\ g <= socket[d]
               /\ \A a \in answers[d] : a[1] \in Nat /\ a[1] <= socket[d]
               /\ d \in Hosted => \A g \in handover[d] : g \in Nat /\ g <= socket[d]
    BY DEF TypeOK, Sockets, Socket
  <2> QED
    BY <1>1, <1>2, <1>3, <1>5, <2>1 DEF Sockets
<1>9. AnswersAreKept'
  <2>1. <<socket'[c], "ok">> \notin answers[c]
    BY <1>1 DEF Sockets
  <2> QED
    BY <1>1, <1>2, <2>1 DEF AnswersAreKept, Served, OnItsWay
<1>10. HostsHaveSessions' /\ FailureReachesAll'
  BY DEF HostsHaveSessions, FailureReachesAll
<1> QED
  BY <1>4, <1>6, <1>7, <1>8, <1>9, <1>10

\* A disposed connection has no open socket that anybody could count on.
LEMMA DisposeKeeps ==
    ASSUME SessionInv, NEW c \in Connection, Dispose(c)
    PROVE  SessionInv'
<1> USE DEF SessionInv, Dispose, socketVars, serverVars, hostVars
<1>1. TypeOK'
  BY DEF TypeOK
<1>2. \A d \in Connection : open'[d] \subseteq open[d] /\ (isDisposed[d] => isDisposed'[d])
  BY DEF TypeOK
<1>3. isDisposed'[c] /\ \A d \in Connection : d # c => isDisposed'[d] = isDisposed[d]
  BY DEF TypeOK
<1>4. GraceOnlyWhileAway' /\ ConnectedMeansServed'
  BY <1>2, <1>3 DEF GraceOnlyWhileAway, ConnectedMeansServed, Served, OnItsWay
<1>5. Sockets' /\ AnswersAreKept' /\ HostsHaveSessions' /\ FailureReachesAll'
  BY <1>2, <1>3 DEF Sockets, AnswersAreKept, Served, OnItsWay, HostsHaveSessions, FailureReachesAll
<1> QED
  BY <1>1, <1>4, <1>5

----------------------------------------------------------------------------
(* The server.                                                             *)

\* Only a session whose client is away already counts down when another client
\* comes.
LEMMA ShortenedCountsTheSame ==
    ASSUME SessionInv
    PROVE  /\ Shortened \in [Connection -> BOOLEAN]
           /\ \A c \in Connection :
                 Shortened[c] => /\ disconnectRunner1[c] \/ disconnectRunner2[c]
                                 /\ c \in Hosted => disconnectRunner2[c]
BY DEF Shortened, SessionInv, TypeOK, Hosted

\* The session moves, and its old socket is closed: if that was the client's, the
\* client has no connection now.
LEMMA AcceptKeeps ==
    ASSUME SessionInv, NEW c \in Connection, NEW g \in requests[c],
           session[c], c \in Fatal,
           requests' = [requests EXCEPT ![c] = @ \ {g}],
           AcceptReconnection(c, g),
           UNCHANGED <<clientVars, farewells, mishaps>>
    PROVE  SessionInv'
<1> USE DEF SessionInv, AcceptReconnection, clientVars, socketVars, hostVars
<1>1. g \in Socket /\ g <= socket[c]
  BY DEF TypeOK, Sockets
<1>2. /\ sessionSocket'[c] = g
      /\ open'[c] = open[c] \ ({sessionSocket[c]} \ {g})
      /\ answers'[c] = answers[c] \cup {<<g, "ok">>}
      /\ ~disconnectRunner1'[c] /\ ~disconnectRunner2'[c]
  BY ShortenedCountsTheSame DEF TypeOK
<1>3. \A d \in Connection :
          d # c => /\ sessionSocket'[d] = sessionSocket[d]
                   /\ open'[d] = open[d]
                   /\ answers'[d] = answers[d]
                   /\ disconnectRunner1'[d] = disconnectRunner1[d]
                   /\ disconnectRunner2'[d] => disconnectRunner1[d] \/ disconnectRunner2[d]
  BY ShortenedCountsTheSame DEF TypeOK
<1>4. \A d \in Connection : requests'[d] \subseteq requests[d]
  BY DEF TypeOK
<1>5. TypeOK'
  BY <1>1, ShortenedCountsTheSame DEF TypeOK
<1>6. GraceOnlyWhileAway'
  BY <1>2, <1>3 DEF GraceOnlyWhileAway
<1>7. ConnectedMeansServed'
  BY <1>2, <1>3 DEF ConnectedMeansServed, Served, OnItsWay
<1>8. Sockets'
  BY <1>1, <1>2, <1>3, <1>4 DEF Sockets
<1>9. AnswersAreKept'
  BY <1>2, <1>3 DEF AnswersAreKept, Served, OnItsWay
<1>10. HostsHaveSessions' /\ FailureReachesAll'
  BY DEF HostsHaveSessions, FailureReachesAll
<1> QED
  BY <1>5, <1>6, <1>7, <1>8, <1>9, <1>10

LEMMA RejectKeeps ==
    ASSUME SessionInv, NEW c \in Connection, NEW g \in requests[c],
           requests' = [requests EXCEPT ![c] = @ \ {g}],
           RejectConnection(c, g),
           UNCHANGED <<clientVars, farewells, mishaps>>
    PROVE  SessionInv'
<1> USE DEF SessionInv, RejectConnection, clientVars, socketVars, hostVars
<1>1. g \in Socket /\ g <= socket[c]
  BY DEF TypeOK, Sockets
<1>2. answers'[c] = answers[c] \cup {<<g, "error">>} /\ \A d \in Connection : d # c => answers'[d] = answers[d]
  BY DEF TypeOK
<1>3. \A d \in Connection : requests'[d] \subseteq requests[d]
  BY DEF TypeOK
<1>4. TypeOK'
  BY <1>1, ShortenedCountsTheSame DEF TypeOK
<1>5. GraceOnlyWhileAway' /\ ConnectedMeansServed' /\ HostsHaveSessions' /\ FailureReachesAll'
  BY ShortenedCountsTheSame DEF GraceOnlyWhileAway, ConnectedMeansServed, Served, OnItsWay, HostsHaveSessions, FailureReachesAll
<1>6. Sockets'
  BY <1>1, <1>2, <1>3 DEF Sockets
<1>7. AnswersAreKept'
  BY <1>2 DEF AnswersAreKept, Served, OnItsWay
<1> QED
  BY <1>4, <1>5, <1>6, <1>7

\* Timers of sessions whose clients are away, started or shortened.
LEMMA TimersKeep ==
    ASSUME SessionInv,
           disconnectRunner1' \in [Connection -> BOOLEAN],
           disconnectRunner2' \in [Connection -> BOOLEAN],
           \A c \in Connection :
               disconnectRunner1'[c] \/ disconnectRunner2'[c] =>
                   /\ session[c] /\ sessionSocket[c] \notin open[c]
                   /\ c \in Hosted => hostAt[c] = "up",
           UNCHANGED <<clientVars, netVars, session, sessionSocket, hostVars, mishaps>>
    PROVE  SessionInv'
<1> USE DEF SessionInv, clientVars, socketVars, netVars, hostVars
<1>1. TypeOK'
  BY DEF TypeOK
<1>2. GraceOnlyWhileAway' /\ ConnectedMeansServed' /\ HostsHaveSessions' /\ FailureReachesAll'
  BY DEF GraceOnlyWhileAway, ConnectedMeansServed, Served, OnItsWay, HostsHaveSessions, FailureReachesAll
<1>3. Sockets' /\ AnswersAreKept'
  BY DEF Sockets, AnswersAreKept, Served, OnItsWay
<1> QED
  BY <1>1, <1>2, <1>3

\* A session ends with its socket: nobody is connected to it afterwards.
LEMMA CleanResourcesKeeps ==
    ASSUME SessionInv, NEW c \in Fatal, CleanResources(c),
           farewells' \in [Connection -> BOOLEAN],
           \A d \in Connection : farewells'[d] => farewells[d],
           sessionSocket[c] \notin open'[c]
    PROVE  SessionInv'
<1> USE DEF SessionInv, CleanResources, clientVars, socketVars, hostVars
<1>0. c \in Connection /\ c \notin Hosted /\ Hosted \subseteq Connection
  BY ConnectionAssumption DEF Hosted
<1>1. TypeOK'
  BY <1>0 DEF TypeOK
<1>2. \A d \in Connection :
          /\ open'[d] \subseteq open[d]
          /\ d # c => /\ session'[d] = session[d]
                      /\ disconnectRunner1'[d] = disconnectRunner1[d]
                      /\ disconnectRunner2'[d] = disconnectRunner2[d]
  BY DEF TypeOK
<1>3. ~disconnectRunner1'[c] /\ ~disconnectRunner2'[c]
  BY <1>0 DEF TypeOK
<1>4. GraceOnlyWhileAway'
  BY <1>0, <1>2, <1>3 DEF GraceOnlyWhileAway
<1>5. ConnectedMeansServed'
  BY <1>0, <1>2 DEF ConnectedMeansServed, Served, OnItsWay
<1>6. Sockets' /\ HostsHaveSessions' /\ FailureReachesAll'
  BY <1>0, <1>2 DEF Sockets, HostsHaveSessions, FailureReachesAll
<1>7. AnswersAreKept'
  BY <1>0, <1>2 DEF AnswersAreKept, Served, OnItsWay
<1> QED
  BY <1>1, <1>4, <1>5, <1>6, <1>7

----------------------------------------------------------------------------
(* The extension hosts.                                                    *)

\* The socket is on its way.
LEMMA HandOverKeeps ==
    ASSUME SessionInv, NEW c \in Hosted, NEW g \in requests[c],
           requests' = [requests EXCEPT ![c] = @ \ {g}],
           HandOver(c, g),
           UNCHANGED <<clientVars, farewells, mishaps>>
    PROVE  SessionInv'
<1> USE DEF SessionInv, HandOver, clientVars, socketVars
<1>0. c \in Connection /\ Hosted \subseteq Connection
  BY DEF Hosted
<1>1. g \in Socket /\ g <= socket[c]
  BY <1>0 DEF TypeOK, Sockets
<1>2. /\ answers'[c] = answers[c] \cup {<<g, "ok">>}
      /\ \A d \in Connection : d # c => answers'[d] = answers[d]
  BY <1>0 DEF TypeOK
<1>3. /\ handover'[c] = handover[c] \cup {g}
      /\ \A d \in Hosted : d # c => handover'[d] = handover[d]
  BY DEF TypeOK
<1>4. \A d \in Connection : requests'[d] \subseteq requests[d]
  BY DEF TypeOK
<1>5. TypeOK'
  BY <1>0, <1>1, ShortenedCountsTheSame DEF TypeOK
<1>6. GraceOnlyWhileAway' /\ HostsHaveSessions' /\ FailureReachesAll'
  BY <1>0, ShortenedCountsTheSame DEF GraceOnlyWhileAway, HostsHaveSessions, FailureReachesAll
<1>7. ConnectedMeansServed'
  BY <1>3 DEF ConnectedMeansServed, Served, OnItsWay
<1>8. Sockets'
  BY <1>0, <1>1, <1>2, <1>3, <1>4 DEF Sockets
<1>9. AnswersAreKept'
  BY <1>2, <1>3 DEF AnswersAreKept, Served, OnItsWay
<1> QED
  BY <1>5, <1>6, <1>7, <1>8, <1>9

\* The host has the socket now, and its old one is closed: if that was the
\* client's, the client has no connection now.
LEMMA HostTakesKeeps ==
    ASSUME SessionInv, NEW c \in Hosted, HostTakes(c)
    PROVE  SessionInv'
<1> USE DEF SessionInv, clientVars, socketVars
<1>0. c \in Connection /\ Hosted \subseteq Connection
  BY DEF Hosted
<1>1. PICK g \in handover[c] :
          /\ handover' = [handover EXCEPT ![c] = @ \ {g}]
          /\ \/ /\ disconnectRunner1' = [disconnectRunner1 EXCEPT ![c] = FALSE]
                /\ disconnectRunner2' = [disconnectRunner2 EXCEPT ![c] = FALSE]
                /\ open' = [open EXCEPT ![c] = @ \ ({sessionSocket[c]} \ {g})]
                /\ sessionSocket' = [sessionSocket EXCEPT ![c] = g]
             \/ /\ g \notin open[c]
                /\ UNCHANGED <<disconnectRunner1, disconnectRunner2, open, sessionSocket>>
  BY DEF HostTakes
<1>2. /\ hostAt[c] # "gone"
      /\ UNCHANGED <<clientVars, session, hostAt, requests, answers, farewells, mishaps>>
  BY DEF HostTakes
<1>3. session[c] /\ g \in Socket /\ g <= socket[c]
  BY <1>0, <1>2 DEF HostsHaveSessions, TypeOK, Sockets
<1>4. /\ handover'[c] = handover[c] \ {g}
      /\ \A d \in Hosted : d # c => handover'[d] = handover[d]
  BY <1>1 DEF TypeOK
<1>5. /\ open'[c] \subseteq open[c]
      /\ \A d \in Connection : d # c => /\ open'[d] = open[d]
                                        /\ sessionSocket'[d] = sessionSocket[d]
                                        /\ disconnectRunner1'[d] = disconnectRunner1[d]
                                        /\ disconnectRunner2'[d] = disconnectRunner2[d]
  BY <1>0, <1>1 DEF TypeOK
<1>6. \/ /\ sessionSocket'[c] = g
         /\ open'[c] = open[c] \ ({sessionSocket[c]} \ {g})
         /\ ~disconnectRunner1'[c] /\ ~disconnectRunner2'[c]
      \/ /\ g \notin open[c]
         /\ UNCHANGED <<disconnectRunner1, disconnectRunner2, open, sessionSocket>>
  BY <1>0, <1>1 DEF TypeOK
<1>7. TypeOK'
  <2>1. /\ disconnectRunner1' \in [Connection -> BOOLEAN]
        /\ disconnectRunner2' \in [Connection -> BOOLEAN]
    BY <1>1 DEF TypeOK
  <2>2. open' \in [Connection -> SUBSET Socket]
    BY <1>1 DEF TypeOK
  <2>3. sessionSocket' \in [Connection -> Socket]
    BY <1>1, <1>3 DEF TypeOK
  <2>4. handover' \in [Hosted -> SUBSET Socket]
    BY <1>1 DEF TypeOK
  <2> QED
    BY <1>2, <2>1, <2>2, <2>3, <2>4 DEF TypeOK
<1>8. GraceOnlyWhileAway'
  BY <1>0, <1>2, <1>5, <1>6 DEF GraceOnlyWhileAway
<1>9. ConnectedMeansServed'
  BY <1>2, <1>3, <1>4, <1>5, <1>6 DEF ConnectedMeansServed, Served, OnItsWay
<1>10. Sockets'
  BY <1>0, <1>2, <1>3, <1>4, <1>5, <1>6 DEF Sockets
<1>11. AnswersAreKept'
  BY <1>2, <1>3, <1>4, <1>5, <1>6 DEF AnswersAreKept, Served, OnItsWay
<1>12. HostsHaveSessions' /\ FailureReachesAll'
  BY <1>2 DEF HostsHaveSessions, FailureReachesAll
<1> QED
  BY <1>7, <1>8, <1>9, <1>10, <1>11, <1>12

\* A host that ends needs no timers, and nobody counts on it.
LEMMA HostEnds ==
    ASSUME SessionInv, NEW c \in Hosted, NEW at \in {"terminating", "gone"},
           hostAt' = [hostAt EXCEPT ![c] = at],
           disconnectRunner1' = [disconnectRunner1 EXCEPT ![c] = FALSE],
           disconnectRunner2' = [disconnectRunner2 EXCEPT ![c] = FALSE],
           open' \in [Connection -> SUBSET Socket],
           \A d \in Connection : open'[d] \subseteq open[d],
           mishaps' \in 0 .. MaxMishaps,
           session[c],
           UNCHANGED <<clientVars, session, sessionSocket, requests, answers, farewells, handover>>
    PROVE  SessionInv'
<1> USE DEF SessionInv, clientVars, socketVars
<1>0. c \in Connection /\ Hosted \subseteq Connection
  BY DEF Hosted
<1>1. hostAt'[c] = at /\ \A d \in Hosted : d # c => hostAt'[d] = hostAt[d]
  BY DEF TypeOK
<1>2. /\ ~disconnectRunner1'[c] /\ ~disconnectRunner2'[c]
      /\ \A d \in Connection : d # c => /\ disconnectRunner1'[d] = disconnectRunner1[d]
                                        /\ disconnectRunner2'[d] = disconnectRunner2[d]
  BY <1>0 DEF TypeOK
<1>3. TypeOK'
  BY <1>0 DEF TypeOK
<1>4. GraceOnlyWhileAway'
  BY <1>0, <1>1, <1>2 DEF GraceOnlyWhileAway
<1>5. ConnectedMeansServed'
  BY <1>1 DEF ConnectedMeansServed, Served, OnItsWay
<1>6. Sockets'
  BY DEF Sockets
<1>7. AnswersAreKept'
  BY <1>1 DEF AnswersAreKept, Served, OnItsWay
<1>8. HostsHaveSessions' /\ FailureReachesAll'
  BY <1>1 DEF HostsHaveSessions, FailureReachesAll
<1> QED
  BY <1>3, <1>4, <1>5, <1>6, <1>7, <1>8

LEMMA HostTerminatesKeeps ==
    ASSUME SessionInv, NEW c \in Hosted, hostAt[c] = "up",
           HostTerminates(c), mishaps' \in 0 .. MaxMishaps, UNCHANGED farewells
    PROVE  SessionInv'
<1>1. session[c] /\ "terminating" \in {"terminating", "gone"}
  BY DEF SessionInv, HostsHaveSessions
<1>2. PICK at \in {"terminating", "gone"} : at = "terminating"
  BY <1>1
<1>3. open' \in [Connection -> SUBSET Socket] /\ \A d \in Connection : open'[d] \subseteq open[d]
  BY DEF HostTerminates, SessionInv, TypeOK
<1> QED
  BY <1>1, <1>2, <1>3, HostEnds DEF HostTerminates

LEMMA HostExitsKeeps ==
    ASSUME SessionInv, NEW c \in Hosted, hostAt[c] # "gone",
           HostExits(c), mishaps' \in 0 .. MaxMishaps
    PROVE  SessionInv'
<1>1. session[c] /\ "gone" \in {"terminating", "gone"}
  BY DEF SessionInv, HostsHaveSessions
<1>2. PICK at \in {"terminating", "gone"} : at = "gone"
  BY <1>1
<1>3. open' \in [Connection -> SUBSET Socket] /\ \A d \in Connection : open'[d] \subseteq open[d]
  BY DEF HostExits, SessionInv, TypeOK
<1> QED
  BY <1>1, <1>2, <1>3, HostEnds DEF HostExits

\* The server forgets a host that is gone, with the sockets it could not hand over.
LEMMA ForgottenKeeps ==
    ASSUME SessionInv, NEW c \in Hosted, hostAt[c] = "gone",
           session' = [session EXCEPT ![c] = FALSE],
           handover' \in [Hosted -> SUBSET Socket],
           \A d \in Hosted : handover'[d] \subseteq handover[d] /\ (d # c => handover'[d] = handover[d]),
           open' \in [Connection -> SUBSET Socket],
           \A d \in Connection : open'[d] \subseteq open[d],
           UNCHANGED <<clientVars, sessionSocket, disconnectRunner1, disconnectRunner2, hostAt,
                       requests, answers, farewells, mishaps>>
    PROVE  SessionInv'
<1> USE DEF SessionInv, clientVars, socketVars
<1>0. c \in Connection /\ Hosted \subseteq Connection
  BY DEF Hosted
<1>1. \A d \in Connection : d # c => session'[d] = session[d]
  BY DEF TypeOK
<1>2. ~disconnectRunner1[c] /\ ~disconnectRunner2[c]
  BY <1>0 DEF GraceOnlyWhileAway
<1>3. TypeOK'
  BY <1>0 DEF TypeOK
<1>4. GraceOnlyWhileAway'
  BY <1>1, <1>2 DEF GraceOnlyWhileAway
<1>5. ConnectedMeansServed'
  BY <1>1 DEF ConnectedMeansServed, Served, OnItsWay
<1>6. Sockets'
  BY DEF Sockets
<1>7. AnswersAreKept'
  BY <1>1 DEF AnswersAreKept, Served, OnItsWay
<1>8. HostsHaveSessions' /\ FailureReachesAll'
  BY <1>0, <1>1 DEF HostsHaveSessions, FailureReachesAll
<1> QED
  BY <1>3, <1>4, <1>5, <1>6, <1>7, <1>8

LEMMA ServerHearsExitKeeps ==
    ASSUME SessionInv, NEW c \in Hosted, ServerHearsExit(c)
    PROVE  SessionInv'
<1>1. /\ handover' \in [Hosted -> SUBSET Socket]
      /\ open' \in [Connection -> SUBSET Socket]
      /\ handover' = handover /\ open' = open
  BY DEF ServerHearsExit, SessionInv, TypeOK, hostVars, netVars
<1>2. UNCHANGED <<clientVars, sessionSocket, disconnectRunner1, disconnectRunner2, hostAt,
                  requests, answers, farewells, mishaps>>
  BY DEF ServerHearsExit, hostVars, netVars
<1> QED
  BY <1>1, <1>2, ForgottenKeeps DEF ServerHearsExit

LEMMA HandoverFailsKeeps ==
    ASSUME SessionInv, NEW c \in Hosted, HandoverFails(c)
    PROVE  SessionInv'
<1>1. PICK g \in handover[c] :
          /\ handover' = [handover EXCEPT ![c] = @ \ {g}]
          /\ open' \in {open, [open EXCEPT ![c] = @ \ {g}]}
  BY DEF HandoverFails
<1>2. /\ handover' \in [Hosted -> SUBSET Socket]
      /\ \A d \in Hosted : handover'[d] \subseteq handover[d] /\ (d # c => handover'[d] = handover[d])
  BY <1>1 DEF SessionInv, TypeOK
<1>3. open' \in [Connection -> SUBSET Socket] /\ \A d \in Connection : open'[d] \subseteq open[d]
  BY <1>1 DEF SessionInv, TypeOK
<1> QED
  BY <1>2, <1>3, ForgottenKeeps DEF HandoverFails

----------------------------------------------------------------------------
(* The network.                                                            *)

\* Sockets close and what was under way is lost.
LEMMA NetworkLoses ==
    ASSUME SessionInv,
           open' \in [Connection -> SUBSET Socket],
           requests' \in [Connection -> SUBSET Socket],
           answers' \in [Connection -> SUBSET (Socket \X {"ok", "error"})],
           farewells' \in [Connection -> BOOLEAN],
           mishaps' \in 0 .. MaxMishaps,
           \A c \in Connection :
               /\ open'[c] \subseteq open[c]
               /\ requests'[c] \subseteq requests[c]
               /\ answers'[c] \subseteq answers[c]
               /\ farewells'[c] => farewells[c],
           UNCHANGED <<clientVars, serverVars>>
    PROVE  SessionInv'
<1> USE DEF SessionInv, clientVars, socketVars, serverVars, hostVars
<1>1. TypeOK'
  BY DEF TypeOK
<1>2. GraceOnlyWhileAway' /\ ConnectedMeansServed' /\ HostsHaveSessions' /\ FailureReachesAll'
  BY DEF GraceOnlyWhileAway, ConnectedMeansServed, Served, OnItsWay, HostsHaveSessions, FailureReachesAll
<1>3. Sockets'
  BY DEF Sockets
<1>4. AnswersAreKept'
  BY DEF AnswersAreKept, Served, OnItsWay
<1> QED
  BY <1>1, <1>2, <1>3, <1>4

----------------------------------------------------------------------------
(* The theorems.                                                           *)

LEMMA ClientStepKeeps ==
    ASSUME SessionInv, NEW c \in Connection, ClientStep(c) \/ SocketTimesOut(c) \/ Dispose(c)
    PROVE  SessionInv'
<1>1. CASE SocketCloses(c) \/ SocketTimesOut(c)
  BY <1>1, StartLoopKeeps
<1>2. CASE WakeUp(c)
  <2>1. attempt' \in [Connection -> 0 .. MaxAttempts + 1] /\ mishaps' \in 0 .. MaxMishaps
    BY <1>2 DEF WakeUp, SessionInv, TypeOK
  <2>2. permanentFailure => gaveUp[c] \/ isDisposed[c]
    BY DEF SessionInv, HostsHaveSessions, FailureReachesAll
  <2>3. CASE permanentFailure
    BY <1>2, <2>2, <2>3, LoopStops DEF WakeUp
  <2>4. CASE ~permanentFailure
    BY <1>2, <2>1, <2>4, LoopGoesOn DEF WakeUp
  <2> QED
    BY <2>3, <2>4
<1>3. CASE Resolve(c)
  <2>1. attempt' \in [Connection -> 0 .. MaxAttempts + 1] /\ mishaps' \in 0 .. MaxMishaps
    BY <1>3 DEF Resolve, SessionInv, TypeOK
  <2> QED
    BY <1>3, <2>1, LoopGoesOn DEF Resolve
<1>4. CASE FailToResolve(c)
  BY <1>4, TryAgainKeeps, GiveUpKeeps DEF FailToResolve
<1>5. CASE Connect(c)
  BY <1>5, ConnectKeeps
<1>6. CASE TimeOut(c)
  BY <1>6, TryAgainKeeps DEF TimeOut
<1>7. CASE ReadAnswer(c)
  BY <1>7, LoopStops, GiveUpKeeps DEF ReadAnswer
<1>8. CASE Dispose(c)
  BY <1>8, DisposeKeeps
<1> QED
  BY <1>1, <1>2, <1>3, <1>4, <1>5, <1>6, <1>7, <1>8 DEF ClientStep

LEMMA ServerStepKeeps ==
    ASSUME SessionInv, NEW c \in Connection, ServerStep(c)
    PROVE  SessionInv'
<1>1. CASE HandleConnection(c)
  <2>1. PICK g \in requests[c] :
            /\ requests' = [requests EXCEPT ![c] = @ \ {g}]
            /\ \/ session[c] /\ c \in Fatal /\ AcceptReconnection(c, g)
               \/ session[c] /\ c \in Hosted /\ HandOver(c, g)
               \/ ~session[c] /\ RejectConnection(c, g)
            /\ UNCHANGED <<clientVars, farewells, mishaps>>
    BY <1>1 DEF HandleConnection
  <2>2. CASE session[c] /\ c \in Fatal /\ AcceptReconnection(c, g)
    BY <2>1, <2>2, AcceptKeeps
  <2>3. CASE c \in Hosted /\ HandOver(c, g)
    BY <2>1, <2>3, HandOverKeeps
  <2>4. CASE RejectConnection(c, g)
    BY <2>1, <2>4, RejectKeeps
  <2> QED
    BY <2>1, <2>2, <2>3, <2>4
<1>2. CASE SessionSocketCloses(c)
  <2>1. /\ disconnectRunner1' \in [Connection -> BOOLEAN]
        /\ disconnectRunner2' \in [Connection -> BOOLEAN]
    BY <1>2 DEF SessionSocketCloses, SessionInv, TypeOK
  <2>2. \A d \in Connection :
            disconnectRunner1'[d] \/ disconnectRunner2'[d] =>
                /\ session[d] /\ sessionSocket[d] \notin open[d]
                /\ d \in Hosted => hostAt[d] = "up"
    BY <1>2 DEF SessionSocketCloses, SessionInv, TypeOK, GraceOnlyWhileAway
  <2> QED
    BY <1>2, <2>1, <2>2, TimersKeep DEF SessionSocketCloses
<1>3. CASE GraceExpires(c) /\ c \in Fatal
  <2>1. CleanResources(c) /\ UNCHANGED farewells
    BY <1>3 DEF GraceExpires, Hosted
  <2>2. farewells' \in [Connection -> BOOLEAN] /\ sessionSocket[c] \notin open'[c]
    BY <2>1 DEF CleanResources, SessionInv, TypeOK
  <2>3. \A d \in Connection : farewells'[d] => farewells[d]
    BY <2>1
  <2> QED
    BY <1>3, <2>1, <2>2, <2>3, CleanResourcesKeeps
<1>4. CASE GraceExpires(c) /\ c \notin Fatal
  <2>1. c \in Hosted /\ HostTerminates(c) /\ UNCHANGED <<farewells, mishaps>> /\ hostAt[c] = "up"
    BY <1>4 DEF GraceExpires, Hosted, SessionInv, GraceOnlyWhileAway
  <2>2. mishaps' \in 0 .. MaxMishaps
    BY <2>1 DEF SessionInv, TypeOK
  <2> QED
    BY <2>1, <2>2, HostTerminatesKeeps
<1>5. CASE ReadFarewell(c) /\ session[c]
  <2>1. c \in Fatal /\ CleanResources(c)
    BY <1>5 DEF ReadFarewell, SessionInv, HostsHaveSessions
  <2>2. farewells' \in [Connection -> BOOLEAN] /\ sessionSocket[c] \notin open'[c]
    BY <1>5, <2>1 DEF ReadFarewell, CleanResources, SessionInv, TypeOK
  <2>3. \A d \in Connection : farewells'[d] => farewells[d]
    BY <1>5 DEF ReadFarewell, SessionInv, TypeOK
  <2> QED
    BY <2>1, <2>2, <2>3, CleanResourcesKeeps
<1>6. CASE ReadFarewell(c) /\ ~session[c]
  <2>1. /\ UNCHANGED <<clientVars, serverVars, open, requests, answers, mishaps>>
        /\ farewells' \in [Connection -> BOOLEAN]
        /\ \A d \in Connection : farewells'[d] => farewells[d]
    BY <1>6 DEF ReadFarewell, SessionInv, TypeOK
  <2>2. /\ open' \in [Connection -> SUBSET Socket]
        /\ requests' \in [Connection -> SUBSET Socket]
        /\ answers' \in [Connection -> SUBSET (Socket \X {"ok", "error"})]
        /\ mishaps' \in 0 .. MaxMishaps
    BY <2>1 DEF SessionInv, TypeOK
  <2> QED
    BY <2>1, <2>2, NetworkLoses
<1> QED
  BY <1>1, <1>2, <1>3, <1>4, <1>5, <1>6 DEF ServerStep

LEMMA HostStepKeeps ==
    ASSUME SessionInv, NEW c \in Hosted, HostStep(c)
    PROVE  SessionInv'
<1>1. CASE HostTakes(c)
  BY <1>1, HostTakesKeeps
<1>2. CASE HostReducesGraceTime(c)
  <2>1. /\ disconnectRunner1' \in [Connection -> BOOLEAN]
        /\ disconnectRunner2' \in [Connection -> BOOLEAN]
    BY <1>2 DEF HostReducesGraceTime, SessionInv, TypeOK
  <2>2. \A d \in Connection :
            disconnectRunner1'[d] \/ disconnectRunner2'[d] =>
                /\ session[d] /\ sessionSocket[d] \notin open[d]
                /\ d \in Hosted => hostAt[d] = "up"
    BY <1>2 DEF HostReducesGraceTime, SessionInv, TypeOK, GraceOnlyWhileAway
  <2> QED
    BY <1>2, <2>1, <2>2, TimersKeep DEF HostReducesGraceTime
<1>3. CASE HostFinishes(c)
  <2>1. HostExits(c) /\ mishaps' \in 0 .. MaxMishaps /\ hostAt[c] # "gone"
    BY <1>3 DEF HostFinishes, SessionInv, TypeOK
  <2> QED
    BY <2>1, HostExitsKeeps
<1>4. CASE HostFails(c)
  <2>1. mishaps' \in 0 .. MaxMishaps /\ hostAt[c] = "up"
    BY <1>4, ConnectionAssumption DEF HostFails, SessionInv, TypeOK
  <2>2. CASE HostExits(c)
    BY <2>1, <2>2, HostExitsKeeps
  <2>3. CASE HostTerminates(c) /\ UNCHANGED farewells
    BY <2>1, <2>3, HostTerminatesKeeps
  <2> QED
    BY <1>4, <2>2, <2>3 DEF HostFails
<1>5. CASE ServerHearsExit(c)
  BY <1>5, ServerHearsExitKeeps
<1>6. CASE HandoverFails(c)
  BY <1>6, HandoverFailsKeeps
<1> QED
  BY <1>1, <1>2, <1>3, <1>4, <1>5, <1>6 DEF HostStep

LEMMA NextKeepsSessions == SessionInv /\ [Next]_vars => SessionInv'
<1> SUFFICES ASSUME SessionInv, [Next]_vars PROVE SessionInv'
  OBVIOUS
<1>1. ASSUME NEW c \in Connection, ClientStep(c) \/ SocketTimesOut(c) \/ Dispose(c)
      PROVE  SessionInv'
  BY <1>1, ClientStepKeeps
<1>2. ASSUME NEW c \in Connection, ServerStep(c)
      PROVE  SessionInv'
  BY <1>2, ServerStepKeeps
<1>3. ASSUME NEW c \in Connection, Break(c)
      PROVE  SessionInv'
  <2>1. /\ open' \in [Connection -> SUBSET Socket]
        /\ requests' \in [Connection -> SUBSET Socket]
        /\ answers' \in [Connection -> SUBSET (Socket \X {"ok", "error"})]
        /\ farewells' \in [Connection -> BOOLEAN]
        /\ mishaps' \in 0 .. MaxMishaps
    BY <1>3, ConnectionAssumption DEF Break, SessionInv, TypeOK
  <2>2. \A d \in Connection :
            /\ open'[d] \subseteq open[d] /\ requests'[d] = requests[d]
            /\ answers'[d] = answers[d] /\ farewells'[d] = farewells[d]
    BY <1>3 DEF Break, SessionInv, TypeOK
  <2> QED
    BY <1>3, <2>1, <2>2, NetworkLoses DEF Break
<1>4. ASSUME NEW c \in Connection, LoseClosed(c)
      PROVE  SessionInv'
  <2>1. PICK g \in Socket \ open[c] :
            /\ requests' = [requests EXCEPT ![c] = @ \ {g}]
            /\ answers' = [answers EXCEPT ![c] = {a \in @ : a[1] # g}]
            /\ farewells' = [farewells EXCEPT ![c] = @ /\ sessionSocket[c] # g]
            /\ UNCHANGED <<clientVars, serverVars, open, mishaps>>
    BY <1>4 DEF LoseClosed
  <2>2. /\ open' \in [Connection -> SUBSET Socket]
        /\ requests' \in [Connection -> SUBSET Socket]
        /\ answers' \in [Connection -> SUBSET (Socket \X {"ok", "error"})]
        /\ farewells' \in [Connection -> BOOLEAN]
        /\ mishaps' \in 0 .. MaxMishaps
    BY <2>1 DEF SessionInv, TypeOK
  <2>3. \A d \in Connection :
            /\ open'[d] = open[d] /\ requests'[d] \subseteq requests[d]
            /\ answers'[d] \subseteq answers[d] /\ (farewells'[d] => farewells[d])
    BY <2>1 DEF SessionInv, TypeOK
  <2> QED
    BY <2>1, <2>2, <2>3, NetworkLoses
<1>5. ASSUME OtherClientConnects
      PROVE  SessionInv'
  <2>1. /\ disconnectRunner1' \in [Connection -> BOOLEAN]
        /\ disconnectRunner2' \in [Connection -> BOOLEAN]
    BY <1>5, ShortenedCountsTheSame DEF OtherClientConnects, SessionInv, TypeOK
  <2>2. \A d \in Connection :
            disconnectRunner1'[d] \/ disconnectRunner2'[d] =>
                /\ session[d] /\ sessionSocket[d] \notin open[d]
                /\ d \in Hosted => hostAt[d] = "up"
    BY <1>5, ShortenedCountsTheSame DEF OtherClientConnects, SessionInv, GraceOnlyWhileAway
  <2> QED
    BY <1>5, <2>1, <2>2, TimersKeep DEF OtherClientConnects
<1>6. ASSUME NEW c \in Hosted, HostStep(c)
      PROVE  SessionInv'
  BY <1>6, HostStepKeeps
<1>7. ASSUME UNCHANGED vars
      PROVE  SessionInv'
  <2>1. UNCHANGED <<clientVars, serverVars, netVars, mishaps>>
    BY <1>7 DEF vars
  <2>2. TypeOK'
    BY <2>1 DEF SessionInv, TypeOK, clientVars, socketVars, serverVars, hostVars, netVars
  <2> QED
    BY <2>1, <2>2 DEF SessionInv, GraceOnlyWhileAway, ConnectedMeansServed, Served, OnItsWay, Sockets, AnswersAreKept,
                      HostsHaveSessions, FailureReachesAll, clientVars, socketVars, serverVars, hostVars, netVars
<1> QED
  BY <1>1, <1>2, <1>3, <1>4, <1>5, <1>6, <1>7 DEF Next

\* What the server has of a connection fits what its client is doing, whatever
\* order reconnections, time-outs, broken sockets and other clients come in
\* (remoteExtensionManagement.ts, remoteAgentConnection.ts).
THEOREM SessionsFit == Spec => []SessionsFitTheirClients
<1>1. SessionInv => SessionsFitTheirClients
  BY DEF SessionInv, SessionsFitTheirClients
<1> QED
  BY <1>1, InitSessions, NextKeepsSessions, PTL DEF Spec

----------------------------------------------------------------------------
(* The storage shared by the windows.                                      *)

\* What is on its way to a window.
ToWindow ==
    [is : {"items"}, items : Items] \cup [is : {"done"}] \cup [is : {"changed"}, items : Updates]

SharedTyped ==
    /\ main \in Items /\ noted \subseteq Keys /\ listening \subseteq Windows
    /\ cache \in [Windows -> Items]
    /\ pending \in [Windows -> Updates] /\ wrote \in [Windows -> Updates]
    /\ state \in [Windows -> {"new", "opening", "open", "closing", "closed"}]
    /\ updating \in [Windows -> BOOLEAN]
    /\ changes \in 0 .. MaxChanges
    /\ toMain = [w \in Windows |-> toMain[w]]
    /\ toWindow \in [Windows -> Seq(ToWindow)]

\* There is a message of that kind; there is one at most.
Has(messages, what) == \E i \in DOMAIN messages : messages[i].is = what
Once(messages, what) ==
    \A i, j \in DOMAIN messages : messages[i].is = what /\ messages[j].is = what => i = j

\* A message may tell a window the value of a key; the last one that does tells v.
Tells(message, k) == message.is = "items" \/ (message.is = "changed" /\ message.items[k] # Same)
Untold(messages, k) == \A i \in DOMAIN messages : ~ Tells(messages[i], k)
LastTells(messages, k, v) ==
    \A i \in DOMAIN messages :
        Tells(messages[i], k) /\ (\A j \in DOMAIN messages : j > i => ~ Tells(messages[j], k))
        => messages[i].items[k] = v

\* What a window has sent, which has not arrived.
ListenCall == [do |-> "listen"]
ItemsCall == [do |-> "getItems"]
UnlistenCall == [do |-> "unlisten"]
UpdateCall(update) == [do |-> "updateItems", items |-> update]
Sends(w, update) == toMain[w] = <<UpdateCall(update)>>
Sending(w) == \E u \in Updates : Sends(w, u)

\* How far a window is shows in what it has sent.
Stages(w) ==
    /\ state[w] = "new" => w \notin listening /\ toMain[w] = <<>> /\ toWindow[w] = <<>>
    /\ state[w] = "opening" =>
           \/ w \notin listening /\ toMain[w] = <<ListenCall, ItemsCall>> /\ toWindow[w] = <<>>
           \/ w \in listening /\ toMain[w] \in {<<ItemsCall>>, <<>>}
    /\ state[w] \in {"open", "closing"} => w \in listening /\ (toMain[w] = <<>> \/ Sending(w))
    /\ state[w] = "closed" => toMain[w] \in {<<>>, <<UnlistenCall>>}
    /\ state[w] \notin {"open", "closing"} => pending[w] = Nothing /\ ~ updating[w]

\* The items come once, to a window that has asked for them.
ItemsComeOnce(w) ==
    /\ Once(toWindow[w], "items")
    /\ Has(toWindow[w], "items") => state[w] = "opening" /\ toMain[w] = <<>>

\* An update is under way, or else its answer.
AnsweredOnce(w) ==
    /\ Once(toWindow[w], "done")
    /\ Has(toWindow[w], "done") => updating[w] /\ ~ Sending(w)
    /\ Sending(w) => updating[w]
    /\ updating[w] => Sending(w) \/ Has(toWindow[w], "done")

WindowOK(w) == Stages(w) /\ ItemsComeOnce(w) /\ AnsweredOnce(w)

\* The main process will hear of a value v for k.
WillHear(w, k, v) ==
    /\ v # Same
    /\ pending[w][k] = v \/ \E u \in Updates : Sends(w, u) /\ u[k] = v

\* What a window holds that is not told of k is the value in the main process,
\* unless it sets that to another one.
HoldsMain(w, k) ==
    Untold(toWindow[w], k) => cache[w][k] = main[k] \/ \E v \in Values \cup {None} : WillHear(w, k, v) /\ v # main[k]

\* What the main process will hear last is what the window wrote last.
HearsTheLast(w, k) ==
    /\ pending[w][k] # Same => pending[w][k] = wrote[w][k]
    /\ pending[w][k] = Same => \A u \in Updates : Sends(w, u) /\ u[k] # Same => u[k] = wrote[w][k]

\* Unless the main process has noted that it must tell a new value.
KeyOK(w, k) ==
    /\ w \in listening /\ k \notin noted => LastTells(toWindow[w], k, main[k])
    /\ state[w] = "open" /\ k \notin noted => HoldsMain(w, k)
    /\ HearsTheLast(w, k)

\* A key that was written has the last value of a writer, or will get another.
WrittenOrHeard(k) ==
    (\E w \in Windows : wrote[w][k] # Same) =>
        \/ \E w \in Windows : wrote[w][k] = main[k]
        \/ \E w \in Windows, v \in Values \cup {None} : WillHear(w, k, v)

SharedInv ==
    /\ SharedTyped
    /\ \A w \in Windows : WindowOK(w)
    /\ \A w \in Windows, k \in Keys : KeyOK(w, k)
    /\ \A k \in Keys : WrittenOrHeard(k)

\* What sequences of messages tell, when one is added and when the first is taken.
LEMMA MessagesAre ==
    ASSUME NEW ms \in Seq(ToWindow)
    PROVE  /\ Len(ms) \in Nat /\ DOMAIN ms = 1 .. Len(ms)
           /\ \A i \in DOMAIN ms : i \in Nat /\ ms[i] \in ToWindow
<1>1. Len(ms) \in Nat /\ DOMAIN ms = 1 .. Len(ms)
  BY LenProperties
<1>. QED  BY <1>1, ElementOfSeq

LEMMA MessageAdded ==
    ASSUME NEW ms \in Seq(ToWindow), NEW m \in ToWindow
    PROVE  LET new == Append(ms, m) IN
           /\ new \in Seq(ToWindow)
           /\ \A what : Has(new, what) <=> Has(ms, what) \/ m.is = what
           /\ \A what : Once(ms, what) /\ (m.is = what => ~ Has(ms, what)) => Once(new, what)
           /\ \A k : Untold(new, k) => Untold(ms, k) /\ ~ Tells(m, k)
           /\ \A k, v : Tells(m, k) /\ m.items[k] = v => LastTells(new, k, v)
           /\ \A k, v : ~ Tells(m, k) /\ LastTells(ms, k, v) => LastTells(new, k, v)
<1>. DEFINE new == Append(ms, m)
            n == Len(ms)
<1>1. n \in Nat /\ DOMAIN ms = 1 .. n
  BY MessagesAre
<1>2. /\ new \in Seq(ToWindow) /\ Len(new) = n + 1
      /\ \A i \in 1 .. n : new[i] = ms[i]
      /\ new[n + 1] = m
  BY AppendProperties
<1>3. DOMAIN new = 1 .. n + 1
  BY <1>1, <1>2, LenProperties
<1>4. /\ \A i \in DOMAIN new : i \in Nat /\ (i = n + 1 \/ (i \in DOMAIN ms /\ i < n + 1))
      /\ \A i \in DOMAIN ms : i \in DOMAIN new /\ i \in Nat /\ i < n + 1 /\ new[i] = ms[i]
      /\ n + 1 \in DOMAIN new /\ n + 1 \in Nat /\ n + 1 \notin DOMAIN ms
  BY <1>1, <1>2, <1>3
<1>5. new[n + 1] = m /\ new \in Seq(ToWindow)
  BY <1>2
<1>. DEFINE last == n + 1
<1>6. /\ \A i \in DOMAIN new : i \in Nat /\ (i = last \/ (i \in DOMAIN ms /\ i < last))
      /\ \A i \in DOMAIN ms : i \in DOMAIN new /\ i \in Nat /\ i < last /\ new[i] = ms[i]
      /\ last \in DOMAIN new /\ last \in Nat /\ last \notin DOMAIN ms /\ new[last] = m
  BY <1>4, <1>5
<1>. HIDE DEF new, n, last
<1>7. \A what : Has(new, what) <=> Has(ms, what) \/ m.is = what
  BY <1>6 DEF Has
<1>8. \A what : Once(ms, what) /\ (m.is = what => ~ Has(ms, what)) => Once(new, what)
  BY <1>6 DEF Has, Once
<1>9. \A k : Untold(new, k) => Untold(ms, k) /\ ~ Tells(m, k)
  <2>. HIDE DEF Tells
  <2>. QED  BY <1>6 DEF Untold
<1>10. ASSUME NEW k, NEW v, Tells(m, k), m.items[k] = v
       PROVE  LastTells(new, k, v)
  <2>1. ASSUME NEW i \in DOMAIN new, \A j \in DOMAIN new : j > i => ~ Tells(new[j], k)
        PROVE  i = last
    BY <1>6, <1>10, <2>1
  <2>. QED  BY <1>6, <1>10, <2>1 DEF LastTells
<1>11. ASSUME NEW k, NEW v, ~ Tells(m, k), LastTells(ms, k, v)
       PROVE  LastTells(new, k, v)
  <2>1. ASSUME NEW i \in DOMAIN new, Tells(new[i], k), \A j \in DOMAIN new : j > i => ~ Tells(new[j], k)
        PROVE  new[i].items[k] = v
    <3>1. i # last
      BY <1>6, <1>11, <2>1
    <3>2. i \in DOMAIN ms /\ new[i] = ms[i]
      BY <1>6, <3>1
    <3>3. \A j \in DOMAIN ms : j > i => ~ Tells(ms[j], k)
      BY <1>6, <2>1
    <3>. QED  BY <1>11, <2>1, <3>2, <3>3 DEF LastTells
  <2>. QED  BY <2>1 DEF LastTells
<1>. QED  BY <1>5, <1>7, <1>8, <1>9, <1>10, <1>11 DEF new

LEMMA MessageTaken ==
    ASSUME NEW ms \in Seq(ToWindow), ms # <<>>
    PROVE  LET rest == Tail(ms)
               m == Head(ms)
           IN
           /\ rest \in Seq(ToWindow) /\ m \in ToWindow
           /\ \A what : Has(ms, what) <=> Has(rest, what) \/ m.is = what
           /\ \A what : Once(ms, what) => Once(rest, what) /\ (m.is = what => ~ Has(rest, what))
           /\ \A k, v : LastTells(ms, k, v) => LastTells(rest, k, v)
           /\ \A k, v : LastTells(ms, k, v) /\ Untold(rest, k) /\ Tells(m, k) => m.items[k] = v
           /\ \A k : Untold(rest, k) /\ ~ Tells(m, k) => Untold(ms, k)
<1>. DEFINE rest == Tail(ms)
            m == Head(ms)
            n == Len(ms)
<1>1. n \in Nat /\ DOMAIN ms = 1 .. n /\ \A i \in DOMAIN ms : i \in Nat /\ ms[i] \in ToWindow
  BY MessagesAre
<1>2. n # 0
  BY EmptySeq
<1>3. /\ m = ms[1] /\ rest \in Seq(ToWindow) /\ Len(rest) = n - 1
      /\ \A i \in 1 .. n - 1 : rest[i] = ms[i + 1]
  BY HeadTailProperties
<1>4. DOMAIN rest = 1 .. n - 1
  BY <1>3, LenProperties
<1>5. /\ \A i \in DOMAIN rest : i \in Nat /\ i + 1 \in DOMAIN ms /\ i + 1 # 1 /\ rest[i] = ms[i + 1]
      /\ \A i \in DOMAIN ms : i \in Nat /\ i >= 1 /\ (i # 1 => i - 1 \in DOMAIN rest /\ rest[i - 1] = ms[i])
      /\ 1 \in DOMAIN ms /\ ms[1] = m
  BY <1>1, <1>2, <1>3, <1>4
<1>6. rest \in Seq(ToWindow) /\ m \in ToWindow
  BY <1>1, <1>3, <1>5
<1>. HIDE DEF rest, m, n
<1>7. \A what : Has(ms, what) <=> Has(rest, what) \/ m.is = what
  BY <1>5 DEF Has
<1>8. ASSUME NEW what, Once(ms, what)
      PROVE  Once(rest, what) /\ (m.is = what => ~ Has(rest, what))
  <2>1. \A i, j \in DOMAIN rest : rest[i].is = what /\ rest[j].is = what => i + 1 = j + 1
    BY <1>5, <1>8 DEF Once
  <2>2. Once(rest, what)
    <3>1. ASSUME NEW i \in DOMAIN rest, NEW j \in DOMAIN rest, rest[i].is = what, rest[j].is = what
          PROVE  i = j
      <4>1. i + 1 = j + 1 /\ i \in Nat /\ j \in Nat
        BY <1>5, <2>1, <3>1
      <4>. QED  BY <4>1
    <3>. QED  BY <3>1 DEF Once
  <2>3. ASSUME m.is = what, NEW i \in DOMAIN rest, rest[i].is = what
        PROVE  FALSE
    BY <1>5, <1>8, <2>3 DEF Once
  <2>. QED  BY <2>2, <2>3 DEF Has
<1>9. ASSUME NEW k, NEW v, LastTells(ms, k, v)
      PROVE  LastTells(rest, k, v)
  <2>1. ASSUME NEW i \in DOMAIN rest, Tells(rest[i], k), \A j \in DOMAIN rest : j > i => ~ Tells(rest[j], k)
        PROVE  rest[i].items[k] = v
    <3>1. i + 1 \in DOMAIN ms /\ rest[i] = ms[i + 1] /\ i \in Nat
      BY <1>5
    <3>2. ASSUME NEW j \in DOMAIN ms, j > i + 1
          PROVE  ~ Tells(ms[j], k)
      <4>0. i \in Nat /\ j \in Nat /\ j > i + 1
        BY <1>5, <3>2
      <4>1. j \in Nat /\ j - 1 > i /\ j # 1
        BY <4>0
      <4>2. j - 1 \in DOMAIN rest /\ rest[j - 1] = ms[j]
        BY <1>5, <4>1
      <4>. QED  BY <2>1, <4>1, <4>2
    <3>. QED  BY <1>9, <2>1, <3>1, <3>2 DEF LastTells
  <2>. QED  BY <2>1 DEF LastTells
<1>10. ASSUME NEW k, NEW v, LastTells(ms, k, v), Untold(rest, k), Tells(m, k)
       PROVE  m.items[k] = v
  <2>1. ASSUME NEW j \in DOMAIN ms, j > 1
        PROVE  ~ Tells(ms[j], k)
    <3>1. j - 1 \in DOMAIN rest /\ rest[j - 1] = ms[j]
      BY <1>5, <2>1
    <3>. QED  BY <1>10, <3>1 DEF Untold
  <2>. QED  BY <1>5, <1>10, <2>1 DEF LastTells
<1>11. ASSUME NEW k, Untold(rest, k), ~ Tells(m, k)
       PROVE  Untold(ms, k)
  <2>1. ASSUME NEW j \in DOMAIN ms
        PROVE  ~ Tells(ms[j], k)
    <3>1. CASE j = 1
      BY <1>5, <1>11, <3>1
    <3>2. CASE j # 1
      <4>1. j - 1 \in DOMAIN rest /\ rest[j - 1] = ms[j]
        BY <1>5, <3>2
      <4>. QED  BY <1>11, <4>1 DEF Untold
    <3>. QED  BY <3>1, <3>2
  <2>. QED  BY <2>1 DEF Untold
<1>. QED  BY <1>6, <1>7, <1>8, <1>9, <1>10, <1>11 DEF rest, m

LEMMA NoMessages ==
    /\ <<>> \in Seq(ToWindow)
    /\ \A what : ~ Has(<<>>, what) /\ Once(<<>>, what)
    /\ \A k, v : LastTells(<<>>, k, v)
  BY DEF Has, Once, LastTells

\* What the other windows hold, have sent and are told stays.
Untouched(x) ==
    /\ cache'[x] = cache[x] /\ pending'[x] = pending[x] /\ wrote'[x] = wrote[x]
    /\ state'[x] = state[x] /\ updating'[x] = updating[x]
    /\ toMain'[x] = toMain[x] /\ toWindow'[x] = toWindow[x]
    /\ x \in listening' <=> x \in listening

\* The main process has no new value that it has not noted.
NothingNew == \A k \in Keys : k \notin noted' => k \notin noted /\ main'[k] = main[k]

LEMMA OtherWindowOK ==
    ASSUME NEW x, Untouched(x), WindowOK(x)
    PROVE  WindowOK(x)'
<1>1. Sending(x)' <=> Sending(x)
  BY DEF Untouched, Sending, Sends
<1>2. Stages(x)'
  BY <1>1 DEF Untouched, WindowOK, Stages
<1>3. ItemsComeOnce(x)' /\ AnsweredOnce(x)'
  BY <1>1 DEF Untouched, WindowOK, ItemsComeOnce, AnsweredOnce
<1>. QED  BY <1>2, <1>3 DEF WindowOK

LEMMA OtherKeyOK ==
    ASSUME NEW x, NEW k \in Keys, Untouched(x), NothingNew, KeyOK(x, k)
    PROVE  KeyOK(x, k)'
<1>1. HearsTheLast(x, k)'
  BY DEF Untouched, KeyOK, HearsTheLast, Sends
<1>2. \A v : WillHear(x, k, v) => WillHear(x, k, v)'
  BY DEF Untouched, WillHear, Sends
<1>3. k \notin noted' => k \notin noted /\ main'[k] = main[k]
  BY DEF NothingNew
<1>4. x \in listening' /\ k \notin noted' => LastTells(toWindow'[x], k, main'[k])
  BY <1>3 DEF Untouched, KeyOK
<1>5. state'[x] = "open" /\ k \notin noted' => HoldsMain(x, k)'
  BY <1>2, <1>3 DEF Untouched, KeyOK, HoldsMain
<1>. QED  BY <1>1, <1>4, <1>5 DEF KeyOK

\* What was written stays so while the main process will hear no less.
LEMMA WrittenStays ==
    ASSUME NEW k, WrittenOrHeard(k), wrote' = wrote, main' = main,
           \A w \in Windows : \A v : WillHear(w, k, v) => WillHear(w, k, v)'
    PROVE  WrittenOrHeard(k)'
  BY DEF WrittenOrHeard

LEMMA HeardStays ==
    ASSUME NEW w, NEW k, pending'[w] = pending[w], \A u \in Updates : Sends(w, u) => Sends(w, u)'
    PROVE  \A v : WillHear(w, k, v) => WillHear(w, k, v)'
  BY DEF WillHear

\* A step of window w, and what is left to show of it.
LEMMA OneWindowMoves ==
    ASSUME SharedInv, SharedTyped', NothingNew, NEW w \in Windows,
           \A x \in Windows : x # w => Untouched(x),
           WindowOK(w)', \A k \in Keys : KeyOK(w, k)' /\ WrittenOrHeard(k)'
    PROVE  SharedInv'
<1>1. \A x \in Windows : WindowOK(x)'
  BY OtherWindowOK DEF SharedInv
<1>2. \A x \in Windows, k \in Keys : KeyOK(x, k)'
  BY OtherKeyOK DEF SharedInv
<1>. QED  BY <1>1, <1>2 DEF SharedInv

\* What is sent.
LEMMA Calls ==
    /\ \A u, v \in Updates : <<UpdateCall(u)>> = <<UpdateCall(v)>> => u = v
    /\ \A u : /\ Head(<<UpdateCall(u)>>) = UpdateCall(u) /\ Tail(<<UpdateCall(u)>>) = <<>>
              /\ <<UpdateCall(u)>> # <<>> /\ <<UpdateCall(u)>> # <<UnlistenCall>>
              /\ <<UpdateCall(u)>> # <<ItemsCall>> /\ <<UpdateCall(u)>> # <<ListenCall, ItemsCall>>
              /\ UpdateCall(u).do = "updateItems" /\ UpdateCall(u).items = u
    /\ Head(<<ListenCall, ItemsCall>>) = ListenCall /\ Tail(<<ListenCall, ItemsCall>>) = <<ItemsCall>>
    /\ Head(<<ItemsCall>>) = ItemsCall /\ Tail(<<ItemsCall>>) = <<>>
    /\ Head(<<UnlistenCall>>) = UnlistenCall /\ Tail(<<UnlistenCall>>) = <<>>
    /\ ListenCall.do = "listen" /\ ItemsCall.do = "getItems" /\ UnlistenCall.do = "unlisten"
    /\ <<ItemsCall>> # <<>> /\ <<UnlistenCall>> # <<>> /\ <<ListenCall, ItemsCall>> # <<>>
<1>1. ASSUME NEW u, NEW v, <<UpdateCall(u)>> = <<UpdateCall(v)>>
      PROVE  u = v
  <2>1. UpdateCall(u) = UpdateCall(v)
    BY <1>1
  <2>2. UpdateCall(u).items = u /\ UpdateCall(v).items = v
    BY DEF UpdateCall
  <2>. QED  BY <2>1, <2>2
<1>2. ASSUME NEW u
      PROVE  /\ Head(<<UpdateCall(u)>>) = UpdateCall(u) /\ Tail(<<UpdateCall(u)>>) = <<>>
             /\ <<UpdateCall(u)>> # <<>>
             /\ UpdateCall(u).do = "updateItems" /\ UpdateCall(u).items = u
  BY DEF UpdateCall
<1>3. /\ Head(<<ListenCall, ItemsCall>>) = ListenCall /\ Tail(<<ListenCall, ItemsCall>>) = <<ItemsCall>>
      /\ Head(<<ItemsCall>>) = ItemsCall /\ Tail(<<ItemsCall>>) = <<>>
      /\ Head(<<UnlistenCall>>) = UnlistenCall /\ Tail(<<UnlistenCall>>) = <<>>
      /\ ListenCall.do = "listen" /\ ItemsCall.do = "getItems" /\ UnlistenCall.do = "unlisten"
      /\ <<ItemsCall>> # <<>> /\ <<UnlistenCall>> # <<>> /\ <<ListenCall, ItemsCall>> # <<>>
  BY DEF ListenCall, ItemsCall, UnlistenCall
<1>4. ASSUME NEW u
      PROVE  /\ <<UpdateCall(u)>> # <<UnlistenCall>>
             /\ <<UpdateCall(u)>> # <<ItemsCall>> /\ <<UpdateCall(u)>> # <<ListenCall, ItemsCall>>
  <2>. HIDE DEF UpdateCall, ListenCall, ItemsCall, UnlistenCall
  <2>. QED  BY <1>2, <1>3
<1>. QED  BY <1>1, <1>2, <1>3, <1>4

LEMMA NotSending ==
    ASSUME NEW w, toMain[w] \in {<<>>, <<ItemsCall>>, <<ListenCall, ItemsCall>>, <<UnlistenCall>>}
    PROVE  ~ Sending(w) /\ \A u : ~ Sends(w, u)
  BY Calls DEF Sending, Sends

LEMMA NothingIsUpdate ==
    /\ Nothing \in Updates /\ NoItems \in Items
    /\ \A k \in Keys : Nothing[k] = Same /\ NoItems[k] = None
    /\ Same \notin Values \cup {None}
  BY SharedAssumption DEF Nothing, Updates, NoItems, Items

LEMMA UpdatedTyped ==
    ASSUME NEW items \in Items, NEW u \in Updates
    PROVE  /\ Updated(items, u) \in Items
           /\ \A k \in Keys : Updated(items, u)[k] = IF u[k] = Same THEN items[k] ELSE u[k]
<1>1. \A k \in Keys : items[k] \in Values \cup {None} /\ u[k] \in Values \cup {None, Same}
  BY DEF Items, Updates
<1>2. \A k \in Keys : (IF u[k] = Same THEN items[k] ELSE u[k]) \in Values \cup {None}
  BY <1>1
<1>. QED  BY <1>2 DEF Updated, Items

LEMMA SharedInitInv == SharedInit => SharedInv
<1>. SUFFICES ASSUME SharedInit
              PROVE  SharedInv
  OBVIOUS
<1>1. \A w \in Windows : /\ w \notin listening /\ state[w] = "new" /\ toMain[w] = <<>> /\ toWindow[w] = <<>>
                         /\ pending[w] = Nothing /\ wrote[w] = Nothing /\ updating[w] = FALSE
  BY DEF SharedInit
<1>2. SharedTyped
  <2>1. /\ main \in Items /\ noted = {} /\ listening = {} /\ changes = 0
        /\ cache = [w \in Windows |-> NoItems] /\ pending = [w \in Windows |-> Nothing]
        /\ wrote = [w \in Windows |-> Nothing] /\ state = [w \in Windows |-> "new"]
        /\ updating = [w \in Windows |-> FALSE]
        /\ toMain = [w \in Windows |-> <<>>] /\ toWindow = [w \in Windows |-> <<>>]
    BY DEF SharedInit
  <2>2. Nothing \in Updates /\ NoItems \in Items
    BY NothingIsUpdate
  <2>3. 0 \in 0 .. MaxChanges
    BY SharedAssumption
  <2>4. toMain = [w \in Windows |-> toMain[w]] /\ toWindow \in [Windows -> Seq(ToWindow)]
    BY <2>1, NoMessages
  <2>. HIDE DEF Nothing, NoItems, Updates, Items
  <2>. QED  BY <2>1, <2>2, <2>3, <2>4 DEF SharedTyped
<1>3. ASSUME NEW w \in Windows
      PROVE  WindowOK(w)
  BY <1>1, NotSending, NoMessages DEF WindowOK, Stages, ItemsComeOnce, AnsweredOnce
<1>4. ASSUME NEW w \in Windows, NEW k \in Keys
      PROVE  KeyOK(w, k)
  <2>1. pending[w][k] = Same
    BY <1>1, NothingIsUpdate
  <2>2. \A u \in Updates : ~ Sends(w, u)
    BY <1>1, NotSending
  <2>. QED  BY <1>1, <2>1, <2>2 DEF KeyOK, HearsTheLast
<1>5. ASSUME NEW k \in Keys
      PROVE  WrittenOrHeard(k)
  BY <1>1, NothingIsUpdate DEF WrittenOrHeard
<1>. QED  BY <1>2, <1>3, <1>4, <1>5 DEF SharedInv

LEMMA NothingIsWritten ==
    ASSUME SharedInv, NEW w \in Windows, \A x \in Windows : x # w => Untouched(x),
           wrote' = wrote, main' = main, \A k, v : WillHear(w, k, v) => WillHear(w, k, v)'
    PROVE  \A k \in Keys : WrittenOrHeard(k)'
<1>1. ASSUME NEW x \in Windows, NEW k, NEW v, WillHear(x, k, v)
      PROVE  WillHear(x, k, v)'
  <2>1. CASE x = w
    BY <1>1, <2>1
  <2>2. CASE x # w
    BY <1>1, <2>2 DEF Untouched, WillHear, Sends
  <2>. QED  BY <2>1, <2>2
<1>2. ASSUME NEW k \in Keys
      PROVE  WrittenOrHeard(k)'
  <2>1. WrittenOrHeard(k)
    BY DEF SharedInv
  <2>. QED  BY <1>1, <2>1, WrittenStays
<1>. QED  BY <1>2

\* What is known of one window.
LEMMA OfWindow ==
    ASSUME SharedInv, NEW w \in Windows
    PROVE  /\ SharedTyped /\ Stages(w) /\ ItemsComeOnce(w) /\ AnsweredOnce(w)
           /\ toWindow[w] \in Seq(ToWindow) /\ pending[w] \in Updates /\ wrote[w] \in Updates /\ cache[w] \in Items
           /\ state[w] \in {"new", "opening", "open", "closing", "closed"} /\ updating[w] \in BOOLEAN
           /\ \A k \in Keys : KeyOK(w, k)
  BY DEF SharedInv, SharedTyped, WindowOK

LEMMA OpenKeeps ==
    ASSUME SharedInv, NEW w \in Windows, Open(w)
    PROVE  SharedInv'
<1>1. /\ SharedTyped /\ Stages(w) /\ ItemsComeOnce(w) /\ AnsweredOnce(w) /\ \A k \in Keys : KeyOK(w, k)
  BY OfWindow
<1>2. /\ state[w] = "new" /\ w \notin listening /\ toMain[w] = <<>> /\ toWindow[w] = <<>>
      /\ pending[w] = Nothing /\ ~ updating[w]
  BY <1>1 DEF Open, Stages
<1>3. /\ state' = [state EXCEPT ![w] = "opening"]
      /\ toMain' = [toMain EXCEPT ![w] = @ \o <<ListenCall, ItemsCall>>]
      /\ UNCHANGED <<mainVars, cache, pending, updating, toWindow, changes, wrote>>
  BY DEF Open, ListenCall, ItemsCall
<1>4. toMain'[w] = <<ListenCall, ItemsCall>> /\ state'[w] = "opening"
  <2>1. <<>> \o <<ListenCall, ItemsCall>> = <<ListenCall, ItemsCall>>
    OBVIOUS
  <2>2. toMain = [x \in Windows |-> toMain[x]] /\ state \in [Windows -> {"new", "opening", "open", "closing", "closed"}]
    BY <1>1 DEF SharedTyped
  <2>. QED  BY <1>2, <1>3, <2>1, <2>2
<1>5. SharedTyped'
  BY <1>1, <1>3 DEF SharedTyped, mainVars
<1>6. \A x \in Windows : x # w => Untouched(x)
  BY <1>1, <1>3 DEF SharedTyped, Untouched, mainVars
<1>7. ~ Sending(w)' /\ (\A u : ~ Sends(w, u)') /\ (\A u : ~ Sends(w, u))
  BY <1>2, <1>4, Calls DEF Sending, Sends
<1>8. WindowOK(w)'
  BY <1>1, <1>2, <1>3, <1>4, <1>7, NoMessages DEF WindowOK, Stages, ItemsComeOnce, AnsweredOnce, mainVars
<1>9. \A k \in Keys : KeyOK(w, k)'
  BY <1>1, <1>2, <1>3, <1>4, <1>7, NothingIsUpdate DEF KeyOK, HearsTheLast, mainVars
<1>10. \A k \in Keys : WrittenOrHeard(k)'
  <2>1. \A k, v : WillHear(w, k, v) => WillHear(w, k, v)'
    BY <1>3, <1>7 DEF WillHear
  <2>. QED  BY <1>3, <1>6, <2>1, NothingIsWritten DEF mainVars
<1>11. NothingNew
  BY <1>3 DEF NothingNew, mainVars
<1>. QED  BY <1>5, <1>6, <1>8, <1>9, <1>10, <1>11, OneWindowMoves

LEMMA SetKeeps ==
    ASSUME SharedInv, NEW w \in Windows, NEW key \in Keys, NEW value \in Values \cup {None}, Set(w, key, value)
    PROVE  SharedInv'
<1>1. /\ SharedTyped /\ Stages(w) /\ ItemsComeOnce(w) /\ AnsweredOnce(w) /\ \A k \in Keys : KeyOK(w, k)
      /\ pending[w] \in Updates /\ wrote[w] \in Updates /\ cache[w] \in Items
  BY OfWindow
<1>2. /\ state[w] = "open" /\ changes < MaxChanges /\ changes' = changes + 1
      /\ cache' = [cache EXCEPT ![w][key] = value]
      /\ pending' = [pending EXCEPT ![w][key] = value]
      /\ wrote' = [wrote EXCEPT ![w][key] = value]
      /\ UNCHANGED <<mainVars, state, updating, toMain, toWindow>>
  BY DEF Set
<1>3. /\ cache'[w] = [cache[w] EXCEPT ![key] = value]
      /\ pending'[w] = [pending[w] EXCEPT ![key] = value]
      /\ wrote'[w] = [wrote[w] EXCEPT ![key] = value]
      /\ \A x \in Windows : x # w => cache'[x] = cache[x] /\ pending'[x] = pending[x] /\ wrote'[x] = wrote[x]
  BY <1>1, <1>2 DEF SharedTyped
<1>4. value # Same
  BY NothingIsUpdate
<1>5. SharedTyped'
  <2>1. cache'[w] \in Items /\ pending'[w] \in Updates /\ wrote'[w] \in Updates
    BY <1>1, <1>3 DEF Items, Updates
  <2>2. cache' \in [Windows -> Items] /\ pending' \in [Windows -> Updates] /\ wrote' \in [Windows -> Updates]
    BY <1>1, <1>2, <1>3, <2>1 DEF SharedTyped
  <2>3. changes' \in 0 .. MaxChanges
    BY <1>1, <1>2, SharedAssumption DEF SharedTyped
  <2>. QED  BY <1>1, <1>2, <2>2, <2>3 DEF SharedTyped, mainVars
<1>6. \A x \in Windows : x # w => Untouched(x)
  BY <1>2, <1>3 DEF Untouched, mainVars
<1>7. WindowOK(w)'
  <2>1. Sending(w)' <=> Sending(w)
    BY <1>2 DEF Sending, Sends
  <2>. QED  BY <1>1, <1>2, <2>1 DEF WindowOK, Stages, ItemsComeOnce, AnsweredOnce, mainVars
<1>8. \A k \in Keys : /\ cache'[w][k] = IF k = key THEN value ELSE cache[w][k]
                      /\ pending'[w][k] = IF k = key THEN value ELSE pending[w][k]
                      /\ wrote'[w][k] = IF k = key THEN value ELSE wrote[w][k]
  BY <1>1, <1>3 DEF Items, Updates
<1>9. WillHear(w, key, value)'
  BY <1>4, <1>8 DEF WillHear
<1>10. ASSUME NEW k \in Keys
       PROVE  KeyOK(w, k)'
  <2>1. KeyOK(w, k)
    BY <1>1
  <2>2. HearsTheLast(w, k)'
    BY <1>2, <1>4, <1>8, <2>1 DEF KeyOK, HearsTheLast, Sends
  <2>3. w \in listening' /\ k \notin noted' => LastTells(toWindow'[w], k, main'[k])
    BY <1>2, <2>1 DEF KeyOK, mainVars
  <2>4. state'[w] = "open" /\ k \notin noted' => HoldsMain(w, k)'
    <3>1. CASE k = key
      <4>1. cache'[w][k] = value
        BY <1>8, <3>1
      <4>. QED  BY <1>9, <3>1, <4>1 DEF HoldsMain
    <3>2. CASE k # key
      <4>1. \A v : WillHear(w, k, v) => WillHear(w, k, v)'
        BY <1>2, <1>8, <3>2 DEF WillHear, Sends
      <4>. QED  BY <1>2, <1>8, <2>1, <3>2, <4>1 DEF KeyOK, HoldsMain, mainVars
    <3>. QED  BY <3>1, <3>2
  <2>. QED  BY <2>2, <2>3, <2>4 DEF KeyOK
<1>11. ASSUME NEW k \in Keys
       PROVE  WrittenOrHeard(k)'
  <2>1. CASE k = key
    BY <1>9, <2>1 DEF WrittenOrHeard
  <2>2. CASE k # key
    <3>1. \A x \in Windows : wrote'[x][k] = wrote[x][k] /\ pending'[x][k] = pending[x][k]
      BY <1>3, <1>8, <2>2
    <3>2. \A x \in Windows : \A v : WillHear(x, k, v) => WillHear(x, k, v)'
      BY <1>2, <3>1 DEF WillHear, Sends
    <3>3. WrittenOrHeard(k) /\ main' = main
      BY <1>2 DEF SharedInv, mainVars
    <3>. QED  BY <3>1, <3>2, <3>3 DEF WrittenOrHeard
  <2>. QED  BY <2>1, <2>2
<1>12. NothingNew
  BY <1>2 DEF NothingNew, mainVars
<1>. QED  BY <1>5, <1>6, <1>7, <1>10, <1>11, <1>12, OneWindowMoves

LEMMA FlushKeeps ==
    ASSUME SharedInv, NEW w \in Windows, Flush(w)
    PROVE  SharedInv'
<1>1. /\ SharedTyped /\ Stages(w) /\ ItemsComeOnce(w) /\ AnsweredOnce(w) /\ \A k \in Keys : KeyOK(w, k)
      /\ pending[w] \in Updates
  BY OfWindow
<1>2. /\ state[w] \in {"open", "closing"} /\ ~ updating[w]
      /\ toMain' = [toMain EXCEPT ![w] = Append(@, UpdateCall(pending[w]))]
      /\ pending' = [pending EXCEPT ![w] = Nothing]
      /\ updating' = [updating EXCEPT ![w] = TRUE]
      /\ UNCHANGED <<mainVars, cache, state, toWindow, changes, wrote>>
  BY DEF Flush, Send, UpdateCall
<1>3. ~ Sending(w) /\ toMain[w] = <<>> /\ w \in listening /\ ~ Has(toWindow[w], "done")
  BY <1>1, <1>2 DEF Stages, AnsweredOnce
<1>4. toMain'[w] = <<UpdateCall(pending[w])>> /\ pending'[w] = Nothing /\ updating'[w] = TRUE
  <2>. HIDE DEF UpdateCall, Nothing
  <2>. QED  BY <1>1, <1>2, <1>3 DEF SharedTyped
<1>5. SharedTyped'
  <2>1. Nothing \in Updates
    BY NothingIsUpdate
  <2>. HIDE DEF Nothing, Updates
  <2>. QED  BY <1>1, <1>2, <2>1 DEF SharedTyped, mainVars
<1>6. \A x \in Windows : x # w => Untouched(x)
  BY <1>1, <1>2 DEF SharedTyped, Untouched, mainVars
<1>8. \A u \in Updates : Sends(w, u)' <=> u = pending[w]
  BY <1>1, <1>4, Calls DEF Sends
<1>9. Sending(w)'
  BY <1>1, <1>8 DEF Sending
<1>10. WindowOK(w)'
  BY <1>1, <1>2, <1>3, <1>4, <1>9 DEF WindowOK, Stages, ItemsComeOnce, AnsweredOnce, mainVars
<1>11. \A k \in Keys : pending'[w][k] = Same
  BY <1>4, NothingIsUpdate
<1>12. \A k, v : WillHear(w, k, v) => WillHear(w, k, v)'
  <2>1. \A u \in Updates : ~ Sends(w, u)
    BY <1>3 DEF Sending
  <2>. QED  BY <1>1, <1>8, <2>1 DEF WillHear
<1>13. ASSUME NEW k \in Keys
       PROVE  KeyOK(w, k)'
  <2>1. KeyOK(w, k)
    BY <1>1
  <2>2. HearsTheLast(w, k)'
    BY <1>2, <1>8, <1>11, <2>1 DEF KeyOK, HearsTheLast
  <2>3. w \in listening' /\ k \notin noted' => LastTells(toWindow'[w], k, main'[k])
    BY <1>2, <2>1 DEF KeyOK, mainVars
  <2>4. state'[w] = "open" /\ k \notin noted' => HoldsMain(w, k)'
    BY <1>2, <1>12, <2>1 DEF KeyOK, HoldsMain, mainVars
  <2>. QED  BY <2>2, <2>3, <2>4 DEF KeyOK
<1>14. \A k \in Keys : WrittenOrHeard(k)'
  BY <1>2, <1>6, <1>12, NothingIsWritten DEF mainVars
<1>15. NothingNew
  BY <1>2 DEF NothingNew, mainVars
<1>. QED  BY <1>5, <1>6, <1>10, <1>13, <1>14, <1>15, OneWindowMoves

\* Nobody hears anything: the window goes on to another state, says something
\* else, or is listened to.
LEMMA SilentKeeps ==
    ASSUME SharedInv, NEW w \in Windows,
           UNCHANGED <<main, noted, cache, pending, updating, toWindow, changes, wrote>>,
           state' \in [Windows -> {"new", "opening", "open", "closing", "closed"}], listening' \subseteq Windows,
           toMain' = [x \in Windows |-> toMain'[x]],
           \A x \in Windows : x # w => state'[x] = state[x] /\ toMain'[x] = toMain[x]
                                       /\ (x \in listening' <=> x \in listening),
           \A u \in Updates : Sends(w, u)' <=> Sends(w, u),
           Stages(w)', ItemsComeOnce(w)', state'[w] = "open" => state[w] = "open",
           w \in listening' => w \in listening \/ toWindow[w] = <<>>
    PROVE  SharedInv'
<1>1. /\ SharedTyped /\ AnsweredOnce(w) /\ \A k \in Keys : KeyOK(w, k)
  BY OfWindow
<1>2. SharedTyped'
  BY <1>1 DEF SharedTyped
<1>3. \A x \in Windows : x # w => Untouched(x)
  BY DEF Untouched
<1>4. Sending(w)' <=> Sending(w)
  BY DEF Sending
<1>5. WindowOK(w)'
  BY <1>1, <1>4 DEF WindowOK, AnsweredOnce
<1>6. \A k, v : WillHear(w, k, v) => WillHear(w, k, v)'
  BY DEF WillHear
<1>7. ASSUME NEW k \in Keys
      PROVE  KeyOK(w, k)'
  <2>1. KeyOK(w, k)
    BY <1>1
  <2>2. HearsTheLast(w, k)'
    BY <2>1 DEF KeyOK, HearsTheLast
  <2>3. w \in listening' /\ k \notin noted' => LastTells(toWindow'[w], k, main'[k])
    BY <2>1, NoMessages DEF KeyOK
  <2>4. state'[w] = "open" /\ k \notin noted' => HoldsMain(w, k)'
    BY <1>6, <2>1 DEF KeyOK, HoldsMain
  <2>. QED  BY <2>2, <2>3, <2>4 DEF KeyOK
<1>8. \A k \in Keys : WrittenOrHeard(k)'
  BY <1>3, <1>6, NothingIsWritten
<1>9. NothingNew
  BY DEF NothingNew
<1>. QED  BY <1>2, <1>3, <1>5, <1>7, <1>8, <1>9, OneWindowMoves

LEMMA CloseKeeps ==
    ASSUME SharedInv, NEW w \in Windows, Close(w)
    PROVE  SharedInv'
<1>1. /\ SharedTyped /\ Stages(w) /\ ItemsComeOnce(w)
  BY OfWindow
<1>2. /\ state[w] = "open" /\ state' = [state EXCEPT ![w] = "closing"]
      /\ UNCHANGED <<main, noted, listening, cache, pending, updating, toMain, toWindow, changes, wrote>>
  BY DEF Close, mainVars
<1>3. /\ state'[w] = "closing" /\ state' \in [Windows -> {"new", "opening", "open", "closing", "closed"}]
      /\ \A x \in Windows : x # w => state'[x] = state[x]
      /\ toMain' = [x \in Windows |-> toMain'[x]] /\ listening' \subseteq Windows
  BY <1>1, <1>2 DEF SharedTyped
<1>4. (Sending(w)' <=> Sending(w)) /\ \A u \in Updates : Sends(w, u)' <=> Sends(w, u)
  BY <1>2 DEF Sending, Sends
<1>5. Stages(w)' /\ ItemsComeOnce(w)'
  BY <1>1, <1>2, <1>3, <1>4 DEF Stages, ItemsComeOnce
<1>. QED  BY <1>2, <1>3, <1>4, <1>5, SilentKeeps

LEMMA GoKeeps ==
    ASSUME SharedInv, NEW w \in Windows, Go(w)
    PROVE  SharedInv'
<1>1. /\ SharedTyped /\ Stages(w) /\ ItemsComeOnce(w) /\ AnsweredOnce(w)
  BY OfWindow
<1>2. /\ state[w] = "closing" /\ pending[w] = Nothing /\ ~ updating[w]
      /\ state' = [state EXCEPT ![w] = "closed"]
      /\ toMain' = [toMain EXCEPT ![w] = Append(@, UnlistenCall)]
      /\ UNCHANGED <<main, noted, listening, cache, pending, updating, toWindow, changes, wrote>>
  BY DEF Go, Send, UnlistenCall, mainVars
<1>3. ~ Sending(w) /\ toMain[w] = <<>>
  BY <1>1, <1>2 DEF Stages, AnsweredOnce
<1>4. /\ state'[w] = "closed" /\ state' \in [Windows -> {"new", "opening", "open", "closing", "closed"}]
      /\ \A x \in Windows : x # w => state'[x] = state[x]
      /\ listening' \subseteq Windows
  BY <1>1, <1>2 DEF SharedTyped
<1>5. /\ toMain'[w] = <<UnlistenCall>> /\ toMain' = [x \in Windows |-> toMain'[x]]
      /\ \A x \in Windows : x # w => toMain'[x] = toMain[x]
  <2>1. Append(<<>>, UnlistenCall) = <<UnlistenCall>>
    OBVIOUS
  <2>2. toMain = [x \in Windows |-> toMain[x]]
    BY <1>1 DEF SharedTyped
  <2>. HIDE DEF UnlistenCall
  <2>3. /\ toMain'[w] = Append(toMain[w], UnlistenCall)
        /\ toMain' = [x \in Windows |-> toMain'[x]]
        /\ \A x \in Windows : x # w => toMain'[x] = toMain[x]
    BY <1>2, <2>2
  <2>. QED  BY <1>3, <2>1, <2>3
<1>6. \A u \in Updates : ~ Sends(w, u)' /\ ~ Sends(w, u)
  BY <1>3, <1>5, Calls DEF Sends, Sending
<1>7. Stages(w)'
  BY <1>2, <1>4, <1>5 DEF Stages
<1>8. ItemsComeOnce(w)'
  BY <1>1, <1>2 DEF ItemsComeOnce
<1>. QED  BY <1>2, <1>4, <1>5, <1>6, <1>7, <1>8, SilentKeeps

\* The next message of a window tells how far it is.
LEMMA AskedFirst ==
    ASSUME SharedInv, NEW w \in Windows, NEW what, Asks(w, what)
    PROVE  \/ what = "listen" /\ toMain[w] = <<ListenCall, ItemsCall>> /\ state[w] = "opening"
           \/ what = "getItems" /\ toMain[w] = <<ItemsCall>> /\ state[w] = "opening" /\ w \in listening
           \/ what = "unlisten" /\ toMain[w] = <<UnlistenCall>> /\ state[w] = "closed"
           \/ /\ what = "updateItems" /\ state[w] \in {"open", "closing"} /\ w \in listening
              /\ \E u \in Updates : Sends(w, u)
<1>1. Stages(w) /\ state[w] \in {"new", "opening", "open", "closing", "closed"}
  BY OfWindow
<1>2. toMain[w] # <<>> /\ Head(toMain[w]).do = what
  BY DEF Asks
<1>3. CASE state[w] \in {"open", "closing"}
  <2>1. PICK u \in Updates : Sends(w, u)
    BY <1>1, <1>2, <1>3 DEF Stages, Sending
  <2>2. Head(toMain[w]).do = "updateItems"
    BY <2>1, Calls DEF Sends
  <2>. QED  BY <1>1, <1>2, <1>3, <2>1, <2>2 DEF Stages
<1>4. CASE state[w] \notin {"open", "closing"}
  <2>. HIDE DEF ListenCall, ItemsCall, UnlistenCall
  <2>. QED  BY <1>1, <1>2, <1>4, Calls DEF Stages
<1>. QED  BY <1>3, <1>4

LEMMA ListenKeeps ==
    ASSUME SharedInv, NEW w \in Windows, Listen(w)
    PROVE  SharedInv'
<1>1. /\ SharedTyped /\ Stages(w) /\ ItemsComeOnce(w)
  BY OfWindow
<1>2. /\ Asks(w, "listen") /\ toMain' = [toMain EXCEPT ![w] = Tail(@)] /\ listening' = listening \cup {w}
      /\ UNCHANGED <<main, noted, cache, pending, state, updating, toWindow, changes, wrote>>
  BY DEF Listen, Take
<1>3. toMain[w] = <<ListenCall, ItemsCall>> /\ state[w] = "opening"
  BY <1>2, AskedFirst
<1>4. toWindow[w] = <<>> /\ pending[w] = Nothing /\ ~ updating[w]
  <2>1. <<ListenCall, ItemsCall>> \notin {<<ItemsCall>>, <<>>}
    <3>1. Tail(<<ListenCall, ItemsCall>>) # Tail(<<ItemsCall>>) /\ <<ListenCall, ItemsCall>> # <<>>
      <4>. HIDE DEF ListenCall, ItemsCall
      <4>. QED  BY Calls
    <3>. QED  BY <3>1
  <2>. QED  BY <1>1, <1>3, <2>1 DEF Stages
<1>5. /\ toMain'[w] = <<ItemsCall>> /\ toMain' = [x \in Windows |-> toMain'[x]]
      /\ \A x \in Windows : x # w => toMain'[x] = toMain[x]
  <2>. HIDE DEF ListenCall, ItemsCall
  <2>. QED  BY <1>1, <1>2, <1>3, Calls DEF SharedTyped
<1>6. \A u \in Updates : ~ Sends(w, u)' /\ ~ Sends(w, u)
  BY <1>3, <1>5, Calls DEF Sends
<1>7. Stages(w)'
  BY <1>2, <1>3, <1>4, <1>5 DEF Stages
<1>8. ItemsComeOnce(w)'
  BY <1>2, <1>4, NoMessages DEF ItemsComeOnce
<1>9. /\ state' \in [Windows -> {"new", "opening", "open", "closing", "closed"}] /\ listening' \subseteq Windows
      /\ \A x \in Windows : x # w => state'[x] = state[x] /\ (x \in listening' <=> x \in listening)
  BY <1>1, <1>2 DEF SharedTyped
<1>. QED  BY <1>2, <1>4, <1>5, <1>6, <1>7, <1>8, <1>9, SilentKeeps

LEMMA UnlistenKeeps ==
    ASSUME SharedInv, NEW w \in Windows, Unlisten(w)
    PROVE  SharedInv'
<1>1. /\ SharedTyped /\ Stages(w) /\ ItemsComeOnce(w)
  BY OfWindow
<1>2. /\ Asks(w, "unlisten") /\ toMain' = [toMain EXCEPT ![w] = Tail(@)] /\ listening' = listening \ {w}
      /\ UNCHANGED <<main, noted, cache, pending, state, updating, toWindow, changes, wrote>>
  BY DEF Unlisten, Take
<1>3. toMain[w] = <<UnlistenCall>> /\ state[w] = "closed"
  BY <1>2, AskedFirst
<1>4. /\ toMain'[w] = <<>> /\ toMain' = [x \in Windows |-> toMain'[x]]
      /\ \A x \in Windows : x # w => toMain'[x] = toMain[x]
  <2>. HIDE DEF UnlistenCall
  <2>. QED  BY <1>1, <1>2, <1>3, Calls DEF SharedTyped
<1>5. \A u \in Updates : ~ Sends(w, u)' /\ ~ Sends(w, u)
  BY <1>3, <1>4, Calls DEF Sends
<1>6. Stages(w)'
  BY <1>1, <1>2, <1>3, <1>4 DEF Stages
<1>7. ItemsComeOnce(w)'
  BY <1>1, <1>2, <1>3 DEF ItemsComeOnce
<1>8. /\ state' \in [Windows -> {"new", "opening", "open", "closing", "closed"}] /\ listening' \subseteq Windows
      /\ \A x \in Windows : x # w => state'[x] = state[x] /\ (x \in listening' <=> x \in listening)
      /\ w \notin listening'
  BY <1>1, <1>2 DEF SharedTyped
<1>. QED  BY <1>2, <1>3, <1>4, <1>5, <1>6, <1>7, <1>8, SilentKeeps


LEMMA GetItemsKeeps ==
    ASSUME SharedInv, NEW w \in Windows, GetItems(w)
    PROVE  SharedInv'
<1>. DEFINE told == [is |-> "items", items |-> main]
<1>1. /\ SharedTyped /\ Stages(w) /\ ItemsComeOnce(w) /\ AnsweredOnce(w) /\ \A k \in Keys : KeyOK(w, k)
      /\ toWindow[w] \in Seq(ToWindow)
  BY OfWindow
<1>2. /\ Asks(w, "getItems") /\ toMain' = [toMain EXCEPT ![w] = Tail(@)]
      /\ toWindow' = [toWindow EXCEPT ![w] = Append(@, told)]
      /\ UNCHANGED <<main, noted, listening, cache, pending, state, updating, changes, wrote>>
  BY DEF GetItems, Take, Tell, mainVars
<1>3. toMain[w] = <<ItemsCall>> /\ state[w] = "opening" /\ w \in listening
  BY <1>2, AskedFirst
<1>4. /\ toMain'[w] = <<>> /\ toMain' = [x \in Windows |-> toMain'[x]]
      /\ \A x \in Windows : x # w => toMain'[x] = toMain[x]
  <2>1. Tail(<<ItemsCall>>) = <<>>
    BY Calls
  <2>. HIDE DEF ItemsCall
  <2>. QED  BY <1>1, <1>2, <1>3, <2>1 DEF SharedTyped
<1>5. told \in ToWindow /\ told.is = "items" /\ \A k \in Keys : Tells(told, k) /\ told.items[k] = main[k]
  BY <1>1 DEF ToWindow, SharedTyped, Tells
<1>. HIDE DEF told
<1>6. /\ toWindow'[w] = Append(toWindow[w], told) /\ toWindow' = [x \in Windows |-> toWindow'[x]]
      /\ \A x \in Windows : x # w => toWindow'[x] = toWindow[x]
  BY <1>1, <1>2 DEF SharedTyped
<1>7. /\ toWindow'[w] \in Seq(ToWindow)
      /\ \A what : Has(toWindow'[w], what) <=> Has(toWindow[w], what) \/ told.is = what
      /\ \A what : Once(toWindow[w], what) /\ (told.is = what => ~ Has(toWindow[w], what)) => Once(toWindow'[w], what)
      /\ \A k \in Keys : LastTells(toWindow'[w], k, main[k])
  BY <1>1, <1>5, <1>6, MessageAdded
<1>8. SharedTyped'
  <2>1. toWindow' \in [Windows -> Seq(ToWindow)]
    BY <1>1, <1>6, <1>7 DEF SharedTyped
  <2>. QED  BY <1>1, <1>2, <1>4, <2>1 DEF SharedTyped
<1>9. \A x \in Windows : x # w => Untouched(x)
  BY <1>2, <1>4, <1>6 DEF Untouched
<1>10. ~ Sending(w)' /\ \A u \in Updates : ~ Sends(w, u)' /\ ~ Sends(w, u)
  BY <1>3, <1>4, Calls DEF Sending, Sends
<1>11. toMain[w] # <<>>
  BY <1>3, Calls
<1>12. WindowOK(w)'
  <2>1. Stages(w)'
    BY <1>1, <1>2, <1>3, <1>4 DEF Stages
  <2>2. ItemsComeOnce(w)'
    BY <1>1, <1>2, <1>3, <1>4, <1>5, <1>7, <1>11 DEF ItemsComeOnce
  <2>3. AnsweredOnce(w)'
    BY <1>1, <1>2, <1>3, <1>5, <1>7, <1>10 DEF AnsweredOnce, Stages
  <2>. QED  BY <2>1, <2>2, <2>3 DEF WindowOK
<1>13. \A k, v : WillHear(w, k, v) => WillHear(w, k, v)'
  BY <1>2, <1>10 DEF WillHear
<1>14. ASSUME NEW k \in Keys
       PROVE  KeyOK(w, k)'
  <2>1. HearsTheLast(w, k)'
    BY <1>1, <1>2, <1>10 DEF KeyOK, HearsTheLast
  <2>2. LastTells(toWindow'[w], k, main'[k])
    BY <1>2, <1>7
  <2>. QED  BY <1>2, <1>3, <2>1, <2>2 DEF KeyOK
<1>15. \A k \in Keys : WrittenOrHeard(k)'
  BY <1>2, <1>9, <1>13, NothingIsWritten
<1>16. NothingNew
  BY <1>2 DEF NothingNew
<1>. QED  BY <1>8, <1>9, <1>12, <1>14, <1>15, <1>16, OneWindowMoves

LEMMA UpdateItemsKeeps ==
    ASSUME SharedInv, NEW w \in Windows, UpdateItems(w)
    PROVE  SharedInv'
<1>. DEFINE told == [is |-> "done"]
<1>1. /\ SharedTyped /\ Stages(w) /\ ItemsComeOnce(w) /\ AnsweredOnce(w) /\ \A k \in Keys : KeyOK(w, k)
      /\ toWindow[w] \in Seq(ToWindow) /\ pending[w] \in Updates
  BY OfWindow
<1>2. /\ Asks(w, "updateItems") /\ toMain' = [toMain EXCEPT ![w] = Tail(@)]
      /\ main' = Updated(main, Head(toMain[w]).items)
      /\ noted' = noted \cup Changed(Head(toMain[w]).items)
      /\ toWindow' = [toWindow EXCEPT ![w] = Append(@, told)]
      /\ UNCHANGED <<listening, cache, pending, state, updating, changes, wrote>>
  BY DEF UpdateItems, Take, Tell
<1>3. state[w] \in {"open", "closing"} /\ w \in listening /\ \E u \in Updates : Sends(w, u)
  BY <1>2, AskedFirst
<1>4. PICK update \in Updates : Sends(w, update)
  BY <1>3
<1>5. \A u \in Updates : Sends(w, u) => u = update
  BY <1>4, Calls DEF Sends
<1>6. Head(toMain[w]).items = update /\ Tail(toMain[w]) = <<>>
  BY <1>4, Calls DEF Sends
<1>7. /\ main' \in Items /\ noted' \subseteq Keys
      /\ \A k \in Keys : main'[k] = IF update[k] = Same THEN main[k] ELSE update[k]
      /\ \A k \in Keys : k \in noted' <=> k \in noted \/ update[k] \notin {Same, main[k]}
  BY <1>1, <1>2, <1>6, UpdatedTyped DEF SharedTyped, Changed
<1>8. /\ toMain'[w] = <<>> /\ toMain' = [x \in Windows |-> toMain'[x]]
      /\ \A x \in Windows : x # w => toMain'[x] = toMain[x]
  BY <1>1, <1>2, <1>6 DEF SharedTyped
<1>9. told \in ToWindow /\ told.is = "done" /\ \A k : ~ Tells(told, k)
  BY DEF ToWindow, Tells
<1>. HIDE DEF told
<1>10. /\ toWindow'[w] = Append(toWindow[w], told) /\ toWindow' = [x \in Windows |-> toWindow'[x]]
       /\ \A x \in Windows : x # w => toWindow'[x] = toWindow[x]
  BY <1>1, <1>2 DEF SharedTyped
<1>11. /\ toWindow'[w] \in Seq(ToWindow)
       /\ \A what : Has(toWindow'[w], what) <=> Has(toWindow[w], what) \/ told.is = what
       /\ \A what : Once(toWindow[w], what) /\ (told.is = what => ~ Has(toWindow[w], what)) => Once(toWindow'[w], what)
       /\ \A k : Untold(toWindow'[w], k) => Untold(toWindow[w], k)
       /\ \A k, v : LastTells(toWindow[w], k, v) => LastTells(toWindow'[w], k, v)
  BY <1>1, <1>9, <1>10, MessageAdded
<1>12. SharedTyped'
  <2>1. toWindow' \in [Windows -> Seq(ToWindow)]
    BY <1>1, <1>10, <1>11 DEF SharedTyped
  <2>. QED  BY <1>1, <1>2, <1>7, <1>8, <2>1 DEF SharedTyped
<1>13. \A x \in Windows : x # w => Untouched(x)
  BY <1>2, <1>8, <1>10 DEF Untouched
<1>14. ~ Sending(w)' /\ \A u \in Updates : ~ Sends(w, u)'
  BY <1>8, Calls DEF Sending, Sends
<1>15. Sending(w)
  BY <1>4 DEF Sending
<1>16. WindowOK(w)'
  <2>1. Stages(w)'
    BY <1>1, <1>2, <1>3, <1>8 DEF Stages
  <2>2. ItemsComeOnce(w)'
    BY <1>1, <1>3, <1>9, <1>11 DEF ItemsComeOnce
  <2>3. AnsweredOnce(w)'
    BY <1>1, <1>2, <1>9, <1>11, <1>14, <1>15 DEF AnsweredOnce
  <2>. QED  BY <2>1, <2>2, <2>3 DEF WindowOK
<1>17. NothingNew
  BY <1>7 DEF NothingNew
<1>18. ASSUME NEW k \in Keys
       PROVE  KeyOK(w, k)'
  <2>1. KeyOK(w, k)
    BY <1>1
  <2>2. HearsTheLast(w, k)'
    BY <1>2, <1>14, <2>1 DEF KeyOK, HearsTheLast
  <2>3. ASSUME k \notin noted'
        PROVE  k \notin noted /\ main'[k] = main[k] /\ update[k] \in {Same, main[k]}
    BY <1>7, <2>3
  <2>4. w \in listening' /\ k \notin noted' => LastTells(toWindow'[w], k, main'[k])
    BY <1>2, <1>11, <2>1, <2>3 DEF KeyOK
  <2>5. \A v : WillHear(w, k, v) /\ v # update[k] => WillHear(w, k, v)'
    BY <1>2, <1>5 DEF WillHear
  <2>6. \A v : WillHear(w, k, v) => v # Same
    BY DEF WillHear
  <2>7. state'[w] = "open" /\ k \notin noted' => HoldsMain(w, k)'
    BY <1>2, <1>11, <2>1, <2>3, <2>5, <2>6 DEF KeyOK, HoldsMain
  <2>. QED  BY <2>2, <2>4, <2>7 DEF KeyOK
<1>19. ASSUME NEW k \in Keys
       PROVE  WrittenOrHeard(k)'
  <2>1. KeyOK(w, k) /\ WrittenOrHeard(k)
    BY <1>1 DEF SharedInv
  <2>2. CASE update[k] = Same
    <3>1. main'[k] = main[k]
      BY <1>7, <2>2
    <3>2. \A v : WillHear(w, k, v) => WillHear(w, k, v)'
      BY <1>2, <1>5, <2>2 DEF WillHear
    <3>3. ASSUME NEW x \in Windows, NEW v, WillHear(x, k, v)
          PROVE  WillHear(x, k, v)'
      <4>1. CASE x = w
        BY <3>2, <3>3, <4>1
      <4>2. CASE x # w
        BY <1>13, <3>3, <4>2 DEF Untouched, WillHear, Sends
      <4>. QED  BY <4>1, <4>2
    <3>. QED  BY <1>2, <2>1, <3>1, <3>3 DEF WrittenOrHeard
  <2>3. CASE update[k] # Same
    <3>1. main'[k] = update[k]
      BY <1>7, <2>3
    <3>2. CASE pending[w][k] = Same
      <4>1. update[k] = wrote[w][k]
        BY <1>4, <2>1, <2>3, <3>2 DEF KeyOK, HearsTheLast
      <4>. QED  BY <1>2, <3>1, <4>1 DEF WrittenOrHeard
    <3>3. CASE pending[w][k] # Same
      <4>1. PICK v \in Values \cup {None} : v = pending[w][k]
        BY <1>1, <3>3 DEF Updates
      <4>2. WillHear(w, k, v)'
        BY <1>2, <3>3, <4>1 DEF WillHear
      <4>. QED  BY <4>1, <4>2 DEF WrittenOrHeard
    <3>. QED  BY <3>2, <3>3
  <2>. QED  BY <2>2, <2>3
<1>. QED  BY <1>12, <1>13, <1>16, <1>17, <1>18, <1>19, OneWindowMoves

\* A window acts on the first of its messages.
LEMMA HeardFirst ==
    ASSUME SharedInv, NEW w \in Windows, toWindow[w] # <<>>, toWindow' = [toWindow EXCEPT ![w] = Tail(@)]
    PROVE  /\ Head(toWindow[w]) \in ToWindow
           /\ toWindow'[w] = Tail(toWindow[w]) /\ toWindow' \in [Windows -> Seq(ToWindow)]
           /\ \A x \in Windows : x # w => toWindow'[x] = toWindow[x]
           /\ \A any : Has(toWindow[w], any) <=> Has(toWindow'[w], any) \/ Head(toWindow[w]).is = any
           /\ \A any : Once(toWindow[w], any) => Once(toWindow'[w], any)
                        /\ (Head(toWindow[w]).is = any => ~ Has(toWindow'[w], any))
           /\ \A k, v : LastTells(toWindow[w], k, v) => LastTells(toWindow'[w], k, v)
           /\ \A k, v : LastTells(toWindow[w], k, v) /\ Untold(toWindow'[w], k) /\ Tells(Head(toWindow[w]), k)
                        => Head(toWindow[w]).items[k] = v
           /\ \A k : Untold(toWindow'[w], k) /\ ~ Tells(Head(toWindow[w]), k) => Untold(toWindow[w], k)
<1>1. toWindow[w] \in Seq(ToWindow) /\ toWindow \in [Windows -> Seq(ToWindow)]
  BY OfWindow DEF SharedTyped
<1>2. /\ toWindow'[w] = Tail(toWindow[w])
      /\ \A x \in Windows : x # w => toWindow'[x] = toWindow[x]
      /\ toWindow' = [x \in Windows |-> toWindow'[x]]
  BY <1>1
<1>3. toWindow'[w] \in Seq(ToWindow)
  BY <1>1, <1>2, MessageTaken
<1>4. toWindow' \in [Windows -> Seq(ToWindow)]
  BY <1>1, <1>2, <1>3
<1>. QED  BY <1>1, <1>2, <1>4, MessageTaken

LEMMA ReceiveItemsKeeps ==
    ASSUME SharedInv, NEW w \in Windows, ReceiveItems(w)
    PROVE  SharedInv'
<1>. DEFINE told == Head(toWindow[w])
<1>1. /\ SharedTyped /\ Stages(w) /\ ItemsComeOnce(w) /\ AnsweredOnce(w) /\ \A k \in Keys : KeyOK(w, k)
  BY OfWindow
<1>2. /\ toWindow[w] # <<>> /\ told.is = "items" /\ toWindow' = [toWindow EXCEPT ![w] = Tail(@)]
      /\ cache' = [cache EXCEPT ![w] = told.items]
      /\ state' = [state EXCEPT ![w] = "open"]
      /\ UNCHANGED <<main, noted, listening, pending, updating, toMain, changes, wrote>>
  BY DEF ReceiveItems, Hears, mainVars
<1>3. /\ told \in ToWindow /\ told.is = "items"
      /\ toWindow' \in [Windows -> Seq(ToWindow)]
      /\ \A x \in Windows : x # w => toWindow'[x] = toWindow[x]
      /\ \A any : Has(toWindow[w], any) <=> Has(toWindow'[w], any) \/ "items" = any
      /\ \A any : Once(toWindow[w], any) => Once(toWindow'[w], any) /\ ("items" = any => ~ Has(toWindow'[w], any))
      /\ \A k, v : LastTells(toWindow[w], k, v) => LastTells(toWindow'[w], k, v)
      /\ \A k, v : LastTells(toWindow[w], k, v) /\ Untold(toWindow'[w], k) /\ Tells(told, k) => told.items[k] = v
  BY <1>2, HeardFirst
<1>4. told.items \in Items /\ \A k : Tells(told, k)
  BY <1>3 DEF ToWindow, Tells
<1>. HIDE DEF told
<1>5. Has(toWindow[w], "items") /\ ~ Has(toWindow'[w], "items")
  BY <1>1, <1>3 DEF ItemsComeOnce
<1>6. state[w] = "opening" /\ toMain[w] = <<>>
  BY <1>1, <1>5 DEF ItemsComeOnce
<1>7. w \in listening
  BY <1>1, <1>6, Calls DEF Stages
<1>8. /\ cache'[w] = told.items /\ cache' \in [Windows -> Items]
      /\ state'[w] = "open" /\ state' \in [Windows -> {"new", "opening", "open", "closing", "closed"}]
      /\ \A x \in Windows : x # w => cache'[x] = cache[x] /\ state'[x] = state[x]
  BY <1>1, <1>2, <1>4 DEF SharedTyped
<1>9. SharedTyped'
  BY <1>1, <1>2, <1>3, <1>8 DEF SharedTyped
<1>10. \A x \in Windows : x # w => Untouched(x)
  BY <1>2, <1>3, <1>8 DEF Untouched
<1>11. ~ Sending(w)' /\ ~ Sending(w) /\ \A u \in Updates : ~ Sends(w, u)' /\ ~ Sends(w, u)
  BY <1>2, <1>6, Calls DEF Sending, Sends
<1>12. WindowOK(w)'
  <2>1. Stages(w)'
    BY <1>2, <1>6, <1>7, <1>8 DEF Stages
  <2>2. ItemsComeOnce(w)'
    BY <1>1, <1>3, <1>5 DEF ItemsComeOnce
  <2>3. AnsweredOnce(w)'
    BY <1>1, <1>2, <1>3, <1>11 DEF AnsweredOnce
  <2>. QED  BY <2>1, <2>2, <2>3 DEF WindowOK
<1>13. \A k, v : WillHear(w, k, v) => WillHear(w, k, v)'
  BY <1>2, <1>11 DEF WillHear
<1>14. ASSUME NEW k \in Keys
       PROVE  KeyOK(w, k)'
  <2>0. KeyOK(w, k)
    BY <1>1
  <2>1. HearsTheLast(w, k)'
    BY <1>2, <1>11, <2>0 DEF KeyOK, HearsTheLast
  <2>2. k \notin noted => LastTells(toWindow[w], k, main[k])
    BY <1>7, <2>0 DEF KeyOK
  <2>3. k \notin noted' => HoldsMain(w, k)'
    <3>1. SUFFICES ASSUME k \notin noted', Untold(toWindow'[w], k)
                   PROVE  cache'[w][k] = main'[k]
      BY DEF HoldsMain
    <3>. QED  BY <1>2, <1>3, <1>4, <1>8, <2>2, <3>1
  <2>4. k \notin noted' => LastTells(toWindow'[w], k, main'[k])
    BY <1>2, <1>3, <2>2
  <2>. QED  BY <2>1, <2>3, <2>4 DEF KeyOK
<1>15. \A k \in Keys : WrittenOrHeard(k)'
  BY <1>2, <1>10, <1>13, NothingIsWritten
<1>16. NothingNew
  BY <1>2 DEF NothingNew
<1>. QED  BY <1>9, <1>10, <1>12, <1>14, <1>15, <1>16, OneWindowMoves

LEMMA ReceiveDoneKeeps ==
    ASSUME SharedInv, NEW w \in Windows, ReceiveDone(w)
    PROVE  SharedInv'
<1>. DEFINE told == Head(toWindow[w])
<1>1. /\ SharedTyped /\ Stages(w) /\ ItemsComeOnce(w) /\ AnsweredOnce(w) /\ \A k \in Keys : KeyOK(w, k)
  BY OfWindow
<1>2. /\ toWindow[w] # <<>> /\ told.is = "done" /\ toWindow' = [toWindow EXCEPT ![w] = Tail(@)]
      /\ updating' = [updating EXCEPT ![w] = FALSE]
      /\ UNCHANGED <<main, noted, listening, cache, pending, state, toMain, changes, wrote>>
  BY DEF ReceiveDone, Hears, mainVars
<1>3. /\ told \in ToWindow /\ told.is = "done"
      /\ toWindow' \in [Windows -> Seq(ToWindow)]
      /\ \A x \in Windows : x # w => toWindow'[x] = toWindow[x]
      /\ \A any : Has(toWindow[w], any) <=> Has(toWindow'[w], any) \/ "done" = any
      /\ \A any : Once(toWindow[w], any) => Once(toWindow'[w], any) /\ ("done" = any => ~ Has(toWindow'[w], any))
      /\ \A k, v : LastTells(toWindow[w], k, v) => LastTells(toWindow'[w], k, v)
      /\ \A k : Untold(toWindow'[w], k) /\ ~ Tells(told, k) => Untold(toWindow[w], k)
  BY <1>2, HeardFirst
<1>4. \A k : ~ Tells(told, k)
  BY <1>3 DEF Tells
<1>. HIDE DEF told
<1>5. Has(toWindow[w], "done") /\ ~ Has(toWindow'[w], "done")
  BY <1>1, <1>3 DEF AnsweredOnce
<1>6. updating[w] /\ ~ Sending(w)
  BY <1>1, <1>5 DEF AnsweredOnce
<1>7. /\ updating'[w] = FALSE /\ updating' \in [Windows -> BOOLEAN]
      /\ \A x \in Windows : x # w => updating'[x] = updating[x]
  BY <1>1, <1>2 DEF SharedTyped
<1>8. SharedTyped'
  BY <1>1, <1>2, <1>3, <1>7 DEF SharedTyped
<1>9. \A x \in Windows : x # w => Untouched(x)
  BY <1>2, <1>3, <1>7 DEF Untouched
<1>10. (Sending(w)' <=> Sending(w)) /\ \A u : Sends(w, u)' <=> Sends(w, u)
  BY <1>2 DEF Sending, Sends
<1>11. WindowOK(w)'
  <2>1. state[w] # "new"
    BY <1>1, <1>6 DEF Stages
  <2>2. Stages(w)'
    BY <1>1, <1>2, <1>6, <1>7, <1>10, <2>1 DEF Stages
  <2>3. ItemsComeOnce(w)'
    BY <1>1, <1>2, <1>3 DEF ItemsComeOnce
  <2>4. AnsweredOnce(w)'
    BY <1>1, <1>3, <1>5, <1>6, <1>7, <1>10 DEF AnsweredOnce
  <2>. QED  BY <2>2, <2>3, <2>4 DEF WindowOK
<1>12. \A k, v : WillHear(w, k, v) <=> WillHear(w, k, v)'
  BY <1>2, <1>10 DEF WillHear
<1>13. ASSUME NEW k \in Keys
       PROVE  KeyOK(w, k)'
  <2>0. KeyOK(w, k)
    BY <1>1
  <2>1. HearsTheLast(w, k)'
    BY <1>2, <1>10, <2>0 DEF KeyOK, HearsTheLast
  <2>2. w \in listening' /\ k \notin noted' => LastTells(toWindow'[w], k, main'[k])
    BY <1>2, <1>3, <2>0 DEF KeyOK
  <2>3. Untold(toWindow'[w], k) => Untold(toWindow[w], k)
    BY <1>3, <1>4
  <2>4. state'[w] = "open" /\ k \notin noted' => HoldsMain(w, k)'
    BY <1>2, <1>12, <2>0, <2>3 DEF KeyOK, HoldsMain
  <2>. QED  BY <2>1, <2>2, <2>4 DEF KeyOK
<1>14. \A k \in Keys : WrittenOrHeard(k)'
  BY <1>2, <1>9, <1>12, NothingIsWritten
<1>15. NothingNew
  BY <1>2 DEF NothingNew
<1>. QED  BY <1>8, <1>9, <1>11, <1>13, <1>14, <1>15, OneWindowMoves

LEMMA ReceiveChangeKeeps ==
    ASSUME SharedInv, NEW w \in Windows, ReceiveChange(w)
    PROVE  SharedInv'
<1>. DEFINE told == Head(toWindow[w])
<1>1. /\ SharedTyped /\ Stages(w) /\ ItemsComeOnce(w) /\ AnsweredOnce(w) /\ \A k \in Keys : KeyOK(w, k)
      /\ cache[w] \in Items
  BY OfWindow
<1>2. /\ toWindow[w] # <<>> /\ told.is = "changed" /\ toWindow' = [toWindow EXCEPT ![w] = Tail(@)]
      /\ cache' = IF state[w] \in {"closing", "closed"} THEN cache
                  ELSE [cache EXCEPT ![w] = Updated(@, told.items)]
      /\ UNCHANGED <<main, noted, listening, pending, state, updating, toMain, changes, wrote>>
  BY DEF ReceiveChange, Hears, mainVars
<1>3. /\ told \in ToWindow /\ told.is = "changed"
      /\ toWindow' \in [Windows -> Seq(ToWindow)]
      /\ \A x \in Windows : x # w => toWindow'[x] = toWindow[x]
      /\ \A any : Has(toWindow[w], any) <=> Has(toWindow'[w], any) \/ "changed" = any
      /\ \A any : Once(toWindow[w], any) => Once(toWindow'[w], any) /\ ("changed" = any => ~ Has(toWindow'[w], any))
      /\ \A k, v : LastTells(toWindow[w], k, v) => LastTells(toWindow'[w], k, v)
      /\ \A k, v : LastTells(toWindow[w], k, v) /\ Untold(toWindow'[w], k) /\ Tells(told, k) => told.items[k] = v
      /\ \A k : Untold(toWindow'[w], k) /\ ~ Tells(told, k) => Untold(toWindow[w], k)
  BY <1>2, HeardFirst
<1>4. told.items \in Updates /\ \A k : Tells(told, k) <=> told.items[k] # Same
  BY <1>3 DEF ToWindow, Tells
<1>. HIDE DEF told
<1>5. /\ Updated(cache[w], told.items) \in Items
      /\ \A k \in Keys : Updated(cache[w], told.items)[k] = IF told.items[k] = Same THEN cache[w][k] ELSE told.items[k]
  BY <1>1, <1>4, UpdatedTyped
<1>6. /\ cache' \in [Windows -> Items]
      /\ state[w] = "open" => \A k \in Keys : cache'[w][k] = IF told.items[k] = Same THEN cache[w][k] ELSE told.items[k]
      /\ \A x \in Windows : x # w => cache'[x] = cache[x]
  BY <1>1, <1>2, <1>5 DEF SharedTyped
<1>7. SharedTyped'
  BY <1>1, <1>2, <1>3, <1>6 DEF SharedTyped
<1>8. \A x \in Windows : x # w => Untouched(x)
  BY <1>2, <1>3, <1>6 DEF Untouched
<1>9. (Sending(w)' <=> Sending(w)) /\ \A u : Sends(w, u)' <=> Sends(w, u)
  BY <1>2 DEF Sending, Sends
<1>10. WindowOK(w)'
  <2>1. state[w] # "new"
    BY <1>1, <1>2 DEF Stages
  <2>2. state[w] = "opening" => w \in listening /\ toMain[w] \in {<<ItemsCall>>, <<>>}
    BY <1>1, <1>2 DEF Stages
  <2>3. Stages(w)'
    BY <1>1, <1>2, <1>9, <2>1, <2>2 DEF Stages
  <2>4. ItemsComeOnce(w)'
    BY <1>1, <1>2, <1>3 DEF ItemsComeOnce
  <2>5. AnsweredOnce(w)'
    BY <1>1, <1>2, <1>3, <1>9 DEF AnsweredOnce
  <2>. QED  BY <2>3, <2>4, <2>5 DEF WindowOK
<1>11. \A k, v : WillHear(w, k, v) <=> WillHear(w, k, v)'
  BY <1>2, <1>9 DEF WillHear
<1>12. ASSUME NEW k \in Keys
       PROVE  KeyOK(w, k)'
  <2>0. KeyOK(w, k)
    BY <1>1
  <2>1. HearsTheLast(w, k)'
    BY <1>2, <1>9, <2>0 DEF KeyOK, HearsTheLast
  <2>2. w \in listening' /\ k \notin noted' => LastTells(toWindow'[w], k, main'[k])
    BY <1>2, <1>3, <2>0 DEF KeyOK
  <2>3. state'[w] = "open" /\ k \notin noted' => HoldsMain(w, k)'
    <3>1. SUFFICES ASSUME state[w] = "open", k \notin noted, Untold(toWindow'[w], k)
                   PROVE  cache'[w][k] = main[k] \/ \E v \in Values \cup {None} : WillHear(w, k, v) /\ v # main[k]
      BY <1>2, <1>11 DEF HoldsMain
    <3>2. CASE told.items[k] = Same
      <4>1. Untold(toWindow[w], k) /\ cache'[w][k] = cache[w][k]
        BY <1>3, <1>4, <1>6, <3>1, <3>2
      <4>. QED  BY <2>0, <3>1, <4>1 DEF KeyOK, HoldsMain
    <3>3. CASE told.items[k] # Same
      <4>1. LastTells(toWindow[w], k, main[k])
        BY <1>1, <2>0, <3>1 DEF KeyOK, Stages
      <4>2. told.items[k] = main[k]
        BY <1>3, <1>4, <3>1, <3>3, <4>1
      <4>. QED  BY <1>6, <3>1, <3>3, <4>2
    <3>. QED  BY <3>2, <3>3
  <2>. QED  BY <2>1, <2>2, <2>3 DEF KeyOK
<1>13. \A k \in Keys : WrittenOrHeard(k)'
  BY <1>2, <1>8, <1>11, NothingIsWritten
<1>14. NothingNew
  BY <1>2 DEF NothingNew
<1>. QED  BY <1>7, <1>8, <1>10, <1>12, <1>13, <1>14, OneWindowMoves

LEMMA TellChangesKeeps ==
    ASSUME SharedInv, TellChanges
    PROVE  SharedInv'
<1>. DEFINE told == [is |-> "changed", items |-> [k \in Keys |-> IF k \in noted THEN main[k] ELSE Same]]
<1>1. /\ noted' = {}
      /\ toWindow' = [w \in Windows |-> IF w \in listening THEN Append(toWindow[w], told) ELSE toWindow[w]]
      /\ UNCHANGED <<main, listening, cache, pending, state, updating, toMain, changes, wrote>>
  BY DEF TellChanges
<1>2. SharedTyped
  BY DEF SharedInv
<1>3. \A k \in Keys : main[k] \in Values \cup {None} /\ main[k] # Same
  BY <1>2, NothingIsUpdate DEF SharedTyped, Items
<1>4. told.items \in Updates
  BY <1>3 DEF Updates
<1>5. /\ told \in ToWindow /\ told.is = "changed"
      /\ \A k \in Keys : /\ k \in noted => Tells(told, k) /\ told.items[k] = main[k]
                         /\ k \notin noted => ~ Tells(told, k)
  BY <1>3, <1>4 DEF ToWindow, Tells
<1>. HIDE DEF told
<1>6. ASSUME NEW w \in Windows
      PROVE  /\ toWindow'[w] \in Seq(ToWindow)
             /\ \A what : what # "changed" => (Has(toWindow'[w], what) <=> Has(toWindow[w], what))
             /\ \A what : what # "changed" /\ Once(toWindow[w], what) => Once(toWindow'[w], what)
             /\ w \notin listening => toWindow'[w] = toWindow[w]
             /\ \A k \in Keys : /\ w \in listening /\ k \in noted => ~ Untold(toWindow'[w], k)
                                /\ Untold(toWindow'[w], k) => Untold(toWindow[w], k)
                                /\ w \in listening /\ k \in noted => LastTells(toWindow'[w], k, main[k])
                                /\ k \notin noted =>
                                       \A v : LastTells(toWindow[w], k, v) => LastTells(toWindow'[w], k, v)
  <2>1. toWindow[w] \in Seq(ToWindow)
    BY <1>2 DEF SharedTyped
  <2>2. CASE w \in listening
    <3>1. toWindow'[w] = Append(toWindow[w], told)
      BY <1>1, <2>2
    <3>2. /\ toWindow'[w] \in Seq(ToWindow)
          /\ \A what : Has(toWindow'[w], what) <=> Has(toWindow[w], what) \/ told.is = what
          /\ \A what : Once(toWindow[w], what) /\ (told.is = what => ~ Has(toWindow[w], what))
                       => Once(toWindow'[w], what)
          /\ \A k : Untold(toWindow'[w], k) => Untold(toWindow[w], k) /\ ~ Tells(told, k)
          /\ \A k, v : Tells(told, k) /\ told.items[k] = v => LastTells(toWindow'[w], k, v)
          /\ \A k, v : ~ Tells(told, k) /\ LastTells(toWindow[w], k, v) => LastTells(toWindow'[w], k, v)
      BY <1>5, <2>1, <3>1, MessageAdded
    <3>. QED  BY <1>5, <2>2, <3>2
  <2>3. CASE w \notin listening
    <3>1. toWindow'[w] = toWindow[w]
      BY <1>1, <2>3
    <3>. QED  BY <2>1, <2>3, <3>1
  <2>. QED  BY <2>2, <2>3
<1>7. SharedTyped'
  <2>1. toWindow' = [w \in Windows |-> toWindow'[w]]
    BY <1>1
  <2>2. toWindow' \in [Windows -> Seq(ToWindow)]
    BY <1>6, <2>1
  <2>. QED  BY <1>1, <1>2, <2>2 DEF SharedTyped
<1>8. ASSUME NEW w \in Windows
      PROVE  WindowOK(w)'
  <2>1. Stages(w) /\ ItemsComeOnce(w) /\ AnsweredOnce(w)
    BY OfWindow
  <2>2. Sending(w)' <=> Sending(w)
    BY <1>1 DEF Sending, Sends
  <2>3. Stages(w)'
    BY <1>1, <1>6, <2>1, <2>2 DEF Stages
  <2>4. /\ Has(toWindow'[w], "items") <=> Has(toWindow[w], "items")
        /\ Has(toWindow'[w], "done") <=> Has(toWindow[w], "done")
        /\ Once(toWindow[w], "items") => Once(toWindow'[w], "items")
        /\ Once(toWindow[w], "done") => Once(toWindow'[w], "done")
    BY <1>6
  <2>5. ItemsComeOnce(w)' /\ AnsweredOnce(w)'
    BY <1>1, <2>1, <2>2, <2>4 DEF ItemsComeOnce, AnsweredOnce
  <2>. QED  BY <2>3, <2>5 DEF WindowOK
<1>9. \A w, k, v : WillHear(w, k, v)' <=> WillHear(w, k, v)
  BY <1>1 DEF WillHear, Sends
<1>10. ASSUME NEW w \in Windows, NEW k \in Keys
       PROVE  KeyOK(w, k)'
  <2>1. KeyOK(w, k) /\ Stages(w)
    BY OfWindow
  <2>2. HearsTheLast(w, k)'
    BY <1>1, <2>1 DEF KeyOK, HearsTheLast, Sends
  <2>3. w \in listening' => LastTells(toWindow'[w], k, main'[k])
    BY <1>1, <1>6, <2>1 DEF KeyOK
  <2>4. state'[w] = "open" => HoldsMain(w, k)'
    <3>1. SUFFICES ASSUME state[w] = "open", Untold(toWindow'[w], k)
                   PROVE  cache[w][k] = main[k] \/ \E v \in Values \cup {None} : WillHear(w, k, v) /\ v # main[k]
      BY <1>1, <1>9 DEF HoldsMain
    <3>2. w \in listening
      BY <2>1, <3>1 DEF Stages
    <3>3. k \notin noted /\ Untold(toWindow[w], k)
      BY <1>6, <3>1, <3>2
    <3>. QED  BY <2>1, <3>1, <3>3 DEF KeyOK, HoldsMain
  <2>. QED  BY <2>2, <2>3, <2>4 DEF KeyOK
<1>11. ASSUME NEW k \in Keys
       PROVE  WrittenOrHeard(k)'
  <2>1. WrittenOrHeard(k)
    BY DEF SharedInv
  <2>. QED  BY <1>1, <1>9, <2>1, WrittenStays
<1>. QED  BY <1>7, <1>8, <1>10, <1>11 DEF SharedInv

LEMMA SharedStep == SharedInv /\ [SharedNext]_sharedVars => SharedInv'
<1>. SUFFICES ASSUME SharedInv, [SharedNext]_sharedVars
              PROVE  SharedInv'
  OBVIOUS
<1>1. CASE UNCHANGED sharedVars
  <2>1. /\ main' = main /\ noted' = noted /\ listening' = listening /\ cache' = cache /\ pending' = pending
        /\ state' = state /\ updating' = updating /\ toMain' = toMain /\ toWindow' = toWindow
        /\ changes' = changes /\ wrote' = wrote
    BY <1>1 DEF sharedVars
  <2>2. SharedTyped'
    BY <2>1 DEF SharedInv, SharedTyped
  <2>3. (\A w : Untouched(w)) /\ NothingNew
    BY <2>1 DEF Untouched, NothingNew
  <2>4. (\A w \in Windows : WindowOK(w)') /\ \A w \in Windows, k \in Keys : KeyOK(w, k)'
    BY <2>3, OtherWindowOK, OtherKeyOK DEF SharedInv
  <2>5. \A w, k, v : WillHear(w, k, v) => WillHear(w, k, v)'
    BY <2>1 DEF WillHear, Sends
  <2>6. \A k \in Keys : WrittenOrHeard(k)'
    BY <2>1, <2>5, WrittenStays DEF SharedInv
  <2>. QED  BY <2>2, <2>4, <2>6 DEF SharedInv
<1>2. ASSUME NEW w \in Windows, NEW k \in Keys, NEW v \in Values \cup {None}, Set(w, k, v)
      PROVE  SharedInv'
  BY <1>2, SetKeeps
<1>3. ASSUME NEW w \in Windows, Open(w) \/ Flush(w) \/ Close(w) \/ Go(w)
      PROVE  SharedInv'
  BY <1>3, OpenKeeps, FlushKeeps, CloseKeeps, GoKeeps
<1>4. ASSUME NEW w \in Windows, MainActs(w)
      PROVE  SharedInv'
  BY <1>4, ListenKeeps, UnlistenKeeps, GetItemsKeeps, UpdateItemsKeeps DEF MainActs
<1>5. ASSUME NEW w \in Windows, WindowHears(w)
      PROVE  SharedInv'
  BY <1>5, ReceiveItemsKeeps, ReceiveDoneKeeps, ReceiveChangeKeeps DEF WindowHears
<1>6. CASE TellChanges
  BY <1>6, TellChangesKeeps
<1>. QED  BY <1>1, <1>2, <1>3, <1>4, <1>5, <1>6 DEF SharedNext

\* What the windows and the main process have under way fits, at any time.
THEOREM SharedAlways == SharedSpec => []SharedInv
<1>. QED  BY SharedInitInv, SharedStep, PTL DEF SharedSpec

LEMMA SharedInvTyped == SharedInv => SharedTypeOK
<1>. SUFFICES ASSUME SharedInv
              PROVE  SharedTypeOK
  OBVIOUS
<1>1. ASSUME NEW w \in Windows
      PROVE  IF updating[w] THEN \E m \in Unanswered(w) : Unanswered(w) = {m} ELSE Unanswered(w) = {}
  <2>1. /\ Stages(w) /\ AnsweredOnce(w) /\ toWindow[w] \in Seq(ToWindow)
        /\ state[w] \in {"new", "opening", "open", "closing", "closed"}
    BY OfWindow
  <2>. DEFINE calls == {j \in 1 .. Len(toMain[w]) : toMain[w][j].do = "updateItems"}
              replies == {j \in 1 .. Len(toWindow[w]) : toWindow[w][j].is = "done"}
  <2>2. IF Sending(w) THEN calls = {1} ELSE calls = {}
    <3>1. CASE Sending(w)
      <4>1. PICK u \in Updates : toMain[w] = <<UpdateCall(u)>>
        BY <3>1 DEF Sending, Sends
      <4>2. Len(toMain[w]) = 1 /\ toMain[w][1] = UpdateCall(u) /\ UpdateCall(u).do = "updateItems"
        BY <4>1, Calls
      <4>. QED  BY <3>1, <4>2
    <3>2. CASE ~ Sending(w)
      <4>1. toMain[w] \in {<<>>, <<ListenCall, ItemsCall>>, <<ItemsCall>>, <<UnlistenCall>>}
        BY <2>1, <3>2 DEF Stages
      <4>2. ListenCall.do # "updateItems" /\ ItemsCall.do # "updateItems" /\ UnlistenCall.do # "updateItems"
        BY Calls
      <4>3. calls = {}
        <5>1. CASE toMain[w] = <<>>
          BY <5>1
        <5>2. CASE toMain[w] = <<ListenCall, ItemsCall>>
          BY <4>2, <5>2
        <5>3. CASE toMain[w] \in {<<ItemsCall>>, <<UnlistenCall>>}
          BY <4>2, <5>3
        <5>. QED  BY <4>1, <5>1, <5>2, <5>3
      <4>. QED  BY <3>2, <4>3
    <3>. QED  BY <3>1, <3>2
  <2>3. DOMAIN toWindow[w] = 1 .. Len(toWindow[w])
    BY <2>1, MessagesAre
  <2>4. /\ Has(toWindow[w], "done") => \E j \in replies : replies = {j}
        /\ ~ Has(toWindow[w], "done") => replies = {}
    BY <2>1, <2>3 DEF Has, Once, AnsweredOnce
  <2>5. Unanswered(w) = {<<"main", i>> : i \in calls} \cup {<<"window", i>> : i \in replies}
    BY DEF Unanswered
  <2>. HIDE DEF calls, replies
  <2>6. CASE updating[w] /\ Sending(w)
    <3>1. calls = {1} /\ replies = {}
      BY <2>1, <2>2, <2>4, <2>6 DEF AnsweredOnce
    <3>2. Unanswered(w) = {<<"main", 1>>}
      BY <2>5, <3>1
    <3>. QED  BY <2>6, <3>2
  <2>7. CASE updating[w] /\ ~ Sending(w)
    <3>1. calls = {} /\ \E j \in replies : replies = {j}
      BY <2>1, <2>2, <2>4, <2>7 DEF AnsweredOnce
    <3>2. PICK j : replies = {j}
      BY <3>1
    <3>3. Unanswered(w) = {<<"window", j>>}
      BY <2>5, <3>1, <3>2
    <3>. QED  BY <2>7, <3>3
  <2>8. CASE ~ updating[w]
    <3>1. calls = {} /\ replies = {}
      BY <2>1, <2>2, <2>4, <2>8 DEF AnsweredOnce
    <3>2. Unanswered(w) = {}
      BY <2>5, <3>1
    <3>. QED  BY <2>8, <3>2
  <2>. QED  BY <2>6, <2>7, <2>8
<1>. QED  BY <1>1 DEF SharedInv, SharedTyped, SharedTypeOK

LEMMA QuietAgree == SharedInv => QuietMeansAgreed
<1>. SUFFICES ASSUME SharedInv, Quiet, NEW w \in Windows, state[w] = "open"
              PROVE  cache[w] = main
  BY DEF QuietMeansAgreed, Agreed
<1>1. /\ SharedTyped /\ cache[w] \in Items /\ \A k \in Keys : KeyOK(w, k)
  BY OfWindow
<1>2. noted = {} /\ pending[w] = Nothing /\ toMain[w] = <<>> /\ toWindow[w] = <<>>
  BY DEF Quiet
<1>3. ASSUME NEW k \in Keys
      PROVE  cache[w][k] = main[k]
  <2>1. HoldsMain(w, k)
    BY <1>1, <1>2 DEF KeyOK
  <2>2. Untold(toWindow[w], k)
    BY <1>2 DEF Untold
  <2>3. \A v : ~ WillHear(w, k, v)
    BY <1>2, NotSending, NothingIsUpdate DEF WillHear
  <2>. QED  BY <2>1, <2>2, <2>3 DEF HoldsMain
<1>4. main \in [Keys -> Values \cup {None}] /\ cache[w] \in [Keys -> Values \cup {None}]
  BY <1>1 DEF SharedTyped, Items
<1>. QED  BY <1>3, <1>4

LEMMA QuietArrived == SharedInv => WritesArrive
<1>. SUFFICES ASSUME SharedInv, Quiet, NEW k \in Keys, {wrote[w][k] : w \in Windows} \ {Same} # {}
              PROVE  main[k] \in {wrote[w][k] : w \in Windows} \ {Same}
  BY DEF WritesArrive
<1>1. \E w \in Windows : wrote[w][k] # Same
  OBVIOUS
<1>2. ASSUME NEW w \in Windows
      PROVE  \A v : ~ WillHear(w, k, v)
  <2>1. pending[w] = Nothing /\ toMain[w] = <<>>
    BY DEF Quiet
  <2>. QED  BY <2>1, NotSending, NothingIsUpdate DEF WillHear
<1>3. WrittenOrHeard(k)
  BY DEF SharedInv
<1>4. \E w \in Windows : wrote[w][k] = main[k]
  BY <1>1, <1>2, <1>3 DEF WrittenOrHeard
<1>5. main[k] # Same
  BY NothingIsUpdate DEF SharedInv, SharedTyped, Items
<1>. QED  BY <1>4, <1>5

\* Once all is said, the open windows read what the main process holds, and a
\* key that was written has the last value of one of its writers: for any
\* windows, keys, values and number of changes.
THEOREM WindowsAgreeAlways == SharedSpec => []WindowsAgree
<1>1. SharedInv => WindowsAgree
  BY SharedInvTyped, QuietAgree, QuietArrived DEF WindowsAgree
<1>. QED  BY <1>1, SharedAlways, PTL
=============================================================================
