---------------------- MODULE PersistentProtocolProofs ----------------------
(***************************************************************************)
(* Proofs about PersistentProtocol: for any number of messages, sockets    *)
(* and disturbances, the two ends implement the channel of MessageChannel. *)
(*                                                                         *)
(* The invariant has three parts.  The books say, for each end, that its   *)
(* queue holds exactly the messages after the acknowledged one, that what  *)
(* it was handed is the beginning of what the other end numbered, and that *)
(* everything it wrote, wherever that is now, is genuine: a message of its *)
(* own with an acknowledgement it really gave.  The sockets part says      *)
(* which sockets can still carry anything.  The streams part, which holds  *)
(* as long as no socket swallows a message, says that what will reach an   *)
(* end has no gap, and is complete once both ends are on the same socket.  *)
(***************************************************************************)
EXTENDS PersistentProtocol, SequenceTheorems, TLAPS

-----------------------------------------------------------------------------
(* The books of one end: what it keeps, what it wrote, what it handed over. *)

\* The messages an end may have written that numbered n messages and received k.
Genuine(n, k) ==
    {m \in ProtocolMessage :
        /\ m.ack <= k
        /\ m.type = "Regular" => m.id \in 1 .. n /\ m.data = m.id}

\* The payloads 1 .. n, in order.
Counts(s, n) ==
    /\ Len(s) = n
    /\ \A i \in 1 .. n : s[i] = i

\* What was handed over and what is buffered are together the payloads 1 .. n.
Handed(d, b, n) ==
    /\ Len(d) + Len(b) = n
    /\ \A i \in 1 .. Len(d) : d[i] = i
    /\ \A i \in 1 .. Len(b) : b[i] = Len(d) + i

\* The queue holds the messages a+1 .. n, in order.
Holds(q, a, n) ==
    /\ Len(q) = n - a
    /\ \A i \in 1 .. Len(q) : q[i].type = "Regular" /\ q[i].id = a + i

\* The books of an end with fields r, when the other end numbered n messages and
\* received k.
EndOK(r, s, d, n, k) ==
    /\ Counts(s, r.outgoingMsgId)
    /\ Handed(d, r.bufferedMessages, r.incomingMsgId)
    /\ Holds(r.outgoingUnackMsg, r.outgoingAckId, r.outgoingMsgId)
    /\ r.incomingMsgId <= n
    /\ r.outgoingAckId <= k
    /\ r.outgoingUnackMsg \in Seq(Genuine(r.outgoingMsgId, r.incomingMsgId))
    /\ r.data \in Seq(Genuine(r.outgoingMsgId, r.incomingMsgId))

\* What is under way from an end with fields r.
WireOK(r, w) ==
    \A g \in Conn : w[g] \in Seq(Genuine(r.outgoingMsgId, r.incomingMsgId))

BooksOf(p) ==
    /\ EndOK(protocol[p], sent[p], delivered[p],
             protocol[Other[p]].outgoingMsgId, protocol[Other[p]].incomingMsgId)
    /\ WireOK(protocol[p], wire[Other[p]])

Books == \A p \in Peer : BooksOf(p)

-----------------------------------------------------------------------------
(* The sockets.                                                            *)

\* Both ends are on the same socket and it is open.
Live == protocol[server].conn = protocol[client].conn /\ ~broken[protocol[client].conn]

SocketsOK ==
    /\ protocol[server].conn <= protocol[client].conn
    /\ \A g \in Conn :
          /\ g < protocol[client].conn => broken[g]
          /\ g > protocol[client].conn => wire[client][g] = <<>> /\ wire[server][g] = <<>>
          /\ g # protocol[server].conn /\ ~broken[g] => wire[client][g] = <<>>
    /\ ~protocol[client].isReconnecting \/ handshake = "answered"
          => broken[protocol[client].conn] \/ Live

-----------------------------------------------------------------------------
(* The streams, as long as the sockets swallow nothing.                    *)

Regular(m) == m.type = "Regular"

\* No message of the sequence shows a gap to an end that received n messages.
GapFree(s, n) ==
    \A i \in 1 .. Len(s) : Regular(s[i]) =>
        \/ s[i].id <= n + 1
        \/ \E j \in 1 .. i - 1 : Regular(s[j]) /\ s[j].id = s[i].id - 1

\* The sequence brings the messages n+1 .. k.
Covers(s, n, k) ==
    \A a \in n + 1 .. k : \E i \in 1 .. Len(s) : Regular(s[i]) /\ s[i].id = a

NoRegular(s) == \A i \in 1 .. Len(s) : ~Regular(s[i])

NoRequest(s) == \A i \in 1 .. Len(s) : s[i].type # "ReplayRequest"

\* What will reach an end through the socket it is on, in this order.
Stream(p) ==
    IF Live
    THEN wire[p][protocol[p].conn] \o protocol[Other[p]].data
    ELSE wire[p][protocol[p].conn]

StreamsOK ==
    /\ \A p \in Peer :
          /\ ~protocol[p].replayAsked
          /\ NoRequest(protocol[p].data)
          /\ \A g \in Conn : NoRequest(wire[p][g])
          /\ GapFree(Stream(p), protocol[p].incomingMsgId)
          /\ Live /\ ~protocol[Other[p]].isReconnecting =>
                Covers(Stream(p), protocol[p].incomingMsgId, protocol[Other[p]].outgoingMsgId)
    /\ \A g \in Conn : g # protocol[server].conn => NoRegular(wire[server][g])
    /\ protocol[client].conn # protocol[server].conn /\ ~broken[protocol[client].conn]
          => NoRegular(protocol[client].data)

IInv ==
    /\ TypeOK
    /\ NothingWaitsUnarmed
    /\ Books
    /\ SocketsOK
    /\ NothingSwallowed => StreamsOK

-----------------------------------------------------------------------------
(* Sequences of messages.                                                  *)

\* The messages of a sequence are numbered.
LEMMA MessagesAreNumbered ==
    ASSUME NEW s \in Seq(ProtocolMessage)
    PROVE  /\ Len(s) \in Nat
           /\ \A i \in 1 .. Len(s) : s[i] \in ProtocolMessage /\ s[i].id \in Nat
  <1>1. \A i \in 1 .. Len(s) : s[i] \in ProtocolMessage
    BY ElementOfSeq
  <1>2. \A m \in ProtocolMessage : m.id \in Nat
    BY DEF ProtocolMessage
  <1>. QED  BY <1>1, <1>2, LenProperties

\* What is said of all messages of a sequence is said of its tail.
LEMMA TailKeeps ==
    ASSUME NEW s \in Seq(ProtocolMessage), s # <<>>
    PROVE  /\ Tail(s) \in Seq(ProtocolMessage)
           /\ NoRegular(s) => NoRegular(Tail(s))
           /\ NoRequest(s) => NoRequest(Tail(s))
  BY HeadTailProperties DEF NoRegular, NoRequest

\* And of any part of it.
LEMMA PrefixKeeps ==
    ASSUME NEW s \in Seq(ProtocolMessage), NEW t \in Seq(ProtocolMessage), NEW n \in Nat
    PROVE  /\ NoRegular(s \o t) => NoRegular(s) /\ NoRegular(t)
           /\ NoRequest(s \o t) => NoRequest(s) /\ NoRequest(t)
           /\ GapFree(s \o t, n) => GapFree(s, n)
  <1>. DEFINE u == s \o t
  <1>1. /\ u \in Seq(ProtocolMessage) /\ Len(u) = Len(s) + Len(t)
        /\ \A i \in 1 .. Len(s) : u[i] = s[i]
        /\ \A i \in 1 .. Len(t) : u[Len(s) + i] = t[i]
        /\ Len(s) \in Nat /\ Len(t) \in Nat
    BY ConcatProperties
  <1>. HIDE DEF u
  <1>2. NoRegular(u) => NoRegular(s) /\ NoRegular(t)
    BY <1>1 DEF NoRegular
  <1>3. NoRequest(u) => NoRequest(s) /\ NoRequest(t)
    BY <1>1 DEF NoRequest
  <1>4. ASSUME GapFree(u, n)
        PROVE  GapFree(s, n)
    <2>. SUFFICES ASSUME NEW i \in 1 .. Len(s), Regular(s[i]), ~(s[i].id <= n + 1)
                  PROVE  \E j \in 1 .. i - 1 : Regular(s[j]) /\ s[j].id = s[i].id - 1
      BY DEF GapFree
    <2>1. i \in 1 .. Len(u) /\ u[i] = s[i]
      BY <1>1
    <2>2. PICK j \in 1 .. i - 1 : Regular(u[j]) /\ u[j].id = u[i].id - 1
      BY <1>4, <2>1 DEF GapFree
    <2>3. j \in 1 .. Len(s)
      BY <1>1
    <2>. QED  BY <1>1, <2>1, <2>2, <2>3
  <1>. QED  BY <1>2, <1>3, <1>4 DEF u

\* What holds of two sequences holds of the first followed by the second.
LEMMA ConcatKeeps ==
    ASSUME NEW s \in Seq(ProtocolMessage), NEW t \in Seq(ProtocolMessage),
           NEW n \in Nat, NEW k \in Nat
    PROVE  /\ NoRegular(s) /\ NoRegular(t) => NoRegular(s \o t)
           /\ NoRequest(s) /\ NoRequest(t) => NoRequest(s \o t)
           /\ GapFree(s, n) /\ GapFree(t, n) => GapFree(s \o t, n)
           /\ Covers(s, n, k) \/ Covers(t, n, k) => Covers(s \o t, n, k)
  <1>. DEFINE u == s \o t
  <1>1. /\ u \in Seq(ProtocolMessage) /\ Len(u) = Len(s) + Len(t)
        /\ \A i \in 1 .. Len(s) : u[i] = s[i]
        /\ \A i \in 1 .. Len(t) : u[Len(s) + i] = t[i]
        /\ Len(s) \in Nat /\ Len(t) \in Nat
    BY ConcatProperties
  <1>. HIDE DEF u
  <1>2. \A i \in 1 .. Len(u) : \/ i \in 1 .. Len(s)
                               \/ \E j \in 1 .. Len(t) : i = Len(s) + j
    <2>1. TAKE i \in 1 .. Len(u)
    <2>2. CASE i > Len(s)
      <3>1. i - Len(s) \in 1 .. Len(t) /\ i = Len(s) + (i - Len(s))
        BY <1>1, <2>2
      <3>. QED  BY <3>1
    <2>. QED  BY <1>1, <2>2
  <1>3. NoRegular(s) /\ NoRegular(t) => NoRegular(u)
    BY <1>1, <1>2 DEF NoRegular
  <1>4. NoRequest(s) /\ NoRequest(t) => NoRequest(u)
    BY <1>1, <1>2 DEF NoRequest
  <1>5. ASSUME GapFree(s, n), GapFree(t, n)
        PROVE  GapFree(u, n)
    <2>. SUFFICES ASSUME NEW i \in 1 .. Len(u), Regular(u[i]), ~(u[i].id <= n + 1)
                  PROVE  \E j \in 1 .. i - 1 : Regular(u[j]) /\ u[j].id = u[i].id - 1
      BY DEF GapFree
    <2>1. CASE i \in 1 .. Len(s)
      <3>1. PICK j \in 1 .. i - 1 : Regular(s[j]) /\ s[j].id = s[i].id - 1
        BY <1>1, <1>5, <2>1 DEF GapFree
      <3>2. j \in 1 .. Len(s)
        BY <1>1, <2>1
      <3>. QED  BY <1>1, <2>1, <3>1, <3>2
    <2>2. CASE \E j \in 1 .. Len(t) : i = Len(s) + j
      <3>1. PICK j \in 1 .. Len(t) : i = Len(s) + j
        BY <2>2
      <3>2. PICK l \in 1 .. j - 1 : Regular(t[l]) /\ t[l].id = t[j].id - 1
        BY <1>1, <1>5, <3>1 DEF GapFree
      <3>3. Len(s) + l \in 1 .. i - 1 /\ u[Len(s) + l] = t[l] /\ u[i] = t[j]
        BY <1>1, <3>1
      <3>. QED  BY <3>2, <3>3
    <2>. QED  BY <1>2, <2>1, <2>2
  <1>6. ASSUME Covers(s, n, k)
        PROVE  Covers(u, n, k)
    <2>. SUFFICES ASSUME NEW a \in n + 1 .. k
                  PROVE  \E i \in 1 .. Len(u) : Regular(u[i]) /\ u[i].id = a
      BY DEF Covers
    <2>1. PICK i \in 1 .. Len(s) : Regular(s[i]) /\ s[i].id = a
      BY <1>6 DEF Covers
    <2>2. i \in 1 .. Len(u) /\ u[i] = s[i]
      BY <1>1
    <2>. QED  BY <2>1, <2>2
  <1>7. ASSUME Covers(t, n, k)
        PROVE  Covers(u, n, k)
    <2>. SUFFICES ASSUME NEW a \in n + 1 .. k
                  PROVE  \E i \in 1 .. Len(u) : Regular(u[i]) /\ u[i].id = a
      BY DEF Covers
    <2>1. PICK i \in 1 .. Len(t) : Regular(t[i]) /\ t[i].id = a
      BY <1>7 DEF Covers
    <2>2. Len(s) + i \in 1 .. Len(u) /\ u[Len(s) + i] = t[i]
      BY <1>1
    <2>. QED  BY <2>1, <2>2
  <1>. QED  BY <1>3, <1>4, <1>5, <1>6, <1>7 DEF u

\* Without regular messages there is nothing to miss.
LEMMA NoRegularIsGapFree ==
    ASSUME NEW s, NEW n, NoRegular(s)
    PROVE  GapFree(s, n)
  BY DEF NoRegular, GapFree

\* The unacknowledged messages bring all that is missing.
LEMMA QueueIsGapFree ==
    ASSUME NEW q \in Seq(ProtocolMessage), NEW a \in Nat, NEW n \in Nat, NEW k \in Nat,
           Holds(q, a, k), a <= n
    PROVE  GapFree(q, n) /\ Covers(q, n, k)
  <1>1. Len(q) = k - a /\ Len(q) \in Nat
        /\ \A i \in 1 .. Len(q) : Regular(q[i]) /\ q[i].id = a + i
    BY LenProperties DEF Holds, Regular
  <1>2. ASSUME NEW i \in 1 .. Len(q), ~(q[i].id <= n + 1)
        PROVE  \E j \in 1 .. i - 1 : Regular(q[j]) /\ q[j].id = q[i].id - 1
    <2>0. q[i].id = a + i /\ i \in Nat
      BY <1>1
    <2>1. i - 1 \in 1 .. i - 1 /\ i - 1 \in 1 .. Len(q)
      BY <1>1, <1>2, <2>0
    <2>2. Regular(q[i - 1]) /\ q[i - 1].id = q[i].id - 1
      BY <1>1, <2>1
    <2>. QED  BY <2>1, <2>2
  <1>3. GapFree(q, n)
    BY <1>2 DEF GapFree
  <1>4. ASSUME NEW b \in n + 1 .. k
        PROVE  \E i \in 1 .. Len(q) : Regular(q[i]) /\ q[i].id = b
    <2>1. b - a \in 1 .. Len(q)
      BY <1>1
    <2>2. Regular(q[b - a]) /\ q[b - a].id = b
      BY <1>1, <2>1
    <2>. QED  BY <2>1, <2>2
  <1>. QED  BY <1>3, <1>4 DEF Covers

\* The first message is no gap.
LEMMA HeadIsNoGap ==
    ASSUME NEW s \in Seq(ProtocolMessage), s # <<>>, NEW n \in Nat,
           GapFree(s, n), Regular(Head(s))
    PROVE  Head(s).id <= n + 1
  <1>1. 1 \in 1 .. Len(s) /\ Head(s) = s[1]
    BY EmptySeq
  <1>. QED  BY <1>1 DEF GapFree

\* The first message may go when it brings nothing new.
LEMMA TailIsGapFree ==
    ASSUME NEW s \in Seq(ProtocolMessage), s # <<>>, NEW n \in Nat, NEW k \in Nat,
           ~Regular(Head(s)) \/ Head(s).id <= n
    PROVE  /\ GapFree(s, n) => GapFree(Tail(s), n)
           /\ Covers(s, n, k) => Covers(Tail(s), n, k)
  <1>. DEFINE t == Tail(s)
  <1>1. /\ Len(s) \in Nat \ {0} /\ Len(t) = Len(s) - 1 /\ Head(s) = s[1]
        /\ \A i \in 1 .. Len(t) : t[i] = s[i + 1]
        /\ \A i \in 1 .. Len(s) : s[i].id \in Nat
    <2>1. Len(s) \in Nat \ {0} /\ Head(s) = s[1]
      BY EmptySeq
    <2>2. Len(t) = Len(s) - 1 /\ \A i \in 1 .. Len(t) : t[i] = s[i + 1]
      BY HeadTailProperties
    <2>. QED  BY <2>1, <2>2, MessagesAreNumbered
  <1>. HIDE DEF t
  <1>2. ASSUME GapFree(s, n)
        PROVE  GapFree(t, n)
    <2>. SUFFICES ASSUME NEW i \in 1 .. Len(t), Regular(t[i]), ~(t[i].id <= n + 1)
                  PROVE  \E j \in 1 .. i - 1 : Regular(t[j]) /\ t[j].id = t[i].id - 1
      BY DEF GapFree
    <2>1. i + 1 \in 1 .. Len(s) /\ t[i] = s[i + 1]
      BY <1>1
    <2>2. PICK l \in 1 .. (i + 1) - 1 : Regular(s[l]) /\ s[l].id = s[i + 1].id - 1
      BY <1>2, <2>1 DEF GapFree
    <2>3. l # 1
      BY <1>1, <2>1, <2>2
    <2>4. l - 1 \in 1 .. i - 1 /\ l - 1 \in 1 .. Len(t)
      BY <1>1, <2>3
    <2>5. t[l - 1] = s[l]
      BY <1>1, <2>4
    <2>6. Regular(t[l - 1]) /\ t[l - 1].id = t[i].id - 1
      BY <2>1, <2>2, <2>5
    <2>. QED  BY <2>4, <2>6
  <1>3. ASSUME Covers(s, n, k)
        PROVE  Covers(t, n, k)
    <2>. SUFFICES ASSUME NEW a \in n + 1 .. k
                  PROVE  \E i \in 1 .. Len(t) : Regular(t[i]) /\ t[i].id = a
      BY DEF Covers
    <2>1. PICK l \in 1 .. Len(s) : Regular(s[l]) /\ s[l].id = a
      BY <1>3 DEF Covers
    <2>2. l # 1
      BY <1>1, <2>1
    <2>3. l - 1 \in 1 .. Len(t) /\ t[l - 1] = s[l]
      BY <1>1, <2>2
    <2>. QED  BY <2>1, <2>3
  <1>. QED  BY <1>2, <1>3 DEF t

\* Or when it is the message that is due, and received.
LEMMA NextIsGapFree ==
    ASSUME NEW s \in Seq(ProtocolMessage), s # <<>>, NEW n \in Nat, NEW k \in Nat,
           Head(s).id = n + 1
    PROVE  /\ GapFree(s, n) => GapFree(Tail(s), n + 1)
           /\ Covers(s, n, k) => Covers(Tail(s), n + 1, k)
  <1>1. GapFree(s, n) => GapFree(s, n + 1)
    <2>1. \A i \in 1 .. Len(s) : s[i].id \in Nat
      BY MessagesAreNumbered
    <2>. QED  BY <2>1 DEF GapFree
  <1>2. Covers(s, n, k) => Covers(s, n + 1, k)
    BY DEF Covers
  <1>. QED  BY <1>1, <1>2, TailIsGapFree

\* The next message may be added to a stream that brings all before it.
LEMMA AppendIsGapFree ==
    ASSUME NEW s \in Seq(ProtocolMessage), NEW m \in ProtocolMessage,
           NEW n \in Nat, NEW k \in Nat, n <= k, Regular(m), m.id = k + 1,
           GapFree(s, n), Covers(s, n, k)
    PROVE  GapFree(s \o <<m>>, n) /\ Covers(s \o <<m>>, n, k + 1)
  <1>. DEFINE u == s \o <<m>>
  <1>1. /\ u \in Seq(ProtocolMessage) /\ Len(u) = Len(s) + 1 /\ Len(s) \in Nat
        /\ \A i \in 1 .. Len(s) : u[i] = s[i]
        /\ u[Len(s) + 1] = m
    BY ConcatProperties
  <1>. HIDE DEF u
  <1>2. ASSUME NEW i \in 1 .. Len(u), Regular(u[i]), ~(u[i].id <= n + 1)
        PROVE  \E j \in 1 .. i - 1 : Regular(u[j]) /\ u[j].id = u[i].id - 1
    <2>1. CASE i <= Len(s)
      BY <1>1, <1>2, <2>1 DEF GapFree
    <2>2. CASE i = Len(s) + 1
      <3>1. k \in n + 1 .. k /\ u[i].id = k + 1
        BY <1>1, <1>2, <2>2
      <3>2. PICK j \in 1 .. Len(s) : Regular(s[j]) /\ s[j].id = k
        BY <3>1 DEF Covers
      <3>. QED  BY <1>1, <2>2, <3>1, <3>2
    <2>. QED  BY <1>1, <2>1, <2>2
  <1>3. GapFree(u, n)
    BY <1>2 DEF GapFree
  <1>4. ASSUME NEW a \in n + 1 .. k + 1
        PROVE  \E i \in 1 .. Len(u) : Regular(u[i]) /\ u[i].id = a
    <2>1. CASE a = k + 1
      BY <1>1, <2>1
    <2>2. CASE a \in n + 1 .. k
      BY <1>1, <2>2 DEF Covers
    <2>. QED  BY <2>1, <2>2
  <1>. QED  BY <1>3, <1>4 DEF u, Covers

-----------------------------------------------------------------------------
(* The methods.                                                            *)

\* What waits for its acknowledgement at an end with these fields is watched.
Watched(r) ==
    \/ r.outgoingMsgId <= r.outgoingAckId
    \/ r.isReconnecting
    \/ r.outgoingAckTimeout
    \/ r.socketTimeout

\* What is buffered at an end with these fields will be written.
Written(r) == r.data = <<>> \/ r.isPaused \/ r.writeNowTimeout

\* An end goes from r to t by writing ms: nothing else of its books changes.
Writes(r, t, ms) ==
    /\ r \in ProtocolFields
    /\ t \in ProtocolFields
    /\ ms \in Seq(ProtocolMessage)
    /\ t.data = r.data \o ms
    /\ t.conn = r.conn
    /\ t.isReconnecting = r.isReconnecting
    /\ t.outgoingUnackMsg = r.outgoingUnackMsg
    /\ t.outgoingMsgId = r.outgoingMsgId
    /\ t.outgoingAckId = r.outgoingAckId
    /\ t.incomingMsgId = r.incomingMsgId
    /\ t.bufferedMessages = r.bufferedMessages
    /\ t.replayAsked => r.replayAsked

\* The fields of a protocol, one by one.
LEMMA FieldTypes ==
    ASSUME NEW r \in ProtocolFields
    PROVE  /\ r.conn \in Conn
           /\ r.isReconnecting \in BOOLEAN
           /\ r.outgoingUnackMsg \in Seq(ProtocolMessage)
           /\ r.outgoingMsgId \in Nat
           /\ r.outgoingAckId \in Nat
           /\ r.incomingMsgId \in Nat
           /\ r.data \in Seq(ProtocolMessage)
           /\ r.bufferedMessages \in Seq(Nat)
  BY DEF ProtocolFields

\* Nothing added to a buffer leaves it as it is.
LEMMA NothingAdded ==
    ASSUME NEW r \in ProtocolFields
    PROVE  r.data = r.data \o <<>> /\ <<>> \in Seq(ProtocolMessage)
  BY FieldTypes, ConcatEmptySeq, EmptySeq

\* A message that only acknowledges is one the protocol knows.
LEMMA BareIsGenuine ==
    ASSUME NEW type \in MessageType \ {"Regular"}, NEW ack \in Nat, NEW n \in Nat,
           NEW k \in Nat, ack <= k
    PROVE  /\ Bare(type, ack) \in Genuine(n, k)
           /\ Bare(type, ack) \in ProtocolMessage
           /\ ~Regular(Bare(type, ack))
           /\ Bare(type, ack).type = type
           /\ Bare(type, ack).ack = ack
  BY DEF Bare, Genuine, ProtocolMessage, Regular

\* What is kept as genuine is a message.
LEMMA GenuineMessages ==
    ASSUME NEW n, NEW k, NEW s \in Seq(Genuine(n, k))
    PROVE  s \in Seq(ProtocolMessage)
  <1>1. Genuine(n, k) \subseteq ProtocolMessage
    BY DEF Genuine
  <1>. QED  BY <1>1, SeqMonotonic

\* WriteAll only writes, and arms the writer.
LEMMA WriteAllWrites ==
    ASSUME NEW r \in ProtocolFields, NEW ms \in Seq(ProtocolMessage)
    PROVE  /\ Writes(r, WriteAll(r, ms), ms)
           /\ Watched(r) => Watched(WriteAll(r, ms))
           /\ Written(r) => Written(WriteAll(r, ms))
  <1>1. r.data \o ms \in Seq(ProtocolMessage)
    BY FieldTypes, ConcatProperties
  <1>2. Writes(r, WriteAll(r, ms), ms)
    BY <1>1 DEF Writes, WriteAll, ProtocolFields
  <1>3. Watched(r) => Watched(WriteAll(r, ms))
    BY DEF Watched, WriteAll, ProtocolFields
  <1>4. Written(r) => Written(WriteAll(r, ms))
    <2>1. r.data = <<>> /\ ms = <<>> => r.data \o ms = <<>>
      BY NothingAdded
    <2>. QED  BY <2>1 DEF Written, WriteAll, ProtocolFields
  <1>. QED  BY <1>2, <1>3, <1>4

\* Write only writes.
LEMMA WriteWrites ==
    ASSUME NEW r \in ProtocolFields, NEW m \in ProtocolMessage
    PROVE  /\ Writes(r, Write(r, m), <<m>>)
           /\ Watched(r) => Watched(Write(r, m))
           /\ Written(r) => Written(Write(r, m))
  <1>1. <<m>> \in Seq(ProtocolMessage)
    OBVIOUS
  <1>. QED  BY <1>1, WriteAllWrites DEF Write

\* _recvAckCheck writes nothing and arms the timer.
LEMMA RecvAckCheckWatches ==
    ASSUME NEW r \in ProtocolFields
    PROVE  /\ Writes(r, RecvAckCheck(r), <<>>)
           /\ Watched(RecvAckCheck(r))
           /\ Written(r) => Written(RecvAckCheck(r))
  <1>1. Writes(r, RecvAckCheck(r), <<>>)
    BY NothingAdded DEF Writes, RecvAckCheck, ProtocolFields
  <1>2. Watched(RecvAckCheck(r))
    BY DEF Watched, RecvAckCheck, ProtocolFields
  <1>3. Written(r) => Written(RecvAckCheck(r))
    BY DEF Written, RecvAckCheck, ProtocolFields
  <1>. QED  BY <1>1, <1>2, <1>3

\* _sendAckCheck writes nothing.
LEMMA SendAckCheckWrites ==
    ASSUME NEW r \in ProtocolFields
    PROVE  /\ Writes(r, SendAckCheck(r), <<>>)
           /\ Watched(r) => Watched(SendAckCheck(r))
           /\ Written(r) => Written(SendAckCheck(r))
           /\ SendAckCheck(r).hasListeners = r.hasListeners
  <1>1. Writes(r, SendAckCheck(r), <<>>)
    BY NothingAdded DEF Writes, SendAckCheck, ProtocolFields
  <1>2. /\ Watched(r) => Watched(SendAckCheck(r))
        /\ SendAckCheck(r).hasListeners = r.hasListeners
    BY DEF Watched, SendAckCheck, ProtocolFields
  <1>3. Written(r) => Written(SendAckCheck(r))
    BY DEF Written, SendAckCheck, ProtocolFields
  <1>. QED  BY <1>1, <1>2, <1>3

\* Two writes are one.
LEMMA WritesAgain ==
    ASSUME NEW r, NEW t, NEW u, NEW ms, NEW ns,
           Writes(r, t, ms), Writes(t, u, ns)
    PROVE  Writes(r, u, ms \o ns)
  <1>1. r.data \in Seq(ProtocolMessage) /\ ms \in Seq(ProtocolMessage)
        /\ ns \in Seq(ProtocolMessage)
    BY FieldTypes DEF Writes
  <1>2. \A s \in Seq(ProtocolMessage) : (s \o ms) \o ns = s \o (ms \o ns)
    BY <1>1, ConcatAssociative
  <1>3. ms \o ns \in Seq(ProtocolMessage)
    BY <1>1, ConcatProperties
  <1>4. (r.data \o ms) \o ns = r.data \o (ms \o ns)
    BY <1>1, <1>2
  <1>. QED  BY <1>3, <1>4 DEF Writes

\* A write after which nothing is written.
LEMMA WritesThenNothing ==
    ASSUME NEW r, NEW t, NEW u, NEW ms, Writes(r, t, ms), Writes(t, u, <<>>)
    PROVE  Writes(r, u, ms)
  <1>1. ms \o <<>> = ms
    BY ConcatEmptySeq DEF Writes
  <1>. QED  BY <1>1, WritesAgain

\* An acknowledgement is one write.
LEMMA AcknowledgeWrites ==
    ASSUME NEW r \in ProtocolFields, NEW type \in MessageType
    PROVE  /\ Writes(r, Acknowledge(r, type), <<Bare(type, r.incomingMsgId)>>)
           /\ Watched(r) => Watched(Acknowledge(r, type))
           /\ Written(r) => Written(Acknowledge(r, type))
  <1>. DEFINE t == [r EXCEPT !.incomingAckId = r.incomingMsgId]
              m == Bare(type, r.incomingMsgId)
  <1>1. /\ Writes(r, t, <<>>)
        /\ Watched(r) => Watched(t)
        /\ Written(r) => Written(t)
    BY NothingAdded DEF Writes, Watched, Written, ProtocolFields
  <1>2. m \in ProtocolMessage
    BY FieldTypes DEF Bare, ProtocolMessage
  <1>3. Acknowledge(r, type) = Write(t, m)
    BY DEF Acknowledge
  <1>4. t \in ProtocolFields
    BY <1>1 DEF Writes
  <1>. HIDE DEF t, m
  <1>5. /\ Writes(t, Write(t, m), <<m>>)
        /\ Watched(t) => Watched(Write(t, m))
        /\ Written(t) => Written(Write(t, m))
    BY <1>2, <1>4, WriteWrites
  <1>6. <<>> \o <<m>> = <<m>>
    BY <1>2, ConcatEmptySeq
  <1>7. Writes(r, Write(t, m), <<m>>)
    BY <1>1, <1>5, <1>6, WritesAgain
  <1>. QED  BY <1>1, <1>3, <1>5, <1>7 DEF m

\* A replay writes what is unacknowledged.
LEMMA ReplayWrites ==
    ASSUME NEW r \in ProtocolFields
    PROVE  /\ Writes(r, Replay(r), r.outgoingUnackMsg)
           /\ Watched(Replay(r))
           /\ Written(r) => Written(Replay(r))
  <1>. DEFINE t == WriteAll(r, r.outgoingUnackMsg)
  <1>1. /\ Writes(r, t, r.outgoingUnackMsg)
        /\ Written(r) => Written(t)
    BY FieldTypes, WriteAllWrites
  <1>2. t \in ProtocolFields
    BY <1>1 DEF Writes
  <1>3. Replay(r) = RecvAckCheck(t)
    BY DEF Replay
  <1>. HIDE DEF t
  <1>4. /\ Writes(t, RecvAckCheck(t), <<>>)
        /\ Watched(RecvAckCheck(t))
        /\ Written(t) => Written(RecvAckCheck(t))
    BY <1>2, RecvAckCheckWatches
  <1>. QED  BY <1>1, <1>3, <1>4, WritesThenNothing

\* The end of a reconnection acknowledges and replays.
LEMMA EndAcceptReconnectionWrites ==
    ASSUME NEW r \in ProtocolFields
    PROVE  /\ Writes([r EXCEPT !.isReconnecting = FALSE], EndAcceptReconnection(r),
                     <<Bare("Ack", r.incomingMsgId)>> \o r.outgoingUnackMsg)
           /\ Watched(EndAcceptReconnection(r))
           /\ Written(r) => Written(EndAcceptReconnection(r))
  <1>. DEFINE t == [r EXCEPT !.isReconnecting = FALSE]
              u == Acknowledge(t, "Ack")
  <1>1. /\ t \in ProtocolFields
        /\ t.incomingMsgId = r.incomingMsgId
        /\ t.outgoingUnackMsg = r.outgoingUnackMsg
        /\ Written(r) => Written(t)
    BY DEF Written, ProtocolFields
  <1>2. EndAcceptReconnection(r) = Replay(u)
    BY DEF EndAcceptReconnection
  <1>. HIDE DEF t
  <1>3. /\ Writes(t, u, <<Bare("Ack", r.incomingMsgId)>>)
        /\ Written(t) => Written(u)
    <2>1. "Ack" \in MessageType
      BY DEF MessageType
    <2>. QED  BY <1>1, <2>1, AcknowledgeWrites
  <1>4. u \in ProtocolFields /\ u.outgoingUnackMsg = r.outgoingUnackMsg
    BY <1>1, <1>3 DEF Writes
  <1>. HIDE DEF u
  <1>5. /\ Writes(u, Replay(u), r.outgoingUnackMsg)
        /\ Watched(Replay(u))
        /\ Written(u) => Written(Replay(u))
    BY <1>4, ReplayWrites
  <1>. QED  BY <1>1, <1>2, <1>3, <1>5, WritesAgain DEF t

\* A confirmed prefix leaves the queue; the rest stays in order.
LEMMA UnconfirmedHolds ==
    ASSUME NEW S, NEW q \in Seq(S), NEW a \in Nat, NEW n \in Nat, NEW k \in Nat,
           Holds(q, a, n), a < k, k <= n
    PROVE  Unconfirmed(q, k) \in Seq(S) /\ Holds(Unconfirmed(q, k), k, n)
  <1>. DEFINE rest == {i \in DOMAIN q : q[i].id > k}
  <1>1. /\ Len(q) = n - a /\ DOMAIN q = 1 .. Len(q)
        /\ \A i \in 1 .. Len(q) : q[i].type = "Regular" /\ q[i].id = a + i
    BY LenProperties DEF Holds
  <1>2. rest = k - a + 1 .. n - a
    BY <1>1
  <1>. HIDE DEF rest
  <1>3. Unconfirmed(q, k) = IF rest = {} THEN <<>> ELSE SubSeq(q, Min(rest), Len(q))
    BY DEF Unconfirmed, rest
  <1>4. CASE k = n
    <2>1. Unconfirmed(q, k) = <<>>
      BY <1>2, <1>3, <1>4
    <2>2. Len(<<>>) = 0
      BY EmptySeq
    <2>. QED  BY <1>4, <2>1, <2>2, EmptySeq DEF Holds
  <1>5. CASE k < n
    <2>1. k - a + 1 \in rest /\ \A i \in rest : k - a + 1 <= i
      BY <1>2, <1>5
    <2>2. Min(rest) = k - a + 1
      <3>1. Min(rest) \in rest /\ \A i \in rest : Min(rest) <= i
        BY <2>1 DEF Min
      <3>2. Min(rest) <= k - a + 1 /\ k - a + 1 <= Min(rest) /\ Min(rest) \in Nat
        BY <1>2, <2>1, <3>1
      <3>. QED  BY <3>2
    <2>. DEFINE u == SubSeq(q, k - a + 1, Len(q))
    <2>3. Unconfirmed(q, k) = u
      BY <1>3, <2>1, <2>2
    <2>4. /\ u \in Seq(S)
          /\ Len(u) = Len(q) - (k - a + 1) + 1
          /\ \A i \in 1 .. Len(q) - (k - a + 1) + 1 : u[i] = q[k - a + 1 + i - 1]
      <3>1. /\ k - a + 1 \in Int /\ Len(q) \in Int /\ k - a + 1 <= Len(q)
            /\ \A i \in k - a + 1 .. Len(q) : q[i] \in S
        BY <1>1, <1>5, ElementOfSeq
      <3>. QED  BY <3>1, SubSeqProperties
    <2>. HIDE DEF u
    <2>5. Len(u) = n - k
      BY <1>1, <2>4
    <2>6. ASSUME NEW i \in 1 .. Len(u)
          PROVE  u[i].type = "Regular" /\ u[i].id = k + i
      <3>1. k - a + i \in 1 .. Len(q) /\ k - a + 1 + i - 1 = k - a + i
        BY <1>1, <1>5, <2>5
      <3>2. u[i] = q[k - a + 1 + i - 1]
        BY <2>4
      <3>3. q[k - a + i].type = "Regular" /\ q[k - a + i].id = a + (k - a + i)
        BY <3>1 DEF Holds
      <3>4. u[i] = q[k - a + i]
        BY <3>1, <3>2
      <3>5. a + (k - a + i) = k + i
        OBVIOUS
      <3>. QED  BY <3>3, <3>4, <3>5
    <2>. QED  BY <2>3, <2>4, <2>5, <2>6 DEF Holds
  <1>. QED  BY <1>4, <1>5

\* An end goes from r to t by dropping confirmed messages: nothing else changes.
Confirms(r, t) ==
    /\ t \in ProtocolFields
    /\ Holds(t.outgoingUnackMsg, t.outgoingAckId, t.outgoingMsgId)
    /\ t.data = r.data
    /\ t.conn = r.conn
    /\ t.isReconnecting = r.isReconnecting
    /\ t.outgoingMsgId = r.outgoingMsgId
    /\ t.incomingMsgId = r.incomingMsgId
    /\ t.bufferedMessages = r.bufferedMessages
    /\ t.replayAsked = r.replayAsked
    /\ t.hasListeners = r.hasListeners

\* A received acknowledgement drops exactly what it confirms.
LEMMA ReceiveAckConfirms ==
    ASSUME NEW r \in ProtocolFields, NEW k \in Nat, NEW S,
           Holds(r.outgoingUnackMsg, r.outgoingAckId, r.outgoingMsgId),
           r.outgoingUnackMsg \in Seq(S), k <= r.outgoingMsgId
    PROVE  /\ Confirms(r, ReceiveAck(r, k))
           /\ ReceiveAck(r, k).outgoingUnackMsg \in Seq(S)
           /\ ReceiveAck(r, k).outgoingAckId \in {k, r.outgoingAckId}
           /\ Watched(r) => Watched(ReceiveAck(r, k))
           /\ Written(r) => Written(ReceiveAck(r, k))
  <1>1. CASE ~(k > r.outgoingAckId)
    BY <1>1 DEF ReceiveAck, Confirms
  <1>2. CASE k > r.outgoingAckId
    <2>. DEFINE q == Unconfirmed(r.outgoingUnackMsg, k)
                t == [r EXCEPT !.outgoingAckId = k, !.outgoingUnackMsg = q]
    <2>1. ReceiveAck(r, k) = t
      BY <1>2 DEF ReceiveAck
    <2>2. q \in Seq(S) /\ Holds(q, k, r.outgoingMsgId)
      BY <1>2, FieldTypes, UnconfirmedHolds
    <2>3. q \in Seq(ProtocolMessage)
      BY <1>2, FieldTypes, UnconfirmedHolds
    <2>. HIDE DEF q
    <2>4. /\ t \in ProtocolFields
          /\ t.outgoingUnackMsg = q
          /\ t.outgoingAckId = k
          /\ t.outgoingMsgId = r.outgoingMsgId
          /\ t.data = r.data
          /\ t.conn = r.conn
          /\ t.isReconnecting = r.isReconnecting
          /\ t.incomingMsgId = r.incomingMsgId
          /\ t.bufferedMessages = r.bufferedMessages
          /\ t.replayAsked = r.replayAsked
          /\ t.hasListeners = r.hasListeners
          /\ t.outgoingAckTimeout = r.outgoingAckTimeout
          /\ t.socketTimeout = r.socketTimeout
          /\ t.isPaused = r.isPaused
          /\ t.writeNowTimeout = r.writeNowTimeout
      BY <2>3 DEF ProtocolFields
    <2>. HIDE DEF t
    <2>5. Watched(r) => Watched(t)
      BY <1>2, <2>4, FieldTypes DEF Watched
    <2>6. Written(r) => Written(t)
      BY <2>4 DEF Written
    <2>7. Confirms(r, t)
      BY <2>2, <2>4 DEF Confirms
    <2>. QED  BY <2>1, <2>2, <2>4, <2>5, <2>6, <2>7
  <1>. QED  BY <1>1, <1>2

\* An end goes from r to t by sending m.
Sends(r, t, m) ==
    /\ t \in ProtocolFields
    /\ t.data = IF r.isReconnecting THEN r.data ELSE r.data \o <<m>>
    /\ t.outgoingUnackMsg = Append(r.outgoingUnackMsg, m)
    /\ t.outgoingMsgId = m.id
    /\ t.conn = r.conn
    /\ t.isReconnecting = r.isReconnecting
    /\ t.outgoingAckId = r.outgoingAckId
    /\ t.incomingMsgId = r.incomingMsgId
    /\ t.bufferedMessages = r.bufferedMessages
    /\ t.replayAsked => r.replayAsked

\* send() keeps the message, writes it unless it will be replayed, and watches it.
LEMMA EnqueueSends ==
    ASSUME NEW r \in ProtocolFields, NEW m \in ProtocolMessage
    PROVE  LET u == [r EXCEPT !.outgoingMsgId = m.id, !.incomingAckId = r.incomingMsgId]
           IN  /\ Sends(r, Enqueue(u, m), m)
               /\ Watched(Enqueue(u, m))
               /\ Written(r) => Written(Enqueue(u, m))
  <1>. DEFINE u == [r EXCEPT !.outgoingMsgId = m.id, !.incomingAckId = r.incomingMsgId]
              v == [u EXCEPT !.outgoingUnackMsg = Append(@, m)]
  <1>1. Append(r.outgoingUnackMsg, m) \in Seq(ProtocolMessage) /\ m.id \in Nat
    <2>1. m.id \in Nat
      BY DEF ProtocolMessage
    <2>. QED  BY <2>1, FieldTypes, AppendProperties
  <1>2. /\ v \in ProtocolFields
        /\ v.data = r.data
        /\ v.outgoingUnackMsg = Append(r.outgoingUnackMsg, m)
        /\ v.outgoingMsgId = m.id
        /\ v.conn = r.conn
        /\ v.isReconnecting = r.isReconnecting
        /\ v.outgoingAckId = r.outgoingAckId
        /\ v.incomingMsgId = r.incomingMsgId
        /\ v.bufferedMessages = r.bufferedMessages
        /\ v.replayAsked = r.replayAsked
        /\ v.isPaused = r.isPaused
        /\ v.writeNowTimeout = r.writeNowTimeout
    BY <1>1 DEF ProtocolFields
  <1>3. Written(r) => Written(v)
    BY <1>2 DEF Written
  <1>4. Enqueue(u, m) = IF r.isReconnecting THEN v ELSE RecvAckCheck(Write(v, m))
    BY DEF Enqueue, ProtocolFields
  <1>. HIDE DEF u, v
  <1>5. CASE r.isReconnecting
    <2>1. Watched(v)
      BY <1>2, <1>5 DEF Watched
    <2>2. Sends(r, v, m)
      BY <1>2, <1>5 DEF Sends
    <2>3. Enqueue(u, m) = v
      BY <1>4, <1>5
    <2>. QED  BY <1>3, <2>1, <2>2, <2>3 DEF u
  <1>6. CASE ~r.isReconnecting
    <2>. DEFINE x == Write(v, m)
    <2>1. /\ Writes(v, x, <<m>>)
          /\ Written(v) => Written(x)
      BY <1>2, WriteWrites
    <2>2. x \in ProtocolFields
      BY <2>1 DEF Writes
    <2>3. Enqueue(u, m) = RecvAckCheck(x)
      BY <1>4, <1>6
    <2>. HIDE DEF x
    <2>4. /\ Writes(x, RecvAckCheck(x), <<>>)
          /\ Watched(RecvAckCheck(x))
          /\ Written(x) => Written(RecvAckCheck(x))
      BY <2>2, RecvAckCheckWatches
    <2>5. Writes(v, RecvAckCheck(x), <<m>>)
      BY <2>1, <2>4, WritesThenNothing
    <2>6. Sends(r, RecvAckCheck(x), m)
      BY <1>2, <1>6, <2>5 DEF Sends, Writes
    <2>. QED  BY <1>3, <2>1, <2>3, <2>4, <2>6 DEF u
  <1>. QED  BY <1>5, <1>6

\* A new socket empties the writer and keeps the books.
LEMMA BeginAcceptReconnectionMoves ==
    ASSUME NEW r \in ProtocolFields, NEW g \in Conn
    PROVE  LET t == BeginAcceptReconnection(r, g)
           IN  /\ t \in ProtocolFields
               /\ t.data = <<>>
               /\ t.conn = g
               /\ t.isReconnecting
               /\ ~t.replayAsked
               /\ t.outgoingUnackMsg = r.outgoingUnackMsg
               /\ t.outgoingMsgId = r.outgoingMsgId
               /\ t.outgoingAckId = r.outgoingAckId
               /\ t.incomingMsgId = r.incomingMsgId
               /\ t.bufferedMessages = r.bufferedMessages
               /\ Watched(t)
               /\ Written(t)
  <1>1. <<>> \in Seq(ProtocolMessage)
    BY EmptySeq
  <1>. QED  BY <1>1 DEF BeginAcceptReconnection, ProtocolFields, Watched, Written

-----------------------------------------------------------------------------
(* A step of one end: its type, its timers and the books.                  *)

\* The client and the server are the ends.
LEMMA Ends ==
    /\ client \in Peer /\ server \in Peer /\ client # server
    /\ Other[client] = server /\ Other[server] = client
    /\ \A p \in Peer : p = client \/ p = server
  BY ProtocolAssumption DEF Peer, Other

\* There are two ends.
LEMMA TwoPeers ==
    ASSUME NEW p \in Peer
    PROVE  /\ Other[p] \in Peer /\ Other[p] # p /\ Other[Other[p]] = p
           /\ \A o \in Peer : o = p \/ o = Other[p]
  BY ProtocolAssumption DEF Peer, Other

\* One end goes to the fields t.
Becomes(p, t) == protocol' = [protocol EXCEPT ![p] = t]

\* The other end is not touched.
LEMMA BecomesFields ==
    ASSUME TypeOK, NEW p \in Peer, NEW t, Becomes(p, t)
    PROVE  /\ protocol'[p] = t
           /\ protocol'[Other[p]] = protocol[Other[p]]
           /\ protocol[p] \in ProtocolFields
           /\ protocol[Other[p]] \in ProtocolFields
  BY TwoPeers DEF TypeOK, Becomes

\* A step that leaves an end watched and its buffer written keeps the timers.
LEMMA TimersStep ==
    ASSUME TypeOK, NothingWaitsUnarmed, NEW p \in Peer, NEW t \in ProtocolFields,
           Becomes(p, t), Watched(protocol[p]) => Watched(t),
           Written(protocol[p]) => Written(t)
    PROVE  protocol' \in [Peer -> ProtocolFields] /\ NothingWaitsUnarmed'
  <1>1. protocol' \in [Peer -> ProtocolFields]
    BY DEF TypeOK, Becomes
  <1>2. \A o \in Peer : Watched(protocol[o]) /\ Written(protocol[o])
    BY DEF NothingWaitsUnarmed, UnacknowledgedIsWatched, BufferedIsWritten, Watched, Written
  <1>3. \A o \in Peer : protocol'[o] = t \/ protocol'[o] = protocol[o]
    BY DEF TypeOK, Becomes
  <1>4. protocol'[p] = t
    BY BecomesFields
  <1>5. \A o \in Peer : Watched(protocol'[o]) /\ Written(protocol'[o])
    BY <1>2, <1>3
  <1>. QED  BY <1>1, <1>5
         DEF NothingWaitsUnarmed, UnacknowledgedIsWatched, BufferedIsWritten, Watched, Written

\* Both ends wait with their timers armed.
LEMMA TimersOf ==
    ASSUME NothingWaitsUnarmed, NEW p \in Peer
    PROVE  Watched(protocol[p]) /\ Written(protocol[p])
  BY DEF NothingWaitsUnarmed, UnacknowledgedIsWatched, BufferedIsWritten, Watched, Written

\* With more messages numbered and received, more is genuine.
LEMMA GenuineGrows ==
    ASSUME NEW n \in Nat, NEW k \in Nat, NEW x \in Nat, NEW y \in Nat, n <= x, k <= y,
           NEW s \in Seq(Genuine(n, k))
    PROVE  s \in Seq(Genuine(x, y))
  <1>1. Genuine(n, k) \subseteq Genuine(x, y)
    <2>1. \A m \in ProtocolMessage : m.ack \in Nat
      BY DEF ProtocolMessage
    <2>. QED  BY <2>1 DEF Genuine
  <1>. QED  BY <1>1, SeqMonotonic

\* What is under way stays genuine when its sender goes on.
LEMMA WireGrows ==
    ASSUME NEW r \in ProtocolFields, NEW t \in ProtocolFields, NEW w,
           r.outgoingMsgId <= t.outgoingMsgId, r.incomingMsgId <= t.incomingMsgId,
           WireOK(r, w)
    PROVE  WireOK(t, w)
  <1>. DEFINE n == r.outgoingMsgId
              k == r.incomingMsgId
              x == t.outgoingMsgId
              y == t.incomingMsgId
  <1>1. n \in Nat /\ k \in Nat /\ x \in Nat /\ y \in Nat /\ n <= x /\ k <= y
    BY FieldTypes
  <1>2. \A g \in Conn : w[g] \in Seq(Genuine(n, k))
    BY DEF WireOK
  <1>. HIDE DEF n, k, x, y
  <1>3. \A g \in Conn : w[g] \in Seq(Genuine(x, y))
    BY <1>1, <1>2, GenuineGrows
  <1>. QED  BY <1>3 DEF WireOK, x, y

\* An end whose own books are in order leaves both in order.
LEMMA BooksStep ==
    ASSUME TypeOK, Books, NEW p \in Peer, NEW t \in ProtocolFields, Becomes(p, t),
           protocol[p].outgoingMsgId <= t.outgoingMsgId,
           protocol[p].incomingMsgId <= t.incomingMsgId,
           EndOK(t, sent'[p], delivered'[p],
                 protocol[Other[p]].outgoingMsgId, protocol[Other[p]].incomingMsgId),
           WireOK(t, wire'[Other[p]]),
           WireOK(protocol[Other[p]], wire'[p]),
           sent'[Other[p]] = sent[Other[p]],
           delivered'[Other[p]] = delivered[Other[p]]
    PROVE  Books'
  <1>. DEFINE o == Other[p]
              q == protocol[o]
  <1>1. o \in Peer /\ Other[o] = p /\ \A z \in Peer : z = p \/ z = o
    BY TwoPeers
  <1>2. protocol'[p] = t /\ protocol'[o] = q /\ q \in ProtocolFields
        /\ protocol[p] \in ProtocolFields
    BY BecomesFields
  <1>3. EndOK(q, sent[o], delivered[o],
              protocol[p].outgoingMsgId, protocol[p].incomingMsgId)
    BY <1>1 DEF Books, BooksOf
  <1>4. EndOK(q, sent'[o], delivered'[o], t.outgoingMsgId, t.incomingMsgId)
    <2>1. q.incomingMsgId <= t.outgoingMsgId
      BY <1>2, <1>3, FieldTypes DEF EndOK
    <2>2. q.outgoingAckId <= t.incomingMsgId
      BY <1>2, <1>3, FieldTypes DEF EndOK
    <2>. QED  BY <1>3, <2>1, <2>2 DEF EndOK
  <1>5. BooksOf(p)'
    BY <1>1, <1>2 DEF BooksOf
  <1>6. BooksOf(o)'
    BY <1>1, <1>2, <1>4 DEF BooksOf
  <1>. QED  BY <1>1, <1>5, <1>6 DEF Books

\* The books of one end, opened.
LEMMA BooksOpened ==
    ASSUME TypeOK, Books, NEW p \in Peer
    PROVE  /\ EndOK(protocol[p], sent[p], delivered[p],
                    protocol[Other[p]].outgoingMsgId, protocol[Other[p]].incomingMsgId)
           /\ WireOK(protocol[p], wire[Other[p]])
           /\ WireOK(protocol[Other[p]], wire[p])
           /\ protocol[p] \in ProtocolFields
           /\ protocol[Other[p]] \in ProtocolFields
  BY TwoPeers DEF Books, BooksOf, TypeOK

\* An end that writes genuine messages keeps its books.
LEMMA EndAfterWrite ==
    ASSUME NEW r, NEW t, NEW ms, NEW s, NEW d, NEW n, NEW k,
           Writes(r, t, ms), EndOK(r, s, d, n, k),
           ms \in Seq(Genuine(r.outgoingMsgId, r.incomingMsgId))
    PROVE  EndOK(t, s, d, n, k)
  <1>. DEFINE G == Genuine(r.outgoingMsgId, r.incomingMsgId)
  <1>1. r.data \in Seq(G)
    BY DEF EndOK
  <1>. HIDE DEF G
  <1>2. ms \in Seq(G)
    BY DEF G
  <1>3. r.data \o ms \in Seq(G)
    BY <1>1, <1>2, ConcatProperties
  <1>. QED  BY <1>3 DEF EndOK, Writes, G

\* A write leaves the books in order when nothing else happens.
LEMMA BooksAfterWrite ==
    ASSUME TypeOK, Books, NEW p \in Peer, NEW t, NEW ms, Becomes(p, t),
           Writes(protocol[p], t, ms),
           ms \in Seq(Genuine(protocol[p].outgoingMsgId, protocol[p].incomingMsgId)),
           UNCHANGED <<wire, sent, delivered>>
    PROVE  Books'
  <1>1. /\ t \in ProtocolFields
        /\ t.outgoingMsgId = protocol[p].outgoingMsgId
        /\ t.incomingMsgId = protocol[p].incomingMsgId
    BY DEF Writes
  <1>2. EndOK(t, sent[p], delivered[p],
              protocol[Other[p]].outgoingMsgId, protocol[Other[p]].incomingMsgId)
    BY BooksOpened, EndAfterWrite
  <1>3. /\ protocol[p].outgoingMsgId <= t.outgoingMsgId
        /\ protocol[p].incomingMsgId <= t.incomingMsgId
    BY <1>1, FieldTypes
  <1>4. WireOK(t, wire[Other[p]]) /\ WireOK(protocol[Other[p]], wire[p])
    BY <1>1, BooksOpened DEF WireOK
  <1>. QED  BY <1>1, <1>2, <1>3, <1>4, BooksStep

-----------------------------------------------------------------------------
(* Steps that leave the ends on their sockets.                             *)

\* The wire to each end, on each socket.
LEMMA WireTypes ==
    ASSUME TypeOK, NEW p \in Peer, NEW g \in Conn
    PROVE  wire[p][g] \in Seq(ProtocolMessage)
  BY DEF TypeOK

\* Sockets are numbered.
LEMMA ConnsAreNumbered ==
    ASSUME NEW g \in Conn
    PROVE  g \in Nat
  BY ProtocolAssumption DEF Conn

\* Why the ends agree about the socket when they have to: the reconnection is
\* over only on a socket that both are on.
Settled ==
    ~protocol[client].isReconnecting \/ handshake = "answered"
          => broken[protocol[client].conn] \/ Live

\* Nothing comes onto a socket whose sender is not on it.
WireGrowsAtSender ==
    \A q \in Peer : \A g \in Conn :
        wire'[q][g] # <<>> => wire[q][g] # <<>> \/ g = protocol[Other[q]].conn

\* The ends stay on their sockets.
SameConns == \A p \in Peer : protocol'[p].conn = protocol[p].conn

\* The sockets stay in order when the ends stay on them.
LEMMA SocketsStep ==
    ASSUME TypeOK, SocketsOK, SameConns, WireGrowsAtSender, Settled',
           \A g \in Conn : broken[g] => broken'[g]
    PROVE  SocketsOK'
  <1>. DEFINE c == protocol[client].conn
              s == protocol[server].conn
  <1>1. c \in Conn /\ s \in Conn /\ c \in Nat /\ s \in Nat /\ s <= c
    <2>1. protocol[client] \in ProtocolFields /\ protocol[server] \in ProtocolFields
      BY Ends DEF TypeOK
    <2>2. c \in Conn /\ s \in Conn
      BY <2>1, FieldTypes
    <2>. QED  BY <2>2, ConnsAreNumbered DEF SocketsOK
  <1>2. protocol'[client].conn = c /\ protocol'[server].conn = s
    BY Ends DEF SameConns
  <1>3. ASSUME NEW g \in Conn
        PROVE  /\ g < c => broken'[g]
               /\ g > c => wire'[client][g] = <<>> /\ wire'[server][g] = <<>>
               /\ g # s /\ ~broken'[g] => wire'[client][g] = <<>>
    <2>0. g \in Nat
      BY ConnsAreNumbered
    <2>1. g < c => broken'[g]
      BY DEF SocketsOK
    <2>2. /\ wire'[client][g] # <<>> => wire[client][g] # <<>> \/ g = s
          /\ wire'[server][g] # <<>> => wire[server][g] # <<>> \/ g = c
      BY Ends DEF WireGrowsAtSender
    <2>3. g > c => wire[client][g] = <<>> /\ wire[server][g] = <<>>
      BY DEF SocketsOK
    <2>4. g > c => wire'[client][g] = <<>> /\ wire'[server][g] = <<>>
      BY <1>1, <2>0, <2>2, <2>3
    <2>5. g # s /\ ~broken'[g] => wire'[client][g] = <<>>
      BY <2>2 DEF SocketsOK
    <2>. QED  BY <2>1, <2>4, <2>5
  <1>. QED  BY <1>1, <1>2, <1>3 DEF SocketsOK, Settled

\* The streams of the two ends after a step that leaves the sockets alone.
LEMMA StreamAfter ==
    ASSUME TypeOK, NEW p \in Peer, NEW t, Becomes(p, t), t.conn = protocol[p].conn,
           broken' = broken
    PROVE  /\ SameConns
           /\ Live' = Live
           /\ Stream(p)' = IF Live
                           THEN wire'[p][t.conn] \o protocol[Other[p]].data
                           ELSE wire'[p][t.conn]
           /\ Stream(Other[p])' = IF Live
                                  THEN wire'[Other[p]][protocol[Other[p]].conn] \o t.data
                                  ELSE wire'[Other[p]][protocol[Other[p]].conn]
  <1>1. /\ protocol'[p] = t
        /\ protocol'[Other[p]] = protocol[Other[p]]
    BY BecomesFields
  <1>2. SameConns
    BY <1>1, TwoPeers DEF SameConns
  <1>3. Live' = Live
    BY <1>2, Ends DEF SameConns, Live
  <1>4. Other[Other[p]] = p
    BY TwoPeers
  <1>. QED  BY <1>1, <1>2, <1>3, <1>4 DEF Stream

\* No end asks for a replay, and nothing under way does.
Calm(p) ==
    /\ ~protocol[p].replayAsked
    /\ NoRequest(protocol[p].data)
    /\ \A g \in Conn : NoRequest(wire[p][g])

\* What comes to an end has no gap, and is complete once both are settled.
Flows(p) ==
    /\ GapFree(Stream(p), protocol[p].incomingMsgId)
    /\ Live /\ ~protocol[Other[p]].isReconnecting =>
          Covers(Stream(p), protocol[p].incomingMsgId, protocol[Other[p]].outgoingMsgId)

\* Regular messages are only on the server's own socket and on their way to it.
Apart ==
    /\ \A g \in Conn : g # protocol[server].conn => NoRegular(wire[server][g])
    /\ protocol[client].conn # protocol[server].conn /\ ~broken[protocol[client].conn]
          => NoRegular(protocol[client].data)

\* The streams in their parts.
LEMMA StreamsParts ==
    StreamsOK <=> (\A p \in Peer : Calm(p) /\ Flows(p)) /\ Apart
  BY DEF StreamsOK, Calm, Flows, Apart

\* And after a step.
LEMMA StreamsPartsAfter ==
    ASSUME NEW p \in Peer, Calm(p)', Flows(p)', Calm(Other[p])', Flows(Other[p])', Apart'
    PROVE  StreamsOK'
  <1>1. \A o \in Peer : o = p \/ o = Other[p]
    BY TwoPeers
  <1>2. \A o \in Peer : Calm(o)' /\ Flows(o)'
    BY <1>1
  <1>. QED  BY <1>2 DEF StreamsOK, Calm, Flows, Apart

\* Streams are sequences of messages.
LEMMA StreamTypes ==
    ASSUME TypeOK, NEW p \in Peer
    PROVE  /\ Stream(p) \in Seq(ProtocolMessage)
           /\ wire[p][protocol[p].conn] \in Seq(ProtocolMessage)
           /\ protocol[p].data \in Seq(ProtocolMessage)
           /\ protocol[p].incomingMsgId \in Nat
           /\ protocol[p].outgoingMsgId \in Nat
  <1>1. /\ protocol[p] \in ProtocolFields
        /\ protocol[Other[p]] \in ProtocolFields
    BY TwoPeers DEF TypeOK
  <1>2. wire[p][protocol[p].conn] \in Seq(ProtocolMessage)
    BY <1>1, FieldTypes, WireTypes
  <1>. QED  BY <1>1, <1>2, FieldTypes, ConcatProperties DEF Stream

\* An end goes from r to t by adding ms to what it has written.
Adds(r, t, ms) ==
    /\ t \in ProtocolFields
    /\ ms \in Seq(ProtocolMessage)
    /\ t.conn = r.conn
    /\ t.incomingMsgId = r.incomingMsgId
    /\ t.data = r.data \o ms
    /\ t.replayAsked => r.replayAsked

\* What an end adds is added to the stream of the other end, if they are connected.
LEMMA StreamAfterAdding ==
    ASSUME TypeOK, NEW p \in Peer, NEW t, NEW ms, Becomes(p, t), Adds(protocol[p], t, ms),
           UNCHANGED <<wire, broken>>
    PROVE  /\ Stream(p)' = Stream(p)
           /\ Stream(Other[p])' = IF Live THEN Stream(Other[p]) \o ms ELSE Stream(Other[p])
  <1>. DEFINE o == Other[p]
              w == wire[o][protocol[o].conn]
              r == protocol[p]
  <1>1. /\ t.conn = r.conn
        /\ t.data = r.data \o ms
    BY DEF Adds
  <1>2. /\ Stream(p)' = IF Live THEN wire[p][t.conn] \o protocol[o].data ELSE wire[p][t.conn]
        /\ Stream(o)' = IF Live THEN w \o t.data ELSE w
    BY <1>1, StreamAfter
  <1>3. Stream(p)' = Stream(p)
    BY <1>1, <1>2 DEF Stream
  <1>4. Stream(o) = IF Live THEN w \o r.data ELSE w
    BY TwoPeers DEF Stream
  <1>5. w \o (r.data \o ms) = (w \o r.data) \o ms
    <2>1. w \in Seq(ProtocolMessage) /\ r.data \in Seq(ProtocolMessage)
          /\ ms \in Seq(ProtocolMessage)
      BY TwoPeers, StreamTypes DEF Adds
    <2>2. \A x, y, z \in Seq(ProtocolMessage) : x \o (y \o z) = (x \o y) \o z
      BY ConcatAssociative
    <2>. HIDE DEF w, r
    <2>. QED  BY <2>1, <2>2
  <1>. HIDE DEF w
  <1>. QED  BY <1>1, <1>2, <1>3, <1>4, <1>5

\* Adding what leaves no gap leaves the streams in order.
LEMMA StreamsAfterAdding ==
    ASSUME TypeOK, StreamsOK, NEW p \in Peer, NEW t, NEW ms,
           Becomes(p, t), Adds(protocol[p], t, ms),
           NoRequest(ms),
           Live => GapFree(Stream(Other[p]) \o ms, protocol[Other[p]].incomingMsgId),
           Live /\ ~t.isReconnecting =>
              Covers(Stream(Other[p]) \o ms, protocol[Other[p]].incomingMsgId, t.outgoingMsgId),
           Live \/ broken[protocol[p].conn] \/ NoRegular(ms),
           UNCHANGED <<wire, broken>>
    PROVE  StreamsOK'
  <1>. DEFINE o == Other[p]
  <1>1. Calm(p) /\ Flows(p) /\ Calm(o) /\ Flows(o) /\ Apart
    BY TwoPeers, StreamsParts
  <1>2. /\ protocol'[p] = t
        /\ protocol'[o] = protocol[o]
    BY BecomesFields
  <1>3. /\ Stream(p)' = Stream(p)
        /\ Stream(o)' = IF Live THEN Stream(o) \o ms ELSE Stream(o)
    BY StreamAfterAdding
  <1>4. SameConns /\ Live' = Live
    BY StreamAfter DEF Adds
  <1>5. NoRequest(t.data)
    BY <1>1, StreamTypes, ConcatKeeps DEF Adds, Calm
  <1>6. Calm(p)'
    BY <1>1, <1>2, <1>5 DEF Calm, Adds
  <1>7. Calm(o)'
    BY <1>1, <1>2 DEF Calm
  <1>8. Flows(p)'
    <2>1. t.incomingMsgId = protocol[p].incomingMsgId
      BY DEF Adds
    <2>. QED  BY <1>1, <1>2, <1>3, <1>4, <2>1 DEF Flows
  <1>9. Flows(o)'
    <2>1. Other[o] = p
      BY TwoPeers
    <2>2. GapFree(Stream(o)', protocol[o].incomingMsgId)
      BY <1>1, <1>3 DEF Flows
    <2>3. Live /\ ~t.isReconnecting =>
             Covers(Stream(o)', protocol[o].incomingMsgId, t.outgoingMsgId)
      BY <1>3
    <2>. QED  BY <1>2, <1>4, <2>1, <2>2, <2>3 DEF Flows
  <1>10. Apart'
    <2>1. \A q \in Peer : protocol'[q].conn = protocol[q].conn
      BY <1>4 DEF SameConns
    <2>2. CASE p = server
      <3>1. protocol'[client] = protocol[client]
        BY <1>2, <2>2, Ends
      <3>. QED  BY <1>1, <2>1, <3>1, Ends DEF Apart
    <2>3. CASE p = client
      <3>1. protocol[client].conn # protocol[server].conn => ~Live
        BY DEF Live
      <3>2. (protocol[client].conn # protocol[server].conn /\ ~broken[protocol[client].conn])
               => NoRegular(protocol[client].data) /\ NoRegular(ms)
        BY <1>1, <2>3, <3>1 DEF Apart
      <3>3. NoRegular(protocol[client].data) /\ NoRegular(ms) => NoRegular(t.data)
        BY <2>3, StreamTypes, ConcatKeeps DEF Adds
      <3>. QED  BY <1>1, <1>2, <2>1, <2>3, <3>2, <3>3, Ends DEF Apart
    <2>. QED  BY <2>2, <2>3, Ends
  <1>. QED  BY <1>6, <1>7, <1>8, <1>9, <1>10, StreamsPartsAfter

-----------------------------------------------------------------------------
(* Steps that take a message from a socket.                                *)

\* The first message of two sequences is the first of the first.
LEMMA HeadOfConcat ==
    ASSUME NEW s \in Seq(ProtocolMessage), NEW t \in Seq(ProtocolMessage), s # <<>>
    PROVE  s \o t # <<>> /\ Head(s \o t) = Head(s) /\ Tail(s \o t) = Tail(s) \o t
  <1>. DEFINE u == s \o t
              x == Tail(u)
              y == Tail(s) \o t
  <1>1. /\ u \in Seq(ProtocolMessage) /\ Len(u) = Len(s) + Len(t)
        /\ \A i \in 1 .. Len(s) + Len(t) :
              u[i] = IF i <= Len(s) THEN s[i] ELSE t[i - Len(s)]
    BY ConcatProperties
  <1>2. Len(s) \in Nat \ {0} /\ Len(t) \in Nat
    BY EmptySeq, LenProperties
  <1>. HIDE DEF u
  <1>3. u # <<>>
    BY <1>1, <1>2, EmptySeq
  <1>4. Head(u) = u[1] /\ Head(s) = s[1] /\ u[1] = s[1]
    BY <1>1, <1>2
  <1>5. /\ x \in Seq(ProtocolMessage) /\ Len(x) = Len(u) - 1
        /\ \A i \in 1 .. Len(x) : x[i] = u[i + 1]
    BY <1>1, <1>3, HeadTailProperties
  <1>6. /\ Tail(s) \in Seq(ProtocolMessage) /\ Len(Tail(s)) = Len(s) - 1
        /\ \A i \in 1 .. Len(Tail(s)) : Tail(s)[i] = s[i + 1]
    BY HeadTailProperties
  <1>7. /\ y \in Seq(ProtocolMessage) /\ Len(y) = Len(s) - 1 + Len(t)
        /\ \A i \in 1 .. Len(s) - 1 + Len(t) :
              y[i] = IF i <= Len(s) - 1 THEN Tail(s)[i] ELSE t[i - (Len(s) - 1)]
    BY <1>6, ConcatProperties
  <1>. HIDE DEF x, y
  <1>8. Len(x) = Len(y)
    BY <1>1, <1>2, <1>5, <1>7
  <1>9. ASSUME NEW i \in 1 .. Len(x)
        PROVE  x[i] = y[i]
    <2>1. i \in Nat /\ 1 <= i /\ i <= Len(s) + Len(t) - 1
      BY <1>1, <1>2, <1>5
    <2>2. CASE i <= Len(s) - 1
      <3>1. x[i] = s[i + 1]
        BY <1>1, <1>2, <1>5, <2>1, <2>2
      <3>2. y[i] = s[i + 1]
        BY <1>2, <1>6, <1>7, <2>1, <2>2
      <3>. QED  BY <3>1, <3>2
    <2>3. CASE i > Len(s) - 1
      <3>1. i + 1 \in 1 .. Len(s) + Len(t) /\ ~(i + 1 <= Len(s))
            /\ i + 1 - Len(s) = i - (Len(s) - 1)
        BY <1>2, <2>1, <2>3
      <3>2. x[i] = t[i + 1 - Len(s)]
        BY <1>1, <1>5, <3>1
      <3>3. y[i] = t[i - (Len(s) - 1)]
        BY <1>2, <1>7, <2>1, <2>3
      <3>. QED  BY <3>1, <3>2, <3>3
    <2>. QED  BY <1>2, <2>1, <2>2, <2>3
  <1>10. x = y
    BY <1>5, <1>7, <1>8, <1>9, SeqEqual
  <1>. QED  BY <1>3, <1>4, <1>10 DEF u, x, y

\* The tail of a sequence has the elements of the sequence.
LEMMA TailOfSeq ==
    ASSUME NEW S, NEW s \in Seq(S), s # <<>>
    PROVE  Tail(s) \in Seq(S) /\ Head(s) \in S
  BY HeadTailProperties

\* A message was taken from the socket g of an end.
Taken(p, g) ==
    /\ wire[p][g] # <<>>
    /\ wire' = [wire EXCEPT ![p][g] = Tail(@)]

\* What taking a message does to the wires.
LEMMA TakenWires ==
    ASSUME TypeOK, NEW p \in Peer, NEW g \in Conn, Taken(p, g)
    PROVE  /\ wire'[p][g] = Tail(wire[p][g])
           /\ \A h \in Conn : h # g => wire'[p][h] = wire[p][h]
           /\ wire'[Other[p]] = wire[Other[p]]
           /\ wire' \in [Peer -> [Conn -> Seq(ProtocolMessage)]]
           /\ WireGrowsAtSender
           /\ \A n, k : (\A h \in Conn : wire[p][h] \in Seq(Genuine(n, k)))
                           => \A h \in Conn : wire'[p][h] \in Seq(Genuine(n, k))
  <1>1. wire \in [Peer -> [Conn -> Seq(ProtocolMessage)]]
    BY DEF TypeOK
  <1>2. Tail(wire[p][g]) \in Seq(ProtocolMessage)
    BY WireTypes, TailOfSeq DEF Taken
  <1>3. /\ wire'[p][g] = Tail(wire[p][g])
        /\ \A h \in Conn : h # g => wire'[p][h] = wire[p][h]
        /\ \A q \in Peer : q # p => wire'[q] = wire[q]
    BY <1>1 DEF Taken
  <1>4. wire' \in [Peer -> [Conn -> Seq(ProtocolMessage)]]
    BY <1>1, <1>2 DEF Taken
  <1>5. \A q \in Peer : \A h \in Conn : wire'[q][h] # <<>> => wire[q][h] # <<>>
    BY <1>3 DEF Taken
  <1>6. ASSUME NEW n, NEW k, \A h \in Conn : wire[p][h] \in Seq(Genuine(n, k)),
               NEW h \in Conn
        PROVE  wire'[p][h] \in Seq(Genuine(n, k))
    <2>1. CASE h = g
      BY <1>3, <1>6, <2>1, TailOfSeq DEF Taken
    <2>2. CASE h # g
      BY <1>3, <1>6, <2>2
    <2>. QED  BY <2>1, <2>2
  <1>. QED  BY <1>3, <1>4, <1>5, <1>6, TwoPeers DEF WireGrowsAtSender

\* What is taken was written by the other end.
LEMMA TakenIsGenuine ==
    ASSUME TypeOK, Books, NEW p \in Peer, NEW g \in Conn, Taken(p, g)
    PROVE  /\ Head(wire[p][g]) \in Genuine(protocol[Other[p]].outgoingMsgId,
                                           protocol[Other[p]].incomingMsgId)
           /\ Head(wire[p][g]) \in ProtocolMessage
           /\ WireOK(protocol[Other[p]], wire'[p])
  <1>. DEFINE n == protocol[Other[p]].outgoingMsgId
              k == protocol[Other[p]].incomingMsgId
  <1>1. \A h \in Conn : wire[p][h] \in Seq(Genuine(n, k))
    BY BooksOpened DEF WireOK
  <1>. HIDE DEF n, k
  <1>2. Head(wire[p][g]) \in Genuine(n, k)
    BY <1>1, TailOfSeq DEF Taken
  <1>3. Genuine(n, k) \subseteq ProtocolMessage
    BY DEF Genuine
  <1>4. \A h \in Conn : wire'[p][h] \in Seq(Genuine(n, k))
    BY <1>1, TakenWires
  <1>. QED  BY <1>2, <1>3, <1>4 DEF WireOK, n, k

\* No end that takes a message needs more or less of the stream to the other end.
Receives(r, t) ==
    /\ t \in ProtocolFields
    /\ t.conn = r.conn
    /\ t.isReconnecting = r.isReconnecting
    /\ t.outgoingMsgId = r.outgoingMsgId
    /\ t.data = r.data
    /\ t.replayAsked => r.replayAsked

\* The streams stay in order when an end takes a message that brings nothing new, or
\* the one that is due.
LEMMA StreamsAfterTaking ==
    ASSUME TypeOK, StreamsOK, NEW p \in Peer, NEW t, NEW g \in Conn, g = protocol[p].conn,
           Taken(p, g), Becomes(p, t), Receives(protocol[p], t), broken' = broken,
           \/ /\ t.incomingMsgId = protocol[p].incomingMsgId
              /\ \/ ~Regular(Head(wire[p][g]))
                 \/ Head(wire[p][g]).id <= protocol[p].incomingMsgId
           \/ /\ t.incomingMsgId = protocol[p].incomingMsgId + 1
              /\ Head(wire[p][g]).id = t.incomingMsgId
    PROVE  StreamsOK'
  <1>. DEFINE o == Other[p]
              w == wire[p][g]
              s == Stream(p)
  <1>1. Calm(p) /\ Flows(p) /\ Calm(o) /\ Flows(o) /\ Apart
    BY TwoPeers, StreamsParts
  <1>2. /\ protocol'[p] = t
        /\ protocol'[o] = protocol[o]
    BY BecomesFields
  <1>3. /\ t.conn = protocol[p].conn
        /\ t.data = protocol[p].data
        /\ t.outgoingMsgId = protocol[p].outgoingMsgId
        /\ t.isReconnecting = protocol[p].isReconnecting
        /\ t.replayAsked => protocol[p].replayAsked
    BY DEF Receives
  <1>4. /\ wire'[p][g] = Tail(w)
        /\ \A h \in Conn : h # g => wire'[p][h] = wire[p][h]
        /\ wire'[o] = wire[o]
    BY TakenWires
  <1>5. SameConns /\ Live' = Live
    BY <1>3, StreamAfter
  <1>6. w \in Seq(ProtocolMessage) /\ w # <<>> /\ protocol[o].data \in Seq(ProtocolMessage)
    BY TwoPeers, StreamTypes DEF Taken
  <1>7. /\ s \in Seq(ProtocolMessage) /\ s # <<>> /\ Head(s) = Head(w)
        /\ Stream(p)' = Tail(s)
    <2>1. /\ s = IF Live THEN w \o protocol[o].data ELSE w
          /\ Stream(p)' = IF Live THEN Tail(w) \o protocol[o].data ELSE Tail(w)
      BY <1>3, <1>4, StreamAfter DEF Stream
    <2>2. s \in Seq(ProtocolMessage)
      BY StreamTypes
    <2>. HIDE DEF w, s
    <2>3. /\ w \o protocol[o].data # <<>>
          /\ Head(w \o protocol[o].data) = Head(w)
          /\ Tail(w \o protocol[o].data) = Tail(w) \o protocol[o].data
      BY <1>6, HeadOfConcat
    <2>. QED  BY <1>6, <2>1, <2>2, <2>3
  <1>8. Stream(o)' = Stream(o)
    <2>1. Stream(o)' = IF Live THEN wire'[o][protocol[o].conn] \o t.data
                       ELSE wire'[o][protocol[o].conn]
      BY <1>3, StreamAfter
    <2>. QED  BY <1>3, <1>4, <2>1, TwoPeers DEF Stream
  <1>9. Calm(p)'
    <2>1. \A h \in Conn : NoRequest(wire'[p][h])
      BY <1>1, <1>4, <1>6, TailKeeps DEF Calm
    <2>. QED  BY <1>1, <1>2, <1>3, <2>1 DEF Calm
  <1>10. Calm(o)'
    BY <1>1, <1>2, <1>4 DEF Calm
  <1>11. Flows(p)'
    <2>. DEFINE n == protocol[p].incomingMsgId
                k == protocol[o].outgoingMsgId
    <2>1. n \in Nat /\ k \in Nat
      BY TwoPeers, StreamTypes
    <2>2. GapFree(s, n) /\ (Live /\ ~protocol[o].isReconnecting => Covers(s, n, k))
      BY <1>1 DEF Flows
    <2>3. GapFree(Tail(s), t.incomingMsgId)
          /\ (Covers(s, n, k) => Covers(Tail(s), t.incomingMsgId, k))
      <3>1. CASE t.incomingMsgId = n /\ (~Regular(Head(w)) \/ Head(w).id <= n)
        BY <1>7, <2>1, <2>2, <3>1, TailIsGapFree
      <3>2. CASE t.incomingMsgId = n + 1 /\ Head(w).id = n + 1
        BY <1>7, <2>1, <2>2, <3>2, NextIsGapFree
      <3>. QED  BY <3>1, <3>2
    <2>. QED  BY <1>2, <1>5, <1>7, <2>2, <2>3 DEF Flows
  <1>12. Flows(o)'
    <2>1. Other[o] = p
      BY TwoPeers
    <2>. QED  BY <1>1, <1>2, <1>3, <1>5, <1>8, <2>1 DEF Flows
  <1>13. Apart'
    <2>1. \A q \in Peer : protocol'[q].conn = protocol[q].conn
      BY <1>5 DEF SameConns
    <2>2. protocol'[client].data = protocol[client].data
      BY <1>2, <1>3, TwoPeers, Ends
    <2>3. \A h \in Conn : h # protocol[server].conn => NoRegular(wire'[server][h])
      <3>1. CASE p = server
        BY <1>1, <1>4, <3>1 DEF Apart
      <3>2. CASE p = client
        BY <1>1, <1>4, <3>2, Ends DEF Apart
      <3>. QED  BY <3>1, <3>2, Ends
    <2>. QED  BY <1>1, <2>1, <2>2, <2>3, Ends DEF Apart
  <1>. QED  BY <1>9, <1>10, <1>11, <1>12, <1>13, StreamsPartsAfter

\* As long as nothing is swallowed, the message that comes is due or a repetition,
\* and no request for a replay.
LEMMA NothingUnexpected ==
    ASSUME TypeOK, StreamsOK, NEW p \in Peer, Taken(p, protocol[p].conn)
    PROVE  LET m == Head(wire[p][protocol[p].conn])
           IN  /\ m.type # "ReplayRequest"
               /\ Regular(m) => m.id <= protocol[p].incomingMsgId + 1
  <1>. DEFINE g == protocol[p].conn
              w == wire[p][g]
              s == Stream(p)
  <1>1. Calm(p) /\ Flows(p)
    BY StreamsParts
  <1>2. g \in Conn /\ w \in Seq(ProtocolMessage) /\ w # <<>>
    BY StreamTypes, FieldTypes DEF TypeOK, Taken
  <1>3. s \in Seq(ProtocolMessage) /\ s # <<>> /\ Head(s) = Head(w)
    <2>1. s = IF Live THEN w \o protocol[Other[p]].data ELSE w
      BY DEF Stream
    <2>2. protocol[Other[p]].data \in Seq(ProtocolMessage)
      BY TwoPeers, StreamTypes
    <2>3. s \in Seq(ProtocolMessage)
      BY StreamTypes
    <2>. HIDE DEF w, s
    <2>4. /\ w \o protocol[Other[p]].data # <<>>
          /\ Head(w \o protocol[Other[p]].data) = Head(w)
      BY <1>2, <2>2, HeadOfConcat
    <2>. QED  BY <1>2, <2>1, <2>3, <2>4
  <1>4. Regular(Head(w)) => Head(w).id <= protocol[p].incomingMsgId + 1
    BY <1>1, <1>3, StreamTypes, HeadIsNoGap DEF Flows
  <1>5. Head(w).type # "ReplayRequest"
    <2>1. 1 \in 1 .. Len(w) /\ Head(w) = w[1]
      BY <1>2, EmptySeq
    <2>. QED  BY <1>1, <1>2, <2>1 DEF Calm, NoRequest
  <1>. QED  BY <1>4, <1>5

-----------------------------------------------------------------------------
(* The steps that only write.                                              *)

\* The disturbances are counted, and what was swallowed stays swallowed.
LEMMA FaultsCounted ==
    ASSUME TypeOK, \/ UNCHANGED faults
                   \/ \E d \in Disturbance : Disturbed(d)
    PROVE  /\ faults' \in [Disturbance -> Nat]
           /\ NothingSwallowed' => NothingSwallowed
  <1>1. faults \in [Disturbance -> Nat]
    BY DEF TypeOK
  <1>2. CASE UNCHANGED faults
    BY <1>1, <1>2 DEF NothingSwallowed
  <1>3. CASE \E d \in Disturbance : Disturbed(d)
    <2>1. PICK d \in Disturbance : faults' = [faults EXCEPT ![d] = @ + 1]
      BY <1>3 DEF Disturbed
    <2>2. "loss" \in Disturbance
      BY DEF Disturbance
    <2>. QED  BY <1>1, <2>1, <2>2 DEF NothingSwallowed
  <1>. QED  BY <1>2, <1>3

\* Only a disturbance of the kind "loss" swallows.
LEMMA OtherFaults ==
    /\ "mishap" \in Disturbance /\ "loss" \in Disturbance
    /\ "keepAlive" \in Disturbance /\ "silence" \in Disturbance
  BY DEF Disturbance

\* Nothing, and one bare message, are harmless things to write.
LEMMA BareIsHarmless ==
    ASSUME NEW type \in MessageType, type # "Regular", type # "ReplayRequest",
           NEW ack \in Nat, NEW n \in Nat, NEW k \in Nat, ack <= k
    PROVE  LET ms == <<Bare(type, ack)>>
           IN  ms \in Seq(Genuine(n, k)) /\ NoRegular(ms) /\ NoRequest(ms)
  <1>. DEFINE m == Bare(type, ack)
  <1>1. m \in Genuine(n, k) /\ ~Regular(m) /\ m.type = type
    BY BareIsGenuine
  <1>. HIDE DEF m
  <1>2. <<m>> \in Seq(Genuine(n, k))
    BY <1>1
  <1>3. NoRegular(<<m>>) /\ NoRequest(<<m>>)
    BY <1>1 DEF NoRegular, NoRequest
  <1>. QED  BY <1>2, <1>3 DEF m

\* So is nothing.
LEMMA NothingIsHarmless ==
    ASSUME NEW S
    PROVE  <<>> \in Seq(S) /\ NoRegular(<<>>) /\ NoRequest(<<>>)
  BY EmptySeq DEF NoRegular, NoRequest

\* The socket of an end is as it was after a write.
LEMMA WritesAdds ==
    ASSUME NEW r, NEW t, NEW ms, Writes(r, t, ms)
    PROVE  Adds(r, t, ms)
  BY DEF Writes, Adds

\* What is written without regular messages disturbs no stream.
LEMMA HarmlessStreams ==
    ASSUME TypeOK, StreamsOK, NEW p \in Peer, NEW t, NEW ms, Becomes(p, t),
           Adds(protocol[p], t, ms), NoRegular(ms), NoRequest(ms),
           t.isReconnecting = protocol[p].isReconnecting,
           t.outgoingMsgId = protocol[p].outgoingMsgId,
           UNCHANGED <<wire, broken>>
    PROVE  StreamsOK'
  <1>. DEFINE o == Other[p]
  <1>1. Flows(o) /\ Other[o] = p
    BY TwoPeers, StreamsParts
  <1>2. ms \in Seq(ProtocolMessage)
    BY DEF Adds
  <1>3. /\ Stream(o) \in Seq(ProtocolMessage)
        /\ protocol[o].incomingMsgId \in Nat /\ protocol[p].outgoingMsgId \in Nat
    BY TwoPeers, StreamTypes
  <1>4. GapFree(ms, protocol[o].incomingMsgId)
    BY NoRegularIsGapFree
  <1>5. GapFree(Stream(o) \o ms, protocol[o].incomingMsgId)
    BY <1>1, <1>2, <1>3, <1>4, ConcatKeeps DEF Flows
  <1>6. Live /\ ~t.isReconnecting =>
           Covers(Stream(o), protocol[o].incomingMsgId, t.outgoingMsgId)
    BY <1>1 DEF Flows
  <1>7. Live /\ ~t.isReconnecting =>
           Covers(Stream(o) \o ms, protocol[o].incomingMsgId, t.outgoingMsgId)
    BY <1>2, <1>3, <1>6, ConcatKeeps
  <1>. QED  BY <1>5, <1>7, StreamsAfterAdding

\* The sockets are in order when only the fields of an end on its socket changed.
LEMMA SocketsWhenWritten ==
    ASSUME TypeOK, SocketsOK, NEW p \in Peer, NEW t, Becomes(p, t),
           t.conn = protocol[p].conn, t.isReconnecting = protocol[p].isReconnecting,
           broken' = broken, WireGrowsAtSender,
           handshake' = "answered" => handshake = "answered" \/ Live \/ broken[protocol[client].conn]
    PROVE  SocketsOK'
  <1>1. /\ protocol'[p] = t
        /\ protocol'[Other[p]] = protocol[Other[p]]
    BY BecomesFields
  <1>2. SameConns /\ Live' = Live
    BY StreamAfter
  <1>3. protocol'[client].isReconnecting = protocol[client].isReconnecting
        /\ protocol'[client].conn = protocol[client].conn
    BY <1>1, Ends, TwoPeers
  <1>4. Settled
    BY DEF SocketsOK, Settled
  <1>5. Settled'
    BY <1>2, <1>3, <1>4 DEF Settled
  <1>. QED  BY <1>2, <1>5, SocketsStep

\* An end that writes something harmless keeps the invariant.
LEMMA QuietStep ==
    ASSUME IInv, NEW p \in Peer, NEW t, NEW ms, Becomes(p, t),
           Writes(protocol[p], t, ms),
           Watched(protocol[p]) => Watched(t), Written(protocol[p]) => Written(t),
           ms \in Seq(Genuine(protocol[p].outgoingMsgId, protocol[p].incomingMsgId)),
           NoRegular(ms), NoRequest(ms),
           UNCHANGED <<wire, broken, sent, delivered>>,
           UNCHANGED faults \/ \E d \in Disturbance : Disturbed(d),
           handshake' \in {handshake, "asked"}
    PROVE  IInv'
  <1>1. TypeOK /\ NothingWaitsUnarmed /\ Books /\ SocketsOK
        /\ (NothingSwallowed => StreamsOK)
    BY DEF IInv
  <1>2. /\ t \in ProtocolFields
        /\ t.conn = protocol[p].conn
        /\ t.isReconnecting = protocol[p].isReconnecting
        /\ t.outgoingMsgId = protocol[p].outgoingMsgId
    BY DEF Writes
  <1>3. protocol' \in [Peer -> ProtocolFields] /\ NothingWaitsUnarmed'
    BY <1>1, <1>2, TimersStep
  <1>4. faults' \in [Disturbance -> Nat] /\ (NothingSwallowed' => NothingSwallowed)
    BY <1>1, FaultsCounted
  <1>5. TypeOK'
    BY <1>1, <1>3, <1>4 DEF TypeOK
  <1>6. Books'
    BY <1>1, BooksAfterWrite
  <1>7. SocketsOK'
    <2>1. WireGrowsAtSender
      BY DEF WireGrowsAtSender
    <2>2. handshake' = "answered" => handshake = "answered"
      OBVIOUS
    <2>. QED  BY <1>1, <1>2, <2>1, <2>2, SocketsWhenWritten
  <1>8. NothingSwallowed' => StreamsOK'
    BY <1>1, <1>2, <1>4, WritesAdds, HarmlessStreams
  <1>. QED  BY <1>3, <1>5, <1>6, <1>7, <1>8 DEF IInv

\* The fields of an end that is in order.
LEMMA EndTypes ==
    ASSUME IInv, NEW p \in Peer
    PROVE  /\ protocol[p] \in ProtocolFields
           /\ protocol[p].outgoingMsgId \in Nat
           /\ protocol[p].incomingMsgId \in Nat
           /\ protocol \in [Peer -> ProtocolFields]
           /\ Watched(protocol[p]) /\ Written(protocol[p])
  BY FieldTypes, TimersOf DEF IInv, TypeOK

\* The timer of _sendAckCheck.
LEMMA AckTimerKeeps ==
    ASSUME IInv, NEW p \in Peer, AckTimer(p)
    PROVE  IInv'
  <1>. DEFINE r == [protocol[p] EXCEPT !.incomingAckTimeout = FALSE]
              t == IF r.incomingMsgId <= r.incomingAckId THEN r ELSE Acknowledge(r, "Ack")
              m == Bare("Ack", r.incomingMsgId)
  <1>1. protocol[p] \in ProtocolFields /\ protocol[p].outgoingMsgId \in Nat
        /\ protocol[p].incomingMsgId \in Nat
    BY EndTypes
  <1>2. /\ Writes(protocol[p], r, <<>>)
        /\ Watched(protocol[p]) => Watched(r)
        /\ Written(protocol[p]) => Written(r)
        /\ r \in ProtocolFields
        /\ r.incomingMsgId = protocol[p].incomingMsgId
    BY <1>1, NothingAdded DEF Writes, Watched, Written, ProtocolFields
  <1>3. Becomes(p, t) /\ UNCHANGED <<wire, broken, handshake, sent, delivered, faults>>
    BY DEF AckTimer, Becomes
  <1>4. "Ack" \in MessageType
    BY DEF MessageType
  <1>. HIDE DEF r
  <1>5. /\ Writes(r, Acknowledge(r, "Ack"), <<m>>)
        /\ Watched(r) => Watched(Acknowledge(r, "Ack"))
        /\ Written(r) => Written(Acknowledge(r, "Ack"))
    BY <1>2, <1>4, AcknowledgeWrites
  <1>6. CASE r.incomingMsgId <= r.incomingAckId
    BY <1>2, <1>3, <1>6, NothingIsHarmless, QuietStep
  <1>7. CASE ~(r.incomingMsgId <= r.incomingAckId)
    <2>1. t = Acknowledge(r, "Ack")
      BY <1>7
    <2>. HIDE DEF t
    <2>2. <<>> \o <<m>> = <<m>> /\ <<m>> \in Seq(ProtocolMessage)
      BY <1>5, ConcatEmptySeq DEF Writes
    <2>3. Writes(protocol[p], t, <<m>>)
      BY <1>2, <1>5, <2>1, <2>2, WritesAgain
    <2>4. <<m>> \in Seq(Genuine(protocol[p].outgoingMsgId, protocol[p].incomingMsgId))
          /\ NoRegular(<<m>>) /\ NoRequest(<<m>>)
      BY <1>1, <1>2, <1>4, BareIsHarmless
    <2>. QED  BY <1>2, <1>3, <1>5, <2>1, <2>3, <2>4, QuietStep
  <1>. QED  BY <1>6, <1>7

\* The keep-alive interval.
LEMMA KeepAliveKeeps ==
    ASSUME IInv, NEW p \in Peer, KeepAlive(p)
    PROVE  IInv'
  <1>. DEFINE r == protocol[p]
              t == Acknowledge(r, "KeepAlive")
              m == Bare("KeepAlive", r.incomingMsgId)
  <1>1. r \in ProtocolFields /\ r.outgoingMsgId \in Nat /\ r.incomingMsgId \in Nat
    BY EndTypes
  <1>2. /\ Becomes(p, t) /\ UNCHANGED <<wire, broken, handshake, sent, delivered>>
        /\ \E d \in Disturbance : Disturbed(d)
    BY OtherFaults DEF KeepAlive, Becomes
  <1>3. "KeepAlive" \in MessageType
    BY DEF MessageType
  <1>4. /\ Writes(r, t, <<m>>)
        /\ Watched(r) => Watched(t)
        /\ Written(r) => Written(t)
    BY <1>1, <1>3, AcknowledgeWrites
  <1>5. <<m>> \in Seq(Genuine(r.outgoingMsgId, r.incomingMsgId))
        /\ NoRegular(<<m>>) /\ NoRequest(<<m>>)
    BY <1>1, <1>3, BareIsHarmless
  <1>. HIDE DEF t, m
  <1>. QED  BY <1>2, <1>4, <1>5, QuietStep

\* A step that only changes flags of an end.
LEMMA FlagStep ==
    ASSUME IInv, NEW p \in Peer, NEW t, Becomes(p, t),
           Writes(protocol[p], t, <<>>), Watched(t), Written(t),
           UNCHANGED <<wire, broken, handshake, sent, delivered>>,
           UNCHANGED faults \/ \E d \in Disturbance : Disturbed(d)
    PROVE  IInv'
  BY NothingIsHarmless, QuietStep

\* The timer of _recvAckCheck: when something waits, it is seen that it timed out.
LEMMA WatchTimerKeeps ==
    ASSUME IInv, NEW p \in Peer, WatchTimer(p)
    PROVE  IInv'
  <1>. DEFINE r == protocol[p]
              waiting == r.outgoingMsgId > r.outgoingAckId /\ ~r.isReconnecting
              t == [r EXCEPT !.outgoingAckTimeout = FALSE, !.socketTimeout = @ \/ waiting]
  <1>1. r \in ProtocolFields /\ protocol \in [Peer -> ProtocolFields]
        /\ Watched(r) /\ Written(r)
    BY EndTypes
  <1>2. Becomes(p, t)
    BY <1>1 DEF WatchTimer, Becomes, ProtocolFields
  <1>3. /\ UNCHANGED <<wire, broken, handshake, sent, delivered>>
        /\ UNCHANGED faults \/ \E d \in Disturbance : Disturbed(d)
    BY OtherFaults DEF WatchTimer
  <1>4. Writes(r, t, <<>>)
    BY <1>1, NothingAdded DEF Writes, ProtocolFields
  <1>5. Watched(t)
    BY <1>1, FieldTypes DEF Watched, ProtocolFields
  <1>6. Written(t)
    BY <1>1 DEF Written, ProtocolFields
  <1>. HIDE DEF t
  <1>. QED  BY <1>2, <1>3, <1>4, <1>5, <1>6, FlagStep

\* Ten seconds after a request for a replay.
LEMMA ReplayWindowPassesKeeps ==
    ASSUME IInv, NEW p \in Peer, ReplayWindowPasses(p)
    PROVE  IInv'
  <1>. DEFINE r == protocol[p]
              t == [r EXCEPT !.replayAsked = FALSE]
  <1>1. r \in ProtocolFields /\ protocol \in [Peer -> ProtocolFields]
        /\ Watched(r) /\ Written(r)
    BY EndTypes
  <1>2. Becomes(p, t) /\ UNCHANGED <<wire, broken, handshake, sent, delivered, faults>>
    BY <1>1 DEF ReplayWindowPasses, Becomes
  <1>3. Writes(r, t, <<>>) /\ Watched(t) /\ Written(t)
    BY <1>1, NothingAdded DEF Writes, Watched, Written, ProtocolFields
  <1>. HIDE DEF t
  <1>. QED  BY <1>2, <1>3, FlagStep

\* The last listener goes.
LEMMA StopListeningKeeps ==
    ASSUME IInv, NEW p \in Peer, StopListening(p)
    PROVE  IInv'
  <1>. DEFINE r == protocol[p]
              t == [r EXCEPT !.hasListeners = FALSE]
  <1>1. r \in ProtocolFields /\ protocol \in [Peer -> ProtocolFields]
        /\ Watched(r) /\ Written(r)
    BY EndTypes
  <1>2. /\ Becomes(p, t) /\ UNCHANGED <<wire, broken, handshake, sent, delivered>>
        /\ \E d \in Disturbance : Disturbed(d)
    BY <1>1, OtherFaults DEF StopListening, Becomes
  <1>3. Writes(r, t, <<>>) /\ Watched(t) /\ Written(t)
    BY <1>1, NothingAdded DEF Writes, Watched, Written, ProtocolFields
  <1>. HIDE DEF t
  <1>. QED  BY <1>2, <1>3, FlagStep

\* A first listener comes.
LEMMA StartListeningKeeps ==
    ASSUME IInv, NEW p \in Peer, StartListening(p)
    PROVE  IInv'
  <1>. DEFINE r == protocol[p]
              t == [r EXCEPT !.hasListeners = TRUE, !.delivering = TRUE]
  <1>1. r \in ProtocolFields /\ protocol \in [Peer -> ProtocolFields]
        /\ Watched(r) /\ Written(r)
    BY EndTypes
  <1>2. Becomes(p, t) /\ UNCHANGED <<wire, broken, handshake, sent, delivered, faults>>
    BY <1>1 DEF StartListening, Becomes, ProtocolFields
  <1>3. Writes(r, t, <<>>) /\ Watched(t) /\ Written(t)
    BY <1>1, NothingAdded DEF Writes, Watched, Written, ProtocolFields
  <1>. HIDE DEF t
  <1>. QED  BY <1>2, <1>3, FlagStep

\* The handshake's request is written.
LEMMA ClientAsksKeeps ==
    ASSUME IInv, ClientAsks
    PROVE  IInv'
  <1>. DEFINE r == protocol[client]
              m == Bare("Connect", 0)
              t == Write(r, m)
  <1>1. r \in ProtocolFields /\ r.outgoingMsgId \in Nat /\ r.incomingMsgId \in Nat
    BY Ends, EndTypes
  <1>2. Becomes(client, t) /\ UNCHANGED <<wire, broken, sent, delivered, faults>>
        /\ handshake' = "asked"
    BY DEF ClientAsks, Becomes
  <1>3. "Connect" \in MessageType
    BY DEF MessageType
  <1>4. <<m>> \in Seq(Genuine(r.outgoingMsgId, r.incomingMsgId))
        /\ NoRegular(<<m>>) /\ NoRequest(<<m>>)
    BY <1>1, <1>3, BareIsHarmless
  <1>5. m \in ProtocolMessage
    BY <1>1, <1>3, BareIsGenuine
  <1>6. /\ Writes(r, t, <<m>>)
        /\ Watched(r) => Watched(t)
        /\ Written(r) => Written(t)
    BY <1>1, <1>5, WriteWrites
  <1>. HIDE DEF t, m
  <1>. QED  BY <1>2, <1>4, <1>6, Ends, QuietStep

-----------------------------------------------------------------------------
(* Sending, delivering and writing to the socket.                          *)

\* One more payload in order.
LEMMA CountsOneMore ==
    ASSUME NEW s \in Seq(Nat), NEW n \in Nat, Counts(s, n)
    PROVE  Append(s, n + 1) \in Seq(Nat) /\ Counts(Append(s, n + 1), n + 1)
  <1>1. /\ Append(s, n + 1) \in Seq(Nat)
        /\ Len(Append(s, n + 1)) = Len(s) + 1
        /\ \A i \in 1 .. Len(s) : Append(s, n + 1)[i] = s[i]
        /\ Append(s, n + 1)[Len(s) + 1] = n + 1
    BY AppendProperties
  <1>. QED  BY <1>1 DEF Counts

\* One more message is kept.
LEMMA HoldsOneMore ==
    ASSUME NEW S, NEW q \in Seq(S), NEW m \in S, NEW a \in Nat, NEW n \in Nat,
           Holds(q, a, n), Regular(m), m.id = n + 1
    PROVE  Append(q, m) \in Seq(S) /\ Holds(Append(q, m), a, n + 1)
  <1>. DEFINE u == Append(q, m)
  <1>1. /\ u \in Seq(S) /\ Len(u) = Len(q) + 1 /\ Len(q) \in Nat
        /\ \A i \in 1 .. Len(q) : u[i] = q[i]
        /\ u[Len(q) + 1] = m
    BY AppendProperties, LenProperties
  <1>. HIDE DEF u
  <1>2. ASSUME NEW i \in 1 .. Len(u)
        PROVE  u[i].type = "Regular" /\ u[i].id = a + i
    <2>1. CASE i \in 1 .. Len(q)
      BY <1>1, <2>1 DEF Holds
    <2>2. CASE i = Len(q) + 1
      BY <1>1, <2>2 DEF Holds, Regular
    <2>. QED  BY <1>1, <2>1, <2>2
  <1>3. Len(u) = n + 1 - a
    BY <1>1 DEF Holds
  <1>. QED  BY <1>1, <1>2, <1>3 DEF Holds, u

\* The books of the sender after send().
LEMMA EndAfterSend ==
    ASSUME NEW r \in ProtocolFields, NEW t, NEW m \in ProtocolMessage, NEW s \in Seq(Nat),
           NEW d, NEW n, NEW k,
           EndOK(r, s, d, n, k), Sends(r, t, m), Regular(m), m.id = r.outgoingMsgId + 1,
           m.data = m.id, m.ack = r.incomingMsgId
    PROVE  EndOK(t, Append(s, m.data), d, n, k)
  <1>. DEFINE x == r.outgoingMsgId
              y == r.incomingMsgId
              G == Genuine(x + 1, y)
  <1>1. x \in Nat /\ y \in Nat /\ r.outgoingAckId \in Nat
    BY FieldTypes
  <1>2. r.outgoingUnackMsg \in Seq(G) /\ r.data \in Seq(G)
    <2>1. r.outgoingUnackMsg \in Seq(Genuine(x, y)) /\ r.data \in Seq(Genuine(x, y))
      BY DEF EndOK
    <2>. HIDE DEF x, y
    <2>2. \A q \in Seq(Genuine(x, y)) : q \in Seq(G)
      BY <1>1, GenuineGrows
    <2>. QED  BY <2>1, <2>2
  <1>3. m \in G
    BY <1>1 DEF Genuine
  <1>4. Counts(Append(s, m.data), x + 1)
    BY <1>1, CountsOneMore DEF EndOK
  <1>. HIDE DEF G
  <1>5. /\ Append(r.outgoingUnackMsg, m) \in Seq(G)
        /\ Holds(Append(r.outgoingUnackMsg, m), r.outgoingAckId, x + 1)
    BY <1>1, <1>2, <1>3, HoldsOneMore DEF EndOK
  <1>6. t.data \in Seq(G)
    <2>1. <<m>> \in Seq(G)
      BY <1>3
    <2>2. r.data \o <<m>> \in Seq(G)
      BY <1>2, <2>1, ConcatProperties
    <2>. QED  BY <1>2, <2>2 DEF Sends
  <1>7. t.outgoingMsgId = x + 1 /\ t.incomingMsgId = y
        /\ t.outgoingAckId = r.outgoingAckId
        /\ t.outgoingUnackMsg = Append(r.outgoingUnackMsg, m)
        /\ t.bufferedMessages = r.bufferedMessages
    BY DEF Sends
  <1>. HIDE DEF x, y
  <1>8. Handed(d, r.bufferedMessages, y) /\ y <= n /\ r.outgoingAckId <= k
    BY DEF EndOK, y
  <1>. QED  BY <1>4, <1>5, <1>6, <1>7, <1>8 DEF EndOK, G

\* The streams after send(): the message follows all before it.
LEMMA StreamsAfterSend ==
    ASSUME TypeOK, Books, SocketsOK, StreamsOK, NEW p \in Peer, NEW t,
           NEW m \in ProtocolMessage, Becomes(p, t), Sends(protocol[p], t, m),
           Regular(m), m.id = protocol[p].outgoingMsgId + 1,
           UNCHANGED <<wire, broken>>
    PROVE  StreamsOK'
  <1>. DEFINE o == Other[p]
              r == protocol[p]
              n == protocol[o].incomingMsgId
              k == r.outgoingMsgId
              s == Stream(o)
  <1>1. Flows(o) /\ Other[o] = p
    BY TwoPeers, StreamsParts
  <1>2. s \in Seq(ProtocolMessage) /\ n \in Nat /\ k \in Nat /\ r \in ProtocolFields
    BY TwoPeers, StreamTypes, BecomesFields
  <1>3. /\ GapFree(s, n)
        /\ Live /\ ~r.isReconnecting => Covers(s, n, k)
    BY <1>1 DEF Flows
  <1>4. n <= k
    BY <1>1, TwoPeers, BooksOpened DEF EndOK
  <1>5. t.outgoingMsgId = k + 1 /\ t.isReconnecting = r.isReconnecting
    BY DEF Sends
  <1>6. CASE r.isReconnecting
    <2>1. Adds(r, t, <<>>)
      BY <1>2, <1>6, NothingAdded DEF Sends, Adds
    <2>2. s \o <<>> = s
      BY <1>2, ConcatEmptySeq
    <2>3. NoRegular(<<>>) /\ NoRequest(<<>>)
      BY NothingIsHarmless
    <2>. QED  BY <1>3, <1>5, <1>6, <2>1, <2>2, <2>3, StreamsAfterAdding
  <1>7. CASE ~r.isReconnecting
    <2>1. Adds(r, t, <<m>>)
      BY <1>2, <1>7 DEF Sends, Adds
    <2>2. Live => GapFree(s \o <<m>>, n) /\ Covers(s \o <<m>>, n, k + 1)
      BY <1>2, <1>3, <1>4, <1>7, AppendIsGapFree
    <2>3. NoRequest(<<m>>)
      BY DEF NoRequest, Regular
    <2>4. Live \/ broken[r.conn]
      <3>1. CASE p = client
        BY <1>7, <3>1 DEF SocketsOK
      <3>2. CASE p = server
        <4>1. protocol[client].conn \in Conn /\ protocol[server].conn \in Conn
          BY Ends, FieldTypes DEF TypeOK
        <4>2. protocol[client].conn \in Nat /\ protocol[server].conn \in Nat
          BY <4>1, ConnsAreNumbered
        <4>3. protocol[server].conn < protocol[client].conn => broken[protocol[server].conn]
          BY <4>1 DEF SocketsOK
        <4>4. protocol[server].conn <= protocol[client].conn
          BY DEF SocketsOK
        <4>. QED  BY <3>2, <4>2, <4>3, <4>4 DEF Live
      <3>. QED  BY <3>1, <3>2, Ends
    <2>. QED  BY <1>5, <1>7, <2>1, <2>2, <2>3, <2>4, StreamsAfterAdding
  <1>. QED  BY <1>6, <1>7

\* send().
LEMMA SendKeeps ==
    ASSUME IInv, NEW p \in Peer, Send(p)
    PROVE  IInv'
  <1>. DEFINE r == protocol[p]
              o == Other[p]
              m == [type |-> "Regular", id |-> r.outgoingMsgId + 1,
                    ack |-> r.incomingMsgId, data |-> Len(sent[p]) + 1]
              u == [r EXCEPT !.outgoingMsgId = m.id, !.incomingAckId = r.incomingMsgId]
              t == Enqueue(u, m)
  <1>1. TypeOK /\ NothingWaitsUnarmed /\ Books /\ SocketsOK
        /\ (NothingSwallowed => StreamsOK)
    BY DEF IInv
  <1>2. r \in ProtocolFields /\ r.outgoingMsgId \in Nat /\ r.incomingMsgId \in Nat
    BY EndTypes
  <1>3. sent[p] \in Seq(Nat) /\ Len(sent[p]) = r.outgoingMsgId
    BY <1>1, BooksOpened DEF TypeOK, EndOK, Counts
  <1>4. m \in ProtocolMessage
    BY <1>2, <1>3 DEF ProtocolMessage, MessageType
  <1>5. /\ m.id = r.outgoingMsgId + 1 /\ m.data = m.id /\ m.ack = r.incomingMsgId
        /\ Regular(m)
    BY <1>3 DEF Regular
  <1>6. /\ sent' = [sent EXCEPT ![p] = Append(@, m.data)]
        /\ Becomes(p, t)
        /\ UNCHANGED <<wire, broken, handshake, delivered, faults>>
    BY DEF Send, Becomes
  <1>. HIDE DEF m
  <1>7. Sends(r, t, m) /\ Watched(t) /\ (Written(r) => Written(t))
    BY <1>2, <1>4, EnqueueSends
  <1>. HIDE DEF t
  <1>8. t \in ProtocolFields /\ t.conn = r.conn /\ t.isReconnecting = r.isReconnecting
        /\ t.outgoingMsgId = r.outgoingMsgId + 1 /\ t.incomingMsgId = r.incomingMsgId
    BY <1>5, <1>7 DEF Sends
  <1>9. protocol' \in [Peer -> ProtocolFields] /\ NothingWaitsUnarmed'
    BY <1>1, <1>6, <1>7, <1>8, TimersStep
  <1>10. sent' \in [Peer -> Seq(Nat)] /\ sent'[p] = Append(sent[p], m.data)
         /\ sent'[o] = sent[o]
    <2>1. sent \in [Peer -> Seq(Nat)]
      BY <1>1 DEF TypeOK
    <2>2. Append(sent[p], m.data) \in Seq(Nat)
      BY <1>2, <1>3, <1>5, AppendProperties
    <2>. QED  BY <1>6, <2>1, <2>2, TwoPeers
  <1>11. TypeOK'
    BY <1>1, <1>6, <1>9, <1>10 DEF TypeOK
  <1>12. Books'
    <2>1. EndOK(t, sent'[p], delivered'[p],
                protocol[o].outgoingMsgId, protocol[o].incomingMsgId)
      <3>1. EndOK(r, sent[p], delivered[p],
                  protocol[o].outgoingMsgId, protocol[o].incomingMsgId)
        BY <1>1, BooksOpened
      <3>. QED  BY <1>2, <1>3, <1>4, <1>5, <1>6, <1>7, <1>10, <3>1, EndAfterSend
    <2>2. r.outgoingMsgId <= t.outgoingMsgId /\ r.incomingMsgId <= t.incomingMsgId
      BY <1>2, <1>8
    <2>3. WireOK(t, wire[o]) /\ WireOK(protocol[o], wire[p])
      BY <1>1, <1>2, <1>8, <2>2, BooksOpened, WireGrows
    <2>4. wire' = wire /\ delivered' = delivered
      BY <1>6
    <2>. QED  BY <1>1, <1>6, <1>8, <1>10, <2>1, <2>2, <2>3, <2>4, BooksStep
  <1>13. SocketsOK'
    <2>1. WireGrowsAtSender
      BY <1>6 DEF WireGrowsAtSender
    <2>. QED  BY <1>1, <1>6, <1>8, <2>1, SocketsWhenWritten
  <1>14. NothingSwallowed' => StreamsOK'
    <2>1. NothingSwallowed' => NothingSwallowed
      BY <1>6 DEF NothingSwallowed
    <2>. QED  BY <1>1, <1>4, <1>5, <1>6, <1>7, <2>1, StreamsAfterSend
  <1>. QED  BY <1>9, <1>11, <1>12, <1>13, <1>14 DEF IInv

\* What is buffered may be handed over at once.
LEMMA HandedOver ==
    ASSUME NEW d \in Seq(Nat), NEW b \in Seq(Nat), NEW n \in Nat, Handed(d, b, n)
    PROVE  /\ d \o b \in Seq(Nat) /\ Handed(d \o b, <<>>, n)
           /\ Len(d) <= Len(d \o b)
  <1>. DEFINE u == d \o b
  <1>1. /\ u \in Seq(Nat) /\ Len(u) = Len(d) + Len(b) /\ Len(d) \in Nat /\ Len(b) \in Nat
        /\ \A i \in 1 .. Len(d) + Len(b) : u[i] = IF i <= Len(d) THEN d[i] ELSE b[i - Len(d)]
    BY ConcatProperties, LenProperties
  <1>2. Len(<<>>) = 0
    BY EmptySeq
  <1>. HIDE DEF u
  <1>3. ASSUME NEW i \in 1 .. Len(u)
        PROVE  u[i] = i
    <2>1. CASE i <= Len(d)
      <3>1. i \in 1 .. Len(d) /\ u[i] = d[i]
        BY <1>1, <2>1
      <3>. QED  BY <3>1 DEF Handed
    <2>2. CASE i > Len(d)
      <3>1. i - Len(d) \in 1 .. Len(b) /\ Len(d) + (i - Len(d)) = i
        BY <1>1, <2>2
      <3>2. u[i] = b[i - Len(d)]
        BY <1>1, <2>2
      <3>3. b[i - Len(d)] = Len(d) + (i - Len(d))
        BY <3>1 DEF Handed
      <3>. QED  BY <3>1, <3>2, <3>3
    <2>. QED  BY <1>1, <2>1, <2>2
  <1>. QED  BY <1>1, <1>2, <1>3 DEF Handed, u

\* The microtask that delivers.
LEMMA DeliverMessagesKeeps ==
    ASSUME IInv, NEW p \in Peer, DeliverMessages(p)
    PROVE  /\ IInv'
           /\ \E x : delivered' = [delivered EXCEPT ![p] = x] /\ Len(delivered[p]) <= Len(x)
  <1>. DEFINE r == protocol[p]
              o == Other[p]
              t == [r EXCEPT !.delivering = FALSE,
                             !.bufferedMessages = IF r.hasListeners THEN <<>> ELSE @]
              x == IF r.hasListeners THEN delivered[p] \o r.bufferedMessages ELSE delivered[p]
  <1>1. TypeOK /\ NothingWaitsUnarmed /\ Books /\ SocketsOK
        /\ (NothingSwallowed => StreamsOK)
    BY DEF IInv
  <1>2. r \in ProtocolFields /\ protocol \in [Peer -> ProtocolFields]
        /\ Watched(r) /\ Written(r)
    BY EndTypes
  <1>3. /\ Becomes(p, t) /\ delivered' = [delivered EXCEPT ![p] = x]
        /\ UNCHANGED <<wire, broken, handshake, sent, faults>>
    BY <1>2 DEF DeliverMessages, Becomes, ProtocolFields
  <1>4. <<>> \in Seq(Nat)
    BY EmptySeq
  <1>5. /\ t \in ProtocolFields
        /\ t.conn = r.conn /\ t.isReconnecting = r.isReconnecting
        /\ t.outgoingMsgId = r.outgoingMsgId /\ t.outgoingAckId = r.outgoingAckId
        /\ t.incomingMsgId = r.incomingMsgId /\ t.outgoingUnackMsg = r.outgoingUnackMsg
        /\ t.data = r.data /\ t.replayAsked = r.replayAsked
        /\ t.bufferedMessages = IF r.hasListeners THEN <<>> ELSE r.bufferedMessages
    BY <1>2, <1>4 DEF ProtocolFields
  <1>6. Watched(t) /\ Written(t)
    BY <1>2 DEF Watched, Written, ProtocolFields
  <1>7. delivered \in [Peer -> Seq(Nat)] /\ delivered[p] \in Seq(Nat)
        /\ r.bufferedMessages \in Seq(Nat) /\ r.incomingMsgId \in Nat
    BY <1>1, <1>2, FieldTypes DEF TypeOK
  <1>8. EndOK(r, sent[p], delivered[p],
              protocol[o].outgoingMsgId, protocol[o].incomingMsgId)
        /\ WireOK(r, wire[o]) /\ WireOK(protocol[o], wire[p])
    BY <1>1, BooksOpened
  <1>9. x \in Seq(Nat) /\ Handed(x, t.bufferedMessages, t.incomingMsgId)
        /\ Len(delivered[p]) <= Len(x)
    <2>1. Handed(delivered[p], r.bufferedMessages, r.incomingMsgId)
      BY <1>8 DEF EndOK
    <2>2. Len(delivered[p]) \in Nat
      BY <1>7, LenProperties
    <2>3. CASE r.hasListeners
      BY <1>5, <1>7, <2>1, <2>3, HandedOver
    <2>4. CASE ~r.hasListeners
      BY <1>5, <1>7, <2>1, <2>2, <2>4
    <2>. QED  BY <2>3, <2>4
  <1>. HIDE DEF t, x
  <1>10. delivered' \in [Peer -> Seq(Nat)] /\ delivered'[p] = x /\ delivered'[o] = delivered[o]
    BY <1>3, <1>7, <1>9, TwoPeers
  <1>11. protocol' \in [Peer -> ProtocolFields] /\ NothingWaitsUnarmed'
    BY <1>1, <1>3, <1>5, <1>6, TimersStep
  <1>12. TypeOK'
    BY <1>1, <1>3, <1>10, <1>11 DEF TypeOK
  <1>13. Books'
    <2>1. EndOK(t, sent[p], x, protocol[o].outgoingMsgId, protocol[o].incomingMsgId)
      BY <1>5, <1>8, <1>9 DEF EndOK
    <2>2. WireOK(t, wire[o])
      BY <1>5, <1>8 DEF WireOK
    <2>3. r.outgoingMsgId <= t.outgoingMsgId /\ r.incomingMsgId <= t.incomingMsgId
      BY <1>2, <1>5, FieldTypes
    <2>4. wire' = wire /\ sent' = sent
      BY <1>3
    <2>. QED  BY <1>1, <1>3, <1>5, <1>8, <1>10, <2>1, <2>2, <2>3, <2>4, BooksStep
  <1>14. SocketsOK'
    <2>1. WireGrowsAtSender
      BY <1>3 DEF WireGrowsAtSender
    <2>. QED  BY <1>1, <1>3, <1>5, <2>1, SocketsWhenWritten
  <1>15. NothingSwallowed' => StreamsOK'
    <2>1. NothingSwallowed' => NothingSwallowed
      BY <1>3 DEF NothingSwallowed
    <2>2. Adds(r, t, <<>>)
      BY <1>2, <1>5, NothingAdded DEF Adds
    <2>. QED  BY <1>1, <1>3, <1>5, <2>1, <2>2, NothingIsHarmless, HarmlessStreams
  <1>. QED  BY <1>3, <1>9, <1>11, <1>12, <1>13, <1>14, <1>15 DEF IInv

\* Writing to a socket changes that one wire, unless the socket is closed.
LEMMA OnWireWrites ==
    ASSUME TypeOK, NEW q \in Peer, NEW g \in Conn, NEW ms \in Seq(ProtocolMessage)
    PROVE  LET w == OnWire(q, g, ms) IN
           /\ w \in [Peer -> [Conn -> Seq(ProtocolMessage)]]
           /\ w[q][g] = IF broken[g] THEN wire[q][g] ELSE wire[q][g] \o ms
           /\ \A h \in Conn : h # g => w[q][h] = wire[q][h]
           /\ w[Other[q]] = wire[Other[q]]
  <1>. DEFINE w == OnWire(q, g, ms)
  <1>1. wire \in [Peer -> [Conn -> Seq(ProtocolMessage)]] /\ wire[q][g] \in Seq(ProtocolMessage)
    BY DEF TypeOK
  <1>2. wire[q][g] \o ms \in Seq(ProtocolMessage)
    BY <1>1, ConcatProperties
  <1>3. CASE broken[g]
    BY <1>1, <1>3 DEF OnWire
  <1>4. CASE ~broken[g]
    <2>1. w = [wire EXCEPT ![q][g] = wire[q][g] \o ms]
      BY <1>4 DEF OnWire
    <2>2. w \in [Peer -> [Conn -> Seq(ProtocolMessage)]]
      BY <1>1, <1>2, <2>1
    <2>3. w[q][g] = wire[q][g] \o ms /\ \A h \in Conn : h # g => w[q][h] = wire[q][h]
      BY <1>1, <2>1
    <2>4. w[Other[q]] = wire[Other[q]]
      BY <1>1, <2>1, TwoPeers
    <2>. QED  BY <1>4, <2>2, <2>3, <2>4
  <1>. QED  BY <1>3, <1>4

\* And it keeps what is under way genuine.
LEMMA OnWireGenuine ==
    ASSUME TypeOK, NEW q \in Peer, NEW g \in Conn, NEW S, NEW ms \in Seq(S),
           S \subseteq ProtocolMessage, \A h \in Conn : wire[q][h] \in Seq(S)
    PROVE  \A h \in Conn : OnWire(q, g, ms)[q][h] \in Seq(S)
  <1>. DEFINE w == OnWire(q, g, ms)
  <1>1. ms \in Seq(ProtocolMessage)
    BY SeqMonotonic
  <1>2. wire[q][g] \o ms \in Seq(S)
    BY ConcatProperties
  <1>3. /\ w[q][g] = IF broken[g] THEN wire[q][g] ELSE wire[q][g] \o ms
        /\ \A h \in Conn : h # g => w[q][h] = wire[q][h]
    BY <1>1, OnWireWrites
  <1>. QED  BY <1>2, <1>3

\* The streams after the writer's timer.
LEMMA StreamsAfterFlush ==
    ASSUME TypeOK, StreamsOK, NEW p \in Peer, NEW t \in ProtocolFields, Becomes(p, t),
           t.data = <<>>, t.conn = protocol[p].conn,
           t.isReconnecting = protocol[p].isReconnecting,
           t.outgoingMsgId = protocol[p].outgoingMsgId,
           t.incomingMsgId = protocol[p].incomingMsgId,
           t.replayAsked => protocol[p].replayAsked,
           wire' = OnWire(Other[p], protocol[p].conn, protocol[p].data),
           broken' = broken
    PROVE  StreamsOK'
  <1>. DEFINE o == Other[p]
              r == protocol[p]
              g == r.conn
              w == wire[o][g]
  <1>1. Calm(p) /\ Flows(p) /\ Calm(o) /\ Flows(o) /\ Apart
    BY TwoPeers, StreamsParts
  <1>2. /\ protocol'[p] = t
        /\ protocol'[o] = protocol[o]
        /\ r \in ProtocolFields
    BY BecomesFields
  <1>3. r.data \in Seq(ProtocolMessage) /\ g \in Conn /\ o \in Peer /\ Other[o] = p
        /\ protocol[o].conn \in Conn
    BY <1>2, TwoPeers, BecomesFields, FieldTypes
  <1>4. /\ wire'[o][g] = IF broken[g] THEN w ELSE w \o r.data
        /\ \A h \in Conn : h # g => wire'[o][h] = wire[o][h]
        /\ wire'[p] = wire[p]
    <2>. DEFINE x == OnWire(o, g, r.data)
    <2>1. wire' = x
      OBVIOUS
    <2>2. \A q \in Peer, h \in Conn, ms \in Seq(ProtocolMessage) :
            LET y == OnWire(q, h, ms)
            IN  /\ y[q][h] = IF broken[h] THEN wire[q][h] ELSE wire[q][h] \o ms
                /\ \A l \in Conn : l # h => y[q][l] = wire[q][l]
                /\ y[Other[q]] = wire[Other[q]]
      BY OnWireWrites
    <2>3. /\ x[o][g] = IF broken[g] THEN wire[o][g] ELSE wire[o][g] \o r.data
          /\ \A h \in Conn : h # g => x[o][h] = wire[o][h]
          /\ x[Other[o]] = wire[Other[o]]
      <3>. HIDE DEF o, g, r
      <3>. QED  BY <1>3, <2>2
    <2>. HIDE DEF x
    <2>. QED  BY <1>3, <2>1, <2>3
  <1>5. SameConns /\ Live' = Live
    BY StreamAfter
  <1>6. w \in Seq(ProtocolMessage) /\ w \o r.data \in Seq(ProtocolMessage)
    BY <1>3, WireTypes, ConcatProperties
  <1>7. Stream(p)' = Stream(p)
    <2>1. Stream(p)' = IF Live THEN wire'[p][t.conn] \o protocol[o].data ELSE wire'[p][t.conn]
      BY StreamAfter
    <2>. QED  BY <1>4, <2>1 DEF Stream
  <1>8. Stream(o)' = Stream(o)
    <2>1. Stream(o)' = IF Live THEN wire'[o][protocol[o].conn] \o t.data
                       ELSE wire'[o][protocol[o].conn]
      BY StreamAfter
    <2>2. Stream(o) = IF Live THEN wire[o][protocol[o].conn] \o r.data
                      ELSE wire[o][protocol[o].conn]
      BY <1>3 DEF Stream
    <2>3. Live => protocol[o].conn = g /\ ~broken[g]
      BY Ends, TwoPeers DEF Live
    <2>4. ~Live /\ protocol[o].conn = g => broken[g]
      BY Ends, TwoPeers DEF Live
    <2>5. CASE Live
      <3>1. wire'[o][g] \o t.data = w \o r.data
        BY <1>4, <1>6, <2>3, <2>5, ConcatEmptySeq
      <3>. QED  BY <2>1, <2>2, <2>3, <2>5, <3>1
    <2>6. CASE ~Live
      <3>1. wire'[o][protocol[o].conn] = wire[o][protocol[o].conn]
        BY <1>3, <1>4, <2>4, <2>6
      <3>. QED  BY <2>1, <2>2, <2>6, <3>1
    <2>. QED  BY <2>5, <2>6
  <1>9. Calm(p)'
    <2>1. NoRequest(<<>>)
      BY NothingIsHarmless
    <2>. QED  BY <1>1, <1>2, <1>4, <2>1 DEF Calm
  <1>10. Calm(o)'
    <2>1. NoRequest(w \o r.data)
      BY <1>1, <1>3, <1>6, ConcatKeeps DEF Calm
    <2>2. \A h \in Conn : NoRequest(wire'[o][h])
      BY <1>1, <1>4, <2>1 DEF Calm
    <2>. QED  BY <1>1, <1>2, <2>2 DEF Calm
  <1>11. Flows(p)'
    BY <1>1, <1>2, <1>5, <1>7 DEF Flows
  <1>12. Flows(o)'
    BY <1>1, <1>2, <1>3, <1>5, <1>8 DEF Flows
  <1>13. Apart'
    <2>1. \A q \in Peer : protocol'[q].conn = protocol[q].conn
      BY <1>5 DEF SameConns
    <2>2. NoRegular(<<>>)
      BY NothingIsHarmless
    <2>3. CASE p = server
      <3>1. o = client /\ protocol'[client] = protocol[client] /\ wire'[server] = wire[server]
        BY <1>2, <1>4, <2>3, Ends
      <3>. QED  BY <1>1, <2>1, <3>1, Ends DEF Apart
    <2>4. CASE p = client
      <3>1. o = server /\ protocol'[client].data = <<>>
        BY <1>2, <2>4, Ends
      <3>2. g # protocol[server].conn => NoRegular(wire'[server][g])
        <4>1. g # protocol[server].conn /\ ~broken[g] => NoRegular(w) /\ NoRegular(r.data)
          BY <1>1, <1>3, <2>4, <3>1 DEF Apart
        <4>2. g # protocol[server].conn => NoRegular(w)
          BY <1>1, <1>3, <3>1 DEF Apart
        <4>3. NoRegular(w) /\ NoRegular(r.data) => NoRegular(w \o r.data)
          BY <1>3, <1>6, ConcatKeeps
        <4>. QED  BY <1>4, <3>1, <4>1, <4>2, <4>3
      <3>3. \A h \in Conn : h # protocol[server].conn => NoRegular(wire'[server][h])
        BY <1>1, <1>4, <3>1, <3>2 DEF Apart
      <3>. QED  BY <2>1, <2>2, <3>1, <3>3, Ends DEF Apart
    <2>. QED  BY <2>3, <2>4, Ends
  <1>. QED  BY <1>9, <1>10, <1>11, <1>12, <1>13, StreamsPartsAfter

\* The writer's timer.
LEMMA WriteNowKeeps ==
    ASSUME IInv, NEW p \in Peer, WriteNow(p)
    PROVE  IInv'
  <1>. DEFINE r == protocol[p]
              o == Other[p]
              t == [r EXCEPT !.writeNowTimeout = FALSE,
                             !.data = IF r.isPaused THEN @ ELSE <<>>]
  <1>1. TypeOK /\ NothingWaitsUnarmed /\ Books /\ SocketsOK
        /\ (NothingSwallowed => StreamsOK)
    BY DEF IInv
  <1>2. r \in ProtocolFields /\ protocol \in [Peer -> ProtocolFields]
        /\ Watched(r) /\ Written(r)
    BY EndTypes
  <1>3. /\ Becomes(p, t)
        /\ wire' = IF r.isPaused THEN wire ELSE OnWire(o, r.conn, r.data)
        /\ UNCHANGED <<broken, handshake, sent, delivered, faults>>
    BY <1>2 DEF WriteNow, Becomes, ProtocolFields
  <1>4. <<>> \in Seq(ProtocolMessage)
    BY EmptySeq
  <1>5. /\ t \in ProtocolFields
        /\ t.conn = r.conn /\ t.isReconnecting = r.isReconnecting
        /\ t.outgoingMsgId = r.outgoingMsgId /\ t.outgoingAckId = r.outgoingAckId
        /\ t.incomingMsgId = r.incomingMsgId /\ t.outgoingUnackMsg = r.outgoingUnackMsg
        /\ t.replayAsked = r.replayAsked /\ t.bufferedMessages = r.bufferedMessages
        /\ t.data = IF r.isPaused THEN r.data ELSE <<>>
    BY <1>2, <1>4 DEF ProtocolFields
  <1>6. Watched(t) /\ Written(t)
    BY <1>2 DEF Watched, Written, ProtocolFields
  <1>. HIDE DEF t
  <1>7. CASE r.isPaused
    <2>1. Writes(r, t, <<>>)
      BY <1>2, <1>5, <1>7, NothingAdded DEF Writes
    <2>2. wire' = wire
      BY <1>3, <1>7
    <2>. QED  BY <1>3, <1>6, <2>1, <2>2, FlagStep
  <1>8. CASE ~r.isPaused
    <2>1. wire' = OnWire(o, r.conn, r.data) /\ t.data = <<>>
      BY <1>3, <1>5, <1>8
    <2>2. o \in Peer /\ Other[o] = p /\ r.conn \in Conn /\ r.data \in Seq(ProtocolMessage)
      BY <1>2, TwoPeers, FieldTypes
    <2>3. /\ wire' \in [Peer -> [Conn -> Seq(ProtocolMessage)]]
          /\ \A h \in Conn : h # r.conn => wire'[o][h] = wire[o][h]
          /\ wire'[p] = wire[p]
      <3>. DEFINE x == OnWire(o, r.conn, r.data)
      <3>1. /\ x \in [Peer -> [Conn -> Seq(ProtocolMessage)]]
            /\ \A h \in Conn : h # r.conn => x[o][h] = wire[o][h]
            /\ x[Other[o]] = wire[Other[o]]
        BY <1>1, <2>2, OnWireWrites
      <3>2. wire' = x
        BY <2>1
      <3>. HIDE DEF x
      <3>. QED  BY <2>2, <3>1, <3>2
    <2>4. protocol' \in [Peer -> ProtocolFields] /\ NothingWaitsUnarmed'
      BY <1>1, <1>3, <1>5, <1>6, TimersStep
    <2>5. TypeOK'
      BY <1>1, <1>3, <2>3, <2>4 DEF TypeOK
    <2>6. Books'
      <3>. DEFINE G == Genuine(r.outgoingMsgId, r.incomingMsgId)
      <3>1. EndOK(r, sent[p], delivered[p],
                  protocol[o].outgoingMsgId, protocol[o].incomingMsgId)
            /\ WireOK(r, wire[o]) /\ WireOK(protocol[o], wire[p])
        BY <1>1, BooksOpened
      <3>2. G \subseteq ProtocolMessage /\ r.data \in Seq(G)
            /\ \A h \in Conn : wire[o][h] \in Seq(G)
        BY <3>1 DEF EndOK, WireOK, Genuine
      <3>3. WireOK(t, wire'[o])
        <4>. HIDE DEF G
        <4>1. \A h \in Conn : wire'[o][h] \in Seq(G)
          BY <1>1, <2>1, <2>2, <3>2, OnWireGenuine
        <4>. QED  BY <1>5, <4>1 DEF WireOK, G
      <3>4. EndOK(t, sent[p], delivered[p],
                  protocol[o].outgoingMsgId, protocol[o].incomingMsgId)
        BY <1>5, <2>1, <3>1, NothingIsHarmless DEF EndOK
      <3>5. r.outgoingMsgId <= t.outgoingMsgId /\ r.incomingMsgId <= t.incomingMsgId
        BY <1>2, <1>5, FieldTypes
      <3>6. sent' = sent /\ delivered' = delivered
        BY <1>3
      <3>. QED  BY <1>1, <1>3, <1>5, <2>3, <3>1, <3>3, <3>4, <3>5, <3>6, BooksStep
    <2>7. SocketsOK'
      <3>1. WireGrowsAtSender
        <4>1. \A q \in Peer : q = p \/ q = o
          BY TwoPeers
        <4>2. \A h \in Conn : wire'[p][h] = wire[p][h]
          BY <2>3
        <4>3. \A h \in Conn : wire'[o][h] = wire[o][h] \/ h = protocol[Other[o]].conn
          BY <2>2, <2>3
        <4>. QED  BY <4>1, <4>2, <4>3 DEF WireGrowsAtSender
      <3>. QED  BY <1>1, <1>3, <1>5, <3>1, SocketsWhenWritten
    <2>8. NothingSwallowed' => StreamsOK'
      <3>1. NothingSwallowed' => NothingSwallowed
        BY <1>3 DEF NothingSwallowed
      <3>. QED  BY <1>1, <1>3, <1>5, <2>1, <3>1, StreamsAfterFlush
    <2>. QED  BY <2>4, <2>5, <2>6, <2>7, <2>8 DEF IInv
  <1>. QED  BY <1>7, <1>8

-----------------------------------------------------------------------------
(* Receiving.                                                              *)

\* The message an end takes.
LEMMA TakeTakes ==
    ASSUME TypeOK, NEW p \in Peer, NEW types, Take(p, types)
    PROVE  /\ Taken(p, protocol[p].conn)
           /\ Incoming(p) = Head(wire[p][protocol[p].conn])
           /\ Incoming(p).type \in types
           /\ protocol[p].conn \in Conn
  <1>1. protocol[p].conn \in Conn
    BY FieldTypes DEF TypeOK
  <1>. QED  BY <1>1 DEF Take, Taken, Incoming, ConnOf

\* The acknowledgement a message brings is seen to, and the books are in order.
LEMMA AckedKeeps ==
    ASSUME IInv, NEW p \in Peer, Taken(p, protocol[p].conn),
           Incoming(p) = Head(wire[p][protocol[p].conn])
    PROVE  /\ Confirms(protocol[p], Acked(p))
           /\ Watched(Acked(p)) /\ Written(Acked(p))
           /\ EndOK(Acked(p), sent[p], delivered[p],
                    protocol[Other[p]].outgoingMsgId, protocol[Other[p]].incomingMsgId)
  <1>. DEFINE r == protocol[p]
              o == Other[p]
              m == Incoming(p)
              a == Acked(p)
              G == Genuine(r.outgoingMsgId, r.incomingMsgId)
  <1>1. TypeOK /\ Books /\ Watched(r) /\ Written(r) /\ r \in ProtocolFields
    BY EndTypes DEF IInv
  <1>2. r.conn \in Conn
    BY <1>1, FieldTypes
  <1>3. m \in Genuine(protocol[o].outgoingMsgId, protocol[o].incomingMsgId)
        /\ m \in ProtocolMessage
    BY <1>1, <1>2, TakenIsGenuine
  <1>4. m.ack \in Nat /\ m.ack <= protocol[o].incomingMsgId
    BY <1>3 DEF Genuine, ProtocolMessage
  <1>5. EndOK(r, sent[p], delivered[p],
              protocol[o].outgoingMsgId, protocol[o].incomingMsgId)
    BY <1>1, BooksOpened
  <1>6. protocol[o].incomingMsgId <= r.outgoingMsgId
    BY <1>1, TwoPeers, BooksOpened DEF EndOK
  <1>7. m.ack <= r.outgoingMsgId
    <2>1. protocol[o].incomingMsgId \in Nat /\ r.outgoingMsgId \in Nat
      BY <1>1, EndTypes, TwoPeers
    <2>. QED  BY <1>4, <1>6, <2>1
  <1>8. Holds(r.outgoingUnackMsg, r.outgoingAckId, r.outgoingMsgId)
        /\ r.outgoingUnackMsg \in Seq(G)
    BY <1>5 DEF EndOK
  <1>9. a = ReceiveAck(r, m.ack)
    BY DEF Acked
  <1>. HIDE DEF a, m, G
  <1>10. /\ Confirms(r, a)
         /\ a.outgoingUnackMsg \in Seq(G)
         /\ a.outgoingAckId \in {m.ack, r.outgoingAckId}
         /\ Watched(a) /\ Written(a)
    BY <1>1, <1>4, <1>7, <1>8, <1>9, ReceiveAckConfirms
  <1>11. EndOK(a, sent[p], delivered[p],
               protocol[o].outgoingMsgId, protocol[o].incomingMsgId)
    <2>1. a.outgoingAckId <= protocol[o].incomingMsgId
      BY <1>4, <1>5, <1>10 DEF EndOK
    <2>2. a.outgoingMsgId = r.outgoingMsgId /\ a.incomingMsgId = r.incomingMsgId
          /\ a.data = r.data /\ a.bufferedMessages = r.bufferedMessages
          /\ Holds(a.outgoingUnackMsg, a.outgoingAckId, a.outgoingMsgId)
      BY <1>10 DEF Confirms
    <2>. QED  BY <1>5, <1>10, <2>1, <2>2 DEF EndOK, G
  <1>. QED  BY <1>10, <1>11 DEF a

\* What an end does about the message it took leaves the books and the sockets in
\* order.
LEMMA ReceiveStep ==
    ASSUME IInv, NEW p \in Peer, NEW t \in ProtocolFields, Becomes(p, t),
           Taken(p, protocol[p].conn),
           Watched(t), Written(t),
           t.conn = protocol[p].conn, t.isReconnecting = protocol[p].isReconnecting,
           t.outgoingMsgId = protocol[p].outgoingMsgId,
           protocol[p].incomingMsgId <= t.incomingMsgId,
           EndOK(t, sent[p], delivered'[p],
                 protocol[Other[p]].outgoingMsgId, protocol[Other[p]].incomingMsgId),
           delivered' \in [Peer -> Seq(Nat)], delivered'[Other[p]] = delivered[Other[p]],
           UNCHANGED <<broken, sent, faults>>,
           handshake' \in {"none", "begun", "asked", "answered"},
           handshake' = "answered" =>
              handshake = "answered" \/ Live \/ broken[protocol[client].conn]
    PROVE  TypeOK' /\ NothingWaitsUnarmed' /\ Books' /\ SocketsOK'
  <1>. DEFINE r == protocol[p]
              o == Other[p]
              g == r.conn
  <1>1. TypeOK /\ NothingWaitsUnarmed /\ Books /\ SocketsOK
    BY DEF IInv
  <1>2. r \in ProtocolFields /\ g \in Conn
    BY <1>1, BecomesFields, FieldTypes
  <1>3. protocol' \in [Peer -> ProtocolFields] /\ NothingWaitsUnarmed'
    BY <1>1, TimersStep
  <1>4. /\ wire'[o] = wire[o]
        /\ wire' \in [Peer -> [Conn -> Seq(ProtocolMessage)]]
        /\ WireGrowsAtSender
    BY <1>1, <1>2, TakenWires
  <1>5. TypeOK'
    BY <1>1, <1>3, <1>4 DEF TypeOK
  <1>6. WireOK(protocol[o], wire'[p])
    BY <1>1, <1>2, TakenIsGenuine
  <1>7. WireOK(t, wire'[o])
    <2>1. WireOK(r, wire[o]) /\ r.outgoingMsgId <= t.outgoingMsgId
      BY <1>1, <1>2, BooksOpened, FieldTypes
    <2>. QED  BY <1>2, <1>4, <2>1, WireGrows
  <1>8. Books'
    <2>1. sent' = sent /\ r.outgoingMsgId <= t.outgoingMsgId
      BY <1>2, FieldTypes
    <2>. QED  BY <1>1, <1>6, <1>7, <2>1, BooksStep
  <1>9. SocketsOK'
    BY <1>1, <1>4, SocketsWhenWritten
  <1>. QED  BY <1>3, <1>5, <1>8, <1>9

\* A message that brings at most an acknowledgement.
LEMMA AckOnlyStep ==
    ASSUME IInv, NEW p \in Peer, NEW types, Take(p, types), Becomes(p, Acked(p)),
           ~Regular(Incoming(p)) \/ Incoming(p).id <= protocol[p].incomingMsgId,
           UNCHANGED <<broken, handshake, sent, delivered, faults>>
    PROVE  IInv'
  <1>. DEFINE r == protocol[p]
              a == Acked(p)
              g == r.conn
  <1>1. TypeOK /\ (NothingSwallowed => StreamsOK)
    BY DEF IInv
  <1>2. Taken(p, g) /\ Incoming(p) = Head(wire[p][g]) /\ g \in Conn
    BY <1>1, TakeTakes
  <1>3. /\ Confirms(r, a)
        /\ Watched(a) /\ Written(a)
        /\ EndOK(a, sent[p], delivered[p],
                 protocol[Other[p]].outgoingMsgId, protocol[Other[p]].incomingMsgId)
    BY <1>2, AckedKeeps
  <1>. HIDE DEF a
  <1>4. /\ a \in ProtocolFields
        /\ a.conn = r.conn /\ a.isReconnecting = r.isReconnecting
        /\ a.outgoingMsgId = r.outgoingMsgId /\ a.incomingMsgId = r.incomingMsgId
        /\ Receives(r, a)
    BY <1>3 DEF Confirms, Receives
  <1>5. Becomes(p, a)
    BY DEF a
  <1>6. TypeOK' /\ NothingWaitsUnarmed' /\ Books' /\ SocketsOK'
    <2>1. r.incomingMsgId <= a.incomingMsgId
      BY <1>4, FieldTypes
    <2>2. delivered' = delivered /\ delivered \in [Peer -> Seq(Nat)]
          /\ handshake' = handshake /\ handshake \in {"none", "begun", "asked", "answered"}
      BY <1>1 DEF TypeOK
    <2>. QED  BY <1>2, <1>3, <1>4, <1>5, <2>1, <2>2, ReceiveStep
  <1>7. NothingSwallowed' => StreamsOK'
    <2>1. NothingSwallowed' => NothingSwallowed
      BY DEF NothingSwallowed
    <2>. QED  BY <1>1, <1>2, <1>4, <1>5, <2>1, StreamsAfterTaking
  <1>. QED  BY <1>6, <1>7 DEF IInv

\* An acknowledgement or a keep-alive.
LEMMA ReceiveAckOnlyKeeps ==
    ASSUME IInv, NEW p \in Peer, ReceiveAckOnly(p)
    PROVE  IInv'
  <1>1. Take(p, {"Ack", "KeepAlive"}) /\ TypeOK /\ Becomes(p, Acked(p))
        /\ UNCHANGED <<broken, handshake, sent, delivered, faults>>
    BY DEF ReceiveAckOnly, IInv, Becomes
  <1>2. ~Regular(Incoming(p))
    BY <1>1, TakeTakes DEF Regular
  <1>. QED  BY <1>1, <1>2, AckOnlyStep

\* A message seen before.
LEMMA ReceiveRepeatedKeeps ==
    ASSUME IInv, NEW p \in Peer, ReceiveRepeated(p)
    PROVE  IInv'
  <1>1. Take(p, {"Regular"}) /\ Becomes(p, Acked(p))
        /\ Incoming(p).id <= protocol[p].incomingMsgId
        /\ UNCHANGED <<broken, handshake, sent, delivered, faults>>
    BY DEF ReceiveRepeated, Becomes
  <1>. QED  BY <1>1, AckOnlyStep

\* An end that answers a message with harmless ones, or that nothing swallowed could
\* have sent, keeps its books.
LEMMA AnswerStep ==
    ASSUME IInv, NEW p \in Peer, NEW types, Take(p, types), NEW t, NEW ms, Becomes(p, t),
           Writes(Acked(p), t, ms) \/ \E b \in BOOLEAN :
              Writes([Acked(p) EXCEPT !.replayAsked = b], t, ms),
           Watched(t), Written(t),
           ms \in Seq(Genuine(protocol[p].outgoingMsgId, protocol[p].incomingMsgId)),
           UNCHANGED <<broken, handshake, sent, delivered, faults>>
    PROVE  TypeOK' /\ NothingWaitsUnarmed' /\ Books' /\ SocketsOK'
  <1>. DEFINE r == protocol[p]
              a == Acked(p)
              g == r.conn
  <1>1. TypeOK /\ (NothingSwallowed => StreamsOK)
    BY DEF IInv
  <1>2. Taken(p, g) /\ Incoming(p) = Head(wire[p][g]) /\ g \in Conn
    BY <1>1, TakeTakes
  <1>3. /\ Confirms(r, a)
        /\ EndOK(a, sent[p], delivered[p],
                 protocol[Other[p]].outgoingMsgId, protocol[Other[p]].incomingMsgId)
    BY <1>2, AckedKeeps
  <1>. HIDE DEF a
  <1>4. PICK c : /\ Writes(c, t, ms)
                 /\ EndOK(c, sent[p], delivered[p],
                          protocol[Other[p]].outgoingMsgId, protocol[Other[p]].incomingMsgId)
                 /\ c.conn = a.conn /\ c.isReconnecting = a.isReconnecting
                 /\ c.outgoingMsgId = a.outgoingMsgId /\ c.incomingMsgId = a.incomingMsgId
    <2>1. CASE Writes(a, t, ms)
      BY <1>3, <2>1
    <2>2. CASE \E b \in BOOLEAN : Writes([a EXCEPT !.replayAsked = b], t, ms)
      <3>1. PICK b \in BOOLEAN : Writes([a EXCEPT !.replayAsked = b], t, ms)
        BY <2>2
      <3>. DEFINE c == [a EXCEPT !.replayAsked = b]
      <3>2. /\ c.conn = a.conn /\ c.isReconnecting = a.isReconnecting
            /\ c.outgoingMsgId = a.outgoingMsgId /\ c.incomingMsgId = a.incomingMsgId
            /\ c.outgoingUnackMsg = a.outgoingUnackMsg /\ c.outgoingAckId = a.outgoingAckId
            /\ c.data = a.data /\ c.bufferedMessages = a.bufferedMessages
        BY <1>3 DEF Confirms, ProtocolFields
      <3>. HIDE DEF c
      <3>3. EndOK(c, sent[p], delivered[p],
                  protocol[Other[p]].outgoingMsgId, protocol[Other[p]].incomingMsgId)
        BY <1>3, <3>2 DEF EndOK
      <3>4. Writes(c, t, ms)
        BY <3>1 DEF c
      <3>. QED  BY <3>2, <3>3, <3>4
    <2>. QED  BY <2>1, <2>2 DEF a
  <1>5. /\ a.conn = r.conn /\ a.isReconnecting = r.isReconnecting
        /\ a.outgoingMsgId = r.outgoingMsgId /\ a.incomingMsgId = r.incomingMsgId
    BY <1>3 DEF Confirms
  <1>6. EndOK(t, sent[p], delivered[p],
              protocol[Other[p]].outgoingMsgId, protocol[Other[p]].incomingMsgId)
    <2>1. ms \in Seq(Genuine(c.outgoingMsgId, c.incomingMsgId))
      BY <1>4, <1>5
    <2>. QED  BY <1>4, <2>1, EndAfterWrite
  <1>7. /\ t \in ProtocolFields
        /\ t.conn = r.conn /\ t.isReconnecting = r.isReconnecting
        /\ t.outgoingMsgId = r.outgoingMsgId /\ t.incomingMsgId = r.incomingMsgId
    BY <1>4, <1>5 DEF Writes
  <1>8. r.incomingMsgId <= t.incomingMsgId
    BY <1>7, FieldTypes
  <1>9. delivered' = delivered /\ delivered \in [Peer -> Seq(Nat)]
        /\ handshake' = handshake /\ handshake \in {"none", "begun", "asked", "answered"}
    BY <1>1 DEF TypeOK
  <1>. QED  BY <1>2, <1>6, <1>7, <1>8, <1>9, ReceiveStep

\* A request for a replay comes only when something was swallowed.
LEMMA ReceiveReplayRequestKeeps ==
    ASSUME IInv, NEW p \in Peer, ReceiveReplayRequest(p)
    PROVE  IInv'
  <1>. DEFINE r == protocol[p]
              a == Acked(p)
              g == r.conn
              t == Replay(a)
  <1>1. TypeOK /\ (NothingSwallowed => StreamsOK)
    BY DEF IInv
  <1>2. Take(p, {"ReplayRequest"}) /\ Becomes(p, t)
        /\ UNCHANGED <<broken, handshake, sent, delivered, faults>>
    BY DEF ReceiveReplayRequest, Becomes
  <1>3. Taken(p, g) /\ Incoming(p) = Head(wire[p][g]) /\ Incoming(p).type = "ReplayRequest"
    BY <1>1, <1>2, TakeTakes
  <1>4. /\ Confirms(r, a)
        /\ Written(a)
        /\ EndOK(a, sent[p], delivered[p],
                 protocol[Other[p]].outgoingMsgId, protocol[Other[p]].incomingMsgId)
    BY <1>3, AckedKeeps
  <1>5. a \in ProtocolFields
    BY <1>4 DEF Confirms
  <1>6. /\ Writes(a, t, a.outgoingUnackMsg)
        /\ Watched(t) /\ Written(t)
    BY <1>4, <1>5, ReplayWrites
  <1>7. a.outgoingUnackMsg \in Seq(Genuine(r.outgoingMsgId, r.incomingMsgId))
    BY <1>4 DEF EndOK, Confirms
  <1>. HIDE DEF t
  <1>8. TypeOK' /\ NothingWaitsUnarmed' /\ Books' /\ SocketsOK'
    BY <1>2, <1>6, <1>7, AnswerStep
  <1>9. ~NothingSwallowed
    BY <1>1, <1>3, NothingUnexpected
  <1>10. ~NothingSwallowed'
    BY <1>2, <1>9 DEF NothingSwallowed
  <1>. QED  BY <1>8, <1>10 DEF IInv

\* So does a message after a gap.
LEMMA ReceiveAfterGapKeeps ==
    ASSUME IInv, NEW p \in Peer, ReceiveAfterGap(p)
    PROVE  IInv'
  <1>. DEFINE r == protocol[p]
              a == Acked(p)
              g == r.conn
              m == Bare("ReplayRequest", 0)
              b == [a EXCEPT !.replayAsked = TRUE]
              t == IF a.replayAsked THEN a ELSE Write(b, m)
  <1>1. TypeOK /\ (NothingSwallowed => StreamsOK) /\ r \in ProtocolFields
        /\ r.outgoingMsgId \in Nat /\ r.incomingMsgId \in Nat
    BY EndTypes DEF IInv
  <1>2. Take(p, {"Regular"}) /\ Becomes(p, t)
        /\ Incoming(p).id > a.incomingMsgId + 1
        /\ UNCHANGED <<broken, handshake, sent, delivered, faults>>
    BY DEF ReceiveAfterGap, Becomes
  <1>3. Taken(p, g) /\ Incoming(p) = Head(wire[p][g]) /\ Incoming(p).type = "Regular"
        /\ g \in Conn
    BY <1>1, <1>2, TakeTakes
  <1>4. Confirms(r, a) /\ Watched(a) /\ Written(a)
    BY <1>3, AckedKeeps
  <1>5. a \in ProtocolFields /\ a.incomingMsgId = r.incomingMsgId
    BY <1>4 DEF Confirms
  <1>. HIDE DEF a
  <1>6. TypeOK' /\ NothingWaitsUnarmed' /\ Books' /\ SocketsOK'
    <2>1. CASE a.replayAsked
      <3>1. Writes(a, a, <<>>)
        BY <1>5, NothingAdded DEF Writes
      <3>2. Becomes(p, a)
        BY <1>2, <2>1
      <3>. QED  BY <1>2, <1>4, <3>1, <3>2, NothingIsHarmless, AnswerStep DEF a
    <2>2. CASE ~a.replayAsked
      <3>1. m \in ProtocolMessage /\ m \in Genuine(r.outgoingMsgId, r.incomingMsgId)
        BY <1>1, BareIsGenuine DEF MessageType
      <3>2. b \in ProtocolFields /\ Watched(b) /\ Written(b)
        BY <1>4, <1>5 DEF ProtocolFields, Watched, Written
      <3>. HIDE DEF m
      <3>3. Writes(b, Write(b, m), <<m>>) /\ Watched(Write(b, m)) /\ Written(Write(b, m))
        BY <3>1, <3>2, WriteWrites
      <3>4. Becomes(p, Write(b, m))
        BY <1>2, <2>2
      <3>5. <<m>> \in Seq(Genuine(r.outgoingMsgId, r.incomingMsgId))
        BY <3>1
      <3>6. \E c \in BOOLEAN : Writes([a EXCEPT !.replayAsked = c], Write(b, m), <<m>>)
        BY <3>3
      <3>. DEFINE u == Write(b, m)
      <3>. HIDE DEF u
      <3>7. /\ \E c \in BOOLEAN : Writes([Acked(p) EXCEPT !.replayAsked = c], u, <<m>>)
            /\ Watched(u) /\ Written(u) /\ Becomes(p, u)
        BY <3>3, <3>4, <3>6 DEF u, a
      <3>. QED  BY <1>2, <3>5, <3>7, AnswerStep
    <2>. QED  BY <2>1, <2>2
  <1>7. ~NothingSwallowed
    <2>1. Incoming(p) \in ProtocolMessage
      BY <1>1, <1>3, TakenIsGenuine DEF IInv
    <2>2. Incoming(p).id \in Nat
      BY <2>1 DEF ProtocolMessage
    <2>3. StreamsOK => Incoming(p).id <= r.incomingMsgId + 1
      BY <1>1, <1>3, NothingUnexpected DEF Regular
    <2>. QED  BY <1>1, <1>2, <1>5, <2>2, <2>3
  <1>8. ~NothingSwallowed'
    BY <1>2, <1>7 DEF NothingSwallowed
  <1>. QED  BY <1>6, <1>8 DEF IInv

\* The payload that is due is handed over, or buffered behind the others.
LEMMA HandedNext ==
    ASSUME NEW d \in Seq(Nat), NEW b \in Seq(Nat), NEW n \in Nat, Handed(d, b, n)
    PROVE  /\ Append(b, n + 1) \in Seq(Nat) /\ Append(d, n + 1) \in Seq(Nat)
           /\ Handed(d, Append(b, n + 1), n + 1)
           /\ b = <<>> => Handed(Append(d, n + 1), b, n + 1)
           /\ Len(d) <= Len(Append(d, n + 1)) /\ Len(d) <= Len(d)
  <1>. DEFINE x == Append(d, n + 1)
              y == Append(b, n + 1)
  <1>1. /\ x \in Seq(Nat) /\ Len(x) = Len(d) + 1 /\ Len(d) \in Nat
        /\ \A i \in 1 .. Len(d) : x[i] = d[i]
        /\ x[Len(d) + 1] = n + 1
    BY AppendProperties, LenProperties
  <1>2. /\ y \in Seq(Nat) /\ Len(y) = Len(b) + 1 /\ Len(b) \in Nat
        /\ \A i \in 1 .. Len(b) : y[i] = b[i]
        /\ y[Len(b) + 1] = n + 1
    BY AppendProperties, LenProperties
  <1>. HIDE DEF x, y
  <1>3. Handed(d, y, n + 1)
    <2>1. ASSUME NEW i \in 1 .. Len(y)
          PROVE  y[i] = Len(d) + i
      <3>1. CASE i \in 1 .. Len(b)
        BY <1>2, <3>1 DEF Handed
      <3>2. CASE i = Len(b) + 1
        BY <1>1, <1>2, <3>2 DEF Handed
      <3>. QED  BY <1>2, <3>1, <3>2
    <2>. QED  BY <1>1, <1>2, <2>1 DEF Handed
  <1>4. ASSUME b = <<>>
        PROVE  Handed(x, b, n + 1)
    <2>1. Len(b) = 0
      BY <1>4, EmptySeq
    <2>2. ASSUME NEW i \in 1 .. Len(x)
          PROVE  x[i] = i
      <3>1. CASE i \in 1 .. Len(d)
        BY <1>1, <3>1 DEF Handed
      <3>2. CASE i = Len(d) + 1
        BY <1>1, <2>1, <3>2 DEF Handed
      <3>. QED  BY <1>1, <3>1, <3>2
    <2>. QED  BY <1>1, <2>1, <2>2 DEF Handed
  <1>5. Len(d) <= Len(x) /\ Len(d) <= Len(d)
    BY <1>1
  <1>. QED  BY <1>1, <1>2, <1>3, <1>4, <1>5 DEF x, y

\* The message that is due.
LEMMA ReceiveNextKeeps ==
    ASSUME IInv, NEW p \in Peer, ReceiveNext(p)
    PROVE  /\ IInv'
           /\ \E x : delivered' = [delivered EXCEPT ![p] = x] /\ Len(delivered[p]) <= Len(x)
  <1>. DEFINE r == protocol[p]
              o == Other[p]
              g == r.conn
              a == Acked(p)
              m == Incoming(p)
              b == [a EXCEPT !.incomingMsgId = m.id]
              c == SendAckCheck(b)
              fires == c.hasListeners /\ c.bufferedMessages = <<>>
              t == IF fires THEN c ELSE [c EXCEPT !.bufferedMessages = Append(@, m.data)]
              x == IF fires THEN Append(delivered[p], m.data) ELSE delivered[p]
  <1>1. TypeOK /\ Books /\ (NothingSwallowed => StreamsOK) /\ r \in ProtocolFields
        /\ r.outgoingMsgId \in Nat /\ r.incomingMsgId \in Nat
    BY EndTypes DEF IInv
  <1>2. /\ Take(p, {"Regular"}) /\ Becomes(p, t) /\ IsNext(a, m)
        /\ delivered' = [delivered EXCEPT ![p] = x]
        /\ UNCHANGED <<broken, handshake, sent, faults>>
    BY DEF ReceiveNext, Becomes
  <1>3. Taken(p, g) /\ m = Head(wire[p][g]) /\ m.type = "Regular" /\ g \in Conn
    BY <1>1, <1>2, TakeTakes
  <1>4. /\ Confirms(r, a)
        /\ Watched(a) /\ Written(a)
        /\ EndOK(a, sent[p], delivered[p],
                 protocol[o].outgoingMsgId, protocol[o].incomingMsgId)
    BY <1>3, AckedKeeps
  <1>5. /\ a \in ProtocolFields
        /\ a.conn = r.conn /\ a.isReconnecting = r.isReconnecting
        /\ a.outgoingMsgId = r.outgoingMsgId /\ a.incomingMsgId = r.incomingMsgId
        /\ a.data = r.data /\ a.replayAsked = r.replayAsked
        /\ a.bufferedMessages = r.bufferedMessages
    BY <1>4 DEF Confirms
  <1>6. m.id = r.incomingMsgId + 1 /\ m.data = m.id
        /\ m.id <= protocol[o].outgoingMsgId
    <2>1. m \in Genuine(protocol[o].outgoingMsgId, protocol[o].incomingMsgId)
      BY <1>1, <1>3, TakenIsGenuine
    <2>2. m.id \in 1 .. protocol[o].outgoingMsgId /\ m.data = m.id
      BY <1>3, <2>1 DEF Genuine
    <2>. QED  BY <1>2, <1>5, <2>2 DEF IsNext
  <1>. HIDE DEF a
  <1>7. /\ b \in ProtocolFields /\ b.incomingMsgId = m.id
        /\ b.conn = a.conn /\ b.isReconnecting = a.isReconnecting
        /\ b.outgoingMsgId = a.outgoingMsgId /\ b.outgoingAckId = a.outgoingAckId
        /\ b.outgoingUnackMsg = a.outgoingUnackMsg
        /\ b.data = a.data /\ b.replayAsked = a.replayAsked
        /\ b.bufferedMessages = a.bufferedMessages
        /\ Watched(b) /\ Written(b)
    <2>1. m.id \in Nat
      BY <1>1, <1>6
    <2>. QED  BY <1>4, <1>5, <2>1 DEF ProtocolFields, Watched, Written
  <1>. HIDE DEF b
  <1>8. /\ Writes(b, c, <<>>) /\ Watched(c) /\ Written(c)
    BY <1>7, SendAckCheckWrites
  <1>9. /\ c \in ProtocolFields /\ c.incomingMsgId = m.id
        /\ c.conn = r.conn /\ c.isReconnecting = r.isReconnecting
        /\ c.outgoingMsgId = r.outgoingMsgId /\ c.outgoingAckId = a.outgoingAckId
        /\ c.outgoingUnackMsg = a.outgoingUnackMsg
        /\ c.data = r.data /\ (c.replayAsked => r.replayAsked)
        /\ c.bufferedMessages = r.bufferedMessages
    <2>1. b.data = b.data \o <<>>
      BY <1>7, NothingAdded
    <2>. QED  BY <1>5, <1>7, <1>8, <2>1 DEF Writes
  <1>. HIDE DEF c
  <1>10. /\ delivered \in [Peer -> Seq(Nat)] /\ delivered[p] \in Seq(Nat)
         /\ r.bufferedMessages \in Seq(Nat)
         /\ Handed(delivered[p], r.bufferedMessages, r.incomingMsgId)
    BY <1>1, <1>4, <1>5, FieldTypes DEF TypeOK, EndOK
  <1>11. /\ Append(r.bufferedMessages, m.data) \in Seq(Nat)
         /\ Append(delivered[p], m.data) \in Seq(Nat)
         /\ Handed(delivered[p], Append(r.bufferedMessages, m.data), m.id)
         /\ r.bufferedMessages = <<>> =>
               Handed(Append(delivered[p], m.data), r.bufferedMessages, m.id)
         /\ Len(delivered[p]) <= Len(Append(delivered[p], m.data))
         /\ Len(delivered[p]) <= Len(delivered[p])
    BY <1>1, <1>6, <1>10, HandedNext
  <1>. HIDE DEF m
  <1>12. /\ t \in ProtocolFields /\ t.incomingMsgId = m.id
         /\ t.conn = r.conn /\ t.isReconnecting = r.isReconnecting
         /\ t.outgoingMsgId = r.outgoingMsgId /\ t.outgoingAckId = a.outgoingAckId
         /\ t.outgoingUnackMsg = a.outgoingUnackMsg
         /\ t.data = r.data /\ (t.replayAsked => r.replayAsked)
         /\ t.bufferedMessages = IF fires THEN r.bufferedMessages
                                 ELSE Append(r.bufferedMessages, m.data)
         /\ Watched(t) /\ Written(t)
    <2>1. CASE fires
      BY <1>8, <1>9, <2>1
    <2>2. CASE ~fires
      <3>. DEFINE u == [c EXCEPT !.bufferedMessages = Append(@, m.data)]
      <3>1. t = u
        BY <2>2
      <3>2. u.bufferedMessages = Append(r.bufferedMessages, m.data)
        BY <1>9 DEF ProtocolFields
      <3>3. /\ u \in ProtocolFields /\ u.incomingMsgId = m.id
            /\ u.conn = r.conn /\ u.isReconnecting = r.isReconnecting
            /\ u.outgoingMsgId = r.outgoingMsgId /\ u.outgoingAckId = a.outgoingAckId
            /\ u.outgoingUnackMsg = a.outgoingUnackMsg
            /\ u.data = r.data /\ (u.replayAsked => r.replayAsked)
        BY <1>9, <1>11 DEF ProtocolFields
      <3>4. Watched(u) /\ Written(u)
        BY <1>8, <1>9 DEF ProtocolFields, Watched, Written
      <3>. HIDE DEF u
      <3>. QED  BY <2>2, <3>1, <3>2, <3>3, <3>4
    <2>. QED  BY <2>1, <2>2
  <1>13. /\ x \in Seq(Nat) /\ Len(delivered[p]) <= Len(x)
         /\ Handed(x, t.bufferedMessages, t.incomingMsgId)
    <2>1. CASE fires
      BY <1>9, <1>11, <1>12, <2>1
    <2>2. CASE ~fires
      <3>1. x = delivered[p] /\ t.bufferedMessages = Append(r.bufferedMessages, m.data)
        BY <1>12, <2>2
      <3>. QED  BY <1>10, <1>11, <1>12, <3>1
    <2>. QED  BY <2>1, <2>2
  <1>. HIDE DEF t, x
  <1>14. delivered' \in [Peer -> Seq(Nat)] /\ delivered'[p] = x /\ delivered'[o] = delivered[o]
    BY <1>2, <1>10, <1>13, TwoPeers
  <1>15. EndOK(t, sent[p], x, protocol[o].outgoingMsgId, protocol[o].incomingMsgId)
    <2>. DEFINE n == r.outgoingMsgId
                k == r.incomingMsgId
    <2>1. a.outgoingUnackMsg \in Seq(Genuine(n, k)) /\ r.data \in Seq(Genuine(n, k))
      BY <1>4, <1>5 DEF EndOK
    <2>2. n \in Nat /\ k \in Nat /\ k + 1 \in Nat /\ n <= n /\ k <= k + 1
      BY <1>1
    <2>. HIDE DEF n, k
    <2>3. \A s \in Seq(Genuine(n, k)) : s \in Seq(Genuine(n, k + 1))
      BY <2>2, GenuineGrows
    <2>4. a.outgoingUnackMsg \in Seq(Genuine(n, k + 1)) /\ r.data \in Seq(Genuine(n, k + 1))
      BY <2>1, <2>3
    <2>5. t.incomingMsgId = k + 1 /\ t.outgoingMsgId = n
      BY <1>6, <1>12 DEF n, k
    <2>6. /\ Counts(sent[p], t.outgoingMsgId)
          /\ Holds(t.outgoingUnackMsg, t.outgoingAckId, t.outgoingMsgId)
          /\ t.outgoingAckId <= protocol[o].incomingMsgId
      BY <1>4, <1>5, <1>12 DEF EndOK
    <2>7. t.incomingMsgId <= protocol[o].outgoingMsgId
      BY <1>6, <1>12
    <2>8. /\ t.outgoingUnackMsg \in Seq(Genuine(t.outgoingMsgId, t.incomingMsgId))
          /\ t.data \in Seq(Genuine(t.outgoingMsgId, t.incomingMsgId))
      BY <1>12, <2>4, <2>5
    <2>. QED  BY <1>13, <2>6, <2>7, <2>8 DEF EndOK
  <1>16. TypeOK' /\ NothingWaitsUnarmed' /\ Books' /\ SocketsOK'
    <2>1. r.incomingMsgId <= t.incomingMsgId
      BY <1>1, <1>6, <1>12
    <2>2. handshake' = handshake /\ handshake \in {"none", "begun", "asked", "answered"}
      BY <1>1, <1>2 DEF TypeOK
    <2>3. EndOK(t, sent[p], delivered'[p],
                protocol[o].outgoingMsgId, protocol[o].incomingMsgId)
      BY <1>14, <1>15
    <2>. QED  BY <1>2, <1>3, <1>12, <1>14, <2>1, <2>2, <2>3, ReceiveStep
  <1>17. NothingSwallowed' => StreamsOK'
    <2>1. NothingSwallowed' => NothingSwallowed
      BY <1>2 DEF NothingSwallowed
    <2>2. Receives(r, t)
      BY <1>12 DEF Receives
    <2>3. t.incomingMsgId = r.incomingMsgId + 1 /\ Head(wire[p][g]).id = t.incomingMsgId
      BY <1>3, <1>6, <1>12
    <2>. QED  BY <1>1, <1>2, <1>3, <2>1, <2>2, <2>3, StreamsAfterTaking
  <1>. QED  BY <1>2, <1>13, <1>16, <1>17 DEF IInv

\* Pause and Resume.
LEMMA ReceivePauseOrResumeKeeps ==
    ASSUME IInv, NEW p \in Peer, ReceivePauseOrResume(p)
    PROVE  IInv'
  <1>. DEFINE r == protocol[p]
              o == Other[p]
              g == r.conn
              pause == Incoming(p).type = "Pause"
              t == [r EXCEPT !.isPaused = pause, !.writeNowTimeout = @ \/ ~pause]
  <1>1. TypeOK /\ Books /\ (NothingSwallowed => StreamsOK) /\ r \in ProtocolFields
        /\ protocol \in [Peer -> ProtocolFields] /\ Watched(r) /\ Written(r)
    BY EndTypes DEF IInv
  <1>2. /\ Take(p, {"Pause", "Resume"}) /\ Becomes(p, t)
        /\ UNCHANGED <<broken, handshake, sent, delivered, faults>>
    BY <1>1 DEF ReceivePauseOrResume, Becomes, ProtocolFields
  <1>3. Taken(p, g) /\ Incoming(p) = Head(wire[p][g])
        /\ Incoming(p).type \in {"Pause", "Resume"} /\ g \in Conn
    BY <1>1, <1>2, TakeTakes
  <1>. HIDE DEF pause
  <1>4. pause \in BOOLEAN
    BY DEF pause
  <1>5. /\ t \in ProtocolFields
        /\ t.conn = r.conn /\ t.isReconnecting = r.isReconnecting
        /\ t.outgoingMsgId = r.outgoingMsgId /\ t.outgoingAckId = r.outgoingAckId
        /\ t.incomingMsgId = r.incomingMsgId /\ t.outgoingUnackMsg = r.outgoingUnackMsg
        /\ t.data = r.data /\ t.replayAsked = r.replayAsked
        /\ t.bufferedMessages = r.bufferedMessages
    BY <1>1, <1>4 DEF ProtocolFields
  <1>6. Watched(t) /\ Written(t)
    BY <1>1, <1>4 DEF Watched, Written, ProtocolFields
  <1>. HIDE DEF t
  <1>7. EndOK(t, sent[p], delivered[p],
              protocol[o].outgoingMsgId, protocol[o].incomingMsgId)
    BY <1>1, <1>5, BooksOpened DEF EndOK
  <1>8. TypeOK' /\ NothingWaitsUnarmed' /\ Books' /\ SocketsOK'
    <2>1. r.incomingMsgId <= t.incomingMsgId
      BY <1>1, <1>5, FieldTypes
    <2>2. delivered' = delivered /\ delivered \in [Peer -> Seq(Nat)]
          /\ handshake' = handshake /\ handshake \in {"none", "begun", "asked", "answered"}
      BY <1>1, <1>2 DEF TypeOK
    <2>. QED  BY <1>2, <1>3, <1>5, <1>6, <1>7, <2>1, <2>2, ReceiveStep
  <1>9. NothingSwallowed' => StreamsOK'
    <2>1. NothingSwallowed' => NothingSwallowed
      BY <1>2 DEF NothingSwallowed
    <2>2. Receives(r, t)
      BY <1>5 DEF Receives
    <2>3. ~Regular(Head(wire[p][g]))
      BY <1>3 DEF Regular
    <2>. QED  BY <1>1, <1>2, <1>3, <1>5, <2>1, <2>2, <2>3, StreamsAfterTaking
  <1>. QED  BY <1>8, <1>9 DEF IInv

\* The answer of the handshake comes in.
LEMMA ClientIsAnsweredKeeps ==
    ASSUME IInv, ClientIsAnswered
    PROVE  IInv'
  <1>. DEFINE r == protocol[client]
              g == r.conn
  <1>1. TypeOK /\ Books /\ SocketsOK /\ (NothingSwallowed => StreamsOK)
        /\ r \in ProtocolFields
        /\ protocol \in [Peer -> ProtocolFields] /\ Watched(r) /\ Written(r)
    BY Ends, EndTypes DEF IInv
  <1>2. /\ Take(client, {"Ok"}) /\ handshake' = "answered"
        /\ Becomes(client, r)
        /\ UNCHANGED <<broken, sent, delivered, faults>>
    BY <1>1, Ends DEF ClientIsAnswered, Becomes
  <1>3. Taken(client, g) /\ Incoming(client) = Head(wire[client][g])
        /\ Incoming(client).type \in {"Ok"} /\ g \in Conn
    BY <1>1, <1>2, Ends, TakeTakes
  <1>4. Live \/ broken[g]
    BY <1>1, <1>3 DEF SocketsOK, Taken, Live
  <1>5. TypeOK' /\ NothingWaitsUnarmed' /\ Books' /\ SocketsOK'
    <2>1. r.incomingMsgId <= r.incomingMsgId
      BY <1>1, FieldTypes
    <2>2. delivered' = delivered /\ delivered \in [Peer -> Seq(Nat)]
          /\ handshake' \in {"none", "begun", "asked", "answered"}
      BY <1>1, <1>2 DEF TypeOK
    <2>3. EndOK(r, sent[client], delivered[client],
                protocol[Other[client]].outgoingMsgId, protocol[Other[client]].incomingMsgId)
      BY <1>1, Ends, BooksOpened
    <2>. QED  BY <1>1, <1>2, <1>3, <1>4, <2>1, <2>2, <2>3, Ends, ReceiveStep
  <1>6. NothingSwallowed' => StreamsOK'
    <2>1. NothingSwallowed' => NothingSwallowed
      BY <1>2 DEF NothingSwallowed
    <2>2. Receives(r, r)
      BY <1>1 DEF Receives
    <2>3. ~Regular(Head(wire[client][g]))
      BY <1>3 DEF Regular
    <2>. QED  BY <1>1, <1>2, <1>3, <2>1, <2>2, <2>3, Ends, StreamsAfterTaking
  <1>. QED  BY <1>5, <1>6 DEF IInv

-----------------------------------------------------------------------------
(* Steps of the sockets.                                                   *)

\* What is under way only becomes less.
Shrinks ==
    /\ wire' \in [Peer -> [Conn -> Seq(ProtocolMessage)]]
    /\ \A q \in Peer : \A h \in Conn : wire'[q][h] # <<>> => wire[q][h] # <<>>
    /\ \A n, k : \A q \in Peer : \A h \in Conn :
          wire[q][h] \in Seq(Genuine(n, k)) => wire'[q][h] \in Seq(Genuine(n, k))

\* When the ends do nothing, all but the streams is in order.
LEMMA IdleStep ==
    ASSUME IInv, UNCHANGED <<protocol, sent, delivered, handshake>>, Shrinks,
           broken' \in [Conn -> BOOLEAN], \A g \in Conn : broken[g] => broken'[g],
           UNCHANGED faults \/ \E d \in Disturbance : Disturbed(d)
    PROVE  /\ TypeOK' /\ NothingWaitsUnarmed' /\ Books' /\ SocketsOK'
           /\ NothingSwallowed' => NothingSwallowed
  <1>1. TypeOK /\ NothingWaitsUnarmed /\ Books /\ SocketsOK
    BY DEF IInv
  <1>2. faults' \in [Disturbance -> Nat] /\ (NothingSwallowed' => NothingSwallowed)
    BY <1>1, FaultsCounted
  <1>3. TypeOK'
    BY <1>1, <1>2 DEF TypeOK, Shrinks
  <1>4. NothingWaitsUnarmed'
    BY <1>1 DEF NothingWaitsUnarmed, UnacknowledgedIsWatched, BufferedIsWritten
  <1>5. Books'
    <2>. SUFFICES ASSUME NEW p \in Peer
                  PROVE  BooksOf(p)'
      BY DEF Books
    <2>1. BooksOf(p) /\ Other[p] \in Peer
      BY <1>1, TwoPeers DEF Books
    <2>2. WireOK(protocol[p], wire'[Other[p]])
      BY <2>1 DEF BooksOf, WireOK, Shrinks
    <2>. QED  BY <2>1, <2>2 DEF BooksOf
  <1>6. SocketsOK'
    <2>1. SameConns
      BY DEF SameConns
    <2>2. WireGrowsAtSender
      BY DEF WireGrowsAtSender, Shrinks
    <2>3. protocol[client].conn \in Conn
      BY <1>1, Ends, FieldTypes DEF TypeOK
    <2>4. Settled'
      BY <1>1, <2>3 DEF Settled, SocketsOK, Live
    <2>. QED  BY <1>1, <2>1, <2>2, <2>4, SocketsStep
  <1>. QED  BY <1>2, <1>3, <1>4, <1>5, <1>6

\* One wire becomes shorter.
LEMMA OneShrinks ==
    ASSUME TypeOK, NEW q \in Peer, NEW h \in Conn, NEW x, wire[q][h] # <<>>,
           wire' = [wire EXCEPT ![q][h] = x],
           \A S : wire[q][h] \in Seq(S) => x \in Seq(S)
    PROVE  /\ Shrinks
           /\ wire'[q][h] = x
           /\ \A g \in Conn : g # h => wire'[q][g] = wire[q][g]
           /\ wire'[Other[q]] = wire[Other[q]]
  <1>1. wire \in [Peer -> [Conn -> Seq(ProtocolMessage)]] /\ wire[q][h] \in Seq(ProtocolMessage)
    BY DEF TypeOK
  <1>2. x \in Seq(ProtocolMessage)
    BY <1>1
  <1>3. /\ wire'[q][h] = x
        /\ \A g \in Conn : g # h => wire'[q][g] = wire[q][g]
        /\ \A p \in Peer : p # q => wire'[p] = wire[p]
    BY <1>1
  <1>4. wire' \in [Peer -> [Conn -> Seq(ProtocolMessage)]]
    BY <1>1, <1>2
  <1>5. ASSUME NEW n, NEW k, NEW p \in Peer, NEW g \in Conn,
               wire[p][g] \in Seq(Genuine(n, k))
        PROVE  wire'[p][g] \in Seq(Genuine(n, k))
    <2>1. CASE p = q /\ g = h
      BY <1>3, <1>5, <2>1
    <2>2. CASE ~(p = q /\ g = h)
      BY <1>3, <1>5, <2>2
    <2>. QED  BY <2>1, <2>2
  <1>6. \A p \in Peer : \A g \in Conn : wire'[p][g] # <<>> => wire[p][g] # <<>>
    BY <1>3
  <1>7. Shrinks
    BY <1>4, <1>5, <1>6 DEF Shrinks
  <1>. QED  BY <1>3, <1>7, TwoPeers

\* Before the last message of a sequence.
LEMMA FrontIsPrefix ==
    ASSUME NEW S, NEW s \in Seq(S), s # <<>>
    PROVE  Front(s) \in Seq(S) /\ \E t \in Seq(S) : s = Front(s) \o t
  <1>. DEFINE n == Len(s)
              f == SubSeq(s, 1, n - 1)
              t == SubSeq(s, n, n)
  <1>1. n \in Nat \ {0} /\ \A i \in 1 .. n : s[i] \in S
    BY EmptySeq, ElementOfSeq
  <1>2. f \in Seq(S) /\ t \in Seq(S)
    <2>1. \A i \in 1 .. n - 1 : s[i] \in S
      BY <1>1
    <2>2. \A i \in n .. n : s[i] \in S
      BY <1>1
    <2>. HIDE DEF n
    <2>3. 1 \in Int /\ n \in Int /\ n - 1 \in Int
      BY <1>1
    <2>. QED  BY <2>1, <2>2, <2>3, SubSeqProperties
  <1>3. f \o t = s
    <2>1. /\ 1 \in 1 .. n + 1 /\ n - 1 \in 1 - 1 .. n /\ n \in n - 1 .. n
      BY <1>1
    <2>2. SubSeq(s, 1, n - 1) \o SubSeq(s, (n - 1) + 1, n) = SubSeq(s, 1, n)
      BY <2>1, ConcatAdjacentSubSeq
    <2>3. (n - 1) + 1 = n
      BY <1>1
    <2>4. SubSeq(s, 1, n) = s
      BY SubSeqFull
    <2>. QED  BY <2>2, <2>3, <2>4
  <1>. QED  BY <1>2, <1>3 DEF Front

\* Without one message in the middle.
LEMMA RemoveAtIsSeq ==
    ASSUME NEW S, NEW s \in Seq(S), NEW i \in DOMAIN s
    PROVE  RemoveAt(s, i) \in Seq(S)
  <1>1. Len(s) \in Nat /\ i \in 1 .. Len(s) /\ \A j \in 1 .. Len(s) : s[j] \in S
    BY LenProperties, ElementOfSeq
  <1>. DEFINE n == Len(s)
              x == SubSeq(s, 1, i - 1)
              y == SubSeq(s, i + 1, n)
  <1>2. \A j \in 1 .. i - 1 : s[j] \in S
    BY <1>1
  <1>3. \A j \in i + 1 .. n : s[j] \in S
    BY <1>1
  <1>. HIDE DEF n
  <1>4. 1 \in Int /\ i - 1 \in Int /\ i + 1 \in Int /\ n \in Int
    BY <1>1 DEF n
  <1>5. x \in Seq(S) /\ y \in Seq(S)
    BY <1>2, <1>3, <1>4, SubSeqProperties
  <1>6. x \o y \in Seq(S)
    BY <1>5, ConcatProperties
  <1>. QED  BY <1>6 DEF RemoveAt, n

\* The streams when the ends do nothing.
LEMMA StreamsWhenIdle ==
    ASSUME TypeOK, StreamsOK, UNCHANGED protocol,
           \A p \in Peer : GapFree(Stream(p)', protocol[p].incomingMsgId),
           Live' => Live /\ \A p \in Peer : Stream(p)' = Stream(p),
           \A p \in Peer : \A g \in Conn : NoRequest(wire[p][g]) => NoRequest(wire'[p][g]),
           \A g \in Conn : NoRegular(wire[server][g]) => NoRegular(wire'[server][g]),
           \A g \in Conn : broken[g] => broken'[g]
    PROVE  StreamsOK'
  <1>1. (\A p \in Peer : Calm(p) /\ Flows(p)) /\ Apart
    BY StreamsParts
  <1>2. \A p \in Peer : Calm(p)'
    BY <1>1 DEF Calm
  <1>3. \A p \in Peer : Flows(p)'
    BY <1>1 DEF Flows
  <1>4. protocol[client].conn \in Conn
    BY Ends, FieldTypes DEF TypeOK
  <1>5. Apart'
    BY <1>1, <1>4 DEF Apart
  <1>. QED  BY <1>2, <1>3, <1>5 DEF StreamsOK, Calm, Flows, Apart

\* A socket closes.
LEMMA BreakKeeps ==
    ASSUME IInv, NEW g \in Conn, Break(g)
    PROVE  IInv'
  <1>1. TypeOK /\ (NothingSwallowed => StreamsOK) /\ protocol[client].conn \in Conn
    BY Ends, EndTypes, FieldTypes DEF IInv
  <1>2. /\ UNCHANGED <<protocol, wire, sent, delivered, handshake>>
        /\ broken' = [broken EXCEPT ![g] = TRUE]
        /\ \E d \in Disturbance : Disturbed(d)
    BY OtherFaults DEF Break
  <1>3. broken' \in [Conn -> BOOLEAN] /\ \A h \in Conn : broken[h] => broken'[h]
    BY <1>1, <1>2 DEF TypeOK
  <1>4. Shrinks
    BY <1>1, <1>2 DEF Shrinks, TypeOK
  <1>5. /\ TypeOK' /\ NothingWaitsUnarmed' /\ Books' /\ SocketsOK'
        /\ NothingSwallowed' => NothingSwallowed
    BY <1>2, <1>3, <1>4, IdleStep
  <1>6. ASSUME StreamsOK
        PROVE  StreamsOK'
    <2>1. Live' => Live
      BY <1>1, <1>2, <1>3 DEF Live
    <2>2. Live' => \A p \in Peer : Stream(p)' = Stream(p)
      BY <1>2, <2>1 DEF Stream
    <2>3. ASSUME NEW p \in Peer
          PROVE  GapFree(Stream(p)', protocol[p].incomingMsgId)
      <3>. DEFINE w == wire[p][protocol[p].conn]
                  d == protocol[Other[p]].data
                  n == protocol[p].incomingMsgId
      <3>1. GapFree(Stream(p), n)
        BY <1>6 DEF StreamsOK
      <3>2. Stream(p) = IF Live THEN w \o d ELSE w
        BY DEF Stream
      <3>3. Stream(p)' = IF Live' THEN w \o d ELSE w
        BY <1>2 DEF Stream
      <3>4. w \in Seq(ProtocolMessage) /\ d \in Seq(ProtocolMessage) /\ n \in Nat
        BY <1>1, TwoPeers, StreamTypes
      <3>. HIDE DEF w, d, n
      <3>5. GapFree(w \o d, n) => GapFree(w, n)
        BY <3>4, PrefixKeeps
      <3>6. GapFree(Stream(p)', n)
        BY <2>1, <3>1, <3>2, <3>3, <3>5
      <3>. QED  BY <3>6 DEF n
    <2>. QED  BY <1>1, <1>2, <1>3, <1>6, <2>1, <2>2, <2>3, StreamsWhenIdle
  <1>. QED  BY <1>1, <1>5, <1>6 DEF IInv

\* A closed socket loses its last message.
LEMMA LoseTailKeeps ==
    ASSUME IInv, NEW q \in Peer, NEW h \in Conn, LoseTail(q, h)
    PROVE  IInv'
  <1>. DEFINE w == wire[q][h]
              x == Front(w)
  <1>1. TypeOK /\ (NothingSwallowed => StreamsOK)
    BY DEF IInv
  <1>2. /\ UNCHANGED <<protocol, broken, sent, delivered, handshake, faults>>
        /\ wire' = [wire EXCEPT ![q][h] = x] /\ w # <<>> /\ broken[h]
    BY DEF LoseTail
  <1>3. \A S : w \in Seq(S) => x \in Seq(S)
    BY <1>2, FrontIsPrefix
  <1>4. w \in Seq(ProtocolMessage) /\ x \in Seq(ProtocolMessage)
    BY <1>1, <1>3, WireTypes
  <1>5. PICK t \in Seq(ProtocolMessage) : w = x \o t
    BY <1>2, <1>4, FrontIsPrefix
  <1>6. /\ Shrinks
        /\ wire'[q][h] = x
        /\ \A g \in Conn : g # h => wire'[q][g] = wire[q][g]
        /\ wire'[Other[q]] = wire[Other[q]]
    BY <1>1, <1>2, <1>3, OneShrinks
  <1>7. /\ TypeOK' /\ NothingWaitsUnarmed' /\ Books' /\ SocketsOK'
        /\ NothingSwallowed' => NothingSwallowed
    BY <1>1, <1>2, <1>6, IdleStep DEF TypeOK
  <1>8. (NoRequest(w) => NoRequest(x)) /\ (NoRegular(w) => NoRegular(x))
        /\ \A n \in Nat : GapFree(w, n) => GapFree(x, n)
    <2>. HIDE DEF w, x
    <2>. QED  BY <1>4, <1>5, PrefixKeeps
  <1>9. \A p \in Peer : p # q => wire'[p] = wire[p]
    BY <1>6, TwoPeers
  <1>10. ASSUME StreamsOK
         PROVE  StreamsOK'
    <2>1. Live' = Live
      BY <1>2 DEF Live
    <2>2. Live => h # protocol[q].conn
      BY <1>2, Ends DEF Live
    <2>3. ASSUME NEW p \in Peer
          PROVE  /\ Stream(p)' = Stream(p) \/ (p = q /\ Stream(p) = w /\ Stream(p)' = x)
                 /\ Live' => Stream(p)' = Stream(p)
      <3>1. protocol[p].conn \in Conn
        BY <1>1, FieldTypes DEF TypeOK
      <3>2. CASE p = q /\ protocol[p].conn = h
        BY <1>2, <1>6, <2>1, <2>2, <3>2 DEF Stream
      <3>3. CASE ~(p = q /\ protocol[p].conn = h)
        <4>1. wire'[p][protocol[p].conn] = wire[p][protocol[p].conn]
          BY <1>6, <1>9, <3>1, <3>3
        <4>. QED  BY <1>2, <2>1, <4>1 DEF Stream
      <3>. QED  BY <3>2, <3>3
    <2>4. ASSUME NEW p \in Peer
          PROVE  GapFree(Stream(p)', protocol[p].incomingMsgId)
      <3>1. GapFree(Stream(p), protocol[p].incomingMsgId)
        BY <1>10 DEF StreamsOK
      <3>2. protocol[p].incomingMsgId \in Nat
        BY EndTypes
      <3>. QED  BY <1>8, <2>3, <3>1, <3>2
    <2>5. \A p \in Peer : \A g \in Conn : NoRequest(wire[p][g]) => NoRequest(wire'[p][g])
      BY <1>6, <1>8, <1>9
    <2>6. \A g \in Conn : NoRegular(wire[server][g]) => NoRegular(wire'[server][g])
      BY <1>6, <1>8, <1>9, Ends
    <2>. QED  BY <1>1, <1>2, <1>10, <2>1, <2>3, <2>4, <2>5, <2>6, StreamsWhenIdle
  <1>. QED  BY <1>1, <1>7, <1>10 DEF IInv

\* The handshake of the server discards what comes before the request.
LEMMA ServerDiscardsKeeps ==
    ASSUME IInv, NEW h \in Conn, ServerDiscards(h)
    PROVE  IInv'
  <1>. DEFINE w == wire[server][h]
              x == Tail(w)
  <1>1. TypeOK /\ (NothingSwallowed => StreamsOK)
    BY DEF IInv
  <1>2. /\ UNCHANGED <<protocol, broken, sent, delivered, handshake, faults>>
        /\ wire' = [wire EXCEPT ![server][h] = x] /\ w # <<>>
        /\ h # protocol[server].conn
    BY DEF ServerDiscards, ConnOf
  <1>3. \A S : w \in Seq(S) => x \in Seq(S)
    BY <1>2, TailOfSeq
  <1>4. w \in Seq(ProtocolMessage)
    BY <1>1, WireTypes, Ends
  <1>5. /\ Shrinks
        /\ wire'[server][h] = x
        /\ \A g \in Conn : g # h => wire'[server][g] = wire[server][g]
        /\ wire'[client] = wire[client]
    <2>1. Taken(server, h)
      BY <1>2 DEF Taken
    <2>2. /\ wire'[server][h] = x
          /\ \A g \in Conn : g # h => wire'[server][g] = wire[server][g]
          /\ wire'[Other[server]] = wire[Other[server]]
          /\ wire' \in [Peer -> [Conn -> Seq(ProtocolMessage)]]
      BY <1>1, <2>1, Ends, TakenWires
    <2>3. wire'[client] = wire[client]
      BY <2>2, Ends
    <2>4. \A q \in Peer : \A g \in Conn :
            \/ wire'[q][g] = wire[q][g]
            \/ q = server /\ g = h
      BY <2>2, <2>3, Ends
    <2>5. Shrinks
      <3>1. ASSUME NEW q \in Peer, NEW g \in Conn
            PROVE  /\ wire'[q][g] # <<>> => wire[q][g] # <<>>
                   /\ \A S : wire[q][g] \in Seq(S) => wire'[q][g] \in Seq(S)
        <4>. HIDE DEF x
        <4>. QED  BY <1>2, <1>3, <2>2, <2>4
      <3>. QED  BY <2>2, <3>1 DEF Shrinks
    <2>. QED  BY <2>2, <2>3, <2>5
  <1>6. /\ TypeOK' /\ NothingWaitsUnarmed' /\ Books' /\ SocketsOK'
        /\ NothingSwallowed' => NothingSwallowed
    BY <1>1, <1>2, <1>5, IdleStep DEF TypeOK
  <1>7. (NoRequest(w) => NoRequest(x)) /\ (NoRegular(w) => NoRegular(x))
    BY <1>2, <1>4, TailKeeps
  <1>8. ASSUME StreamsOK
        PROVE  StreamsOK'
    <2>1. Live' = Live
      BY <1>2 DEF Live
    <2>2. \A p \in Peer : protocol[p].conn \in Conn
      BY <1>1, FieldTypes DEF TypeOK
    <2>3. \A p \in Peer : wire'[p][protocol[p].conn] = wire[p][protocol[p].conn]
      BY <1>2, <1>5, <2>2, Ends
    <2>4. \A p \in Peer : Stream(p)' = Stream(p)
      BY <1>2, <2>1, <2>3 DEF Stream
    <2>5. \A p \in Peer : GapFree(Stream(p)', protocol[p].incomingMsgId)
      BY <1>8, <2>4 DEF StreamsOK
    <2>6. \A p \in Peer : \A g \in Conn : NoRequest(wire[p][g]) => NoRequest(wire'[p][g])
      BY <1>5, <1>7, Ends
    <2>7. \A g \in Conn : NoRegular(wire[server][g]) => NoRegular(wire'[server][g])
      BY <1>5, <1>7
    <2>. QED  BY <1>1, <1>2, <1>8, <2>1, <2>4, <2>5, <2>6, <2>7, StreamsWhenIdle
  <1>. QED  BY <1>1, <1>6, <1>8 DEF IInv

\* A live socket swallows a message.
LEMMA SwallowKeeps ==
    ASSUME IInv, NEW q \in Peer, Swallow(q)
    PROVE  IInv'
  <1>. DEFINE h == protocol[q].conn
              w == wire[q][h]
  <1>1. TypeOK /\ h \in Conn
    BY EndTypes, FieldTypes DEF IInv
  <1>2. PICK i \in DOMAIN w : wire' = [wire EXCEPT ![q][h] = RemoveAt(w, i)]
    BY DEF Swallow, ConnOf
  <1>3. /\ UNCHANGED <<protocol, broken, sent, delivered, handshake>>
        /\ Disturbed("loss")
    BY DEF Swallow
  <1>4. w # <<>>
    BY <1>2
  <1>5. \A S : w \in Seq(S) => RemoveAt(w, i) \in Seq(S)
    BY <1>2, RemoveAtIsSeq
  <1>6. Shrinks
    BY <1>1, <1>2, <1>4, <1>5, OneShrinks
  <1>7. TypeOK' /\ NothingWaitsUnarmed' /\ Books' /\ SocketsOK'
    <2>1. \E d \in Disturbance : Disturbed(d)
      BY <1>3, OtherFaults
    <2>2. broken' \in [Conn -> BOOLEAN] /\ \A g \in Conn : broken[g] => broken'[g]
      BY <1>1, <1>3 DEF TypeOK
    <2>. QED  BY <1>3, <1>6, <2>1, <2>2, IdleStep
  <1>8. ~NothingSwallowed'
    <2>1. faults' = [faults EXCEPT !["loss"] = @ + 1] /\ faults \in [Disturbance -> Nat]
      BY <1>1, <1>3 DEF Disturbed, TypeOK
    <2>. QED  BY <2>1, OtherFaults DEF NothingSwallowed
  <1>. QED  BY <1>7, <1>8 DEF IInv

-----------------------------------------------------------------------------
(* The reconnection.                                                       *)

\* An acknowledgement and a replay are genuine, and bring all that is missing.
LEMMA ReplayCovers ==
    ASSUME NEW r \in ProtocolFields, NEW s, NEW d, NEW n, NEW k \in Nat,
           EndOK(r, s, d, n, k)
    PROVE  LET ms == <<Bare("Ack", r.incomingMsgId)>> \o r.outgoingUnackMsg
           IN  /\ ms \in Seq(Genuine(r.outgoingMsgId, r.incomingMsgId))
               /\ ms \in Seq(ProtocolMessage)
               /\ NoRequest(ms)
               /\ GapFree(ms, k)
               /\ Covers(ms, k, r.outgoingMsgId)
  <1>. DEFINE m == Bare("Ack", r.incomingMsgId)
              q == r.outgoingUnackMsg
              G == Genuine(r.outgoingMsgId, r.incomingMsgId)
  <1>1. /\ q \in Seq(ProtocolMessage) /\ r.outgoingMsgId \in Nat /\ r.incomingMsgId \in Nat
        /\ r.outgoingAckId \in Nat
    BY FieldTypes
  <1>2. "Ack" \in MessageType
    BY DEF MessageType
  <1>3. <<m>> \in Seq(G) /\ NoRegular(<<m>>) /\ NoRequest(<<m>>)
    BY <1>1, <1>2, BareIsHarmless
  <1>4. q \in Seq(G) /\ Holds(q, r.outgoingAckId, r.outgoingMsgId) /\ r.outgoingAckId <= k
    BY DEF EndOK
  <1>. HIDE DEF m, q
  <1>5. <<m>> \o q \in Seq(G) /\ <<m>> \in Seq(ProtocolMessage)
    <2>1. <<m>> \in Seq(ProtocolMessage)
      BY <1>3, GenuineMessages
    <2>. HIDE DEF G
    <2>. QED  BY <1>3, <1>4, <2>1, ConcatProperties
  <1>6. GapFree(q, k) /\ Covers(q, k, r.outgoingMsgId)
    BY <1>1, <1>4, QueueIsGapFree
  <1>7. NoRequest(q)
    BY <1>4 DEF Holds, NoRequest
  <1>8. GapFree(<<m>>, k)
    BY <1>3, NoRegularIsGapFree
  <1>9. NoRequest(<<m>> \o q) /\ GapFree(<<m>> \o q, k)
        /\ Covers(<<m>> \o q, k, r.outgoingMsgId)
    BY <1>1, <1>3, <1>5, <1>6, <1>7, <1>8, ConcatKeeps
  <1>10. <<m>> \o q \in Seq(ProtocolMessage)
    BY <1>5, GenuineMessages
  <1>. QED  BY <1>5, <1>9, <1>10 DEF m, q

\* The listener of the answer ends the reconnection.
LEMMA ClientEndsKeeps ==
    ASSUME IInv, ClientEnds
    PROVE  IInv'
  <1>. DEFINE r == protocol[client]
              q == protocol[server]
              u == [r EXCEPT !.isReconnecting = FALSE]
              t == EndAcceptReconnection(r)
              ms == <<Bare("Ack", r.incomingMsgId)>> \o r.outgoingUnackMsg
  <1>1. TypeOK /\ NothingWaitsUnarmed /\ Books /\ SocketsOK
        /\ (NothingSwallowed => StreamsOK)
    BY DEF IInv
  <1>2. r \in ProtocolFields /\ Watched(r) /\ Written(r)
        /\ r.outgoingMsgId \in Nat /\ r.incomingMsgId \in Nat
        /\ q.incomingMsgId \in Nat
    BY Ends, EndTypes
  <1>3. /\ Becomes(client, t) /\ handshake = "answered" /\ handshake' = "none"
        /\ UNCHANGED <<wire, broken, sent, delivered, faults>>
    BY DEF ClientEnds, Becomes
  <1>4. /\ Writes(u, t, ms) /\ Watched(t) /\ (Written(r) => Written(t))
    BY <1>2, EndAcceptReconnectionWrites
  <1>5. /\ u.conn = r.conn /\ ~u.isReconnecting
        /\ u.outgoingMsgId = r.outgoingMsgId /\ u.outgoingAckId = r.outgoingAckId
        /\ u.incomingMsgId = r.incomingMsgId /\ u.outgoingUnackMsg = r.outgoingUnackMsg
        /\ u.data = r.data /\ u.replayAsked = r.replayAsked
        /\ u.bufferedMessages = r.bufferedMessages
    BY <1>2 DEF ProtocolFields
  <1>. HIDE DEF t, u
  <1>6. /\ t \in ProtocolFields
        /\ t.conn = r.conn /\ ~t.isReconnecting
        /\ t.outgoingMsgId = r.outgoingMsgId /\ t.incomingMsgId = r.incomingMsgId
        /\ Adds(r, t, ms)
    BY <1>4, <1>5 DEF Writes, Adds
  <1>7. EndOK(r, sent[client], delivered[client], q.outgoingMsgId, q.incomingMsgId)
        /\ WireOK(r, wire[server]) /\ WireOK(q, wire[client])
    <2>1. EndOK(r, sent[client], delivered[client],
                protocol[Other[client]].outgoingMsgId, protocol[Other[client]].incomingMsgId)
          /\ WireOK(r, wire[Other[client]]) /\ WireOK(protocol[Other[client]], wire[client])
      BY <1>1, Ends, BooksOpened
    <2>. QED  BY <2>1, Ends
  <1>8. /\ ms \in Seq(Genuine(r.outgoingMsgId, r.incomingMsgId))
        /\ ms \in Seq(ProtocolMessage)
        /\ NoRequest(ms)
        /\ GapFree(ms, q.incomingMsgId)
        /\ Covers(ms, q.incomingMsgId, r.outgoingMsgId)
    BY <1>2, <1>7, ReplayCovers
  <1>. HIDE DEF ms
  <1>9. protocol' \in [Peer -> ProtocolFields] /\ NothingWaitsUnarmed'
    BY <1>1, <1>2, <1>3, <1>4, <1>6, Ends, TimersStep
  <1>10. TypeOK'
    BY <1>1, <1>3, <1>9 DEF TypeOK
  <1>11. Books'
    <2>1. EndOK(u, sent[client], delivered[client], q.outgoingMsgId, q.incomingMsgId)
      BY <1>5, <1>7 DEF EndOK
    <2>2. ms \in Seq(Genuine(u.outgoingMsgId, u.incomingMsgId))
      BY <1>5, <1>8
    <2>3. EndOK(t, sent[client], delivered[client], q.outgoingMsgId, q.incomingMsgId)
      BY <1>4, <2>1, <2>2, EndAfterWrite
    <2>4. WireOK(t, wire[server])
      BY <1>6, <1>7 DEF WireOK
    <2>5. r.outgoingMsgId <= t.outgoingMsgId /\ r.incomingMsgId <= t.incomingMsgId
      BY <1>2, <1>6
    <2>6. sent' = sent /\ delivered' = delivered /\ wire' = wire
          /\ Other[client] = server /\ client \in Peer
      BY <1>3, Ends
    <2>. QED  BY <1>1, <1>3, <1>6, <1>7, <2>3, <2>4, <2>5, <2>6, BooksStep
  <1>12. Live \/ broken[r.conn]
    BY <1>1, <1>3 DEF SocketsOK
  <1>13. SameConns /\ Live' = Live
    BY <1>1, <1>3, <1>6, Ends, StreamAfter
  <1>14. SocketsOK'
    <2>1. WireGrowsAtSender
      BY <1>3 DEF WireGrowsAtSender
    <2>2. protocol'[client].conn = r.conn
      BY <1>13, Ends DEF SameConns
    <2>3. Settled'
      BY <1>3, <1>12, <1>13, <2>2 DEF Settled
    <2>. QED  BY <1>1, <1>3, <1>13, <2>1, <2>3, SocketsStep
  <1>15. ASSUME StreamsOK
         PROVE  StreamsOK'
    <2>1. Flows(server) /\ Other[client] = server /\ client \in Peer
      BY <1>15, Ends, StreamsParts
    <2>2. Stream(server) \in Seq(ProtocolMessage)
      BY <1>1, Ends, StreamTypes
    <2>3. GapFree(Stream(server) \o ms, q.incomingMsgId)
          /\ Covers(Stream(server) \o ms, q.incomingMsgId, t.outgoingMsgId)
      BY <1>2, <1>6, <1>8, <2>1, <2>2, ConcatKeeps DEF Flows
    <2>4. wire' = wire /\ broken' = broken
      BY <1>3
    <2>. QED  BY <1>1, <1>3, <1>6, <1>8, <1>12, <1>15, <2>1, <2>3, <2>4, StreamsAfterAdding
  <1>16. NothingSwallowed' => NothingSwallowed
    BY <1>3 DEF NothingSwallowed
  <1>. QED  BY <1>1, <1>9, <1>10, <1>11, <1>14, <1>15, <1>16 DEF IInv

\* What an end flushes onto the socket it leaves.
Flushed(p) ==
    OnWire(Other[p], protocol[p].conn, IF protocol[p].isPaused THEN <<>> ELSE protocol[p].data)

\* The flush writes genuine messages onto that socket only.
LEMMA FlushedWires ==
    ASSUME TypeOK, Books, NEW p \in Peer
    PROVE  /\ Flushed(p) \in [Peer -> [Conn -> Seq(ProtocolMessage)]]
           /\ \A h \in Conn : h # protocol[p].conn => Flushed(p)[Other[p]][h] = wire[Other[p]][h]
           /\ Flushed(p)[p] = wire[p]
           /\ WireOK(protocol[p], Flushed(p)[Other[p]])
  <1>. DEFINE r == protocol[p]
              o == Other[p]
              g == r.conn
              d == IF r.isPaused THEN <<>> ELSE r.data
              x == OnWire(o, g, d)
              G == Genuine(r.outgoingMsgId, r.incomingMsgId)
  <1>1. r \in ProtocolFields /\ o \in Peer /\ Other[o] = p /\ g \in Conn
    BY TwoPeers, FieldTypes DEF TypeOK
  <1>2. d \in Seq(G) /\ \A h \in Conn : wire[o][h] \in Seq(G)
    BY BooksOpened, EmptySeq DEF EndOK, WireOK
  <1>3. G \subseteq ProtocolMessage
    BY DEF Genuine
  <1>. HIDE DEF d, G, g, o
  <1>4. d \in Seq(ProtocolMessage)
    BY <1>2, <1>3, SeqMonotonic
  <1>5. \A h \in Conn : x[o][h] \in Seq(G)
    BY <1>1, <1>2, <1>3, OnWireGenuine
  <1>6. /\ x \in [Peer -> [Conn -> Seq(ProtocolMessage)]]
        /\ \A h \in Conn : h # g => x[o][h] = wire[o][h]
        /\ x[Other[o]] = wire[Other[o]]
    BY <1>1, <1>4, OnWireWrites
  <1>7. x = Flushed(p)
    BY DEF Flushed, d, g, o
  <1>. HIDE DEF x
  <1>8. WireOK(r, x[o])
    BY <1>5 DEF WireOK, G
  <1>. QED  BY <1>1, <1>6, <1>7, <1>8 DEF g, o

\* And it leaves no gap in the stream to the other end.
LEMMA FlushedStream ==
    ASSUME TypeOK, StreamsOK, NEW p \in Peer
    PROVE  LET o == Other[p] IN
           /\ GapFree(Flushed(p)[o][protocol[o].conn], protocol[o].incomingMsgId)
           /\ \A h \in Conn : NoRequest(Flushed(p)[o][h])
           /\ p = client => \A h \in Conn : h # protocol[server].conn
                               => NoRegular(Flushed(p)[server][h])
  <1>. DEFINE r == protocol[p]
              o == Other[p]
              g == r.conn
              d == IF r.isPaused THEN <<>> ELSE r.data
              x == OnWire(o, g, d)
              w == wire[o][g]
              n == protocol[o].incomingMsgId
  <1>1. r \in ProtocolFields /\ o \in Peer /\ Other[o] = p /\ g \in Conn
        /\ protocol[o].conn \in Conn /\ n \in Nat /\ r.data \in Seq(ProtocolMessage)
    BY TwoPeers, FieldTypes DEF TypeOK
  <1>2. Calm(p) /\ Flows(o) /\ Calm(o) /\ Apart
    BY <1>1, StreamsParts
  <1>3. <<>> \in Seq(ProtocolMessage) /\ NoRegular(<<>>) /\ NoRequest(<<>>)
    BY NothingIsHarmless
  <1>4. d \in Seq(ProtocolMessage) /\ NoRequest(d)
    BY <1>1, <1>2, <1>3 DEF Calm
  <1>5. w \in Seq(ProtocolMessage) /\ NoRequest(w)
    BY <1>1, <1>2, WireTypes DEF Calm
  <1>6. NoRegular(r.data) => NoRegular(d)
    BY <1>3
  <1>7. Stream(o) = IF Live THEN wire[o][protocol[o].conn] \o r.data ELSE wire[o][protocol[o].conn]
    BY <1>1 DEF Stream
  <1>8. d = r.data \/ d = <<>>
    OBVIOUS
  <1>9. Flushed(p) = x
    BY DEF Flushed
  <1>. HIDE DEF d
  <1>10. /\ x[o][g] = IF broken[g] THEN w ELSE w \o d
         /\ \A h \in Conn : h # g => x[o][h] = wire[o][h]
    <2>. HIDE DEF g, o
    <2>. QED  BY <1>1, <1>4, OnWireWrites
  <1>. HIDE DEF x
  <1>11. NoRequest(w \o d) /\ (NoRegular(w) /\ NoRegular(d) => NoRegular(w \o d))
    <2>. HIDE DEF w
    <2>. QED  BY <1>4, <1>5, ConcatKeeps
  <1>12. \A h \in Conn : NoRequest(x[o][h])
    BY <1>2, <1>5, <1>10, <1>11 DEF Calm
  <1>13. GapFree(x[o][protocol[o].conn], n)
    <2>1. GapFree(Stream(o), n)
      BY <1>2 DEF Flows
    <2>2. CASE protocol[o].conn # g
      <3>1. ~Live
        BY <2>2, Ends, TwoPeers DEF Live
      <3>. QED  BY <1>1, <1>7, <1>10, <2>1, <2>2, <3>1
    <2>3. CASE protocol[o].conn = g /\ broken[g]
      <3>1. ~Live
        BY <2>3, Ends, TwoPeers DEF Live
      <3>. QED  BY <1>7, <1>10, <2>1, <2>3, <3>1
    <2>4. CASE protocol[o].conn = g /\ ~broken[g]
      <3>1. Live
        BY <2>4, Ends, TwoPeers DEF Live
      <3>2. GapFree(w \o r.data, n)
        BY <1>7, <2>1, <2>4, <3>1
      <3>3. x[o][protocol[o].conn] = w \o d
        BY <1>10, <2>4
      <3>. HIDE DEF w, n
      <3>4. GapFree(w, n)
        BY <1>1, <1>5, <3>2, PrefixKeeps
      <3>5. w \o <<>> = w
        BY <1>5, ConcatEmptySeq
      <3>. QED  BY <1>8, <3>2, <3>3, <3>4, <3>5
    <2>. QED  BY <2>2, <2>3, <2>4
  <1>14. ASSUME p = client, NEW h \in Conn, h # protocol[server].conn
         PROVE  NoRegular(x[server][h])
    <2>1. o = server
      BY <1>14, Ends
    <2>2. NoRegular(wire[server][h])
      BY <1>2, <1>14 DEF Apart
    <2>3. CASE h # g
      BY <1>10, <2>1, <2>2, <2>3
    <2>4. CASE h = g
      <3>1. ~broken[g] => NoRegular(r.data)
        BY <1>2, <1>14, <2>4 DEF Apart
      <3>. QED  BY <1>6, <1>10, <1>11, <2>1, <2>2, <2>4, <3>1
    <2>. QED  BY <2>3, <2>4
  <1>. QED  BY <1>9, <1>12, <1>13, <1>14

\* The client leaves a socket: what is under way to either end afterwards.
LEMMA ClientBeginsWires ==
    ASSUME IInv, ClientBegins
    PROVE  LET old == protocol[client].conn IN
           /\ wire' \in [Peer -> [Conn -> Seq(ProtocolMessage)]]
           /\ wire'[server] = Flushed(client)[server]
           /\ wire'[client][old] = <<>>
           /\ \A h \in Conn : h # old => wire'[client][h] = wire[client][h]
           /\ \A h \in Conn : h # old => wire'[server][h] = wire[server][h]
           /\ broken' \in [Conn -> BOOLEAN]
           /\ broken'[old]
           /\ \A h \in Conn : h # old => broken'[h] = broken[h]
           /\ WireOK(protocol[client], wire'[server])
           /\ WireOK(protocol[server], wire'[client])
  <1>. DEFINE r == protocol[client]
              old == r.conn
              F == Flushed(client)
  <1>1. TypeOK /\ Books
    BY DEF IInv
  <1>2. old \in Conn /\ client \in Peer /\ Other[client] = server
    BY Ends, EndTypes, FieldTypes
  <1>3. /\ F \in [Peer -> [Conn -> Seq(ProtocolMessage)]]
        /\ \A h \in Conn : h # old => F[Other[client]][h] = wire[Other[client]][h]
        /\ F[client] = wire[client]
        /\ WireOK(r, F[Other[client]])
    BY <1>1, <1>2, FlushedWires
  <1>4. /\ wire' = [F EXCEPT ![client][old] = <<>>]
        /\ broken' = [broken EXCEPT ![old] = TRUE]
    BY <1>2 DEF ClientBegins, Flushed
  <1>5. WireOK(protocol[server], wire[client])
    <2>1. WireOK(protocol[Other[client]], wire[client])
      BY <1>1, <1>2, BooksOpened
    <2>. QED  BY <1>2, <2>1
  <1>. HIDE DEF F, old
  <1>6. <<>> \in Seq(ProtocolMessage)
    BY EmptySeq
  <1>7. /\ wire' \in [Peer -> [Conn -> Seq(ProtocolMessage)]]
        /\ wire'[server] = F[server]
        /\ wire'[client][old] = <<>>
        /\ \A h \in Conn : h # old => wire'[client][h] = F[client][h]
    BY <1>2, <1>3, <1>4, <1>6, Ends
  <1>8. \A h \in Conn : h # old => wire'[client][h] = wire[client][h]
    BY <1>3, <1>7
  <1>9. \A h \in Conn : h # old => wire'[server][h] = wire[server][h]
    BY <1>2, <1>3, <1>7
  <1>10. /\ broken' \in [Conn -> BOOLEAN] /\ broken'[old]
         /\ \A h \in Conn : h # old => broken'[h] = broken[h]
    BY <1>1, <1>2, <1>4 DEF TypeOK
  <1>11. WireOK(r, wire'[server])
    BY <1>2, <1>3, <1>7
  <1>12. WireOK(protocol[server], wire'[client])
    <2>. DEFINE G == Genuine(protocol[server].outgoingMsgId, protocol[server].incomingMsgId)
    <2>1. \A h \in Conn : wire[client][h] \in Seq(G)
      BY <1>5 DEF WireOK
    <2>. HIDE DEF G
    <2>2. <<>> \in Seq(G)
      BY EmptySeq
    <2>3. \A h \in Conn : wire'[client][h] \in Seq(G)
      BY <1>7, <1>8, <2>1, <2>2
    <2>. QED  BY <2>3 DEF WireOK, G
  <1>. QED  BY <1>7, <1>8, <1>9, <1>10, <1>11, <1>12 DEF F, old

\* The client begins on a new socket.
LEMMA ClientBeginsKeeps ==
    ASSUME IInv, ClientBegins
    PROVE  IInv'
  <1>. DEFINE r == protocol[client]
              q == protocol[server]
              old == r.conn
              t == BeginAcceptReconnection(r, old + 1)
  <1>1. TypeOK /\ NothingWaitsUnarmed /\ Books /\ SocketsOK
        /\ (NothingSwallowed => StreamsOK)
    BY DEF IInv
  <1>2. r \in ProtocolFields /\ q \in ProtocolFields
        /\ r.outgoingMsgId \in Nat /\ r.incomingMsgId \in Nat /\ q.incomingMsgId \in Nat
    BY Ends, EndTypes
  <1>3. /\ Becomes(client, t) /\ handshake' = "begun" /\ old < MaxConn
        /\ UNCHANGED faults \/ \E d \in Disturbance : Disturbed(d)
        /\ UNCHANGED <<sent, delivered>>
    BY OtherFaults DEF ClientBegins, Becomes
  <1>4. old \in Conn /\ q.conn \in Conn /\ old \in Nat /\ q.conn \in Nat
        /\ old + 1 \in Conn
    <2>1. old \in Conn /\ q.conn \in Conn
      BY <1>2, FieldTypes
    <2>2. old \in Nat /\ q.conn \in Nat
      BY <2>1, ConnsAreNumbered
    <2>3. old + 1 \in Conn
      BY <1>3, <2>2, ProtocolAssumption DEF Conn
    <2>. QED  BY <2>1, <2>2, <2>3
  <1>5. /\ t \in ProtocolFields
        /\ t.data = <<>> /\ t.conn = old + 1 /\ t.isReconnecting /\ ~t.replayAsked
        /\ t.outgoingUnackMsg = r.outgoingUnackMsg /\ t.outgoingMsgId = r.outgoingMsgId
        /\ t.outgoingAckId = r.outgoingAckId /\ t.incomingMsgId = r.incomingMsgId
        /\ t.bufferedMessages = r.bufferedMessages
        /\ Watched(t) /\ Written(t)
    BY <1>2, <1>4, BeginAcceptReconnectionMoves
  <1>6. /\ wire' \in [Peer -> [Conn -> Seq(ProtocolMessage)]]
        /\ wire'[server] = Flushed(client)[server]
        /\ wire'[client][old] = <<>>
        /\ \A h \in Conn : h # old => wire'[client][h] = wire[client][h]
        /\ \A h \in Conn : h # old => wire'[server][h] = wire[server][h]
        /\ broken' \in [Conn -> BOOLEAN]
        /\ broken'[old]
        /\ \A h \in Conn : h # old => broken'[h] = broken[h]
        /\ WireOK(r, wire'[server])
        /\ WireOK(q, wire'[client])
    BY ClientBeginsWires
  <1>. HIDE DEF t
  <1>7. protocol'[client] = t /\ protocol'[server] = q
    <2>1. protocol'[client] = t /\ protocol'[Other[client]] = protocol[Other[client]]
      BY <1>1, <1>3, Ends, BecomesFields
    <2>. QED  BY <2>1, Ends
  <1>8. protocol' \in [Peer -> ProtocolFields] /\ NothingWaitsUnarmed'
    BY <1>1, <1>3, <1>5, Ends, TimersStep
  <1>9. faults' \in [Disturbance -> Nat] /\ (NothingSwallowed' => NothingSwallowed)
    BY <1>1, <1>3, FaultsCounted
  <1>10. TypeOK'
    BY <1>1, <1>3, <1>6, <1>8, <1>9 DEF TypeOK
  <1>11. Books'
    <2>1. EndOK(r, sent[client], delivered[client], q.outgoingMsgId, q.incomingMsgId)
      <3>1. EndOK(r, sent[client], delivered[client],
                  protocol[Other[client]].outgoingMsgId, protocol[Other[client]].incomingMsgId)
        BY <1>1, Ends, BooksOpened
      <3>. QED  BY <3>1, Ends
    <2>2. EndOK(t, sent[client], delivered[client], q.outgoingMsgId, q.incomingMsgId)
      BY <1>5, <2>1, NothingIsHarmless DEF EndOK
    <2>3. WireOK(t, wire'[server])
      BY <1>5, <1>6 DEF WireOK
    <2>4. r.outgoingMsgId <= t.outgoingMsgId /\ r.incomingMsgId <= t.incomingMsgId
      BY <1>2, <1>5
    <2>5. sent' = sent /\ delivered' = delivered
          /\ Other[client] = server /\ client \in Peer
      BY <1>3, Ends
    <2>. QED  BY <1>1, <1>3, <1>5, <1>6, <2>2, <2>3, <2>4, <2>5, BooksStep
  <1>12. /\ q.conn <= old
         /\ \A h \in Conn : /\ h < old => broken[h]
                            /\ h > old => wire[client][h] = <<>> /\ wire[server][h] = <<>>
                            /\ h # q.conn /\ ~broken[h] => wire[client][h] = <<>>
    BY <1>1 DEF SocketsOK
  <1>13. SocketsOK'
    <2>1. q.conn <= t.conn
      BY <1>4, <1>5, <1>12
    <2>2. ASSUME NEW h \in Conn
          PROVE  /\ h < old + 1 => broken'[h]
                 /\ h > old + 1 => wire'[client][h] = <<>> /\ wire'[server][h] = <<>>
                 /\ h # q.conn /\ ~broken'[h] => wire'[client][h] = <<>>
      <3>1. h \in Nat
        BY ConnsAreNumbered
      <3>2. h < old + 1 => broken'[h]
        <4>1. h < old + 1 => h < old \/ h = old
          BY <1>4, <3>1
        <4>2. h < old => h # old
          BY <1>4, <3>1
        <4>3. h < old => broken[h]
          BY <1>12
        <4>4. h # old => broken'[h] = broken[h]
          BY <1>6
        <4>5. h = old => broken'[h]
          BY <1>6
        <4>. QED  BY <4>1, <4>2, <4>3, <4>4, <4>5
      <3>3. h > old + 1 => wire'[client][h] = <<>> /\ wire'[server][h] = <<>>
        <4>1. h > old + 1 => h > old /\ h # old
          BY <1>4, <3>1
        <4>2. h > old => wire[client][h] = <<>> /\ wire[server][h] = <<>>
          BY <1>12
        <4>3. h # old => wire'[client][h] = wire[client][h] /\ wire'[server][h] = wire[server][h]
          BY <1>6
        <4>. QED  BY <4>1, <4>2, <4>3
      <3>4. h # q.conn /\ ~broken'[h] => wire'[client][h] = <<>>
        BY <1>6, <1>12
      <3>. QED  BY <3>2, <3>3, <3>4
    <2>3. ~(~t.isReconnecting \/ handshake' = "answered")
      BY <1>3, <1>5
    <2>. QED  BY <1>5, <1>7, <2>1, <2>2, <2>3 DEF SocketsOK
  <1>14. ASSUME StreamsOK
         PROVE  StreamsOK'
    <2>1. ~Live'
      BY <1>4, <1>5, <1>7, <1>12 DEF Live
    <2>2. Calm(client) /\ Calm(server)
      BY <1>14, Ends, StreamsParts
    <2>3. NoRegular(<<>>) /\ NoRequest(<<>>)
      BY NothingIsHarmless
    <2>4. /\ GapFree(wire'[server][q.conn], q.incomingMsgId)
          /\ \A h \in Conn : NoRequest(wire'[server][h])
          /\ \A h \in Conn : h # q.conn => NoRegular(wire'[server][h])
      <3>1. LET o == Other[client] IN
              /\ GapFree(Flushed(client)[o][protocol[o].conn], protocol[o].incomingMsgId)
              /\ \A h \in Conn : NoRequest(Flushed(client)[o][h])
              /\ \A h \in Conn : h # protocol[server].conn => NoRegular(Flushed(client)[server][h])
        BY <1>1, <1>14, Ends, FlushedStream
      <3>. QED  BY <1>6, <3>1, Ends
    <2>5. wire'[client][old + 1] = <<>>
      <3>1. PICK h \in Conn : h = old + 1
        BY <1>4
      <3>2. h > old /\ h # old
        BY <1>4, <3>1
      <3>3. wire'[client][h] = wire[client][h] /\ wire[client][h] = <<>>
        BY <1>6, <1>12, <3>2
      <3>. QED  BY <3>1, <3>3
    <2>6. Stream(client)' = <<>> /\ Stream(server)' = wire'[server][q.conn]
      BY <1>5, <1>7, <2>1, <2>5 DEF Stream
    <2>7. Calm(client)'
      BY <1>5, <1>6, <1>7, <2>2, <2>3 DEF Calm
    <2>8. Calm(server)'
      BY <1>7, <2>2, <2>4 DEF Calm
    <2>9. Flows(client)'
      BY <2>1, <2>3, <2>6, NoRegularIsGapFree DEF Flows
    <2>10. Flows(server)'
      BY <1>7, <2>1, <2>4, <2>6 DEF Flows
    <2>11. Apart'
      BY <1>5, <1>7, <2>3, <2>4 DEF Apart
    <2>12. Calm(Other[client])' /\ Flows(Other[client])'
      BY <2>8, <2>10, Ends
    <2>. QED  BY <2>7, <2>9, <2>11, <2>12, Ends, StreamsPartsAfter
  <1>. QED  BY <1>1, <1>8, <1>9, <1>10, <1>11, <1>13, <1>14 DEF IInv

\* The fields the server moves to: on the new socket it begins with an
\* acknowledgement and all that the client may miss.
LEMMA ServerMoves ==
    ASSUME NEW r \in ProtocolFields, NEW g \in Conn, NEW s, NEW d, NEW n, NEW k \in Nat,
           EndOK(r, s, d, n, k)
    PROVE  LET moved == EndAcceptReconnection(BeginAcceptReconnection(r, g))
               t == IF Handover THEN Write(moved, Bare("Resume", 0)) ELSE moved
           IN  /\ t \in ProtocolFields
               /\ t.conn = g /\ ~t.isReconnecting /\ ~t.replayAsked
               /\ t.outgoingMsgId = r.outgoingMsgId /\ t.incomingMsgId = r.incomingMsgId
               /\ Watched(t) /\ Written(t)
               /\ EndOK(t, s, d, n, k)
               /\ NoRequest(t.data)
               /\ GapFree(t.data, k)
               /\ Covers(t.data, k, r.outgoingMsgId)
  <1>. DEFINE b == BeginAcceptReconnection(r, g)
              u == [b EXCEPT !.isReconnecting = FALSE]
              moved == EndAcceptReconnection(b)
              ms == <<Bare("Ack", b.incomingMsgId)>> \o b.outgoingUnackMsg
              m == Bare("Resume", 0)
              t == IF Handover THEN Write(moved, m) ELSE moved
  <1>1. /\ b \in ProtocolFields
        /\ b.data = <<>> /\ b.conn = g /\ ~b.replayAsked
        /\ b.outgoingUnackMsg = r.outgoingUnackMsg /\ b.outgoingMsgId = r.outgoingMsgId
        /\ b.outgoingAckId = r.outgoingAckId /\ b.incomingMsgId = r.incomingMsgId
        /\ b.bufferedMessages = r.bufferedMessages
        /\ Watched(b) /\ Written(b)
    BY BeginAcceptReconnectionMoves
  <1>. HIDE DEF b
  <1>2. Writes(u, moved, ms) /\ Watched(moved) /\ Written(moved)
    BY <1>1, EndAcceptReconnectionWrites
  <1>3. /\ u.data = <<>> /\ u.conn = g /\ ~u.isReconnecting /\ ~u.replayAsked
        /\ u.outgoingUnackMsg = r.outgoingUnackMsg /\ u.outgoingMsgId = r.outgoingMsgId
        /\ u.outgoingAckId = r.outgoingAckId /\ u.incomingMsgId = r.incomingMsgId
        /\ u.bufferedMessages = r.bufferedMessages
    BY <1>1 DEF ProtocolFields
  <1>. HIDE DEF moved, u
  <1>4. EndOK(b, s, d, n, k) /\ EndOK(u, s, d, n, k)
    BY <1>1, <1>3, NothingIsHarmless DEF EndOK
  <1>5. /\ ms \in Seq(Genuine(b.outgoingMsgId, b.incomingMsgId))
        /\ ms \in Seq(ProtocolMessage)
        /\ NoRequest(ms) /\ GapFree(ms, k) /\ Covers(ms, k, b.outgoingMsgId)
    BY <1>1, <1>4, ReplayCovers
  <1>. HIDE DEF ms
  <1>6. EndOK(moved, s, d, n, k)
    <2>1. ms \in Seq(Genuine(u.outgoingMsgId, u.incomingMsgId))
      BY <1>1, <1>3, <1>5
    <2>. QED  BY <1>2, <1>4, <2>1, EndAfterWrite
  <1>7. /\ moved \in ProtocolFields
        /\ moved.conn = g /\ ~moved.isReconnecting /\ ~moved.replayAsked
        /\ moved.outgoingMsgId = r.outgoingMsgId /\ moved.incomingMsgId = r.incomingMsgId
        /\ moved.data = <<>> \o ms
    BY <1>2, <1>3 DEF Writes
  <1>8. moved.data = ms
    BY <1>5, <1>7, ConcatEmptySeq
  <1>9. r.outgoingMsgId \in Nat /\ r.incomingMsgId \in Nat
    BY FieldTypes
  <1>10. NoRequest(ms) /\ GapFree(ms, k) /\ Covers(ms, k, r.outgoingMsgId)
    BY <1>1, <1>5
  <1>11. CASE ~Handover
    <2>1. t = moved
      BY <1>11
    <2>. QED  BY <1>2, <1>6, <1>7, <1>8, <1>10, <2>1 DEF b, moved, m
  <1>12. CASE Handover
    <2>1. "Resume" \in MessageType \ {"Regular"} /\ "Resume" \in MessageType
          /\ "Resume" # "Regular" /\ "Resume" # "ReplayRequest"
      BY DEF MessageType
    <2>2. m \in ProtocolMessage /\ <<m>> \in Seq(Genuine(r.outgoingMsgId, r.incomingMsgId))
          /\ NoRegular(<<m>>) /\ NoRequest(<<m>>)
      <3>1. m \in ProtocolMessage
        BY <1>9, <2>1, BareIsGenuine
      <3>2. <<m>> \in Seq(Genuine(r.outgoingMsgId, r.incomingMsgId))
            /\ NoRegular(<<m>>) /\ NoRequest(<<m>>)
        BY <1>9, <2>1, BareIsHarmless
      <3>. QED  BY <3>1, <3>2
    <2>. DEFINE v == Write(moved, m)
    <2>3. t = v
      BY <1>12
    <2>. HIDE DEF m, t
    <2>4. Writes(moved, v, <<m>>) /\ Watched(v) /\ Written(v)
      BY <1>2, <1>7, <2>2, WriteWrites
    <2>. HIDE DEF v
    <2>5. EndOK(v, s, d, n, k)
      <3>1. <<m>> \in Seq(Genuine(moved.outgoingMsgId, moved.incomingMsgId))
        BY <1>7, <2>2
      <3>. QED  BY <1>6, <2>4, <3>1, EndAfterWrite
    <2>6. /\ v \in ProtocolFields
          /\ v.conn = g /\ ~v.isReconnecting /\ ~v.replayAsked
          /\ v.outgoingMsgId = r.outgoingMsgId /\ v.incomingMsgId = r.incomingMsgId
          /\ v.data = ms \o <<m>>
      BY <1>7, <1>8, <2>4 DEF Writes
    <2>7. <<m>> \in Seq(ProtocolMessage) /\ GapFree(<<m>>, k)
      BY <2>2, NoRegularIsGapFree
    <2>8. NoRequest(ms \o <<m>>) /\ GapFree(ms \o <<m>>, k)
          /\ Covers(ms \o <<m>>, k, r.outgoingMsgId)
      BY <1>5, <1>9, <1>10, <2>2, <2>7, ConcatKeeps
    <2>9. t \in ProtocolFields
               /\ t.conn = g /\ ~t.isReconnecting /\ ~t.replayAsked
               /\ t.outgoingMsgId = r.outgoingMsgId /\ t.incomingMsgId = r.incomingMsgId
               /\ Watched(t) /\ Written(t)
               /\ EndOK(t, s, d, n, k)
               /\ NoRequest(t.data)
               /\ GapFree(t.data, k)
               /\ Covers(t.data, k, r.outgoingMsgId)
      BY <2>3, <2>4, <2>5, <2>6, <2>8
    <2>. QED  BY <2>9 DEF t, b, m, moved
  <1>. QED  BY <1>11, <1>12

\* What the server's handshake writes before the protocol moves.
Answer == IF Handover THEN <<Bare("Pause", 0), Bare("Ok", 0)>> ELSE <<Bare("Ok", 0)>>

\* It carries no message of the protocol's user.
LEMMA AnswerIsHarmless ==
    ASSUME NEW n \in Nat, NEW k \in Nat
    PROVE  /\ Answer \in Seq(Genuine(n, k))
           /\ Answer \in Seq(ProtocolMessage)
           /\ NoRegular(Answer) /\ NoRequest(Answer)
  <1>1. "Pause" \in MessageType \ {"Regular"} /\ "Ok" \in MessageType \ {"Regular"}
    BY DEF MessageType
  <1>. DEFINE a == Bare("Pause", 0)
              b == Bare("Ok", 0)
  <1>2. /\ a \in Genuine(n, k) /\ ~Regular(a) /\ a.type = "Pause"
        /\ b \in Genuine(n, k) /\ ~Regular(b) /\ b.type = "Ok"
    BY <1>1, BareIsGenuine
  <1>3. Answer = IF Handover THEN <<a, b>> ELSE <<b>>
    BY DEF Answer
  <1>. HIDE DEF a, b
  <1>4. <<a, b>> \in Seq(Genuine(n, k)) /\ <<b>> \in Seq(Genuine(n, k))
    <2>. DEFINE G == Genuine(n, k)
    <2>1. a \in G /\ b \in G
      BY <1>2
    <2>. HIDE DEF G
    <2>2. <<a, b>> \in Seq(G) /\ <<b>> \in Seq(G)
      BY <2>1
    <2>. QED  BY <2>2 DEF G
  <1>5. Answer \in Seq(Genuine(n, k))
    BY <1>3, <1>4
  <1>6. NoRegular(<<a, b>>) /\ NoRegular(<<b>>) /\ NoRequest(<<a, b>>) /\ NoRequest(<<b>>)
    BY <1>2 DEF NoRegular, NoRequest
  <1>7. NoRegular(Answer) /\ NoRequest(Answer)
    BY <1>3, <1>6
  <1>. QED  BY <1>5, <1>7, GenuineMessages

\* The server moves to another socket: what is under way to either end afterwards.
LEMMA ServerAcceptsWires ==
    ASSUME IInv, NEW g \in Conn, ServerAccepts(g)
    PROVE  LET old == protocol[server].conn
               F == Flushed(server)
           IN
           /\ wire' \in [Peer -> [Conn -> Seq(ProtocolMessage)]]
           /\ wire'[server][old] = <<>>
           /\ wire'[server][g] = Tail(wire[server][g])
           /\ \A h \in Conn : h # old /\ h # g => wire'[server][h] = wire[server][h]
           /\ \A h \in Conn : h # g => wire'[client][h] = F[client][h]
           /\ wire'[client][g] = IF broken[g] THEN wire[client][g] ELSE wire[client][g] \o Answer
           /\ F[client][g] = wire[client][g]
           /\ \A h \in Conn : h # old => F[client][h] = wire[client][h]
           /\ broken' \in [Conn -> BOOLEAN]
           /\ broken'[old]
           /\ \A h \in Conn : h # old => broken'[h] = broken[h]
           /\ WireOK(protocol[client], wire'[server])
           /\ WireOK(protocol[server], wire'[client])
  <1>. DEFINE r == protocol[server]
              old == r.conn
              F == Flushed(server)
              w == wire[server][g]
              v == wire[client][g]
              y == IF broken[g] THEN v ELSE v \o Answer
  <1>1. TypeOK /\ Books
    BY DEF IInv
  <1>2. old \in Conn /\ server \in Peer /\ Other[server] = client
    BY Ends, EndTypes, FieldTypes
  <1>3. /\ F \in [Peer -> [Conn -> Seq(ProtocolMessage)]]
        /\ \A h \in Conn : h # old => F[Other[server]][h] = wire[Other[server]][h]
        /\ F[server] = wire[server]
        /\ WireOK(r, F[Other[server]])
    BY <1>1, <1>2, FlushedWires
  <1>4. \A h \in Conn : h # old => F[client][h] = wire[client][h]
    BY <1>2, <1>3
  <1>5. /\ g # old /\ w # <<>>
        /\ wire' = [F EXCEPT ![server][old] = <<>>,
                             ![server][g] = Tail(@),
                             ![client][g] = IF broken[g] THEN @ ELSE @ \o Answer]
        /\ broken' = [broken EXCEPT ![old] = TRUE]
    BY <1>2 DEF ServerAccepts, Flushed, Answer
  <1>6. WireOK(protocol[client], wire[server])
    <2>1. WireOK(protocol[Other[server]], wire[server])
      BY <1>1, <1>2, BooksOpened
    <2>. QED  BY <1>2, <2>1
  <1>7. \A n \in Nat, k \in Nat : /\ Answer \in Seq(Genuine(n, k))
                                  /\ Answer \in Seq(ProtocolMessage)
    BY AnswerIsHarmless
  <1>8. Answer \in Seq(ProtocolMessage)
    BY <1>7
  <1>9. w \in Seq(ProtocolMessage) /\ v \in Seq(ProtocolMessage)
    BY <1>1, Ends, WireTypes
  <1>10. Tail(w) \in Seq(ProtocolMessage) /\ y \in Seq(ProtocolMessage)
         /\ <<>> \in Seq(ProtocolMessage)
    <2>1. v \o Answer \in Seq(ProtocolMessage)
      BY <1>8, <1>9, ConcatProperties
    <2>. QED  BY <1>5, <1>9, <2>1, TailOfSeq, EmptySeq
  <1>11. F[server][g] = w /\ F[client][g] = v
    BY <1>3, <1>4, <1>5
  <1>. HIDE DEF F, old
  <1>12. wire' = [F EXCEPT ![server] = [F[server] EXCEPT ![old] = <<>>, ![g] = Tail(w)],
                           ![client] = [F[client] EXCEPT ![g] = y]]
    BY <1>2, <1>3, <1>5, <1>11, Ends
  <1>. HIDE DEF w, v, y
  <1>13. /\ wire'[server] = [F[server] EXCEPT ![old] = <<>>, ![g] = Tail(w)]
         /\ wire'[client] = [F[client] EXCEPT ![g] = y]
         /\ DOMAIN wire' = Peer
         /\ wire' = [p \in Peer |-> wire'[p]]
    BY <1>3, <1>12, Ends
  <1>14. /\ F[server] \in [Conn -> Seq(ProtocolMessage)]
         /\ F[client] \in [Conn -> Seq(ProtocolMessage)]
    BY <1>3, Ends
  <1>15. /\ wire'[server] \in [Conn -> Seq(ProtocolMessage)]
         /\ wire'[server][old] = <<>>
         /\ wire'[server][g] = Tail(w)
         /\ \A h \in Conn : h # old /\ h # g => wire'[server][h] = F[server][h]
    <2>. DEFINE f == F[server]
                x == Tail(w)
                e == [f EXCEPT ![old] = <<>>]
    <2>1. f \in [Conn -> Seq(ProtocolMessage)] /\ x \in Seq(ProtocolMessage)
      BY <1>10, <1>14
    <2>2. wire'[server] = [e EXCEPT ![g] = x]
      BY <1>13
    <2>. HIDE DEF f, x
    <2>3. /\ e \in [Conn -> Seq(ProtocolMessage)] /\ e[old] = <<>>
          /\ \A h \in Conn : h # old => e[h] = f[h]
      BY <1>2, <1>10, <2>1
    <2>. HIDE DEF e
    <2>4. /\ wire'[server] \in [Conn -> Seq(ProtocolMessage)]
          /\ wire'[server][g] = x
          /\ \A h \in Conn : h # g => wire'[server][h] = e[h]
      BY <2>1, <2>2, <2>3
    <2>5. wire'[server][old] = <<>>
      BY <1>2, <1>5, <2>3, <2>4
    <2>. QED  BY <2>3, <2>4, <2>5 DEF f, x
  <1>16. /\ wire'[client] \in [Conn -> Seq(ProtocolMessage)]
         /\ wire'[client][g] = y
         /\ \A h \in Conn : h # g => wire'[client][h] = F[client][h]
    BY <1>10, <1>13, <1>14
  <1>17. wire' \in [Peer -> [Conn -> Seq(ProtocolMessage)]]
    BY <1>13, <1>15, <1>16, Ends
  <1>18. \A h \in Conn : h # old /\ h # g => wire'[server][h] = wire[server][h]
    BY <1>3, <1>15
  <1>19. /\ broken' \in [Conn -> BOOLEAN] /\ broken'[old]
         /\ \A h \in Conn : h # old => broken'[h] = broken[h]
    BY <1>1, <1>2, <1>5 DEF TypeOK
  <1>20. WireOK(protocol[client], wire'[server])
    <2>. DEFINE G == Genuine(protocol[client].outgoingMsgId, protocol[client].incomingMsgId)
    <2>1. \A h \in Conn : wire[server][h] \in Seq(G)
      BY <1>6 DEF WireOK
    <2>. HIDE DEF G
    <2>2. <<>> \in Seq(G)
      BY EmptySeq
    <2>3. w \in Seq(G)
      BY <2>1 DEF w
    <2>4. Tail(w) \in Seq(G)
      BY <1>5, <2>3, TailOfSeq
    <2>5. \A h \in Conn : wire'[server][h] \in Seq(G)
      BY <1>15, <1>18, <2>1, <2>2, <2>4
    <2>. QED  BY <2>5 DEF WireOK, G
  <1>21. WireOK(r, wire'[client])
    <2>. DEFINE G == Genuine(r.outgoingMsgId, r.incomingMsgId)
    <2>1. \A h \in Conn : F[client][h] \in Seq(G)
      BY <1>2, <1>3 DEF WireOK
    <2>2. Answer \in Seq(G)
      BY <1>7, Ends, EndTypes
    <2>. HIDE DEF G
    <2>3. v \in Seq(G)
      BY <1>11, <2>1
    <2>4. v \o Answer \in Seq(G)
      BY <2>2, <2>3, ConcatProperties
    <2>5. y \in Seq(G)
      BY <2>3, <2>4 DEF y
    <2>6. \A h \in Conn : wire'[client][h] \in Seq(G)
      BY <1>16, <2>1, <2>5
    <2>. QED  BY <2>6 DEF WireOK, G
  <1>. QED  BY <1>4, <1>11, <1>15, <1>16, <1>17, <1>18, <1>19, <1>20, <1>21 DEF F, old, w, v, y

\* The streams when the server moves: it brings the client all it misses, and leaves
\* behind what brought nothing.
LEMMA StreamsAfterAccepting ==
    ASSUME IInv, StreamsOK, NEW g \in Conn, ServerAccepts(g), NEW t \in ProtocolFields,
           protocol'[server] = t, protocol'[client] = protocol[client],
           t.conn = g, ~t.replayAsked,
           t.outgoingMsgId = protocol[server].outgoingMsgId,
           t.incomingMsgId = protocol[server].incomingMsgId,
           NoRequest(t.data),
           GapFree(t.data, protocol[client].incomingMsgId),
           Covers(t.data, protocol[client].incomingMsgId, protocol[server].outgoingMsgId)
    PROVE  StreamsOK'
  <1>. DEFINE r == protocol[server]
              c == protocol[client]
              old == r.conn
              F == Flushed(server)
  <1>1. TypeOK /\ SocketsOK
    BY DEF IInv
  <1>2. c \in ProtocolFields /\ r \in ProtocolFields /\ c.conn \in Conn /\ old \in Conn
        /\ c.incomingMsgId \in Nat /\ r.incomingMsgId \in Nat /\ r.outgoingMsgId \in Nat
        /\ c.data \in Seq(ProtocolMessage) /\ t.data \in Seq(ProtocolMessage)
    BY Ends, EndTypes, FieldTypes
  <1>3. /\ wire'[server][old] = <<>>
        /\ wire'[server][g] = Tail(wire[server][g])
        /\ \A h \in Conn : h # old /\ h # g => wire'[server][h] = wire[server][h]
        /\ \A h \in Conn : h # g => wire'[client][h] = F[client][h]
        /\ wire'[client][g] = IF broken[g] THEN wire[client][g] ELSE wire[client][g] \o Answer
        /\ F[client][g] = wire[client][g]
        /\ broken'[old]
        /\ \A h \in Conn : h # old => broken'[h] = broken[h]
    BY ServerAcceptsWires
  <1>4. g # old /\ wire[server][g] # <<>>
    BY DEF ServerAccepts
  <1>5. Calm(client) /\ Calm(server) /\ Apart
    BY Ends, StreamsParts
  <1>6. NoRegular(<<>>) /\ NoRequest(<<>>)
    BY NothingIsHarmless
  <1>7. /\ GapFree(F[client][c.conn], c.incomingMsgId)
        /\ \A h \in Conn : NoRequest(F[client][h])
    <2>1. LET o == Other[server] IN
            /\ GapFree(Flushed(server)[o][protocol[o].conn], protocol[o].incomingMsgId)
            /\ \A h \in Conn : NoRequest(Flushed(server)[o][h])
      BY <1>1, Ends, FlushedStream
    <2>. QED  BY <2>1, Ends
  <1>8. Answer \in Seq(ProtocolMessage) /\ NoRegular(Answer) /\ NoRequest(Answer)
    BY <1>2, AnswerIsHarmless
  <1>9. wire[client][g] \in Seq(ProtocolMessage) /\ wire[server][g] \in Seq(ProtocolMessage)
    BY <1>1, Ends, WireTypes
  <1>. HIDE DEF F
  <1>10. NoRegular(wire'[server][g]) /\ NoRequest(wire'[server][g])
         /\ wire'[server][g] \in Seq(ProtocolMessage)
    <2>1. NoRegular(wire[server][g]) /\ NoRequest(wire[server][g])
      BY <1>4, <1>5 DEF Apart, Calm
    <2>. QED  BY <1>3, <1>4, <1>9, <2>1, TailKeeps
  <1>11. Calm(server)'
    <2>1. \A h \in Conn : NoRequest(wire'[server][h])
      BY <1>3, <1>5, <1>6, <1>10 DEF Calm
    <2>. QED  BY <2>1 DEF Calm
  <1>12. Calm(client)'
    <2>1. NoRequest(wire[client][g] \o Answer)
      <3>1. NoRequest(wire[client][g])
        BY <1>5 DEF Calm
      <3>. QED  BY <1>2, <1>8, <1>9, <3>1, ConcatKeeps
    <2>2. NoRequest(wire'[client][g])
      BY <1>3, <1>7, <2>1
    <2>3. \A h \in Conn : NoRequest(wire'[client][h])
      BY <1>3, <1>7, <2>2
    <2>. QED  BY <1>5, <2>3 DEF Calm
  <1>13. Apart'
    <2>1. ASSUME NEW h \in Conn, h # g
          PROVE  NoRegular(wire'[server][h])
      <3>1. CASE h = old
        BY <1>3, <1>6, <3>1
      <3>2. CASE h # old
        BY <1>3, <1>5, <2>1, <3>2 DEF Apart
      <3>. QED  BY <3>1, <3>2
    <2>2. c.conn # g /\ ~broken'[c.conn] => NoRegular(c.data)
      <3>1. ~broken'[c.conn] => c.conn # old /\ ~broken[c.conn]
        BY <1>2, <1>3
      <3>. QED  BY <1>5, <3>1 DEF Apart
    <2>. QED  BY <2>1, <2>2 DEF Apart
  <1>14. Live' <=> g = c.conn /\ ~broken[g]
    <2>1. Live' <=> g = c.conn /\ ~broken'[c.conn]
      BY DEF Live
    <2>. QED  BY <1>3, <1>4, <2>1
  <1>15. CASE Live'
    <2>1. g = c.conn /\ ~broken[g]
      BY <1>14, <1>15
    <2>2. ~Live
      BY <1>4, <2>1 DEF Live
    <2>3. c.isReconnecting
      BY <1>1, <2>1, <2>2 DEF SocketsOK
    <2>4. Stream(server)' = wire'[server][g] \o c.data
      BY <1>15, Ends DEF Stream
    <2>5. NoRegular(c.data)
      BY <1>4, <1>5, <2>1 DEF Apart
    <2>6. NoRegular(wire'[server][g] \o c.data)
      BY <1>2, <1>10, <2>5, ConcatKeeps
    <2>7. Flows(server)'
      <3>1. GapFree(Stream(server)', r.incomingMsgId)
        BY <2>4, <2>6, NoRegularIsGapFree
      <3>2. ~(~protocol'[Other[server]].isReconnecting)
        BY <2>3, Ends
      <3>. QED  BY <3>1, <3>2 DEF Flows
    <2>8. wire[client][g] = <<>>
      BY <1>1, <1>4, <2>1 DEF SocketsOK
    <2>9. Stream(client)' = wire'[client][g] \o t.data
      BY <1>15, <2>1, Ends DEF Stream
    <2>10. wire'[client][g] = Answer
      <3>1. wire'[client][g] = <<>> \o Answer
        BY <1>3, <2>1, <2>8
      <3>. QED  BY <1>8, <3>1, ConcatEmptySeq
    <2>11. GapFree(Answer, c.incomingMsgId)
      BY <1>8, NoRegularIsGapFree
    <2>12. GapFree(Answer \o t.data, c.incomingMsgId)
           /\ Covers(Answer \o t.data, c.incomingMsgId, r.outgoingMsgId)
      BY <1>2, <1>8, <2>11, ConcatKeeps
    <2>13. Flows(client)'
      <3>1. /\ GapFree(Stream(client)', c.incomingMsgId)
            /\ Covers(Stream(client)', c.incomingMsgId, r.outgoingMsgId)
        BY <2>9, <2>10, <2>12
      <3>2. protocol'[Other[client]].outgoingMsgId = r.outgoingMsgId
        BY Ends
      <3>. QED  BY <3>1, <3>2 DEF Flows
    <2>. QED  BY <1>11, <1>12, <1>13, <2>7, <2>13, Ends, StreamsPartsAfter
  <1>16. CASE ~Live'
    <2>1. Stream(server)' = wire'[server][g] /\ Stream(client)' = wire'[client][c.conn]
      BY <1>16 DEF Stream
    <2>2. Flows(server)'
      <3>1. GapFree(Stream(server)', r.incomingMsgId)
        BY <1>10, <2>1, NoRegularIsGapFree
      <3>. QED  BY <1>16, <3>1 DEF Flows
    <2>3. wire'[client][c.conn] = F[client][c.conn]
      BY <1>2, <1>3, <1>14, <1>16
    <2>4. Flows(client)'
      <3>1. GapFree(Stream(client)', c.incomingMsgId)
        BY <1>7, <2>1, <2>3
      <3>. QED  BY <1>16, <3>1 DEF Flows
    <2>. QED  BY <1>11, <1>12, <1>13, <2>2, <2>4, Ends, StreamsPartsAfter
  <1>. QED  BY <1>15, <1>16

\* The server accepts the reconnection.
LEMMA ServerAcceptsKeeps ==
    ASSUME IInv, NEW g \in Conn, ServerAccepts(g)
    PROVE  IInv'
  <1>. DEFINE r == protocol[server]
              c == protocol[client]
              old == r.conn
              moved == EndAcceptReconnection(BeginAcceptReconnection(r, g))
              t == IF Handover THEN Write(moved, Bare("Resume", 0)) ELSE moved
              n == c.outgoingMsgId
              k == c.incomingMsgId
  <1>1. TypeOK /\ NothingWaitsUnarmed /\ Books /\ SocketsOK
        /\ (NothingSwallowed => StreamsOK)
    BY DEF IInv
  <1>2. r \in ProtocolFields /\ c \in ProtocolFields /\ c.conn \in Conn /\ old \in Conn
        /\ r.outgoingMsgId \in Nat /\ r.incomingMsgId \in Nat /\ k \in Nat
    BY Ends, EndTypes, FieldTypes
  <1>3. /\ Becomes(server, t) /\ g # old /\ wire[server][g] # <<>>
        /\ UNCHANGED <<handshake, sent, delivered, faults>>
    BY DEF ServerAccepts, Becomes
  <1>4. EndOK(r, sent[server], delivered[server], n, k)
    <2>1. EndOK(r, sent[server], delivered[server],
                protocol[Other[server]].outgoingMsgId, protocol[Other[server]].incomingMsgId)
      BY <1>1, Ends, BooksOpened
    <2>. QED  BY <2>1, Ends
  <1>5. /\ t \in ProtocolFields
        /\ t.conn = g /\ ~t.isReconnecting /\ ~t.replayAsked
        /\ t.outgoingMsgId = r.outgoingMsgId /\ t.incomingMsgId = r.incomingMsgId
        /\ Watched(t) /\ Written(t)
        /\ EndOK(t, sent[server], delivered[server], n, k)
        /\ NoRequest(t.data)
        /\ GapFree(t.data, k)
        /\ Covers(t.data, k, r.outgoingMsgId)
    <2>. HIDE DEF n, k
    <2>. QED  BY <1>2, <1>4, ServerMoves
  <1>6. LET F == Flushed(server) IN
        /\ wire' \in [Peer -> [Conn -> Seq(ProtocolMessage)]]
        /\ wire'[server][old] = <<>>
        /\ \A h \in Conn : h # old /\ h # g => wire'[server][h] = wire[server][h]
        /\ \A h \in Conn : h # g => wire'[client][h] = F[client][h]
        /\ \A h \in Conn : h # old => F[client][h] = wire[client][h]
        /\ broken' \in [Conn -> BOOLEAN]
        /\ broken'[old]
        /\ \A h \in Conn : h # old => broken'[h] = broken[h]
        /\ WireOK(c, wire'[server])
        /\ WireOK(r, wire'[client])
    BY ServerAcceptsWires
  <1>. HIDE DEF t
  <1>7. protocol'[server] = t /\ protocol'[client] = c
    <2>1. protocol'[server] = t /\ protocol'[Other[server]] = protocol[Other[server]]
      BY <1>1, <1>3, Ends, BecomesFields
    <2>. QED  BY <2>1, Ends
  <1>8. protocol' \in [Peer -> ProtocolFields] /\ NothingWaitsUnarmed'
    BY <1>1, <1>3, <1>5, Ends, TimersStep
  <1>9. TypeOK'
    BY <1>1, <1>3, <1>6, <1>8 DEF TypeOK
  <1>10. Books'
    <2>1. WireOK(t, wire'[client])
      BY <1>5, <1>6 DEF WireOK
    <2>2. r.outgoingMsgId <= t.outgoingMsgId /\ r.incomingMsgId <= t.incomingMsgId
      BY <1>2, <1>5
    <2>3. sent' = sent /\ delivered' = delivered
          /\ Other[server] = client /\ server \in Peer
      BY <1>3, Ends
    <2>. QED  BY <1>1, <1>3, <1>5, <1>6, <2>1, <2>2, <2>3, BooksStep
  <1>11. /\ old <= c.conn
         /\ \A h \in Conn : /\ h < c.conn => broken[h]
                            /\ h > c.conn => wire[client][h] = <<>> /\ wire[server][h] = <<>>
                            /\ h # old /\ ~broken[h] => wire[client][h] = <<>>
         /\ ~c.isReconnecting \/ handshake = "answered" => broken[c.conn] \/ Live
    BY <1>1 DEF SocketsOK
  <1>12. g \in Nat /\ c.conn \in Nat /\ old \in Nat
    BY <1>2, ConnsAreNumbered
  <1>13. g <= c.conn
    BY <1>3, <1>11, <1>12
  <1>14. \A h \in Conn : broken[h] => broken'[h]
    BY <1>6
  <1>15. SocketsOK'
    <2>1. ASSUME NEW h \in Conn
          PROVE  /\ h < c.conn => broken'[h]
                 /\ h > c.conn => wire'[client][h] = <<>> /\ wire'[server][h] = <<>>
                 /\ h # g /\ ~broken'[h] => wire'[client][h] = <<>>
      <3>1. h \in Nat
        BY ConnsAreNumbered
      <3>2. h < c.conn => broken'[h]
        BY <1>11, <1>14
      <3>3. h > c.conn => h # g /\ h # old
        BY <1>11, <1>12, <1>13, <3>1
      <3>4. h # g /\ h # old => wire'[client][h] = wire[client][h]
                                /\ wire'[server][h] = wire[server][h]
        BY <1>6
      <3>5. h > c.conn => wire'[client][h] = <<>> /\ wire'[server][h] = <<>>
        BY <1>11, <3>3, <3>4
      <3>6. h # g /\ ~broken'[h] => wire'[client][h] = <<>>
        BY <1>6, <1>11, <3>4
      <3>. QED  BY <3>2, <3>5, <3>6
    <2>2. ~c.isReconnecting \/ handshake' = "answered" => broken'[c.conn]
      <3>1. Live => c.conn = old
        BY DEF Live
      <3>2. broken[c.conn] \/ c.conn = old => broken'[c.conn]
        BY <1>2, <1>6, <1>14
      <3>. QED  BY <1>3, <1>11, <3>1, <3>2
    <2>. QED  BY <1>5, <1>7, <1>13, <2>1, <2>2 DEF SocketsOK
  <1>16. ASSUME StreamsOK
         PROVE  StreamsOK'
    BY <1>5, <1>7, <1>16, StreamsAfterAccepting
  <1>17. NothingSwallowed' => NothingSwallowed
    BY <1>3 DEF NothingSwallowed
  <1>. QED  BY <1>1, <1>8, <1>9, <1>10, <1>15, <1>16, <1>17 DEF IInv

-----------------------------------------------------------------------------
(* The invariant.                                                          *)

\* It holds when both ends are new.
LEMMA InitKeeps ==
    Init => IInv
  <1>. SUFFICES ASSUME Init
                PROVE  IInv
    OBVIOUS
  <1>. DEFINE r == NewProtocol
  <1>1. \A S : <<>> \in Seq(S)
    BY EmptySeq
  <1>2. 0 \in Conn /\ \A g \in Conn : g \in Nat
    BY ProtocolAssumption DEF Conn
  <1>3. /\ r \in ProtocolFields /\ r.conn = 0 /\ ~r.isReconnecting
        /\ r.outgoingUnackMsg = <<>> /\ r.outgoingMsgId = 0 /\ r.outgoingAckId = 0
        /\ r.incomingMsgId = 0 /\ ~r.replayAsked /\ r.data = <<>>
        /\ r.bufferedMessages = <<>>
    BY <1>1, <1>2 DEF NewProtocol, ProtocolFields
  <1>4. \A p \in Peer : /\ protocol[p] = r /\ sent[p] = <<>> /\ delivered[p] = <<>>
                        /\ \A g \in Conn : wire[p][g] = <<>>
    BY DEF Init
  <1>5. \A g \in Conn : ~broken[g]
    BY DEF Init
  <1>6. TypeOK
    <2>1. wire \in [Peer -> [Conn -> Seq(ProtocolMessage)]]
      BY <1>1 DEF Init
    <2>2. sent \in [Peer -> Seq(Nat)] /\ delivered \in [Peer -> Seq(Nat)]
      BY <1>1 DEF Init
    <2>3. protocol \in [Peer -> ProtocolFields]
      BY <1>3 DEF Init
    <2>. QED  BY <2>1, <2>2, <2>3 DEF Init, TypeOK
  <1>. HIDE DEF r
  <1>7. NothingWaitsUnarmed
    BY <1>3, <1>4 DEF NothingWaitsUnarmed, UnacknowledgedIsWatched, BufferedIsWritten
  <1>8. Books
    <2>. SUFFICES ASSUME NEW p \in Peer
                  PROVE  BooksOf(p)
      BY DEF Books
    <2>1. Other[p] \in Peer
      BY TwoPeers
    <2>2. Counts(<<>>, 0) /\ Handed(<<>>, <<>>, 0) /\ Holds(<<>>, 0, 0)
      BY DEF Counts, Handed, Holds
    <2>3. EndOK(r, <<>>, <<>>, 0, 0)
      BY <1>1, <1>3, <2>2 DEF EndOK
    <2>4. WireOK(r, wire[Other[p]])
      BY <1>1, <1>4, <2>1 DEF WireOK
    <2>. QED  BY <1>3, <1>4, <2>1, <2>3, <2>4 DEF BooksOf
  <1>9. Live
    BY <1>2, <1>3, <1>4, <1>5, Ends DEF Live
  <1>10. SocketsOK
    BY <1>2, <1>3, <1>4, <1>9, Ends DEF SocketsOK
  <1>11. StreamsOK
    <2>1. NoRegular(<<>>) /\ NoRequest(<<>>)
      BY NothingIsHarmless
    <2>2. <<>> \o <<>> = <<>>
      BY <1>1, ConcatEmptySeq
    <2>3. ASSUME NEW p \in Peer
          PROVE  Calm(p) /\ Flows(p)
      <3>1. Other[p] \in Peer
        BY TwoPeers
      <3>2. Calm(p)
        BY <1>3, <1>4, <2>1 DEF Calm
      <3>3. Stream(p) = <<>>
        BY <1>2, <1>3, <1>4, <1>9, <2>2, <3>1 DEF Stream
      <3>4. GapFree(<<>>, 0)
        BY <2>1, NoRegularIsGapFree
      <3>5. Covers(<<>>, 0, 0)
        BY DEF Covers
      <3>. QED  BY <1>3, <1>4, <3>1, <3>2, <3>3, <3>4, <3>5 DEF Flows
    <2>4. Apart
      BY <1>3, <1>4, <2>1, Ends DEF Apart
    <2>. QED  BY <2>3, <2>4, StreamsParts
  <1>. QED  BY <1>6, <1>7, <1>8, <1>10, <1>11 DEF IInv

\* It holds when nothing happens.
LEMMA StutterKeeps ==
    ASSUME IInv, UNCHANGED vars
    PROVE  IInv'
  <1>. DEFINE r == protocol[client]
  <1>1. r \in ProtocolFields /\ Watched(r) /\ Written(r) /\ client \in Peer
        /\ protocol \in [Peer -> ProtocolFields]
    BY Ends, EndTypes
  <1>2. Becomes(client, r)
    BY <1>1 DEF Becomes, vars
  <1>3. Writes(r, r, <<>>)
    BY <1>1, NothingAdded DEF Writes
  <1>4. UNCHANGED <<wire, broken, handshake, sent, delivered, faults>>
    BY DEF vars
  <1>. QED  BY <1>1, <1>2, <1>3, <1>4, FlagStep

\* Every step of the two programs, of their users and of the sockets keeps it.
LEMMA NextKeeps ==
    IInv /\ [Next]_vars => IInv'
  <1>. SUFFICES ASSUME IInv, [Next]_vars
                PROVE  IInv'
    OBVIOUS
  <1>1. ASSUME NEW p \in Peer, Receive(p)
        PROVE  IInv'
    BY <1>1, ReceiveNextKeeps, ReceiveRepeatedKeeps, ReceiveAfterGapKeeps,
       ReceiveAckOnlyKeeps, ReceiveReplayRequestKeeps, ReceivePauseOrResumeKeeps DEF Receive
  <1>2. ASSUME NEW p \in Peer,
               WriteNow(p) \/ AckTimer(p) \/ StartListening(p) \/ DeliverMessages(p)
        PROVE  IInv'
    BY <1>2, WriteNowKeeps, AckTimerKeeps, StartListeningKeeps, DeliverMessagesKeeps
  <1>3. CASE ClientBegins \/ ClientAsks \/ ClientIsAnswered \/ ClientEnds
    BY <1>3, ClientBeginsKeeps, ClientAsksKeeps, ClientIsAnsweredKeeps, ClientEndsKeeps
  <1>4. ASSUME NEW g \in Conn, ServerDiscards(g) \/ ServerAccepts(g) \/ Break(g)
        PROVE  IInv'
    BY <1>4, ServerDiscardsKeeps, ServerAcceptsKeeps, BreakKeeps
  <1>5. ASSUME NEW p \in Peer,
               \/ Send(p) \/ WatchTimer(p) \/ KeepAlive(p) \/ ReplayWindowPasses(p)
               \/ StopListening(p) \/ Swallow(p)
        PROVE  IInv'
    BY <1>5, SendKeeps, WatchTimerKeeps, KeepAliveKeeps, ReplayWindowPassesKeeps,
       StopListeningKeeps, SwallowKeeps
  <1>6. ASSUME NEW p \in Peer, NEW g \in Conn, LoseTail(p, g)
        PROVE  IInv'
    BY <1>6, LoseTailKeeps
  <1>7. CASE UNCHANGED vars
    BY <1>7, StutterKeeps
  <1>. QED  BY <1>1, <1>2, <1>3, <1>4, <1>5, <1>6, <1>7 DEF Next, ProgramStep

\* The ends, the sockets and the streams are in order at all times.
THEOREM BooksAndStreams ==
    Spec => []IInv
  <1>1. Init => IInv
    BY InitKeeps
  <1>2. IInv /\ [Next]_vars => IInv'
    BY NextKeeps
  <1>. QED  BY <1>1, <1>2, PTL DEF Spec

\* What the invariant says about the two ends' agreement.
LEMMA InvariantMissesNothing ==
    IInv => NothingIsMissing
  <1>. SUFFICES ASSUME IInv
                PROVE  NothingIsMissing
    OBVIOUS
  <1>1. TypeOK /\ Books /\ (NothingSwallowed => StreamsOK)
    BY DEF IInv
  <1>2. NothingDroppedUnseen
    <2>. SUFFICES ASSUME NEW p \in Peer
                  PROVE  LET r == protocol[p] IN
                         /\ r.outgoingAckId <= protocol[Other[p]].incomingMsgId
                         /\ Len(r.outgoingUnackMsg) = r.outgoingMsgId - r.outgoingAckId
                         /\ \A i \in DOMAIN r.outgoingUnackMsg :
                               r.outgoingUnackMsg[i].id = r.outgoingAckId + i
      BY DEF NothingDroppedUnseen
    <2>. DEFINE r == protocol[p]
                q == r.outgoingUnackMsg
    <2>1. /\ Holds(q, r.outgoingAckId, r.outgoingMsgId)
          /\ r.outgoingAckId <= protocol[Other[p]].incomingMsgId
          /\ q \in Seq(ProtocolMessage)
      BY <1>1, BooksOpened, FieldTypes DEF EndOK
    <2>2. DOMAIN q = 1 .. Len(q)
      BY <2>1, LenProperties
    <2>. QED  BY <2>1, <2>2 DEF Holds
  <1>3. NoGapWithoutLoss
    BY <1>1 DEF NoGapWithoutLoss, StreamsOK
  <1>. QED  BY <1>1, <1>2, <1>3 DEF NothingIsMissing

\* ipc.net.ts: however often the sockets break, an end drops a message only when the
\* other end has it, keeps exactly the later ones, and sees no gap that the sockets
\* did not make by swallowing a message.
THEOREM ProtocolMissesNothing ==
    Spec => []NothingIsMissing
  BY BooksAndStreams, InvariantMissesNothing, PTL

\* ipc.net.ts: whatever waits, for a write or for an acknowledgement, has a timer.
THEOREM ProtocolTimersAreArmed ==
    Spec => []NothingWaitsUnarmed
  <1>1. IInv => NothingWaitsUnarmed
    BY DEF IInv
  <1>. QED  BY <1>1, BooksAndStreams, PTL

-----------------------------------------------------------------------------
(* The channel.                                                            *)

\* Counting sequences of one length are the same.
LEMMA CountsAreEqual ==
    ASSUME NEW s \in Seq(Nat), NEW t \in Seq(Nat), Len(s) = Len(t),
           \A i \in 1 .. Len(s) : s[i] = i, \A i \in 1 .. Len(t) : t[i] = i
    PROVE  s = t
  BY SeqEqual

\* What an end was handed is the beginning of what the other end sent.
DeliveredIsSent ==
    \A p \in Peer :
        LET d == delivered[p]
            s == sent[Other[p]]
        IN  /\ d \in Seq(Nat) /\ Len(d) \in Nat
            /\ s \in Seq(Nat) /\ Len(s) \in Nat
            /\ Len(d) <= Len(s)
            /\ d = SubSeq(s, 1, Len(d))
            /\ \A i \in 1 .. Len(d) : d[i] = i

\* The books of the two ends say so.
LEMMA InvariantDeliversSent ==
    IInv => DeliveredIsSent
  <1>. SUFFICES ASSUME IInv, NEW p \in Peer
                PROVE  LET d == delivered[p]
                           s == sent[Other[p]]
                       IN  /\ d \in Seq(Nat) /\ Len(d) \in Nat
                           /\ s \in Seq(Nat) /\ Len(s) \in Nat
                           /\ Len(d) <= Len(s)
                           /\ d = SubSeq(s, 1, Len(d))
                           /\ \A i \in 1 .. Len(d) : d[i] = i
    BY DEF DeliveredIsSent
  <1>. DEFINE o == Other[p]
              d == delivered[p]
              s == sent[o]
              b == protocol[p].bufferedMessages
              x == protocol[o].outgoingMsgId
              n == protocol[p].incomingMsgId
  <1>1. TypeOK /\ Books /\ o \in Peer /\ Other[o] = p
    BY TwoPeers DEF IInv
  <1>2. d \in Seq(Nat) /\ s \in Seq(Nat) /\ b \in Seq(Nat) /\ x \in Nat /\ n \in Nat
    BY <1>1, EndTypes, FieldTypes DEF TypeOK
  <1>3. Handed(d, b, n) /\ n <= x
    BY <1>1, BooksOpened DEF EndOK
  <1>4. Counts(s, x)
    BY <1>1, BooksOpened DEF EndOK
  <1>. HIDE DEF d, s, b, x, n
  <1>5. Len(d) \in Nat /\ Len(s) \in Nat /\ Len(b) \in Nat
    BY <1>2, LenProperties
  <1>6. Len(d) <= Len(s) /\ \A i \in 1 .. Len(d) : d[i] = i
    BY <1>2, <1>3, <1>4, <1>5 DEF Handed, Counts
  <1>7. \A i \in 1 .. Len(d) : s[i] = i
    BY <1>4, <1>5, <1>6 DEF Counts
  <1>. DEFINE m == Len(d)
              u == SubSeq(s, 1, m)
  <1>8. u \in Seq(Nat) /\ Len(u) = m /\ \A i \in 1 .. m : u[i] = s[i]
    <2>1. \A i \in 1 .. m : s[i] \in Nat
      BY <1>5, <1>7
    <2>2. m \in Nat
      BY <1>5
    <2>. HIDE DEF m
    <2>3. /\ u \in Seq(Nat) /\ Len(u) = IF 1 <= m THEN m - 1 + 1 ELSE 0
          /\ \A i \in 1 .. m - 1 + 1 : u[i] = s[1 + i - 1]
      BY <2>1, <2>2, SubSeqProperties
    <2>. QED  BY <2>2, <2>3
  <1>. HIDE DEF u
  <1>9. d = u
    BY <1>2, <1>6, <1>7, <1>8, CountsAreEqual
  <1>. QED  BY <1>2, <1>5, <1>6, <1>9 DEF d, s, o, u

\* An end that is handed something is handed the next payloads of the other end.
LEMMA HandingOverDelivers ==
    ASSUME IInv, IInv', NEW p \in Peer, NEW x,
           delivered' = [delivered EXCEPT ![p] = x], Len(delivered[p]) <= Len(x),
           sent' = sent
    PROVE  Channel!Deliver(p) \/ UNCHANGED <<sent, delivered>>
  <1>. DEFINE d == delivered[p]
              s == sent[Other[p]]
  <1>1. DeliveredIsSent /\ DeliveredIsSent'
    BY InvariantDeliversSent, PTL
  <1>2. delivered \in [Peer -> Seq(Nat)]
    BY DEF IInv, TypeOK
  <1>3. delivered'[p] = x
    BY <1>2
  <1>4. d \in Seq(Nat) /\ Len(d) \in Nat /\ \A i \in 1 .. Len(d) : d[i] = i
    BY <1>1 DEF DeliveredIsSent
  <1>5. /\ x \in Seq(Nat) /\ Len(x) \in Nat /\ Len(s) \in Nat /\ Len(x) <= Len(s)
        /\ x = SubSeq(s, 1, Len(x))
        /\ \A i \in 1 .. Len(x) : x[i] = i
    BY <1>1, <1>3 DEF DeliveredIsSent
  <1>6. CASE Len(x) = Len(d)
    <2>1. x = d
      <3>. HIDE DEF d
      <3>. QED  BY <1>4, <1>5, <1>6, CountsAreEqual
    <2>2. delivered' = delivered
      BY <1>2, <2>1
    <2>. QED  BY <2>2
  <1>7. CASE Len(x) # Len(d)
    <2>1. Len(x) \in Len(d) + 1 .. Len(s)
      BY <1>4, <1>5, <1>7
    <2>2. delivered' = [delivered EXCEPT ![p] = SubSeq(s, 1, Len(x))]
      BY <1>5
    <2>. QED  BY <2>1, <2>2 DEF Channel!Deliver
  <1>. QED  BY <1>6, <1>7

\* Every step of the protocol is a step of the channel, or none that it sees.
LEMMA NextImplementsChannel ==
    IInv /\ IInv' /\ [Next]_vars => [Channel!Next]_<<sent, delivered>>
  <1>. SUFFICES ASSUME IInv, IInv', [Next]_vars
                PROVE  Channel!Next \/ UNCHANGED <<sent, delivered>>
    OBVIOUS
  <1>1. ASSUME NEW p \in Peer, Send(p)
        PROVE  Channel!Next
    BY <1>1 DEF Send, Channel!Next, Channel!Send
  <1>2. ASSUME NEW p \in Peer, ReceiveNext(p) \/ DeliverMessages(p)
        PROVE  Channel!Next \/ UNCHANGED <<sent, delivered>>
    <2>1. \E x : delivered' = [delivered EXCEPT ![p] = x] /\ Len(delivered[p]) <= Len(x)
      BY <1>2, ReceiveNextKeeps, DeliverMessagesKeeps
    <2>2. sent' = sent
      BY <1>2 DEF ReceiveNext, DeliverMessages
    <2>3. Channel!Deliver(p) \/ UNCHANGED <<sent, delivered>>
      BY <2>1, <2>2, HandingOverDelivers
    <2>. QED  BY <2>3 DEF Channel!Next
  <1>3. ASSUME NEW p \in Peer,
               \/ WriteNow(p) \/ AckTimer(p) \/ StartListening(p)
               \/ ReceiveRepeated(p) \/ ReceiveAfterGap(p) \/ ReceiveAckOnly(p)
               \/ ReceiveReplayRequest(p) \/ ReceivePauseOrResume(p)
        PROVE  UNCHANGED <<sent, delivered>>
    BY <1>3 DEF WriteNow, AckTimer, StartListening, ReceiveRepeated, ReceiveAfterGap,
                ReceiveAckOnly, ReceiveReplayRequest, ReceivePauseOrResume
  <1>4. CASE ClientBegins \/ ClientAsks \/ ClientIsAnswered \/ ClientEnds
    BY <1>4 DEF ClientBegins, ClientAsks, ClientIsAnswered, ClientEnds
  <1>5. ASSUME NEW g \in Conn, ServerDiscards(g) \/ ServerAccepts(g) \/ Break(g)
        PROVE  UNCHANGED <<sent, delivered>>
    BY <1>5 DEF ServerDiscards, ServerAccepts, Break
  <1>6. ASSUME NEW p \in Peer,
               \/ WatchTimer(p) \/ KeepAlive(p) \/ ReplayWindowPasses(p)
               \/ StopListening(p) \/ Swallow(p) \/ \E g \in Conn : LoseTail(p, g)
        PROVE  UNCHANGED <<sent, delivered>>
    BY <1>6 DEF WatchTimer, KeepAlive, ReplayWindowPasses, StopListening, Swallow, LoseTail
  <1>7. CASE UNCHANGED vars
    BY <1>7 DEF vars
  <1>. QED  BY <1>1, <1>2, <1>3, <1>4, <1>5, <1>6, <1>7 DEF Next, ProgramStep, Receive

\* Whatever breaks, each end hands over the messages of the other once each and in
\* their order: the two protocols implement the channel of MessageChannel.
THEOREM ProtocolIsAChannel ==
    Spec => ImplementsChannel
  <1>1. Init => Channel!Init
    BY DEF Init, Channel!Init
  <1>2. IInv /\ IInv' /\ [Next]_vars => [Channel!Next]_<<sent, delivered>>
    BY NextImplementsChannel
  <1>. QED  BY <1>1, <1>2, BooksAndStreams, PTL DEF Spec, ImplementsChannel, Channel!Spec
=============================================================================
