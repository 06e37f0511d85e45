--------------------------- MODULE MessageChannel ---------------------------
(***************************************************************************)
(* What a message passing protocol of the editor promises to the code on   *)
(* top of it (IMessagePassingProtocol): each side receives the messages of *)
(* the other once each and in the order they were sent, whatever happens   *)
(* to the sockets underneath.                                              *)
(***************************************************************************)
EXTENDS Naturals, Sequences

CONSTANTS
    Peer,       \* the two ends
    Other       \* the end at the other side of each

VARIABLES
    sent,       \* the payloads each end has sent, oldest first
    delivered   \* the payloads each end has been handed

\* An end sends one more payload.
Send(p) ==
    /\ sent' = [sent EXCEPT ![p] = Append(@, Len(@) + 1)]
    /\ UNCHANGED delivered

\* An end is handed the next payloads of the other end, one or more.
Deliver(p) ==
    /\ \E n \in Len(delivered[p]) + 1 .. Len(sent[Other[p]]) :
          delivered' = [delivered EXCEPT ![p] = SubSeq(sent[Other[p]], 1, n)]
    /\ UNCHANGED sent

Init ==
    /\ sent = [p \in Peer |-> <<>>]
    /\ delivered = [p \in Peer |-> <<>>]

Next == \E p \in Peer : Send(p) \/ Deliver(p)

Spec == Init /\ [][Next]_<<sent, delivered>>
=============================================================================
