--------------------------- MODULE MCGraphEngine ---------------------------
(* An engine that is given nothing, an intent or a conversation of an       *)
(* earlier session, and may load them too.                                  *)
EXTENDS GraphEngine, TLC

MCIntent == [nodes |-> (1 :> Intent), edges |-> <<>>]
MCConversation ==
    [nodes |-> (1 :> [type |-> "conversation", version |-> 0, messages |-> <<0>>]),
     edges |-> <<>>]
MCGiven == {MCIntent, MCConversation}
=============================================================================
