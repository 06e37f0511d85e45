--------------------------- MODULE MCAgentRuntime ---------------------------
(* Two agents: the planner tracks nothing, and here it may throw, as the    *)
(* interface allows; the builder tracks its tasks.  Both sleep first: an    *)
(* agent that does not, like the designer, has fewer interleavings of the   *)
(* same steps.  The two invocations share their task id, so that they       *)
(* replace each other's entries.                                            *)
EXTENDS AgentRuntime, TLC

CONSTANTS planner, builder, c1, c2, t1

MCAgent == {planner, builder}
MCAgentSeq == <<planner, builder>>
MCPriority == (planner :> 10) @@ (builder :> 8)
MCTaskOf == (c1 :> t1) @@ (c2 :> t1)
MCCan == (t1 :> MCAgent)
=============================================================================
