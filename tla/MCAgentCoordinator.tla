------------------------- MODULE MCAgentCoordinator -------------------------
(* A workflow of two steps and a call with recovery for the same request,   *)
(* on two agents, one of which is not registered at the start.              *)
EXTENDS AgentCoordinator, TLC

CONSTANTS planner, builder, w1, s1, r1

MCAgent == {planner, builder}
MCWorkflowOf == [c \in Call |-> w1]
MCSteps ==
    <<[agent |-> planner, dependency |-> None],
      [agent |-> builder, dependency |-> planner]>>
MCStepsOf == [c \in SequentialCall |-> MCSteps]
MCAgentOf == [c \in RecoveryCall |-> builder]
MCFits == (w1 :> {planner, builder})
MCKnown == <<planner>>
MCKnownNone == <<>>
=============================================================================
