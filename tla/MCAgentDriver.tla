---------------------------- MODULE MCAgentDriver ----------------------------
(* AgentDriver on small instances: messages are model values. *)
EXTENDS AgentDriver
=============================================================================
