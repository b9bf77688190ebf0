---------------------------- MODULE MCAgentLoop ----------------------------
(* The agent loop for TLC. *)
EXTENDS AgentLoop
=============================================================================
