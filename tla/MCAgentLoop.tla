---------------------------- MODULE MCAgentLoop ----------------------------
(* AgentLoop with interchangeable tool_use ids, for TLC. *)
EXTENDS AgentLoop, TLC

Symmetry == Permutations(Id)
=============================================================================
