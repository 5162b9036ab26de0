--------------------------- MODULE MCAgentRuntime --------------------------
(* Agents, sessions and callers are interchangeable in every property.     *)
EXTENDS AgentRuntime, TLC

MCSymmetry == Permutations(Agents) \cup Permutations(Sessions) \cup Permutations(Callers)
============================================================================
