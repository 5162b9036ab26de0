-------------------------- MODULE MCCollaboration --------------------------
(* Agents and clients are interchangeable in every property.               *)
EXTENDS Collaboration, TLC

\* A resource is handed to another agent, not to its owner.
MCHandoffs == {h \in Agents \X Agents : h[1] # h[2]}

MCSymmetry == Permutations(Agents) \cup Permutations(Clients)
============================================================================
