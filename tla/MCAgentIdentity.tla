-------------------------- MODULE MCAgentIdentity --------------------------
(* Small instances of AgentIdentity for TLC.                               *)
EXTENDS AgentIdentity, TLC

(* Generated keys and node ids are interchangeable.                        *)
Symmetry == Permutations(Keys) \cup Permutations(NodeIds)
=============================================================================
