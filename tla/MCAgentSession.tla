--------------------------- MODULE MCAgentSession ---------------------------
(* Small instances of AgentSession for TLC.                                *)
EXTENDS AgentSession

=============================================================================
