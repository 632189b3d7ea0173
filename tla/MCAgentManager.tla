--------------------------- MODULE MCAgentManager ---------------------------
(* An instance for TLC.                                                    *)
EXTENDS AgentManager

=============================================================================
