--------------------------- MODULE MCAgentSocket ---------------------------
(***************************************************************************)
(* Instances of AgentSocket for TLC.                                       *)
(***************************************************************************)
EXTENDS AgentSocket

CONSTANTS n1, n2, c1, c2, c3
=============================================================================
