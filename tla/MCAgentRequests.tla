--------------------------- MODULE MCAgentRequests ---------------------------
(***************************************************************************)
(* Instances of AgentRequests for TLC.                                      *)
(***************************************************************************)
EXTENDS AgentRequests, TLC

CONSTANTS s1, s2

OneSession  == {s1}
TwoSessions == {s1, s2}
==============================================================================
