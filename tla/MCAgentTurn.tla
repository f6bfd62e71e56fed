----------------------------- MODULE MCAgentTurn ------------------------------
(***************************************************************************)
(* Two rounds of up to three calls, on a semaphore of two.                  *)
(***************************************************************************)
EXTENDS AgentTurn
==============================================================================
