------------------------------- MODULE MCShell -------------------------------
(***************************************************************************)
(* Instances of Shell for TLC.                                              *)
(***************************************************************************)
EXTENDS Shell

CONSTANTS c1, c2, c3

ThreeCallers == {c1, c2, c3}
==============================================================================
