------------------------------- MODULE MCStream -------------------------------
(***************************************************************************)
(* Instance of Stream for TLC.                                              *)
(***************************************************************************)
EXTENDS Stream
==============================================================================
