------------------------------ MODULE MCBroker ------------------------------
(***************************************************************************)
(* Instances of Broker for TLC.                                             *)
(***************************************************************************)
EXTENDS Broker, TLC

CONSTANTS s1, s2, p1, p2

TwoSubs       == {s1, s2}
TwoPublishers == {p1, p2}
==============================================================================
