---------------------------- MODULE MCPermission ----------------------------
(***************************************************************************)
(* Instances of Permission for TLC.                                         *)
(***************************************************************************)
EXTENDS Permission, TLC

CONSTANTS c1, c2, c3, root, sub, k1, k2

ThreeCallers == {c1, c2, c3}
TwoCallers   == {c1, c2}
OneRoot      == {root}
OneSubagent  == {sub}
TwoKeys      == {k1, k2}
OneKey       == {k1}
==============================================================================
