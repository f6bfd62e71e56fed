------------------------------- MODULE MCLedger -------------------------------
(***************************************************************************)
(* Instances of Ledger for TLC.                                             *)
(***************************************************************************)
EXTENDS Ledger, TLC

CONSTANTS u1, u2, u3, s1, s2

TwoTurns    == {u1, u2}
ThreeTurns  == {u1, u2, u3}
TwoSessions == {s1, s2}
OneSession  == {s1}
Symmetric   == Permutations(TwoTurns)
==============================================================================
