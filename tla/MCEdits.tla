------------------------------- MODULE MCEdits -------------------------------
(***************************************************************************)
(* Instances of Edits for TLC.                                              *)
(***************************************************************************)
EXTENDS Edits, TLC

CONSTANTS x1, x2, s1, s2, p1, p2

TwoCalls    == {x1, x2}
TwoSessions == {s1, s2}
OnePath     == {p1}
TwoPaths    == {p1, p2}
Symmetric   == Permutations(TwoCalls) \cup Permutations(TwoSessions) \cup Permutations(TwoPaths)
==============================================================================
