------------------------------- MODULE MCTasks -------------------------------
(***************************************************************************)
(* Instances of Tasks for TLC.                                              *)
(***************************************************************************)
EXTENDS Tasks, TLC

CONSTANTS t1, t2, s1, s2, x1, x2

OneTask     == {t1}
TwoTasks    == {t1, t2}
OneSession  == {s1}
TwoSessions == {s1, s2}
TwoTrees    == {x1, x2}
Symmetric   == Permutations(TwoTasks) \cup Permutations(TwoTrees)
==============================================================================
