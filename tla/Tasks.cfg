SPECIFICATION Spec
CONSTANTS
  t1 = t1
  t2 = t2
  s1 = s1
  s2 = s2
  x1 = x1
  x2 = x2
  Tasks <- TwoTasks
  Sessions <- OneSession
  Trees <- TwoTrees
  None = None
  NumCmds = 2
  NumCriteria = 1
  MaxFaults = 1
INVARIANTS
  LeftOpenOnlyIfCut
  ValidatedMeansPassed
  ReportIsTrue
PROPERTIES
  CachedPassVouchesForTree
  KeepsPromise
SYMMETRY Symmetric
CHECK_DEADLOCK FALSE
