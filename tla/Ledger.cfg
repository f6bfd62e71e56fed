SPECIFICATION Spec
CONSTANTS
  u1 = u1
  u2 = u2
  u3 = u3
  s1 = s1
  s2 = s2
  Turns <- TwoTurns
  Sessions <- TwoSessions
  UserSessions <- OneSession
  None = None
  MaxCalls = 3
  Budget = 1
  MaxFaults = 1
INVARIANTS
  TotalsReconcile
  OpenOnlyIfCut
PROPERTIES
  OverBudgetOnlyIfApproved
SYMMETRY Symmetric
CHECK_DEADLOCK FALSE
