SPECIFICATION Spec
CONSTANTS
  c1 = c1
  c2 = c2
  c3 = c3
  Callers <- ThreeCallers
  None = None
  QueueCap = 1
  PipeCap = 1
  MaxShells = 2
INVARIANTS
  ResultIsTrue
PROPERTIES
  ExecReturns
CHECK_DEADLOCK FALSE
