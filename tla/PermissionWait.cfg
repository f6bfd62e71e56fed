\* The same without lost events: a user who presses two keys before the first is handled.
SPECIFICATION FairSpec
CONSTANTS
  c1 = c1
  c2 = c2
  c3 = c3
  root = root
  sub = sub
  k1 = k1
  k2 = k2
  None = None
  Callers <- TwoCallers
  Roots <- OneRoot
  Subagents <- OneSubagent
  Keys <- OneKey
  MaxInFlight = 2
  MaxDrops = 0
PROPERTIES
  WaitEnds
CHECK_DEADLOCK FALSE
