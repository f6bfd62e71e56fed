\* Two requests of a session and its subagent, up to three key presses in flight, one lost event.
SPECIFICATION FairSpec
CONSTANTS
  c1 = c1
  c2 = c2
  c3 = c3
  root = root
  sub = sub
  k1 = k1
  k2 = k2
  None = None
  Callers <- TwoCallers
  Roots <- OneRoot
  Subagents <- OneSubagent
  Keys <- OneKey
  MaxInFlight = 3
  MaxDrops = 1
INVARIANTS
  PromptsDoNotOverlap
  OutcomeIsDeserved
  RefusalsAreReported
PROPERTIES
  AllowedNotAskedAgain
  RequestReturns
CHECK_DEADLOCK FALSE
