SPECIFICATION Spec
CONSTANTS
  x1 = x1
  x2 = x2
  s1 = s1
  s2 = s2
  p1 = p1
  p2 = p2
  Calls <- TwoCalls
  Sessions <- TwoSessions
  Paths <- TwoPaths
  None = None
  MaxSec = 1
  MaxWrites = 3
  MaxMoves = 1
INVARIANTS
  
  RecordedUnlessCrowded
  OriginalKept
  CheckpointTaken
  FailureChangedNothing
  MoveKeepsContent
SYMMETRY Symmetric
CHECK_DEADLOCK FALSE
