SPECIFICATION Spec
CONSTANTS
  MaxRetries = 8
  MaxDeltas = 2
INVARIANTS
  AnswerIsWhole
PROPERTIES
  StreamEnds
CHECK_DEADLOCK FALSE
