\* The second Delete of a turn that ended normally, with a new turn started between the two.
SPECIFICATION Spec
CONSTANTS
  s1 = s1
  s2 = s2
  None = None
  Sessions <- OneSession
  MaxRequests = 3
  MaxUpdates = 0
PROPERTIES
  SecondDeleteHarmless
CHECK_DEADLOCK FALSE
