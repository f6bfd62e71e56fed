\* Three calls of Run or Summarize in one session, in any overlap.
SPECIFICATION FairSpec
CONSTANTS
  s1 = s1
  s2 = s2
  None = None
  Sessions <- OneSession
  MaxRequests = 3
  MaxUpdates = 1
INVARIANTS
  MarkerHasLiveOwner
  OverlapNeedsCancelOrErasure
  CompactionKeepsTurns
PROPERTIES
  CompactionStands
  ModelSteadyUnderTurns
  RequestsEnd
CHECK_DEADLOCK FALSE
