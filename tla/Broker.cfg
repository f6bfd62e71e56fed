\* Two subscribers and two publishers, two events, a buffer that fills up, one Shutdown.
SPECIFICATION FairSpec
CONSTANTS
  s1 = s1
  s2 = s2
  p1 = p1
  p2 = p2
  Closer = Closer
  None = None
  Subs <- TwoSubs
  Publishers <- TwoPublishers
  BufferSize = 1
  MaxEvents = 2
INVARIANTS
  NoPanic
  MissedOnlyIfFull
PROPERTIES
  Promise
  CancelCloses
CHECK_DEADLOCK FALSE
