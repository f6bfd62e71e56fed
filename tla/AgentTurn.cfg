CONSTANTS
  MaxCalls = 3
  MaxText = 2
  MaxFaults = 1
  MaxParallel = 2
  MaxRounds = 2
SPECIFICATION FairSpec
INVARIANTS
  BatchComplete
  EffectsRunAlone
  DenialStopsEffects
  TranscriptSettles
  FinishLands
PROPERTIES
  NeverReverts
  TurnEnds
CHECK_DEADLOCK FALSE
