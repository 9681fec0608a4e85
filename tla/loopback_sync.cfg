SPECIFICATION Spec
CONSTANTS
  MaxTip = 5
  MaxCount = 4
  MaxRounds = 3
INVARIANTS
  FirstRoundSyncs
  DepthBounded
CHECK_DEADLOCK FALSE
