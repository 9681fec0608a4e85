SPECIFICATION Spec
CONSTANTS
  MaxTip = 5
  MaxCount = 4
  MaxRounds = 3
INVARIANTS
  SendTipSucceeds
CHECK_DEADLOCK FALSE
