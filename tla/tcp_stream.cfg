SPECIFICATION FairSpec
CONSTANTS
  GroupBits = 3
  Width = 7
  Size <- MCSize
  Message <- MCMessage
  LengthLen = 2
  Capacity = 3
  MaxSent = 2
INVARIANTS
  NothingMalformed
  TruncatedNeverDecodes
PROPERTIES
  ImplementsFrameQueue
  Arrives
CHECK_DEADLOCK FALSE
