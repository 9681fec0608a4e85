SPECIFICATION Spec
CONSTANTS
  Record = {r1, r2, u, bad}
  Signed = {r1, r2}
  Malformed = {bad}
  r1 = r1
  r2 = r2
  u = u
  bad = bad
  RecordLen <- MCRecordLen
  TargetRecords = 2
  TargetBytes = 3
  Options <- MCOptions
  Foreign <- MCForeign
  MaxAccepted = 3
  MaxSeg = 3
  MaxDamaged = 1
INVARIANTS
  TypeOK
  AcceptedOnce
  OwnSegmentsVerify
  FullOnlyWhileFailing
  UndamagedVerifies
  DamageNoticed
PROPERTIES
  BlockedUntilClosed
  ImplementsHashChain
