SPECIFICATION Spec
CONSTANTS
  Record = {r1, r2}
  Signed = {r1}
  Malformed = {}
  MaxLeaves = 6
INVARIANTS
  LevelOfTree
  ProofLeadsToLevel
  ProofVerifies
  RootDeterminesRecords
CHECK_DEADLOCK FALSE
