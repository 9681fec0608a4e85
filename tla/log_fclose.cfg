SPECIFICATION Spec
CONSTANTS
  Record = {r1, r2}
  Signed = {r1}
  Malformed = {}
  r1 = r1
  r2 = r2
  Batch <- MCBatch
  Handle = {h1}
  MaxSeg = 2
  Faults = {"fclose"}
INVARIANTS
  AckedKept
