SPECIFICATION Spec
CONSTANTS
  Record = {r1, r2, bad}
  Signed = {r1}
  Malformed = {bad}
  r1 = r1
  r2 = r2
  bad = bad
  None = None
  Handle = {h1, h2}
  Indexed = {h1}
  Batch <- MCBatch
  MaxSeg = 2
  Meta <- MCMeta
  Filters <- MCFilters
  Half = 4
INVARIANTS
  TypeOK
  TableIsChain
  TipOnChain
  IndexSound
  QueryMatchesScan
PROPERTIES
  AppendOnly
  ImplementsHashChain
