SPECIFICATION FairSpec
CONSTANTS
  a = a
  b = b
  ab = ab
  ba = ba
  r1 = r1
  r2 = r2
  Record = {r1, r2}
  Signed = {r1}
  Malformed = {}
  Node = {a, b}
  Host <- MCHost
  Peer <- MCPeer
  Engine = {ab, ba}
  MaxInflight = 3
  LinkChecked = {a}
  Setups <- MCSetups
  MaxFaults = 1
INVARIANTS
  TypeOK
  CacheOnChain
  ReplicaPrefix
  SameTipSameHistory
  NothingRejected
PROPERTIES
  StoresImplementHashChain
  CatchesUp
CHECK_DEADLOCK FALSE
