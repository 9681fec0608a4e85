SPECIFICATION FairSpec
CONSTANTS
  a = a
  b = b
  ab = ab
  ba = ba
  r1 = r1
  r2 = r2
  Record = {r1, r2}
  Signed = {r1}
  Malformed = {}
  Node = {a, b}
  Host <- MCHost
  Peer <- MCPeer
  Engine = {ab, ba}
  MaxInflight = 1
  LinkChecked = {}
  Setups <- MCStreamOnly
  MaxFaults = 0
PROPERTIES
  CatchesUp
CHECK_DEADLOCK FALSE
