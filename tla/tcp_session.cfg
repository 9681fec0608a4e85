SPECIFICATION SessionSpec
CONSTANTS
  srv = srv
  cli = cli
  r1 = r1
  Server = Server
  Client = Client
  Record = {r1}
  Signed = {r1}
  Malformed = {}
  Node = {srv, cli}
  Engine = {Server, Client}
  Host <- MCHost
  Peer <- MCPeer
  MaxInflight = 2
  LinkChecked = {}
  Setups <- MCSetups
  MaxFaults = 1
  SocketFrames = 2
  MaxSessions = 2
  MaxKills = 1
INVARIANTS
  UndisturbedSyncs
PROPERTIES
  ServerOnlyServes
  SessionEnds
CHECK_DEADLOCK FALSE
