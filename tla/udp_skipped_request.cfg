CONSTANTS
  Client <- MCTrio
  Server <- MCOneServer
  NoServer <- MCNoServer
  Ask <- MCAskForThird
  Ping <- MCPings
  PingReply <- MCNoReply
  MaxPings = 0
SPECIFICATION Spec
VIEW View
INVARIANTS NoRequestAtLostServer
