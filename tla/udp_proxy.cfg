CONSTANTS
  Client <- MCClients
  Server <- MCServers
  NoServer <- MCNoServer
  Ask <- MCAsk
  Ping <- MCPing
  PingReply = {}
  MaxPings = 8
  ByGuid = {TRUE}
  Unresponsive = 1000
  Scenario <- MCScenario
SPECIFICATION FairProxySpec
INVARIANTS ProxyTypeOK LoginsAgree OneOutcomeUntilLoss
PROPERTIES RequestsGetOutcomes
CHECK_DEADLOCK FALSE
