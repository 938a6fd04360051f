CONSTANTS
  Guid <- MCGuid
  Port <- MCPort
  Ptr = {p1, p2}
  SessionIds = 4
  SelfRequests = FALSE
  Retrying <- MCRetrying
  MaxRequests = 2
  MaxOverdue = 0
  MayLeave = TRUE
  Probing <- MCProbing
  Sockets = {1, 2}
  Peer = {"p1", "p2"}
  Misinformed = {"p1"}
  maximumNumberOfPeers <- MCMaximum
  maximumIncomingConnections <- MCMaximum
  MaxRequestsMade = 2
  MaxCalls = 2
  MaxBreaks = 0
  Client = {c1}
  NatKind = {"NONE", "FULL_CONE", "ADDRESS_RESTRICTED", "PORT_RESTRICTED", "SYMMETRIC"}
  MaxDetections = 2
SPECIFICATION MCSpec
INVARIANTS NatTypeOK NeverTooFriendly
PROPERTIES RequestsGetOutcomes HandshakesEnd
CHECK_DEADLOCK FALSE
