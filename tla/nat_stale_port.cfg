CONSTANTS
  Guid <- MCGuid
  Port <- MCPort
  Ptr = {p1, p2, p3}
  SessionIds = 4
  SelfRequests = FALSE
  Retrying <- MCNone
  MaxRequests = 2
  MaxOverdue = 1
  MayLeave = FALSE
  Probing <- MCAllKnow
  Sockets = {1, 2}
SPECIFICATION NetSpec
PROPERTIES PortsAreOfThisSession
VIEW View
CHECK_DEADLOCK FALSE
