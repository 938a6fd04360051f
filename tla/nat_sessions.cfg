CONSTANTS
  Guid <- MCGuid
  Port <- MCPort
  Ptr = {p1, p2, p3}
  SessionIds = 3
  SelfRequests = FALSE
  Retrying <- MCNone
  MaxRequests = 3
  MaxOverdue = 1
  MayLeave = TRUE
  Probing <- MCProbing
  Sockets = {1, 2}
SPECIFICATION NetSpec
INVARIANTS UsersAndClientsAgree NoRequestForgottenWhileConnected
PROPERTIES EndsAreAnnounced
SYMMETRY Symmetry
VIEW View
CHECK_DEADLOCK FALSE
