CONSTANTS
  Guid <- MCGuid
  Port <- MCPort
  Ptr = {p1, p2, p3}
  SessionIds = 1
  SelfRequests = FALSE
  g1 = g1
  Member = {g1, g2, g3}
  Name = {n1, n2}
  Group = {r1, r2}
  Renaming <- MCRenaming
  NoGroup = NoGroup
  CloudMachine = {"s1", "s2"}
  CloudUser = {"a", "b"}
  ServerOf <- MCServerOf
  CloudKey = {"k"}
  MaxPosts = 2
  MaxGets = 1
  MaxDepartures = 2
SPECIFICATION MCSpec
SYMMETRY Symmetry
VIEW View
INVARIANTS TypeOK AttemptsLinked OneAttemptPerPair StartsLiveUsers NoAttemptLeftWaiting
INVARIANTS ServersTypeOK RelayEntriesAgree GroupsAreWhole
INVARIANTS NotesAgree SubscribersSeeLatest QueriesWaitForAnswers
INVARIANTS CoordinatorTypeOK RequestsAgree NoRequestAtLostServer
PROPERTIES ImplementsForwarding
CHECK_DEADLOCK FALSE
