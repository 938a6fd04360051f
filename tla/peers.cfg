CONSTANTS
  NumberRange = 16
  ResendBufferLength = 4
  DatagramArrayLength = 2
  SequenceWeight = 8
  Scenario <- MCScenario
  MaxCopies = 2
  MaxPerDatagram = 2
  MaxDatagrams = 4
  Peer = {"p1", "p2"}
  Misinformed = {"p1"}
  maximumNumberOfPeers <- MCMaximum
  maximumIncomingConnections <- MCMaximum
  MaxRequestsMade = 2
  MaxCalls = 2
  MaxBreaks = 1
  System = {1, 2, 3}
  autoParticipateConnections <- MCAutoParticipate
  MeshLots <- MCMeshLots
  MeshBudgets <- MCMeshBudgets
  ReadyBudgets <- MCReadyBudgets
  Identifier = {"shared", "other"}
  PasswordOf <- MCPasswordOf
  ChallengeBudgets <- MCChallengeBudgets
INIT MCInit
NEXT MCNext
INVARIANTS PeersTypeOK NoMessageForgotten DeliveredInOrder ReceiptsTrue
INVARIANTS OutcomesAreTold PasswordsMatch HostsAgree EventsAgree ChallengesAgree
CHECK_DEADLOCK FALSE
