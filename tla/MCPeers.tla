------------------------------ MODULE MCPeers ------------------------------
(***************************************************************************)
(* What systems that are peers of each other agree on, each component on a *)
(* small instance, for TLC: a behaviour is one of the component chosen in  *)
(* its first state, and the variables of the others keep one value.        *)
(***************************************************************************)
EXTENDS ReliabilityLayer, PeerConnection, FullyConnectedMesh2, ReadyEvent,
        TwoWayAuthentication

VARIABLE component   \* the one whose behaviour this is

\* Connections: a remote system for the other.
MCMaximum == [p \in Peer |-> 1]

Of(reliability, parts) == [reliability |-> reliability, parts |-> parts]

\* Reliability layer: ordered messages of which one is split, with numbers that
\* wrap; an ordered message on either side of a sequenced one; a split message
\* before others; receipts; more parts than the resend buffer holds.
MCScenario ==
  {[first |-> 14, script |-> <<Of("RELIABLE_ORDERED", 1), Of("RELIABLE_ORDERED", 1),
                               Of("RELIABLE_ORDERED", 2)>>],
   [first |-> 14, script |-> <<Of("RELIABLE_ORDERED", 1), Of("RELIABLE_SEQUENCED", 1),
                               Of("RELIABLE_ORDERED_WITH_ACK_RECEIPT", 1)>>],
   [first |-> 14, script |-> <<Of("RELIABLE_ORDERED", 2), Of("UNRELIABLE_SEQUENCED", 1),
                               Of("RELIABLE", 1)>>],
   [first |-> 0, script |-> <<Of("UNRELIABLE_WITH_ACK_RECEIPT", 1), Of("RELIABLE_WITH_ACK_RECEIPT", 1),
                              Of("UNRELIABLE_SEQUENCED", 1)>>],
   [first |-> 0, script |-> <<Of("RELIABLE", 2), Of("RELIABLE_WITH_ACK_RECEIPT", 2),
                              Of("RELIABLE", 2)>>]}

\* Mesh: the third system has the application add its participants.  Three
\* systems that all connect, or that lose a connection and may have it again.
MCAutoParticipate == [p \in System |-> p # 3]
MCMeshLots == {<<1, 2, 3>>, <<3, 2, 1>>}
MCMeshBudgets == {[connects |-> 3, breaks |-> 0], [connects |-> 2, breaks |-> 1]}

\* Ready events: three systems that only set the event and wait for each other, as
\* two of them do already; or two that take back what they did or lose each other.
Takes(unset, force, forget, waiting) ==
  [unset |-> unset, force |-> force, forget |-> forget, waiting |-> waiting]
MCReadyBudgets == {Takes(0, 0, 0, {1, 2}), Takes(0, 0, 1, {}), Takes(1, 1, 0, {})}

\* Authentication: two systems that have one password in common.
MCPasswordOf ==
  [p \in System |-> IF p = 3 THEN <<>> ELSE [i \in Identifier |-> IF i = "shared" THEN 0 ELSE p]]
MCChallengeBudgets == {<<2, 0, 0>>, <<1, 1, 0>>}

Links(made, lost) == [connects |-> made, breaks |-> lost]

MCLinks ==
  CASE component = "mesh" -> LinksInit({}, MeshBudgets)
    [] component = "ready" ->
         IF reversals = Takes(0, 0, 0, {1, 2}) THEN LinksInit(AllPairs, {Links(0, 0)})
         ELSE LinksInit({Pair(1, 2)}, {Links(0, 1)})
    [] OTHER -> LinksInit({Pair(1, 2)}, {Links(0, 1)})

MCInit ==
  /\ component \in {"reliability", "connection", "mesh", "ready", "authentication"}
  /\ ReliabilityInit /\ ConnectionInit /\ MeshInit /\ ReadyInit /\ AuthInit
  /\ component # "reliability" => scenario = CHOOSE s \in Scenario : TRUE
  /\ component # "connection" => misinformed = {}
  /\ component # "mesh" =>
       drawn = CHOOSE lots \in MeshLots : TRUE

  /\ component # "ready" => reversals = CHOOSE budget \in ReadyBudgets : TRUE
  /\ component # "authentication" =>
       challenges = CHOOSE c \in {[p \in System |-> [left |-> b[p], made |-> 0, lost |-> 0]] :
                                    b \in ChallengeBudgets} : TRUE
  /\ MCLinks

\* Of the plugins that are peers' only one is in a behaviour, so the links are its own.
MeshPlugin == <<mesh, drawn, unnumbered>>
ReadyPlugin == <<node, reversals, forgetters, forcers>>
AuthPlugin == <<passwords, outgoingChallenges, generatedNonces, nextRequestId, announced, challenges>>

MCNext ==
  /\ UNCHANGED component
  /\ component # "reliability" => UNCHANGED reliabilityVars
  /\ component # "connection" => UNCHANGED connectionVars
  /\ component # "mesh" => UNCHANGED MeshPlugin
  /\ component # "ready" => UNCHANGED ReadyPlugin
  /\ component # "authentication" => UNCHANGED AuthPlugin
  /\ component \in {"reliability", "connection"} => UNCHANGED linkVars
  /\ \/ component = "reliability" /\ ReliabilityNext
     \/ component = "connection" /\ ConnectionNext
     \/ component = "mesh" /\ MeshNext
     \/ component = "ready" /\ ReadyNext
     \/ component = "authentication" /\ AuthNext

\* Every component keeps its state within its types.
PeersTypeOK ==
  /\ ReliabilityTypeOK /\ ConnectionTypeOK
  /\ CASE component = "mesh" -> MeshTypeOK
       [] component = "ready" -> ReadyTypeOK
       [] OTHER -> AuthTypeOK

=============================================================================
