----------------------------- MODULE MCOutcomes -----------------------------
(***************************************************************************)
(* What must come to an end between two systems: requests for a punch,     *)
(* connection handshakes and the detection of a NAT, each on a small       *)
(* instance, for TLC.  A behaviour is one of the component chosen in its   *)
(* first state, and the variables of the others keep one value.            *)
(***************************************************************************)
EXTENDS NatPunchthrough, PeerConnection, NatTypeDetection

VARIABLE component   \* the one whose behaviour this is

\* Punchthrough: two of three clients try again, one may not know its port stride.
MCGuid == 1 .. 3
MCRetrying == 1 .. 2
MCPort == {5}
MCProbing == {{}, {1}}

\* Connections: room for one.
MCMaximum == [p \in Peer |-> 1]

MCInit ==
  /\ component \in {"punchthrough", "connection", "natType"}
  /\ NetInit /\ ConnectionInit /\ NatTypeInit
  /\ component # "punchthrough" => requests = 0
  /\ component # "connection" => misinformed = {}
  /\ component # "natType" => natType = [c \in Client |-> "NONE"]

MCNext ==
  \/ component = "punchthrough" /\ NetNext /\ UNCHANGED <<component, connectionVars, natTypeVars>>
  \/ component = "connection" /\ ConnectionNext /\ UNCHANGED <<component, allVars, natTypeVars>>
  \/ component = "natType" /\ NatTypeNext /\ UNCHANGED <<component, allVars, connectionVars>>

MCSpec ==
  /\ MCInit /\ [][MCNext]_<<component, allVars, connectionVars, natTypeVars>>
  /\ NetFairness /\ ConnectionFairness /\ NatTypeFairness

\* Whoever begins to connect, or to have its NAT detected, is told how it ended.
HandshakesEnd == ConnectIsAnswered /\ []NoDetectionForgotten /\ DetectionsEnd

=============================================================================
