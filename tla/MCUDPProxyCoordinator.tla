----------------------- MODULE MCUDPProxyCoordinator -----------------------
(***************************************************************************)
(* UDPProxyCoordinator on small instances, for TLC.                        *)
(***************************************************************************)
EXTENDS UDPProxyCoordinator

MCNoServer == 0
MCTrio == 1 .. 3
MCOneServer == {11}

\* Two clients ask for a third.
MCAskForThird == {<<1, 1, 3>>, <<2, 2, 3>>}

MCPings == {1, 2, 3}
MCNoReply == {}

\* No step reads the messages the step before it has sent.
View == <<connected, serverList, requests, sourcePings, pcVars>>

=============================================================================
