----------------------------- MODULE MCUDPProxy -----------------------------
(***************************************************************************)
(* UDPProxy on small instances, for TLC.                                   *)
(***************************************************************************)
EXTENDS UDPProxy

MCNoServer == 0
MCClients == 1 .. 2
MCServers == {11, 12}

\* A client asks for another.
MCAsk == {<<1, 1, 2>>}

\* With two servers, one of which gets lost, both are pinged; with one, the
\* client asks again, and the client or the server gets lost.
MCScenario ==
  {[systems |-> {1, 2, 11, 12}, lossy |-> {11}, losses |-> 1, requests |-> 1, whole |-> TRUE],
   [systems |-> {1, 2, 11}, lossy |-> {1, 11}, losses |-> 1, requests |-> 2, whole |-> TRUE]}

\* One server, which gets lost, and one request.
MCServerLost ==
  {[systems |-> {1, 2, 11}, lossy |-> {11}, losses |-> 1, requests |-> 1, whole |-> TRUE]}

MCPing == {1, 1000}

=============================================================================
