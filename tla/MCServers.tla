----------------------------- MODULE MCServers -----------------------------
(***************************************************************************)
(* Servers that share no state, each on a small instance, for TLC: a       *)
(* behaviour is one of the server chosen in its first state, and the       *)
(* variables of the others keep one value.                                 *)
(***************************************************************************)
EXTENDS NatPunchthroughServer, Servers

VARIABLES
  component,   \* the one whose behaviour this is
  connected, serverList, requests, sourcePings,   \* of the coordinator of proxies
  removed, requestsToVisit, answers               \* its closing, toVisit and sent

coordinatorVars ==
  <<connected, serverList, requests, sourcePings, removed, requestsToVisit, answers>>

\* Punchthrough: three users, an address for every pair of them.  Sessions play
\* no part in what this run checks, so one id is enough.
MCGuid == 1 .. 3
MCPair == 1 .. 2
MCPort == {5}

\* Addresses are interchangeable.
Symmetry == Permutations(Ptr)

\* No step of the punchthrough server or of the coordinator reads the messages
\* the step before it has sent.
View == <<component, users, isReady, mostRecentPort, connectionAttempts, attempts,
          sessionId, pcVars, relayVars, cloudVars,
          connected, serverList, requests, sourcePings, removed, requestsToVisit>>

\* Relay: one member asks again under another name.
CONSTANT g1
MCRenaming == {g1}

\* Cloud: a client on each server.
MCServerOf == [c \in CloudUser |-> IF c = "a" THEN "s1" ELSE "s2"]

\* Coordinator of proxies: a client that asks for another, a third system that
\* asks for the same two the other way around, and what clients answer when
\* there are three servers, or for two that were there before.
MCClients == 1 .. 3
MCProxies == {11, 12, 13}
MCAsk == {<<1, 1, 2>>, <<3, 2, 1>>}
MCPing == 1 .. 3
Pings(servers, at) == [i \in DOMAIN servers |-> [serverAddress |-> servers[i], ping |-> at[i]]]
MCPingReply == {Pings(<<11, 12, 13>>, <<1, 2, 3>>), Pings(<<12, 13>>, <<2, 2>>)}

Coordinator == INSTANCE UDPProxyCoordinator WITH
  Client <- MCClients, Server <- MCProxies, NoServer <- 0, Ask <- MCAsk,
  Ping <- MCPing, PingReply <- MCPingReply, MaxPings <- 3,
  closing <- removed, toVisit <- requestsToVisit, sent <- answers

\* The coordinator keeps its state within its types, also in the loop of
\* OnClosedConnection.
CoordinatorTypeOK == Coordinator!TypeOK

\* The list of requests agrees with the servers and the connections.
RequestsAgree == Coordinator!RequestsAgree

\* "For each pending client for this server, choose from remaining servers"
\* (OnClosedConnection): no request stays at a server that is gone, as
\* long as there is one request at a time: both ask for one pair.
NoRequestAtLostServer == Coordinator!NoRequestAtLostServer

\* The coordinator does what ProxyForwarding promises, while servers come and go
\* between the steps of its loops.
ImplementsForwarding == Coordinator!ImplementsForwarding

MCInit ==
  /\ component \in {"punchthrough", "relay", "cloud", "coordinator"}
  /\ Init /\ RelayInit /\ CloudInit /\ Coordinator!Init

MCNext ==
  /\ UNCHANGED component
  /\ component # "punchthrough" => UNCHANGED vars
  /\ component # "relay" => UNCHANGED relayVars
  /\ component # "cloud" => UNCHANGED cloudVars
  /\ component # "coordinator" => UNCHANGED coordinatorVars
  /\ \/ component = "punchthrough" /\ Next
     \/ component = "relay" /\ RelayNext
     \/ component = "cloud" /\ CloudNext
     \/ component = "coordinator" /\ Coordinator!Next

MCSpec == MCInit /\ [][MCNext]_<<component, vars, relayVars, cloudVars, coordinatorVars>>

=============================================================================
