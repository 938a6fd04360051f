# NATCompleteServer: a verification project

NATCompleteServer is a set of servers built on RakNet that let game clients behind
routers reach each other: a NAT punchthrough facilitator, a UDP proxy coordinator with its
proxy servers, a NAT type detection server, a relay, and a cloud server. Each is a plugin
attached to a RakNet peer; the executable `Samples/NATCompleteServer/main.cpp` attaches a
selection of them and calls `Receive` in a loop.

This directory holds TLA+ models of the plugins and of the RakNet layers below them, the
configurations with which TLC checks them on small instances, and proofs, checked by TLAPS,
that hold for instances of every size. The reference is the code. File names below are
relative to `src/Source` unless they say otherwise.

## 1. The system

### How the parts run and interact

A RakNet peer has a network thread of its own (`RakPeer`, `ReliabilityLayer`), but plugins
run in the thread that calls `RakPeer::Receive`: `OnReceive` for each message,
`OnNewConnection` and `OnClosedConnection` for the events of a connection, `Update` once per
call. A plugin's handler runs to its end before the next event is looked at, so the hazards
of most plugins are not data races. They are:

  * *order*: each connection delivers `RELIABLE_ORDERED` messages in order, but messages of
    different systems, lost connections and timers of `Update` interleave in every way;
  * *two views of one connection*: the two sides notice a loss at different times, and may
    be connected again before the other has noticed;
  * *loops that change what they iterate over*: handlers walk over lists of requests and
    call functions that delete entries of those lists, or free objects that two lists share;
  * *state that was true when a message was sent*: reports, ready notices and pings arrive
    after the attempt they belong to is gone;
  * *retries and timeouts* that race with late answers;
  * *numbers that wrap* and are compared by their distance.

`UDPForwarder` (a thread of its own, fed by queues) and the network thread of `RakPeer` (fed
by `bufferedCommands`) run concurrently with the plugins.

### Components

| component | state | operations | what makes it correct |
|---|---|---|---|
| NAT punchthrough facilitator (`NatPunchthroughServer.cpp`) | users with their readiness and last port; connection attempts, each shared by the lists of two users; next session id | connect and disconnect, punchthrough request, port report, client ready, ten second timeout in `Update` | the lists and the attempts agree; one attempt per pair; nothing startable waits; both ends of an attempt that ends are told |
| NAT punchthrough client (`NatPunchthroughClient.cpp`) | the punch that runs (`sp`), targets that failed once, queued requests, port stride | `OpenNAT`, the messages of the facilitator, datagrams of the peer, `Update` | a punch is never started on top of another; each request gets its outcome; a retry ends |
| UDP proxy coordinator (`UDPProxyCoordinator.cpp`) | servers logged in; forwarding requests with the servers left to try, pings, and two timers | forwarding request, ping reply, server login, server reply, disconnections, `Update` | each request tries each server at most once and ends with one answer |
| UDP proxy server (`UDPProxyServer.cpp`) | coordinators being logged into and logged into | login, its answers, forwarding request | answers what it is asked, only to a coordinator |
| UDP proxy client (`UDPProxyClient.cpp`) | ping groups | request, ping servers, pong, timeouts | one reply per group |
| UDP forwarder (`UDPForwarder.cpp`) | forward entries, command queues, an output list, a thread | start, stop, forward datagrams, timeouts | both threads agree on the entries; each call returns; datagrams go to the other end |
| NAT type detection (`NatTypeDetection*.cpp`) | per client a test with a stage and a timer | the tests in turn | each client gets one verdict, never too friendly a one |
| Relay (`RelayPlugin.cpp`) | participants by name and by guid, chat rooms | add, remove, join, leave, relay | the two indices and the rooms agree |
| Cloud (`CloudServer.cpp`, `CloudClient.cpp`) | keyed rows, subscriptions, remote servers, buffered queries | post, release, get, subscribe, exchange between servers | subscribers see the rows; a query ends when all servers answered or left |
| Connections (`RakPeer.cpp`) | requests that are repeated, remote systems with a mode, commands for the network thread, bans | connect, the offline handshake, close, cancel, dead connections | each `Connect` has an outcome; whoever was told of a connection is told of its end |
| Reliability layer (`ReliabilityLayer.cpp`) | numbers, resend buffer and list, datagram history, reassembly, ordering heap | send, resend, acknowledge, receive | once, in order, nothing forgotten, receipts true |
| Full mesh (`FullyConnectedMesh2.cpp`) | participants with numbers, own number, host | connect, lose, number exchange, host calculation | one host for the systems of a mesh |
| Ready events (`ReadyEvent.cpp`) | per event a status and a list of systems waited for | set, force, wait, updates, queries | all who wait for each other see the event completed, or none |
| Two way authentication (`TwoWayAuthentication.cpp`) | passwords, challenges, nonces with time limits | challenge and the three messages after it | both sides are told the same, and the truth |
| Proxy registration service (`proxy_reg_service/www/prs.js`) | ids by address in a Redis store | find or create an id | ids are unique |
| everything else | | | see "not modelled" |

## 2. The plan

1. `NatPunchthroughServer`, the facilitator with open inputs, proved; `NatPunchthrough`, the
   facilitator with its clients and the network. *Done.*
2. `UDPProxyCoordinator` with open inputs, proved, and shown to implement the abstract
   `ProxyForwarding`; `UDPProxy`, the coordinator composed with its servers and clients;
   `UDPForwarder` with its thread. *Done.*
3. `NatTypeDetection`, `RelayPlugin`, `CloudServer`. *Done.*
4. What the servers stand on: `PeerConnection` (how RakPeer connects and disconnects) and
   `ReliabilityLayer`; and the plugins of peers: `FullyConnectedMesh2`, `ReadyEvent`,
   `TwoWayAuthentication` over `PeerLinks`. *Done.*
5. Proofs, in the order of their worth: that the coordinator implements `ProxyForwarding`,
   step by step, and so does its composition with servers and clients; that facilitator and
   clients agree and forget no request; the invariants of the forwarder; that the two indices
   of the relay agree, and what its members know of their groups; the outcomes and passwords
   of connections; the verdicts of NAT type detection; what ready events agree on;
   that a settled mesh agrees on its host; that the two sides of a challenge are told the
   same; what servers of the cloud note of each other, and what their queries wait for; that
   the reliability layer forgets no message and gives true receipts. *Done.*
   That it delivers in order, and that subscribers of the cloud see the latest. *Open.*
6. Left for after that: `Router2`, verified joins of the mesh, `TeamManager`. *Open.*

Modules that are to be proved about have their parameters as `CONSTANTS`, one action per
operation and their invariant as a conjunction of named parts; none declares a recursive
operator.

## 3. The modules

| module | what it is | composed with |
|---|---|---|
| `NatPunchthroughServer` | the facilitator; inputs open | |
| `NatPunchthrough` | its clients, the queues of the connections, and time | extends `NatPunchthroughServer` |
| `UDPProxyCoordinator` | the coordinator; inputs open | implements `ProxyForwarding` |
| `ProxyForwarding` | what a forwarding request is promised | |
| `UDPProxy` | proxy servers, proxy clients, queues, losses | extends `UDPProxyCoordinator` |
| `UDPForwarder` | the caller's and the forwarding thread | |
| `NatTypeDetection` | server, client and the datagrams between them | |
| `RelayPlugin` | the relay; inputs open | |
| `CloudServer` | servers with their clients and the messages between servers | |
| `Servers` | the relay and the cloud server side by side, and what types their state has | extends `RelayPlugin`, `CloudServer` |
| `PeerConnection` | two systems that connect and disconnect | |
| `ReliabilityLayer` | one direction of a connection | |
| `PeerLinks` | connections between peers, for the plugins below | |
| `FullyConnectedMesh2`, `ReadyEvent`, `TwoWayAuthentication` | the plugins of the same names | extend `PeerLinks` |
| `MC...` | values of the constants, symmetry and views for TLC | |
| `NatPunchthroughServer_proofs`, `NatPunchthrough_proofs`, `UDPProxyCoordinator_proofs`, `UDPProxy_proofs`, `UDPForwarder_proofs`, `Servers_proofs`, `Peers_proofs`, `Connections_proofs` | the theorems and their proofs | each extends the module it is named for, `Peers_proofs` `ReadyEvent`, `FullyConnectedMesh2` and `TwoWayAuthentication`, the last `PeerConnection`, `NatTypeDetection` and `ReliabilityLayer` |

"Inputs open" means that a connected system may send any message of its kind at any time,
with any session, result or ping list: a superset of what the clients of the repository do.
What holds there holds whatever a client sends, with one exception that is named: requests to
oneself, which the facilitator accepts by mistake, are left out of its run and its proofs
(`SelfRequests`, see section 4). Operators whose comment begins with
*Mutant* are not part of the system: each is a plausible slip in the definition that follows
it, kept to show that the properties notice it.

`MCServers`, `MCPeers` and `MCOutcomes` put components that share no state into one run:
the variable `component` chooses in the first state whose behaviour it is, and the variables
of the others stay as they are. Nothing of one component is visible to another; it only
saves runs. In `MCServers` the coordinator is an instance (`Coordinator`) whose variables
`closing`, `toVisit` and `sent` are given other names, `removed`, `requestsToVisit` and
`answers`, because the facilitator has variables of those names; its properties have the
same names there, but for `CoordinatorTypeOK`.

Handlers are single steps, or, where they contain a loop whose iterations depend on each
other, one step per iteration with the program counter in variables (`closing`, `toVisit`,
`toStart`); no input is taken until these are empty (`Idle`). `sent` holds the messages of
the last step and nothing reads it but the properties and, in the composed modules, the
queues.

### NatPunchthroughServer

| model | code (`NatPunchthroughServer.cpp`) |
|---|---|
| `users`, `isReady`, `mostRecentPort` | `users` and the fields of `User` |
| `connectionAttempts[u]` | `User::connectionAttempts`, a list of pointers |
| `attempts` | the live `ConnectionAttempt` objects by address; an address in a list and not in the domain is a dangling pointer |
| `sessionId` | `sessionId`, modulo `SessionIds` (2^16 in the code) |
| `OnNewConnection`, `OnNATPunchthroughRequest`, `OnClientReady`, `OnGetMostRecentPort` | the handlers of the same names |
| `OnClosedConnection`, `LoseAttempt`, `RemoveUser` | `OnClosedConnection`: its head, an iteration over the lost attempts, its tail |
| `Update`, `VisitUser`, `BecomesOverdue` | `Update`: its head, an iteration over the users, and the clock |
| `StartAttempt`, `NothingToStart` | a call of `StartPunchthroughForUser` |

Addresses are allocated from `Ptr`, freed ones may be reused.

### NatPunchthrough

Adds, for each client, the punch it runs (`sp`), the guids that failed once (`failed`) and the
requests the application waits for (`awaiting`); a queue in each direction of each
connection, because everything is sent `RELIABLE_ORDERED` on one channel; and the clients
whose connection broke (`gone`), which the facilitator notices at some later step and then
loses what was in their queues. The datagrams of a punch are reduced to one flag: an answer
of the right session is under way. Any of them may be lost, so a punch may always fail.

A client that does not know its port stride (`hasPortStride`) keeps requests in
`queuedOpenNat` and asks the facilitator for its addresses
(`ServerRespondsBoundAddresses`, `ReceiveBoundAddresses`). The first of them that is not the one
it talks to is pinged (`pinged`; a single one may or may not be the one it talks to), and the queue is sent when the answer comes (`OnPong`), after five seconds
(`StrideTimesOut`), or when a punch that succeeds shows the stride (`EstimatesStride`). The
number itself, with which ports are predicted, is left out.

### UDPProxyCoordinator and ProxyForwarding

| model | code (`UDPProxyCoordinator.cpp`) |
|---|---|
| `serverList` | `serverList`, in order: position matters to the ping order and to `RemoveAtIndexFast` |
| `requests` | `forwardingRequestList`, ordered by sender and target (`Before`) |
| `ForwardingRequest` | the struct; the two timers are kept as the facts that they run |
| `sourcePings` | `sourceServerPings`; `targetServerPings` is never written (line 481 inserts into the other list) and is left out |
| `OnForwardingRequest` | `OnForwardingRequestFromClientToCoordinator`, with its tests in the code's order |
| `OnPingServersReply` | `OnPingServersReplyFromClientToCoordinator` |
| `OnLoginRequest`, `OnForwardingReply` | the handlers of the servers' messages |
| `OnClosedConnection`, `VisitRequest`, `RemoveServer` | `OnClosedConnection`: its head, an iteration over the requests, its tail |
| `PingsTimeOut`, `ForgetSuccess` | the two branches of `Update` |
| `TryNextServer`, `OrderRemainingServersToTry` | the functions of the same names |

What the code reads past the end of the ping list (line 552 when the pings answer an earlier
request for fewer servers) is any member of `Ping`. Passwords and result strings are left
open: the outcome of the comparison is a choice.

`ProxyForwarding` says what the coordinator promises: a request has a set of servers not
tried yet and is at one server at most; it moves to another only among those that are
online; it is forwarded once; and it ends forwarded or with an answer, or with its requester.
The mapping is `request <- AbstractRequests` (the list left becomes a set, the pings
disappear), `online <- LoggedIn \ closing`, `told <- Answered`.

### UDPProxy

The coordinator's steps are those of `UDPProxyCoordinator`, fed from queues
(`toCoordinator`, `toSystem`). `connected` is what the coordinator believes of a system and
`joined` what the system believes: `CoordinatorLoses` and `SystemLoses` are the two sides'
notices of one loss, in any order. `loggingIn`, `loggedIn` are the lists of
`UDPProxyServer`, `forwards` the entries its forwarder holds; `pingServerGroups` is the list
of `UDPProxyClient` and `pending` the requests its application waits for. A pong is credited
as `OnReceive` does, to the first group with its address.

### UDPForwarder

A step of the forwarding thread is what it does between two accesses to what is shared:
`StartOne`/`NoMoreStarts` and `StopOne`/`NoMoreStops` are the iterations and the ends of the
two loops of `UpdateUDPForwarder`, `RecvFrom` is one datagram, `UpdateBegins`, `UpdateEnds` the rest,
`ThreadBegins`, `ThreadEnds` the ends of the thread. `Startup`, `Shutdown` and
`StartForwarding` are a call and, in `...Returns`, the end of its polling loop;
`StopForwarding` only queues a command. Whether a socket can be bound, a thread created and
which datagrams come is open.

### NatTypeDetection

`natType` is the NAT the client is behind and decides which of the server's datagrams pass
(`Passes`); `detection` is the client's state, `natDetectionAttempts` the server's list,
`NextTest` one step of the server's `Update`. `link` says which side takes itself for
connected. `undisturbed` marks detections that began when nothing of the one before was
under way. The port of the client's second socket is new for every detection and stands for
its number.

### RelayPlugin

The handlers of requests are `OnAddParticipantRequest`, `OnRemoveParticipantRequest`,
`OnJoinGroupRequest`, `OnLeaveGroupRequest`, `OnGroupMessage` and `OnMessageToServer`; the
application may answer for its plugin (`ApplicationAdds`, `ApplicationRemoves`,
`RefuseParticipant`), and a lost connection (`RelayLoses`) is told to the plugin later
(`RelayClosedConnection`). The two hashes (`strToGuidHash`, `guidToStrHash`) and the users of
the groups (`chatRooms`) are variables of their own, because the properties are about their
agreement. `roster` is what each member was told of its group, `relayed` what the last step
has passed on.

### CloudServer

| model | code (`CloudServer.cpp`) |
|---|---|
| `dataRepository` | `dataRepository` with `keyData`, the counts and the subscribers of each key |
| `uploadedKeys`, `subscribedKeys` | the keys noted for each client in `remoteSystems` |
| `remoteServers`, `getRequests` | the lists of the same names |
| `wire`, `unnoticed` | the ordered messages between two servers, and losses one of them has yet to notice |
| `view` | what each client was last told, by answers and notifications |
| `missed`, `stranded` | the two known ways to miss an update, and queries whose message a server has dropped |

### PeerConnection and ReliabilityLayer

`PeerConnection` has one action per branch of the network thread's cycle
(`RequestConnection`, `HandshakeTimesOut`, `ConnectionDies`, `ConnectionEnds`), per offline
message of the handshake, per connected message (`ReceiveMessage`), and per call of the
application; `RunCommand` takes one of the `bufferedCommands`. Layers are counters of
reliable messages: a layer does not know which incarnation of the other system it talks to,
which is where restarts bite. The messages of a layer arrive in the order they were sent. In the
code `ID_CONNECTION_REQUEST` (line 5057) and `ID_INVALID_PASSWORD` are `RELIABLE` without an
order, so later ordered messages may overtake one whose datagram was lost; that is not modelled.

`ReliabilityLayer` is one direction: `Send` (numbering, splitting), `SendPackets` and
`ResendPackets` (a datagram of new or of due messages), `OnAck`, `ReportLoss`, and
`ReceiveDatagram` (duplicates by `hasReceivedPacketQueue`, reassembly, sequencing and
ordering with the heap). All numbers are modulo `NumberRange` (2^24 in the code), the resend
buffer and the datagram history have the code's structure with shorter lengths. A datagram
stays in the network: it is lost if nobody receives it, and may arrive `MaxCopies` times.

### PeerLinks and the plugins of peers

`linked` are the pairs connected, `inbox[p][q]` what p has yet to handle of q, the notices of
new and lost connections included. A loss cuts the two queues at any place, and each end
handles what came before. `FullyConnectedMesh2`, `ReadyEvent` and `TwoWayAuthentication` have
one action per call and per handler, with the state of each system's plugin as a record. Where the code's order depends on clocks (`FullyConnectedMesh2`:
which system has run longest), `drawn` and the startup numbers are an order chosen at the
start; where it depends on a timer (`TwoWayAuthentication`) the timer may expire at any step.
`PeerLinks` assumes that a pair is connected again only when both have noticed the loss.

## 4. What is checked

| run | checks | shows |
|---|---|---|
| `servers` | `TypeOK` `AttemptsLinked` `OneAttemptPerPair` `StartsLiveUsers` `NoAttemptLeftWaiting`; `ServersTypeOK`; `RelayEntriesAgree` `GroupsAreWhole`; `NotesAgree` `SubscribersSeeLatest` `QueriesWaitForAnswers`; `CoordinatorTypeOK` `RequestsAgree` `NoRequestAtLostServer` `ImplementsForwarding` | the facilitator keeps the objects shared by two lists consistent and starts everything startable, whatever three users send but requests to oneself; the relay's indices, groups and rosters agree while members rename, leave and are lost; cloud servers that come and go know whom to ask and to tell, and subscribers see the latest data; the coordinator of proxies, with three clients, three servers that come and go in the middle of requests and pings that fit the list or are too short for it, keeps its lists in agreement and implements `ProxyForwarding`, and with one request at a time none is stuck |
| `nat_sessions` | `UsersAndClientsAgree` `NoRequestForgottenWhileConnected` `EndsAreAnnounced` | with real clients the facilitator's view of who is busy agrees with the clients, across a late timeout, reused sessions, and a client lost at any moment, whose peers are told; requests queued while the port stride is looked for are sent |
| `udp_proxy` | `ProxyTypeOK` `LoginsAgree` `OneOutcomeUntilLoss` `RequestsGetOutcomes` | coordinator, servers and clients with queues and lost connections: the two sides agree on logins, a server that takes any request is asked only when logged in, and each request has an outcome, one as long as nobody is lost |
| `udp_forwarder` | `TypeOK` `EntriesKept` `ForwardsBetweenEnds` `CallsReturn` `StopsTakeEffect` | both threads in every interleaving: no caller polls for ever, no stop is lost, and a datagram goes to the other end or nowhere |
| `peers` | `PeersTypeOK`; `NoMessageForgotten` `DeliveredInOrder` `ReceiptsTrue`; `OutcomesAreTold` `PasswordsMatch`; `HostsAgree`; `EventsAgree`; `ChallengesAgree` | messages arrive once and in order over a network that loses, repeats and reorders; whoever was told of a connection is told of its end; settled peers agree on the host, on the event, and on the outcome of a challenge |
| `outcomes` | `RequestsGetOutcomes`; `HandshakesEnd`; `NatTypeOK` `NeverTooFriendly` | unless a client is refused one target while it punches for another, every `OpenNAT` gets its outcome, also one that waits for another, one that is retried, one queued until the port stride is known or given up, and one whose facilitator is lost; every `Connect` and every detection of a NAT ends, and no NAT is taken for a friendlier one |

For each property, a mutant of a modelled definition is known to violate it.

### Where code and documentation disagree

Each of these runs states what a comment of the repository says, quoted in `PROJECT.json`
with its line, and TLC's counterexample has been matched line by line with the code.

| run | property | what happens |
|---|---|---|
| `nat_stale_port` | `PortsAreOfThisSession` | the port of a report for an attempt that timed out is handed out for the next |
| `udp_skipped_request` | `NoRequestAtLostServer` | the loop over the requests of a lost server passes over the one after each that it removes |
| `forwarder_limit` | `LimitKept` | the maximum of simultaneous forwardings is compared before the insertion, so one more is held |
| `cloud_missed_update` | `NoUpdateMissed` | a change between the answer to a query and the notice of the subscription made with it reaches nobody |
| `sequenced_dropped` | `OnlyOldOnesDropped` | the newest sequenced message of a channel is dropped as an old one after an ordered one was taken off the heap |
| `receipt_removes_reliable` | `ReliableOnesKept` | the acknowledgement of an unreliable message with receipt, which has no number, removes the reliable message with the largest number from the resend buffer, and it is never sent again |

The models show more of this kind, which the properties leave out by name, so that what is
left can be checked:

* *Punchthrough.* The test for requests to oneself compares with a recipient not assigned
  yet, so such requests are accepted (`SelfRequests`); after a disconnection a deleted user
  is then started: `StartsLiveUsers` holds of attempts of two users only. A refusal for one
  target carries no session and stops the punch to another, of which the application hears
  nothing (`NatPunchthroughClient.cpp:686`): hence "while connected" in
  `NoRequestForgottenWhileConnected`, where everyone is a possible target, and
  `RefusedWhilePunching` in `RequestsGetOutcomes`. This takes two calls of `OpenNAT` by one client and
  the loss of one target, one more than `MaxRequests` allows in `outcomes`; with a bound of 3 or 4
  TLC finds requests without an outcome, and none in behaviours where no client has been
  refused one target while it punched for another.
* *Proxies.* Sorted pings are read at the indices of unsorted servers, and servers with
  equal pings are dropped from the list. A request that has succeeded stays listed for a
  while, and the loss of its server gives it a second outcome: hence `OneOutcomeUntilLoss`.
  If the thread of the forwarder cannot be created the assertion is gone in a
  release build and callers poll for ever (`NoThread`).
* *Relay.* A participant that is added again in a group leaves an entry of its old name
  behind (`renamed`).
* *NAT type detection.* Results of an earlier detection are taken for those of the running
  one, and a late "done" takes a later attempt away (`undisturbed`).
* *Cloud.* The three second limit of queries never expires (`RakNet::Time()` is 0), so a
  query whose message was dropped by a server that did not know the asker waits for ever
  (`stranded`).
* *Connections.* A `CloseConnection` without notification, or two `Connect`s that meet, may
  end a connection in silence on one side (`excused`).
* *Mesh.* A participant that was lost before its number was known kept the list
  incomplete, and its loss does not have the host calculated (lines 352-378): the system
  stays without one (`unnumbered`).
* *Ready events.* A system that deletes the event or removes a system from its list begins
  anew with statuses the other does not know of (`forgetters`); being forced is not passed
  on.
* *Two way authentication.* A late result is credited to the first challenge of its
  identifier, be it a later one; `NONCE_TIMEOUT_MS` (10000) is not used, the code has 5000;
  `Challenge` returns true where the header says false; challenges end silently with their
  connection (`lost`).

### Bounds, and why they are enough

* *Systems.* The facilitator relates a user, its peer, and a third that waits for either;
  `closing` frees several users only if one user has two attempts: three. The coordinator's
  list has two requests at once when two clients ask for a third (`udp_skipped_request`); a
  third system that asks on behalf of one of two may leave before either; with three servers
  two are left when one has failed. The proxies' scenarios (`MCUDPProxy`) are two servers
  that are pinged, of which one is lost, and one server with two requests, of which server
  or client is lost. A mesh and an event need three systems: two agree by exchange alone.
  Connections, authentication and the reliability layer are between two. Two cloud servers,
  with a client each, are what a subscription across servers needs; a third would answer
  the same queries.
* *`SessionIds`*: 1 in `servers`, so every report matches every attempt, the most permissive
  reading; 3 or 4 elsewhere, at least as many as can be under way, and small enough to wrap.
* *`Ptr`*: one for each pair, of which there is at most one attempt each; so every address
  that was freed is used again.
* *`MaxRequests`*: calls of `OpenNAT` and losses of the facilitator together, 2 or 3: two
  requests make one wait for the other. *`MaxOverdue`* 0 or 1: one timeout is enough to make
  a report or a ready notice late. *`Retrying`*: the clients that retry a failed punch.
  *`Probing`*: nobody, or client 1, has its port stride to find, which takes the place of one
  call in `MaxRequests`; *`Sockets`* is 1 or 2: the facilitator has a second address or not.
* *`Port`*: one; only whether a port is known and which report it came from matters.
  *`Ping`*: two or three values, so pings may be equal or ordered; *`MaxPings`* as many as
  there are servers, or more: further replies lengthen a list of which only the first
  elements are read.
* *Relay*: three members, two names and two groups, so names and rooms are fought over;
  `Renaming` has one member, since the effect of a second rename is the same.
* *Coordinator*: what a client answers to the request for pings is a list for three servers, with
  different pings, or for two that were there before, with equal ones.
* *Forwarder*: a limit of one (so two entries), a pair in both directions and a pair behind one
  host; `MaxStops` 1 command queued at a time, which may outlive the thread.
* *Cloud*: `MaxPosts` 2, so there is an old and a new value; `MaxGets` 1 subscription;
  `MaxDepartures` 2: a loss and a reconnection of a server or client.
* *NAT type detection*: two detections, so that messages of one meet the other.
* *Reliability layer*: `NumberRange` 16 with scripts that begin at 14 (the numbers wrap) or
  0; a `ResendBufferLength` of 4, or 8 where slots are not the question, a
  `DatagramArrayLength` of 2 (datagrams fall out of the history), two copies of a datagram,
  two packets in one, four or five datagrams. `SequenceWeight` exceeds any sequencing index.
  The scripts put an ordered message on each side of a sequenced one, a split message
  among others, receipts of every kind, and more parts than the resend buffer holds. The
  script of `receipt_removes_reliable` reaches the largest number with its second message.
* *Connections*: two requests before a `Connect` fails, two calls of the application, one
  broken connection or restart in `peers` and none in `outcomes`, where the liveness of
  the handshake is the question; `Misinformed` may have a wrong password.
* *Mesh*: three connections and no loss, or two and one loss, and two orders of the random
  numbers (`MeshLots`): the first or the last to draw has the lowest. *Ready events*: three
  systems that only set the event, or two that unset, force, or forget and lose each other.
  *Challenges*: two by one system, or one by each, with a connection that may be lost.

Symmetry is declared for `Ptr` only, in runs without liveness: addresses are only compared
for equality. Guids and clients are integers because the code orders its lists by them. The
views leave out `sent`, which no guard reads; action properties look at it in the step itself,
before the view is taken. `ImplementsForwarding` reads `told`, the answers of the last step,
in the step as well.

Deadlock is not checked in the passing runs, whose behaviours may end: their bounded requests, losses, posts, messages or calls have been made and
everything has been handled. That nothing ends too early is what the liveness properties and
`NoRequestForgottenWhileConnected`, `NoMessageForgotten`, `AttemptsAreRemembered` and
`QueriesWaitForAnswers` say.

### Fairness

Weak fairness of the steps a process takes when it polls, no more:

* `NetFairness`: the facilitator finishes a handler it has begun, calls `Update`, reads its
  packets, and hears of lost connections; a client reads its packets and finds in `Update`
  that its punch has run out of ports or the time for its port stride is over. `Samples/NATCompleteServer/main.cpp` and every client
  call `Receive` in a loop, which does all of these.
* `FairProxySpec`: queues are read, `Update` finds its timers expired, and a loss is noticed
  by both sides.
* `FairSpec` of the forwarder: both threads are scheduled, and, as the only strong fairness,
  the forwarding thread gets to the end of its two loops over queued commands (`NoMoreStarts`,
  `NoMoreStops`): the plugin makes a call per message it receives and does not refill a
  queue each time before the thread has emptied it.
* `NatTypeFairness`: both programs call `Update`, reliable messages arrive, and a client
  whose server has dropped it notices.
* `ConnectionFairness`: the network thread runs its cycle, timers go off, and reliable
  messages are sent again until they are acknowledged or the connection is dead.

Nothing makes a datagram arrive, an application ask, a connection break, or a timer expire
early: a request gets its outcome even if every datagram is lost.

## 5. What is proved

The theorems hold for every set of users, clients, servers, members, ports and pings, and
every number of sessions, calls and detections. TLAPS checks them; TLC has checked the
inductive invariants on the instances above.

**`NatPunchthroughServer_proofs`**, under the assumption `~SelfRequests` of each theorem: with
requests to oneself, which the code accepts, the invariant is false and a deleted user is
started (see above). `AttemptsLinked`, `OneAttemptPerPair`,
`StartsLiveUsers` and `NoAttemptLeftWaiting` are not inductive: the invariant `IInv` adds

* `NoSelfAttempt`: without it the deletion of one attempt takes two entries of one list;
* `OneHandler`: `closing`, `toVisit` and `toStart` describe one handler, so an iteration
  meets no other handler's work, and the user that leaves is not among those to start;
* `ReadyPairsAreHandled`: an attempt whose two ends are ready has an end in `toStart` or in
  `closing`. With nothing left to do (`Idle`) this is `NoAttemptLeftWaiting`.

`Invariant` is proved with a lemma per action and, beneath it, a step per conjunct. From it
follow `Types`, `Linked`, `OnePerPair`, `NothingWaits`, and the action properties
`EndsAnnounced` (the body of `EndsAreAnnounced` holds of every step from a state in `IInv`)
and `NotReadyIsAsked`.

**`NatPunchthrough_proofs`**, with the assumptions on the constants. `~SelfRequests` is not among
them: the applications of this model ask for others only (a guard of `OpenNAT`, which the
code leaves to the application), and that no request for oneself ever reaches the
facilitator is a part of the invariant (`NotItself`). `NetIInv` joins `IInv` of the facilitator with, for each client,

* `OneTurn`: a client is ready, or in one attempt in progress, or has an
  `ID_NAT_CONNECT_AT_TIME` under way to it, or runs a punch, or has an `ID_NAT_CLIENT_READY`
  under way: one of these at most. `OneAttemptInProgressPerUser` and `ConnectFindsIdle` are
  about two of the places each, and neither is inductive without the others.
* `NewsBeforePunch`: `ID_NAT_TARGET_UNRESPONSIVE` of an attempt that has timed out comes
  before the next `ID_NAT_CONNECT_AT_TIME`. Were it to come later, `OnPunchthroughFailure`
  would stop the next punch, and nobody would say that the client is ready again.
* `AttendedTo`, as long as nobody has lost the facilitator: each request that awaits its
  outcome is queued for the stride, under way, in an attempt, concerned by a message under
  way, or the one of the punch that runs (`UnderWay`); and a client that is not ready is
  busy. `NothingForgotten` follows with `ReadyPairsAreHandled` of the facilitator: at rest all
  are ready, so no attempt is left.

`Orderly` is what a handler of the facilitator may do to a client (`Moves`, `Keeps`, two
messages at most and not two to one client); a lemma per handler shows it, and
`ServerStepInv` concludes for all of them. `ActorInv` does the same for the steps of a client.
`NetEndsAnnounced` is `EndsAnnounced` with the clients as they are.

**`UDPProxyCoordinator_proofs`**, with no assumption but those on the constants.

* Lemmas on lists: what popping servers (`ServersAfterFacts`), `RemoveAtIndexFast`, appending
  and ordering by ping (`OrderFacts`) do to a list without repetition. The last is the one
  that needs an argument: an index taken twice would have a sum less than itself.
* `IInv` joins the properties with `OneHandler` (one server is removed at a time, and its
  connection is gone). `NextGood` proves the part about requests, `NextServers` the part about
  the list of servers and the loop.
* `RequestsKept` is `RequestsAgree`, the conjunction of what `Servers`, `OnePerPair`,
  `Requesters` and `AskedOnce` state one by one.
* `AsksLiveOnly` needs `NoServerAskedTwice`: in the loop of `OnClosedConnection` the lost
  server is still in `serverList`, and the reason why it is not asked again is that it is the
  one currently asked and so not among those left. `EndsAnswered` is the action property that
  no request ends in silence.
* `Refinement` is the step simulation for `ImplementsForwarding`. A handler maps to the
  abstract action of its name, and an iteration that passes over a request, or a change of
  pings or timers, to a stutter. The steps that try a server rest on one lemma,
  `TryNextServerAbstracted`: what is popped off the list is in the abstract set of servers
  left and online, and what remains of the list is that set without it. It needs `IInv`, for
  a list with repetitions would map to a set that keeps what was popped.
* `PingTypes` says that what is collected for a request stays a list of servers with their
  pings. `PingIndex` is a choice: `PingIndexExists` shows that the loop of line 459 ends at an
  index of the list or one after it, by the least of the indices that are not smaller.

**`UDPProxy_proofs`** proves the same of the composed system, and what only the composition
can say: `LoginsAgree` and `OneOutcomeUntilLoss`. The assumptions are those on the constants; which systems take part,
which are lost and how often is left open.

* `ProxyStepIsStep`: every step is a step of `UDPProxyCoordinator`, or collects pings or drops
  a message, or leaves the coordinator alone. It needs to know who may have sent what
  (`SentBy`), for `UDPProxyCoordinator` takes its messages from clients that may ask and from
  servers. So `IInv`, `AsksLiveServers`, `EndsAreAnswered` and `ImplementsForwarding` hold here.
* `ProxyTypes` is `ProxyTypeOK`: lists of pings, the queues between any two systems and what
  servers and clients note keep their types, for all that the other systems may send.
* `LoginUnderWay` says how far a login has come: a request under way, an answer under way, or
  an entry in the lists of both sides, one of these at a time. `SuccessFirst` says that no
  request for a server overtakes the news that the server is logged in. This is why line 77 of
  `UDPProxyServer.cpp`, whose test lets every request pass, does no harm; it rests on the
  messages being `RELIABLE_ORDERED` on one channel.
* `LossesForget`: what a side that has lost the connection forgets. Each side notices the loss
  by itself, and a server may be connected again and log in before the coordinator has taken
  the loss of the old connection to its end; `Idle` keeps the plugin's handlers apart.
* `OutcomesIInv` holds until a connection is lost (`left.whole`), after which the property
  is false. What a client has asked for is one thing on its way (`OutcomeUnderWay`): its
  request, then the coordinator's attempts until one has succeeded, then the outcome. Only
  the server being tried is asked, once, and replies once (`AttemptUnderWay`): this is why
  the coordinator may match a reply with a request by the pair alone. The lemma that says
  what a step of the coordinator does for one pair (`Effect`) is proved handler by handler,
  and the queues are followed from there.

**`UDPForwarder_proofs`**, with the assumptions on the constants of the module. The two
threads share queues and flags without holding a lock over a whole operation, so the
invariant is about where each of them is:

* `ThreadsAgree` relates the flags `isRunning` and `threadRunning` to the place of either
  thread. `EntriesKept` needs it in `ThreadBegins` and `ThreadEnds`: that no entry is left
  after `Shutdown` is true because the forwarding thread has taken them away before it clears
  the flag that `Shutdown` polls.
* `OneResultPerCall`: a start command and its result exist only while their call waits, one
  of them at most. `StartForwarding` takes the first result without looking whose it is;
  `ResultIsOwn` says that this is right.
* `EndsAreDistinct`, `SocketsAreDistinct` and `ConfirmedByItsHost` are what `Forwarding` needs:
  an end that is confirmed is of the host it was expected at, so a datagram is never sent
  back to where it came from, or taken for one of another pair.

**`Connections_proofs`**, of `PeerConnection`, with `ConnectionAssumption`. The proof has a lemma per handler and
offline message, and lemmas on what a layer does with a message (`Handled`, `Sent`, `Parsed`).

* `GoodRemote` is what one system keeps of another. `PasswordsMatch` speaks of `CONNECTED`
  only, but a connection becomes that from `HANDLING_CONNECTION_REQUEST`, which is entered by
  a request with the right password: the invariant says of every message *under way* that no
  system with a wrong password has sent such a request.
* `NobodyAsksItself`: the two ends of a step are different systems. Otherwise an update of
  one would be an update of both.
* `CommandsAreExcused`: a command that closes without a notification waits in the queue of
  the network thread and takes effect steps later; its call was excused when it was made.
* A restart forgets what a system was told and awaits together with its remote systems; the
  other side's belief is not mentioned in `OutcomesAreTold`, which is why no layer needs to
  know the incarnation of the other.

**`Connections_proofs`**, of `NatTypeDetection`, with `DetectionAssumption` (a client's NAT is one of the five
kinds, detections are numbered). `NeverTooFriendly` speaks of the verdict;
`ResultsOnTheirWay` says of the results, the datagrams and the buffered datagram from which a
verdict is made that each is true of the NAT. `undisturbed` is not in it: a NAT does not
change, so what is late belongs to another detection and is still true.

**`Connections_proofs`**, of `ReliabilityLayer`, with `ReliabilityAssumption`: for every script of
messages, first number and length of the buffers, with at most half as many numbers in use as
there are (`Half` is 2^23 - 1 in the code, and a number further ahead counts as old).
The resend buffer and the history may be of any length. `NoMessageForgotten`, `ReceiptsTrue` and
`ReliabilityTypeOK` follow from `ReliabilityIInv`.

* Numbers wrap, so nothing can be said of their order: `Offset` counts them from the first that
  is used, and `OffsetFacts` says that the two walk together as long as fewer than
  `NumberRange` are used.
* `QueueIsNew`: what waits to be sent has not been sent, so `PushPacket` gives each part one
  number and each number to one part (`PacketsAreNumbered`). `PushedFacts` is the loop of `Update`:
  `ResendBufferOverflow` is what keeps it from writing over a packet that is still to be sent again.
* `BufferIsOfPackets`: a packet is in the slot of its number, and the list has the number.
  So the list and the buffer lose the same packets when one is acknowledged (`RemoveFromListFacts`).
* `HistoryIsOfDatagrams`: the history, counted from `datagramHistoryPopCount`, has the numbers of
  the packets of the datagram with that number, and of no other, or fewer. An
  acknowledgement that comes when its datagram has fallen out finds nothing. What is removed
  was then in a datagram that has arrived.
* `NotedIsAccepted`: a number below `receivedPacketsBaseIndex`, or that `hasReceivedPacketQueue`
  marks as received, is of a packet that was accepted. So a packet dropped as a duplicate had
  arrived, and its acknowledgement is true (`ReceivePacketFacts`). The queue
  never reaches beyond what was numbered, or a new packet would be taken for an old one.
* `ReceiptsAreDue`: what may still have a receipt has had none: the last part of a message waits,
  or is kept, or the message is in `unreliableWithAckReceiptHistory`.

The hypothesis `NoNumberIsUnused` of the four theorems is the one `receipt_removes_reliable`
violates: if a message asks for a receipt without being reliable, the script must not
reach the number such messages keep. All scripts of `peers` satisfy it. Without it, `OnAckKeeps`
is false for the reason given in that run, and it is the only place where it is used.

**`Peers_proofs`**, of `ReadyEvent`, with `SystemAssumption` (finitely many systems). `EventsAgree` speaks
of a group that has heard of everything; the invariant says what is under way before that.

* `NewsAgree` is about one direction of a pair: the last update under way is the status, and
  with none under way the status is believed, unless the receiver has just added the
  other again, believes UNSET, and its query is under way. This is the case `forceIfNotDefault`
  in `SendReadyUpdate` is for.
* `ForceArrives`: who was told of a forced completion is forced, or has the message under
  way, or has a query under way that will have it sent again.
* `WaitsForConnected`: a system that waits for one it is no longer connected with has the
  notice of the loss as the last it hears of it. So neither end waits for the other when the
  two connect, and what was believed over the old connection is gone.
* `OwnEventAgrees` is about one system: what all were sent last is its status, and it is SET
  only if somebody it waits for is unset. `SetEvent` of a new event breaks the second part for
  an empty list, so it is stated of lists that are not.

Each handler is shown to be a `StepOf` one system: what becomes of each entry of its list and
what is sent with it (`Deals`), and what comes of the message handled (`Learns`).
`SpeakerKeeps` and `ListenerKeeps` follow the two queues of a pair from there.

**`Peers_proofs`**, of `FullyConnectedMesh2`, with `SystemAssumption` and `LotsAssumption`: no
two systems draw the same number. The code draws 32 bits at random, mixed with the time and
the GUID, and compares nothing that would tell equal ones apart, so two systems that drew
the same number over the same count would each take itself for the host: the theorem is about
all other cases. `HostsAgree` speaks of a mesh with nothing to handle; `MeshIInv` says what
is under way before that.

* `NumbersAreTrue`: a number that is listed or told is the system's own. A number is given
  once, so one that is late is still true.
* `NumberArrives`: of a participant that takes p for one, p has the number in its list or under
  way. A system that gives itself a number tells its participants of that moment; who
  becomes one later is sent it with the request of `AddParticipantInternal`.
* `NumberIsComing`: a system without a number has, for each participant, its request or the
  answer to it under way. So in a mesh of two or more that has settled all have a number.
* `LossesNoticed`: the notice of a loss is the last that is heard of the lost system, which
  is no participant from then on. So nothing of an old connection is left when two systems
  connect again.
* `OwnHostAgrees`: with a complete list the host last told is the lowest of the list.
  `OnClosedConnection` calculates only if the *host* is lost: that is enough because the lowest
  number of a list stays the lowest without another entry (`HostRemains`), and not if the one
  lost had no number, which is what `unnumbered` leaves out. It also says what a number is made
  of, from which follows that no two systems have the same (`NumbersAreDistinct`).

`MayBecome` and `LearnsFrom` say what a handler does to a plugin and what comes of the message
handled; `MeshStepKeeps` concludes for all handlers but the one of a loss. `SettledFacts` and
`MeshHostsAgree` are what the invariant says of a mesh at rest: all lists are complete, all
hold the same numbers, and the lowest of them is one system's.

**`Peers_proofs`**, of `TwoWayAuthentication`, with `SystemAssumption` and `ChallengeAssumption` (the
passwords an application may add, and how many challenges each system makes; any of either).
`AuthSpec` starts with any connections and loses and makes any number of them. `ChallengesAgree`
counts what was told on the two sides; `AuthIInv` relates these counts to the messages
under way and to the lists.

* `HashesAreTrue`: a hash under way is made with the password its sender has for the identifier
  it names. This rests on the part of `AuthTypeOK` that a challenge is for a password that was
  added, and on the fact that a password is never changed.
* `ResultsAreTrue`: the successes told to the challenger and those still in its queue are
  together no more than the challenged system announced, for each identifier, and so are the
  failures. The sum is what makes it inductive: a result that is handled moves from one term
  to the other, and one that finds no challenge (it timed out, or the connection was
  lost and made again) is dropped from it. A success was announced only where the passwords
  are equal: this follows from `HashesAreTrue` when the hash is handled.
* `ChallengesCounted`: the challenges made are those lost with a connection, those pending and
  those of which an outcome was told. The loops of `Update` and `OnClosedConnection` are where it
  could break: `CountConcat` and `AllButFacts` say what they remove is what is told or lost.

Each handler is a `StepOfAuth`: it takes one message from a queue, sends `sent` to one
system and tells `told` to its own application; `StepOfAuthKeeps` follows the counts from there,
and `PassesQuietly` is the case that no result is told or sent. The lists are counted with
`Count`, whose laws (`CountFacts` to `CountRest`) are proved from the cardinality of finite sets.
That `q # p` in `ChallengesAgree` leaves nothing out: no system has a message of its own to handle
(`AuthTypeOK`).

**`Servers_proofs`**, of `RelayPlugin`, with `NoGroupAssumption` (the empty group name is no group's name).
`RelayEntriesAgree` with types is inductive: `UsersAgree` (each user of a group is a
participant that takes itself to be there) and its converse are kept together, since a
handler changes both sides of them. The proof has to say what the loop in `LeaveGroup` does,
which removes entries from the list it walks over (`RemoveAtIndexFast` moves the last
into the place of the one removed, and passes over it). `RemoveUserEntriesFacts` says that a
list without repetition loses exactly the member's entry. This is induction over the length
of the list. The theorems of the library for it have an operator as a parameter; the module
uses well-foundedness of the naturals for a *set* of numbers instead (`LeastNumber`,
`InductionUpTo`), and shows that the recursive function of the loop exists (`SweepExists`).

`GroupsAreWhole` says that each member's roster is its group and that what was passed on
reached the group. `GroupsIInv` adds to the above that, as long as no name was changed, a
participant that takes itself to be in a group is a user of it (`ParticipantsAreUsers`). A roster is what a client makes of the notices it was sent,
one after the other (`RosterAfter`): `ReadsExist` and `ReadOf` say the function for that is
there, `ReadLeaving`, `ReadEntering` and `ReadJoined` what the notices of each handler make of
a roster, `ReadOther` that notices of other rooms make nothing of it. A member that joins a
group while it is in another leaves that one first, so its notices are of two rooms:
`LeavingTells` is about the part of the list sent before, `LeavingIsKnown` and
`JoiningIsKnown` about both. They need that no two participants have one name
(`NamesAreDistinct`, from the agreement of the indices): a client knows the others by name.
`RelayTypes` adds what these invariants do not say: rosters are sets of names, what is sent on
goes to systems, a group is deleted with its last user (`RoomsFilled`), and no system is both
connected and about to be found lost. With the types in `CloudIInv` this is `ServersTypeOK`
(`ServersTypes`).

**`Servers_proofs`**, of `CloudServer`, with `CloudAssumption` (finitely many clients and keys, each
client at one server, bounds that are numbers; any number of servers). `NotesAgree` speaks of
two servers that know each other and have nothing under way; `CloudIInv` says what is under
way before that.

* `KeyNoted`: the two notes of a client's data and subscriptions agree, and the counts of a
  list, by which a server decides whom to tell, are never less than what they count. A
  second post of a client counts again, so `uploaderCount` may be more: a key may go on being
  announced without data, but is not withdrawn while there are some.
* `KeysAreTold`: of a key with a count above zero, what is under way to each server known
  leaves it with the belief (`Arrives`): nothing unsays the key without something later that says it, and
  a server that does not believe it yet has something under way that says it. This is what
  the order of the calls in the handlers is for: `OnReleaseRequest` and `OnClosedConnection` change the
  counts before they decide what to send, and `AddServer` sends the lists of all keys at once.
  A server that has not added the other yet drops what it is sent; so it is *if it knows t*
  that s believes. `SendsTell`, `Takes` and `ToldAre` follow the queues.
* `LossForgets`: of a connection that is lost nothing is under way, and a side that has noticed
  the loss has forgotten the other. So nothing of the old connection is believed over a
  new one.
* `RequestsWait` with `QueriesWaitForAnswers`: queries have different numbers and wait for servers
  that are known. With more than one query the binary search of `OnServerToServerGetResponse`, in
  a list that is not sorted, may miss its query; that is in the model (`Probed`), and
  such a query is one of the `stranded`.

The loop over the keys of a lost client (`ToldOfLoss`) and the one over the queries
(`Incomplete`) are recursive functions; `IsLoop` and `RecursionUpTo` say that there is such a function and
what it computes at each index, by the same induction on a set of numbers. `Quieting` is what a
lost client's messages are: they say no more than that some keys are no longer uploaded, and
only those whose count is zero.

**Only model-checked**: the liveness properties (`RequestsGetOutcomes`, `CallsReturn`,
`StopsTakeEffect`, `HandshakesEnd`), because liveness under fairness is out of the prover's
reach. `SubscribersSeeLatest`, the property of the cloud that follows a change through an answer and the
notifications around it, would need all rows under way related to the lists they were read
from. `DeliveredInOrder` of `ReliabilityLayer` needs one that relates the ordering heap and the
parts of split messages to all that was sent; it stays with TLC, and with it `PeersTypeOK`,
of five components side by side, of which each part is proved of its own component.
`NoRequestAtLostServer` is true only of one
request at a time, see `udp_skipped_request`. No module declares a recursive operator.

## 6. Not modelled

* *Parts of modelled components.* Facilitator: the public and private addresses in the
  messages, the start time. Client: the order of addresses and ports of a punch, groups,
  `Clear`. No property covers what `PushFailure` writes as a target when the facilitator is
  lost (`NatPunchthroughClient.cpp:911`), the early return of `OnPunchthroughFailure` during
  the last try (391), nor the predicted port that wraps (996). Coordinator: passwords and public addresses, the server the port of a success
  belongs to, `Clear`. Reliability layer: NAKs and congestion control (when a message is due
  is a free choice), priorities and several channels, time-outs of unreliable messages.
  RakPeer: the application's messages, pings, security, statistics, the limit by address.
  Cloud: subscriptions to specific systems, limits, filters, several keys in a query. Mesh:
  verified joins, user contexts, `ResetHostCalculation` and `Clear` (which leave the host
  fields as they are), `ConnectionGraph2`. NAT type detection: the server's sockets and the
  table of `CanConnect`.
* *The executable.* `main.cpp` attaches plugins and calls `Receive`. It deletes the
  `UDPProxyServer` plugin from a callback of that plugin (line 378): a question of object
  lifetime in one call, for a test or a sanitizer, not of interleaving.
* *`proxy_reg_service`.* `www/prs.js` gives each address an id when an instance starts: it
  looks the address up and, when there is none, takes a lock and stores the next number.
  The lookup is outside of the lock, so two instances of one machine that start together may
  each store an id, and the first go on with one the store no longer has. It is small enough
  to read; the store, the lock and the rest of that directory are vendored or external.
* *Left out.* RakNet's features that no server here attaches and that are not protocols of
  their own or call back into application code: `Router2`, `TeamBalancer`, `TeamManager`,
  `ReplicaManager3`, `RPC4Plugin`, `MessageFilter`, file transfer, TCP, HTTP and console
  I/O, serialisation, containers (modelled by what they do where they are used),
  statistics, the SWIG wrapper `RakNet_wrap.cpp` (generated) and vendored code. These are
  most of the source by lines, so the models cover a small share of it: the plugins the
  servers attach and the layers below them.
