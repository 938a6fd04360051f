------------------------------ MODULE UDPProxy ------------------------------
(***************************************************************************)
(* Proxies end to end: the coordinator of UDPProxyCoordinator, the proxy   *)
(* servers (Source/UDPProxyServer.cpp), the clients that ask for a proxy   *)
(* (Source/UDPProxyClient.cpp) and the connections between them.           *)
(*                                                                         *)
(* All messages go RELIABLE_ORDERED on channel 0, so each direction of a   *)
(* connection is a queue, and what is under way is lost when the           *)
(* connection is.  The two sides of a connection notice that at different  *)
(* times.  Clients ping servers with unconnected datagrams, which may be   *)
(* lost, too.  The forwarding thread of a server is in UDPForwarder; here  *)
(* StartForwarding is what it returns, and other pairs take up capacity.   *)
(***************************************************************************)
EXTENDS UDPProxyCoordinator, FiniteSets

CONSTANTS
  ByGuid,           \* whether clients name their target by its guid
  Unresponsive,     \* DEFAULT_UNRESPONSIVE_PING_TIME_COORDINATOR
  Scenario          \* bounds, see below

ASSUME ByGuidAssumption == ByGuid \subseteq BOOLEAN
\* The systems that take part, those of them that may lose their connections,
\* how often one does, how often clients ask, and whether nothing has been lost.
Left == [systems : SUBSET Address, lossy : SUBSET Address,
         losses : Nat, requests : Nat, whole : BOOLEAN]

ASSUME ScenarioAssumption == Scenario \subseteq {l \in Left : l.whole}
ASSUME UnresponsiveAssumption == Unresponsive \in Ping

VARIABLES
  toCoordinator,    \* queue from each system to the coordinator
  toSystem,         \* queue from the coordinator to each system
  joined,           \* systems that take themselves for connected
  loggingIn,        \* servers whose loggingInCoordinators has the coordinator
  loggedIn,         \* servers whose loggedInCoordinators has it
  forwards,         \* per server, the pairs it has an entry for
  pingServerGroups, \* per client
  pending,          \* <<client, pair>> of requests without an outcome yet
  left              \* what is left of the scenario

queues == <<toCoordinator, toSystem>>
serverVars == <<loggingIn, loggedIn, forwards>>
clientVars == <<pingServerGroups, pending>>
allVars == <<vars, queues, joined, serverVars, clientVars, left>>

PingServerGroup == [sata : Pair, serversToPing : Seq(ServerWithPing)]

ToCoordinatorMessage ==
       [id : {"ID_UDP_PROXY_FORWARDING_REQUEST_FROM_CLIENT_TO_COORDINATOR"},
        pair : Pair, byGuid : BOOLEAN]
  \cup [id : {"ID_UDP_PROXY_PING_SERVERS_REPLY_FROM_CLIENT_TO_COORDINATOR"},
        pair : Pair, reply : Seq(ServerWithPing)]
  \cup [id : {"ID_UDP_PROXY_LOGIN_REQUEST_FROM_SERVER_TO_COORDINATOR"}]
  \cup [id : {"ID_UDP_PROXY_FORWARDING_REPLY_FROM_SERVER_TO_COORDINATOR"},
        pair : Pair, result : UDPForwarderResult]

-----------------------------------------------------------------------------
(* The network *)

\* The queue to system a with the i-th message the coordinator has sent in this
\* step, if there is one and it is for a.
Received(a, i, queue) ==
  IF i \in DOMAIN sent' /\ sent'[i].to = a /\ a \in joined \cap connected'
  THEN Append(queue, sent'[i]) ELSE queue

\* What the coordinator has sent in this step, two messages at most, and which
\* queue was read.
Deliver ==
  toSystem' = [a \in Address |-> Received(a, 2, Received(a, 1, toSystem[a]))]

Consume(a) == toCoordinator' = [toCoordinator EXCEPT ![a] = Tail(@)]

\* System a sends m.  RakPeer drops what is for a connection it does not have.
SendToCoordinator(a, m) ==
  toCoordinator' = IF a \in joined \cap connected
                   THEN [toCoordinator EXCEPT ![a] = Append(@, m)]
                   ELSE toCoordinator

NothingFromCoordinator == UNCHANGED <<vars, toSystem>>

Join(a) ==
  /\ a \in left.systems \ joined
  /\ Connect(a)
  /\ joined' = joined \cup {a}
  /\ UNCHANGED <<queues, serverVars, clientVars, left>>

\* The connection of a is lost, as the first of its sides notices.
Lose(a, first) ==
  /\ first => a \in left.lossy /\ left.losses > 0
  /\ left' = IF first THEN [left EXCEPT !.losses = @ - 1, !.whole = FALSE] ELSE left

\* The coordinator notices that a connection is lost, before or after ...
CoordinatorLoses(a) ==
  /\ Lose(a, a \in joined)
  /\ OnClosedConnection(a)
  /\ toCoordinator' = [toCoordinator EXCEPT ![a] = <<>>]
  /\ UNCHANGED <<toSystem, joined, serverVars, clientVars>>

\* ... the system does.  A server forgets its logins.  A client has no handler;
\* its application, which is told, expects no outcomes any more.
SystemLoses(a) ==
  /\ a \in joined
  /\ Lose(a, a \in connected)
  /\ joined' = joined \ {a}
  /\ toSystem' = [toSystem EXCEPT ![a] = <<>>]
  /\ loggingIn' = loggingIn \ {a}
  /\ loggedIn' = loggedIn \ {a}
  /\ pending' = {r \in pending : r[1] # a}
  /\ UNCHANGED <<vars, toCoordinator, forwards, pingServerGroups>>

-----------------------------------------------------------------------------
(* The coordinator's side *)

\* Messages the handlers of the coordinator drop: the pair is not listed, or
\* no longer waits for pings.
Dropped(a, m) ==
  \/ /\ m.id = "ID_UDP_PROXY_FORWARDING_REPLY_FROM_SERVER_TO_COORDINATOR"
     /\ m.pair \notin DOMAIN requests
  \/ /\ m.id = "ID_UDP_PROXY_PING_SERVERS_REPLY_FROM_CLIENT_TO_COORDINATOR"
     /\ m.pair \in DOMAIN requests => ~requests[m.pair].timeRequestedPings

CoordinatorReceives(a) ==
  /\ Idle
  /\ toCoordinator[a] # <<>>
  /\ LET m == Head(toCoordinator[a])
     IN \/ /\ m.id = "ID_UDP_PROXY_FORWARDING_REQUEST_FROM_CLIENT_TO_COORDINATOR"
           /\ OnForwardingRequest(a, m.pair, m.byGuid)
        \/ /\ m.id = "ID_UDP_PROXY_PING_SERVERS_REPLY_FROM_CLIENT_TO_COORDINATOR"
           /\ OnPingServersReply(a, m.pair, m.reply)
        \/ /\ m.id = "ID_UDP_PROXY_LOGIN_REQUEST_FROM_SERVER_TO_COORDINATOR"
           /\ \E id \in LoginAnswer : OnLoginRequest(a, id)
        \/ /\ m.id = "ID_UDP_PROXY_FORWARDING_REPLY_FROM_SERVER_TO_COORDINATOR"
           /\ OnForwardingReply(a, m.pair, m.result)
        \/ /\ Dropped(a, m)
           /\ sent' = <<>>
           /\ UNCHANGED <<connected, serverList, requests, sourcePings, pcVars>>
  /\ Consume(a)
  /\ Deliver
  /\ UNCHANGED <<joined, serverVars, clientVars, left>>

CoordinatorLoops ==
  /\ VisitRequest \/ RemoveServer
  /\ Deliver
  /\ UNCHANGED <<toCoordinator, joined, serverVars, clientVars, left>>

CoordinatorUpdates(p) ==
  /\ PingsTimeOut(p) \/ ForgetSuccess(p)
  /\ Deliver
  /\ UNCHANGED <<toCoordinator, joined, serverVars, clientVars, left>>

-----------------------------------------------------------------------------
(* UDPProxyServer *)

\* Mutant: a login that is under way is not looked at.
MayLogInAgain(v) == v \notin loggedIn

MayLogIn(v) == v \notin loggingIn \cup loggedIn

LoginToCoordinator(v) ==
  /\ v \in joined
  /\ MayLogIn(v)
  /\ SendToCoordinator(v, [id |-> "ID_UDP_PROXY_LOGIN_REQUEST_FROM_SERVER_TO_COORDINATOR"])
  /\ loggingIn' = loggingIn \cup {v}
  /\ NothingFromCoordinator
  /\ UNCHANGED <<joined, loggedIn, forwards, clientVars, left>>

OnLoginAnswer(v, id) ==
  IF v \in loggingIn
  THEN /\ loggingIn' = loggingIn \ {v}
       /\ loggedIn' = IF id = "ID_UDP_PROXY_LOGIN_SUCCESS_FROM_COORDINATOR_TO_SERVER"
                      THEN loggedIn \cup {v} ELSE loggedIn
  ELSE UNCHANGED <<loggingIn, loggedIn>>

Link(p) == {p[1], p[2]}

\* Mutant: a result is returned that has not been set.
StartForwardingUnset(v, p) == {"UDPFORWARDER_RESULT_COUNT"}

\* What UDPForwarder::StartForwarding returns to server v.
StartForwarding(v, p) ==
  IF Link(p) \in forwards[v]
  THEN {"UDPFORWARDER_FORWARDING_ALREADY_EXISTS", "UDPFORWARDER_NO_SOCKETS"}
  ELSE {"UDPFORWARDER_SUCCESS", "UDPFORWARDER_NO_SOCKETS", "UDPFORWARDER_BIND_FAILED"}

\* Line 77 asks for the index of the coordinator among the logged in ones,
\* and gets an index whether it is one of them or not.
OnForwardingRequestFromCoordinatorToServer(v, p) ==
  \E result \in StartForwarding(v, p) :
    /\ forwards' = IF result = "UDPFORWARDER_SUCCESS"
                   THEN [forwards EXCEPT ![v] = @ \cup {Link(p)}] ELSE forwards
    /\ SendToCoordinator(v,
         [id |-> "ID_UDP_PROXY_FORWARDING_REPLY_FROM_SERVER_TO_COORDINATOR",
          pair |-> p, result |-> result])

ServerReceives(v) ==
  /\ toSystem[v] # <<>>
  /\ LET m == Head(toSystem[v])
     IN \/ /\ m.id \in LoginAnswer
           /\ OnLoginAnswer(v, m.id)
           /\ UNCHANGED <<toCoordinator, forwards>>
        \/ /\ m.id = "ID_UDP_PROXY_FORWARDING_REQUEST_FROM_COORDINATOR_TO_SERVER"
           /\ OnForwardingRequestFromCoordinatorToServer(v, m.pair)
           /\ UNCHANGED <<loggingIn, loggedIn>>
  /\ toSystem' = [toSystem EXCEPT ![v] = Tail(@)]
  /\ UNCHANGED <<vars, joined, clientVars, left>>

\* UpdateUDPForwarder removes an entry that has forwarded nothing for long.
ForwardTimesOut(v) ==
  \E link \in forwards[v] :
    /\ forwards' = [forwards EXCEPT ![v] = @ \ {link}]
    /\ UNCHANGED <<vars, queues, joined, loggingIn, loggedIn, clientVars, left>>

-----------------------------------------------------------------------------
(* UDPProxyClient *)

RequestForwarding(c, p, byGuid) ==
  /\ left.requests > 0
  /\ c \in joined
  /\ <<c, p>> \notin pending
  /\ SendToCoordinator(c,
       [id |-> "ID_UDP_PROXY_FORWARDING_REQUEST_FROM_CLIENT_TO_COORDINATOR",
        pair |-> p, byGuid |-> byGuid])
  /\ pending' = pending \cup {<<c, p>>}
  /\ left' = [left EXCEPT !.requests = @ - 1]
  /\ NothingFromCoordinator
  /\ UNCHANGED <<joined, serverVars, pingServerGroups>>

OnPingServers(c, m) ==
  /\ pingServerGroups' = [pingServerGroups EXCEPT ![c] = Append(@,
       [sata |-> m.pair,
        serversToPing |-> [i \in DOMAIN m.servers |->
                             [serverAddress |-> m.servers[i], ping |-> Unresponsive]]])]
  /\ UNCHANGED pending

ClientReceives(c) ==
  /\ toSystem[c] # <<>>
  /\ LET m == Head(toSystem[c])
     IN \/ /\ m.id = "ID_UDP_PROXY_PING_SERVERS_FROM_COORDINATOR_TO_CLIENT"
           /\ OnPingServers(c, m)
        \/ /\ m.id \in Answer                     \* the result handler is called
           /\ pending' = pending \ {<<c, m.pair>>}
           /\ UNCHANGED pingServerGroups
        \/ /\ m.id = "ID_UDP_PROXY_FORWARDING_NOTIFICATION"
           /\ UNCHANGED <<pingServerGroups, pending>>
  /\ toSystem' = [toSystem EXCEPT ![c] = Tail(@)]
  /\ UNCHANGED <<vars, toCoordinator, joined, serverVars, left>>

AreAllServersPinged(psg) ==
  \A i \in DOMAIN psg.serversToPing : psg.serversToPing[i].ping # Unresponsive

SendPingedServersToCoordinator(c, psg) ==
  SendToCoordinator(c,
    [id |-> "ID_UDP_PROXY_PING_SERVERS_REPLY_FROM_CLIENT_TO_COORDINATOR",
     pair |-> psg.sata, reply |-> psg.serversToPing])

\* The first group that has server v, whether it still waits for it or not.
FirstGroupWith(c, v) ==
  {g \in DOMAIN pingServerGroups[c] :
     /\ \E i \in DOMAIN pingServerGroups[c][g].serversToPing :
          pingServerGroups[c][g].serversToPing[i].serverAddress = v
     /\ \A h \in 1 .. g - 1 : \A i \in DOMAIN pingServerGroups[c][h].serversToPing :
          pingServerGroups[c][h].serversToPing[i].serverAddress # v}

\* A pong of server v arrives, to the ping of a group or to an earlier one.
OnPong(c, v, ping) ==
  /\ \E g \in FirstGroupWith(c, v) :
       LET psg == pingServerGroups[c][g]
           answered == [psg EXCEPT !.serversToPing =
                          [i \in DOMAIN @ |-> IF @[i].serverAddress = v
                                              THEN [@[i] EXCEPT !.ping = ping] ELSE @[i]]]
       IN IF AreAllServersPinged(answered)
          THEN /\ SendPingedServersToCoordinator(c, answered)
               /\ pingServerGroups' = [pingServerGroups EXCEPT ![c] = RemoveAt(@, g)]
          ELSE /\ pingServerGroups' = [pingServerGroups EXCEPT ![c][g] = answered]
               /\ UNCHANGED toCoordinator
  /\ NothingFromCoordinator
  /\ UNCHANGED <<joined, serverVars, pending, left>>

\* Update gives up on the servers that did not answer, in the oldest group
\* first.
GroupTimesOut(c) ==
  /\ pingServerGroups[c] # <<>>
  /\ SendPingedServersToCoordinator(c, Head(pingServerGroups[c]))
  /\ pingServerGroups' = [pingServerGroups EXCEPT ![c] = Tail(@)]
  /\ NothingFromCoordinator
  /\ UNCHANGED <<joined, serverVars, pending, left>>

-----------------------------------------------------------------------------
(* Specification *)

\* All systems have connected; nothing has been sent yet.
ProxyInit ==
  /\ left \in Scenario
  /\ connected = left.systems
  /\ serverList = <<>>
  /\ requests = [p \in {} |-> <<>>]
  /\ sourcePings = [p \in {} |-> <<>>]
  /\ closing = {} /\ toVisit = {}
  /\ sent = <<>>
  /\ toCoordinator = [a \in Address |-> <<>>]
  /\ toSystem = [a \in Address |-> <<>>]
  /\ joined = left.systems
  /\ loggingIn = {} /\ loggedIn = {}
  /\ forwards = [v \in Server |-> {}]
  /\ pingServerGroups = [c \in Client |-> <<>>]
  /\ pending = {}

ProxyNext ==
  \/ \E a \in Address : \/ Join(a) \/ CoordinatorLoses(a) \/ SystemLoses(a)
                        \/ CoordinatorReceives(a)
  \/ CoordinatorLoops
  \/ \E p \in Pair : CoordinatorUpdates(p)
  \/ \E v \in Server : LoginToCoordinator(v) \/ ServerReceives(v) \/ ForwardTimesOut(v)
  \/ \E ask \in Ask, byGuid \in ByGuid :
       RequestForwarding(ask[1], <<ask[2], ask[3]>>, byGuid)
  \/ \E c \in Client : \/ ClientReceives(c) \/ GroupTimesOut(c)
                       \/ \E v \in Server, ping \in Ping \ {Unresponsive} : OnPong(c, v, ping)

ProxySpec == ProxyInit /\ [][ProxyNext]_allVars

\* Queues are read and time-outs expire.  Nobody has to join, log in or ask,
\* and no connection has to be lost, but a loss is noticed by both sides.
FairProxySpec ==
  /\ ProxySpec
  /\ \A a \in Address : /\ WF_allVars(CoordinatorReceives(a))
                        /\ WF_allVars(a \notin joined /\ CoordinatorLoses(a))
                        /\ WF_allVars(a \notin connected /\ SystemLoses(a))
  /\ WF_allVars(CoordinatorLoops)
  /\ \A p \in Pair : WF_allVars(CoordinatorUpdates(p))
  /\ \A v \in Server : WF_allVars(ServerReceives(v))
  /\ \A c \in Client : WF_allVars(ClientReceives(c)) /\ WF_allVars(GroupTimesOut(c))

-----------------------------------------------------------------------------
(* Properties *)

NetworkTypeOK ==
  /\ toCoordinator \in [Address -> Seq(ToCoordinatorMessage)]
  /\ toSystem \in [Address -> Seq(Message)]
  /\ joined \subseteq Address
  /\ loggingIn \subseteq Server /\ loggedIn \subseteq Server
  /\ forwards \in [Server -> SUBSET {Link(p) : p \in Pair}]
  /\ pingServerGroups \in [Client -> Seq(PingServerGroup)]
  /\ pending \subseteq Client \X Pair

ProxyTypeOK == PingsTypeOK /\ NetworkTypeOK

\* A server and the coordinator agree on whether the server is logged in,
\* when no answer to a login and no loss of the connection is under way.
SidesAgree ==
  \A v \in Server :
    /\ v \in joined \cap connected
    /\ Idle
    /\ \A i \in 1 .. Len(toSystem[v]) : toSystem[v][i].id \notin LoginAnswer
    => (v \in loggedIn <=> v \in LoggedIn)

\* "returns false if already logged in, or logging in" (LoginToCoordinator):
\* the coordinator never gets the login of a server it has, so that what
\* OnAlreadyLoggedIn is for does not happen, reconnections or not.
NoSecondLogin ==
  \A v \in Server : \A i \in 1 .. Len(toSystem[v]) :
    toSystem[v][i].id # "ID_UDP_PROXY_ALREADY_LOGGED_IN_FROM_COORDINATOR_TO_SERVER"

\* The check of line 77 lets every request pass; that a server is asked by a
\* coordinator it is logged in to rests on the order of the messages.
AskedWhenLoggedIn ==
  \A v \in Server :
    toSystem[v] # <<>> /\ Head(toSystem[v]).id =
        "ID_UDP_PROXY_FORWARDING_REQUEST_FROM_COORDINATOR_TO_SERVER"
      => v \in loggedIn

\* The list of the coordinator and the two lists of each server say the same of
\* who is logged in, as far as anybody acts on it, whatever is under way.
LoginsAgree == SidesAgree /\ NoSecondLogin /\ AskedWhenLoggedIn

\* A queue has a message with one of these identifiers about p, has no two.
HasFor(queue, ids, p) == \E i \in 1 .. Len(queue) : queue[i].id \in ids /\ queue[i].pair = p
HasOneFor(queue, ids, p) ==
  \A i, j \in 1 .. Len(queue) :
    /\ queue[i].id \in ids /\ queue[i].pair = p
    /\ queue[j].id \in ids /\ queue[j].pair = p
    => i = j

\* The outcomes under way are outcomes that are awaited, one per request.
OneOutcomePerRequest ==
  \A c \in Client, p \in Pair :
    /\ HasFor(toSystem[c], Answer, p) => <<c, p>> \in pending
    /\ HasOneFor(toSystem[c], Answer, p)

\* A request has one outcome, though several servers are asked for it one after
\* another, until a connection is lost.  (Then one that has succeeded may fail,
\* for the server it succeeded with is gone, and the reply to a request of a
\* client that has reconnected be taken for the reply to its next one.)
OneOutcomeUntilLoss == left.whole => OneOutcomePerRequest

\* Every request of a client gets an outcome, unless the client is told that it
\* has lost the coordinator.
RequestsGetOutcomes ==
  \A ask \in Ask :
    LET c == ask[1] p == <<ask[2], ask[3]>>
    IN <<c, p>> \in pending ~> <<c, p>> \notin pending

-----------------------------------------------------------------------------
(* The inductive invariant: what LoginsAgree rests on. *)

\* What system a may have sent.
SentBy(a, m) ==
  \/ /\ m.id = "ID_UDP_PROXY_FORWARDING_REQUEST_FROM_CLIENT_TO_COORDINATOR"
     /\ <<a, m.pair[1], m.pair[2]>> \in Ask
  \/ /\ m.id = "ID_UDP_PROXY_PING_SERVERS_REPLY_FROM_CLIENT_TO_COORDINATOR"
     /\ a \in Client
  \/ /\ m.id \in {"ID_UDP_PROXY_LOGIN_REQUEST_FROM_SERVER_TO_COORDINATOR",
                  "ID_UDP_PROXY_FORWARDING_REPLY_FROM_SERVER_TO_COORDINATOR"}
     /\ a \in Server

LoginRequest == {"ID_UDP_PROXY_LOGIN_REQUEST_FROM_SERVER_TO_COORDINATOR"}
LoginSuccess == {"ID_UDP_PROXY_LOGIN_SUCCESS_FROM_COORDINATOR_TO_SERVER"}
ForwardRequest == {"ID_UDP_PROXY_FORWARDING_REQUEST_FROM_COORDINATOR_TO_SERVER"}

\* A queue has a message with one of these identifiers, ...
Has(queue, ids) == \E i \in 1 .. Len(queue) : queue[i].id \in ids

\* ... has no two of them, ...
HasOne(queue, ids) ==
  \A i, j \in 1 .. Len(queue) : queue[i].id \in ids /\ queue[j].id \in ids => i = j

\* ... and has the news that v is logged in before it has a request for v.
SuccessFirst(queue) ==
  \A i \in 1 .. Len(queue) :
    queue[i].id \in ForwardRequest => \E j \in 1 .. i - 1 : queue[j].id \in LoginSuccess

\* A login is one thing on its way: a request, an answer, or the entry in both
\* lists, and the news of it travels ahead of everything that rests on it.
LoginUnderWay(v) ==
  LET asks == Has(toCoordinator[v], LoginRequest)
      answered == Has(toSystem[v], LoginAnswer)
  IN /\ HasOne(toCoordinator[v], LoginRequest) /\ HasOne(toSystem[v], LoginAnswer)
     /\ ~(asks /\ answered)
     /\ v \in joined /\ (asks \/ answered) => v \in loggingIn
     /\ asks => v \notin LoggedIn
     /\ v \in joined \cap connected =>
          (v \in LoggedIn <=> v \in loggedIn \/ Has(toSystem[v], LoginSuccess))
     /\ v \in loggedIn \/ SuccessFirst(toSystem[v])

LoginsUnderWay ==
  /\ loggingIn \cap loggedIn = {}
  /\ NoSecondLogin
  /\ \A v \in Server : LoginUnderWay(v)

\* What a lost connection leaves behind.
LossesForget ==
  /\ loggingIn \cup loggedIn \subseteq joined
  /\ \A a \in Address \ joined : toSystem[a] = <<>>
  /\ \A a \in Address \ connected : toCoordinator[a] = <<>>

ProxyIInv ==
  /\ IInv
  /\ NetworkTypeOK
  /\ Len(sent) <= 2
  /\ \A a \in Address : \A i \in 1 .. Len(toCoordinator[a]) : SentBy(a, toCoordinator[a][i])
  /\ LossesForget
  /\ LoginsUnderWay

-----------------------------------------------------------------------------
(* The inductive invariant: what OneOutcomeUntilLoss rests on. *)

ClientRequest == {"ID_UDP_PROXY_FORWARDING_REQUEST_FROM_CLIENT_TO_COORDINATOR"}
ForwardReply == {"ID_UDP_PROXY_FORWARDING_REPLY_FROM_SERVER_TO_COORDINATOR"}

Serves(p, c) ==
  p \in DOMAIN requests /\ requests[p].requestingAddress = c /\ ~requests[p].timeoutAfterSuccess

Tries(p) ==
  p \in DOMAIN requests /\ ~requests[p].timeRequestedPings /\ ~requests[p].timeoutAfterSuccess

\* What c has asked for is one thing on its way: the request, what the coordinator
\* keeps of it until it has succeeded, or the outcome.
OutcomeUnderWay(c, p) ==
  LET asked == HasFor(toCoordinator[c], ClientRequest, p)
      told == HasFor(toSystem[c], Answer, p)
  IN /\ HasOneFor(toCoordinator[c], ClientRequest, p) /\ HasOneFor(toSystem[c], Answer, p)
     /\ ~(asked /\ told) /\ ~(asked /\ Serves(p, c)) /\ ~(told /\ Serves(p, c))
     /\ asked \/ told \/ Serves(p, c) => <<c, p>> \in pending

\* Only the server that is tried is asked, once, and replies once.
AttemptUnderWay(v, p) ==
  LET asked == HasFor(toSystem[v], ForwardRequest, p)
      replied == HasFor(toCoordinator[v], ForwardReply, p)
  IN /\ HasOneFor(toSystem[v], ForwardRequest, p) /\ HasOneFor(toCoordinator[v], ForwardReply, p)
     /\ ~(asked /\ replied)
     /\ asked \/ replied => Tries(p) /\ requests[p].currentlyAttemptedServerAddress = v

\* No server has been asked while pings are waited for.
PingsFirst ==
  \A p \in DOMAIN requests : requests[p].timeRequestedPings => ~requests[p].timeoutAfterSuccess

NothingLost == connected = left.systems /\ joined = left.systems /\ Idle

OutcomesIInv ==
  /\ left \in Left
  /\ left.whole =>
       /\ NothingLost /\ PingsFirst
       /\ \A c \in Client, p \in Pair : OutcomeUnderWay(c, p)
       /\ \A v \in Server, p \in Pair : AttemptUnderWay(v, p)

=============================================================================
