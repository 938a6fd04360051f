------------------------ MODULE UDPProxyCoordinator ------------------------
(***************************************************************************)
(* The coordinator of UDP proxies, Source/UDPProxyCoordinator.cpp.         *)
(*                                                                         *)
(* Proxy servers log in to the coordinator.  A client that could not reach *)
(* another one asks for a proxy between the two.  With one server logged   *)
(* in, that server is asked to forward; with several, both clients are     *)
(* asked to ping them first, and after three seconds the servers are tried *)
(* one by one, until one forwards or none is left.                         *)
(*                                                                         *)
(* The plugin is single threaded.  Each handler is one step, but the loop  *)
(* of OnClosedConnection over the requests at a lost server takes a step   *)
(* per request; closing and toVisit are its program counter, and no input  *)
(* is taken before it ends (Idle).  The inputs are open: a connected       *)
(* system may send any of its messages at any time.                        *)
(***************************************************************************)
EXTENDS Integers, Sequences, SequencesExt

CONSTANTS
  Client,      \* addresses of clients, ordered as SystemAddresses are
  Server,      \* addresses of proxy servers
  NoServer,    \* UNASSIGNED_SYSTEM_ADDRESS
  Ask,         \* <<requester, sender, target>> of the requests clients make
  Ping,        \* pings clients measure, and memory not written may hold
  PingReply,   \* the ping lists clients send
  MaxPings     \* bound: how many pings are collected for a request

Address == Client \cup Server
Pair == Client \X Client        \* senderClientAddress, targetClientAddress
ServerWithPing == [serverAddress : Server, ping : Ping]

ASSUME AddressAssumption == Client \subseteq Int /\ Server \subseteq Int
ASSUME NoServerAssumption == NoServer \notin Server
ASSUME AskAssumption == Ask \subseteq Client \X Client \X Client
ASSUME PingAssumption == Ping \subseteq 0 .. 65535
ASSUME PingReplyAssumption == PingReply \subseteq Seq(ServerWithPing)

VARIABLES
  connected,       \* systems whose connection has not been reported closed
  serverList,      \* servers that are logged in
  requests,        \* forwardingRequestList by pair
  sourcePings,     \* ForwardingRequest::sourceServerPings
  closing,         \* the server OnClosedConnection is removing, if any
  toVisit,         \* the requests its loop has still to look at
  sent             \* the messages sent by the last step, in order

pcVars == <<closing, toVisit>>
vars == <<connected, serverList, requests, sourcePings, closing, toVisit, sent>>

ForwardingRequest ==
  [requestingAddress : Client,
   currentlyAttemptedServerAddress : Server \cup {NoServer},
   remainingServersToTry : Seq(Server),
   timeRequestedPings : BOOLEAN,      \* not 0: waiting for pings
   timeoutAfterSuccess : BOOLEAN]     \* not 0: kept to report duplicates

Answer == {"ID_UDP_PROXY_FORWARDING_SUCCEEDED", "ID_UDP_PROXY_IN_PROGRESS",
           "ID_UDP_PROXY_NO_SERVERS_ONLINE", "ID_UDP_PROXY_ALL_SERVERS_BUSY",
           "ID_UDP_PROXY_RECIPIENT_GUID_NOT_CONNECTED_TO_COORDINATOR"}

LoginAnswer ==
  {"ID_UDP_PROXY_LOGIN_SUCCESS_FROM_COORDINATOR_TO_SERVER",
   "ID_UDP_PROXY_ALREADY_LOGGED_IN_FROM_COORDINATOR_TO_SERVER",
   "ID_UDP_PROXY_NO_PASSWORD_SET_FROM_COORDINATOR_TO_SERVER",
   "ID_UDP_PROXY_WRONG_PASSWORD_FROM_COORDINATOR_TO_SERVER"}

Message ==
       [to : Client, pair : Pair,
        id : Answer \cup {"ID_UDP_PROXY_FORWARDING_NOTIFICATION"}]
  \cup [to : Client, pair : Pair, servers : Seq(Server),
        id : {"ID_UDP_PROXY_PING_SERVERS_FROM_COORDINATOR_TO_CLIENT"}]
  \cup [to : Server, pair : Pair,
        id : {"ID_UDP_PROXY_FORWARDING_REQUEST_FROM_COORDINATOR_TO_SERVER"}]
  \cup [to : Server, id : LoginAnswer]

\* What UDPForwarder::StartForwarding may return to the server.
UDPForwarderResult ==
  {"UDPFORWARDER_SUCCESS", "UDPFORWARDER_NO_SOCKETS",
   "UDPFORWARDER_FORWARDING_ALREADY_EXISTS", "UDPFORWARDER_BIND_FAILED",
   "UDPFORWARDER_INVALID_PARAMETERS", "UDPFORWARDER_NOT_RUNNING"}

-----------------------------------------------------------------------------
(* Helpers *)

\* No handler is running: the next input may be taken.
Idle == closing = {}

LoggedIn == ToSet(serverList)
Reverse2(p) == <<p[2], p[1]>>

\* The order of forwardingRequestList.
Before(p, q) == p[1] < q[1] \/ (p[1] = q[1] /\ p[2] < q[2])

Put(p, fw) == requests' = [q \in DOMAIN requests \cup {p} |->
                             IF q = p THEN fw ELSE requests[q]]
Drop(S) == requests' = [q \in DOMAIN requests \ S |-> requests[q]]

\* The pings of requests that are gone are gone, too.
KeepPings == sourcePings' = [q \in DOMAIN requests' |-> sourcePings[q]]

\* Mutant: the answer goes to the sender, whoever asked for it.
ToSender(fw, p, id) == [to |-> p[1], pair |-> p, id |-> id]

ToRequester(fw, p, id) == [to |-> fw.requestingAddress, pair |-> p, id |-> id]

SendForwardingRequest(v, p) ==
  sent' = <<[to |-> v, pair |-> p,
             id |-> "ID_UDP_PROXY_FORWARDING_REQUEST_FROM_COORDINATOR_TO_SERVER"]>>

\* i is the position of the first server of list that is still logged in.
FirstLoggedIn(i, list) ==
  /\ i \in 1 .. Len(list)
  /\ list[i] \in LoggedIn
  /\ \A j \in 1 .. i - 1 : list[j] \notin LoggedIn

\* What is left of list when the servers up to i have been popped.
ServersAfter(list, i) == SubSeq(list, i + 1, Len(list))

\* TryNextServer for request fw of pair p, on the requests as they are: the
\* first remaining server that is still logged in is asked, ...
TryServer(p, fw) ==
  \E i \in 1 .. Len(fw.remainingServersToTry) :
    LET list == fw.remainingServersToTry
    IN /\ FirstLoggedIn(i, list)
       /\ Put(p, [fw EXCEPT !.currentlyAttemptedServerAddress = list[i],
                            !.remainingServersToTry = ServersAfter(list, i)])
       /\ SendForwardingRequest(list[i], p)

\* ... or the request ends.
GiveUp(p, fw) ==
  /\ ToSet(fw.remainingServersToTry) \cap LoggedIn = {}
  /\ Drop({p})
  /\ sent' = <<ToRequester(fw, p, "ID_UDP_PROXY_ALL_SERVERS_BUSY")>>

TryNextServer(p, fw) == (TryServer(p, fw) \/ GiveUp(p, fw)) /\ KeepPings

-----------------------------------------------------------------------------
(* Connections *)

Connect(a) ==
  /\ Idle
  /\ a \notin connected
  /\ connected' = connected \cup {a}
  /\ sent' = <<>>
  /\ UNCHANGED <<serverList, requests, sourcePings, pcVars>>

RequestsOf(a) == {p \in DOMAIN requests : requests[p].requestingAddress = a}

\* The requests of a client that has left are forgotten.  If it is a server
\* that has left, the loop over the requests begins.
OnClosedConnection(a) ==
  /\ Idle
  /\ a \in connected
  /\ connected' = connected \ {a}
  /\ Drop(RequestsOf(a))
  /\ KeepPings
  /\ IF a \in LoggedIn
     THEN closing' = {a} /\ toVisit' = DOMAIN requests'
     ELSE UNCHANGED pcVars
  /\ sent' = <<>>
  /\ UNCHANGED serverList

\* The request the loop comes to next.
NextIn(S) == {p \in S : \A q \in S : q = p \/ Before(p, q)}

\* Mutant: a request that has no server left to try is passed over.
AtLostServerWithOthers(p) ==
  /\ requests[p].currentlyAttemptedServerAddress \in closing
  /\ requests[p].remainingServersToTry # <<>>

AtLostServer(p) == requests[p].currentlyAttemptedServerAddress \in closing

\* Mutant: the index is not advanced when a request has been removed.
VisitAgain ==
  \E p \in NextIn(toVisit) :
    /\ IF AtLostServer(p)
       THEN TryNextServer(p, requests[p])
       ELSE sent' = <<>> /\ UNCHANGED <<requests, sourcePings>>
    /\ toVisit' = IF p \in DOMAIN requests' THEN toVisit \ {p} ELSE toVisit
    /\ UNCHANGED <<connected, serverList, closing>>

\* One iteration.  TryNextServer may remove the request from the list the
\* loop runs over, and the request after it moves to the index just visited.
VisitRequest ==
  \E p \in NextIn(toVisit) :
    /\ IF AtLostServer(p)
       THEN TryNextServer(p, requests[p])
       ELSE sent' = <<>> /\ UNCHANGED <<requests, sourcePings>>
    /\ toVisit' = (toVisit \ {p})
                    \ (IF p \in DOMAIN requests' THEN {} ELSE NextIn(toVisit \ {p}))
    /\ UNCHANGED <<connected, serverList, closing>>

\* DataStructures::List::RemoveAtIndexFast
RemoveAtIndexFast(list, i) ==
  [j \in 1 .. Len(list) - 1 |-> IF j = i THEN list[Len(list)] ELSE list[j]]

\* The end of that loop.
RemoveServer ==
  /\ closing # {}
  /\ toVisit = {}
  /\ \E i \in 1 .. Len(serverList) :
       /\ serverList[i] \in closing
       /\ serverList' = RemoveAtIndexFast(serverList, i)
  /\ closing' = {}
  /\ sent' = <<>>
  /\ UNCHANGED <<connected, requests, sourcePings, toVisit>>

-----------------------------------------------------------------------------
(* Messages from clients *)

\* Mutant: only the same direction is looked up.
InProgressSameWay(p) == p \in DOMAIN requests

\* The pair is being served, in either direction.
InProgress(p) == p \in DOMAIN requests \/ Reverse2(p) \in DOMAIN requests

\* A request that goes on: pings are asked for, or the only server is tried.
Accept(c, p) ==
  LET fw == [requestingAddress |-> c,
             currentlyAttemptedServerAddress |-> NoServer,
             remainingServersToTry |-> serverList,
             timeRequestedPings |-> TRUE,
             timeoutAfterSuccess |-> FALSE]
      ping(to) == [to |-> to, pair |-> p, servers |-> serverList,
                   id |-> "ID_UDP_PROXY_PING_SERVERS_FROM_COORDINATOR_TO_CLIENT"]
  IN /\ \/ /\ Len(serverList) > 1
           /\ Put(p, fw)
           /\ sent' = <<ping(p[1]), ping(p[2])>>
        \/ /\ Len(serverList) = 1
           /\ Put(p, [fw EXCEPT !.currentlyAttemptedServerAddress = serverList[1],
                                !.remainingServersToTry = <<>>,
                                !.timeRequestedPings = FALSE])
           /\ SendForwardingRequest(serverList[1], p)
     /\ sourcePings' = [q \in DOMAIN requests' |->
                          IF q = p THEN <<>> ELSE sourcePings[q]]

Refuse(c, p, why) ==
  /\ sent' = <<[to |-> c, pair |-> p, id |-> why]>>
  /\ UNCHANGED <<requests, sourcePings>>

\* Whether GetSystemAddressFromGuid finds the target.  It does not when the
\* connection of the target is lost, which the plugin may not have heard yet.
TargetFound(p, byGuid) ==
  IF byGuid THEN {found \in BOOLEAN : found => p[2] \in connected} ELSE {TRUE}

\* Client c asks for a proxy between p[1] and p[2], the latter named by its
\* guid or by its address.
OnForwardingRequest(c, p, byGuid) ==
  /\ Idle
  /\ c \in connected
  /\ \E found \in TargetFound(p, byGuid) :
       \/ /\ found /\ InProgress(p)
          /\ Refuse(c, p, "ID_UDP_PROXY_IN_PROGRESS")
       \/ /\ ~(found /\ InProgress(p))
          /\ serverList = <<>>
          /\ Refuse(c, p, "ID_UDP_PROXY_NO_SERVERS_ONLINE")
       \/ /\ ~(found /\ InProgress(p))
          /\ serverList # <<>>
          /\ byGuid
          /\ Refuse(c, p, "ID_UDP_PROXY_RECIPIENT_GUID_NOT_CONNECTED_TO_COORDINATOR")
       \/ /\ found /\ ~InProgress(p)
          /\ serverList # <<>>
          /\ Accept(c, p)
  /\ UNCHANGED <<connected, serverList, pcVars>>

\* The place of a ping in a list: before the first that is not smaller.
PingIndex(list, ping) ==
  CHOOSE i \in 1 .. Len(list) + 1 :
    /\ \A j \in 1 .. i - 1 : list[j].ping < ping
    /\ i <= Len(list) => list[i].ping >= ping

InsertPing(list, swp) == InsertAt(list, PingIndex(list, swp.ping), swp)
PingsInserted(list, reply) ==
  LET inserted[n \in 0 .. Len(reply)] ==
        IF n = 0 THEN list ELSE InsertPing(inserted[n - 1], reply[n])
  IN inserted[Len(reply)]

\* Pings of the sender are inserted in order.  Those of anyone else are meant
\* for targetServerPings; line 481 inserts them into sourceServerPings, at the
\* index found in the other list, which stays empty.  So the test of line 486
\* for both lists never holds, and the request waits for its time-out.
OnPingServersReply(a, p, reply) ==
  /\ Idle
  /\ a \in connected
  /\ p \in DOMAIN requests
  /\ requests[p].timeRequestedPings
  /\ Len(sourcePings[p]) + Len(reply) <= MaxPings
  /\ sourcePings' = [sourcePings EXCEPT ![p] =
       IF a = p[1] THEN PingsInserted(@, reply) ELSE Reverse(reply) \o @]
  /\ sent' = <<>>
  /\ UNCHANGED <<connected, serverList, requests, pcVars>>

-----------------------------------------------------------------------------
(* Messages from servers *)

\* Whether there is a password, and whether v knows it, is left open.
OnLoginRequest(v, id) ==
  /\ Idle
  /\ v \in connected
  /\ \/ /\ id = "ID_UDP_PROXY_LOGIN_SUCCESS_FROM_COORDINATOR_TO_SERVER"
        /\ v \notin LoggedIn
        /\ serverList' = Append(serverList, v)
     \/ /\ id = "ID_UDP_PROXY_ALREADY_LOGGED_IN_FROM_COORDINATOR_TO_SERVER"
        /\ v \in LoggedIn
        /\ UNCHANGED serverList
     \/ /\ id \in {"ID_UDP_PROXY_NO_PASSWORD_SET_FROM_COORDINATOR_TO_SERVER",
                   "ID_UDP_PROXY_WRONG_PASSWORD_FROM_COORDINATOR_TO_SERVER"}
        /\ UNCHANGED serverList
  /\ sent' = <<[to |-> v, id |-> id]>>
  /\ UNCHANGED <<connected, requests, sourcePings, pcVars>>

\* The reply of a server that forwards.  The entry is kept for some time.
Succeed(p) ==
  /\ Put(p, [requests[p] EXCEPT !.timeoutAfterSuccess = TRUE])
  /\ KeepPings
  /\ sent' = <<ToRequester(requests[p], p, "ID_UDP_PROXY_FORWARDING_SUCCEEDED"),
               [to |-> p[2], pair |-> p,
                id |-> "ID_UDP_PROXY_FORWARDING_NOTIFICATION"]>>

\* The reply of a server that forwards already, and of one that failed in any
\* other way than having no sockets left (the assertion of line 418).
EndInProgress(p) ==
  /\ Drop({p})
  /\ KeepPings
  /\ sent' = <<ToRequester(requests[p], p, "ID_UDP_PROXY_IN_PROGRESS")>>

\* A reply is matched by its pair alone; which server sent it is not looked
\* at, and one for a pair that is not listed is ignored.
OnForwardingReply(v, p, result) ==
  /\ Idle
  /\ v \in connected
  /\ p \in DOMAIN requests
  /\ \/ result = "UDPFORWARDER_SUCCESS" /\ Succeed(p)
     \/ result = "UDPFORWARDER_NO_SOCKETS" /\ TryNextServer(p, requests[p])
     \/ /\ result \notin {"UDPFORWARDER_SUCCESS", "UDPFORWARDER_NO_SOCKETS"}
        /\ EndInProgress(p)
  /\ UNCHANGED <<connected, serverList, pcVars>>

-----------------------------------------------------------------------------
(* Update *)

\* The sum OrderRemainingServersToTry sorts by, an unsigned short; the other
\* summand stands for the target, whose list is empty.
Sum(ping) == (ping + 2000) % 65536

\* The pings that line 552 reads for a list of n servers.  It reads past the
\* end of pings when these answer an earlier request, for fewer servers.
PingsRead(pings, n) ==
  {at \in [1 .. n -> Ping] :
     \A i \in 1 .. n : i <= Len(pings) => at[i] = pings[i].ping}

\* pos lists indices into a list in the order of their sums.  An index whose
\* sum an earlier one has is left out: OrderedList::Insert refuses it.
SortedBy(at, pos) ==
  /\ \A j, k \in DOMAIN pos : j < k => Sum(at[pos[j]]) < Sum(at[pos[k]])
  /\ \A i \in DOMAIN at :
       (\E k \in DOMAIN pos : pos[k] = i) <=> \A h \in 1 .. i - 1 : Sum(at[h]) # Sum(at[i])

\* The lists OrderRemainingServersToTry may leave.
OrderRemainingServersToTry(list, pings) ==
  IF pings = <<>> THEN {list}
  ELSE UNION {{[k \in 1 .. m |-> list[pos[k]]] :
                 pos \in {f \in [1 .. m -> 1 .. Len(list)] :
                           \E at \in PingsRead(pings, Len(list)) : SortedBy(at, f)}} :
              m \in 1 .. Len(list)}

\* Mutant: that pings are waited for is not reset.
PingsTimeOutAgain(p) ==
  /\ Idle
  /\ p \in DOMAIN requests
  /\ requests[p].timeRequestedPings
  /\ TryNextServer(p, requests[p])
  /\ UNCHANGED <<connected, serverList, pcVars>>

\* Three seconds have passed since the pings were asked for.
PingsTimeOut(p) ==
  /\ Idle
  /\ p \in DOMAIN requests
  /\ requests[p].timeRequestedPings
  /\ \E list \in OrderRemainingServersToTry(requests[p].remainingServersToTry,
                                            sourcePings[p]) :
       TryNextServer(p, [requests[p] EXCEPT !.timeRequestedPings = FALSE,
                                            !.remainingServersToTry = list])
  /\ UNCHANGED <<connected, serverList, pcVars>>

\* The time a successful request is kept for has passed.
ForgetSuccess(p) ==
  /\ Idle
  /\ p \in DOMAIN requests
  /\ requests[p].timeoutAfterSuccess
  /\ Drop({p})
  /\ KeepPings
  /\ sent' = <<>>
  /\ UNCHANGED <<connected, serverList, pcVars>>

-----------------------------------------------------------------------------
(* Specification *)

Init ==
  /\ connected = {}
  /\ serverList = <<>>
  /\ requests = [p \in {} |-> <<>>]
  /\ sourcePings = [p \in {} |-> <<>>]
  /\ closing = {}
  /\ toVisit = {}
  /\ sent = <<>>

Next ==
  \/ \E a \in Address : Connect(a) \/ OnClosedConnection(a)
  \/ VisitRequest \/ RemoveServer
  \/ \E ask \in Ask, byGuid \in BOOLEAN :
       OnForwardingRequest(ask[1], <<ask[2], ask[3]>>, byGuid)
  \/ \E a \in Client, p \in Pair, reply \in PingReply : OnPingServersReply(a, p, reply)
  \/ \E v \in Server, id \in LoginAnswer : OnLoginRequest(v, id)
  \/ \E v \in Server, p \in Pair, result \in UDPForwarderResult :
       OnForwardingReply(v, p, result)
  \/ \E p \in Pair : PingsTimeOut(p) \/ ForgetSuccess(p)

Spec == Init /\ [][Next]_vars

-----------------------------------------------------------------------------
(* Properties *)

TypeOK ==
  /\ connected \subseteq Address
  /\ serverList \in Seq(Server)
  /\ DOMAIN requests \subseteq Pair
  /\ requests \in [DOMAIN requests -> ForwardingRequest]
  /\ closing \subseteq LoggedIn
  /\ toVisit \subseteq DOMAIN requests
  /\ sent \in Seq(Message)

\* The pings collected belong to requests that wait, or have waited, for them.
PingsTypeOK == sourcePings \in [DOMAIN requests -> Seq(ServerWithPing)]

\* The list of servers, which servers join and leave by messages and by lost
\* connections, names each server once, and no server that has gone.
ServersAreConnected ==
  /\ IsInjective(serverList)
  /\ LoggedIn \subseteq connected \cup closing

\* A pair is served for one request at a time, whichever of the two asked:
\* what ID_UDP_PROXY_IN_PROGRESS is for.
OneForwardPerPair ==
  \A p \in DOMAIN requests : Reverse2(p) \in DOMAIN requests => p = Reverse2(p)

\* No request outlives the connection its outcome is sent to.
RequestersAreConnected ==
  \A p \in DOMAIN requests : requests[p].requestingAddress \in connected

\* For one request no server is asked twice: the list of the servers left
\* has no server twice, and not the one that is being asked.
NoServerAskedTwice ==
  \A p \in DOMAIN requests :
    LET fw == requests[p]
    IN /\ IsInjective(fw.remainingServersToTry)
       /\ fw.currentlyAttemptedServerAddress \notin ToSet(fw.remainingServersToTry)

\* The lists the coordinator keeps of servers, of requests and of what each of
\* them has still to try agree with each other and with the connections, though
\* all of them are copied, shortened and searched at different times.
RequestsAgree ==
  /\ ServersAreConnected
  /\ OneForwardPerPair
  /\ RequestersAreConnected
  /\ NoServerAskedTwice

\* A forwarding request goes to a server that is logged in and not the one
\* that is being removed, though lists of servers are older than that.
AsksLiveServers ==
  [][\A i \in 1 .. Len(sent') :
       sent'[i].id = "ID_UDP_PROXY_FORWARDING_REQUEST_FROM_COORDINATOR_TO_SERVER"
         => sent'[i].to \in LoggedIn \ closing]_vars

\* A request that ends without success ends with an answer to the system that
\* made it, if that is still connected.
EndsAreAnswered ==
  [][\A p \in DOMAIN requests \ DOMAIN requests' :
       LET c == requests[p].requestingAddress
       IN ~requests[p].timeoutAfterSuccess /\ c \in connected' =>
            \E i \in 1 .. Len(sent') :
              sent'[i].to = c /\ sent'[i].id \in Answer /\ sent'[i].pair = p]_vars

\* "For each pending client for this server, choose from remaining servers"
\* (OnClosedConnection): a request that neither waits for pings nor has
\* succeeded is at a server that is logged in, or nothing would ever end it.
NoRequestAtLostServer ==
  Idle => \A p \in DOMAIN requests :
            LET fw == requests[p]
            IN \/ fw.timeRequestedPings \/ fw.timeoutAfterSuccess
               \/ fw.currentlyAttemptedServerAddress \in LoggedIn

-----------------------------------------------------------------------------
(* The abstract specification *)

AbstractRequests ==
  [p \in DOMAIN requests |->
     [by |-> requests[p].requestingAddress,
      at |-> requests[p].currentlyAttemptedServerAddress,
      untried |-> ToSet(requests[p].remainingServersToTry),
      forwarded |-> requests[p].timeoutAfterSuccess]]

Answered == {<<sent[i].to, sent[i].pair>> : i \in {k \in DOMAIN sent : sent[k].id \in Answer}}

Abstract == INSTANCE ProxyForwarding WITH
  online <- LoggedIn \ closing, request <- AbstractRequests, told <- Answered

\* The coordinator does what ProxyForwarding promises, while servers come and
\* go between the steps of its loops.
ImplementsForwarding == Abstract!Spec

-----------------------------------------------------------------------------
(* The inductive invariant: what the properties above rest on. *)

\* OnClosedConnection removes one server at a time, whose connection is gone.
OneHandler ==
  /\ closing = {} => toVisit = {}
  /\ \A v, w \in closing : v = w
  /\ closing \cap connected = {}

IInv ==
  /\ TypeOK
  /\ ServersAreConnected
  /\ OneForwardPerPair
  /\ RequestersAreConnected
  /\ NoServerAskedTwice
  /\ OneHandler

=============================================================================
