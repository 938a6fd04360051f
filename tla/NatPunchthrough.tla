-------------------------- MODULE NatPunchthrough --------------------------
(***************************************************************************)
(* NAT punchthrough end to end: the facilitator of NatPunchthroughServer,  *)
(* its clients (Source/NatPunchthroughClient.cpp) and the connections      *)
(* between them.                                                           *)
(*                                                                         *)
(* Every message between client and facilitator is sent RELIABLE_ORDERED   *)
(* on channel 0, so each direction of a connection is a queue.  Clients    *)
(* probe each other with out-of-band datagrams, which may be lost.  The    *)
(* datagrams of a punch are kept to what decides its outcome: whether an   *)
(* ID_NAT_ESTABLISH_BIDIRECTIONAL of this session is under way.            *)
(*                                                                         *)
(* Before its first request a client finds out by how much its router      *)
(* advances the port from one connection to the next (the port stride);    *)
(* requests are queued until it knows, or gives up.                        *)
(*                                                                         *)
(* Not here: the order in which a punch tries addresses.                   *)
(***************************************************************************)
EXTENDS NatPunchthroughServer, FiniteSets

CONSTANTS
  Retrying,         \* clients with PunchthroughConfiguration::retryOnFailure
  MaxRequests,      \* bound: calls of OpenNAT, losses of the facilitator, and clients in Probing
  MaxOverdue,       \* bound: how often an attempt takes ten seconds
  MayLeave,         \* whether clients lose the connection to the facilitator
  Probing,          \* choices of the clients that have not found their port stride before
  Sockets           \* how many sockets the facilitator may have bound

ASSUME RetryingAssumption == Retrying \subseteq Guid
ASSUME MayLeaveAssumption == MayLeave \in BOOLEAN
ASSUME ProbingAssumption == Probing \subseteq SUBSET Guid
ASSUME SocketsAssumption == Sockets \subseteq Nat \ {0}

VARIABLES
  toServer,      \* queue from each client to the facilitator
  toClient,      \* queue from the facilitator to each client
  sp,            \* SendPing: the punch each client runs, or ran last
  failed,        \* failedAttemptList: guids that failed once
  awaiting,      \* per client, targets of OpenNAT without an outcome yet
  hasPortStride, \* per client, what it knows of its port stride
  queuedOpenNat, \* per client, the requests that wait for it
  pinged,        \* clients of whose stride an ID_NAT_PING or ID_NAT_PONG is under way
  boundAddressCount,   \* of the facilitator, 0 before it is asked
  gone,          \* clients that lost the connection to the facilitator
  requests,      \* calls of OpenNAT so far
  late,          \* attempts that took ten seconds so far
  reportedFor    \* the session of each user's last port report, -1 for none

clientVars == <<sp, failed, awaiting>>
strideVars == <<hasPortStride, queuedOpenNat, pinged, boundAddressCount>>
bounds == <<requests, late>>
netVars == <<toServer, toClient, clientVars, strideVars, gone, bounds, reportedFor>>
allVars == <<vars, netVars>>

ToServerMessage ==
       [id : {"ID_NAT_PUNCHTHROUGH_REQUEST"}, peer : Guid]
  \cup [id : {"ID_NAT_GET_MOST_RECENT_PORT"}, session : Session, port : Port]
  \cup [id : {"ID_NAT_CLIENT_READY", "ID_NAT_REQUEST_BOUND_ADDRESSES"}]

\* To the messages of NatPunchthroughServer it adds one.
BoundAddresses == [id : {"ID_NAT_RESPOND_BOUND_ADDRESSES"}, count : Sockets]

PortStride == {"UNKNOWN_PORT_STRIDE", "CALCULATING_PORT_STRIDE", "INCAPABLE_PORT_STRIDE",
               "HAS_PORT_STRIDE"}

Ping == [active : BOOLEAN,       \* nextActionTime # 0
         session : Session, target : Guid, weAreSender : BOOLEAN,
         answered : BOOLEAN]     \* a BIDIRECTIONAL from target is under way

-----------------------------------------------------------------------------
(* The facilitator's side of the network *)

\* The queue to client g with the i-th message the facilitator has sent in this
\* step, if there is one and it is for g.
Received(g, i, queue) ==
  IF i \in DOMAIN sent' /\ sent'[i].to = g /\ g \notin gone
  THEN Append(queue, sent'[i]) ELSE queue

\* The messages of the last step, two at most, go to the queues of the clients.
Deliver ==
  toClient' = [g \in Guid |-> Received(g, 2, Received(g, 1, toClient[g]))]

Consume(g) == toServer' = [toServer EXCEPT ![g] = Tail(@)]

\* The facilitator takes the next message of client g, or finishes the
\* handler it runs.
ServerReceive(g) ==
  /\ toServer[g] # <<>>
  /\ LET m == Head(toServer[g])
     IN \/ /\ m.id = "ID_NAT_PUNCHTHROUGH_REQUEST"
           /\ OnNATPunchthroughRequest(g, m.peer)
           /\ UNCHANGED reportedFor
        \/ /\ m.id = "ID_NAT_GET_MOST_RECENT_PORT"
           /\ OnGetMostRecentPort(g, m.session, m.port)
           /\ reportedFor' = [reportedFor EXCEPT ![g] = m.session]
        \/ /\ m.id = "ID_NAT_CLIENT_READY"
           /\ OnClientReady(g)
           /\ UNCHANGED reportedFor
  /\ Consume(g)
  /\ Deliver
  /\ UNCHANGED <<clientVars, strideVars, gone, bounds>>

\* The addresses of the facilitator's sockets, which it reads when first asked.
ServerRespondsBoundAddresses(g) ==
  /\ Idle
  /\ toServer[g] # <<>> /\ Head(toServer[g]).id = "ID_NAT_REQUEST_BOUND_ADDRESSES"
  /\ boundAddressCount' \in IF boundAddressCount = 0 THEN Sockets ELSE {boundAddressCount}
  /\ sent' = <<>>
  /\ toClient' = [toClient EXCEPT ![g] = IF g \in gone THEN @ ELSE
        Append(@, [id |-> "ID_NAT_RESPOND_BOUND_ADDRESSES", count |-> boundAddressCount'])]
  /\ Consume(g)
  /\ UNCHANGED <<users, isReady, mostRecentPort, connectionAttempts, attempts, sessionId, pcVars,
                 clientVars, hasPortStride, queuedOpenNat, pinged, gone, bounds, reportedFor>>

ServerContinue ==
  /\ Continue
  /\ Deliver
  /\ UNCHANGED <<toServer, clientVars, strideVars, gone, bounds, reportedFor>>

ServerUpdate ==
  /\ Update
  /\ Deliver
  /\ UNCHANGED <<toServer, clientVars, strideVars, gone, bounds, reportedFor>>

\* What client g sent and the facilitator has not read is lost with the
\* connection.
ServerNoticesLoss(g) ==
  /\ g \in gone
  /\ OnClosedConnection(g)
  /\ toServer' = [toServer EXCEPT ![g] = <<>>]
  /\ toClient' = [toClient EXCEPT ![g] = <<>>]
  /\ UNCHANGED <<clientVars, strideVars, gone, bounds, reportedFor>>

TenSecondsPass ==
  /\ late < MaxOverdue
  /\ \E ca \in DOMAIN attempts : BecomesOverdue(ca)
  /\ late' = late + 1
  /\ UNCHANGED <<toServer, toClient, clientVars, strideVars, gone, requests, reportedFor>>

-----------------------------------------------------------------------------
(* Clients *)

\* A client step leaves the facilitator alone.  Clients share nothing with a
\* handler that runs but the ends of queues, so their steps are taken between
\* handlers.
ClientStep ==
  /\ Idle
  /\ sent' = <<>>
  /\ UNCHANGED <<users, isReady, mostRecentPort, connectionAttempts, attempts,
                 sessionId, pcVars, boundAddressCount, late, reportedFor>>

Ready == [id |-> "ID_NAT_CLIENT_READY"]
Request(r) == [id |-> "ID_NAT_PUNCHTHROUGH_REQUEST", peer |-> r]

Send(g, ms) ==
  toServer' = [toServer EXCEPT ![g] = IF g \in gone THEN @ ELSE @ \o ms]

\* The application hears how its request for target came out.
Outcome(g, target) == awaiting' = [awaiting EXCEPT ![g] = @ \ {target}]

KnowsStride(g) == hasPortStride[g] \in {"INCAPABLE_PORT_STRIDE", "HAS_PORT_STRIDE"}
SetStride(g, known) == hasPortStride' = [hasPortStride EXCEPT ![g] = known]

\* Asked for the first time a client begins to look for its port stride, and
\* queues the request, as all others until it has come to an end with that.
OpenNAT(g, r) ==
  /\ g \in users \ gone
  /\ g # r
  /\ r \notin awaiting[g]
  /\ requests + Cardinality(gone) < MaxRequests
  /\ requests' = requests + 1
  /\ awaiting' = [awaiting EXCEPT ![g] = @ \cup {r}]
  /\ IF KnowsStride(g)
     THEN Send(g, <<Request(r)>>) /\ UNCHANGED <<hasPortStride, queuedOpenNat>>
     ELSE /\ Send(g, IF hasPortStride[g] = "UNKNOWN_PORT_STRIDE"
                     THEN <<[id |-> "ID_NAT_REQUEST_BOUND_ADDRESSES"]>> ELSE <<>>)
          /\ SetStride(g, "CALCULATING_PORT_STRIDE")
          /\ queuedOpenNat' = [queuedOpenNat EXCEPT ![g] = Append(@, r)]
  /\ ClientStep
  /\ UNCHANGED <<toClient, sp, failed, pinged, gone>>

\* SendQueuedOpenNAT: what has been queued, as messages; the queue is empty then.
QueuedRequests(g) == [i \in DOMAIN queuedOpenNat[g] |-> Request(queuedOpenNat[g][i])]
NothingQueued(g) == queuedOpenNat' = [queuedOpenNat EXCEPT ![g] = <<>>]
SendQueuedOpenNAT(g) == Send(g, QueuedRequests(g)) /\ NothingQueued(g)

\* With one address there is no second port to compare with.  The first address
\* that is not the one g is connected to, even the only one, is pinged, with a
\* datagram, and neither that nor its answer need arrive.
ReceiveBoundAddresses(g, m) ==
  /\ m.id = "ID_NAT_RESPOND_BOUND_ADDRESSES"
  /\ IF m.count < 2
     THEN /\ SetStride(g, "INCAPABLE_PORT_STRIDE") /\ SendQueuedOpenNAT(g)
          /\ pinged' \in {pinged, pinged \cup {g}}
     ELSE pinged' = pinged \cup {g} /\ UNCHANGED <<hasPortStride, queuedOpenNat, toServer>>
  /\ UNCHANGED clientVars

\* ID_NAT_PONG, late or not.
OnPong(g) ==
  /\ g \in pinged
  /\ pinged' = pinged \ {g}
  /\ SetStride(g, "HAS_PORT_STRIDE")
  /\ SendQueuedOpenNAT(g)
  /\ ClientStep
  /\ UNCHANGED <<toClient, clientVars, gone, requests>>

\* Mutant: after five seconds the client only forgets that it is looking.
StrideTimesOutSilently(g) ==
  /\ hasPortStride[g] = "CALCULATING_PORT_STRIDE"
  /\ SetStride(g, "UNKNOWN_PORT_STRIDE")
  /\ ClientStep
  /\ UNCHANGED <<toServer, toClient, queuedOpenNat, clientVars, pinged, gone, requests>>

\* After five seconds the requests are sent all the same, and the next one
\* begins to look for the stride again.
StrideTimesOut(g) ==
  /\ hasPortStride[g] = "CALCULATING_PORT_STRIDE"
  /\ SendQueuedOpenNAT(g)
  /\ SetStride(g, "UNKNOWN_PORT_STRIDE")
  /\ ClientStep
  /\ UNCHANGED <<toClient, clientVars, pinged, gone, requests>>

ReceiveGetMostRecentPort(g, m) ==
  /\ m.id = "ID_NAT_GET_MOST_RECENT_PORT"
  /\ \E p \in Port :
       Send(g, <<[id |-> "ID_NAT_GET_MOST_RECENT_PORT",
                  session |-> m.session, port |-> p]>>)
  /\ UNCHANGED clientVars

\* Mutant: the client says it is ready for the next punch when this one begins.
ReceiveConnectThenReady(g, m) ==
  /\ m.id = "ID_NAT_CONNECT_AT_TIME"
  /\ sp' = [sp EXCEPT ![g] =
              [active |-> TRUE, session |-> m.session, target |-> m.peer,
               weAreSender |-> m.weAreSender, answered |-> FALSE]]
  /\ Send(g, <<Ready>>)
  /\ UNCHANGED <<failed, awaiting>>

ReceiveConnectAtTime(g, m) ==
  /\ m.id = "ID_NAT_CONNECT_AT_TIME"
  /\ sp' = [sp EXCEPT ![g] =
              [active |-> TRUE, session |-> m.session, target |-> m.peer,
               weAreSender |-> m.weAreSender, answered |-> FALSE]]
  /\ UNCHANGED <<toServer, failed, awaiting>>

ReceiveAlreadyInProgress(g, m) ==
  /\ m.id = "ID_NAT_ALREADY_IN_PROGRESS"
  /\ Outcome(g, m.peer)
  /\ UNCHANGED <<toServer, sp, failed>>

\* The message goes on to the application in any case.  Without a session to
\* compare, or with the session of the last punch, the punch is stopped, and
\* the facilitator is not told that the client is ready again.
StopsPunch(g, m) ==
  m.id = "ID_NAT_TARGET_NOT_CONNECTED" \/ m.session = sp[g].session

ReceiveFailure(g, m) ==
  /\ m.id \in {"ID_NAT_TARGET_NOT_CONNECTED", "ID_NAT_CONNECTION_TO_TARGET_LOST",
               "ID_NAT_TARGET_UNRESPONSIVE"}
  /\ Outcome(g, m.peer)
  /\ IF StopsPunch(g, m)
     THEN /\ sp' = [sp EXCEPT ![g].active = FALSE, ![g].answered = FALSE]
          /\ failed' = [failed EXCEPT ![g] = @ \ {m.peer}]
     ELSE UNCHANGED <<sp, failed>>
  /\ UNCHANGED toServer

ClientReceive(g) ==
  /\ g \notin gone
  /\ toClient[g] # <<>>
  /\ LET m == Head(toClient[g])
     IN \/ /\ \/ ReceiveGetMostRecentPort(g, m)
              \/ ReceiveConnectAtTime(g, m)
              \/ ReceiveAlreadyInProgress(g, m)
              \/ ReceiveFailure(g, m)
           /\ UNCHANGED <<hasPortStride, queuedOpenNat, pinged>>
        \/ ReceiveBoundAddresses(g, m)
  /\ toClient' = [toClient EXCEPT ![g] = Tail(@)]
  /\ ClientStep
  /\ UNCHANGED <<gone, requests>>

\* g and its target are in the same session.
PeerPunches(g) ==
  LET t == sp[g].target
  IN sp[t].active /\ sp[t].session = sp[g].session /\ sp[t].target = g

\* The target got a datagram of this punch, and answers it.
EstablishUnidirectional(g) ==
  /\ sp[g].active
  /\ ~sp[g].answered
  /\ PeerPunches(g)
  /\ sp' = [sp EXCEPT ![g].answered = TRUE]
  /\ ClientStep
  /\ UNCHANGED <<toServer, toClient, failed, awaiting, hasPortStride, queuedOpenNat, pinged, gone,
                 requests>>

\* The answer names the port it came from: a client that has no stride, and is
\* past the internal addresses, takes the difference for it.
EstimatesStride(g) ==
  /\ hasPortStride[g] # "HAS_PORT_STRIDE"
  /\ SetStride(g, "HAS_PORT_STRIDE")
  /\ NothingQueued(g)
  /\ Send(g, QueuedRequests(g) \o <<Ready>>)

\* The answer arrives: the punch has succeeded, and the target is answered.
EstablishBidirectional(g) ==
  LET t == sp[g].target
  IN /\ sp[g].active
     /\ sp[g].answered
     /\ sp' = [sp EXCEPT ![g].active = FALSE, ![g].answered = FALSE,
                         ![t].answered = @ \/ PeerPunches(g)]
     /\ failed' = [failed EXCEPT ![g] = @ \ {t}]
     /\ Outcome(g, t)
     /\ \/ Send(g, <<Ready>>) /\ UNCHANGED <<hasPortStride, queuedOpenNat>>
        \/ EstimatesStride(g)
     /\ ClientStep
     /\ UNCHANGED <<toClient, pinged, gone, requests>>

\* OnPunchthroughFailure: all ports of the punch were tried in vain.
Stopped(g) == [sp EXCEPT ![g].active = FALSE, ![g].answered = FALSE]
Retries(g) == g \in Retrying /\ sp[g].target \notin failed[g]

Fail(g) ==
  LET t == sp[g].target
  IN /\ ~Retries(g)
     /\ sp' = Stopped(g)
     /\ Outcome(g, t)
     /\ failed' = [failed EXCEPT ![g] = IF g \in Retrying THEN @ \ {t} ELSE @]
     /\ Send(g, <<Ready>>)

\* Without the facilitator the punch is not even stopped.
FailWithoutFacilitator(g) ==
  /\ Retries(g)
  /\ g \in gone
  /\ Outcome(g, sp[g].target)
  /\ UNCHANGED <<sp, failed, toServer>>

\* The sender asks again; its peer only says that it is ready.
RetryMessages(g) ==
  IF sp[g].weAreSender THEN <<Ready, Request(sp[g].target)>> ELSE <<Ready>>

Retry(g) ==
  /\ Retries(g)
  /\ g \notin gone
  /\ sp' = Stopped(g)
  /\ failed' = [failed EXCEPT ![g] = @ \cup {sp[g].target}]
  /\ Send(g, RetryMessages(g))
  /\ UNCHANGED awaiting

PunchTimesOut(g) ==
  /\ sp[g].active
  /\ Fail(g) \/ FailWithoutFacilitator(g) \/ Retry(g)
  /\ ClientStep
  /\ UNCHANGED <<toClient, hasPortStride, queuedOpenNat, pinged, gone, requests>>

\* Client g loses the facilitator.  A client that has lost it need not get
\* the outcome of its requests (NatPunchthroughClient.h, OpenNAT).
LoseFacilitator(g) ==
  /\ MayLeave
  /\ g \in users \ gone
  /\ requests + Cardinality(gone) < MaxRequests
  /\ gone' = gone \cup {g}
  /\ awaiting' = [awaiting EXCEPT ![g] = {}]
  /\ failed' = [failed EXCEPT ![g] = IF sp[g].active THEN @ \cap {sp[g].target} ELSE {}]
  /\ ClientStep
  /\ UNCHANGED <<toServer, toClient, sp, hasPortStride, queuedOpenNat, pinged, requests>>

-----------------------------------------------------------------------------
(* Specification *)

\* Everyone is connected when the applications start.  The code leaves
\* sp.sessionId uninitialised; before the first punch it can only stop a punch
\* that does not run and shorten an empty failure list, so 0 stands for any.
NetInit ==
  /\ users = Guid
  /\ isReady = [g \in Guid |-> TRUE]
  /\ mostRecentPort = [g \in Guid |-> 0]
  /\ connectionAttempts = [g \in Guid |-> <<>>]
  /\ attempts = [ca \in {} |-> <<>>]
  /\ sessionId = 0
  /\ closing = {} /\ toVisit = {} /\ toStart = <<>> /\ sent = <<>>
  /\ toServer = [g \in Guid |-> <<>>]
  /\ toClient = [g \in Guid |-> <<>>]
  /\ sp = [g \in Guid |-> [active |-> FALSE, session |-> 0, target |-> g,
                           weAreSender |-> FALSE, answered |-> FALSE]]
  /\ failed = [g \in Guid |-> {}]
  /\ awaiting = [g \in Guid |-> {}]
  /\ \E probing \in Probing :
       /\ hasPortStride = [g \in Guid |-> IF g \in probing THEN "UNKNOWN_PORT_STRIDE"
                                          ELSE "HAS_PORT_STRIDE"]
       /\ requests = Cardinality(probing)
  /\ queuedOpenNat = [g \in Guid |-> <<>>]
  /\ pinged = {} /\ boundAddressCount = 0
  /\ gone = {}
  /\ late = 0
  /\ reportedFor = [g \in Guid |-> -1]

NetNext ==
  \/ \E g \in Guid : \/ ServerReceive(g) \/ ServerRespondsBoundAddresses(g)
                     \/ ServerNoticesLoss(g)
  \/ ServerContinue \/ ServerUpdate \/ TenSecondsPass
  \/ \E g, r \in Guid : OpenNAT(g, r)
  \/ \E g \in Guid : \/ ClientReceive(g) \/ EstablishUnidirectional(g)
                     \/ EstablishBidirectional(g) \/ PunchTimesOut(g)
                     \/ LoseFacilitator(g) \/ OnPong(g) \/ StrideTimesOut(g)

NetSpec == NetInit /\ [][NetNext]_allVars

\* Both ends poll their queues and their timers in every Update; nothing makes
\* a datagram arrive, an application ask, a connection break or time out.
NetFairness ==
  /\ WF_allVars(ServerContinue)
  /\ WF_allVars(ServerUpdate)
  /\ \A g \in Guid : /\ WF_allVars(ServerReceive(g))
                     /\ WF_allVars(ServerRespondsBoundAddresses(g))
                     /\ WF_allVars(StrideTimesOut(g))
                     /\ WF_allVars(ServerNoticesLoss(g))
                     /\ WF_allVars(ClientReceive(g))
                     /\ WF_allVars(PunchTimesOut(g))

FairNetSpec == NetSpec /\ NetFairness

-----------------------------------------------------------------------------
(* Properties *)

NetTypeOK ==
  /\ toServer \in [Guid -> Seq(ToServerMessage)]
  /\ toClient \in [Guid -> Seq(Message \cup BoundAddresses)]
  /\ sp \in [Guid -> Ping]
  /\ failed \in [Guid -> SUBSET Guid]
  /\ awaiting \in [Guid -> SUBSET Guid]
  /\ hasPortStride \in [Guid -> PortStride] /\ queuedOpenNat \in [Guid -> Seq(Guid)]
  /\ pinged \subseteq Guid /\ boundAddressCount \in Sockets \cup {0}
  /\ gone \subseteq Guid
  /\ reportedFor \in [Guid -> Session \cup {-1}]

InQueue(queue, id) == \E m \in ToSet(queue) : m.id = id

\* A user takes part in at most one attempt that is in progress, whatever
\* ready notices, timeouts and disconnections are under way.
OneAttemptInProgressPerUser ==
  \A c1, c2 \in DOMAIN attempts : \A g \in users :
    InProgress(c1) /\ InProgress(c2) /\ Involves(c1, g) /\ Involves(c2, g) => c1 = c2

\* The facilitator never tells a client to start a punch while the client
\* still runs another one: the assertion nextActionTime==0 at the head of
\* OnConnectAtTime, commented out in the code.
ConnectFindsIdle ==
  \A g \in Guid :
    sp[g].active => ~InQueue(toClient[g], "ID_NAT_CONNECT_AT_TIME")

\* The facilitator's isReady is false only for a reason that will pass: the
\* user has an attempt in progress, a punch to start, a punch to finish, or a
\* ready notice under way.  Only while no client leaves.
NotReadyMeansBusy ==
  gone = {} => \A g \in users : ~isReady[g] =>
    \/ \E ca \in DOMAIN attempts : InProgress(ca) /\ Involves(ca, g)
    \/ InQueue(toClient[g], "ID_NAT_CONNECT_AT_TIME")
    \/ sp[g].active
    \/ InQueue(toServer[g], "ID_NAT_CLIENT_READY")

\* What the facilitator believes of its users and what they do agree: a user is
\* in one attempt at most, is told to punch only when it is idle, and is passed
\* over (isReady) only while it is busy.
UsersAndClientsAgree ==
  NetTypeOK /\ OneAttemptInProgressPerUser /\ ConnectFindsIdle /\ NotReadyMeansBusy

\* Nothing is under way: no message, no lost connection to notice, no attempt
\* in progress, no punch, no time limit that runs.
Quiet ==
  /\ Idle
  /\ users \cap gone = {}
  /\ \A g \in Guid :
       /\ toServer[g] = <<>> /\ toClient[g] = <<>> /\ ~sp[g].active
       /\ hasPortStride[g] # "CALCULATING_PORT_STRIDE"
  /\ \A ca \in DOMAIN attempts : ~InProgress(ca)

\* "You will get ID_NAT_PUNCHTHROUGH_SUCCEEDED on success.  You will get
\* ID_NAT_TARGET_NOT_CONNECTED, ... or ID_NAT_PUNCHTHROUGH_FAILED on failures"
\* (OpenNAT, for a client that keeps its connection): when everything has come
\* to rest no application still waits for the outcome of a request.  The code
\* does not keep this when a target is lost, see RefusedWhilePunching.
NoForgottenRequest == Quiet => \A g \in Guid \ gone : awaiting[g] = {}

\* As long as nobody loses the facilitator, it holds.
NoRequestForgottenWhileConnected == gone = {} => NoForgottenRequest

\* A request is refused, for its target is not connected, while its client
\* punches, and so stops that punch, whoever it is for.  Nobody hears of that: a
\* request that waits for this punch, or for this client, waits for ever.
RefusedWhilePunching(g) ==
  /\ sp[g].active
  /\ toClient[g] # <<>>
  /\ Head(toClient[g]).id = "ID_NAT_TARGET_NOT_CONNECTED"

\* Under fair scheduling every request gets its outcome, also when others are
\* lost or lose the facilitator, unless some client is refused one request while
\* it punches for another.
RequestsGetOutcomes ==
  [](\A g \in Guid : ~RefusedWhilePunching(g)) =>
    \A g \in Guid : \A r \in Guid \ {g} : r \in awaiting[g] ~> r \notin awaiting[g]

\* "Write sessionID so we don't use returned port for a system we don't want":
\* the port a client is told to punch was reported by its peer for the session
\* of this very attempt.
PortsAreOfThisSession ==
  [][\A i \in 1 .. Len(sent') : sent'[i].id = "ID_NAT_CONNECT_AT_TIME" =>
       reportedFor'[sent'[i].peer] = sent'[i].session]_allVars

-----------------------------------------------------------------------------
(* The inductive invariant: what these properties rest on. *)

InAttempt(g) == \E ca \in DOMAIN attempts : InProgress(ca) /\ Involves(ca, g)

\* A queue has no two messages with this identifier.
AtMostOne(queue, id) ==
  \A i, j \in 1 .. Len(queue) : queue[i].id = id /\ queue[j].id = id => i = j

\* The turn of g is at one place: with the facilitator, where g is ready or in
\* an attempt in progress, on its way to g, with g, or on its way back.
OneTurn(g) ==
  LET told == InQueue(toClient[g], "ID_NAT_CONNECT_AT_TIME")
      done == InQueue(toServer[g], "ID_NAT_CLIENT_READY")
  IN /\ \A c1, c2 \in DOMAIN attempts :
          InProgress(c1) /\ InProgress(c2) /\ Involves(c1, g) /\ Involves(c2, g) => c1 = c2
     /\ AtMostOne(toClient[g], "ID_NAT_CONNECT_AT_TIME")
     /\ AtMostOne(toServer[g], "ID_NAT_CLIENT_READY")
     /\ isReady[g] => ~InAttempt(g) /\ ~told /\ ~sp[g].active /\ ~done
     /\ InAttempt(g) => ~told /\ ~sp[g].active /\ ~done
     /\ told => ~sp[g].active /\ ~done
     /\ sp[g].active => ~done

\* News that an attempt has timed out comes before the next punch is begun.
NewsFirst(queue) ==
  \A i, j \in 1 .. Len(queue) :
    /\ queue[i].id = "ID_NAT_CONNECT_AT_TIME"
    /\ queue[j].id = "ID_NAT_TARGET_UNRESPONSIVE"
    => j < i

NewsBeforePunch(g) ==
  /\ NewsFirst(toClient[g])
  /\ sp[g].active => ~InQueue(toClient[g], "ID_NAT_TARGET_UNRESPONSIVE")

\* No client asks for itself, or is told to punch to itself.
NotItself(g) ==
  /\ \A m \in ToSet(toServer[g]) : m.id = "ID_NAT_PUNCHTHROUGH_REQUEST" => m.peer # g
  /\ \A m \in ToSet(toClient[g]) : m.id = "ID_NAT_CONNECT_AT_TIME" => m.peer # g
  /\ g \notin ToSet(queuedOpenNat[g])
  /\ sp[g].active => sp[g].target # g

\* Requests are queued only while the port stride is looked for.
QueuesWhileCalculating(g) ==
  queuedOpenNat[g] # <<>> => hasPortStride[g] = "CALCULATING_PORT_STRIDE"

ClientGood(g) ==
  OneTurn(g) /\ NewsBeforePunch(g) /\ NotItself(g) /\ QueuesWhileCalculating(g)

Failure == {"ID_NAT_ALREADY_IN_PROGRESS", "ID_NAT_TARGET_NOT_CONNECTED",
            "ID_NAT_CONNECTION_TO_TARGET_LOST", "ID_NAT_TARGET_UNRESPONSIVE"}

\* Message m is the outcome of a request for r, or begins the punch it asks for.
Concerns(m, r) ==
  \/ m.id \in Failure /\ m.peer = r
  \/ m.id = "ID_NAT_CONNECT_AT_TIME" /\ m.peer = r /\ m.weAreSender

\* Where the request of g to be connected to r is while all are connected.
UnderWay(g, r) ==
  \/ r \in ToSet(queuedOpenNat[g])
  \/ Request(r) \in ToSet(toServer[g])
  \/ \E ca \in DOMAIN attempts : attempts[ca].sender = g /\ attempts[ca].recipient = r
  \/ \E m \in ToSet(toClient[g]) : Concerns(m, r)
  \/ sp[g].active /\ sp[g].weAreSender /\ sp[g].target = r

Busy(g) ==
  \/ InAttempt(g)
  \/ InQueue(toClient[g], "ID_NAT_CONNECT_AT_TIME")
  \/ sp[g].active
  \/ InQueue(toServer[g], "ID_NAT_CLIENT_READY")

LossNews == {"ID_NAT_TARGET_NOT_CONNECTED", "ID_NAT_CONNECTION_TO_TARGET_LOST"}

\* What is so as long as nobody has lost the facilitator.
AttendedTo(g) ==
  /\ \A m \in ToSet(toClient[g]) : m.id \notin LossNews
  /\ \A r \in awaiting[g] : UnderWay(g, r)
  /\ isReady[g] \/ Busy(g)

OverdueIsInProgress == \A ca \in DOMAIN attempts : attempts[ca].overdue => InProgress(ca)

NetIInv ==
  /\ IInv
  /\ NetTypeOK
  /\ OverdueIsInProgress
  /\ \A g \in Guid : ClientGood(g)
  /\ gone = {} => closing = {} /\ users = Guid /\ \A g \in Guid : AttendedTo(g)

=============================================================================
