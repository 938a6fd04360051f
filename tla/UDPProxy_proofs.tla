--------------------------- MODULE UDPProxy_proofs ---------------------------
(***************************************************************************)
(* What holds of UDPProxy for every set of systems, every scenario and     *)
(* whatever is lost: the coordinator is the one of UDPProxyCoordinator,    *)
(* whose theorems hold here, and its servers agree with it.                *)
(***************************************************************************)
EXTENDS UDPProxy, UDPProxyCoordinator_proofs

-----------------------------------------------------------------------------
(* Queues *)

LEMMA AppendHas ==
  ASSUME NEW S, NEW queue \in Seq(S), NEW m \in S, NEW ids
  PROVE  LET long == Append(queue, m)
         IN /\ long \in Seq(S)
            /\ Has(long, ids) <=> Has(queue, ids) \/ m.id \in ids
            /\ HasOne(queue, ids) /\ ~(Has(queue, ids) /\ m.id \in ids) => HasOne(long, ids)
            /\ SuccessFirst(queue) /\ (m.id \in ForwardRequest => Has(queue, LoginSuccess))
                 => SuccessFirst(long)
<1> DEFINE n == Len(queue)
           long == Append(queue, m)
<1>1. /\ n \in Nat /\ Len(long) = n + 1 /\ long \in Seq(S) /\ long[n + 1] = m
      /\ \A i \in 1 .. n : long[i] = queue[i]
  OBVIOUS
<1>2. \A i \in 1 .. n + 1 : i \in 1 .. n \/ i = n + 1
  BY <1>1
<1>3. 1 .. n \subseteq 1 .. n + 1 /\ n + 1 \in 1 .. n + 1
  BY <1>1
<1> HIDE DEF long, n
<1>4. Has(long, ids) <=> Has(queue, ids) \/ m.id \in ids
  BY <1>1, <1>2, <1>3 DEF Has, n
<1>5. HasOne(queue, ids) /\ ~(Has(queue, ids) /\ m.id \in ids) => HasOne(long, ids)
  BY <1>1, <1>2 DEF Has, HasOne, n
<1>6. ASSUME SuccessFirst(queue), m.id \in ForwardRequest => Has(queue, LoginSuccess)
      PROVE  SuccessFirst(long)
  <2>1. ASSUME NEW i \in 1 .. n + 1, long[i].id \in ForwardRequest
        PROVE  \E j \in 1 .. i - 1 : long[j].id \in LoginSuccess
    <3>1. CASE i \in 1 .. n
      <4>1. PICK j \in 1 .. i - 1 : queue[j].id \in LoginSuccess
        BY <1>1, <1>6, <2>1, <3>1 DEF SuccessFirst, n
      <4>. QED BY <1>1, <4>1, <3>1
    <3>2. CASE i = n + 1
      <4>1. PICK j \in 1 .. n : queue[j].id \in LoginSuccess
        BY <1>1, <1>6, <2>1, <3>2 DEF Has, n
      <4>. QED BY <1>1, <4>1, <3>2
    <3>. QED BY <1>2, <3>1, <3>2
  <2>. QED BY <1>1, <2>1 DEF SuccessFirst
<1>. QED BY <1>1, <1>4, <1>5, <1>6 DEF long

LEMMA TailHas ==
  ASSUME NEW S, NEW queue \in Seq(S), queue # <<>>, NEW ids
  PROVE  LET m == Head(queue) rest == Tail(queue)
         IN /\ m \in S /\ rest \in Seq(S)
            /\ Has(queue, ids) <=> m.id \in ids \/ Has(rest, ids)
            /\ HasOne(queue, ids) => HasOne(rest, ids) /\ ~(m.id \in ids /\ Has(rest, ids))
            /\ SuccessFirst(queue) /\ m.id \notin LoginSuccess => SuccessFirst(rest)
            /\ SuccessFirst(queue) => m.id \notin ForwardRequest
<1> DEFINE n == Len(queue)
           m == Head(queue)
           rest == Tail(queue)
<1>1. /\ n \in Nat /\ n > 0 /\ Len(rest) = n - 1 /\ rest \in Seq(S) /\ queue[1] = m /\ m \in S
      /\ \A i \in 1 .. n - 1 : rest[i] = queue[i + 1]
  OBVIOUS
<1>2. \A i \in 1 .. n : i = 1 \/ i - 1 \in 1 .. n - 1
  BY <1>1
<1>3. 1 \in 1 .. n /\ \A i \in 1 .. n - 1 : i + 1 \in 1 .. n /\ i + 1 # 1
  BY <1>1
<1>4. \A i \in 1 .. n : i = 1 \/ queue[i] = rest[i - 1]
  <2>1. \A i \in 1 .. n : (i - 1) + 1 = i
    BY <1>1
  <2>. QED BY <1>1, <1>2, <2>1
<1> HIDE DEF rest, n, m
<1>5. Has(queue, ids) <=> m.id \in ids \/ Has(rest, ids)
  <2>1. ASSUME NEW i \in 1 .. n, queue[i].id \in ids PROVE m.id \in ids \/ Has(rest, ids)
    BY <1>1, <1>2, <1>4, <2>1 DEF Has
  <2>2. ASSUME m.id \in ids \/ Has(rest, ids) PROVE Has(queue, ids)
    BY <1>1, <1>3, <2>2 DEF Has, n
  <2>. QED BY <2>1, <2>2 DEF Has, n
<1>6. ASSUME HasOne(queue, ids) PROVE HasOne(rest, ids) /\ ~(m.id \in ids /\ Has(rest, ids))
  <2>1. ASSUME NEW i \in 1 .. n - 1, NEW j \in 1 .. n - 1, rest[i].id \in ids, rest[j].id \in ids
        PROVE  i = j
    <3>1. i + 1 = j + 1
      BY <1>1, <1>3, <1>6, <2>1 DEF HasOne, n
    <3>. QED BY <3>1
  <2>2. ASSUME NEW i \in 1 .. n - 1, rest[i].id \in ids, m.id \in ids PROVE FALSE
    BY <1>1, <1>3, <1>6, <2>2 DEF HasOne, n
  <2>. QED BY <1>1, <2>1, <2>2 DEF HasOne, Has
<1>7. ASSUME SuccessFirst(queue), m.id \notin LoginSuccess PROVE SuccessFirst(rest)
  <2>1. ASSUME NEW i \in 1 .. n - 1, rest[i].id \in ForwardRequest
        PROVE  \E j \in 1 .. i - 1 : rest[j].id \in LoginSuccess
    <3>1. PICK j \in 1 .. (i + 1) - 1 : queue[j].id \in LoginSuccess
      BY <1>1, <1>3, <1>7, <2>1 DEF SuccessFirst, n
    <3>2. j # 1 /\ j \in 1 .. n
      BY <1>1, <1>7, <3>1
    <3>3. j - 1 \in 1 .. i - 1 /\ queue[j] = rest[j - 1]
      BY <1>1, <1>4, <3>1, <3>2
    <3>. QED BY <3>1, <3>3
  <2>. QED BY <1>1, <2>1 DEF SuccessFirst
<1>8. SuccessFirst(queue) => m.id \notin ForwardRequest
  <2>1. 1 .. 1 - 1 = {}
    OBVIOUS
  <2>. QED BY <1>1, <1>3, <2>1 DEF SuccessFirst, n
<1>. QED BY <1>1, <1>5, <1>6, <1>7, <1>8 DEF rest, m

-----------------------------------------------------------------------------
(* The coordinator *)

LEMMA MessageKinds ==
  ASSUME NEW m \in Message
  PROVE  /\ m.id \in Answer \cup ForwardRequest => m.pair \in Pair
         /\ m.id = "ID_UDP_PROXY_PING_SERVERS_FROM_COORDINATOR_TO_CLIENT" =>
              m.pair \in Pair /\ m.servers \in Seq(Server)
<1>1. CASE m \in [to : Client, pair : Pair, id : Answer \cup {"ID_UDP_PROXY_FORWARDING_NOTIFICATION"}]
  BY <1>1 DEF Answer, ForwardRequest
<1>2. CASE m \in [to : Client, pair : Pair, servers : Seq(Server),
                 id : {"ID_UDP_PROXY_PING_SERVERS_FROM_COORDINATOR_TO_CLIENT"}]
  BY <1>2
<1>3. CASE m \in [to : Server, pair : Pair,
                 id : {"ID_UDP_PROXY_FORWARDING_REQUEST_FROM_COORDINATOR_TO_SERVER"}]
  BY <1>3
<1>4. CASE m \in [to : Server, id : LoginAnswer]
  BY <1>4 DEF LoginAnswer, Answer, ForwardRequest
<1>. QED BY <1>1, <1>2, <1>3, <1>4 DEF Message

LEMMA ToCoordinatorKinds ==
  ASSUME NEW m \in ToCoordinatorMessage
  PROVE  /\ m.id = "ID_UDP_PROXY_FORWARDING_REQUEST_FROM_CLIENT_TO_COORDINATOR" =>
              m.pair \in Pair /\ m.byGuid \in BOOLEAN
         /\ m.id = "ID_UDP_PROXY_FORWARDING_REPLY_FROM_SERVER_TO_COORDINATOR" =>
              m.pair \in Pair /\ m.result \in UDPForwarderResult
         /\ m.id = "ID_UDP_PROXY_PING_SERVERS_REPLY_FROM_CLIENT_TO_COORDINATOR" =>
              m.reply \in Seq(ServerWithPing)
BY DEF ToCoordinatorMessage

\* The steps of the coordinator, here: those it takes alone, those that leave
\* it, and those in which it only collects pings or drops a message.
CollectsOrDrops ==
  /\ sent' = <<>> /\ UNCHANGED <<connected, serverList, requests, closing, toVisit>>
  /\ PingsTypeOK => PingsTypeOK'

CoordinatorStep == Next \/ UNCHANGED vars \/ CollectsOrDrops

LEMMA ReceivesIsStep ==
  ASSUME ProxyIInv, NEW a \in Address, CoordinatorReceives(a)
  PROVE  Next \/ CollectsOrDrops
<1> DEFINE m == Head(toCoordinator[a])
<1>1. toCoordinator[a] \in Seq(ToCoordinatorMessage) /\ toCoordinator[a] # <<>>
  BY DEF ProxyIInv, NetworkTypeOK, CoordinatorReceives
<1>2. m \in ToCoordinatorMessage /\ SentBy(a, m)
  <2>1. m = toCoordinator[a][1] /\ 1 \in 1 .. Len(toCoordinator[a])
    BY <1>1
  <2>. QED BY <1>1, <2>1 DEF ProxyIInv
<1> HIDE DEF m
<1>3. CASE /\ m.id = "ID_UDP_PROXY_FORWARDING_REQUEST_FROM_CLIENT_TO_COORDINATOR"
           /\ OnForwardingRequest(a, m.pair, m.byGuid)
  <2>1. m.pair \in Pair /\ m.byGuid \in BOOLEAN
    BY <1>2, <1>3, ToCoordinatorKinds
  <2>2. <<a, m.pair[1], m.pair[2]>> \in Ask /\ m.pair = <<m.pair[1], m.pair[2]>>
    BY <1>2, <1>3, <2>1 DEF SentBy, Pair
  <2> DEFINE ask == <<a, m.pair[1], m.pair[2]>>
  <2>3. OnForwardingRequest(ask[1], <<ask[2], ask[3]>>, m.byGuid)
    BY <1>3, <2>2
  <2>. QED BY <2>1, <2>2, <2>3 DEF Next
<1>4. CASE /\ m.id = "ID_UDP_PROXY_PING_SERVERS_REPLY_FROM_CLIENT_TO_COORDINATOR"
           /\ OnPingServersReply(a, m.pair, m.reply)
  <2>1. m.reply \in Seq(ServerWithPing)
    BY <1>2, <1>4, ToCoordinatorKinds
  <2>2. PingsTypeOK => PingsTypeOK'
    BY <1>4, <2>1, ReplyTyped
  <2>. QED BY <1>4, <2>2 DEF OnPingServersReply, CollectsOrDrops, pcVars
<1>5. CASE /\ m.id = "ID_UDP_PROXY_LOGIN_REQUEST_FROM_SERVER_TO_COORDINATOR"
           /\ \E id \in LoginAnswer : OnLoginRequest(a, id)
  BY <1>2, <1>5 DEF SentBy, Next
<1>6. CASE /\ m.id = "ID_UDP_PROXY_FORWARDING_REPLY_FROM_SERVER_TO_COORDINATOR"
           /\ OnForwardingReply(a, m.pair, m.result)
  <2>1. a \in Server /\ m.pair \in Pair /\ m.result \in UDPForwarderResult
    BY <1>2, <1>6, ToCoordinatorKinds DEF SentBy
  <2>. QED BY <1>6, <2>1 DEF Next
<1>7. CASE /\ sent' = <<>>
           /\ UNCHANGED <<connected, serverList, requests, sourcePings, pcVars>>
  BY <1>7 DEF CollectsOrDrops, PingsTypeOK, pcVars
<1>. QED BY <1>3, <1>4, <1>5, <1>6, <1>7 DEF CoordinatorReceives, m

LEMMA ProxyStepIsStep ==
  ASSUME ProxyIInv, [ProxyNext]_allVars PROVE CoordinatorStep
<1>1. CASE UNCHANGED allVars
  BY <1>1 DEF allVars, vars, CoordinatorStep
<1>2. ASSUME NEW a \in Address, Join(a) \/ CoordinatorLoses(a) PROVE CoordinatorStep
  BY <1>2 DEF Join, CoordinatorLoses, CoordinatorStep, Next
<1>3. ASSUME NEW a \in Address, SystemLoses(a) PROVE CoordinatorStep
  BY <1>3 DEF SystemLoses, CoordinatorStep
<1>4. ASSUME NEW a \in Address, CoordinatorReceives(a) PROVE CoordinatorStep
  BY <1>4, ReceivesIsStep DEF CoordinatorStep
<1>5. CASE CoordinatorLoops
  BY <1>5 DEF CoordinatorLoops, CoordinatorStep, Next
<1>6. ASSUME NEW p \in Pair, CoordinatorUpdates(p) PROVE CoordinatorStep
  BY <1>6 DEF CoordinatorUpdates, CoordinatorStep, Next
<1>7. ASSUME NEW v \in Server, LoginToCoordinator(v) \/ ServerReceives(v) \/ ForwardTimesOut(v)
      PROVE  CoordinatorStep
  BY <1>7 DEF LoginToCoordinator, ServerReceives, ForwardTimesOut, NothingFromCoordinator,
              CoordinatorStep
<1>8. ASSUME NEW ask \in Ask, NEW byGuid \in ByGuid,
             RequestForwarding(ask[1], <<ask[2], ask[3]>>, byGuid)
      PROVE  CoordinatorStep
  BY <1>8 DEF RequestForwarding, NothingFromCoordinator, CoordinatorStep
<1>9. ASSUME NEW c \in Client,
             \/ ClientReceives(c) \/ GroupTimesOut(c)
             \/ \E v \in Server, ping \in Ping \ {Unresponsive} : OnPong(c, v, ping)
      PROVE  CoordinatorStep
  BY <1>9 DEF ClientReceives, GroupTimesOut, OnPong, NothingFromCoordinator, CoordinatorStep
<1>. QED BY <1>1, <1>2, <1>3, <1>4, <1>5, <1>6, <1>7, <1>8, <1>9 DEF ProxyNext

LEMMA StepKeepsIInv ==
  ASSUME IInv, CoordinatorStep PROVE IInv'
<1>1. CASE Next \/ UNCHANGED vars
  BY <1>1, NextInv
<1>2. CASE CollectsOrDrops
  <2>1. sent' \in Seq(Message)
    BY <1>2 DEF CollectsOrDrops
  <2>. QED BY <1>2, <2>1 DEF CollectsOrDrops, IInv, TypeOK, ServersAreConnected, OneForwardPerPair,
              RequestersAreConnected, NoServerAskedTwice, OneHandler, LoggedIn
<1>. QED BY <1>1, <1>2 DEF CoordinatorStep

\* A step sends no answer to a login, and no more than two messages.
Quiet == Len(sent') <= 2 /\ \A i \in 1 .. Len(sent') : sent'[i].id \notin LoginAnswer

LEMMA OneIsQuiet ==
  ASSUME NEW m, sent' = <<m>>, m.id \notin LoginAnswer PROVE Quiet
BY DEF Quiet

LEMMA TwoAreQuiet ==
  ASSUME NEW m, NEW n, sent' = <<m, n>>, m.id \notin LoginAnswer, n.id \notin LoginAnswer
  PROVE  Quiet
BY DEF Quiet

LEMMA TryNextServerIsQuiet ==
  ASSUME NEW p, NEW fw, TryNextServer(p, fw) PROVE Quiet
BY OneIsQuiet DEF TryNextServer, TryServer, GiveUp, SendForwardingRequest, ToRequester, LoginAnswer

LEMMA NothingIsQuiet ==
  ASSUME sent' = <<>> PROVE Quiet
BY DEF Quiet

LEMMA RequestsAreQuiet ==
  ASSUME NEW c, NEW p, NEW byGuid, OnForwardingRequest(c, p, byGuid) PROVE Quiet
<1>1. ASSUME NEW why, why \notin LoginAnswer, Refuse(c, p, why) PROVE Quiet
  BY <1>1, OneIsQuiet DEF Refuse
<1>2. ASSUME Accept(c, p) PROVE Quiet
  <2>1. CASE SendForwardingRequest(serverList[1], p)
    BY <2>1, OneIsQuiet DEF SendForwardingRequest, LoginAnswer
  <2> DEFINE ping(to) == [to |-> to, pair |-> p, servers |-> serverList,
                          id |-> "ID_UDP_PROXY_PING_SERVERS_FROM_COORDINATOR_TO_CLIENT"]
  <2>2. CASE sent' = <<ping(p[1]), ping(p[2])>>
    BY <2>2, TwoAreQuiet DEF LoginAnswer
  <2>. QED BY <1>2, <2>1, <2>2 DEF Accept
<1>. QED BY <1>1, <1>2 DEF OnForwardingRequest, LoginAnswer

LEMMA RepliesAreQuiet ==
  ASSUME NEW v, NEW p, NEW result, OnForwardingReply(v, p, result) PROVE Quiet
<1>1. ASSUME Succeed(p) PROVE Quiet
  BY <1>1, TwoAreQuiet DEF Succeed, ToRequester, LoginAnswer
<1>2. ASSUME EndInProgress(p) PROVE Quiet
  BY <1>2, OneIsQuiet DEF EndInProgress, ToRequester, LoginAnswer
<1>. QED BY <1>1, <1>2, TryNextServerIsQuiet DEF OnForwardingReply

LEMMA NextIsQuiet ==
  ASSUME Next
  PROVE  Quiet \/ \E v \in Server, id \in LoginAnswer : OnLoginRequest(v, id)
<1>1. ASSUME NEW a \in Address, Connect(a) \/ OnClosedConnection(a) PROVE Quiet
  BY NothingIsQuiet, <1>1 DEF Connect, OnClosedConnection
<1>2. CASE VisitRequest
  BY NothingIsQuiet, <1>2, TryNextServerIsQuiet DEF VisitRequest
<1>3. CASE RemoveServer
  BY NothingIsQuiet, <1>3 DEF RemoveServer
<1>4. ASSUME NEW a, NEW p, NEW reply, OnPingServersReply(a, p, reply) PROVE Quiet
  BY NothingIsQuiet, <1>4 DEF OnPingServersReply
<1>5. ASSUME NEW p, PingsTimeOut(p) \/ ForgetSuccess(p) PROVE Quiet
  BY NothingIsQuiet, <1>5, TryNextServerIsQuiet DEF PingsTimeOut, ForgetSuccess
<1>. QED BY <1>1, <1>2, <1>3, <1>4, <1>5, RequestsAreQuiet, RepliesAreQuiet DEF Next

LEMMA StepSendsFew ==
  ASSUME CoordinatorStep, Len(sent) <= 2 PROVE Len(sent') <= 2
<1>1. CASE Next
  <2>1. ASSUME NEW v \in Server, NEW id \in LoginAnswer, OnLoginRequest(v, id) PROVE Len(sent') <= 2
    <3>1. sent' = <<[to |-> v, id |-> id]>>
      BY <2>1 DEF OnLoginRequest
    <3>. QED BY <3>1
  <2>. QED BY <1>1, <2>1, NextIsQuiet DEF Quiet
<1>2. CASE UNCHANGED vars \/ CollectsOrDrops
  BY <1>2 DEF vars, CollectsOrDrops
<1>. QED BY <1>1, <1>2 DEF CoordinatorStep

-----------------------------------------------------------------------------
(* What is put into the queues *)

\* A system sends something: a message that is its own to send is added to its
\* queue, or dropped.
LEMMA SendFacts ==
  ASSUME ProxyIInv, NEW a \in Address, NEW m \in ToCoordinatorMessage, SentBy(a, m),
         SendToCoordinator(a, m), UNCHANGED connected
  PROVE  /\ toCoordinator' \in [Address -> Seq(ToCoordinatorMessage)]
         /\ \A b \in Address : \A i \in 1 .. Len(toCoordinator'[b]) : SentBy(b, toCoordinator'[b][i])
         /\ \A b \in Address \ connected' : toCoordinator'[b] = <<>>
         /\ \A b \in Address \ {a} : toCoordinator'[b] = toCoordinator[b]
         /\ toCoordinator'[a] = IF a \in joined \cap connected
                               THEN Append(toCoordinator[a], m) ELSE toCoordinator[a]
<1>1. /\ toCoordinator \in [Address -> Seq(ToCoordinatorMessage)]
      /\ \A b \in Address : \A i \in 1 .. Len(toCoordinator[b]) : SentBy(b, toCoordinator[b][i])
      /\ \A b \in Address \ connected : toCoordinator[b] = <<>>
  BY DEF ProxyIInv, NetworkTypeOK, LossesForget
<1>2. CASE a \in joined \cap connected
  <2>1. /\ toCoordinator' \in [Address -> Seq(ToCoordinatorMessage)]
        /\ toCoordinator'[a] = Append(toCoordinator[a], m)
        /\ \A b \in Address \ {a} : toCoordinator'[b] = toCoordinator[b]
    BY <1>1, <1>2 DEF SendToCoordinator
  <2>2. ASSUME NEW i \in 1 .. Len(toCoordinator'[a]) PROVE SentBy(a, toCoordinator'[a][i])
    <3>1. \/ i \in 1 .. Len(toCoordinator[a]) /\ toCoordinator'[a][i] = toCoordinator[a][i]
          \/ toCoordinator'[a][i] = m
      BY <1>1, <2>1, <2>2
    <3>. QED BY <1>1, <3>1
  <2>. QED BY <1>1, <1>2, <2>1, <2>2
<1>3. CASE a \notin joined \cap connected
  BY <1>1, <1>3 DEF SendToCoordinator
<1>. QED BY <1>2, <1>3

\* The coordinator reads a queue.
LEMMA ConsumeFacts ==
  ASSUME ProxyIInv, NEW a \in Address, toCoordinator[a] # <<>>, Consume(a), UNCHANGED connected
  PROVE  /\ toCoordinator' \in [Address -> Seq(ToCoordinatorMessage)]
         /\ \A b \in Address : \A i \in 1 .. Len(toCoordinator'[b]) : SentBy(b, toCoordinator'[b][i])
         /\ \A b \in Address \ connected' : toCoordinator'[b] = <<>>
         /\ \A b \in Address \ {a} : toCoordinator'[b] = toCoordinator[b]
         /\ toCoordinator'[a] = Tail(toCoordinator[a])
<1>1. /\ toCoordinator \in [Address -> Seq(ToCoordinatorMessage)]
      /\ \A b \in Address : \A i \in 1 .. Len(toCoordinator[b]) : SentBy(b, toCoordinator[b][i])
      /\ \A b \in Address \ connected : toCoordinator[b] = <<>>
  BY DEF ProxyIInv, NetworkTypeOK, LossesForget
<1>2. /\ toCoordinator' \in [Address -> Seq(ToCoordinatorMessage)]
      /\ toCoordinator'[a] = Tail(toCoordinator[a])
      /\ \A b \in Address \ {a} : toCoordinator'[b] = toCoordinator[b]
  BY <1>1 DEF Consume
<1>3. ASSUME NEW i \in 1 .. Len(toCoordinator'[a]) PROVE SentBy(a, toCoordinator'[a][i])
  <2>1. i + 1 \in 1 .. Len(toCoordinator[a]) /\ toCoordinator'[a][i] = toCoordinator[a][i + 1]
    BY <1>1, <1>2, <1>3
  <2>. QED BY <1>1, <2>1
<1>. QED BY <1>1, <1>2, <1>3

LEMMA DeliverFacts ==
  ASSUME ProxyIInv, sent' \in Seq(Message), Deliver, UNCHANGED <<connected, joined>>
  PROVE  /\ toSystem' \in [Address -> Seq(Message)]
         /\ \A a \in Address \ joined' : toSystem'[a] = <<>>
<1>1. toSystem \in [Address -> Seq(Message)] /\ \A a \in Address \ joined : toSystem[a] = <<>>
  BY DEF ProxyIInv, NetworkTypeOK, LossesForget
<1>2. ASSUME NEW a \in Address, NEW i, NEW queue \in Seq(Message)
      PROVE  /\ Received(a, i, queue) \in Seq(Message)
             /\ a \notin joined => Received(a, i, queue) = queue
  BY <1>2 DEF Received
<1>. QED BY <1>1, <1>2 DEF Deliver

-----------------------------------------------------------------------------
(* Types, senders and losses *)

NetworkGood ==
  /\ NetworkTypeOK
  /\ \A a \in Address : \A i \in 1 .. Len(toCoordinator[a]) : SentBy(a, toCoordinator[a][i])
  /\ LossesForget

LEMMA ClientsAndServers ==
  Client \subseteq Address /\ Server \subseteq Address
BY DEF Address

\* Steps of the coordinator that deliver what it sends.
LEMMA DeliverKeepsNetwork ==
  ASSUME ProxyIInv, sent' \in Seq(Message), Deliver,
         UNCHANGED <<connected, joined, serverVars, clientVars>>,
         \/ UNCHANGED toCoordinator
         \/ \E a \in Address : toCoordinator[a] # <<>> /\ Consume(a)
  PROVE  NetworkGood'
<1>1. /\ toSystem' \in [Address -> Seq(Message)]
      /\ \A a \in Address \ joined' : toSystem'[a] = <<>>
  BY DeliverFacts
<1>2. /\ toCoordinator' \in [Address -> Seq(ToCoordinatorMessage)]
      /\ \A b \in Address : \A i \in 1 .. Len(toCoordinator'[b]) : SentBy(b, toCoordinator'[b][i])
      /\ \A b \in Address \ connected' : toCoordinator'[b] = <<>>
  <2>1. CASE UNCHANGED toCoordinator
    BY <2>1 DEF ProxyIInv, NetworkTypeOK, LossesForget
  <2>2. ASSUME NEW a \in Address, toCoordinator[a] # <<>>, Consume(a) PROVE <1>2!1 /\ <1>2!2 /\ <1>2!3
    BY <2>2, ConsumeFacts
  <2>. QED BY <2>1, <2>2
<1>. QED BY <1>1, <1>2 DEF ProxyIInv, NetworkGood, NetworkTypeOK, LossesForget, serverVars, clientVars

\* Steps of servers and clients that send something.
LEMMA SendKeepsNetwork ==
  ASSUME ProxyIInv, NEW a \in Address, NEW m \in ToCoordinatorMessage, SentBy(a, m),
         SendToCoordinator(a, m), UNCHANGED <<connected, joined>>,
         toSystem' \in [Address -> Seq(Message)],
         \A b \in Address : toSystem[b] = <<>> => toSystem'[b] = <<>>,
         loggingIn' \cup loggedIn' \subseteq Server \cap joined,
         forwards' \in [Server -> SUBSET {Link(p) : p \in Pair}],
         pingServerGroups' \in [Client -> Seq(PingServerGroup)],
         pending' \subseteq Client \X Pair
  PROVE  NetworkGood'
<1>1. /\ toCoordinator' \in [Address -> Seq(ToCoordinatorMessage)]
      /\ \A b \in Address : \A i \in 1 .. Len(toCoordinator'[b]) : SentBy(b, toCoordinator'[b][i])
      /\ \A b \in Address \ connected' : toCoordinator'[b] = <<>>
  BY SendFacts
<1>. QED BY <1>1 DEF ProxyIInv, NetworkGood, NetworkTypeOK, LossesForget

LEMMA TypesOfGroups ==
  /\ \A c \in Client : ProxyIInv => pingServerGroups[c] \in Seq(PingServerGroup)
  /\ \A psg \in PingServerGroup :
       [id |-> "ID_UDP_PROXY_PING_SERVERS_REPLY_FROM_CLIENT_TO_COORDINATOR",
        pair |-> psg.sata, reply |-> psg.serversToPing] \in ToCoordinatorMessage
BY DEF ProxyIInv, NetworkTypeOK, PingServerGroup, ToCoordinatorMessage

LEMMA ServersKeepNetwork ==
  ASSUME ProxyIInv, NEW v \in Server,
         LoginToCoordinator(v) \/ ServerReceives(v) \/ ForwardTimesOut(v)
  PROVE  NetworkGood'
<1>1. /\ toSystem \in [Address -> Seq(Message)] /\ v \in Address
      /\ loggingIn \cup loggedIn \subseteq Server \cap joined
      /\ forwards \in [Server -> SUBSET {Link(p) : p \in Pair}]
      /\ pingServerGroups \in [Client -> Seq(PingServerGroup)]
      /\ pending \subseteq Client \X Pair
      /\ NetworkGood
  BY ClientsAndServers DEF ProxyIInv, NetworkTypeOK, LossesForget, NetworkGood
<1>2. CASE LoginToCoordinator(v)
  <2> DEFINE m == [id |-> "ID_UDP_PROXY_LOGIN_REQUEST_FROM_SERVER_TO_COORDINATOR"]
  <2>1. m \in ToCoordinatorMessage /\ SentBy(v, m)
    BY DEF ToCoordinatorMessage, SentBy
  <2>2. /\ SendToCoordinator(v, m) /\ UNCHANGED <<connected, joined, toSystem, forwards>>
        /\ UNCHANGED <<pingServerGroups, pending>>
        /\ loggingIn' \cup loggedIn' \subseteq Server \cap joined
    BY <1>1, <1>2 DEF LoginToCoordinator, NothingFromCoordinator, vars, clientVars
  <2> HIDE DEF m
  <2>. QED BY <1>1, <2>1, <2>2, SendKeepsNetwork
<1>3. CASE ServerReceives(v)
  <2> DEFINE m == Head(toSystem[v])
  <2>1. toSystem[v] # <<>> /\ m \in Message /\ v \in joined
    BY <1>1, <1>3 DEF ServerReceives, ProxyIInv, LossesForget
  <2>2. /\ toSystem' = [toSystem EXCEPT ![v] = Tail(@)]
        /\ UNCHANGED <<connected, joined, pingServerGroups, pending>>
    BY <1>3 DEF ServerReceives, vars, clientVars
  <2>3. /\ toSystem' \in [Address -> Seq(Message)]
        /\ \A b \in Address : toSystem[b] = <<>> => toSystem'[b] = <<>>
    BY <1>1, <2>1, <2>2
  <2>4. CASE m.id \in LoginAnswer /\ OnLoginAnswer(v, m.id) /\ UNCHANGED <<toCoordinator, forwards>>
    BY <1>1, <2>1, <2>2, <2>3, <2>4 DEF OnLoginAnswer, NetworkGood, NetworkTypeOK, LossesForget
  <2>5. CASE /\ m.id = "ID_UDP_PROXY_FORWARDING_REQUEST_FROM_COORDINATOR_TO_SERVER"
             /\ OnForwardingRequestFromCoordinatorToServer(v, m.pair)
             /\ UNCHANGED <<loggingIn, loggedIn>>
    <3>1. m.pair \in Pair
      BY <2>1, <2>5, MessageKinds DEF ForwardRequest
    <3>2. PICK result \in StartForwarding(v, m.pair) :
            /\ forwards' = IF result = "UDPFORWARDER_SUCCESS"
                           THEN [forwards EXCEPT ![v] = @ \cup {Link(m.pair)}] ELSE forwards
            /\ SendToCoordinator(v,
                 [id |-> "ID_UDP_PROXY_FORWARDING_REPLY_FROM_SERVER_TO_COORDINATOR",
                  pair |-> m.pair, result |-> result])
      BY <2>5 DEF OnForwardingRequestFromCoordinatorToServer
    <3> DEFINE reply == [id |-> "ID_UDP_PROXY_FORWARDING_REPLY_FROM_SERVER_TO_COORDINATOR",
                         pair |-> m.pair, result |-> result]
    <3>3. result \in UDPForwarderResult
      BY DEF StartForwarding, UDPForwarderResult
    <3>4. reply \in ToCoordinatorMessage /\ SentBy(v, reply)
      BY <3>1, <3>3 DEF ToCoordinatorMessage, SentBy
    <3>5. forwards' \in [Server -> SUBSET {Link(p) : p \in Pair}]
      BY <1>1, <3>1, <3>2
    <3>6. SendToCoordinator(v, reply)
      BY <3>2
    <3> HIDE DEF reply, m
    <3>. QED BY <1>1, <2>2, <2>3, <2>5, <3>4, <3>5, <3>6, SendKeepsNetwork
  <2>. QED BY <1>3, <2>4, <2>5 DEF ServerReceives
<1>4. CASE ForwardTimesOut(v)
  <2>1. forwards' \in [Server -> SUBSET {Link(p) : p \in Pair}]
    BY <1>1, <1>4 DEF ForwardTimesOut
  <2>2. UNCHANGED <<connected, queues, joined, loggingIn, loggedIn, clientVars>>
    BY <1>4 DEF ForwardTimesOut, vars
  <2>. QED BY <1>1, <2>1, <2>2 DEF queues, clientVars, NetworkGood, NetworkTypeOK, LossesForget
<1>. QED BY <1>2, <1>3, <1>4

LEMMA RemoveAtType ==
  ASSUME NEW S, NEW list \in Seq(S), NEW i \in 1 .. Len(list) PROVE RemoveAt(list, i) \in Seq(S)
<1>1. /\ SubSeq(list, 1, i - 1) \in Seq(S) /\ SubSeq(list, i + 1, Len(list)) \in Seq(S)
  <2>1. Len(list) \in Nat /\ \A j \in 1 .. Len(list) : list[j] \in S
    OBVIOUS
  <2>2. \A j \in 1 .. i - 1 : list[j] \in S
    BY <2>1
  <2>3. \A j \in i + 1 .. Len(list) : list[j] \in S
    BY <2>1
  <2>. QED BY <2>1, <2>2, <2>3, SubSeqProperties
<1>. QED BY <1>1 DEF RemoveAt

LEMMA PongTypes ==
  ASSUME NEW psg \in PingServerGroup, NEW v, NEW ping \in Ping
  PROVE  [psg EXCEPT !.serversToPing =
            [i \in DOMAIN @ |-> IF @[i].serverAddress = v THEN [@[i] EXCEPT !.ping = ping] ELSE @[i]]]
           \in PingServerGroup
<1> DEFINE list == psg.serversToPing
           answered == [i \in DOMAIN list |-> IF list[i].serverAddress = v
                                             THEN [list[i] EXCEPT !.ping = ping] ELSE list[i]]
<1>1. list \in Seq(ServerWithPing) /\ psg.sata \in Pair
  BY DEF PingServerGroup
<1>2. ASSUME NEW x \in ServerWithPing PROVE [x EXCEPT !.ping = ping] \in ServerWithPing
  BY <1>2 DEF ServerWithPing
<1>3. answered \in Seq(ServerWithPing)
  <2>1. /\ Len(list) \in Nat /\ DOMAIN list = 1 .. Len(list)
        /\ \A i \in DOMAIN list : list[i] \in ServerWithPing
    BY <1>1
  <2>2. answered \in [1 .. Len(list) -> ServerWithPing]
    BY <1>2, <2>1
  <2>. QED BY <2>1, <2>2
<1> HIDE DEF answered
<1>4. [psg EXCEPT !.serversToPing = answered] \in PingServerGroup
  BY <1>1, <1>3 DEF PingServerGroup
<1>. QED BY <1>4 DEF answered

LEMMA ClientsKeepNetwork ==
  ASSUME ProxyIInv, NEW c \in Client,
         \/ ClientReceives(c) \/ GroupTimesOut(c)
         \/ \E v \in Server, ping \in Ping \ {Unresponsive} : OnPong(c, v, ping)
         \/ \E ask \in Ask, byGuid \in ByGuid :
              c = ask[1] /\ RequestForwarding(c, <<ask[2], ask[3]>>, byGuid)
  PROVE  NetworkGood'
<1>1. /\ toSystem \in [Address -> Seq(Message)] /\ c \in Address
      /\ loggingIn \cup loggedIn \subseteq Server \cap joined
      /\ forwards \in [Server -> SUBSET {Link(p) : p \in Pair}]
      /\ pingServerGroups \in [Client -> Seq(PingServerGroup)]
      /\ pending \subseteq Client \X Pair
      /\ NetworkGood
  BY ClientsAndServers DEF ProxyIInv, NetworkTypeOK, LossesForget, NetworkGood
<1>2. ASSUME NEW psg \in PingServerGroup, SendPingedServersToCoordinator(c, psg),
             UNCHANGED <<vars, toSystem, joined, serverVars, pending>>,
             pingServerGroups' \in [Client -> Seq(PingServerGroup)]
      PROVE  NetworkGood'
  <2> DEFINE m == [id |-> "ID_UDP_PROXY_PING_SERVERS_REPLY_FROM_CLIENT_TO_COORDINATOR",
                   pair |-> psg.sata, reply |-> psg.serversToPing]
  <2>1. m \in ToCoordinatorMessage /\ SentBy(c, m)
    BY TypesOfGroups DEF SentBy
  <2>2. SendToCoordinator(c, m)
    BY <1>2 DEF SendPingedServersToCoordinator
  <2>3. UNCHANGED <<connected, joined, toSystem, loggingIn, loggedIn, forwards, pending>>
    BY <1>2 DEF vars, serverVars
  <2> HIDE DEF m
  <2>. QED BY <1>1, <1>2, <2>1, <2>2, <2>3, SendKeepsNetwork
<1>3. CASE ClientReceives(c)
  <2> DEFINE m == Head(toSystem[c])
  <2>1. toSystem[c] # <<>> /\ m \in Message
    BY <1>1, <1>3 DEF ClientReceives
  <2>2. /\ toSystem' = [toSystem EXCEPT ![c] = Tail(@)]
        /\ UNCHANGED <<vars, toCoordinator, joined, serverVars>>
    BY <1>3 DEF ClientReceives
  <2>3. /\ toSystem' \in [Address -> Seq(Message)]
        /\ \A b \in Address : toSystem[b] = <<>> => toSystem'[b] = <<>>
    BY <1>1, <2>1, <2>2
  <2>4. pingServerGroups' \in [Client -> Seq(PingServerGroup)]
    <3>1. CASE /\ m.id = "ID_UDP_PROXY_PING_SERVERS_FROM_COORDINATOR_TO_CLIENT"
               /\ OnPingServers(c, m)
      <4> DEFINE list == [i \in DOMAIN m.servers |->
                            [serverAddress |-> m.servers[i], ping |-> Unresponsive]]
      <4>1. m.pair \in Pair /\ m.servers \in Seq(Server)
        BY <2>1, <3>1, MessageKinds
      <4>2. list \in Seq(ServerWithPing)
        <5>1. /\ Len(m.servers) \in Nat /\ DOMAIN m.servers = 1 .. Len(m.servers)
              /\ \A i \in DOMAIN m.servers : m.servers[i] \in Server
          BY <4>1
        <5>2. list \in [1 .. Len(m.servers) -> ServerWithPing]
          BY <5>1, UnresponsiveAssumption DEF ServerWithPing
        <5> HIDE DEF list, m
        <5>. QED BY <5>1, <5>2
      <4>3. pingServerGroups' = [pingServerGroups EXCEPT ![c] =
              Append(@, [sata |-> m.pair, serversToPing |-> list])]
        BY <3>1 DEF OnPingServers
      <4> HIDE DEF list, m
      <4>4. [sata |-> m.pair, serversToPing |-> list] \in PingServerGroup
        BY <4>1, <4>2 DEF PingServerGroup
      <4>. QED BY <1>1, <4>3, <4>4
    <3>2. CASE UNCHANGED pingServerGroups
      BY <1>1, <3>2
    <3>. QED BY <1>3, <3>1, <3>2 DEF ClientReceives
  <2>5. pending' \subseteq pending
    BY <1>3 DEF ClientReceives, OnPingServers
  <2>. QED BY <1>1, <2>2, <2>3, <2>4, <2>5 DEF NetworkGood, NetworkTypeOK, LossesForget,
                                            vars, serverVars
<1>4. CASE GroupTimesOut(c)
  <2>1. Head(pingServerGroups[c]) \in PingServerGroup
    BY <1>1, <1>4 DEF GroupTimesOut
  <2>2. pingServerGroups' \in [Client -> Seq(PingServerGroup)]
    BY <1>1, <1>4 DEF GroupTimesOut
  <2>. QED BY <1>2, <1>4, <2>1, <2>2 DEF GroupTimesOut, NothingFromCoordinator
<1>5. ASSUME NEW v \in Server, NEW ping \in Ping, OnPong(c, v, ping) PROVE NetworkGood'
  <2> DEFINE groups == pingServerGroups[c]
             answered(g) == [groups[g] EXCEPT !.serversToPing =
                               [i \in DOMAIN @ |-> IF @[i].serverAddress = v
                                                   THEN [@[i] EXCEPT !.ping = ping] ELSE @[i]]]
  <2>1. PICK g \in FirstGroupWith(c, v) :
          IF AreAllServersPinged(answered(g))
          THEN /\ SendPingedServersToCoordinator(c, answered(g))
               /\ pingServerGroups' = [pingServerGroups EXCEPT ![c] = RemoveAt(@, g)]
          ELSE /\ pingServerGroups' = [pingServerGroups EXCEPT ![c][g] = answered(g)]
               /\ UNCHANGED toCoordinator
    BY <1>5 DEF OnPong
  <2>2. groups \in Seq(PingServerGroup) /\ g \in 1 .. Len(groups)
    BY <1>1 DEF FirstGroupWith
  <2>3. answered(g) \in PingServerGroup
    <3> HIDE DEF groups
    <3>1. groups[g] \in PingServerGroup
      BY <2>2
    <3> DEFINE psg == groups[g]
    <3> HIDE DEF psg
    <3>2. [psg EXCEPT !.serversToPing =
            [i \in DOMAIN @ |-> IF @[i].serverAddress = v THEN [@[i] EXCEPT !.ping = ping] ELSE @[i]]]
             \in PingServerGroup
      BY <1>5, <3>1, PongTypes DEF psg
    <3>. QED BY <3>2 DEF psg
  <2>4. UNCHANGED <<vars, toSystem, joined, serverVars, pending>>
    BY <1>5 DEF OnPong, NothingFromCoordinator
  <2> HIDE DEF answered
  <2>5. CASE AreAllServersPinged(answered(g))
    <3>1. pingServerGroups' \in [Client -> Seq(PingServerGroup)]
      <4>1. pingServerGroups' = [pingServerGroups EXCEPT ![c] = RemoveAt(groups, g)]
        BY <2>1, <2>5
      <4>2. RemoveAt(groups, g) \in Seq(PingServerGroup)
        BY <2>2, RemoveAtType
      <4> HIDE DEF groups
      <4>. QED BY <1>1, <4>1, <4>2
    <3> DEFINE psg == answered(g)
    <3>2. psg \in PingServerGroup /\ SendPingedServersToCoordinator(c, psg)
      BY <2>1, <2>3, <2>5
    <3> HIDE DEF psg
    <3>. QED BY <1>2, <2>4, <3>1, <3>2
  <2>6. CASE ~AreAllServersPinged(answered(g))
    <3>1. pingServerGroups' = [pingServerGroups EXCEPT ![c] = [groups EXCEPT ![g] = answered(g)]]
      BY <1>1, <2>1, <2>6
    <3>2. [groups EXCEPT ![g] = answered(g)] \in Seq(PingServerGroup)
      BY <2>2, <2>3
    <3>3. pingServerGroups' \in [Client -> Seq(PingServerGroup)]
      BY <1>1, <3>1, <3>2
    <3>. QED BY <1>1, <2>1, <2>4, <2>6, <3>3 DEF NetworkGood, NetworkTypeOK, LossesForget, vars, serverVars
  <2>. QED BY <2>5, <2>6
<1>6. ASSUME NEW ask \in Ask, NEW byGuid \in ByGuid, c = ask[1],
             RequestForwarding(c, <<ask[2], ask[3]>>, byGuid)
      PROVE  NetworkGood'
  <2> DEFINE p == <<ask[2], ask[3]>>
             m == [id |-> "ID_UDP_PROXY_FORWARDING_REQUEST_FROM_CLIENT_TO_COORDINATOR",
                   pair |-> p, byGuid |-> byGuid]
  <2>1. p \in Pair /\ byGuid \in BOOLEAN /\ <<c, p[1], p[2]>> = ask
    BY <1>6, AskAssumption, ByGuidAssumption DEF Pair
  <2>2. m \in ToCoordinatorMessage /\ SentBy(c, m)
    BY <2>1 DEF ToCoordinatorMessage, SentBy
  <2>3. SendToCoordinator(c, m) /\ pending' = pending \cup {<<c, p>>}
    BY <1>6 DEF RequestForwarding
  <2>4. UNCHANGED <<connected, joined, toSystem, loggingIn, loggedIn, forwards, pingServerGroups>>
    BY <1>6 DEF RequestForwarding, NothingFromCoordinator, vars, serverVars
  <2> HIDE DEF m, p
  <2>. QED BY <1>1, <2>1, <2>2, <2>3, <2>4, SendKeepsNetwork
<1>. QED BY <1>3, <1>4, <1>5, <1>6

\* What the coordinator does with a message, in its loop and in Update changes
\* no connection.
LEMMA CoordinatorLeaves ==
  ASSUME \/ \E a \in Address : CoordinatorReceives(a)
         \/ CoordinatorLoops
         \/ \E p \in Pair : CoordinatorUpdates(p)
  PROVE  /\ UNCHANGED <<connected, joined, serverVars, clientVars, left>>
         /\ Deliver
         /\ \/ UNCHANGED toCoordinator
            \/ \E a \in Address : toCoordinator[a] # <<>> /\ Consume(a)
<1>1. ASSUME NEW a \in Address, CoordinatorReceives(a) PROVE UNCHANGED connected
  BY <1>1 DEF CoordinatorReceives, OnForwardingRequest, OnPingServersReply, OnLoginRequest,
              OnForwardingReply
<1>2. ASSUME CoordinatorLoops PROVE UNCHANGED connected
  BY <1>2 DEF CoordinatorLoops, VisitRequest, RemoveServer
<1>3. ASSUME NEW p \in Pair, CoordinatorUpdates(p) PROVE UNCHANGED connected
  BY <1>3 DEF CoordinatorUpdates, PingsTimeOut, ForgetSuccess
<1>. QED BY <1>1, <1>2, <1>3 DEF CoordinatorReceives, CoordinatorLoops, CoordinatorUpdates

LEMMA ConnectionsKeepNetwork ==
  ASSUME ProxyIInv, NEW a \in Address, Join(a) \/ CoordinatorLoses(a) \/ SystemLoses(a)
  PROVE  NetworkGood'
<1>1. NetworkGood
  BY DEF ProxyIInv, NetworkGood
<1>2. CASE Join(a)
  <2>1. joined' = joined \cup {a} /\ connected' = connected \cup {a}
    BY <1>2 DEF Join, Connect
  <2>. QED BY <1>1, <1>2, <2>1 DEF Join, NetworkGood, NetworkTypeOK, LossesForget, queues, serverVars,
              clientVars
<1>3. CASE CoordinatorLoses(a)
  <2>1. connected' = connected \ {a} /\ toCoordinator' = [toCoordinator EXCEPT ![a] = <<>>]
    BY <1>3 DEF CoordinatorLoses, OnClosedConnection
  <2>2. toCoordinator' \in [Address -> Seq(ToCoordinatorMessage)]
    BY <1>1, <2>1 DEF NetworkGood, NetworkTypeOK
  <2>3. \A b \in Address : toCoordinator'[b] = IF b = a THEN <<>> ELSE toCoordinator[b]
    BY <1>1, <2>1 DEF NetworkGood, NetworkTypeOK
  <2>. QED BY <1>1, <1>3, <2>1, <2>2, <2>3 DEF CoordinatorLoses, NetworkGood, NetworkTypeOK,
              LossesForget, serverVars, clientVars
<1>4. CASE SystemLoses(a)
  <2>1. toSystem' \in [Address -> Seq(Message)] /\ toSystem'[a] = <<>>
        /\ \A b \in Address \ {a} : toSystem'[b] = toSystem[b]
    BY <1>1, <1>4 DEF SystemLoses, NetworkGood, NetworkTypeOK
  <2>2. /\ joined' = joined \ {a} /\ loggingIn' = loggingIn \ {a} /\ loggedIn' = loggedIn \ {a}
        /\ pending' \subseteq pending
        /\ UNCHANGED <<connected, toCoordinator, forwards, pingServerGroups>>
    BY <1>4 DEF SystemLoses, vars
  <2>. QED BY <1>1, <2>1, <2>2 DEF NetworkGood, NetworkTypeOK, LossesForget
<1>. QED BY <1>2, <1>3, <1>4

LEMMA NetworkStep ==
  ASSUME ProxyIInv, [ProxyNext]_allVars PROVE NetworkGood'
<1>1. sent' \in Seq(Message)
  BY ProxyStepIsStep, StepKeepsIInv DEF ProxyIInv, IInv, TypeOK
<1>2. ASSUME \/ \E a \in Address : CoordinatorReceives(a)
             \/ CoordinatorLoops
             \/ \E p \in Pair : CoordinatorUpdates(p)
      PROVE  NetworkGood'
  BY <1>1, <1>2, CoordinatorLeaves, DeliverKeepsNetwork
<1>3. ASSUME NEW ask \in Ask, NEW byGuid \in ByGuid,
             RequestForwarding(ask[1], <<ask[2], ask[3]>>, byGuid)
      PROVE  NetworkGood'
  <2>1. ask[1] \in Client
    BY AskAssumption
  <2>. QED BY <1>3, <2>1, ClientsKeepNetwork
<1>4. CASE UNCHANGED allVars
  <2>1. UNCHANGED <<toCoordinator, toSystem, joined, connected, loggingIn, loggedIn, forwards,
                    pingServerGroups, pending>>
    BY <1>4 DEF allVars, vars, queues, serverVars, clientVars
  <2>. QED BY <2>1 DEF ProxyIInv, NetworkGood, NetworkTypeOK, LossesForget
<1>. QED BY <1>2, <1>3, <1>4, ConnectionsKeepNetwork, ServersKeepNetwork, ClientsKeepNetwork
         DEF ProxyNext

-----------------------------------------------------------------------------
(* Logins *)

Already == {"ID_UDP_PROXY_ALREADY_LOGGED_IN_FROM_COORDINATOR_TO_SERVER"}

\* What LoginUnderWay and NoSecondLogin say of v.
LoginGood(v) == LoginUnderWay(v) /\ ~Has(toSystem[v], Already)

LEMMA LoginKinds ==
  /\ Already \subseteq LoginAnswer /\ LoginSuccess \subseteq LoginAnswer
  /\ Already \cap LoginSuccess = {} /\ ForwardRequest \cap LoginAnswer = {}
  /\ Answer \cap LoginAnswer = {} /\ Answer \cap ForwardRequest = {}
BY DEF Already, LoginAnswer, LoginSuccess, ForwardRequest, Answer

LEMMA HasMore ==
  ASSUME NEW queue, NEW ids, NEW more, ids \subseteq more, Has(queue, ids) PROVE Has(queue, more)
BY DEF Has

LEMMA LoginsAreGood ==
  LoginsUnderWay <=> loggingIn \cap loggedIn = {} /\ \A v \in Server : LoginGood(v)
BY DEF LoginsUnderWay, NoSecondLogin, LoginGood, Has, Already

\* A message that is no answer to a login comes to the queue of v.
LEMMA QuietReceived ==
  ASSUME NEW v, NEW queue \in Seq(Message), NEW i \in {1, 2}, sent' \in Seq(Message), Quiet, AsksLive,
         UNCHANGED connected,
         HasOne(queue, LoginAnswer), v \in loggedIn \/ SuccessFirst(queue),
         v \in joined \cap connected =>
           (v \in LoggedIn <=> v \in loggedIn \/ Has(queue, LoginSuccess))
  PROVE  LET more == Received(v, i, queue)
         IN /\ more \in Seq(Message)
            /\ HasOne(more, LoginAnswer)
            /\ Has(more, LoginAnswer) <=> Has(queue, LoginAnswer)
            /\ Has(more, LoginSuccess) <=> Has(queue, LoginSuccess)
            /\ Has(more, Already) <=> Has(queue, Already)
            /\ v \in loggedIn \/ SuccessFirst(more)
<1>1. CASE i \in DOMAIN sent' /\ sent'[i].to = v /\ v \in joined \cap connected
  <2> DEFINE m == sent'[i]
             more == Append(queue, m)
  <2>1. m \in Message /\ m.to = v /\ i \in 1 .. Len(sent')
    BY <1>1
  <2>2. m.id \notin LoginAnswer
    BY <2>1 DEF Quiet
  <2>3. m.id \in ForwardRequest => v \in LoggedIn
    BY <2>1 DEF AsksLive, ForwardRequest
  <2>4. Received(v, i, queue) = more
    BY <1>1 DEF Received
  <2> HIDE DEF m
  <2>5. m.id \notin LoginSuccess /\ m.id \notin Already
    BY <2>2, LoginKinds
  <2>6. /\ more \in Seq(Message)
        /\ HasOne(queue, LoginAnswer) => HasOne(more, LoginAnswer)
        /\ Has(more, LoginAnswer) <=> Has(queue, LoginAnswer)
        /\ SuccessFirst(queue) /\ (m.id \in ForwardRequest => Has(queue, LoginSuccess))
             => SuccessFirst(more)
    BY <2>1, <2>2, AppendHas
  <2>7. /\ Has(more, LoginSuccess) <=> Has(queue, LoginSuccess)
        /\ Has(more, Already) <=> Has(queue, Already)
    BY <2>1, <2>5, AppendHas
  <2> HIDE DEF more
  <2>. QED BY <1>1, <2>3, <2>4, <2>6, <2>7
<1>2. CASE ~(i \in DOMAIN sent' /\ sent'[i].to = v /\ v \in joined \cap connected)
  BY <1>2 DEF Received
<1>. QED BY <1>1, <1>2

LEMMA QuietDelivery ==
  ASSUME ProxyIInv, NEW v \in Server, Deliver, sent' \in Seq(Message), Quiet, AsksLive,
         UNCHANGED <<connected, joined, loggingIn, loggedIn>>,
         v \in connected => (v \in LoggedIn' <=> v \in LoggedIn),
         LoggedIn' \subseteq LoggedIn,
         HasOne(toCoordinator'[v], LoginRequest),
         Has(toCoordinator'[v], LoginRequest) => Has(toCoordinator[v], LoginRequest)
  PROVE  LoginGood(v)'
<1> DEFINE queue == toSystem[v]
           more == Received(v, 1, queue)
           all == Received(v, 2, more)
<1>1. queue \in Seq(Message) /\ toSystem'[v] = all
  BY ClientsAndServers DEF ProxyIInv, NetworkTypeOK, Deliver
<1>2. /\ LoginGood(v) /\ HasOne(queue, LoginAnswer)
      /\ v \in loggedIn \/ SuccessFirst(queue)
      /\ v \in joined \cap connected =>
           (v \in LoggedIn <=> v \in loggedIn \/ Has(queue, LoginSuccess))
  BY LoginsAreGood DEF ProxyIInv, LoginGood, LoginUnderWay
<1> HIDE DEF queue
<1>3. /\ more \in Seq(Message)
      /\ HasOne(more, LoginAnswer)
      /\ Has(more, LoginAnswer) <=> Has(queue, LoginAnswer)
      /\ Has(more, LoginSuccess) <=> Has(queue, LoginSuccess)
      /\ Has(more, Already) <=> Has(queue, Already)
      /\ v \in loggedIn \/ SuccessFirst(more)
  BY <1>1, <1>2, QuietReceived
<1> HIDE DEF more
<1>4. /\ HasOne(all, LoginAnswer)
      /\ Has(all, LoginAnswer) <=> Has(more, LoginAnswer)
      /\ Has(all, LoginSuccess) <=> Has(more, LoginSuccess)
      /\ Has(all, Already) <=> Has(more, Already)
      /\ v \in loggedIn \/ SuccessFirst(all)
  BY <1>2, <1>3, QuietReceived
<1> HIDE DEF all
<1>. QED BY <1>1, <1>2, <1>3, <1>4 DEF LoginGood, LoginUnderWay, queue

LEMMA StepAsksLive ==
  ASSUME IInv, CoordinatorStep, sent' = <<>> \/ Next PROVE AsksLive
<1>1. CASE sent' = <<>>
  BY <1>1 DEF AsksLive
<1>. QED BY <1>1, NextAsksLive

LEMMA QueuesTyped ==
  ASSUME ProxyIInv, NEW v \in Server
  PROVE  /\ v \in Address
         /\ toCoordinator[v] \in Seq(ToCoordinatorMessage) /\ toSystem[v] \in Seq(Message)
         /\ LoginGood(v) /\ HasOne(toCoordinator[v], LoginRequest)
         /\ v \in loggingIn => v \notin loggedIn
BY ClientsAndServers, LoginsAreGood DEF ProxyIInv, NetworkTypeOK, LoginGood, LoginUnderWay

\* The coordinator reads a message that is no login.
LEMMA OtherConsumed ==
  ASSUME ProxyIInv, NEW a \in Address, toCoordinator[a] # <<>>, Consume(a), UNCHANGED connected,
         NEW v \in Server
  PROVE  /\ HasOne(toCoordinator'[v], LoginRequest)
         /\ Has(toCoordinator'[v], LoginRequest) => Has(toCoordinator[v], LoginRequest)
<1>1. toCoordinator'[v] = IF v = a THEN Tail(toCoordinator[v]) ELSE toCoordinator[v]
  BY ConsumeFacts, QueuesTyped
<1>. QED BY <1>1, QueuesTyped, TailHas

LEMMA ListStays ==
  ASSUME ProxyIInv, RemoveServer
  PROVE  LoggedIn' \subseteq LoggedIn /\ \A v \in connected : v \in LoggedIn' <=> v \in LoggedIn
<1>1. serverList \in Seq(Server) /\ IsInjective(serverList) /\ closing \cap connected = {}
  BY DEF ProxyIInv, IInv, TypeOK, ServersAreConnected, OneHandler
<1>2. PICK i \in 1 .. Len(serverList) :
        serverList[i] \in closing /\ serverList' = RemoveAtIndexFast(serverList, i)
  BY DEF RemoveServer
<1>3. ToSet(serverList') = ToSet(serverList) \ {serverList[i]}
  BY <1>1, <1>2, RemoveAtIndexFastLeaves
<1>. QED BY <1>1, <1>2, <1>3 DEF LoggedIn

LEMMA CoordinatorKeepsLogins ==
  ASSUME ProxyIInv, NEW v \in Server,
         \/ \E a \in Address :
              /\ CoordinatorReceives(a)
              /\ ~ \E id \in LoginAnswer : OnLoginRequest(a, id)
         \/ CoordinatorLoops
         \/ \E p \in Pair : CoordinatorUpdates(p)
  PROVE  LoginGood(v)'
<1>1. /\ UNCHANGED <<connected, joined, loggingIn, loggedIn>>
      /\ Deliver
      /\ UNCHANGED toCoordinator \/ \E a \in Address : toCoordinator[a] # <<>> /\ Consume(a)
  BY CoordinatorLeaves DEF serverVars
<1>2. Next \/ CollectsOrDrops
  BY ReceivesIsStep DEF CoordinatorLoops, CoordinatorUpdates, Next
<1>3. sent' \in Seq(Message) /\ AsksLive
  <2>1. CoordinatorStep /\ IInv
    BY <1>2 DEF CoordinatorStep, ProxyIInv
  <2>. QED BY <1>2, <2>1, StepKeepsIInv, StepAsksLive DEF CollectsOrDrops, IInv, TypeOK
<1>4. /\ LoggedIn' \subseteq LoggedIn
      /\ v \in connected => (v \in LoggedIn' <=> v \in LoggedIn)
      /\ Quiet
  <2>1. CASE CoordinatorLoops
    <3>1. Quiet
      BY <2>1, TryNextServerIsQuiet, NothingIsQuiet DEF CoordinatorLoops, VisitRequest, RemoveServer
    <3>2. CASE VisitRequest
      BY <3>1, <3>2 DEF VisitRequest, LoggedIn
    <3>. QED BY <2>1, <3>1, <3>2, ListStays DEF CoordinatorLoops
  <2>2. ASSUME NEW p \in Pair, CoordinatorUpdates(p) PROVE <1>4!1 /\ <1>4!2 /\ <1>4!3
    <3>1. Quiet
      BY <2>2, TryNextServerIsQuiet, NothingIsQuiet DEF CoordinatorUpdates, PingsTimeOut, ForgetSuccess
    <3>2. UNCHANGED serverList
      BY <2>2 DEF CoordinatorUpdates, PingsTimeOut, ForgetSuccess
    <3>. QED BY <3>1, <3>2 DEF LoggedIn
  <2>3. ASSUME NEW a \in Address, CoordinatorReceives(a),
               ~ \E id \in LoginAnswer : OnLoginRequest(a, id)
        PROVE  <1>4!1 /\ <1>4!2 /\ <1>4!3
    <3>1. UNCHANGED serverList
      BY <2>3 DEF CoordinatorReceives, OnForwardingRequest, OnPingServersReply, OnForwardingReply
    <3>2. Quiet
      BY <2>3, NothingIsQuiet, RequestsAreQuiet, RepliesAreQuiet
         DEF CoordinatorReceives, OnPingServersReply
    <3>. QED BY <3>1, <3>2 DEF LoggedIn
  <2>. QED BY <2>1, <2>2, <2>3
<1>5. /\ HasOne(toCoordinator'[v], LoginRequest)
      /\ Has(toCoordinator'[v], LoginRequest) => Has(toCoordinator[v], LoginRequest)
  BY <1>1, OtherConsumed, QueuesTyped
<1>. QED BY <1>1, <1>3, <1>4, <1>5, QuietDelivery

\* The coordinator reads a login and answers it.
LEMMA LoginReadKeepsLogins ==
  ASSUME ProxyIInv, NEW v \in Server, NEW a \in Address, NEW id \in LoginAnswer,
         CoordinatorReceives(a), OnLoginRequest(a, id)
  PROVE  LoginGood(v)'
<1>1. /\ UNCHANGED <<connected, joined, loggingIn, loggedIn>>
      /\ Deliver /\ Consume(a) /\ toCoordinator[a] # <<>>
  BY CoordinatorLeaves DEF CoordinatorReceives, serverVars
<1>2. /\ sent' = <<[to |-> a, id |-> id]>> /\ a \in connected
      /\ id \in LoginSuccess => a \notin LoggedIn /\ serverList' = Append(serverList, a)
      /\ id \notin LoginSuccess => UNCHANGED serverList
      /\ id \in Already => a \in LoggedIn
  BY DEF OnLoginRequest, LoginSuccess, Already
<1> DEFINE m == Head(toCoordinator[a])
           answer == [to |-> a, id |-> id]
<1>3. m.id \in LoginRequest
  <2>1. ~Quiet
    <3>1. Len(sent') = 1 /\ sent'[1].id = id
      BY <1>2
    <3>. QED BY <3>1 DEF Quiet
  <2> HIDE DEF m
  <2>. QED BY <2>1, NothingIsQuiet, RequestsAreQuiet, RepliesAreQuiet
           DEF CoordinatorReceives, OnPingServersReply, LoginRequest, m
<1>4. a \in Server
  <2>1. m = toCoordinator[a][1] /\ 1 \in 1 .. Len(toCoordinator[a])
    BY <1>1 DEF ProxyIInv, NetworkTypeOK
  <2>2. SentBy(a, m)
    BY <2>1 DEF ProxyIInv
  <2> HIDE DEF m
  <2>. QED BY <1>3, <2>2 DEF SentBy, LoginRequest
<1>5. /\ LoginGood(a) /\ toSystem[a] \in Seq(Message)
      /\ a \in loggingIn => a \notin loggedIn
      /\ HasOne(toCoordinator[a], LoginRequest)
      /\ toCoordinator[a] \in Seq(ToCoordinatorMessage)
  BY <1>4, QueuesTyped
<1>6. /\ toCoordinator'[a] = Tail(toCoordinator[a])
      /\ \A b \in Address \ {a} : toCoordinator'[b] = toCoordinator[b]
  BY <1>1, ConsumeFacts
<1>7. /\ HasOne(toCoordinator'[a], LoginRequest) /\ ~Has(toCoordinator'[a], LoginRequest)
      /\ Has(toCoordinator[a], LoginRequest)
  BY <1>1, <1>3, <1>5, <1>6, TailHas
<1>8. /\ ~Has(toSystem[a], LoginAnswer) /\ a \notin LoggedIn
      /\ a \in joined => a \in loggingIn
  BY <1>5, <1>7 DEF LoginGood, LoginUnderWay
<1>9. LoggedIn' = IF id \in LoginSuccess THEN LoggedIn \cup {a} ELSE LoggedIn
  <2>1. CASE id \in LoginSuccess
    <3>1. serverList \in Seq(Server) /\ IsInjective(serverList)
      BY DEF ProxyIInv, IInv, TypeOK, ServersAreConnected
    <3>2. ToSet(Append(serverList, a)) = ToSet(serverList) \cup {a}
      BY <1>4, <1>8, <3>1, AppendFacts DEF LoggedIn
    <3>. QED BY <1>2, <2>1, <3>2 DEF LoggedIn
  <2>2. CASE id \notin LoginSuccess
    BY <1>2, <2>2 DEF LoggedIn
  <2>. QED BY <2>1, <2>2
<1>10. CASE v = a
  <2>1. answer.id = id /\ answer \in Message
    BY <1>4 DEF Message
  <2>2. id \notin Already /\ id \notin ForwardRequest
    BY <1>2, <1>8, LoginKinds
  <2>3. toSystem'[a] = IF a \in joined THEN Append(toSystem[a], answer) ELSE toSystem[a]
    <3>1. \A queue : /\ Received(a, 1, queue) = IF a \in joined THEN Append(queue, answer) ELSE queue
                     /\ Received(a, 2, queue) = queue
      BY <1>1, <1>2 DEF Received
    <3>. QED BY <1>1, <3>1 DEF Deliver
  <2> HIDE DEF answer
  <2>4. CASE a \in joined
    <3> DEFINE long == Append(toSystem[a], answer)
    <3>1. /\ ~Has(toSystem[a], LoginSuccess) /\ ~Has(toSystem[a], Already)
          /\ HasOne(toSystem[a], LoginAnswer) /\ a \notin loggedIn /\ SuccessFirst(toSystem[a])
      BY <1>5, <1>8, <2>4, HasMore, LoginKinds DEF LoginGood, LoginUnderWay
    <3>2. /\ HasOne(long, LoginAnswer) /\ SuccessFirst(long)
      BY <1>5, <1>8, <2>1, <2>2, <3>1, AppendHas
    <3>3. /\ Has(long, LoginSuccess) <=> id \in LoginSuccess
          /\ ~Has(long, Already)
      BY <1>5, <2>1, <2>2, <3>1, AppendHas
    <3>4. toSystem'[a] = long
      BY <2>3, <2>4
    <3> HIDE DEF long
    <3>. QED BY <1>1, <1>7, <1>8, <1>9, <1>10, <2>4, <3>1, <3>2, <3>3, <3>4 DEF LoginGood, LoginUnderWay
  <2>5. CASE a \notin joined
    <3>1. toSystem'[a] = toSystem[a]
      BY <2>3, <2>5
    <3>. QED BY <1>1, <1>5, <1>7, <1>10, <2>5, <3>1 DEF LoginGood, LoginUnderWay
  <2>. QED BY <2>4, <2>5
<1>11. CASE v # a
  <2>1. LoginGood(v) /\ v \in Address
    BY QueuesTyped
  <2>2. toSystem'[v] = toSystem[v]
    <3>1. \A queue : Received(v, 1, queue) = queue /\ Received(v, 2, queue) = queue
      BY <1>2, <1>11 DEF Received
    <3>. QED BY <1>1, <2>1, <3>1 DEF Deliver
  <2>3. v \in LoggedIn' <=> v \in LoggedIn
    BY <1>9, <1>11
  <2>4. toCoordinator'[v] = toCoordinator[v]
    BY <1>6, <1>11, <2>1
  <2>. QED BY <1>1, <2>1, <2>2, <2>3, <2>4 DEF LoginGood, LoginUnderWay
<1>. QED BY <1>10, <1>11

\* Connections come and go.
LEMMA ConnectionsKeepLogins ==
  ASSUME ProxyIInv, NEW v \in Server, NEW a \in Address,
         Join(a) \/ CoordinatorLoses(a) \/ SystemLoses(a)
  PROVE  LoginGood(v)'
<1>1. /\ LoginGood(v) /\ v \in Address
      /\ LossesForget /\ LoggedIn \subseteq connected \cup closing
      /\ toSystem \in [Address -> Seq(Message)]
      /\ toCoordinator \in [Address -> Seq(ToCoordinatorMessage)]
  BY QueuesTyped DEF ProxyIInv, IInv, ServersAreConnected, NetworkTypeOK
<1>2. \A ids : ~Has(<<>>, ids) /\ HasOne(<<>>, ids) /\ SuccessFirst(<<>>)
  BY DEF Has, HasOne, SuccessFirst
<1>3. CASE Join(a)
  <2>1. /\ connected' = connected \cup {a} /\ joined' = joined \cup {a}
        /\ a \notin connected /\ a \notin joined /\ closing = {}
        /\ UNCHANGED <<serverList, toSystem, toCoordinator, loggingIn, loggedIn>>
    BY <1>3 DEF Join, Connect, Idle, queues, serverVars
  <2>2. LoggedIn' = LoggedIn
    BY <2>1 DEF LoggedIn
  <2>3. CASE v = a
    <3>1. /\ v \notin loggingIn /\ v \notin loggedIn /\ v \notin LoggedIn
          /\ toSystem[v] = <<>> /\ toCoordinator[v] = <<>>
      BY <1>1, <2>1, <2>3 DEF LossesForget
    <3>. QED BY <1>2, <2>1, <2>2, <2>3, <3>1 DEF LoginGood, LoginUnderWay
  <2>4. CASE v # a
    BY <1>1, <2>1, <2>2, <2>4 DEF LoginGood, LoginUnderWay
  <2>. QED BY <2>3, <2>4
<1>4. CASE CoordinatorLoses(a)
  <2>1. /\ connected' = connected \ {a}
        /\ toCoordinator' = [toCoordinator EXCEPT ![a] = <<>>]
        /\ UNCHANGED <<serverList, toSystem, joined, loggingIn, loggedIn>>
    BY <1>4 DEF CoordinatorLoses, OnClosedConnection, serverVars
  <2>2. LoggedIn' = LoggedIn /\ toCoordinator'[v] = IF v = a THEN <<>> ELSE toCoordinator[v]
    BY <1>1, <2>1 DEF LoggedIn
  <2>3. CASE v = a
    BY <1>1, <1>2, <2>1, <2>2, <2>3 DEF LoginGood, LoginUnderWay
  <2>4. CASE v # a
    BY <1>1, <2>1, <2>2, <2>4 DEF LoginGood, LoginUnderWay
  <2>. QED BY <2>3, <2>4
<1>5. CASE SystemLoses(a)
  <2>1. /\ joined' = joined \ {a} /\ loggingIn' = loggingIn \ {a} /\ loggedIn' = loggedIn \ {a}
        /\ toSystem' = [toSystem EXCEPT ![a] = <<>>]
        /\ UNCHANGED <<connected, serverList, toCoordinator>>
    BY <1>5 DEF SystemLoses, vars
  <2>2. LoggedIn' = LoggedIn /\ toSystem'[v] = IF v = a THEN <<>> ELSE toSystem[v]
    BY <1>1, <2>1 DEF LoggedIn
  <2>3. CASE v = a
    BY <1>1, <1>2, <2>1, <2>2, <2>3 DEF LoginGood, LoginUnderWay
  <2>4. CASE v # a
    BY <1>1, <2>1, <2>2, <2>4 DEF LoginGood, LoginUnderWay
  <2>. QED BY <2>3, <2>4
<1>. QED BY <1>3, <1>4, <1>5

\* Steps of servers and clients that change nothing about the logins of v, but
\* may send something else to the coordinator, or read something else.
LEMMA OthersKeepLogins ==
  ASSUME ProxyIInv, NEW v \in Server, UNCHANGED <<connected, serverList, joined>>,
         v \in loggingIn' <=> v \in loggingIn, v \in loggedIn' <=> v \in loggedIn,
         \/ UNCHANGED toCoordinator
         \/ \E a \in Address : \E m \in ToCoordinatorMessage :
              SentBy(a, m) /\ m.id \notin LoginRequest /\ SendToCoordinator(a, m),
         \/ toSystem'[v] = toSystem[v]
         \/ /\ toSystem[v] # <<>> /\ toSystem'[v] = Tail(toSystem[v])
            /\ Head(toSystem[v]).id \notin LoginAnswer
  PROVE  LoginGood(v)'
<1>1. /\ LoginGood(v) /\ toSystem[v] \in Seq(Message)
      /\ toCoordinator[v] \in Seq(ToCoordinatorMessage) /\ v \in Address
  BY QueuesTyped
<1>2. /\ HasOne(toCoordinator[v], LoginRequest) => HasOne(toCoordinator'[v], LoginRequest)
      /\ Has(toCoordinator'[v], LoginRequest) <=> Has(toCoordinator[v], LoginRequest)
  <2>1. CASE toCoordinator'[v] = toCoordinator[v]
    BY <2>1
  <2>2. ASSUME NEW m \in ToCoordinatorMessage, m.id \notin LoginRequest,
               toCoordinator'[v] = Append(toCoordinator[v], m)
        PROVE  /\ HasOne(toCoordinator[v], LoginRequest) => HasOne(toCoordinator'[v], LoginRequest)
               /\ Has(toCoordinator'[v], LoginRequest) <=> Has(toCoordinator[v], LoginRequest)
    <3> DEFINE long == Append(toCoordinator[v], m)
    <3>1. /\ Has(long, LoginRequest) <=> Has(toCoordinator[v], LoginRequest) \/ m.id \in LoginRequest
          /\ HasOne(toCoordinator[v], LoginRequest)
                /\ ~(Has(toCoordinator[v], LoginRequest) /\ m.id \in LoginRequest)
             => HasOne(long, LoginRequest)
      BY <1>1, AppendHas
    <3> HIDE DEF long
    <3>2. toCoordinator'[v] = long
      BY <2>2 DEF long
    <3>. QED BY <2>2, <3>1, <3>2
  <2>3. ASSUME NEW a \in Address, NEW m \in ToCoordinatorMessage, SentBy(a, m),
               m.id \notin LoginRequest, SendToCoordinator(a, m)
        PROVE  \/ toCoordinator'[v] = toCoordinator[v]
               \/ toCoordinator'[v] = Append(toCoordinator[v], m)
    BY <1>1, <2>3, SendFacts
  <2>. QED BY <2>1, <2>2, <2>3
<1>3. /\ HasOne(toSystem[v], LoginAnswer) => HasOne(toSystem'[v], LoginAnswer)
      /\ Has(toSystem'[v], LoginAnswer) <=> Has(toSystem[v], LoginAnswer)
      /\ Has(toSystem'[v], LoginSuccess) <=> Has(toSystem[v], LoginSuccess)
      /\ Has(toSystem'[v], Already) <=> Has(toSystem[v], Already)
      /\ SuccessFirst(toSystem[v]) => SuccessFirst(toSystem'[v])
  <2> DEFINE m == Head(toSystem[v])
             rest == Tail(toSystem[v])
  <2>1. CASE toSystem[v] # <<>> /\ toSystem'[v] = rest /\ m.id \notin LoginAnswer
    <3>1. m.id \notin LoginSuccess /\ m.id \notin Already
      BY <2>1, LoginKinds
    <3>2. /\ HasOne(toSystem[v], LoginAnswer) => HasOne(rest, LoginAnswer)
          /\ Has(rest, LoginAnswer) <=> Has(toSystem[v], LoginAnswer)
          /\ SuccessFirst(toSystem[v]) => SuccessFirst(rest)
      BY <1>1, <2>1, <3>1, TailHas
    <3>3. /\ Has(rest, LoginSuccess) <=> Has(toSystem[v], LoginSuccess)
          /\ Has(rest, Already) <=> Has(toSystem[v], Already)
      BY <1>1, <2>1, <3>1, TailHas
    <3> HIDE DEF rest, m
    <3>. QED BY <2>1, <3>2, <3>3
  <2>2. CASE toSystem'[v] = toSystem[v]
    BY <2>2
  <2>. QED BY <2>1, <2>2
<1>. QED BY <1>1, <1>2, <1>3 DEF LoginGood, LoginUnderWay, LoggedIn

LEMMA LoginKeepsLogins ==
  ASSUME ProxyIInv, NEW v \in Server, NEW w \in Server, LoginToCoordinator(w)
  PROVE  LoginGood(v)'
<1> DEFINE m == [id |-> "ID_UDP_PROXY_LOGIN_REQUEST_FROM_SERVER_TO_COORDINATOR"]
<1>1. /\ UNCHANGED <<connected, serverList, joined, toSystem, loggedIn>>
      /\ w \in joined /\ w \notin loggingIn /\ w \notin loggedIn
      /\ loggingIn' = loggingIn \cup {w} /\ SendToCoordinator(w, m)
  BY DEF LoginToCoordinator, MayLogIn, NothingFromCoordinator, vars
<1>2. /\ m \in ToCoordinatorMessage /\ SentBy(w, m) /\ m.id \in LoginRequest
      /\ w \in Address
  BY ClientsAndServers DEF ToCoordinatorMessage, SentBy, LoginRequest
<1> HIDE DEF m
<1>3. LoggedIn' = LoggedIn
  BY <1>1 DEF LoggedIn
<1>4. /\ \A b \in Address \ {w} : toCoordinator'[b] = toCoordinator[b]
      /\ toCoordinator'[w] = IF w \in joined \cap connected
                            THEN Append(toCoordinator[w], m) ELSE toCoordinator[w]
  BY <1>1, <1>2, SendFacts
<1>5. CASE v = w
  <2>1. /\ LoginGood(w) /\ toCoordinator[w] \in Seq(ToCoordinatorMessage)
        /\ HasOne(toCoordinator[w], LoginRequest)
    BY QueuesTyped
  <2>2. ~Has(toCoordinator[w], LoginRequest) /\ ~Has(toSystem[w], LoginAnswer)
    BY <1>1, <2>1 DEF LoginGood, LoginUnderWay
  <2>3. ~Has(toSystem[w], LoginSuccess)
    BY <2>2, HasMore, LoginKinds
  <2>4. w \in connected => w \notin LoggedIn
    BY <1>1, <2>1, <2>3 DEF LoginGood, LoginUnderWay
  <2>5. HasOne(toCoordinator'[w], LoginRequest)
    BY <1>2, <1>4, <2>1, <2>2, AppendHas
  <2>6. Has(toCoordinator'[w], LoginRequest) => w \in connected
    BY <1>4, <2>2
  <2>. QED BY <1>1, <1>3, <1>5, <2>1, <2>2, <2>3, <2>4, <2>5, <2>6 DEF LoginGood, LoginUnderWay
<1>6. CASE v # w
  <2>1. LoginGood(v) /\ v \in Address
    BY QueuesTyped
  <2>2. toCoordinator'[v] = toCoordinator[v]
    BY <1>4, <1>6, <2>1
  <2>. QED BY <1>1, <1>3, <1>6, <2>1, <2>2 DEF LoginGood, LoginUnderWay
<1>. QED BY <1>5, <1>6

LEMMA AnswerKeepsLogins ==
  ASSUME ProxyIInv, NEW v \in Server, NEW w \in Server, toSystem[w] # <<>>,
         Head(toSystem[w]).id \in LoginAnswer, OnLoginAnswer(w, Head(toSystem[w]).id),
         toSystem' = [toSystem EXCEPT ![w] = Tail(@)],
         UNCHANGED <<connected, serverList, joined, toCoordinator>>
  PROVE  LoginGood(v)'
<1> DEFINE m == Head(toSystem[w])
           rest == Tail(toSystem[w])
<1>1. /\ LoginGood(w) /\ LoginGood(v) /\ toSystem[w] \in Seq(Message)
      /\ w \in loggingIn => w \notin loggedIn
      /\ toSystem \in [Address -> Seq(Message)] /\ v \in Address /\ w \in Address
      /\ LossesForget
  BY QueuesTyped DEF ProxyIInv, NetworkTypeOK
<1>2. LoggedIn' = LoggedIn
  BY DEF LoggedIn
<1>3. Has(toSystem[w], LoginAnswer) /\ w \in joined
  BY <1>1, TailHas DEF LossesForget
<1>4. w \in loggingIn /\ ~Has(toCoordinator[w], LoginRequest) /\ w \notin loggedIn
  BY <1>1, <1>3 DEF LoginGood, LoginUnderWay
<1>5. /\ loggingIn' = loggingIn \ {w}
      /\ loggedIn' = IF m.id \in LoginSuccess THEN loggedIn \cup {w} ELSE loggedIn
  BY <1>4 DEF OnLoginAnswer, LoginSuccess
<1>6. /\ HasOne(rest, LoginAnswer) /\ ~Has(rest, LoginAnswer)
      /\ m.id \notin LoginSuccess => SuccessFirst(rest)
  BY <1>1, <1>4, TailHas DEF LoginGood, LoginUnderWay
<1>7. ~Has(rest, LoginSuccess) /\ ~Has(rest, Already)
  BY <1>6, HasMore, LoginKinds
<1>8. Has(toSystem[w], LoginSuccess) <=> m.id \in LoginSuccess
  BY <1>1, <1>7, TailHas
<1>9. CASE v = w
  <2>1. toSystem'[v] = rest
    BY <1>1, <1>9
  <2> HIDE DEF rest, m
  <2>. QED BY <1>1, <1>2, <1>4, <1>5, <1>6, <1>7, <1>8, <1>9, <2>1 DEF LoginGood, LoginUnderWay
<1>10. CASE v # w
  <2>1. toSystem'[v] = toSystem[v]
    BY <1>1, <1>10
  <2>2. (v \in loggingIn' <=> v \in loggingIn) /\ (v \in loggedIn' <=> v \in loggedIn)
    BY <1>5, <1>10
  <2>. QED BY <1>1, <1>2, <2>1, <2>2 DEF LoginGood, LoginUnderWay
<1>. QED BY <1>9, <1>10

\* System a reads a message that is no answer to a login.
LEMMA OtherRead ==
  ASSUME ProxyIInv, NEW a \in Address, NEW v \in Server, toSystem[a] # <<>>,
         toSystem' = [toSystem EXCEPT ![a] = Tail(@)], Head(toSystem[a]).id \notin LoginAnswer
  PROVE  \/ toSystem'[v] = toSystem[v]
         \/ /\ toSystem[v] # <<>> /\ toSystem'[v] = Tail(toSystem[v])
            /\ Head(toSystem[v]).id \notin LoginAnswer
<1>1. toSystem \in [Address -> Seq(Message)] /\ v \in Address
  BY QueuesTyped DEF ProxyIInv, NetworkTypeOK
<1>. QED BY <1>1

LEMMA ServersKeepLogins ==
  ASSUME ProxyIInv, NEW v \in Server, NEW w \in Server,
         LoginToCoordinator(w) \/ ServerReceives(w) \/ ForwardTimesOut(w)
  PROVE  LoginGood(v)'
<1>1. CASE LoginToCoordinator(w)
  BY <1>1, LoginKeepsLogins
<1>2. CASE ServerReceives(w)
  <2> DEFINE m == Head(toSystem[w])
  <2>1. /\ toSystem[w] # <<>> /\ m \in Message /\ w \in Address
    BY <1>2, QueuesTyped, TailHas DEF ServerReceives
  <2>2. /\ toSystem' = [toSystem EXCEPT ![w] = Tail(@)]
        /\ UNCHANGED <<connected, serverList, joined>>
    BY <1>2 DEF ServerReceives, vars
  <2>3. CASE m.id \in LoginAnswer /\ OnLoginAnswer(w, m.id) /\ UNCHANGED <<toCoordinator, forwards>>
    BY <2>1, <2>2, <2>3, AnswerKeepsLogins
  <2>4. CASE /\ m.id = "ID_UDP_PROXY_FORWARDING_REQUEST_FROM_COORDINATOR_TO_SERVER"
             /\ OnForwardingRequestFromCoordinatorToServer(w, m.pair)
             /\ UNCHANGED <<loggingIn, loggedIn>>
    <3>1. m.pair \in Pair /\ m.id \notin LoginAnswer
      BY <2>1, <2>4, MessageKinds DEF ForwardRequest, LoginAnswer
    <3>2. PICK result \in StartForwarding(w, m.pair) :
            SendToCoordinator(w,
                 [id |-> "ID_UDP_PROXY_FORWARDING_REPLY_FROM_SERVER_TO_COORDINATOR",
                  pair |-> m.pair, result |-> result])
      BY <2>4 DEF OnForwardingRequestFromCoordinatorToServer
    <3> DEFINE reply == [id |-> "ID_UDP_PROXY_FORWARDING_REPLY_FROM_SERVER_TO_COORDINATOR",
                         pair |-> m.pair, result |-> result]
    <3>3. result \in UDPForwarderResult
      BY DEF StartForwarding, UDPForwarderResult
    <3>4. /\ reply \in ToCoordinatorMessage /\ SentBy(w, reply) /\ reply.id \notin LoginRequest
          /\ SendToCoordinator(w, reply)
      BY <3>1, <3>2, <3>3 DEF ToCoordinatorMessage, SentBy, LoginRequest
    <3>5. \/ toSystem'[v] = toSystem[v]
          \/ /\ toSystem[v] # <<>> /\ toSystem'[v] = Tail(toSystem[v])
             /\ Head(toSystem[v]).id \notin LoginAnswer
      BY <2>1, <2>2, <3>1, OtherRead
    <3> HIDE DEF reply, m
    <3>. QED BY <2>1, <2>2, <2>4, <3>4, <3>5, OthersKeepLogins
  <2>. QED BY <1>2, <2>3, <2>4 DEF ServerReceives
<1>3. CASE ForwardTimesOut(w)
  <2>1. UNCHANGED <<connected, serverList, joined, toCoordinator, toSystem, loggingIn, loggedIn>>
    BY <1>3 DEF ForwardTimesOut, vars, queues
  <2>. QED BY <2>1, OthersKeepLogins
<1>. QED BY <1>1, <1>2, <1>3

LEMMA ClientsKeepLogins ==
  ASSUME ProxyIInv, NEW v \in Server, NEW c \in Client,
         \/ ClientReceives(c) \/ GroupTimesOut(c)
         \/ \E w \in Server, ping \in Ping \ {Unresponsive} : OnPong(c, w, ping)
         \/ \E ask \in Ask, byGuid \in ByGuid :
              c = ask[1] /\ RequestForwarding(c, <<ask[2], ask[3]>>, byGuid)
  PROVE  LoginGood(v)'
<1>1. /\ UNCHANGED <<connected, serverList, joined, loggingIn, loggedIn>>
      /\ c \in Address /\ NetworkGood'
  BY ClientsAndServers, ClientsKeepNetwork
     DEF ClientReceives, GroupTimesOut, OnPong, RequestForwarding, NothingFromCoordinator, vars,
         serverVars
<1>2. ASSUME NEW psg, SendPingedServersToCoordinator(c, psg), UNCHANGED toSystem,
             psg \in PingServerGroup
      PROVE  LoginGood(v)'
  <2> DEFINE m == [id |-> "ID_UDP_PROXY_PING_SERVERS_REPLY_FROM_CLIENT_TO_COORDINATOR",
                   pair |-> psg.sata, reply |-> psg.serversToPing]
  <2>1. m \in ToCoordinatorMessage /\ SentBy(c, m) /\ m.id \notin LoginRequest
    BY <1>2, TypesOfGroups DEF SentBy, LoginRequest
  <2>2. SendToCoordinator(c, m)
    BY <1>2 DEF SendPingedServersToCoordinator
  <2> HIDE DEF m
  <2>. QED BY <1>1, <1>2, <2>1, <2>2, OthersKeepLogins
<1>3. CASE ClientReceives(c)
  <2> DEFINE m == Head(toSystem[c])
  <2>1. /\ toSystem[c] # <<>> /\ toSystem' = [toSystem EXCEPT ![c] = Tail(@)]
        /\ UNCHANGED toCoordinator
        /\ m.id \in Answer \cup {"ID_UDP_PROXY_PING_SERVERS_FROM_COORDINATOR_TO_CLIENT",
                                 "ID_UDP_PROXY_FORWARDING_NOTIFICATION"}
    BY <1>3 DEF ClientReceives
  <2>2. m.id \notin LoginAnswer
    BY <2>1, LoginKinds DEF LoginAnswer
  <2>3. \/ toSystem'[v] = toSystem[v]
        \/ /\ toSystem[v] # <<>> /\ toSystem'[v] = Tail(toSystem[v])
           /\ Head(toSystem[v]).id \notin LoginAnswer
    BY <1>1, <2>1, <2>2, OtherRead
  <2>. QED BY <1>1, <2>1, <2>3, OthersKeepLogins
<1>4. CASE GroupTimesOut(c)
  <2>1. pingServerGroups[c] \in Seq(PingServerGroup) /\ pingServerGroups[c] # <<>>
    BY <1>4, TypesOfGroups DEF GroupTimesOut
  <2>2. Head(pingServerGroups[c]) \in PingServerGroup
    BY <2>1
  <2>. QED BY <1>2, <1>4, <2>2 DEF GroupTimesOut, NothingFromCoordinator
<1>5. ASSUME NEW w \in Server, NEW ping \in Ping, OnPong(c, w, ping) PROVE LoginGood(v)'
  <2> DEFINE groups == pingServerGroups[c]
             answered(g) == [groups[g] EXCEPT !.serversToPing =
                               [i \in DOMAIN @ |-> IF @[i].serverAddress = w
                                                   THEN [@[i] EXCEPT !.ping = ping] ELSE @[i]]]
  <2>1. PICK g \in FirstGroupWith(c, w) :
          SendPingedServersToCoordinator(c, answered(g)) \/ UNCHANGED toCoordinator
    BY <1>5 DEF OnPong
  <2>2. UNCHANGED toSystem
    BY <1>5 DEF OnPong, NothingFromCoordinator
  <2>3. CASE SendPingedServersToCoordinator(c, answered(g))
    <3>1. groups \in Seq(PingServerGroup) /\ g \in 1 .. Len(groups)
      BY TypesOfGroups DEF FirstGroupWith
    <3> DEFINE psg == groups[g]
    <3>2. psg \in PingServerGroup
      <4> HIDE DEF groups
      <4>. QED BY <3>1
    <3> HIDE DEF psg
    <3> DEFINE told == [psg EXCEPT !.serversToPing =
                         [i \in DOMAIN @ |-> IF @[i].serverAddress = w
                                             THEN [@[i] EXCEPT !.ping = ping] ELSE @[i]]]
    <3>3. told \in PingServerGroup
      BY <1>5, <3>2, PongTypes
    <3>4. SendPingedServersToCoordinator(c, told)
      BY <2>3 DEF psg
    <3> HIDE DEF told
    <3>. QED BY <1>2, <2>2, <3>3, <3>4
  <2>4. CASE UNCHANGED toCoordinator
    BY <1>1, <2>2, <2>4, OthersKeepLogins
  <2>. QED BY <2>1, <2>3, <2>4
<1>6. ASSUME NEW ask \in Ask, NEW byGuid \in ByGuid, c = ask[1],
             RequestForwarding(c, <<ask[2], ask[3]>>, byGuid)
      PROVE  LoginGood(v)'
  <2> DEFINE p == <<ask[2], ask[3]>>
             m == [id |-> "ID_UDP_PROXY_FORWARDING_REQUEST_FROM_CLIENT_TO_COORDINATOR",
                   pair |-> p, byGuid |-> byGuid]
  <2>1. p \in Pair /\ byGuid \in BOOLEAN /\ <<c, p[1], p[2]>> = ask
    BY <1>6, AskAssumption, ByGuidAssumption DEF Pair
  <2>2. m \in ToCoordinatorMessage /\ SentBy(c, m) /\ m.id \notin LoginRequest
    BY <2>1 DEF ToCoordinatorMessage, SentBy, LoginRequest
  <2>3. SendToCoordinator(c, m) /\ UNCHANGED toSystem
    BY <1>6 DEF RequestForwarding, NothingFromCoordinator
  <2> HIDE DEF m, p
  <2>. QED BY <1>1, <2>2, <2>3, OthersKeepLogins
<1>. QED BY <1>3, <1>4, <1>5, <1>6

\* No server that is logged in asks for it again.
LEMMA LoginsApart ==
  ASSUME ProxyIInv, [ProxyNext]_allVars PROVE loggingIn' \cap loggedIn' = {}
<1>1. loggingIn \cap loggedIn = {}
  BY DEF ProxyIInv, LoginsUnderWay
<1>2. ASSUME UNCHANGED <<loggingIn, loggedIn>> PROVE loggingIn' \cap loggedIn' = {}
  BY <1>1, <1>2
<1>3. ASSUME NEW v \in Server, LoginToCoordinator(v) \/ ServerReceives(v) \/ ForwardTimesOut(v)
      PROVE  loggingIn' \cap loggedIn' = {}
  BY <1>1, <1>3 DEF LoginToCoordinator, MayLogIn, ServerReceives, OnLoginAnswer, ForwardTimesOut
<1>4. ASSUME NEW a \in Address, Join(a) \/ CoordinatorLoses(a) \/ SystemLoses(a)
      PROVE  loggingIn' \cap loggedIn' = {}
  BY <1>1, <1>4 DEF Join, CoordinatorLoses, SystemLoses, serverVars
<1>5. ASSUME \/ \E a \in Address : CoordinatorReceives(a)
             \/ CoordinatorLoops
             \/ \E p \in Pair : CoordinatorUpdates(p)
      PROVE  UNCHANGED <<loggingIn, loggedIn>>
  BY <1>5, CoordinatorLeaves DEF serverVars
<1>6. ASSUME NEW c \in Client,
             \/ ClientReceives(c) \/ GroupTimesOut(c)
             \/ \E v \in Server, ping \in Ping \ {Unresponsive} : OnPong(c, v, ping)
      PROVE  UNCHANGED <<loggingIn, loggedIn>>
  BY <1>6 DEF ClientReceives, GroupTimesOut, OnPong, serverVars
<1>7. ASSUME NEW ask \in Ask, NEW byGuid \in ByGuid,
             RequestForwarding(ask[1], <<ask[2], ask[3]>>, byGuid)
      PROVE  UNCHANGED <<loggingIn, loggedIn>>
  BY <1>7 DEF RequestForwarding, serverVars
<1>8. CASE UNCHANGED allVars
  BY <1>2, <1>8 DEF allVars, serverVars
<1>. QED BY <1>2, <1>3, <1>4, <1>5, <1>6, <1>7, <1>8 DEF ProxyNext

LEMMA LoginsStep ==
  ASSUME ProxyIInv, [ProxyNext]_allVars PROVE LoginsUnderWay'
<1>1. ASSUME NEW v \in Server PROVE LoginGood(v)'
  <2>1. ASSUME NEW a \in Address, Join(a) \/ CoordinatorLoses(a) \/ SystemLoses(a)
        PROVE  LoginGood(v)'
    BY <1>1, <2>1, ConnectionsKeepLogins
  <2>2. ASSUME NEW a \in Address, CoordinatorReceives(a) PROVE LoginGood(v)'
    BY <1>1, <2>2, LoginReadKeepsLogins, CoordinatorKeepsLogins
  <2>3. ASSUME CoordinatorLoops \/ \E p \in Pair : CoordinatorUpdates(p) PROVE LoginGood(v)'
    BY <1>1, <2>3, CoordinatorKeepsLogins
  <2>4. ASSUME NEW w \in Server, LoginToCoordinator(w) \/ ServerReceives(w) \/ ForwardTimesOut(w)
        PROVE  LoginGood(v)'
    BY <1>1, <2>4, ServersKeepLogins
  <2>5. ASSUME NEW c \in Client,
               \/ ClientReceives(c) \/ GroupTimesOut(c)
               \/ \E w \in Server, ping \in Ping \ {Unresponsive} : OnPong(c, w, ping)
        PROVE  LoginGood(v)'
    BY <1>1, <2>5, ClientsKeepLogins
  <2>6. ASSUME NEW ask \in Ask, NEW byGuid \in ByGuid,
               RequestForwarding(ask[1], <<ask[2], ask[3]>>, byGuid)
        PROVE  LoginGood(v)'
    <3>1. ask[1] \in Client
      BY AskAssumption
    <3>. QED BY <1>1, <2>6, <3>1, ClientsKeepLogins
  <2>7. CASE UNCHANGED allVars
    <3>1. UNCHANGED <<connected, serverList, joined, loggingIn, loggedIn, toCoordinator, toSystem>>
      BY <2>7 DEF allVars, vars, queues, serverVars
    <3>. QED BY <1>1, <3>1, OthersKeepLogins
  <2>. QED BY <2>1, <2>2, <2>3, <2>4, <2>5, <2>6, <2>7 DEF ProxyNext
<1>2. LoginsUnderWay' <=> loggingIn' \cap loggedIn' = {} /\ \A v \in Server : LoginGood(v)'
  <2>1. NoSecondLogin' <=> \A v \in Server : ~Has(toSystem[v], Already)'
    BY DEF NoSecondLogin, Has, Already
  <2>. QED BY <2>1 DEF LoginsUnderWay, LoginGood
<1>. QED BY <1>1, <1>2, LoginsApart

-----------------------------------------------------------------------------
(* Theorems *)

LEMMA ProxyInductive ==
  /\ ProxyInit => ProxyIInv
  /\ ProxyIInv /\ [ProxyNext]_allVars => ProxyIInv'
<1>1. ASSUME ProxyInit PROVE ProxyIInv
  <2>1. /\ left.systems \subseteq Address /\ connected = left.systems /\ joined = left.systems
        /\ serverList = <<>> /\ closing = {} /\ toVisit = {} /\ sent = <<>>
        /\ requests = [p \in {} |-> <<>>]
        /\ toCoordinator = [a \in Address |-> <<>>] /\ toSystem = [a \in Address |-> <<>>]
        /\ loggingIn = {} /\ loggedIn = {} /\ forwards = [v \in Server |-> {}]
        /\ pingServerGroups = [c \in Client |-> <<>>] /\ pending = {}
    BY <1>1, ScenarioAssumption DEF ProxyInit, Left
  <2>2. LoggedIn = {} /\ DOMAIN requests = {}
    BY <2>1 DEF LoggedIn, ToSet
  <2>3. IInv
    BY <2>1, <2>2 DEF IInv, TypeOK, ServersAreConnected, OneForwardPerPair, RequestersAreConnected,
                      NoServerAskedTwice, OneHandler, IsInjective
  <2>4. NetworkTypeOK /\ LossesForget /\ Len(sent) <= 2
    BY <2>1 DEF NetworkTypeOK, LossesForget
  <2>5. \A v \in Server : v \in Address /\ toCoordinator[v] = <<>> /\ toSystem[v] = <<>>
    BY <2>1, ClientsAndServers
  <2>6. LoginsUnderWay
    <3>1. 1 .. Len(<<>>) = {}
      OBVIOUS
    <3>2. /\ \A ids : ~Has(<<>>, ids) /\ HasOne(<<>>, ids)
          /\ SuccessFirst(<<>>)
      BY <3>1 DEF Has, HasOne, SuccessFirst
    <3>. QED BY <2>1, <2>2, <2>5, <3>1, <3>2 DEF LoginsUnderWay, NoSecondLogin, LoginUnderWay
  <2>7. \A a \in Address : \A i \in 1 .. Len(toCoordinator[a]) : SentBy(a, toCoordinator[a][i])
    BY <2>1
  <2>. QED BY <2>3, <2>4, <2>6, <2>7 DEF ProxyIInv
<1>2. ASSUME ProxyIInv, [ProxyNext]_allVars PROVE ProxyIInv'
  <2>1. CoordinatorStep /\ IInv /\ Len(sent) <= 2
    BY <1>2, ProxyStepIsStep DEF ProxyIInv
  <2>2. IInv' /\ Len(sent') <= 2
    BY <2>1, StepKeepsIInv, StepSendsFew
  <2>3. NetworkGood' /\ LoginsUnderWay'
    BY <1>2, NetworkStep, LoginsStep
  <2>. QED BY <2>2, <2>3 DEF ProxyIInv, NetworkGood
<1>. QED BY <1>1, <1>2

\* The invariant of the whole system, whatever systems take part, whichever of
\* them are lost, however often, and in whatever order messages are read: that
\* of the coordinator, and how far each login has come.
THEOREM ProxyInvariant == ProxySpec => []ProxyIInv
<1>. QED BY ProxyInductive, PTL DEF ProxySpec

\* UDPProxyCoordinator, its servers and its clients keep their state within its types: the
\* pings that clients measure (UDPProxyClient::OnUpdate) and the coordinator puts in
\* order are of servers, and no message is read by a side that it is not for.
THEOREM ProxyTypes == ProxySpec => []ProxyTypeOK
<1>1. ProxyInit => PingsTypeOK
  BY DEF ProxyInit, PingsTypeOK
<1>2. ProxyIInv /\ PingsTypeOK /\ [ProxyNext]_allVars => PingsTypeOK'
  <2>. SUFFICES ASSUME ProxyIInv, PingsTypeOK, [ProxyNext]_allVars PROVE PingsTypeOK'
    OBVIOUS
  <2>1. CoordinatorStep /\ IInv
    BY ProxyStepIsStep DEF ProxyIInv
  <2>2. CASE Next \/ UNCHANGED vars
    BY <2>1, <2>2, NextPings
  <2>3. CASE CollectsOrDrops
    BY <2>3 DEF CollectsOrDrops
  <2>. QED BY <2>1, <2>2, <2>3 DEF CoordinatorStep
<1>3. ProxyIInv /\ PingsTypeOK => ProxyTypeOK
  BY DEF ProxyIInv, ProxyTypeOK
<1>. QED BY <1>1, <1>2, <1>3, ProxyInvariant, PTL DEF ProxySpec

\* UDPProxyServer and UDPProxyCoordinator agree on which servers are logged in
\* as soon as nothing about it is under way; no server logs in twice; and a
\* server gets a request only from a coordinator it is logged in to, though
\* line 77 of UDPProxyServer.cpp lets every request pass.
THEOREM Logins == ProxySpec => []LoginsAgree
<1>1. ASSUME ProxyIInv PROVE LoginsAgree
  <2>1. ASSUME NEW v \in Server
        PROVE  /\ toSystem[v] \in Seq(Message)
               /\ v \in joined \cap connected =>
                    (v \in LoggedIn <=> v \in loggedIn \/ Has(toSystem[v], LoginSuccess))
               /\ v \in loggedIn \/ SuccessFirst(toSystem[v])
    BY <1>1, <2>1, QueuesTyped DEF LoginGood, LoginUnderWay
  <2>2. SidesAgree
    <3>1. ASSUME NEW v \in Server, v \in joined \cap connected,
                 \A i \in 1 .. Len(toSystem[v]) : toSystem[v][i].id \notin LoginAnswer
          PROVE  v \in loggedIn <=> v \in LoggedIn
      <4>1. ~Has(toSystem[v], LoginSuccess)
        BY <3>1, LoginKinds DEF Has
      <4>. QED BY <2>1, <3>1, <4>1
    <3>. QED BY <3>1 DEF SidesAgree
  <2>3. AskedWhenLoggedIn
    <3>1. ASSUME NEW v \in Server, toSystem[v] # <<>>, Head(toSystem[v]).id \in ForwardRequest
          PROVE  v \in loggedIn
      BY <2>1, <3>1, TailHas
    <3>. QED BY <3>1 DEF AskedWhenLoggedIn, ForwardRequest
  <2>. QED BY <1>1, <2>2, <2>3 DEF LoginsAgree, ProxyIInv, LoginsUnderWay
<1>. QED BY <1>1, ProxyInvariant, PTL

\* What the coordinator guarantees of its lists for whatever it is sent, it
\* guarantees to these clients and servers.
THEOREM ProxyRequestsKept == ProxySpec => []RequestsAgree
<1>1. ProxyIInv => RequestsAgree
  BY DEF ProxyIInv, IInv, RequestsAgree
<1>. QED BY <1>1, ProxyInvariant, PTL

\* So are its servers asked only while they are logged in, ...
THEOREM ProxyAsksLiveOnly == ProxySpec => AsksLiveServers
<1>1. ProxyIInv /\ [ProxyNext]_allVars => [AsksLive]_vars
  BY ProxyStepIsStep, NextAsksLive DEF ProxyIInv, CoordinatorStep, CollectsOrDrops, AsksLive
<1>2. AsksLiveServers <=> [][AsksLive]_vars
  BY DEF AsksLiveServers, AsksLive
<1>. QED BY <1>1, <1>2, ProxyInvariant, PTL DEF ProxySpec

\* ... and its clients told how each request ended.
THEOREM ProxyEndsAnswered == ProxySpec => EndsAreAnswered
<1>1. ProxyIInv /\ [ProxyNext]_allVars => [Answers]_vars
  BY ProxyStepIsStep, NextAnswers DEF ProxyIInv, CoordinatorStep, CollectsOrDrops, Answers
<1>2. EndsAreAnswered <=> [][Answers]_vars
  BY DEF EndsAreAnswered, Answers
<1>. QED BY <1>1, <1>2, ProxyInvariant, PTL DEF ProxySpec

\* The coordinator among its servers and clients implements ProxyForwarding:
\* collecting pings and dropping a message are pauses of it, and what servers
\* and clients do it does not see.
THEOREM ProxyRefinement == ProxySpec => ImplementsForwarding
<1>1. ProxyInit => Abstract!Init
  BY DEF ProxyInit, Abstract!Init, AbstractRequests, Answered, LoggedIn, ToSet
<1>2. ProxyIInv /\ [ProxyNext]_allVars => [Abstract!Next]_(Abstract!vars)
  <2>1. ASSUME UNCHANGED vars PROVE UNCHANGED Abstract!vars
    BY <2>1 DEF vars, pcVars, Abstract!vars, AbstractRequests, Answered, LoggedIn
  <2>2. ASSUME CollectsOrDrops PROVE Abstract!Pause
    BY <2>2, NothingSent DEF CollectsOrDrops, AbstractRequests, Abstract!Pause, LoggedIn
  <2>3. Abstract!Pause => Abstract!Next
    BY DEF Abstract!Next
  <2>. QED BY <2>1, <2>2, <2>3, ProxyStepIsStep, NextAbstracted DEF ProxyIInv, CoordinatorStep
<1>. QED BY <1>1, <1>2, ProxyInvariant, PTL DEF ProxySpec, ImplementsForwarding, Abstract!Spec

-----------------------------------------------------------------------------
(* Outcomes *)

\* A queue has no more about p than another.
NoMore(short, queue, ids, p) ==
  /\ HasFor(short, ids, p) => HasFor(queue, ids, p)
  /\ HasOneFor(queue, ids, p) => HasOneFor(short, ids, p)

LEMMA AppendHasFor ==
  ASSUME NEW S, NEW queue \in Seq(S), NEW m \in S, NEW ids, NEW p
  PROVE  LET long == Append(queue, m)
             about == m.id \in ids /\ m.pair = p
         IN /\ HasFor(long, ids, p) => HasFor(queue, ids, p) \/ about
            /\ HasOneFor(queue, ids, p) /\ ~(HasFor(queue, ids, p) /\ about) => HasOneFor(long, ids, p)
            /\ ~about => NoMore(long, queue, ids, p)
<1> DEFINE n == Len(queue)
           long == Append(queue, m)
           about == m.id \in ids /\ m.pair = p
<1>1. /\ n \in Nat /\ Len(long) = n + 1 /\ long[n + 1] = m
      /\ \A i \in 1 .. n : long[i] = queue[i]
  OBVIOUS
<1>2. \A i \in 1 .. n + 1 : i \in 1 .. n \/ i = n + 1
  BY <1>1
<1> HIDE DEF long, n
<1>3. HasFor(long, ids, p) => HasFor(queue, ids, p) \/ about
  BY <1>1, <1>2 DEF HasFor, n
<1>4. HasOneFor(queue, ids, p) /\ ~(HasFor(queue, ids, p) /\ about) => HasOneFor(long, ids, p)
  BY <1>1, <1>2 DEF HasFor, HasOneFor, n
<1>. QED BY <1>3, <1>4 DEF NoMore, long

LEMMA TailHasFor ==
  ASSUME NEW S, NEW queue \in Seq(S), queue # <<>>, NEW ids, NEW p
  PROVE  LET m == Head(queue) rest == Tail(queue)
         IN /\ NoMore(rest, queue, ids, p)
            /\ m.id \in ids /\ m.pair = p => HasFor(queue, ids, p)
            /\ HasOneFor(queue, ids, p) /\ m.id \in ids /\ m.pair = p => ~HasFor(rest, ids, p)
<1> DEFINE n == Len(queue)
           m == Head(queue)
           rest == Tail(queue)
<1>1. /\ n \in Nat /\ n > 0 /\ Len(rest) = n - 1 /\ queue[1] = m
      /\ \A i \in 1 .. n - 1 : rest[i] = queue[i + 1]
  OBVIOUS
<1>2. 1 \in 1 .. n /\ \A i \in 1 .. n - 1 : i + 1 \in 1 .. n /\ i + 1 # 1
  BY <1>1
<1> HIDE DEF rest, n, m
<1>3. HasFor(rest, ids, p) => HasFor(queue, ids, p)
  BY <1>1, <1>2 DEF HasFor, n
<1>4. ASSUME HasOneFor(queue, ids, p) PROVE HasOneFor(rest, ids, p)
  <2>1. ASSUME NEW i \in 1 .. n - 1, NEW j \in 1 .. n - 1,
               rest[i].id \in ids, rest[i].pair = p, rest[j].id \in ids, rest[j].pair = p
        PROVE  i = j
    <3>1. i + 1 = j + 1
      BY <1>1, <1>2, <1>4, <2>1 DEF HasOneFor, n
    <3>. QED BY <3>1
  <2>. QED BY <1>1, <2>1 DEF HasOneFor
<1>5. m.id \in ids /\ m.pair = p => HasFor(queue, ids, p)
  BY <1>1, <1>2 DEF HasFor, n
<1>6. ASSUME HasOneFor(queue, ids, p), m.id \in ids, m.pair = p, HasFor(rest, ids, p) PROVE FALSE
  <2>1. PICK i \in 1 .. n - 1 : rest[i].id \in ids /\ rest[i].pair = p
    BY <1>1, <1>6 DEF HasFor
  <2>2. i + 1 \in 1 .. n /\ i + 1 # 1 /\ rest[i] = queue[i + 1] /\ 1 \in 1 .. n
    BY <1>1, <1>2
  <2>. QED BY <1>1, <1>6, <2>1, <2>2 DEF HasOneFor, n
<1>. QED BY <1>3, <1>4, <1>5, <1>6 DEF NoMore, rest, m

\* The step sends a message to a about p.
Sends(a, ids, p) ==
  \E i \in 1 .. Len(sent') : sent'[i].to = a /\ sent'[i].id \in ids /\ sent'[i].pair = p

\* It sends no two such messages.
SendsOne(ids) ==
  \A i, j \in 1 .. Len(sent') : sent'[i].id \in ids /\ sent'[j].id \in ids => i = j

LEMMA ReceivedFor ==
  ASSUME NEW a, NEW queue \in Seq(Message), NEW i \in {1, 2}, sent' \in Seq(Message), NEW ids, NEW p
  PROVE  LET more == Received(a, i, queue)
             about == i \in DOMAIN sent' /\ sent'[i].to = a /\ sent'[i].id \in ids /\ sent'[i].pair = p
         IN /\ more \in Seq(Message)
            /\ HasFor(more, ids, p) => HasFor(queue, ids, p) \/ about
            /\ HasOneFor(queue, ids, p) /\ ~(HasFor(queue, ids, p) /\ about) => HasOneFor(more, ids, p)
<1> DEFINE m == sent'[i]
           more == Append(queue, m)
<1>1. CASE i \in DOMAIN sent' /\ m.to = a /\ a \in joined \cap connected'
  <2>1. m \in Message /\ Received(a, i, queue) = more
    BY <1>1 DEF Received
  <2>2. more \in Seq(Message)
    BY <2>1
  <2> HIDE DEF m
  <2>3. /\ HasFor(more, ids, p) => HasFor(queue, ids, p) \/ (m.id \in ids /\ m.pair = p)
        /\ HasOneFor(queue, ids, p) /\ ~(HasFor(queue, ids, p) /\ m.id \in ids /\ m.pair = p)
             => HasOneFor(more, ids, p)
    BY <2>1, AppendHasFor
  <2> HIDE DEF more
  <2>. QED BY <1>1, <2>1, <2>2, <2>3 DEF m
<1>2. CASE ~(i \in DOMAIN sent' /\ m.to = a /\ a \in joined \cap connected')
  BY <1>2 DEF Received
<1>. QED BY <1>1, <1>2

\* What is delivered comes from the queue or from this step.
LEMMA DeliveredFor ==
  ASSUME ProxyIInv, NEW a \in Address, NEW ids, NEW p, sent' \in Seq(Message), Deliver, SendsOne(ids)
  PROVE  /\ HasFor(toSystem'[a], ids, p) => HasFor(toSystem[a], ids, p) \/ Sends(a, ids, p)
         /\ HasOneFor(toSystem[a], ids, p) /\ ~(HasFor(toSystem[a], ids, p) /\ Sends(a, ids, p))
              => HasOneFor(toSystem'[a], ids, p)
<1> DEFINE queue == toSystem[a]
           more == Received(a, 1, queue)
           all == Received(a, 2, more)
           about(i) == i \in DOMAIN sent' /\ sent'[i].to = a /\ sent'[i].id \in ids /\ sent'[i].pair = p
<1>1. queue \in Seq(Message) /\ toSystem'[a] = all
  BY DEF ProxyIInv, NetworkTypeOK, Deliver
<1>2. /\ about(1) \/ about(2) => Sends(a, ids, p)
      /\ ~(about(1) /\ about(2))
  <2>1. DOMAIN sent' = 1 .. Len(sent')
    OBVIOUS
  <2>. QED BY <2>1 DEF Sends, SendsOne
<1> HIDE DEF queue
<1>3. /\ more \in Seq(Message)
      /\ HasFor(more, ids, p) => HasFor(queue, ids, p) \/ about(1)
      /\ HasOneFor(queue, ids, p) /\ ~(HasFor(queue, ids, p) /\ about(1)) => HasOneFor(more, ids, p)
  BY <1>1, ReceivedFor
<1> HIDE DEF more
<1>4. /\ HasFor(all, ids, p) => HasFor(more, ids, p) \/ about(2)
      /\ HasOneFor(more, ids, p) /\ ~(HasFor(more, ids, p) /\ about(2)) => HasOneFor(all, ids, p)
  BY <1>3, ReceivedFor
<1> HIDE DEF all, about
<1>. QED BY <1>1, <1>2, <1>3, <1>4 DEF queue

-----------------------------------------------------------------------------
(* What a step of the coordinator does to requests and outcomes *)

\* The coordinator reads a message of a about p.
Reads(a, ids, p) ==
  /\ toCoordinator[a] # <<>> /\ Consume(a)
  /\ Head(toCoordinator[a]).id \in ids /\ Head(toCoordinator[a]).pair = p

\* An outcome is sent for what has just been asked or is served, which ends
\* with it; a server is asked when no other is, and is then the one that is tried.
Effect(p) ==
  /\ \A c \in Client :
       /\ Sends(c, Answer, p) => (Reads(c, ClientRequest, p) \/ Serves(p, c)) /\ ~Serves(p, c)'
       /\ Serves(p, c)' => Serves(p, c) \/ Reads(c, ClientRequest, p)
  /\ \/ Tries(p) /\ Tries(p)' /\ UNCHANGED requests[p].currentlyAttemptedServerAddress
     \/ ~Tries(p)
     \/ \E v \in Server : Reads(v, ForwardReply, p)
  /\ \A v \in Server :
       Sends(v, ForwardRequest, p) =>
         /\ ~Tries(p) \/ \E w \in Server : Reads(w, ForwardReply, p)
         /\ Tries(p)' /\ requests'[p].currentlyAttemptedServerAddress = v
  /\ p \in DOMAIN requests' => (requests'[p].timeRequestedPings => ~requests'[p].timeoutAfterSuccess)

\* A handler that is about p only.
About(p) ==
  /\ \A i \in 1 .. Len(sent') :
       sent'[i].id \in Answer \cup ForwardRequest => sent'[i].pair = p
  /\ \A q \in Pair : q # p =>
       /\ q \in DOMAIN requests' <=> q \in DOMAIN requests
       /\ q \in DOMAIN requests => requests'[q] = requests[q]

CoordinatorEffect ==
  SendsOne(Answer) /\ SendsOne(ForwardRequest) /\ \A q \in Pair : Effect(q)

LEMMA EffectElsewhere ==
  ASSUME PingsFirst, NEW p, About(p), NEW q \in Pair, q # p PROVE Effect(q)
<1>1. /\ q \in DOMAIN requests' <=> q \in DOMAIN requests
      /\ q \in DOMAIN requests => requests'[q] = requests[q]
  BY DEF About
<1>2. \A a : ~Sends(a, Answer, q) /\ ~Sends(a, ForwardRequest, q)
  BY DEF About, Sends
<1>. QED BY <1>1, <1>2 DEF Effect, Serves, Tries, PingsFirst

LEMMA NothingSentOfRequests ==
  ASSUME PingsFirst, UNCHANGED requests,
         \A i \in 1 .. Len(sent') : sent'[i].id \notin Answer \cup ForwardRequest
  PROVE  CoordinatorEffect
<1>1. ASSUME NEW q \in Pair PROVE Effect(q)
  BY <1>1 DEF Effect, Sends, Serves, Tries, PingsFirst
<1>2. SendsOne(Answer) /\ SendsOne(ForwardRequest)
  BY DEF SendsOne
<1>. QED BY <1>1, <1>2 DEF CoordinatorEffect

LEMMA Kinds ==
  /\ Answer \cap ForwardRequest = {}
  /\ "ID_UDP_PROXY_FORWARDING_NOTIFICATION" \notin Answer \cup ForwardRequest
  /\ "ID_UDP_PROXY_PING_SERVERS_FROM_COORDINATOR_TO_CLIENT" \notin Answer \cup ForwardRequest
  /\ LoginAnswer \cap (Answer \cup ForwardRequest) = {}
BY DEF Answer, ForwardRequest, LoginAnswer

\* One message is sent, an outcome or a request to a server.
LEMMA OneSentEffect ==
  ASSUME PingsFirst, NEW p \in Pair, NEW m, sent' = <<m>>, m.pair = p,
         \A q \in Pair : q # p =>
           /\ q \in DOMAIN requests' <=> q \in DOMAIN requests
           /\ q \in DOMAIN requests => requests'[q] = requests[q],
         m.id \in Answer \/ m.id \in ForwardRequest,
         m.id \in Answer =>
           /\ \A c \in Client : m.to = c => Reads(c, ClientRequest, p) \/ Serves(p, c)
           /\ \A c \in Client : Serves(p, c)' => Serves(p, c) /\ c # m.to
           /\ \/ Tries(p) /\ Tries(p)' /\ UNCHANGED requests[p].currentlyAttemptedServerAddress
              \/ ~Tries(p)
              \/ \E v \in Server : Reads(v, ForwardReply, p),
         m.id \in ForwardRequest =>
           /\ \A c \in Client : Serves(p, c)' => Serves(p, c) \/ Reads(c, ClientRequest, p)
           /\ ~Tries(p) \/ \E w \in Server : Reads(w, ForwardReply, p)
           /\ Tries(p)' /\ requests'[p].currentlyAttemptedServerAddress = m.to,
         p \in DOMAIN requests' =>
           (requests'[p].timeRequestedPings => ~requests'[p].timeoutAfterSuccess)
  PROVE  CoordinatorEffect
<1>1. Len(sent') = 1 /\ sent'[1] = m /\ \A i \in 1 .. Len(sent') : i = 1
  OBVIOUS
<1>2. \A a, ids : Sends(a, ids, p) <=> m.to = a /\ m.id \in ids
  BY <1>1 DEF Sends
<1>3. About(p)
  BY <1>1 DEF About
<1>4. Effect(p)
  BY <1>2, Kinds DEF Effect
<1>5. SendsOne(Answer) /\ SendsOne(ForwardRequest)
  BY <1>1 DEF SendsOne
<1>. QED BY <1>3, <1>4, <1>5, EffectElsewhere DEF CoordinatorEffect

LEMMA TryNextServerEffect ==
  ASSUME IInv, PingsFirst, NEW p \in DOMAIN requests, NEW fw \in ForwardingRequest, TryNextServer(p, fw),
         IsInjective(fw.remainingServersToTry),
         fw.requestingAddress = requests[p].requestingAddress,
         ~fw.timeRequestedPings, ~fw.timeoutAfterSuccess, ~requests[p].timeoutAfterSuccess,
         ~Tries(p) \/ \E w \in Server : Reads(w, ForwardReply, p)
  PROVE  CoordinatorEffect
<1>1. p \in Pair /\ requests[p] \in ForwardingRequest
  BY DEF IInv, TypeOK
<1>2. CASE TryServer(p, fw)
  <2> DEFINE list == fw.remainingServersToTry
  <2>1. PICK i \in 1 .. Len(list) :
          /\ FirstLoggedIn(i, list)
          /\ Put(p, [fw EXCEPT !.currentlyAttemptedServerAddress = list[i],
                               !.remainingServersToTry = ServersAfter(list, i)])
          /\ SendForwardingRequest(list[i], p)
    BY <1>2 DEF TryServer
  <2> DEFINE new == [fw EXCEPT !.currentlyAttemptedServerAddress = list[i],
                               !.remainingServersToTry = ServersAfter(list, i)]
             m == [to |-> list[i], pair |-> p,
                   id |-> "ID_UDP_PROXY_FORWARDING_REQUEST_FROM_COORDINATOR_TO_SERVER"]
  <2>2. /\ new.requestingAddress = fw.requestingAddress
        /\ new.currentlyAttemptedServerAddress = list[i]
        /\ ~new.timeRequestedPings /\ ~new.timeoutAfterSuccess
    BY DEF ForwardingRequest
  <2>3. requests' = [q \in DOMAIN requests \cup {p} |-> IF q = p THEN new ELSE requests[q]]
    BY <2>1 DEF Put
  <2>4. sent' = <<m>>
    BY <2>1 DEF SendForwardingRequest
  <2>5. m.pair = p /\ m.id \in ForwardRequest /\ m.id \notin Answer /\ m.to = list[i]
    BY DEF ForwardRequest, Answer
  <2> HIDE DEF new, m
  <2>6. requests'[p] = new /\ p \in DOMAIN requests'
        /\ \A q \in Pair : q # p =>
             /\ q \in DOMAIN requests' <=> q \in DOMAIN requests
             /\ q \in DOMAIN requests => requests'[q] = requests[q]
    BY <2>3
  <2>7. Tries(p)' /\ requests'[p].currentlyAttemptedServerAddress = m.to
    BY <2>2, <2>5, <2>6 DEF Tries
  <2>8. \A c \in Client : Serves(p, c)' => Serves(p, c)
    BY <2>2, <2>6 DEF Serves
  <2>. QED BY <1>1, <2>2, <2>4, <2>5, <2>6, <2>7, <2>8, OneSentEffect
<1>3. CASE GiveUp(p, fw)
  <2> DEFINE m == [to |-> fw.requestingAddress, pair |-> p, id |-> "ID_UDP_PROXY_ALL_SERVERS_BUSY"]
  <2>1. /\ requests' = [q \in DOMAIN requests \ {p} |-> requests[q]]
        /\ sent' = <<m>>
    BY <1>3 DEF GiveUp, Drop, ToRequester
  <2>2. m.pair = p /\ m.id \in Answer /\ m.id \notin ForwardRequest /\ m.to = requests[p].requestingAddress
    BY DEF ForwardRequest, Answer
  <2> HIDE DEF m
  <2>3. p \notin DOMAIN requests'
        /\ \A q \in Pair : q # p =>
             /\ q \in DOMAIN requests' <=> q \in DOMAIN requests
             /\ q \in DOMAIN requests => requests'[q] = requests[q]
    BY <2>1
  <2>4. \A c \in Client : (m.to = c => Serves(p, c)) /\ ~Serves(p, c)'
    BY <2>2, <2>3 DEF Serves
  <2>. QED BY <1>1, <2>1, <2>2, <2>3, <2>4, OneSentEffect
<1>. QED BY <1>2, <1>3 DEF TryNextServer

\* Two messages are sent, of which the second is neither an outcome nor for a server.
LEMMA TwoSentFacts ==
  ASSUME NEW m, NEW n, sent' = <<m, n>>, n.id \notin Answer \cup ForwardRequest
  PROVE  /\ SendsOne(Answer) /\ SendsOne(ForwardRequest)
         /\ \A a, p : Sends(a, Answer, p) => m.to = a /\ m.id \in Answer /\ m.pair = p
         /\ \A a, p : Sends(a, ForwardRequest, p) => m.id \in ForwardRequest
         /\ \A p : m.pair = p /\ n.pair = p =>
              \A i \in 1 .. Len(sent') : sent'[i].pair = p
<1>1. Len(sent') = 2 /\ sent'[1] = m /\ sent'[2] = n /\ \A i \in 1 .. Len(sent') : i = 1 \/ i = 2
  OBVIOUS
<1>. QED BY <1>1 DEF SendsOne, Sends

LEMMA AcceptEffect ==
  ASSUME IInv, PingsFirst, NEW a \in Client, NEW p \in Pair, p \notin DOMAIN requests,
         Accept(a, p), Reads(a, ClientRequest, p)
  PROVE  CoordinatorEffect
<1> DEFINE fw == [requestingAddress |-> a,
                  currentlyAttemptedServerAddress |-> NoServer,
                  remainingServersToTry |-> serverList,
                  timeRequestedPings |-> TRUE,
                  timeoutAfterSuccess |-> FALSE]
           ping(to) == [to |-> to, pair |-> p, servers |-> serverList,
                        id |-> "ID_UDP_PROXY_PING_SERVERS_FROM_COORDINATOR_TO_CLIENT"]
           first == [fw EXCEPT !.currentlyAttemptedServerAddress = serverList[1],
                               !.remainingServersToTry = <<>>,
                               !.timeRequestedPings = FALSE]
           ask == [to |-> serverList[1], pair |-> p,
                   id |-> "ID_UDP_PROXY_FORWARDING_REQUEST_FROM_COORDINATOR_TO_SERVER"]
<1>1. \/ Put(p, fw) /\ sent' = <<ping(p[1]), ping(p[2])>>
      \/ Put(p, first) /\ sent' = <<ask>>
  BY DEF Accept, SendForwardingRequest
<1>2. \A new : Put(p, new) =>
        /\ p \in DOMAIN requests' /\ requests'[p] = new
        /\ \A q \in Pair : q # p =>
             /\ q \in DOMAIN requests' <=> q \in DOMAIN requests
             /\ q \in DOMAIN requests => requests'[q] = requests[q]
  BY DEF Put
<1>3. /\ fw.requestingAddress = a /\ fw.timeRequestedPings /\ ~fw.timeoutAfterSuccess
      /\ first.requestingAddress = a /\ first.currentlyAttemptedServerAddress = serverList[1]
      /\ ~first.timeRequestedPings /\ ~first.timeoutAfterSuccess
  OBVIOUS
<1>4. ask.pair = p /\ ask.id \in ForwardRequest /\ ask.id \notin Answer /\ ask.to = serverList[1]
  BY DEF ForwardRequest, Answer
<1>5. \A to : ping(to).pair = p /\ ping(to).id \notin Answer \cup ForwardRequest
  BY Kinds
<1>6. ~Tries(p) /\ \A c : ~Serves(p, c)
  BY DEF Tries, Serves
<1> HIDE DEF fw, first, ask, ping
<1>7. CASE Put(p, first) /\ sent' = <<ask>>
  <2>1. Tries(p)' /\ requests'[p].currentlyAttemptedServerAddress = ask.to
    BY <1>2, <1>3, <1>4, <1>7 DEF Tries
  <2>2. \A c \in Client : Serves(p, c)' => c = a
    BY <1>2, <1>3, <1>7 DEF Serves
  <2>. QED BY <1>2, <1>3, <1>4, <1>6, <1>7, <2>1, <2>2, OneSentEffect
<1>8. CASE Put(p, fw) /\ sent' = <<ping(p[1]), ping(p[2])>>
  <2>1. /\ SendsOne(Answer) /\ SendsOne(ForwardRequest)
        /\ \A b, q : ~Sends(b, Answer, q) /\ ~Sends(b, ForwardRequest, q)
        /\ \A i \in 1 .. Len(sent') : sent'[i].pair = p
    BY <1>5, <1>8, TwoSentFacts
  <2>2. About(p)
    BY <1>2, <1>8, <2>1 DEF About
  <2>3. Effect(p)
    BY <1>2, <1>3, <1>6, <1>8, <2>1 DEF Effect, Serves
  <2>. QED BY <2>1, <2>2, <2>3, EffectElsewhere DEF CoordinatorEffect
<1>. QED BY <1>1, <1>7, <1>8

LEMMA RefuseEffect ==
  ASSUME IInv, PingsFirst, NEW a \in Client, NEW p \in Pair, NEW why \in Answer,
         Refuse(a, p, why), Reads(a, ClientRequest, p), ~Serves(p, a)
  PROVE  CoordinatorEffect
<1> DEFINE m == [to |-> a, pair |-> p, id |-> why]
<1>1. sent' = <<m>> /\ UNCHANGED requests
  BY DEF Refuse
<1>2. m.to = a /\ m.pair = p /\ m.id \in Answer /\ m.id \notin ForwardRequest
  BY Kinds
<1> HIDE DEF m
<1>3. /\ \A c \in Client : Serves(p, c)' => Serves(p, c) /\ c # m.to
      /\ \/ Tries(p) /\ Tries(p)' /\ UNCHANGED requests[p].currentlyAttemptedServerAddress
         \/ ~Tries(p)
      /\ p \in DOMAIN requests' => (requests'[p].timeRequestedPings => ~requests'[p].timeoutAfterSuccess)
  BY <1>1, <1>2 DEF Serves, Tries, PingsFirst
<1>. QED BY <1>1, <1>2, <1>3, OneSentEffect

LEMMA AskedEffect ==
  ASSUME IInv, PingsFirst, NEW a \in Client, NEW p \in Pair, NEW byGuid,
         OnForwardingRequest(a, p, byGuid), Reads(a, ClientRequest, p), ~Serves(p, a)
  PROVE  CoordinatorEffect
<1>1. ASSUME NEW why \in Answer, Refuse(a, p, why) PROVE CoordinatorEffect
  BY <1>1, RefuseEffect
<1>2. ASSUME ~InProgress(p), Accept(a, p) PROVE CoordinatorEffect
  BY <1>2, AcceptEffect DEF InProgress
<1>3. \/ \E why \in {"ID_UDP_PROXY_IN_PROGRESS", "ID_UDP_PROXY_NO_SERVERS_ONLINE",
                     "ID_UDP_PROXY_RECIPIENT_GUID_NOT_CONNECTED_TO_COORDINATOR"} :
           Refuse(a, p, why)
      \/ ~InProgress(p) /\ Accept(a, p)
  BY DEF OnForwardingRequest
<1>. QED BY <1>1, <1>2, <1>3 DEF Answer

LEMMA ReplyEffect ==
  ASSUME IInv, PingsFirst, NEW v \in Server, NEW p \in Pair, NEW result,
         OnForwardingReply(v, p, result), Reads(v, ForwardReply, p), Tries(p)
  PROVE  CoordinatorEffect
<1>1. /\ p \in DOMAIN requests /\ requests[p] \in ForwardingRequest
      /\ IsInjective(requests[p].remainingServersToTry)
      /\ ~requests[p].timeRequestedPings /\ ~requests[p].timeoutAfterSuccess
      /\ requests[p].requestingAddress \in Client
  BY DEF IInv, TypeOK, NoServerAskedTwice, Tries, ForwardingRequest
<1>2. CASE TryNextServer(p, requests[p])
  BY <1>1, <1>2, TryNextServerEffect
<1>3. CASE Succeed(p)
  <2> DEFINE new == [requests[p] EXCEPT !.timeoutAfterSuccess = TRUE]
             m == [to |-> requests[p].requestingAddress, pair |-> p,
                   id |-> "ID_UDP_PROXY_FORWARDING_SUCCEEDED"]
             n == [to |-> p[2], pair |-> p, id |-> "ID_UDP_PROXY_FORWARDING_NOTIFICATION"]
  <2>1. /\ requests' = [q \in DOMAIN requests \cup {p} |-> IF q = p THEN new ELSE requests[q]]
        /\ sent' = <<m, n>>
    BY <1>3 DEF Succeed, Put, ToRequester
  <2>2. new.timeoutAfterSuccess /\ ~new.timeRequestedPings
    BY <1>1 DEF ForwardingRequest
  <2>3. /\ n.id \notin Answer \cup ForwardRequest /\ m.pair = p /\ n.pair = p
        /\ m.id \notin ForwardRequest /\ m.to = requests[p].requestingAddress
    BY Kinds DEF ForwardRequest
  <2> HIDE DEF new, m, n
  <2>4. /\ p \in DOMAIN requests' /\ requests'[p] = new
        /\ \A q \in Pair : q # p =>
             /\ q \in DOMAIN requests' <=> q \in DOMAIN requests
             /\ q \in DOMAIN requests => requests'[q] = requests[q]
    BY <2>1
  <2>5. /\ SendsOne(Answer) /\ SendsOne(ForwardRequest)
        /\ \A b, q : Sends(b, Answer, q) => b = requests[p].requestingAddress /\ q = p
        /\ \A b, q : ~Sends(b, ForwardRequest, q)
        /\ \A i \in 1 .. Len(sent') : sent'[i].pair = p
    BY <2>1, <2>3, TwoSentFacts
  <2>6. About(p)
    BY <2>4, <2>5 DEF About
  <2>7. Effect(p)
    BY <1>1, <2>2, <2>4, <2>5 DEF Effect, Serves
  <2>. QED BY <2>5, <2>6, <2>7, EffectElsewhere DEF CoordinatorEffect
<1>4. CASE EndInProgress(p)
  <2> DEFINE m == [to |-> requests[p].requestingAddress, pair |-> p, id |-> "ID_UDP_PROXY_IN_PROGRESS"]
  <2>1. /\ requests' = [q \in DOMAIN requests \ {p} |-> requests[q]]
        /\ sent' = <<m>>
    BY <1>4 DEF EndInProgress, Drop, ToRequester
  <2>2. m.pair = p /\ m.id \in Answer /\ m.id \notin ForwardRequest /\ m.to = requests[p].requestingAddress
    BY DEF ForwardRequest, Answer
  <2> HIDE DEF m
  <2>3. p \notin DOMAIN requests'
        /\ \A q \in Pair : q # p =>
             /\ q \in DOMAIN requests' <=> q \in DOMAIN requests
             /\ q \in DOMAIN requests => requests'[q] = requests[q]
    BY <2>1
  <2>4. \A c \in Client : (m.to = c => Serves(p, c)) /\ ~Serves(p, c)'
    BY <1>1, <2>2, <2>3 DEF Serves
  <2>. QED BY <2>1, <2>2, <2>3, <2>4, OneSentEffect
<1>. QED BY <1>2, <1>3, <1>4 DEF OnForwardingReply

LEMMA UpdateEffect ==
  ASSUME ProxyIInv, PingsFirst, NEW p \in Pair, CoordinatorUpdates(p)
  PROVE  CoordinatorEffect
<1>1. IInv
  BY DEF ProxyIInv
<1>2. CASE PingsTimeOut(p)
  <2>1. /\ p \in DOMAIN requests /\ requests[p] \in ForwardingRequest
        /\ requests[p].timeRequestedPings /\ ~requests[p].timeoutAfterSuccess
        /\ IsInjective(requests[p].remainingServersToTry)
        /\ requests[p].remainingServersToTry \in Seq(Server)
    BY <1>1, <1>2 DEF PingsTimeOut, IInv, TypeOK, PingsFirst, NoServerAskedTwice, ForwardingRequest
  <2>2. PICK list \in OrderRemainingServersToTry(requests[p].remainingServersToTry, sourcePings[p]) :
          TryNextServer(p, [requests[p] EXCEPT !.timeRequestedPings = FALSE,
                                               !.remainingServersToTry = list])
    BY <1>2 DEF PingsTimeOut
  <2>3. list \in Seq(Server) /\ IsInjective(list)
    BY <2>1, <2>2, OrderFacts
  <2> DEFINE fw == [requests[p] EXCEPT !.timeRequestedPings = FALSE,
                                       !.remainingServersToTry = list]
  <2>4. /\ fw \in ForwardingRequest /\ fw.remainingServersToTry = list
        /\ fw.requestingAddress = requests[p].requestingAddress
        /\ ~fw.timeRequestedPings /\ ~fw.timeoutAfterSuccess
    BY <2>1, <2>3 DEF ForwardingRequest
  <2>5. TryNextServer(p, fw) /\ ~Tries(p)
    BY <2>1, <2>2 DEF Tries
  <2> HIDE DEF fw
  <2>. QED BY <1>1, <2>1, <2>3, <2>4, <2>5, TryNextServerEffect
<1>3. CASE ForgetSuccess(p)
  <2>1. /\ requests' = [q \in DOMAIN requests \ {p} |-> requests[q]]
        /\ sent' = <<>> /\ p \in DOMAIN requests /\ requests[p].timeoutAfterSuccess
    BY <1>3 DEF ForgetSuccess, Drop
  <2>2. 1 .. Len(sent') = {}
    BY <2>1
  <2>3. About(p) /\ SendsOne(Answer) /\ SendsOne(ForwardRequest)
    BY <2>1, <2>2 DEF About, SendsOne
  <2>4. Effect(p)
    BY <2>1, <2>2 DEF Effect, Sends, Serves, Tries
  <2>. QED BY <2>3, <2>4, EffectElsewhere DEF CoordinatorEffect
<1>. QED BY <1>2, <1>3 DEF CoordinatorUpdates

OutcomesGood ==
  /\ NothingLost /\ PingsFirst
  /\ \A c \in Client, p \in Pair : OutcomeUnderWay(c, p)
  /\ \A v \in Server, p \in Pair : AttemptUnderWay(v, p)

LEMMA QueueTypes ==
  ASSUME ProxyIInv, NEW a \in Address
  PROVE  toCoordinator[a] \in Seq(ToCoordinatorMessage) /\ toSystem[a] \in Seq(Message)
BY DEF ProxyIInv, NetworkTypeOK

\* What is read was under way.
LEMMA ReadFacts ==
  ASSUME ProxyIInv, NEW a \in Address, NEW ids, NEW p, Reads(a, ids, p)
  PROVE  /\ HasFor(toCoordinator[a], ids, p)
         /\ HasOneFor(toCoordinator[a], ids, p) => ~HasFor(toCoordinator'[a], ids, p)
<1>1. toCoordinator'[a] = Tail(toCoordinator[a]) /\ toCoordinator[a] # <<>>
  BY QueueTypes DEF Reads, Consume, ProxyIInv, NetworkTypeOK
<1> DEFINE queue == toCoordinator[a]
<1>2. queue \in Seq(ToCoordinatorMessage) /\ Head(queue).id \in ids /\ Head(queue).pair = p
  BY QueueTypes DEF Reads
<1>3. /\ HasFor(queue, ids, p)
      /\ HasOneFor(queue, ids, p) => ~HasFor(Tail(queue), ids, p)
  <2> HIDE DEF queue
  <2>1. queue # <<>>
    BY <1>1 DEF queue
  <2>. QED BY <1>2, <2>1, TailHasFor
<1>. QED BY <1>1, <1>3

LEMMA ReceivesEffect ==
  ASSUME ProxyIInv, OutcomesGood, NEW a \in Address, CoordinatorReceives(a)
  PROVE  CoordinatorEffect
<1> DEFINE m == Head(toCoordinator[a])
<1>1. /\ toCoordinator[a] \in Seq(ToCoordinatorMessage) /\ toCoordinator[a] # <<>> /\ Consume(a)
      /\ IInv /\ PingsFirst
  BY QueueTypes DEF ProxyIInv, CoordinatorReceives, OutcomesGood
<1>2. m \in ToCoordinatorMessage /\ SentBy(a, m)
  <2>1. m = toCoordinator[a][1] /\ 1 \in 1 .. Len(toCoordinator[a])
    BY <1>1
  <2>. QED BY <1>1, <2>1 DEF ProxyIInv
<1>3. \A ids, p : m.id \in ids /\ m.pair = p => Reads(a, ids, p)
  BY <1>1 DEF Reads
<1> HIDE DEF m
<1>4. CASE /\ m.id = "ID_UDP_PROXY_FORWARDING_REQUEST_FROM_CLIENT_TO_COORDINATOR"
           /\ OnForwardingRequest(a, m.pair, m.byGuid)
  <2>1. m.pair \in Pair
    BY <1>2, <1>4, ToCoordinatorKinds
  <2>2. a \in Client
    BY <1>2, <1>4, AskAssumption DEF SentBy
  <2>3. Reads(a, ClientRequest, m.pair)
    BY <1>3, <1>4 DEF ClientRequest
  <2>4. ~Serves(m.pair, a)
    BY <2>1, <2>2, <2>3, ReadFacts DEF OutcomesGood, OutcomeUnderWay
  <2>. QED BY <1>1, <1>4, <2>1, <2>2, <2>3, <2>4, AskedEffect
<1>5. CASE /\ m.id = "ID_UDP_PROXY_FORWARDING_REPLY_FROM_SERVER_TO_COORDINATOR"
           /\ OnForwardingReply(a, m.pair, m.result)
  <2>1. a \in Server /\ m.pair \in Pair
    BY <1>2, <1>5, ToCoordinatorKinds DEF SentBy
  <2>2. Reads(a, ForwardReply, m.pair)
    BY <1>3, <1>5 DEF ForwardReply
  <2>3. Tries(m.pair)
    BY <2>1, <2>2, ReadFacts DEF OutcomesGood, AttemptUnderWay
  <2>. QED BY <1>1, <1>5, <2>1, <2>2, <2>3, ReplyEffect
<1>6. ASSUME NEW id \in LoginAnswer, OnLoginRequest(a, id) PROVE CoordinatorEffect
  <2>1. UNCHANGED requests /\ sent' = <<[to |-> a, id |-> id]>>
    BY <1>6 DEF OnLoginRequest
  <2>2. \A i \in 1 .. Len(sent') : sent'[i].id = id
    BY <2>1
  <2>. QED BY <1>1, <2>1, <2>2, Kinds, NothingSentOfRequests
<1>7. ASSUME sent' = <<>>, UNCHANGED requests PROVE CoordinatorEffect
  BY <1>1, <1>7, NothingSentOfRequests
<1>. QED BY <1>4, <1>5, <1>6, <1>7 DEF CoordinatorReceives, OnPingServersReply, m

\* What the coordinator does keeps the outcomes apart, and the attempts.
LEMMA EffectKeepsOutcome ==
  ASSUME ProxyIInv, OutcomesGood, NEW c \in Client, NEW p \in Pair, CoordinatorEffect, Deliver,
         sent' \in Seq(Message), UNCHANGED <<connected, pending>>,
         \/ UNCHANGED toCoordinator
         \/ \E a \in Address : toCoordinator[a] # <<>> /\ Consume(a)
  PROVE  OutcomeUnderWay(c, p)'
<1>1. c \in Address /\ SendsOne(Answer) /\ Effect(p) /\ OutcomeUnderWay(c, p)
  BY ClientsAndServers DEF CoordinatorEffect, OutcomesGood
<1>2. NoMore(toCoordinator'[c], toCoordinator[c], ClientRequest, p)
  <2>1. \/ toCoordinator'[c] = toCoordinator[c]
        \/ toCoordinator[c] # <<>> /\ toCoordinator'[c] = Tail(toCoordinator[c])
    BY <1>1 DEF Consume, ProxyIInv, NetworkTypeOK
  <2>. QED BY <1>1, <2>1, QueueTypes, TailHasFor DEF NoMore
<1>3. Reads(c, ClientRequest, p) =>
        HasFor(toCoordinator[c], ClientRequest, p) /\ ~HasFor(toCoordinator'[c], ClientRequest, p)
  BY <1>1, ReadFacts DEF OutcomeUnderWay
<1>4. /\ HasFor(toSystem'[c], Answer, p) => HasFor(toSystem[c], Answer, p) \/ Sends(c, Answer, p)
      /\ HasOneFor(toSystem[c], Answer, p) /\ ~(HasFor(toSystem[c], Answer, p) /\ Sends(c, Answer, p))
           => HasOneFor(toSystem'[c], Answer, p)
  BY <1>1, DeliveredFor
<1>5. /\ Sends(c, Answer, p) => (Reads(c, ClientRequest, p) \/ Serves(p, c)) /\ ~Serves(p, c)'
      /\ Serves(p, c)' => Serves(p, c) \/ Reads(c, ClientRequest, p)
  BY <1>1 DEF Effect
<1>. QED BY <1>1, <1>2, <1>3, <1>4, <1>5 DEF OutcomeUnderWay, NoMore

LEMMA EffectKeepsAttempt ==
  ASSUME ProxyIInv, OutcomesGood, NEW v \in Server, NEW p \in Pair, CoordinatorEffect, Deliver,
         sent' \in Seq(Message), UNCHANGED connected,
         \/ UNCHANGED toCoordinator
         \/ \E a \in Address : toCoordinator[a] # <<>> /\ Consume(a)
  PROVE  AttemptUnderWay(v, p)'
<1>1. v \in Address /\ SendsOne(ForwardRequest) /\ Effect(p) /\ AttemptUnderWay(v, p)
  BY ClientsAndServers DEF CoordinatorEffect, OutcomesGood
<1>2. NoMore(toCoordinator'[v], toCoordinator[v], ForwardReply, p)
  <2>1. \/ toCoordinator'[v] = toCoordinator[v]
        \/ toCoordinator[v] # <<>> /\ toCoordinator'[v] = Tail(toCoordinator[v])
    BY <1>1 DEF Consume, ProxyIInv, NetworkTypeOK
  <2>. QED BY <1>1, <2>1, QueueTypes, TailHasFor DEF NoMore
<1>3. ASSUME NEW w \in Server, Reads(w, ForwardReply, p)
      PROVE  ~HasFor(toCoordinator'[v], ForwardReply, p) /\ ~HasFor(toSystem[v], ForwardRequest, p)
  <2>1. w \in Address /\ AttemptUnderWay(w, p)
    BY ClientsAndServers DEF OutcomesGood
  <2>2. HasFor(toCoordinator[w], ForwardReply, p) /\ ~HasFor(toCoordinator'[w], ForwardReply, p)
    BY <1>3, <2>1, ReadFacts DEF AttemptUnderWay
  <2>3. /\ requests[p].currentlyAttemptedServerAddress = w
        /\ ~HasFor(toSystem[w], ForwardRequest, p)
    BY <2>1, <2>2 DEF AttemptUnderWay
  <2>4. CASE w = v
    BY <2>2, <2>3, <2>4
  <2>5. CASE w # v
    BY <1>1, <1>2, <2>3, <2>5 DEF AttemptUnderWay, NoMore
  <2>. QED BY <2>4, <2>5
<1>4. /\ HasFor(toSystem'[v], ForwardRequest, p) =>
           HasFor(toSystem[v], ForwardRequest, p) \/ Sends(v, ForwardRequest, p)
      /\ HasOneFor(toSystem[v], ForwardRequest, p)
           /\ ~(HasFor(toSystem[v], ForwardRequest, p) /\ Sends(v, ForwardRequest, p))
           => HasOneFor(toSystem'[v], ForwardRequest, p)
  BY <1>1, DeliveredFor
<1>5. /\ \/ Tries(p) /\ Tries(p)' /\ UNCHANGED requests[p].currentlyAttemptedServerAddress
         \/ ~Tries(p)
         \/ \E w \in Server : Reads(w, ForwardReply, p)
      /\ Sends(v, ForwardRequest, p) =>
           /\ ~Tries(p) \/ \E w \in Server : Reads(w, ForwardReply, p)
           /\ Tries(p)' /\ requests'[p].currentlyAttemptedServerAddress = v
  BY <1>1 DEF Effect
<1>6. CASE \E w \in Server : Reads(w, ForwardReply, p)
  BY <1>1, <1>2, <1>3, <1>4, <1>5, <1>6 DEF AttemptUnderWay, NoMore
<1>7. CASE ~Tries(p)
  BY <1>1, <1>2, <1>4, <1>5, <1>7 DEF AttemptUnderWay, NoMore
<1>8. CASE /\ Tries(p) /\ Tries(p)' /\ UNCHANGED requests[p].currentlyAttemptedServerAddress
           /\ ~Sends(v, ForwardRequest, p)
  BY <1>1, <1>2, <1>4, <1>8 DEF AttemptUnderWay, NoMore
<1>. QED BY <1>5, <1>6, <1>7, <1>8

LEMMA CoordinatorKeepsOutcomes ==
  ASSUME ProxyIInv, OutcomesGood,
         \/ \E a \in Address : CoordinatorReceives(a)
         \/ CoordinatorLoops
         \/ \E p \in Pair : CoordinatorUpdates(p)
  PROVE  OutcomesGood' /\ UNCHANGED left
<1>1. /\ UNCHANGED <<connected, joined, serverVars, clientVars, left>>
      /\ Deliver
      /\ UNCHANGED toCoordinator \/ \E a \in Address : toCoordinator[a] # <<>> /\ Consume(a)
  BY CoordinatorLeaves
<1>2. closing = {} /\ toVisit = {}
  BY DEF OutcomesGood, NothingLost, Idle, ProxyIInv, IInv, OneHandler
<1>3. ~CoordinatorLoops
  BY <1>2 DEF CoordinatorLoops, VisitRequest, RemoveServer, NextIn
<1>4. CoordinatorEffect
  BY <1>3, ReceivesEffect, UpdateEffect DEF OutcomesGood
<1>5. closing' = {}
  <2>1. ASSUME NEW a \in Address, CoordinatorReceives(a) PROVE UNCHANGED closing
    BY <2>1 DEF CoordinatorReceives, OnForwardingRequest, OnPingServersReply, OnLoginRequest,
                OnForwardingReply, pcVars
  <2>2. ASSUME NEW p \in Pair, CoordinatorUpdates(p) PROVE UNCHANGED closing
    BY <2>2 DEF CoordinatorUpdates, PingsTimeOut, ForgetSuccess, pcVars
  <2>. QED BY <1>2, <1>3, <2>1, <2>2
<1>6. sent' \in Seq(Message) /\ DOMAIN requests' \subseteq Pair
  <2>1. Next \/ CollectsOrDrops
    BY <1>3, ReceivesIsStep DEF CoordinatorUpdates, Next
  <2>. QED BY <2>1, StepKeepsIInv DEF CoordinatorStep, ProxyIInv, IInv, TypeOK
<1>7. PingsFirst'
  BY <1>4, <1>6 DEF CoordinatorEffect, Effect, PingsFirst
<1>8. NothingLost'
  BY <1>1, <1>5 DEF OutcomesGood, NothingLost, Idle
<1>9. pending' = pending
  BY <1>1 DEF clientVars
<1>. QED BY <1>1, <1>4, <1>6, <1>7, <1>8, <1>9, EffectKeepsOutcome, EffectKeepsAttempt DEF OutcomesGood

-----------------------------------------------------------------------------
(* What servers and clients do *)

\* A system reads a message, or none does.
SystemReads ==
  \/ UNCHANGED toSystem
  \/ \E a \in Address : toSystem[a] # <<>> /\ toSystem' = [toSystem EXCEPT ![a] = Tail(@)]

LEMMA SystemReadsFacts ==
  ASSUME ProxyIInv, SystemReads, NEW a \in Address, NEW ids, NEW p
  PROVE  NoMore(toSystem'[a], toSystem[a], ids, p)
<1>1. \/ toSystem'[a] = toSystem[a]
      \/ toSystem[a] # <<>> /\ toSystem'[a] = Tail(toSystem[a])
  BY DEF SystemReads, ProxyIInv, NetworkTypeOK
<1>. QED BY <1>1, QueueTypes, TailHasFor DEF NoMore

LEMMA SendForFacts ==
  ASSUME ProxyIInv, NEW a \in Address, NEW m \in ToCoordinatorMessage, SentBy(a, m),
         SendToCoordinator(a, m), UNCHANGED connected, NEW b \in Address, NEW ids, NEW p
  PROVE  LET about == b = a /\ m.id \in ids /\ m.pair = p
         IN /\ HasFor(toCoordinator'[b], ids, p) => HasFor(toCoordinator[b], ids, p) \/ about
            /\ HasOneFor(toCoordinator[b], ids, p) /\ ~(HasFor(toCoordinator[b], ids, p) /\ about)
                 => HasOneFor(toCoordinator'[b], ids, p)
<1> DEFINE queue == toCoordinator[b]
           long == Append(queue, m)
<1>1. \/ toCoordinator'[b] = queue
      \/ b = a /\ toCoordinator'[b] = long
  BY SendFacts
<1>2. queue \in Seq(ToCoordinatorMessage)
  BY QueueTypes
<1> HIDE DEF queue
<1>3. /\ HasFor(long, ids, p) => HasFor(queue, ids, p) \/ (m.id \in ids /\ m.pair = p)
      /\ HasOneFor(queue, ids, p) /\ ~(HasFor(queue, ids, p) /\ m.id \in ids /\ m.pair = p)
           => HasOneFor(long, ids, p)
  BY <1>2, AppendHasFor
<1> HIDE DEF long
<1>. QED BY <1>1, <1>3 DEF queue

\* A step that adds nothing of c's, or the server's, to the queues keeps both.
LEMMA QueuesKeepOutcome ==
  ASSUME NEW c \in Client, NEW p \in Pair, OutcomeUnderWay(c, p), UNCHANGED requests,
         NoMore(toCoordinator'[c], toCoordinator[c], ClientRequest, p),
         NoMore(toSystem'[c], toSystem[c], Answer, p),
         \/ <<c, p>> \in pending => <<c, p>> \in pending'
         \/ HasFor(toSystem[c], Answer, p) /\ ~HasFor(toSystem'[c], Answer, p)
  PROVE  OutcomeUnderWay(c, p)'
BY DEF OutcomeUnderWay, NoMore, Serves

LEMMA QueuesKeepAttempt ==
  ASSUME NEW v \in Server, NEW p \in Pair, AttemptUnderWay(v, p), UNCHANGED requests,
         NoMore(toCoordinator'[v], toCoordinator[v], ForwardReply, p),
         NoMore(toSystem'[v], toSystem[v], ForwardRequest, p)
  PROVE  AttemptUnderWay(v, p)'
BY DEF AttemptUnderWay, NoMore, Tries

LEMMA OthersKeepOutcomes ==
  ASSUME ProxyIInv, OutcomesGood,
         UNCHANGED <<connected, requests, closing, joined, pending>>, left'.systems = left.systems,
         SystemReads,
         \/ UNCHANGED toCoordinator
         \/ \E a \in Address : \E m \in ToCoordinatorMessage :
              SentBy(a, m) /\ m.id \notin ClientRequest \cup ForwardReply /\ SendToCoordinator(a, m)
  PROVE  OutcomesGood'
<1>1. NothingLost' /\ PingsFirst'
  BY DEF OutcomesGood, NothingLost, PingsFirst, Idle
<1>2. ASSUME NEW b \in Address, NEW p, NEW ids \in {ClientRequest, ForwardReply}
      PROVE  NoMore(toCoordinator'[b], toCoordinator[b], ids, p)
  <2>1. CASE UNCHANGED toCoordinator
    BY <2>1 DEF NoMore
  <2>2. ASSUME NEW a \in Address, NEW m \in ToCoordinatorMessage, SentBy(a, m),
               m.id \notin ClientRequest \cup ForwardReply, SendToCoordinator(a, m)
        PROVE  NoMore(toCoordinator'[b], toCoordinator[b], ids, p)
    <3>1. m.id \notin ids
      BY <1>2, <2>2
    <3>. QED BY <2>2, <3>1, SendForFacts DEF NoMore
  <2>. QED BY <2>1, <2>2
<1>3. ASSUME NEW c \in Client, NEW p \in Pair PROVE OutcomeUnderWay(c, p)'
  <2>1. c \in Address /\ OutcomeUnderWay(c, p)
    BY ClientsAndServers DEF OutcomesGood
  <2>. QED BY <1>2, <2>1, SystemReadsFacts, QueuesKeepOutcome
<1>4. ASSUME NEW v \in Server, NEW p \in Pair PROVE AttemptUnderWay(v, p)'
  <2>1. v \in Address /\ AttemptUnderWay(v, p)
    BY ClientsAndServers DEF OutcomesGood
  <2>. QED BY <1>2, <2>1, SystemReadsFacts, QueuesKeepAttempt
<1>. QED BY <1>1, <1>3, <1>4 DEF OutcomesGood

LEMMA ToCoordinatorIds ==
  /\ ClientRequest \cap ForwardReply = {}
  /\ "ID_UDP_PROXY_PING_SERVERS_REPLY_FROM_CLIENT_TO_COORDINATOR" \notin ClientRequest \cup ForwardReply
  /\ "ID_UDP_PROXY_LOGIN_REQUEST_FROM_SERVER_TO_COORDINATOR" \notin ClientRequest \cup ForwardReply
BY DEF ClientRequest, ForwardReply

\* Server w answers a request of the coordinator.
LEMMA ForwardKeepsOutcomes ==
  ASSUME ProxyIInv, OutcomesGood, NEW w \in Server, toSystem[w] # <<>>,
         Head(toSystem[w]).id \in ForwardRequest,
         OnForwardingRequestFromCoordinatorToServer(w, Head(toSystem[w]).pair),
         toSystem' = [toSystem EXCEPT ![w] = Tail(@)],
         UNCHANGED <<connected, requests, closing, joined, pending, left>>
  PROVE  OutcomesGood'
<1> DEFINE m == Head(toSystem[w])
           q == m.pair
<1>1. w \in Address /\ SystemReads /\ toSystem[w] \in Seq(Message) /\ m \in Message
  BY ClientsAndServers, QueueTypes, TailHas DEF SystemReads
<1>2. q \in Pair
  BY <1>1, MessageKinds
<1>3. PICK result \in StartForwarding(w, q) :
        SendToCoordinator(w, [id |-> "ID_UDP_PROXY_FORWARDING_REPLY_FROM_SERVER_TO_COORDINATOR",
                              pair |-> q, result |-> result])
  BY DEF OnForwardingRequestFromCoordinatorToServer
<1> DEFINE reply == [id |-> "ID_UDP_PROXY_FORWARDING_REPLY_FROM_SERVER_TO_COORDINATOR",
                     pair |-> q, result |-> result]
<1>4. result \in UDPForwarderResult
  BY DEF StartForwarding, UDPForwarderResult
<1>5. /\ reply \in ToCoordinatorMessage /\ SentBy(w, reply) /\ reply.id \in ForwardReply
      /\ reply.pair = q /\ SendToCoordinator(w, reply)
  BY <1>2, <1>3, <1>4 DEF ToCoordinatorMessage, SentBy, ForwardReply
<1>6. /\ HasFor(toSystem[w], ForwardRequest, q)
      /\ HasOneFor(toSystem[w], ForwardRequest, q) => ~HasFor(toSystem'[w], ForwardRequest, q)
  <2> DEFINE queue == toSystem[w]
  <2>1. toSystem'[w] = Tail(queue)
    BY <1>1 DEF ProxyIInv, NetworkTypeOK
  <2>2. /\ HasFor(queue, ForwardRequest, q)
        /\ HasOneFor(queue, ForwardRequest, q) => ~HasFor(Tail(queue), ForwardRequest, q)
    BY <1>1, TailHasFor
  <2>. QED BY <2>1, <2>2
<1> HIDE DEF reply, q, m
<1>7. NothingLost' /\ PingsFirst'
  BY DEF OutcomesGood, NothingLost, PingsFirst, Idle
<1>8. ASSUME NEW c \in Client, NEW p \in Pair PROVE OutcomeUnderWay(c, p)'
  <2>1. c \in Address /\ OutcomeUnderWay(c, p)
    BY ClientsAndServers DEF OutcomesGood
  <2>2. reply.id \notin ClientRequest
    BY <1>5, ToCoordinatorIds
  <2>3. NoMore(toCoordinator'[c], toCoordinator[c], ClientRequest, p)
    BY <1>1, <1>5, <2>1, <2>2, SendForFacts DEF NoMore
  <2>. QED BY <1>1, <2>1, <2>3, SystemReadsFacts, QueuesKeepOutcome
<1>9. ASSUME NEW v \in Server, NEW p \in Pair PROVE AttemptUnderWay(v, p)'
  <2>1. v \in Address /\ AttemptUnderWay(v, p)
    BY ClientsAndServers DEF OutcomesGood
  <2>2. /\ HasFor(toCoordinator'[v], ForwardReply, p) =>
             HasFor(toCoordinator[v], ForwardReply, p) \/ (v = w /\ p = q)
        /\ HasOneFor(toCoordinator[v], ForwardReply, p)
             /\ ~(HasFor(toCoordinator[v], ForwardReply, p) /\ v = w /\ p = q)
             => HasOneFor(toCoordinator'[v], ForwardReply, p)
    BY <1>1, <1>5, <2>1, SendForFacts
  <2>3. NoMore(toSystem'[v], toSystem[v], ForwardRequest, p)
    BY <1>1, <2>1, SystemReadsFacts
  <2>. QED BY <1>6, <2>1, <2>2, <2>3 DEF AttemptUnderWay, NoMore, Tries
<1>. QED BY <1>7, <1>8, <1>9 DEF OutcomesGood

\* A client asks, for the first time or when it has had its outcome.
LEMMA RequestKeepsOutcomes ==
  ASSUME ProxyIInv, OutcomesGood, left \in Left, NEW ask \in Ask, NEW byGuid \in ByGuid,
         RequestForwarding(ask[1], <<ask[2], ask[3]>>, byGuid)
  PROVE  OutcomesGood'
<1> DEFINE c == ask[1]
           q == <<ask[2], ask[3]>>
           m == [id |-> "ID_UDP_PROXY_FORWARDING_REQUEST_FROM_CLIENT_TO_COORDINATOR",
                 pair |-> q, byGuid |-> byGuid]
<1>1. c \in Client /\ q \in Pair /\ byGuid \in BOOLEAN /\ <<c, q[1], q[2]>> = ask
  BY AskAssumption, ByGuidAssumption DEF Pair
<1>2. /\ m \in ToCoordinatorMessage /\ SentBy(c, m) /\ m.id \in ClientRequest /\ m.pair = q
  BY <1>1 DEF ToCoordinatorMessage, SentBy, ClientRequest
<1>3. /\ SendToCoordinator(c, m) /\ pending' = pending \cup {<<c, q>>} /\ <<c, q>> \notin pending
      /\ left' = [left EXCEPT !.requests = @ - 1]
      /\ UNCHANGED <<connected, requests, closing, joined, toSystem>>
  BY DEF RequestForwarding, NothingFromCoordinator, vars, pcVars
<1> HIDE DEF c, q, m
<1>4. left'.systems = left.systems /\ SystemReads
  BY <1>3 DEF Left, SystemReads
<1>5. NothingLost' /\ PingsFirst'
  BY <1>3, <1>4 DEF OutcomesGood, NothingLost, PingsFirst, Idle
<1>6. ASSUME NEW d \in Client, NEW p \in Pair PROVE OutcomeUnderWay(d, p)'
  <2>1. c \in Address /\ d \in Address /\ OutcomeUnderWay(d, p)
    BY <1>1, ClientsAndServers DEF OutcomesGood
  <2>2. /\ HasFor(toCoordinator'[d], ClientRequest, p) =>
             HasFor(toCoordinator[d], ClientRequest, p) \/ (d = c /\ p = q)
        /\ HasOneFor(toCoordinator[d], ClientRequest, p)
             /\ ~(HasFor(toCoordinator[d], ClientRequest, p) /\ d = c /\ p = q)
             => HasOneFor(toCoordinator'[d], ClientRequest, p)
    BY <1>2, <1>3, <2>1, SendForFacts
  <2>. QED BY <1>3, <2>1, <2>2 DEF OutcomeUnderWay, Serves
<1>7. ASSUME NEW v \in Server, NEW p \in Pair PROVE AttemptUnderWay(v, p)'
  <2>1. v \in Address /\ c \in Address /\ AttemptUnderWay(v, p)
    BY <1>1, ClientsAndServers DEF OutcomesGood
  <2>2. m.id \notin ForwardReply
    BY <1>2, ToCoordinatorIds
  <2>3. NoMore(toCoordinator'[v], toCoordinator[v], ForwardReply, p)
    BY <1>2, <1>3, <2>1, <2>2, SendForFacts DEF NoMore
  <2>. QED BY <1>3, <1>4, <2>1, <2>3, SystemReadsFacts, QueuesKeepAttempt
<1>. QED BY <1>5, <1>6, <1>7 DEF OutcomesGood

\* A client gets an outcome.
LEMMA AnswerKeepsOutcomes ==
  ASSUME ProxyIInv, OutcomesGood, NEW c \in Client, toSystem[c] # <<>>,
         Head(toSystem[c]).id \in Answer, pending' = pending \ {<<c, Head(toSystem[c]).pair>>},
         toSystem' = [toSystem EXCEPT ![c] = Tail(@)],
         UNCHANGED <<connected, requests, closing, joined, toCoordinator, left>>
  PROVE  OutcomesGood'
<1> DEFINE q == Head(toSystem[c]).pair
<1>1. c \in Address /\ SystemReads /\ toSystem[c] \in Seq(Message)
  BY ClientsAndServers, QueueTypes DEF SystemReads
<1>2. /\ HasFor(toSystem[c], Answer, q)
      /\ HasOneFor(toSystem[c], Answer, q) => ~HasFor(toSystem'[c], Answer, q)
  <2> DEFINE queue == toSystem[c]
  <2>1. toSystem'[c] = Tail(queue)
    BY <1>1 DEF ProxyIInv, NetworkTypeOK
  <2>2. /\ HasFor(queue, Answer, q)
        /\ HasOneFor(queue, Answer, q) => ~HasFor(Tail(queue), Answer, q)
    BY <1>1, TailHasFor
  <2>. QED BY <2>1, <2>2
<1> HIDE DEF q
<1>3. NothingLost' /\ PingsFirst'
  BY DEF OutcomesGood, NothingLost, PingsFirst, Idle
<1>4. \A b, ids, p : NoMore(toCoordinator'[b], toCoordinator[b], ids, p)
  BY DEF NoMore
<1>5. ASSUME NEW d \in Client, NEW p \in Pair PROVE OutcomeUnderWay(d, p)'
  <2>1. d \in Address /\ OutcomeUnderWay(d, p)
    BY ClientsAndServers DEF OutcomesGood
  <2>2. \/ <<d, p>> \in pending => <<d, p>> \in pending'
        \/ d = c /\ p = q
    BY DEF q
  <2>3. d = c /\ p = q => HasFor(toSystem[d], Answer, p) /\ ~HasFor(toSystem'[d], Answer, p)
    BY <1>2, <2>1 DEF OutcomeUnderWay
  <2>. QED BY <1>1, <1>4, <2>1, <2>2, <2>3, SystemReadsFacts, QueuesKeepOutcome
<1>6. ASSUME NEW v \in Server, NEW p \in Pair PROVE AttemptUnderWay(v, p)'
  <2>1. v \in Address /\ AttemptUnderWay(v, p)
    BY ClientsAndServers DEF OutcomesGood
  <2>. QED BY <1>1, <1>4, <2>1, SystemReadsFacts, QueuesKeepAttempt
<1>. QED BY <1>3, <1>5, <1>6 DEF OutcomesGood

LEMMA ServersKeepOutcomes ==
  ASSUME ProxyIInv, OutcomesGood, NEW w \in Server,
         LoginToCoordinator(w) \/ ServerReceives(w) \/ ForwardTimesOut(w)
  PROVE  OutcomesGood' /\ UNCHANGED left
<1>1. UNCHANGED <<connected, requests, closing, joined, pending, left>> /\ w \in Address
  BY ClientsAndServers
     DEF LoginToCoordinator, ServerReceives, ForwardTimesOut, NothingFromCoordinator, vars, pcVars,
         clientVars
<1>2. CASE LoginToCoordinator(w)
  <2> DEFINE m == [id |-> "ID_UDP_PROXY_LOGIN_REQUEST_FROM_SERVER_TO_COORDINATOR"]
  <2>1. SendToCoordinator(w, m) /\ SystemReads
    BY <1>2 DEF LoginToCoordinator, NothingFromCoordinator, SystemReads
  <2>2. m \in ToCoordinatorMessage /\ SentBy(w, m) /\ m.id \notin ClientRequest \cup ForwardReply
    BY ToCoordinatorIds DEF ToCoordinatorMessage, SentBy
  <2> HIDE DEF m
  <2>. QED BY <1>1, <2>1, <2>2, OthersKeepOutcomes
<1>3. CASE ServerReceives(w)
  <2>1. /\ toSystem[w] # <<>> /\ toSystem' = [toSystem EXCEPT ![w] = Tail(@)]
        /\ \/ UNCHANGED toCoordinator
           \/ /\ Head(toSystem[w]).id \in ForwardRequest
              /\ OnForwardingRequestFromCoordinatorToServer(w, Head(toSystem[w]).pair)
    BY <1>3 DEF ServerReceives, ForwardRequest
  <2>2. SystemReads
    BY <1>1, <2>1 DEF SystemReads
  <2>. QED BY <1>1, <2>1, <2>2, OthersKeepOutcomes, ForwardKeepsOutcomes
<1>4. CASE ForwardTimesOut(w)
  BY <1>1, <1>4, OthersKeepOutcomes DEF ForwardTimesOut, queues, SystemReads
<1>. QED BY <1>2, <1>3, <1>4, <1>1

LEMMA ClientsKeepOutcomes ==
  ASSUME ProxyIInv, OutcomesGood, NEW c \in Client,
         \/ ClientReceives(c) \/ GroupTimesOut(c)
         \/ \E w \in Server, ping \in Ping \ {Unresponsive} : OnPong(c, w, ping)
  PROVE  OutcomesGood' /\ UNCHANGED left
<1>1. UNCHANGED <<connected, requests, closing, joined, left>> /\ c \in Address
  BY ClientsAndServers
     DEF ClientReceives, GroupTimesOut, OnPong, NothingFromCoordinator, vars, pcVars
<1>2. ASSUME NEW psg, SendPingedServersToCoordinator(c, psg), UNCHANGED <<toSystem, pending>>,
             psg \in PingServerGroup
      PROVE  OutcomesGood'
  <2> DEFINE m == [id |-> "ID_UDP_PROXY_PING_SERVERS_REPLY_FROM_CLIENT_TO_COORDINATOR",
                   pair |-> psg.sata, reply |-> psg.serversToPing]
  <2>1. m \in ToCoordinatorMessage /\ SentBy(c, m) /\ m.id \notin ClientRequest \cup ForwardReply
    BY <1>2, TypesOfGroups, ToCoordinatorIds DEF SentBy
  <2>2. SendToCoordinator(c, m) /\ SystemReads
    BY <1>2 DEF SendPingedServersToCoordinator, SystemReads
  <2> HIDE DEF m
  <2>. QED BY <1>1, <1>2, <2>1, <2>2, OthersKeepOutcomes
<1>3. CASE ClientReceives(c)
  <2>1. /\ toSystem[c] # <<>> /\ toSystem' = [toSystem EXCEPT ![c] = Tail(@)]
        /\ UNCHANGED toCoordinator
        /\ \/ UNCHANGED pending
           \/ /\ Head(toSystem[c]).id \in Answer
              /\ pending' = pending \ {<<c, Head(toSystem[c]).pair>>}
    BY <1>3 DEF ClientReceives, OnPingServers
  <2>2. SystemReads
    BY <1>1, <2>1 DEF SystemReads
  <2>. QED BY <1>1, <2>1, <2>2, OthersKeepOutcomes, AnswerKeepsOutcomes
<1>4. CASE GroupTimesOut(c)
  <2>1. pingServerGroups[c] \in Seq(PingServerGroup) /\ pingServerGroups[c] # <<>>
    BY <1>4, TypesOfGroups DEF GroupTimesOut
  <2>2. Head(pingServerGroups[c]) \in PingServerGroup
    BY <2>1
  <2>. QED BY <1>1, <1>2, <1>4, <2>2 DEF GroupTimesOut, NothingFromCoordinator
<1>5. ASSUME NEW w \in Server, NEW ping \in Ping, OnPong(c, w, ping) PROVE OutcomesGood'
  <2> DEFINE groups == pingServerGroups[c]
             answered(g) == [groups[g] EXCEPT !.serversToPing =
                               [i \in DOMAIN @ |-> IF @[i].serverAddress = w
                                                   THEN [@[i] EXCEPT !.ping = ping] ELSE @[i]]]
  <2>1. PICK g \in FirstGroupWith(c, w) :
          SendPingedServersToCoordinator(c, answered(g)) \/ UNCHANGED toCoordinator
    BY <1>5 DEF OnPong
  <2>2. UNCHANGED <<toSystem, pending>> /\ SystemReads
    BY <1>5 DEF OnPong, NothingFromCoordinator, SystemReads
  <2>3. CASE SendPingedServersToCoordinator(c, answered(g))
    <3>1. groups \in Seq(PingServerGroup) /\ g \in 1 .. Len(groups)
      BY TypesOfGroups DEF FirstGroupWith
    <3> DEFINE psg == groups[g]
    <3>2. psg \in PingServerGroup
      <4> HIDE DEF groups
      <4>. QED BY <3>1
    <3> HIDE DEF psg
    <3> DEFINE told == [psg EXCEPT !.serversToPing =
                         [i \in DOMAIN @ |-> IF @[i].serverAddress = w
                                             THEN [@[i] EXCEPT !.ping = ping] ELSE @[i]]]
    <3>3. told \in PingServerGroup
      BY <1>5, <3>2, PongTypes
    <3>4. SendPingedServersToCoordinator(c, told)
      BY <2>3 DEF psg
    <3> HIDE DEF told
    <3>. QED BY <1>2, <2>2, <3>3, <3>4
  <2>4. CASE UNCHANGED toCoordinator
    BY <1>1, <2>2, <2>4, OthersKeepOutcomes
  <2>. QED BY <2>1, <2>3, <2>4
<1>. QED BY <1>1, <1>3, <1>4, <1>5

LEMMA OutcomesInductive ==
  /\ ProxyInit => OutcomesIInv
  /\ ProxyIInv /\ OutcomesIInv /\ [ProxyNext]_allVars => OutcomesIInv'
<1>1. ASSUME ProxyInit PROVE OutcomesIInv
  <2>1. /\ left \in Left /\ connected = left.systems /\ joined = left.systems
        /\ closing = {} /\ requests = [p \in {} |-> <<>>]
        /\ toCoordinator = [a \in Address |-> <<>>] /\ toSystem = [a \in Address |-> <<>>]
    BY <1>1, ScenarioAssumption DEF ProxyInit
  <2>2. DOMAIN requests = {}
    BY <2>1
  <2>3. \A a \in Client \cup Server : toCoordinator[a] = <<>> /\ toSystem[a] = <<>>
    BY <2>1 DEF Address
  <2>4. \A ids, p : ~HasFor(<<>>, ids, p) /\ HasOneFor(<<>>, ids, p)
    BY DEF HasFor, HasOneFor
  <2>5. \A p, c : ~Serves(p, c)
    BY <2>2 DEF Serves
  <2>6. \A c \in Client, p \in Pair : OutcomeUnderWay(c, p)
    BY <2>3, <2>4, <2>5 DEF OutcomeUnderWay
  <2>7. \A v \in Server, p \in Pair : AttemptUnderWay(v, p)
    BY <2>3, <2>4 DEF AttemptUnderWay
  <2>. QED BY <2>1, <2>2, <2>6, <2>7 DEF OutcomesIInv, NothingLost, PingsFirst, Idle
<1>2. ASSUME ProxyIInv, OutcomesIInv, [ProxyNext]_allVars PROVE OutcomesIInv'
  <2>1. /\ left \in Left
        /\ left.whole => OutcomesGood
    BY <1>2 DEF OutcomesIInv, OutcomesGood
  <2>2. left' = left /\ (left.whole => OutcomesGood') => OutcomesIInv'
    BY <2>1 DEF OutcomesIInv, OutcomesGood
  <2>3. ASSUME NEW a \in Address, Join(a) \/ CoordinatorLoses(a) \/ SystemLoses(a)
        PROVE  OutcomesIInv'
    <3>1. CASE Join(a)
      <4>1. ~left.whole /\ left' = left
        BY <2>1, <3>1 DEF Join, OutcomesGood, NothingLost
      <4>. QED BY <2>2, <4>1
    <3>2. ASSUME left.losses > 0, left' = [left EXCEPT !.losses = @ - 1, !.whole = FALSE]
          PROVE  OutcomesIInv'
      <4> DEFINE fewer == [left EXCEPT !.losses = @ - 1]
      <4>1. fewer \in Left
        BY <2>1, <3>2 DEF Left
      <4>2. left' = [fewer EXCEPT !.whole = FALSE]
        BY <3>2
      <4> HIDE DEF fewer
      <4>3. left' \in Left /\ ~left'.whole
        BY <4>1, <4>2 DEF Left
      <4>. QED BY <4>3 DEF OutcomesIInv
    <3>3. CASE CoordinatorLoses(a)
      <4>1. CASE a \in joined
        BY <3>2, <3>3, <4>1 DEF CoordinatorLoses, Lose
      <4>2. CASE a \notin joined
        <5>1. a \in connected /\ left' = left
          BY <3>3, <4>2 DEF CoordinatorLoses, OnClosedConnection, Lose
        <5>. QED BY <2>1, <2>2, <4>2, <5>1 DEF OutcomesGood, NothingLost
      <4>. QED BY <4>1, <4>2
    <3>4. CASE SystemLoses(a)
      <4>1. CASE a \in connected
        BY <3>2, <3>4, <4>1 DEF SystemLoses, Lose
      <4>2. CASE a \notin connected
        <5>1. a \in joined /\ left' = left
          BY <3>4, <4>2 DEF SystemLoses, Lose
        <5>. QED BY <2>1, <2>2, <4>2, <5>1 DEF OutcomesGood, NothingLost
      <4>. QED BY <4>1, <4>2
    <3>. QED BY <2>3, <3>1, <3>3, <3>4
  <2>4. ASSUME \/ \E a \in Address : CoordinatorReceives(a)
               \/ CoordinatorLoops
               \/ \E p \in Pair : CoordinatorUpdates(p)
        PROVE  OutcomesIInv'
    <3>1. left' = left
      BY <2>4, CoordinatorLeaves
    <3>. QED BY <1>2, <2>1, <2>2, <2>4, <3>1, CoordinatorKeepsOutcomes
  <2>5. ASSUME NEW v \in Server, LoginToCoordinator(v) \/ ServerReceives(v) \/ ForwardTimesOut(v)
        PROVE  OutcomesIInv'
    <3>1. left' = left
      BY <2>5 DEF LoginToCoordinator, ServerReceives, ForwardTimesOut
    <3>. QED BY <1>2, <2>1, <2>2, <2>5, <3>1, ServersKeepOutcomes
  <2>6. ASSUME NEW c \in Client,
               \/ ClientReceives(c) \/ GroupTimesOut(c)
               \/ \E v \in Server, ping \in Ping \ {Unresponsive} : OnPong(c, v, ping)
        PROVE  OutcomesIInv'
    <3>1. left' = left
      BY <2>6 DEF ClientReceives, GroupTimesOut, OnPong
    <3>. QED BY <1>2, <2>1, <2>2, <2>6, <3>1, ClientsKeepOutcomes
  <2>7. ASSUME NEW ask \in Ask, NEW byGuid \in ByGuid,
               RequestForwarding(ask[1], <<ask[2], ask[3]>>, byGuid)
        PROVE  OutcomesIInv'
    <3>1. left' = [left EXCEPT !.requests = @ - 1] /\ left.requests > 0
      BY <2>7 DEF RequestForwarding
    <3>2. left' \in Left /\ left'.whole = left.whole
      BY <2>1, <3>1 DEF Left
    <3>3. left.whole => OutcomesGood'
      BY <1>2, <2>1, <2>7, RequestKeepsOutcomes
    <3>. QED BY <3>2, <3>3 DEF OutcomesIInv, OutcomesGood
  <2>8. CASE UNCHANGED allVars
    <3>1. /\ UNCHANGED <<connected, requests, closing, joined, pending, toCoordinator, left>>
          /\ SystemReads
      BY <2>8 DEF allVars, vars, pcVars, queues, clientVars, SystemReads
    <3>. QED BY <1>2, <2>1, <2>2, <3>1, OthersKeepOutcomes
  <2>. QED BY <1>2, <2>3, <2>4, <2>5, <2>6, <2>7, <2>8 DEF ProxyNext
<1>. QED BY <1>1, <1>2

\* Until a connection is lost, a request a client has made is under way, served
\* or answered, once, and one server at a time is asked for it.
THEOREM OutcomesInvariant == ProxySpec => []OutcomesIInv
<1>. QED BY OutcomesInductive, ProxyInvariant, PTL DEF ProxySpec

\* Every outcome that reaches a client is one that UDPProxyClient waits for, and
\* the only one for its request, though UDPProxyCoordinator matches the replies of
\* servers by the pair alone and tries one server after another.
THEOREM OneOutcome == ProxySpec => []OneOutcomeUntilLoss
<1>1. OutcomesIInv => OneOutcomeUntilLoss
  BY DEF OutcomesIInv, OutcomeUnderWay, OneOutcomeUntilLoss, OneOutcomePerRequest
<1>. QED BY <1>1, OutcomesInvariant, PTL

=============================================================================
