--------------------- MODULE UDPProxyCoordinator_proofs ---------------------
(***************************************************************************)
(* What holds of UDPProxyCoordinator for every set of clients and servers, *)
(* whatever they ask, reply and report.                                    *)
(***************************************************************************)
EXTENDS UDPProxyCoordinator, TLAPS, SequenceTheorems, WellFoundedInduction

-----------------------------------------------------------------------------
(* Lists of servers *)

\* Popping the first i servers of a list without repetition leaves one that
\* has neither a repetition nor any of the popped servers.
LEMMA ServersAfterFacts ==
  ASSUME NEW S, NEW list \in Seq(S), IsInjective(list), NEW i \in 1 .. Len(list)
  PROVE  /\ ServersAfter(list, i) \in Seq(S)
         /\ IsInjective(ServersAfter(list, i))
         /\ list[i] \notin ToSet(ServersAfter(list, i))
         /\ ToSet(ServersAfter(list, i)) \subseteq ToSet(list)
<1> DEFINE n == Len(list)
           rest == ServersAfter(list, i)
<1>1. /\ n \in Nat /\ DOMAIN list = 1 .. n
      /\ \A j \in 1 .. n : list[j] \in S
      /\ \A j, k \in 1 .. n : list[j] = list[k] => j = k
  BY DEF IsInjective
<1>2. /\ rest \in Seq(S) /\ Len(rest) = n - i
      /\ \A j \in 1 .. n - i : rest[j] = list[i + j]
  <2>1. /\ i + 1 \in Int /\ n \in Int
        /\ \A j \in i + 1 .. n : list[j] \in S
    BY <1>1
  <2>2. /\ rest \in Seq(S)
        /\ Len(rest) = IF i + 1 <= n THEN n - (i + 1) + 1 ELSE 0
        /\ \A j \in 1 .. n - (i + 1) + 1 : rest[j] = list[i + 1 + j - 1]
    BY <2>1, SubSeqProperties DEF ServersAfter
  <2> HIDE DEF rest, n
  <2>3. n - (i + 1) + 1 = n - i /\ \A j \in 1 .. n - i : i + 1 + j - 1 = i + j
    BY <1>1
  <2>4. Len(rest) = n - i
    BY <1>1, <2>2
  <2>. QED BY <2>2, <2>3, <2>4
<1> HIDE DEF rest, n
<1>3. DOMAIN rest = 1 .. n - i
  BY <1>1, <1>2
<1>4. \A j \in 1 .. n - i : i + j \in 1 .. n /\ i + j # i
  BY <1>1
<1>5. IsInjective(rest)
  <2>1. ASSUME NEW j \in 1 .. n - i, NEW k \in 1 .. n - i, rest[j] = rest[k]
        PROVE  j = k
    <3>1. i + j = i + k
      BY <1>1, <1>2, <1>4, <2>1
    <3>. QED BY <1>1, <3>1
  <2>. QED BY <1>3, <2>1 DEF IsInjective
<1>6. \A x : x \in ToSet(rest) <=> \E j \in 1 .. n - i : rest[j] = x
  BY <1>3 DEF ToSet
<1>7. \A x : x \in ToSet(list) <=> \E j \in 1 .. n : list[j] = x
  BY <1>1 DEF ToSet
<1>8. list[i] \notin ToSet(rest)
  BY <1>1, <1>2, <1>4, <1>6 DEF n
<1>9. ToSet(rest) \subseteq ToSet(list)
  BY <1>2, <1>4, <1>6, <1>7
<1>. QED BY <1>2, <1>5, <1>8, <1>9 DEF rest

\* RemoveAtIndexFast removes the server at the index, and no other.
LEMMA RemoveAtIndexFastFacts ==
  ASSUME NEW S, NEW list \in Seq(S), IsInjective(list), NEW i \in 1 .. Len(list)
  PROVE  /\ RemoveAtIndexFast(list, i) \in Seq(S)
         /\ IsInjective(RemoveAtIndexFast(list, i))
         /\ ToSet(RemoveAtIndexFast(list, i)) \subseteq ToSet(list) \ {list[i]}
<1> DEFINE n == Len(list)
           short == RemoveAtIndexFast(list, i)
<1>1. /\ n \in Nat /\ DOMAIN list = 1 .. n /\ i \in 1 .. n
      /\ \A j \in 1 .. n : list[j] \in S
      /\ \A j, k \in 1 .. n : list[j] = list[k] => j = k
  BY DEF IsInjective
<1>2. short = [j \in 1 .. n - 1 |-> IF j = i THEN list[n] ELSE list[j]]
  BY DEF RemoveAtIndexFast
<1> HIDE DEF short, n
<1>3. /\ DOMAIN short = 1 .. n - 1 /\ n - 1 \in Nat
      /\ \A j \in 1 .. n - 1 : j \in 1 .. n /\ n \in 1 .. n /\ j # n
      /\ \A j \in 1 .. n - 1 : short[j] = IF j = i THEN list[n] ELSE list[j]
  BY <1>1, <1>2
<1>4. short \in Seq(S)
  <2>1. short \in [1 .. n - 1 -> S]
    BY <1>1, <1>2, <1>3
  <2>. QED BY <1>3, <2>1
<1>5. IsInjective(short)
  BY <1>1, <1>3 DEF IsInjective
<1>6. \A j \in 1 .. n - 1 : short[j] \in ToSet(list) /\ short[j] # list[i]
  BY <1>1, <1>3 DEF ToSet
<1>7. \A x \in ToSet(short) : \E j \in 1 .. n - 1 : short[j] = x
  BY <1>3 DEF ToSet
<1>8. ToSet(short) \subseteq ToSet(list) \ {list[i]}
  BY <1>6, <1>7
<1>. QED BY <1>4, <1>5, <1>8 DEF short

\* RemoveAtIndexFast removes nothing but the server at the index.
LEMMA RemoveAtIndexFastLeaves ==
  ASSUME NEW S, NEW list \in Seq(S), IsInjective(list), NEW i \in 1 .. Len(list)
  PROVE  ToSet(RemoveAtIndexFast(list, i)) = ToSet(list) \ {list[i]}
<1> DEFINE n == Len(list)
           short == RemoveAtIndexFast(list, i)
<1>1. /\ n \in Nat /\ DOMAIN list = 1 .. n /\ i \in 1 .. n
      /\ \A j, k \in 1 .. n : list[j] = list[k] => j = k
  BY DEF IsInjective
<1>2. short = [j \in 1 .. n - 1 |-> IF j = i THEN list[n] ELSE list[j]]
  BY DEF RemoveAtIndexFast
<1> HIDE DEF short, n
<1>3. /\ DOMAIN short = 1 .. n - 1
      /\ \A j \in 1 .. n - 1 : short[j] = IF j = i THEN list[n] ELSE list[j]
      /\ \A j \in 1 .. n : j # n => j \in 1 .. n - 1
  BY <1>1, <1>2
<1>4. \A j \in 1 .. n : j # i => \E k \in 1 .. n - 1 : short[k] = list[j]
  BY <1>1, <1>3
<1>5. \A x \in ToSet(list) \ {list[i]} : x \in ToSet(short)
  BY <1>1, <1>3, <1>4 DEF ToSet
<1>6. ToSet(short) \subseteq ToSet(list) \ {list[i]}
  BY RemoveAtIndexFastFacts DEF short, n
<1>. QED BY <1>5, <1>6 DEF short

\* A server that logs in comes to the end of the list.
LEMMA AppendFacts ==
  ASSUME NEW S, NEW list \in Seq(S), IsInjective(list), NEW v \in S, v \notin ToSet(list)
  PROVE  /\ Append(list, v) \in Seq(S)
         /\ IsInjective(Append(list, v))
         /\ ToSet(Append(list, v)) = ToSet(list) \cup {v}
<1> DEFINE n == Len(list)
           long == Append(list, v)
<1>1. /\ n \in Nat /\ DOMAIN list = 1 .. n
      /\ \A j, k \in 1 .. n : list[j] = list[k] => j = k
      /\ \A j \in 1 .. n : list[j] # v
  BY DEF IsInjective, ToSet
<1>2. /\ long \in Seq(S) /\ Len(long) = n + 1 /\ DOMAIN long = 1 .. n + 1
      /\ \A j \in 1 .. n : long[j] = list[j]
      /\ long[n + 1] = v
  BY AppendProperties
<1> HIDE DEF long, n
<1>3. \A j \in 1 .. n + 1 : j \in 1 .. n \/ j = n + 1
  BY <1>1
<1>4. 1 .. n \subseteq 1 .. n + 1 /\ n + 1 \in 1 .. n + 1 /\ n + 1 \notin 1 .. n
  BY <1>1
<1>5. IsInjective(long)
  BY <1>1, <1>2, <1>3, <1>4 DEF IsInjective
<1>6. ToSet(long) = ToSet(list) \cup {v}
  BY <1>1, <1>2, <1>3, <1>4 DEF ToSet
<1>. QED BY <1>2, <1>5, <1>6 DEF long

\* A ping is a number, and so is the sum of two of them that has wrapped: the
\* largest 16-bit numbers themselves do not matter.
LEMMA BoundedAreIntegers ==
  ASSUME NEW n \in Int, NEW P \in SUBSET (0 .. n)
  PROVE  P \subseteq Int
  OBVIOUS

LEMMA RemaindersAreIntegers ==
  ASSUME NEW x \in Int, NEW n \in Nat \ {0}
  PROVE  (x + 2000) % n \in Int
  OBVIOUS

LEMMA PingsAreIntegers == Ping \subseteq Int
  BY BoundedAreIntegers, PingAssumption, SMTT(30)

LEMMA SumsAreIntegers == \A x \in Ping : Sum(x) \in Int
  BY PingsAreIntegers, RemaindersAreIntegers, SMTT(30) DEF Sum

\* Ordering the servers that are left makes no server of them twice, and adds
\* none: an index that appears twice would have a sum smaller than itself.
LEMMA OrderFacts ==
  ASSUME NEW S, NEW list \in Seq(S), IsInjective(list), NEW pings,
         NEW order \in OrderRemainingServersToTry(list, pings)
  PROVE  /\ order \in Seq(S)
         /\ IsInjective(order)
         /\ ToSet(order) \subseteq ToSet(list)
<1>1. CASE pings = <<>>
  BY <1>1 DEF OrderRemainingServersToTry
<1>2. CASE pings # <<>>
  <2>0. PICK m \in 1 .. Len(list) :
          \E pos \in [1 .. m -> 1 .. Len(list)] :
            /\ \E at \in PingsRead(pings, Len(list)) : SortedBy(at, pos)
            /\ order = [k \in 1 .. m |-> list[pos[k]]]
    BY <1>2 DEF OrderRemainingServersToTry
  <2>1. PICK pos \in [1 .. m -> 1 .. Len(list)], at \in PingsRead(pings, Len(list)) :
          SortedBy(at, pos) /\ order = [k \in 1 .. m |-> list[pos[k]]]
    BY <2>0
  <2>2. \A i \in 1 .. Len(list) : Sum(at[i]) \in Int
    <3>1. at \in [1 .. Len(list) -> Ping]
      BY DEF PingsRead
    <3>2. \A x \in Ping : Sum(x) \in Int
      BY SumsAreIntegers
    <3>. QED BY <3>1, <3>2
  <2>3. ASSUME NEW j \in 1 .. m, NEW k \in 1 .. m, j < k
        PROVE  pos[j] # pos[k]
    BY <2>1, <2>2, <2>3 DEF SortedBy
  <2>4. \A j, k \in 1 .. m : pos[j] = pos[k] => j = k
    <3>1. \A j, k \in 1 .. m : j < k \/ k < j \/ j = k
      OBVIOUS
    <3>. QED BY <2>3, <3>1
  <2>5. order \in Seq(S)
    <3>1. order \in [1 .. m -> S]
      BY <2>1
    <3>2. m \in Nat
      OBVIOUS
    <3>. QED BY <3>1, <3>2
  <2>6. IsInjective(order)
    BY <2>1, <2>4 DEF IsInjective
  <2>7. ToSet(order) \subseteq ToSet(list)
    BY <2>1 DEF ToSet
  <2>. QED BY <2>5, <2>6, <2>7
<1>. QED BY <1>1, <1>2

-----------------------------------------------------------------------------
(* Requests *)

\* What the invariant says of the requests.
GoodRequests ==
  /\ DOMAIN requests \subseteq Pair
  /\ requests \in [DOMAIN requests -> ForwardingRequest]
  /\ OneForwardPerPair
  /\ RequestersAreConnected
  /\ NoServerAskedTwice

\* TryNextServer changes or removes the request it is called for, and leaves
\* the others alone.
LEMMA TryNextServerFacts ==
  ASSUME TypeOK, NEW p \in DOMAIN requests, NEW fw \in ForwardingRequest,
         IsInjective(fw.remainingServersToTry), TryNextServer(p, fw)
  PROVE  /\ DOMAIN requests' \subseteq DOMAIN requests
         /\ DOMAIN requests \subseteq DOMAIN requests' \cup {p}
         /\ requests' \in [DOMAIN requests' -> ForwardingRequest]
         /\ \A q \in DOMAIN requests' : q # p => requests'[q] = requests[q]
         /\ p \in DOMAIN requests' =>
              LET new == requests'[p]
              IN /\ new.requestingAddress = fw.requestingAddress
                 /\ IsInjective(new.remainingServersToTry)
                 /\ new.currentlyAttemptedServerAddress
                      \notin ToSet(new.remainingServersToTry)
         /\ sent' \in Seq(Message)
<1>. USE DEF TypeOK
<1>1. p \in Pair
  OBVIOUS
<1>2. CASE TryServer(p, fw)
  <2> DEFINE list == fw.remainingServersToTry
  <2>1. PICK i \in 1 .. Len(list) :
          /\ FirstLoggedIn(i, list)
          /\ Put(p, [fw EXCEPT !.currentlyAttemptedServerAddress = list[i],
                               !.remainingServersToTry = ServersAfter(list, i)])
          /\ SendForwardingRequest(list[i], p)
    BY <1>2 DEF TryServer
  <2> DEFINE new == [fw EXCEPT !.currentlyAttemptedServerAddress = list[i],
                               !.remainingServersToTry = ServersAfter(list, i)]
  <2>2. list \in Seq(Server) /\ list[i] \in Server
    BY DEF ForwardingRequest
  <2>3. /\ ServersAfter(list, i) \in Seq(Server)
        /\ IsInjective(ServersAfter(list, i))
        /\ list[i] \notin ToSet(ServersAfter(list, i))
    BY <2>2, ServersAfterFacts
  <2>4. /\ new \in ForwardingRequest
        /\ new.requestingAddress = fw.requestingAddress
        /\ new.remainingServersToTry = ServersAfter(list, i)
        /\ new.currentlyAttemptedServerAddress = list[i]
    BY <2>2, <2>3 DEF ForwardingRequest
  <2>5. requests' = [q \in DOMAIN requests \cup {p} |-> IF q = p THEN new ELSE requests[q]]
    BY <2>1 DEF Put
  <2> HIDE DEF new
  <2>6. sent' \in Seq(Message)
    BY <1>1, <2>1, <2>2 DEF SendForwardingRequest, Message
  <2>. QED BY <2>3, <2>4, <2>5, <2>6
<1>3. CASE GiveUp(p, fw)
  <2>1. requests' = [q \in DOMAIN requests \ {p} |-> requests[q]]
    BY <1>3 DEF GiveUp, Drop
  <2>2. sent' = <<[to |-> fw.requestingAddress, pair |-> p,
                   id |-> "ID_UDP_PROXY_ALL_SERVERS_BUSY"]>>
    BY <1>3 DEF GiveUp, ToRequester
  <2>3. sent' \in Seq(Message)
    BY <1>1, <2>2 DEF ForwardingRequest, Message, Answer
  <2>. QED BY <2>1, <2>3
<1>. QED BY <1>2, <1>3 DEF TryNextServer

\* So a call of it keeps the requests good, ...
LEMMA TryNextServerKeepsGood ==
  ASSUME TypeOK, GoodRequests, NEW p \in DOMAIN requests, NEW fw \in ForwardingRequest,
         IsInjective(fw.remainingServersToTry), TryNextServer(p, fw),
         fw.requestingAddress = requests[p].requestingAddress,
         UNCHANGED connected
  PROVE  GoodRequests'
<1>1. /\ DOMAIN requests' \subseteq DOMAIN requests
      /\ requests' \in [DOMAIN requests' -> ForwardingRequest]
      /\ \A q \in DOMAIN requests' : q # p => requests'[q] = requests[q]
      /\ p \in DOMAIN requests' =>
           /\ requests'[p].requestingAddress = fw.requestingAddress
           /\ IsInjective(requests'[p].remainingServersToTry)
           /\ requests'[p].currentlyAttemptedServerAddress
                \notin ToSet(requests'[p].remainingServersToTry)
  BY TryNextServerFacts
<1>2. OneForwardPerPair'
  BY <1>1 DEF GoodRequests, OneForwardPerPair, Reverse2
<1>3. RequestersAreConnected'
  BY <1>1 DEF GoodRequests, RequestersAreConnected
<1>4. NoServerAskedTwice'
  BY <1>1 DEF GoodRequests, NoServerAskedTwice
<1>. QED BY <1>1, <1>2, <1>3, <1>4 DEF GoodRequests

\* ... and so does the removal of requests.
LEMMA DropKeepsGood ==
  ASSUME GoodRequests, NEW S, Drop(S),
         \A p \in DOMAIN requests \ S : requests[p].requestingAddress \in connected'
  PROVE  GoodRequests'
<1>1. /\ DOMAIN requests' = DOMAIN requests \ S
      /\ \A q \in DOMAIN requests' : requests'[q] = requests[q]
      /\ requests' \in [DOMAIN requests' -> ForwardingRequest]
  BY DEF Drop, GoodRequests
<1>2. OneForwardPerPair'
  BY <1>1 DEF GoodRequests, OneForwardPerPair, Reverse2
<1>3. RequestersAreConnected'
  BY <1>1 DEF GoodRequests, RequestersAreConnected
<1>4. NoServerAskedTwice'
  BY <1>1 DEF GoodRequests, NoServerAskedTwice
<1>. QED BY <1>1, <1>2, <1>3, <1>4 DEF GoodRequests

\* A new request is made for a pair that is not served in either direction.
LEMMA PutKeepsGood ==
  ASSUME GoodRequests, NEW p \in Pair, NEW fw \in ForwardingRequest, Put(p, fw),
         \/ p \in DOMAIN requests
         \/ ~InProgress(p),
         fw.requestingAddress \in connected,
         IsInjective(fw.remainingServersToTry),
         fw.currentlyAttemptedServerAddress \notin ToSet(fw.remainingServersToTry),
         UNCHANGED connected
  PROVE  GoodRequests'
<1>1. /\ DOMAIN requests' = DOMAIN requests \cup {p}
      /\ \A q \in DOMAIN requests' : q # p => requests'[q] = requests[q]
      /\ requests'[p] = fw
      /\ requests' \in [DOMAIN requests' -> ForwardingRequest]
  BY DEF Put, GoodRequests
<1>2. OneForwardPerPair'
  <2>1. ASSUME NEW q \in DOMAIN requests', Reverse2(q) \in DOMAIN requests'
        PROVE  q = Reverse2(q)
    <3>1. q \in Pair /\ Reverse2(Reverse2(q)) = q
      BY <1>1 DEF GoodRequests, Pair, Reverse2
    <3>2. CASE q \in DOMAIN requests /\ Reverse2(q) \in DOMAIN requests
      BY <3>2 DEF GoodRequests, OneForwardPerPair
    <3>3. CASE q = p
      BY <1>1, <2>1, <3>3 DEF InProgress, GoodRequests, OneForwardPerPair
    <3>4. CASE Reverse2(q) = p
      BY <1>1, <2>1, <3>1, <3>4 DEF InProgress, GoodRequests, OneForwardPerPair
    <3>. QED BY <1>1, <2>1, <3>2, <3>3, <3>4
  <2>2. \A q \in DOMAIN requests' : Reverse2(q)' = Reverse2(q)
    BY DEF Reverse2
  <2>. QED BY <2>1, <2>2 DEF OneForwardPerPair
<1>3. RequestersAreConnected'
  BY <1>1 DEF GoodRequests, RequestersAreConnected
<1>4. NoServerAskedTwice'
  BY <1>1 DEF GoodRequests, NoServerAskedTwice
<1>. QED BY <1>1, <1>2, <1>3, <1>4 DEF GoodRequests

-----------------------------------------------------------------------------
(* One step *)

LEMMA GoodInvariant ==
  ASSUME IInv PROVE GoodRequests
BY DEF IInv, TypeOK, GoodRequests

\* Steps that change neither requests nor connections.
LEMMA SameKeepsGood ==
  ASSUME GoodRequests, UNCHANGED requests, connected \subseteq connected'
  PROVE  GoodRequests'
BY DEF GoodRequests, OneForwardPerPair, RequestersAreConnected, NoServerAskedTwice,
       Reverse2

\* A request that is accepted is good, and what is sent for it is a message.
LEMMA AcceptFacts ==
  ASSUME IInv, NEW c \in Client, NEW p \in Pair, c \in connected, ~InProgress(p),
         serverList # <<>>, Accept(c, p), UNCHANGED connected
  PROVE  GoodRequests' /\ sent' \in Seq(Message)
<1> DEFINE n == Len(serverList)
           fw == [requestingAddress |-> c,
                  currentlyAttemptedServerAddress |-> NoServer,
                  remainingServersToTry |-> serverList,
                  timeRequestedPings |-> TRUE,
                  timeoutAfterSuccess |-> FALSE]
           one == [fw EXCEPT !.currentlyAttemptedServerAddress = serverList[1],
                             !.remainingServersToTry = <<>>,
                             !.timeRequestedPings = FALSE]
           ping(to) == [to |-> to, pair |-> p, servers |-> serverList,
                        id |-> "ID_UDP_PROXY_PING_SERVERS_FROM_COORDINATOR_TO_CLIENT"]
<1>1. serverList \in Seq(Server) /\ IsInjective(serverList)
  BY DEF IInv, TypeOK, ServersAreConnected
<1>2. p[1] \in Client /\ p[2] \in Client
  BY DEF Pair
<1>3. \/ n > 1 /\ Put(p, fw) /\ sent' = <<ping(p[1]), ping(p[2])>>
      \/ n = 1 /\ Put(p, one) /\ SendForwardingRequest(serverList[1], p)
  BY Zenon DEF Accept
<1>4. CASE Put(p, fw) /\ sent' = <<ping(p[1]), ping(p[2])>>
  <2>1. fw \in ForwardingRequest
    BY <1>1 DEF ForwardingRequest
  <2>2. /\ fw.requestingAddress = c
        /\ fw.remainingServersToTry = serverList
        /\ fw.currentlyAttemptedServerAddress = NoServer
    OBVIOUS
  <2>3. NoServer \notin ToSet(serverList)
    BY <1>1, NoServerAssumption DEF ToSet
  <2>4. GoodRequests'
    <3> HIDE DEF fw
    <3>. QED BY <1>1, <1>4, <2>1, <2>2, <2>3, GoodInvariant, PutKeepsGood
  <2>5. ping(p[1]) \in Message /\ ping(p[2]) \in Message
    BY <1>1, <1>2 DEF Message
  <2>6. sent' \in Seq(Message)
    <3> HIDE DEF ping
    <3>. QED BY <1>4, <2>5
  <2>. QED BY <2>4, <2>6
<1>5. CASE n = 1 /\ Put(p, one) /\ SendForwardingRequest(serverList[1], p)
  <2>1. serverList[1] \in Server
    BY <1>1, <1>5
  <2>2. <<>> \in Seq(Server) /\ fw \in [requestingAddress : Client,
                                        currentlyAttemptedServerAddress : {NoServer},
                                        remainingServersToTry : Seq(Server),
                                        timeRequestedPings : BOOLEAN,
                                        timeoutAfterSuccess : BOOLEAN]
    BY <1>1
  <2>3. /\ one \in ForwardingRequest
        /\ one.requestingAddress = c
        /\ one.remainingServersToTry = <<>>
    <3>1. fw.requestingAddress = c
      OBVIOUS
    <3> HIDE DEF fw
    <3>. QED BY <2>1, <2>2, <3>1 DEF ForwardingRequest
  <2>4. IsInjective(<<>>) /\ ToSet(<<>>) = {}
    BY DEF IsInjective, ToSet
  <2>5. GoodRequests'
    <3> HIDE DEF one
    <3>. QED BY <1>5, <2>3, <2>4, GoodInvariant, PutKeepsGood
  <2>6. sent' \in Seq(Message)
    BY <1>5, <2>1 DEF SendForwardingRequest, Message
  <2>. QED BY <2>5, <2>6
<1>. QED
  <2> HIDE DEF n, fw, one, ping
  <2>. QED BY <1>3, <1>4, <1>5

\* Every step keeps the requests good and sends messages.
LEMMA NextGood ==
  ASSUME IInv, Next PROVE GoodRequests' /\ sent' \in Seq(Message)
<1> DEFINE Goal == GoodRequests' /\ sent' \in Seq(Message)
<1>1. GoodRequests /\ TypeOK
  BY GoodInvariant DEF IInv
<1>2. <<>> \in Seq(Message)
  OBVIOUS
<1>3. ASSUME NEW q \in DOMAIN requests
      PROVE  /\ q \in Pair
             /\ requests[q] \in ForwardingRequest
             /\ requests[q].requestingAddress \in Client
             /\ requests[q].requestingAddress \in connected
             /\ requests[q].remainingServersToTry \in Seq(Server)
             /\ IsInjective(requests[q].remainingServersToTry)
             /\ requests[q].currentlyAttemptedServerAddress
                  \notin ToSet(requests[q].remainingServersToTry)
  BY <1>1 DEF GoodRequests, RequestersAreConnected, NoServerAskedTwice, ForwardingRequest
<1>4. ASSUME NEW a \in Address, Connect(a) PROVE Goal
  BY <1>1, <1>2, <1>4, SameKeepsGood DEF Connect
<1>5. ASSUME NEW a \in Address, OnClosedConnection(a) PROVE Goal
  <2>1. Drop(RequestsOf(a)) /\ connected' = connected \ {a} /\ sent' = <<>>
    BY <1>5 DEF OnClosedConnection
  <2>2. \A q \in DOMAIN requests \ RequestsOf(a) : requests[q].requestingAddress \in connected'
    BY <1>3, <2>1 DEF RequestsOf
  <2>. QED BY <1>1, <1>2, <2>1, <2>2, DropKeepsGood
<1>6. ASSUME VisitRequest PROVE Goal
  <2>1. PICK p \in NextIn(toVisit) :
          \/ TryNextServer(p, requests[p])
          \/ sent' = <<>> /\ UNCHANGED requests
    BY <1>6 DEF VisitRequest
  <2>2. p \in DOMAIN requests /\ UNCHANGED connected
    BY <1>1, <1>6 DEF NextIn, TypeOK, VisitRequest
  <2>3. CASE TryNextServer(p, requests[p])
    BY <1>1, <1>3, <2>2, <2>3, TryNextServerFacts, TryNextServerKeepsGood
  <2>4. CASE sent' = <<>> /\ UNCHANGED requests
    BY <1>1, <1>2, <2>2, <2>4, SameKeepsGood
  <2>. QED BY <2>1, <2>3, <2>4
<1>7. ASSUME RemoveServer PROVE Goal
  BY <1>1, <1>2, <1>7, SameKeepsGood DEF RemoveServer
<1>8. ASSUME NEW ask \in Ask, NEW byGuid \in BOOLEAN,
             OnForwardingRequest(ask[1], <<ask[2], ask[3]>>, byGuid)
      PROVE  Goal
  <2> DEFINE c == ask[1]
             p == <<ask[2], ask[3]>>
  <2>1. c \in Client /\ p \in Pair
    BY AskAssumption DEF Pair
  <2>2. c \in connected /\ UNCHANGED connected
    BY <1>8 DEF OnForwardingRequest
  <2>3. ASSUME NEW why \in Answer, Refuse(c, p, why) PROVE Goal
    <3>1. sent' = <<[to |-> c, pair |-> p, id |-> why]>> /\ UNCHANGED requests
      BY <2>3 DEF Refuse
    <3>2. [to |-> c, pair |-> p, id |-> why] \in Message
      BY <2>1 DEF Message
    <3>. QED BY <1>1, <2>2, <3>1, <3>2, SameKeepsGood
  <2>4. ASSUME ~InProgress(p), serverList # <<>>, Accept(c, p) PROVE Goal
    BY <2>1, <2>2, <2>4, AcceptFacts
  <2> HIDE DEF c, p
  <2>5. \/ \E why \in {"ID_UDP_PROXY_IN_PROGRESS", "ID_UDP_PROXY_NO_SERVERS_ONLINE",
                       "ID_UDP_PROXY_RECIPIENT_GUID_NOT_CONNECTED_TO_COORDINATOR"} :
              Refuse(c, p, why)
        \/ ~InProgress(p) /\ serverList # <<>> /\ Accept(c, p)
    BY <1>8 DEF OnForwardingRequest, c, p
  <2>. QED BY <2>3, <2>4, <2>5 DEF Answer
<1>9. ASSUME NEW a \in Client, NEW p \in Pair, NEW reply \in PingReply,
             OnPingServersReply(a, p, reply)
      PROVE  Goal
  BY <1>1, <1>2, <1>9, SameKeepsGood DEF OnPingServersReply
<1>10. ASSUME NEW v \in Server, NEW id \in LoginAnswer, OnLoginRequest(v, id) PROVE Goal
  <2>1. sent' = <<[to |-> v, id |-> id]>> /\ UNCHANGED <<requests, connected>>
    BY <1>10 DEF OnLoginRequest
  <2>2. [to |-> v, id |-> id] \in Message
    BY DEF Message
  <2>. QED BY <1>1, <2>1, <2>2, SameKeepsGood
<1>11. ASSUME NEW v \in Server, NEW p \in Pair, NEW result \in UDPForwarderResult,
              OnForwardingReply(v, p, result)
       PROVE  Goal
  <2>1. p \in DOMAIN requests /\ UNCHANGED connected
    BY <1>11 DEF OnForwardingReply
  <2>2. CASE Succeed(p)
    <3> DEFINE fw == [requests[p] EXCEPT !.timeoutAfterSuccess = TRUE]
    <3>1. /\ fw \in ForwardingRequest
          /\ fw.requestingAddress = requests[p].requestingAddress
          /\ fw.remainingServersToTry = requests[p].remainingServersToTry
          /\ fw.currentlyAttemptedServerAddress = requests[p].currentlyAttemptedServerAddress
      BY <1>3, <2>1 DEF ForwardingRequest
    <3>2. Put(p, fw)
      BY <2>2 DEF Succeed
    <3>3. GoodRequests'
      <4> HIDE DEF fw
      <4>. QED BY <1>1, <1>3, <2>1, <3>1, <3>2, PutKeepsGood
    <3>4. sent' = <<[to |-> requests[p].requestingAddress, pair |-> p,
                     id |-> "ID_UDP_PROXY_FORWARDING_SUCCEEDED"],
                    [to |-> p[2], pair |-> p,
                     id |-> "ID_UDP_PROXY_FORWARDING_NOTIFICATION"]>>
      BY <2>2 DEF Succeed, ToRequester
    <3>5. sent' \in Seq(Message)
      <4>1. p[2] \in Client
        BY DEF Pair
      <4>2. /\ [to |-> requests[p].requestingAddress, pair |-> p,
                id |-> "ID_UDP_PROXY_FORWARDING_SUCCEEDED"] \in Message
            /\ [to |-> p[2], pair |-> p,
                id |-> "ID_UDP_PROXY_FORWARDING_NOTIFICATION"] \in Message
        BY <1>3, <2>1, <4>1 DEF Message, Answer
      <4>. QED BY <3>4, <4>2
    <3>. QED BY <3>3, <3>5
  <2>3. CASE TryNextServer(p, requests[p])
    BY <1>1, <1>3, <2>1, <2>3, TryNextServerFacts, TryNextServerKeepsGood
  <2>4. CASE EndInProgress(p)
    <3>1. Drop({p}) /\ sent' = <<[to |-> requests[p].requestingAddress, pair |-> p,
                                  id |-> "ID_UDP_PROXY_IN_PROGRESS"]>>
      BY <2>4 DEF EndInProgress, ToRequester
    <3>2. [to |-> requests[p].requestingAddress, pair |-> p,
           id |-> "ID_UDP_PROXY_IN_PROGRESS"] \in Message
      BY <1>3, <2>1 DEF Message, Answer
    <3>3. sent' \in Seq(Message)
      BY <3>1, <3>2
    <3>4. GoodRequests'
      BY <1>1, <1>3, <2>1, <3>1, DropKeepsGood
    <3>. QED BY <3>3, <3>4
  <2>. QED BY <1>11, <2>2, <2>3, <2>4 DEF OnForwardingReply
<1>12. ASSUME NEW p \in Pair, PingsTimeOut(p) PROVE Goal
  <2>1. p \in DOMAIN requests /\ UNCHANGED connected
    BY <1>12 DEF PingsTimeOut
  <2>2. PICK list \in OrderRemainingServersToTry(requests[p].remainingServersToTry,
                                                 sourcePings[p]) :
          TryNextServer(p, [requests[p] EXCEPT !.timeRequestedPings = FALSE,
                                               !.remainingServersToTry = list])
    BY <1>12 DEF PingsTimeOut
  <2>3. list \in Seq(Server) /\ IsInjective(list)
    BY <1>3, <2>1, <2>2, OrderFacts
  <2> DEFINE fw == [requests[p] EXCEPT !.timeRequestedPings = FALSE,
                                       !.remainingServersToTry = list]
  <2>4. /\ fw \in ForwardingRequest
        /\ fw.requestingAddress = requests[p].requestingAddress
        /\ fw.remainingServersToTry = list
    BY <1>3, <2>1, <2>3 DEF ForwardingRequest
  <2>5. TryNextServer(p, fw)
    BY <2>2
  <2> HIDE DEF fw
  <2>. QED BY <1>1, <2>1, <2>3, <2>4, <2>5, TryNextServerFacts, TryNextServerKeepsGood
<1>13. ASSUME NEW p \in Pair, ForgetSuccess(p) PROVE Goal
  <2>1. Drop({p}) /\ UNCHANGED connected /\ sent' = <<>>
    BY <1>13 DEF ForgetSuccess
  <2>. QED BY <1>1, <1>2, <1>3, <2>1, DropKeepsGood
<1>. QED BY <1>4, <1>5, <1>6, <1>7, <1>8, <1>9, <1>10, <1>11, <1>12, <1>13 DEF Next

\* The list of servers, the servers that are connected, and the loop over the
\* requests after every step.
LEMMA NextServers ==
  ASSUME IInv, Next
  PROVE  /\ connected' \subseteq Address
         /\ serverList' \in Seq(Server)
         /\ ServersAreConnected'
         /\ closing' \subseteq LoggedIn'
         /\ toVisit' \subseteq DOMAIN requests'
         /\ OneHandler'
<1> DEFINE Lists == /\ serverList' \in Seq(Server)
                    /\ ServersAreConnected'
                    /\ closing' \subseteq LoggedIn'
           Loop == toVisit' \subseteq DOMAIN requests' /\ OneHandler'
           Goal == connected' \subseteq Address /\ Lists /\ Loop
<1>1. /\ connected \subseteq Address /\ serverList \in Seq(Server)
      /\ IsInjective(serverList) /\ LoggedIn \subseteq connected \cup closing
      /\ closing \subseteq LoggedIn /\ toVisit \subseteq DOMAIN requests
      /\ closing = {} => toVisit = {}
      /\ \A v, w \in closing : v = w
      /\ closing \cap connected = {}
  BY DEF IInv, TypeOK, ServersAreConnected, OneHandler
<1>2. ASSUME UNCHANGED serverList, UNCHANGED closing, connected \subseteq connected'
      PROVE  Lists
  BY <1>1, <1>2 DEF ServersAreConnected, LoggedIn
<1>3. ASSUME Idle, UNCHANGED pcVars PROVE Loop
  BY <1>1, <1>3 DEF Idle, pcVars, OneHandler
<1>4. ASSUME NEW a \in Address, Connect(a) PROVE Goal
  BY <1>1, <1>2, <1>3, <1>4 DEF Connect, pcVars
<1>5. ASSUME NEW a \in Address, OnClosedConnection(a) PROVE Goal
  <2>1. /\ closing = {} /\ toVisit = {} /\ UNCHANGED serverList
        /\ connected' = connected \ {a}
    BY <1>1, <1>5 DEF OnClosedConnection, Idle
  <2>2. CASE a \in LoggedIn
    <3>1. closing' = {a} /\ toVisit' = DOMAIN requests'
      BY <1>5, <2>2 DEF OnClosedConnection
    <3>. QED BY <1>1, <2>1, <2>2, <3>1 DEF ServersAreConnected, LoggedIn, OneHandler
  <2>3. CASE a \notin LoggedIn
    <3>1. closing' = {} /\ toVisit' = {}
      BY <1>5, <2>1, <2>3 DEF OnClosedConnection, pcVars
    <3>. QED BY <1>1, <2>1, <2>3, <3>1 DEF ServersAreConnected, LoggedIn, OneHandler
  <2>. QED BY <2>2, <2>3
<1>6. ASSUME VisitRequest PROVE Goal
  <2>1. UNCHANGED <<connected, serverList, closing>>
    BY <1>6 DEF VisitRequest
  <2>2. PICK p \in NextIn(toVisit) :
          /\ \/ TryNextServer(p, requests[p])
             \/ UNCHANGED requests
          /\ toVisit' = (toVisit \ {p})
                          \ (IF p \in DOMAIN requests' THEN {} ELSE NextIn(toVisit \ {p}))
    BY <1>6 DEF VisitRequest
  <2>3. p \in toVisit
    BY <2>2 DEF NextIn
  <2>4. toVisit' \subseteq toVisit \ {p}
    BY <2>2
  <2>5. DOMAIN requests \ {p} \subseteq DOMAIN requests'
    BY <2>2, <2>3 DEF TryNextServer, TryServer, GiveUp, Put, Drop
  <2>6. Loop
    BY <1>1, <2>1, <2>3, <2>4, <2>5 DEF OneHandler
  <2>. QED BY <1>1, <1>2, <2>1, <2>6
<1>7. ASSUME RemoveServer PROVE Goal
  <2>1. PICK i \in 1 .. Len(serverList) :
          serverList[i] \in closing /\ serverList' = RemoveAtIndexFast(serverList, i)
    BY <1>7 DEF RemoveServer
  <2>2. /\ closing' = {} /\ toVisit' = {}
        /\ UNCHANGED <<connected, requests>>
    BY <1>7 DEF RemoveServer
  <2>3. /\ serverList' \in Seq(Server)
        /\ IsInjective(serverList')
        /\ ToSet(serverList') \subseteq ToSet(serverList) \ {serverList[i]}
    BY <1>1, <2>1, RemoveAtIndexFastFacts
  <2>4. closing = {serverList[i]}
    BY <1>1, <2>1
  <2>. QED BY <1>1, <2>2, <2>3, <2>4 DEF ServersAreConnected, LoggedIn, OneHandler
<1>8. ASSUME NEW ask \in Ask, NEW byGuid \in BOOLEAN,
             OnForwardingRequest(ask[1], <<ask[2], ask[3]>>, byGuid)
      PROVE  Goal
  BY <1>1, <1>2, <1>3, <1>8 DEF OnForwardingRequest, pcVars
<1>9. ASSUME NEW a \in Client, NEW p \in Pair, NEW reply \in PingReply,
             OnPingServersReply(a, p, reply)
      PROVE  Goal
  BY <1>1, <1>2, <1>3, <1>9 DEF OnPingServersReply, pcVars
<1>10. ASSUME NEW v \in Server, NEW id \in LoginAnswer, OnLoginRequest(v, id) PROVE Goal
  <2>1. /\ Idle /\ v \in connected /\ UNCHANGED <<connected, requests, pcVars>>
        /\ \/ v \notin LoggedIn /\ serverList' = Append(serverList, v)
           \/ UNCHANGED serverList
    BY <1>10 DEF OnLoginRequest
  <2>2. CASE v \notin LoggedIn /\ serverList' = Append(serverList, v)
    <3>1. /\ serverList' \in Seq(Server)
          /\ IsInjective(serverList')
          /\ ToSet(serverList') = ToSet(serverList) \cup {v}
      BY <1>1, <2>2, AppendFacts DEF LoggedIn
    <3>. QED BY <1>1, <1>3, <2>1, <3>1 DEF ServersAreConnected, LoggedIn, pcVars
  <2>3. CASE UNCHANGED serverList
    BY <1>1, <1>2, <1>3, <2>1, <2>3 DEF pcVars
  <2>. QED BY <2>1, <2>2, <2>3
<1>11. ASSUME NEW v \in Server, NEW p \in Pair, NEW result \in UDPForwarderResult,
              OnForwardingReply(v, p, result)
       PROVE  Goal
  BY <1>1, <1>2, <1>3, <1>11 DEF OnForwardingReply, pcVars
<1>12. ASSUME NEW p \in Pair, PingsTimeOut(p) \/ ForgetSuccess(p) PROVE Goal
  BY <1>1, <1>2, <1>3, <1>12 DEF PingsTimeOut, ForgetSuccess, pcVars
<1>. QED BY <1>4, <1>5, <1>6, <1>7, <1>8, <1>9, <1>10, <1>11, <1>12 DEF Next

LEMMA InitInv ==
  ASSUME Init PROVE IInv
<1>1. <<>> \in Seq(Server) /\ <<>> \in Seq(Message)
  OBVIOUS
<1>2. DOMAIN requests = {} /\ requests \in [{} -> ForwardingRequest]
  BY DEF Init
<1>3. TypeOK
  BY <1>1, <1>2 DEF Init, TypeOK
<1>4. ServersAreConnected
  BY DEF Init, ServersAreConnected, LoggedIn, IsInjective, ToSet
<1>5. OneForwardPerPair /\ RequestersAreConnected /\ NoServerAskedTwice /\ OneHandler
  BY <1>2 DEF Init, OneForwardPerPair, RequestersAreConnected, NoServerAskedTwice, OneHandler
<1>. QED BY <1>3, <1>4, <1>5 DEF IInv

LEMMA NextInv ==
  ASSUME IInv, [Next]_vars PROVE IInv'
<1>1. CASE Next
  <2>1. GoodRequests' /\ sent' \in Seq(Message)
    BY <1>1, NextGood
  <2>2. /\ connected' \subseteq Address /\ serverList' \in Seq(Server)
        /\ ServersAreConnected' /\ closing' \subseteq LoggedIn'
        /\ toVisit' \subseteq DOMAIN requests' /\ OneHandler'
    BY <1>1, NextServers
  <2>. QED BY <2>1, <2>2 DEF GoodRequests, IInv, TypeOK
<1>2. CASE UNCHANGED vars
  BY <1>2 DEF vars, pcVars, IInv, TypeOK, ServersAreConnected, OneForwardPerPair,
              RequestersAreConnected, NoServerAskedTwice, OneHandler, LoggedIn, Reverse2
<1>. QED BY <1>1, <1>2

-----------------------------------------------------------------------------
(* Pings *)

\* A set of numbers has a least one.
LEMMA LeastNumber ==
  ASSUME NEW S, S \subseteq Nat, S # {} PROVE \E x \in S : \A y \in S : x <= y
<1> DEFINE R == {ss \in Nat \X Nat : ss[1] < ss[2]}
<1>1. OpToRel(<, Nat) = R
  BY Zenon DEF OpToRel
<1>2. IsWellFoundedOn(R, Nat)
  BY <1>1, NatLessThanWellFounded
<1>3. \A x, y \in Nat : y < x => <<y, x>> \in R
  OBVIOUS
<1> HIDE DEF R
<1>4. PICK x \in S : \A y \in S : <<y, x>> \notin R
  BY <1>2, WFMin
<1>5. \A y \in S : ~(y < x) /\ y \in Nat /\ x \in Nat
  BY <1>3, <1>4
<1>. QED BY <1>5

\* So a property of the numbers up to N, given by the set of those that have it,
\* holds of all if it passes from each to the next.
LEMMA InductionUpTo ==
  ASSUME NEW N \in Nat, NEW K, 0 \in K, \A n \in 1 .. N : n - 1 \in K => n \in K
  PROVE  \A n \in 0 .. N : n \in K
<1> DEFINE S == {n \in 0 .. N : n \notin K}
<1>. SUFFICES ASSUME S # {} PROVE FALSE
  OBVIOUS
<1>1. S \subseteq Nat
  OBVIOUS
<1>2. PICK x \in S : \A y \in S : x <= y
  <2> HIDE DEF S
  <2>. QED BY <1>1, LeastNumber
<1>3. x \in 1 .. N /\ x - 1 \in 0 .. N /\ x - 1 \notin S
  BY <1>2
<1>. QED BY <1>3

\* f is what a loop over the numbers up to N has after each of them.
IsLoop(f, A, N, first, step) ==
  f \in [0 .. N -> A] /\ f[0] = first /\ \A n \in 1 .. N : f[n] = step[<<f[n - 1], n>>]

\* There is one for any function from what it has, and the number, to what it has next.
LEMMA RecursionUpTo ==
  ASSUME NEW N \in Nat, NEW A, NEW first \in A, NEW step \in [A \X (1 .. N) -> A]
  PROVE  \E f : IsLoop(f, A, N, first, step)
<1> DEFINE Loop(f, n) == f \in [0 .. n -> A] /\ f[0] = first
                         /\ \A k \in 1 .. n : f[k] = step[<<f[k - 1], k>>]
           K == {n \in 0 .. N : \E f : Loop(f, n)}
<1>1. 0 \in K
  <2> DEFINE f == [k \in 0 .. 0 |-> first]
  <2>1. f \in [0 .. 0 -> A] /\ f[0] = first
    OBVIOUS
  <2>2. Loop(f, 0)
    BY <2>1
  <2> HIDE DEF Loop, f
  <2>. QED BY <2>2
<1>2. ASSUME NEW n \in 1 .. N, n - 1 \in K PROVE n \in K
  <2>1. PICK f : Loop(f, n - 1)
    BY <1>2
  <2> DEFINE h == [k \in 0 .. n |-> IF k < n THEN f[k] ELSE step[<<f[n - 1], n>>]]
  <2>2. n - 1 \in 0 .. n - 1 /\ f[n - 1] \in A
    BY <2>1
  <2>3. step[<<f[n - 1], n>>] \in A
    BY <2>2
  <2>4. h \in [0 .. n -> A] /\ h[0] = first
    BY <2>1, <2>3
  <2>5. ASSUME NEW k \in 1 .. n PROVE h[k] = step[<<h[k - 1], k>>]
    <3>1. k - 1 \in 0 .. n /\ k - 1 < n /\ h[k - 1] = f[k - 1]
      OBVIOUS
    <3>2. CASE k = n
      BY <3>1, <3>2
    <3>3. CASE k # n
      <4>1. k \in 1 .. n - 1 /\ h[k] = f[k]
        BY <3>3
      <4>. QED BY <2>1, <3>1, <4>1
    <3>. QED BY <3>2, <3>3
  <2> HIDE DEF h
  <2>6. Loop(h, n)
    BY <2>4, <2>5
  <2> HIDE DEF Loop
  <2>. QED BY <2>6
<1> HIDE DEF K
<1>3. N \in K
  BY <1>1, <1>2, InductionUpTo
<1>4. PICK f : Loop(f, N)
  BY <1>3 DEF K
<1>. QED BY <1>4 DEF IsLoop

\* A ping has a place in any list of pings.
LEMMA PingIndexExists ==
  ASSUME NEW list \in Seq(ServerWithPing), NEW ping \in Ping
  PROVE  PingIndex(list, ping) \in 1 .. Len(list) + 1
<1> DEFINE S == {i \in 1 .. Len(list) + 1 : i <= Len(list) => list[i].ping >= ping}
           Place(i) == /\ \A j \in 1 .. i - 1 : list[j].ping < ping
                       /\ i <= Len(list) => list[i].ping >= ping
<1>1. Len(list) \in Nat /\ \A i \in 1 .. Len(list) : list[i].ping \in Int
  <2>1. \A x \in ServerWithPing : x.ping \in Ping
    BY DEF ServerWithPing
  <2>2. \A x \in ServerWithPing : x.ping \in Int
    BY <2>1, PingsAreIntegers
  <2>3. Len(list) \in Nat /\ \A i \in 1 .. Len(list) : list[i] \in ServerWithPing
    OBVIOUS
  <2>. QED BY <2>2, <2>3
<1>2. ping \in Int
  BY PingsAreIntegers
<1>3. S \subseteq Nat /\ Len(list) + 1 \in S
  BY <1>1
<1>4. PICK i \in S : \A j \in S : i <= j
  <2> HIDE DEF S
  <2>. QED BY <1>3, LeastNumber
<1>5. ASSUME NEW j \in 1 .. i - 1 PROVE list[j].ping < ping
  <2>1. j \in 1 .. Len(list) /\ j \notin S
    BY <1>1, <1>4
  <2>. QED BY <1>1, <1>2, <2>1
<1>6. i \in 1 .. Len(list) + 1 /\ Place(i)
  BY <1>4, <1>5
<1>. QED BY <1>6 DEF PingIndex

\* The pings of a reply are inserted one by one.
LEMMA PingsInsertedTyped ==
  ASSUME NEW list \in Seq(ServerWithPing), NEW reply \in Seq(ServerWithPing)
  PROVE  PingsInserted(list, reply) \in Seq(ServerWithPing)
<1> DEFINE A == Seq(ServerWithPing)
           N == Len(reply)
           first == list
           step == [x \in A \X (1 .. N) |-> InsertPing(x[1], reply[x[2]])]
           inserted == CHOOSE f : f = [n \in 0 .. N |-> IF n = 0 THEN list
                                                        ELSE InsertPing(f[n - 1], reply[n])]
<1>1. N \in Nat /\ \A n \in 1 .. N : reply[n] \in ServerWithPing
  OBVIOUS
<1>2. ASSUME NEW l \in A, NEW swp \in ServerWithPing PROVE InsertPing(l, swp) \in A
  <2>1. PingIndex(l, swp.ping) \in 1 .. Len(l) + 1 /\ Len(l) \in Nat
    <3>1. swp.ping \in Ping /\ l \in Seq(ServerWithPing)
      BY <1>2 DEF ServerWithPing
    <3>2. Len(l) \in Nat
      BY <3>1
    <3>. QED BY <3>1, <3>2, PingIndexExists
  <2> DEFINE i == PingIndex(l, swp.ping)
  <2> HIDE DEF i
  <2>2. i \in 1 .. Len(l) + 1
    BY <2>1 DEF i
  <2>3. SubSeq(l, 1, i - 1) \in Seq(ServerWithPing) /\ SubSeq(l, i, Len(l)) \in Seq(ServerWithPing)
    BY <2>1, <2>2, SubSeqProperties
  <2>4. <<swp>> \in Seq(ServerWithPing)
    OBVIOUS
  <2>5. InsertPing(l, swp) = SubSeq(l, 1, i - 1) \o <<swp>> \o SubSeq(l, i, Len(l))
    BY DEF InsertPing, InsertAt, i
  <2>. QED BY <2>3, <2>4, <2>5
<1>3. step \in [A \X (1 .. N) -> A]
  BY <1>1, <1>2
<1>4. PICK f : IsLoop(f, A, N, first, step)
  <2> HIDE DEF A, step, N
  <2>1. first \in A
    BY DEF A
  <2>. QED BY <1>1, <1>3, <2>1, RecursionUpTo
<1>5. \A n \in 1 .. N : f[n] = InsertPing(f[n - 1], reply[n])
  <2>1. ASSUME NEW n \in 1 .. N PROVE n - 1 \in 0 .. N /\ f[n - 1] \in A
    <3>1. n - 1 \in 0 .. N
      BY <1>1
    <3>2. f \in [0 .. N -> A]
      BY <1>4 DEF IsLoop
    <3> HIDE DEF A, N
    <3>. QED BY <3>1, <3>2
  <2>. QED BY <1>4, <2>1 DEF IsLoop
<1>6. f = [n \in 0 .. N |-> IF n = 0 THEN list ELSE InsertPing(f[n - 1], reply[n])]
  <2>1. f = [n \in 0 .. N |-> f[n]] /\ f[0] = list
    BY <1>4 DEF IsLoop
  <2>2. ASSUME NEW n \in 0 .. N
        PROVE  f[n] = IF n = 0 THEN list ELSE InsertPing(f[n - 1], reply[n])
    <3>1. n = 0 \/ (n \in 1 .. N /\ n # 0)
      BY <1>1
    <3>. QED BY <1>5, <2>1, <3>1
  <2> HIDE DEF N
  <2>. QED BY <2>1, <2>2
<1>7. inserted = [n \in 0 .. N |-> IF n = 0 THEN list ELSE InsertPing(inserted[n - 1], reply[n])]
  BY <1>6
<1>. HIDE DEF inserted
<1>8. inserted \in [0 .. N -> A]
  <2> DEFINE K == {n \in 0 .. N : inserted[n] \in A}
  <2>1. 0 \in K
    BY <1>1, <1>7
  <2>2. ASSUME NEW n \in 1 .. N, n - 1 \in K PROVE n \in K
    <3>1. n \in 0 .. N /\ n # 0
      BY <1>1
    <3>2. inserted[n] = InsertPing(inserted[n - 1], reply[n])
      BY <1>7, <3>1
    <3>. QED BY <1>1, <1>2, <2>2, <3>1, <3>2
  <2>3. \A n \in 0 .. N : n \in K
    <3> HIDE DEF K
    <3>. QED BY <1>1, <2>1, <2>2, InductionUpTo
  <2>. QED BY <1>7, <2>3
<1>9. PingsInserted(list, reply) = inserted[N]
  BY DEF PingsInserted, inserted
<1>. QED BY <1>1, <1>8, <1>9

\* The pings of requests that go on go on.
LEMMA KeepPingsTyped ==
  ASSUME PingsTypeOK, KeepPings, DOMAIN requests' \subseteq DOMAIN requests PROVE PingsTypeOK'
BY DEF PingsTypeOK, KeepPings

\* Trying a server, or giving up, makes no new request.
LEMMA TryNextServerListsNothing ==
  ASSUME NEW p \in DOMAIN requests, NEW fw, TryNextServer(p, fw)
  PROVE  KeepPings /\ DOMAIN requests' \subseteq DOMAIN requests
<1>1. (TryServer(p, fw) \/ GiveUp(p, fw)) /\ KeepPings
  BY DEF TryNextServer
<1>2. CASE TryServer(p, fw)
  BY <1>1, <1>2 DEF TryServer, Put
<1>3. CASE GiveUp(p, fw)
  BY <1>1, <1>3 DEF GiveUp, Drop
<1>. QED BY <1>1, <1>2, <1>3

\* The pings of a reply, those of the target as well.
LEMMA ReplyTyped ==
  ASSUME PingsTypeOK, NEW a, NEW p, NEW reply \in Seq(ServerWithPing), OnPingServersReply(a, p, reply)
  PROVE  PingsTypeOK'
<1> DEFINE now == sourcePings[p]
           then == IF a = p[1] THEN PingsInserted(now, reply) ELSE Reverse(reply) \o now
<1>1. p \in DOMAIN requests /\ sourcePings' = [sourcePings EXCEPT ![p] = then] /\ requests' = requests
  BY DEF OnPingServersReply
<1>2. now \in Seq(ServerWithPing)
  BY <1>1 DEF PingsTypeOK
<1>3. Reverse(reply) \in Seq(ServerWithPing)
  BY DEF Reverse
<1>4. then \in Seq(ServerWithPing)
  <2> HIDE DEF now
  <2>1. PingsInserted(now, reply) \in Seq(ServerWithPing)
    BY <1>2, PingsInsertedTyped
  <2>2. Reverse(reply) \o now \in Seq(ServerWithPing)
    BY <1>2, <1>3
  <2>. QED BY <2>1, <2>2
<1> HIDE DEF then
<1>. QED BY <1>1, <1>4 DEF PingsTypeOK

\* Every handler keeps the types of the pings.
LEMMA NextPings ==
  ASSUME IInv, PingsTypeOK, [Next]_vars PROVE PingsTypeOK'
<1>1. ASSUME requests' = requests, sourcePings' = sourcePings PROVE PingsTypeOK'
  BY <1>1 DEF PingsTypeOK
<1>2. ASSUME NEW p \in DOMAIN requests, NEW fw, TryNextServer(p, fw) PROVE PingsTypeOK'
  BY <1>2, TryNextServerListsNothing, KeepPingsTyped
<1>3. ASSUME NEW S, Drop(S), KeepPings PROVE PingsTypeOK'
  BY <1>3, KeepPingsTyped DEF Drop
<1>4. CASE UNCHANGED vars
  BY <1>1, <1>4 DEF vars
<1>5. ASSUME NEW a \in Address, Connect(a) PROVE PingsTypeOK'
  BY <1>1, <1>5 DEF Connect
<1>6. ASSUME NEW a \in Address, OnClosedConnection(a) PROVE PingsTypeOK'
  BY <1>3, <1>6 DEF OnClosedConnection
<1>7. ASSUME VisitRequest PROVE PingsTypeOK'
  <2>1. PICK p \in toVisit : TryNextServer(p, requests[p]) \/ UNCHANGED <<requests, sourcePings>>
    BY <1>7 DEF VisitRequest, NextIn
  <2>2. p \in DOMAIN requests
    BY <2>1 DEF IInv, TypeOK
  <2>. QED BY <1>1, <1>2, <2>1, <2>2
<1>8. ASSUME RemoveServer PROVE PingsTypeOK'
  BY <1>1, <1>8 DEF RemoveServer
<1>9. ASSUME NEW c, NEW p, NEW byGuid, OnForwardingRequest(c, p, byGuid) PROVE PingsTypeOK'
  <2>1. ASSUME NEW why, Refuse(c, p, why) PROVE PingsTypeOK'
    BY <1>1, <2>1 DEF Refuse
  <2>2. ASSUME Accept(c, p) PROVE PingsTypeOK'
    <3>1. PICK fw : Put(p, fw)
      BY <2>2 DEF Accept
    <3>2. DOMAIN requests' = DOMAIN requests \cup {p}
      BY <3>1 DEF Put
    <3>3. sourcePings' = [q \in DOMAIN requests' |-> IF q = p THEN <<>> ELSE sourcePings[q]]
      BY <2>2 DEF Accept
    <3>4. <<>> \in Seq(ServerWithPing)
      OBVIOUS
    <3>. QED BY <3>2, <3>3, <3>4 DEF PingsTypeOK
  <2>. QED BY <1>9, <2>1, <2>2 DEF OnForwardingRequest
<1>10. ASSUME NEW a \in Client, NEW p \in Pair, NEW reply \in PingReply,
              OnPingServersReply(a, p, reply)
       PROVE  PingsTypeOK'
  BY <1>10, ReplyTyped, PingReplyAssumption
<1>11. ASSUME NEW v \in Server, NEW id \in LoginAnswer, OnLoginRequest(v, id) PROVE PingsTypeOK'
  BY <1>1, <1>11 DEF OnLoginRequest
<1>12. ASSUME NEW v \in Server, NEW p \in Pair, NEW result \in UDPForwarderResult,
              OnForwardingReply(v, p, result)
       PROVE  PingsTypeOK'
  <2>1. p \in DOMAIN requests
    BY <1>12 DEF OnForwardingReply
  <2>2. ASSUME Succeed(p) PROVE PingsTypeOK'
    <3>1. KeepPings /\ DOMAIN requests' = DOMAIN requests \cup {p}
      BY <2>2 DEF Succeed, Put
    <3>. QED BY <2>1, <3>1, KeepPingsTyped
  <2>3. ASSUME EndInProgress(p) PROVE PingsTypeOK'
    BY <1>3, <2>3 DEF EndInProgress
  <2>. QED BY <1>2, <1>12, <2>1, <2>2, <2>3 DEF OnForwardingReply
<1>13. ASSUME NEW p \in Pair, PingsTimeOut(p) \/ ForgetSuccess(p) PROVE PingsTypeOK'
  <2>1. CASE PingsTimeOut(p)
    <3>1. p \in DOMAIN requests /\ \E fw : TryNextServer(p, fw)
      BY <2>1 DEF PingsTimeOut
    <3>. QED BY <1>2, <3>1
  <2>2. CASE ForgetSuccess(p)
    BY <1>3, <2>2 DEF ForgetSuccess
  <2>. QED BY <1>13, <2>1, <2>2
<1>. QED BY <1>4, <1>5, <1>6, <1>7, <1>8, <1>9, <1>10, <1>11, <1>12, <1>13 DEF Next

-----------------------------------------------------------------------------
(* Theorems *)

\* The invariant all the others follow from: whatever clients and servers send,
\* and whichever connections are lost, every handler of UDPProxyCoordinator.cpp
\* and every iteration of the loop over the requests keeps it.
THEOREM Invariant == Spec => []IInv
<1>1. Init => IInv
  BY InitInv
<1>2. IInv /\ [Next]_vars => IInv'
  BY NextInv
<1>. QED BY <1>1, <1>2, PTL DEF Spec

\* The variables keep their types: the loop of OnClosedConnection has only
\* requests to look at that are listed, and every message sent is well formed.
THEOREM Types == Spec => []TypeOK
<1>1. IInv => TypeOK
  BY DEF IInv
<1>. QED BY <1>1, Invariant, PTL

\* The pings collected, the reply of the target put among them where the index for
\* the other list says (line 481 of UDPProxyCoordinator.cpp), are those of requests
\* that are listed: none outlives its request.
THEOREM PingTypes == Spec => []PingsTypeOK
<1>1. Init => PingsTypeOK
  BY DEF Init, PingsTypeOK
<1>2. IInv /\ PingsTypeOK /\ [Next]_vars => PingsTypeOK'
  BY NextPings
<1>. QED BY <1>1, <1>2, Invariant, PTL DEF Spec

\* serverList names no server twice, and no server whose connection is lost
\* once OnClosedConnection has returned.
THEOREM Servers == Spec => []ServersAreConnected
<1>1. IInv => ServersAreConnected
  BY DEF IInv
<1>. QED BY <1>1, Invariant, PTL

\* No two requests are open for the same two clients, in either direction.
THEOREM OnePerPair == Spec => []OneForwardPerPair
<1>1. IInv => OneForwardPerPair
  BY DEF IInv
<1>. QED BY <1>1, Invariant, PTL

\* Every request listed was made by a system that is connected.
THEOREM Requesters == Spec => []RequestersAreConnected
<1>1. IInv => RequestersAreConnected
  BY DEF IInv
<1>. QED BY <1>1, Invariant, PTL

\* TryNextServer never comes back to a server it has asked for a request.
THEOREM AskedOnce == Spec => []NoServerAskedTwice
<1>1. IInv => NoServerAskedTwice
  BY DEF IInv
<1>. QED BY <1>1, Invariant, PTL

\* The lists of servers and of requests agree with each other and with the
\* connections, whatever order requests, replies and losses come in.
THEOREM RequestsKept == Spec => []RequestsAgree
<1>1. IInv => RequestsAgree
  BY DEF IInv, RequestsAgree
<1>. QED BY <1>1, Invariant, PTL

\* The body of AsksLiveServers.
AsksLive ==
  \A i \in 1 .. Len(sent') :
    sent'[i].id = "ID_UDP_PROXY_FORWARDING_REQUEST_FROM_COORDINATOR_TO_SERVER"
      => sent'[i].to \in LoggedIn \ closing

\* TryNextServer asks a server that is logged in; the caller sees to it that
\* the server being removed is not among the remaining ones.
LEMMA TryNextServerAsksLive ==
  ASSUME NEW p, NEW fw, TryNextServer(p, fw), fw.remainingServersToTry \in Seq(Server),
         closing \cap ToSet(fw.remainingServersToTry) = {}
  PROVE  AsksLive
<1>1. CASE TryServer(p, fw)
  <2> DEFINE list == fw.remainingServersToTry
  <2>1. PICK i \in 1 .. Len(list) :
          FirstLoggedIn(i, list) /\ SendForwardingRequest(list[i], p)
    BY <1>1 DEF TryServer
  <2>2. list[i] \in LoggedIn \ closing
    BY <2>1 DEF FirstLoggedIn, ToSet
  <2> HIDE DEF list
  <2>3. /\ Len(sent') = 1
        /\ sent'[1] = [to |-> list[i], pair |-> p,
             id |-> "ID_UDP_PROXY_FORWARDING_REQUEST_FROM_COORDINATOR_TO_SERVER"]
    BY <2>1 DEF SendForwardingRequest
  <2>4. \A j \in 1 .. Len(sent') : sent'[j].to = list[i]
    BY <2>3
  <2>. QED BY <2>2, <2>4 DEF AsksLive
<1>2. CASE GiveUp(p, fw)
  BY <1>2 DEF GiveUp, ToRequester, AsksLive
<1>. QED BY <1>1, <1>2 DEF TryNextServer

LEMMA NextAsksLive ==
  ASSUME IInv, Next PROVE AsksLive
<1>1. ASSUME sent' = <<>> PROVE AsksLive
  BY <1>1 DEF AsksLive
<1>2. ASSUME NEW q \in DOMAIN requests
      PROVE  /\ requests[q].remainingServersToTry \in Seq(Server)
             /\ IsInjective(requests[q].remainingServersToTry)
             /\ requests[q].currentlyAttemptedServerAddress
                  \notin ToSet(requests[q].remainingServersToTry)
  BY DEF IInv, TypeOK, NoServerAskedTwice, ForwardingRequest
<1>3. ASSUME VisitRequest PROVE AsksLive
  <2>1. PICK p \in NextIn(toVisit) :
          \/ AtLostServer(p) /\ TryNextServer(p, requests[p])
          \/ sent' = <<>>
    BY <1>3 DEF VisitRequest
  <2>2. p \in DOMAIN requests
    BY DEF NextIn, IInv, TypeOK
  <2>3. CASE AtLostServer(p) /\ TryNextServer(p, requests[p])
    <3>1. closing \cap ToSet(requests[p].remainingServersToTry) = {}
      BY <1>2, <2>2, <2>3 DEF AtLostServer, IInv, OneHandler
    <3>. QED BY <1>2, <2>2, <2>3, <3>1, TryNextServerAsksLive
  <2>. QED BY <1>1, <2>1, <2>3
<1>4. ASSUME NEW ask \in Ask, NEW byGuid \in BOOLEAN,
             OnForwardingRequest(ask[1], <<ask[2], ask[3]>>, byGuid)
      PROVE  AsksLive
  <2> DEFINE c == ask[1]
             p == <<ask[2], ask[3]>>
  <2>1. ASSUME Accept(c, p), Idle, serverList \in Seq(Server) PROVE AsksLive
    <3>1. CASE sent' = << [to |-> p[1], pair |-> p, servers |-> serverList,
                    id |-> "ID_UDP_PROXY_PING_SERVERS_FROM_COORDINATOR_TO_CLIENT"],
                  [to |-> p[2], pair |-> p, servers |-> serverList,
                    id |-> "ID_UDP_PROXY_PING_SERVERS_FROM_COORDINATOR_TO_CLIENT"] >>
      BY <3>1 DEF AsksLive
    <3>2. CASE Len(serverList) = 1 /\ SendForwardingRequest(serverList[1], p)
      <4>1. serverList[1] \in LoggedIn \ closing
        BY <2>1, <3>2 DEF LoggedIn, ToSet, Idle
      <4>2. \A i \in 1 .. Len(sent') : sent'[i].to = serverList[1]
        BY <3>2 DEF SendForwardingRequest
      <4>. QED BY <4>1, <4>2 DEF AsksLive
    <3>. QED BY <2>1, <3>1, <3>2, Zenon DEF Accept
  <2>2. ASSUME NEW why \in Answer, Refuse(c, p, why) PROVE AsksLive
    BY <2>2 DEF Refuse, AsksLive, Answer
  <2> HIDE DEF c, p
  <2>3. /\ \/ \E why \in {"ID_UDP_PROXY_IN_PROGRESS", "ID_UDP_PROXY_NO_SERVERS_ONLINE",
                          "ID_UDP_PROXY_RECIPIENT_GUID_NOT_CONNECTED_TO_COORDINATOR"} :
                 Refuse(c, p, why)
           \/ Accept(c, p)
        /\ Idle
    BY <1>4 DEF OnForwardingRequest, c, p
  <2>. QED BY <2>1, <2>2, <2>3 DEF Answer, IInv, TypeOK
<1>5. ASSUME NEW v \in Server, NEW id \in LoginAnswer, OnLoginRequest(v, id) PROVE AsksLive
  <2>1. sent' = <<[to |-> v, id |-> id]>>
    BY <1>5 DEF OnLoginRequest
  <2>. QED BY <2>1 DEF AsksLive, LoginAnswer
<1>6. ASSUME NEW v \in Server, NEW p \in Pair, NEW result \in UDPForwarderResult,
             OnForwardingReply(v, p, result)
      PROVE  AsksLive
  <2>1. p \in DOMAIN requests /\ closing = {}
    BY <1>6 DEF OnForwardingReply, Idle
  <2>2. CASE Succeed(p)
    <3>1. sent' = << [to |-> requests[p].requestingAddress, pair |-> p,
                      id |-> "ID_UDP_PROXY_FORWARDING_SUCCEEDED"],
                     [to |-> p[2], pair |-> p,
                      id |-> "ID_UDP_PROXY_FORWARDING_NOTIFICATION"] >>
      BY <2>2 DEF Succeed, ToRequester
    <3>. QED BY <3>1 DEF AsksLive
  <2>3. CASE TryNextServer(p, requests[p])
    BY <1>2, <2>1, <2>3, TryNextServerAsksLive
  <2>4. CASE EndInProgress(p)
    BY <2>4 DEF EndInProgress, ToRequester, AsksLive
  <2>. QED BY <1>6, <2>2, <2>3, <2>4 DEF OnForwardingReply
<1>7. ASSUME NEW p \in Pair, PingsTimeOut(p) PROVE AsksLive
  <2>1. p \in DOMAIN requests /\ closing = {}
    BY <1>7 DEF PingsTimeOut, Idle
  <2>2. PICK list \in OrderRemainingServersToTry(requests[p].remainingServersToTry,
                                                 sourcePings[p]) :
          TryNextServer(p, [requests[p] EXCEPT !.timeRequestedPings = FALSE,
                                               !.remainingServersToTry = list])
    BY <1>7 DEF PingsTimeOut
  <2> DEFINE fw == [requests[p] EXCEPT !.timeRequestedPings = FALSE,
                                       !.remainingServersToTry = list]
  <2>3. list \in Seq(Server)
    BY <1>2, <2>1, <2>2, OrderFacts
  <2>4. fw.remainingServersToTry = list
    BY <2>1 DEF IInv, TypeOK, ForwardingRequest
  <2>5. TryNextServer(p, fw)
    BY <2>2
  <2> HIDE DEF fw
  <2>. QED BY <2>1, <2>3, <2>4, <2>5, TryNextServerAsksLive
<1>8. ASSUME \/ \E a \in Address : Connect(a) \/ OnClosedConnection(a)
             \/ RemoveServer
             \/ \E a \in Client, p \in Pair, reply \in PingReply :
                  OnPingServersReply(a, p, reply)
             \/ \E p \in Pair : ForgetSuccess(p)
      PROVE  AsksLive
  BY <1>1, <1>8 DEF Connect, OnClosedConnection, RemoveServer, OnPingServersReply,
                    ForgetSuccess
<1>. QED BY <1>3, <1>4, <1>5, <1>6, <1>7, <1>8 DEF Next

\* A server is asked to forward only while it is logged in, also in the middle
\* of the loop that takes requests away from a server that was lost.
THEOREM AsksLiveOnly == Spec => AsksLiveServers
<1>1. IInv /\ [Next]_vars => [AsksLive]_vars
  BY NextAsksLive
<1>2. AsksLiveServers <=> [][AsksLive]_vars
  BY DEF AsksLiveServers, AsksLive
<1>. QED BY <1>1, <1>2, Invariant, PTL DEF Spec

\* The body of EndsAreAnswered.
Answers ==
  \A p \in DOMAIN requests \ DOMAIN requests' :
    LET c == requests[p].requestingAddress
    IN ~requests[p].timeoutAfterSuccess /\ c \in connected' =>
         \E i \in 1 .. Len(sent') :
           sent'[i].to = c /\ sent'[i].id \in Answer /\ sent'[i].pair = p

\* TryNextServer removes a request only with an answer.
LEMMA TryNextServerAnswers ==
  ASSUME NEW p, NEW fw, fw.requestingAddress = requests[p].requestingAddress,
         TryNextServer(p, fw)
  PROVE  Answers
<1>1. CASE TryServer(p, fw)
  BY <1>1 DEF TryServer, Put, Answers
<1>2. CASE GiveUp(p, fw)
  <2> DEFINE m == [to |-> fw.requestingAddress, pair |-> p,
                   id |-> "ID_UDP_PROXY_ALL_SERVERS_BUSY"]
  <2>1. sent' = <<m>> /\ DOMAIN requests \ DOMAIN requests' \subseteq {p}
    BY <1>2 DEF GiveUp, ToRequester, Drop
  <2>2. m.to = requests[p].requestingAddress /\ m.id \in Answer /\ m.pair = p
    BY DEF Answer
  <2> HIDE DEF m
  <2>3. 1 \in 1 .. Len(sent') /\ sent'[1] = m
    BY <2>1
  <2>. QED BY <2>1, <2>2, <2>3 DEF Answers
<1>. QED BY <1>1, <1>2 DEF TryNextServer

LEMMA NextAnswers ==
  ASSUME IInv, Next PROVE Answers
<1>1. ASSUME DOMAIN requests \subseteq DOMAIN requests' PROVE Answers
  BY <1>1 DEF Answers
<1>2. ASSUME NEW a \in Address, OnClosedConnection(a) PROVE Answers
  <2>1. connected' = connected \ {a}
        /\ DOMAIN requests \ DOMAIN requests' \subseteq RequestsOf(a)
    BY <1>2 DEF OnClosedConnection, Drop
  <2>. QED BY <2>1 DEF RequestsOf, Answers
<1>3. ASSUME VisitRequest PROVE Answers
  <2>1. \/ \E p : TryNextServer(p, requests[p])
        \/ UNCHANGED requests
    BY <1>3 DEF VisitRequest
  <2>. QED BY <1>1, <2>1, TryNextServerAnswers
<1>4. ASSUME NEW ask \in Ask, NEW byGuid \in BOOLEAN,
             OnForwardingRequest(ask[1], <<ask[2], ask[3]>>, byGuid)
      PROVE  Answers
  <2>1. UNCHANGED requests \/ Accept(ask[1], <<ask[2], ask[3]>>)
    BY <1>4 DEF OnForwardingRequest, Refuse
  <2>2. DOMAIN requests \subseteq DOMAIN requests'
    BY <2>1 DEF Accept, Put
  <2>. QED BY <1>1, <2>2
<1>5. ASSUME NEW v \in Server, NEW p \in Pair, NEW result \in UDPForwarderResult,
             OnForwardingReply(v, p, result)
      PROVE  Answers
  <2>1. CASE Succeed(p)
    BY <1>1, <2>1 DEF Succeed, Put
  <2>2. CASE TryNextServer(p, requests[p])
    BY <2>2, TryNextServerAnswers
  <2>3. CASE EndInProgress(p)
    <3> DEFINE m == [to |-> requests[p].requestingAddress, pair |-> p,
                     id |-> "ID_UDP_PROXY_IN_PROGRESS"]
    <3>1. sent' = <<m>> /\ DOMAIN requests \ DOMAIN requests' \subseteq {p}
      BY <2>3 DEF EndInProgress, ToRequester, Drop
    <3>2. m.to = requests[p].requestingAddress /\ m.id \in Answer /\ m.pair = p
      BY DEF Answer
    <3> HIDE DEF m
    <3>3. 1 \in 1 .. Len(sent') /\ sent'[1] = m
      BY <3>1
    <3>. QED BY <3>1, <3>2, <3>3 DEF Answers
  <2>. QED BY <1>5, <2>1, <2>2, <2>3 DEF OnForwardingReply
<1>6. ASSUME NEW p \in Pair, PingsTimeOut(p) PROVE Answers
  <2>1. p \in DOMAIN requests /\ requests[p] \in ForwardingRequest
    BY <1>6 DEF PingsTimeOut, IInv, TypeOK
  <2>2. PICK list : TryNextServer(p, [requests[p] EXCEPT !.timeRequestedPings = FALSE,
                                                         !.remainingServersToTry = list])
    BY <1>6 DEF PingsTimeOut
  <2> DEFINE fw == [requests[p] EXCEPT !.timeRequestedPings = FALSE,
                                       !.remainingServersToTry = list]
  <2>3. fw.requestingAddress = requests[p].requestingAddress
    BY <2>1 DEF ForwardingRequest
  <2>4. TryNextServer(p, fw)
    BY <2>2
  <2> HIDE DEF fw
  <2>. QED BY <2>3, <2>4, TryNextServerAnswers
<1>7. ASSUME NEW p \in Pair, ForgetSuccess(p) PROVE Answers
  BY <1>7 DEF ForgetSuccess, Drop, Answers
<1>8. ASSUME \/ \E a \in Address : Connect(a)
             \/ RemoveServer
             \/ \E a \in Client, p \in Pair, reply \in PingReply :
                  OnPingServersReply(a, p, reply)
             \/ \E v \in Server, id \in LoginAnswer : OnLoginRequest(v, id)
      PROVE  Answers
  BY <1>1, <1>8 DEF Connect, RemoveServer, OnPingServersReply, OnLoginRequest
<1>. QED BY <1>2, <1>3, <1>4, <1>5, <1>6, <1>7, <1>8 DEF Next

\* Whichever handler removes a request that has not succeeded, the system that
\* made it is told, unless its connection is lost.
THEOREM EndsAnswered == Spec => EndsAreAnswered
<1>1. IInv /\ [Next]_vars => [Answers]_vars
  BY NextAnswers
<1>2. EndsAreAnswered <=> [][Answers]_vars
  BY DEF EndsAreAnswered, Answers
<1>. QED BY <1>1, <1>2, Invariant, PTL DEF Spec

-----------------------------------------------------------------------------
(* The coordinator implements ProxyForwarding *)

\* The request of ProxyForwarding that fw stands for.
Abstracted(fw) ==
  [by |-> fw.requestingAddress, at |-> fw.currentlyAttemptedServerAddress,
   untried |-> ToSet(fw.remainingServersToTry), forwarded |-> fw.timeoutAfterSuccess]

\* AbstractRequests, request by request.
LEMMA AbstractedFacts ==
  /\ DOMAIN AbstractRequests = DOMAIN requests
  /\ \A p \in DOMAIN requests : AbstractRequests[p] = Abstracted(requests[p])
  /\ AbstractRequests = [p \in DOMAIN requests |-> Abstracted(requests[p])]
  /\ DOMAIN AbstractRequests' = DOMAIN requests'
  /\ \A p \in DOMAIN requests' : AbstractRequests'[p] = Abstracted(requests'[p])
  /\ AbstractRequests' = [p \in DOMAIN requests' |-> Abstracted(requests'[p])]
BY DEF AbstractRequests, Abstracted

LEMMA AbstractedFields ==
  ASSUME NEW p \in DOMAIN requests
  PROVE  /\ AbstractRequests[p].by = requests[p].requestingAddress
         /\ AbstractRequests[p].forwarded = requests[p].timeoutAfterSuccess
BY DEF AbstractRequests

\* A request put into the list is put into the abstract one, and nothing else
\* is changed there.
LEMMA PutAbstracted ==
  ASSUME NEW p, NEW fw, Put(p, fw)
  PROVE  Abstract!Only(p) /\ AbstractRequests'[p] = Abstracted(fw)
<1>1. /\ DOMAIN requests' = DOMAIN requests \cup {p}
      /\ requests'[p] = fw
      /\ \A q \in DOMAIN requests \ {p} : requests'[q] = requests[q]
  BY DEF Put
<1>. QED BY <1>1, AbstractedFacts DEF Abstract!Only

LEMMA DropAbstracted ==
  ASSUME NEW S, Drop(S) PROVE Abstract!Remove(S)
<1>1. /\ DOMAIN requests' = DOMAIN requests \ S
      /\ \A q \in DOMAIN requests' : requests'[q] = requests[q]
  BY DEF Drop
<1>2. AbstractRequests' = [q \in DOMAIN requests \ S |-> Abstracted(requests[q])]
  BY <1>1, AbstractedFacts
<1>. QED BY <1>2, AbstractedFacts DEF Abstract!Remove

\* What the last step has told, when it has sent one message.
LEMMA OneSent ==
  ASSUME NEW m, sent' = <<m>>
  PROVE  /\ m.id \in Answer => Answered' = {<<m.to, m.pair>>}
         /\ m.id \notin Answer => Answered' = {}
<1>1. DOMAIN sent' = {1} /\ sent'[1] = m
  OBVIOUS
<1>2. Answered' = {<<sent'[i].to, sent'[i].pair>> : i \in {k \in {1} : sent'[k].id \in Answer}}
  BY <1>1 DEF Answered, Answer
<1>. QED BY <1>1, <1>2

LEMMA NothingSent ==
  ASSUME sent' = <<>> PROVE Answered' = {}
BY DEF Answered

\* What a request must be like to become one that is tried again.
LEMMA TryNextServerAbstracted ==
  ASSUME IInv, NEW p \in Pair, p \in DOMAIN requests, NEW fw \in ForwardingRequest,
         IsInjective(fw.remainingServersToTry),
         fw.requestingAddress = requests[p].requestingAddress,
         fw.timeoutAfterSuccess = requests[p].timeoutAfterSuccess,
         ToSet(fw.remainingServersToTry) \subseteq ToSet(requests[p].remainingServersToTry),
         closing \cap ToSet(fw.remainingServersToTry) = {},
         TryNextServer(p, fw), UNCHANGED <<serverList, closing>>
  PROVE  Abstract!Try(p) \/ Abstract!Fail(p)
<1>1. UNCHANGED (LoggedIn \ closing)
  BY DEF LoggedIn
<1>2. Abstract!Known(p) /\ AbstractRequests[p] = Abstracted(requests[p])
  BY AbstractedFacts DEF Abstract!Known
<1>3. CASE TryServer(p, fw)
  <2> DEFINE list == fw.remainingServersToTry
  <2>1. PICK i \in 1 .. Len(list) :
          /\ FirstLoggedIn(i, list)
          /\ Put(p, [fw EXCEPT !.currentlyAttemptedServerAddress = list[i],
                               !.remainingServersToTry = ServersAfter(list, i)])
          /\ SendForwardingRequest(list[i], p)
    BY <1>3 DEF TryServer
  <2> DEFINE new == [fw EXCEPT !.currentlyAttemptedServerAddress = list[i],
                               !.remainingServersToTry = ServersAfter(list, i)]
  <2>2. list \in Seq(Server) /\ list[i] \in LoggedIn /\ list[i] \in ToSet(list)
    BY <2>1 DEF ForwardingRequest, FirstLoggedIn, ToSet
  <2>3. /\ list[i] \notin ToSet(ServersAfter(list, i))
        /\ ToSet(ServersAfter(list, i)) \subseteq ToSet(list)
    BY <2>2, ServersAfterFacts
  <2>4. /\ new.requestingAddress = requests[p].requestingAddress
        /\ new.timeoutAfterSuccess = requests[p].timeoutAfterSuccess
        /\ new.remainingServersToTry = ServersAfter(list, i)
        /\ new.currentlyAttemptedServerAddress = list[i]
    BY DEF ForwardingRequest
  <2>5. Put(p, new)
    BY <2>1
  <2>6. Answered' = {}
    <3> DEFINE m == [to |-> list[i], pair |-> p,
               id |-> "ID_UDP_PROXY_FORWARDING_REQUEST_FROM_COORDINATOR_TO_SERVER"]
    <3>1. sent' = <<m>> /\ m.id \notin Answer
      BY <2>1 DEF SendForwardingRequest, Answer
    <3> HIDE DEF m
    <3>. QED BY <3>1, OneSent
  <2> HIDE DEF new
  <2>7. Abstract!Only(p) /\ AbstractRequests'[p] = Abstracted(new)
    BY <2>5, PutAbstracted
  <2>8. Abstracted(new) = [by |-> requests[p].requestingAddress, at |-> list[i],
                           untried |-> ToSet(ServersAfter(list, i)),
                           forwarded |-> requests[p].timeoutAfterSuccess]
    BY <2>4 DEF Abstracted
  <2> HIDE DEF list
  <2>9. Abstracted(new) = [Abstracted(requests[p]) EXCEPT !.at = list[i],
                             !.untried = ToSet(ServersAfter(list, i))]
    <3> DEFINE old == Abstracted(requests[p])
               one == [by |-> requests[p].requestingAddress, at |-> list[i],
                       untried |-> ToSet(requests[p].remainingServersToTry),
                       forwarded |-> requests[p].timeoutAfterSuccess]
    <3>1. [old EXCEPT !.at = list[i]] = one
      BY DEF Abstracted
    <3>2. [one EXCEPT !.untried = ToSet(ServersAfter(list, i))] = Abstracted(new)
      BY <2>8
    <3> HIDE DEF old, one
    <3>3. [old EXCEPT !.at = list[i], !.untried = ToSet(ServersAfter(list, i))]
            = [[old EXCEPT !.at = list[i]] EXCEPT !.untried = ToSet(ServersAfter(list, i))]
      OBVIOUS
    <3>. QED BY <3>1, <3>2, <3>3, Zenon DEF old
  <2>10. /\ Abstracted(new).at = list[i]
         /\ Abstracted(new).untried = ToSet(ServersAfter(list, i))
    BY <2>8
  <2>11. list[i] \in Abstracted(requests[p]).untried \cap (LoggedIn \ closing)
    BY <2>2 DEF Abstracted, list
  <2>12. ToSet(ServersAfter(list, i)) \subseteq Abstracted(requests[p]).untried \ {list[i]}
    BY <2>3 DEF Abstracted, list
  <2>. QED BY <1>1, <1>2, <2>6, <2>7, <2>9, <2>10, <2>11, <2>12 DEF Abstract!Try
<1>4. CASE GiveUp(p, fw)
  <2> DEFINE m == ToRequester(fw, p, "ID_UDP_PROXY_ALL_SERVERS_BUSY")
  <2>1. m.id \in Answer /\ m.to = AbstractRequests[p].by /\ m.pair = p
    BY <1>2 DEF ToRequester, Answer, Abstracted
  <2>2. sent' = <<m>> /\ Drop({p})
    BY <1>4 DEF GiveUp
  <2> HIDE DEF m
  <2>3. Answered' = {<<AbstractRequests[p].by, p>>} /\ Abstract!Remove({p})
    BY <2>1, <2>2, OneSent, DropAbstracted
  <2>. QED BY <1>1, <1>2, <2>3 DEF Abstract!Fail
<1>. QED BY <1>3, <1>4 DEF TryNextServer

\* A request the coordinator accepts is one ProxyForwarding accepts.
LEMMA AcceptAbstracted ==
  ASSUME IInv, NEW c \in Client, NEW p \in Pair, Idle, ~InProgress(p),
         Accept(c, p), UNCHANGED <<serverList, closing>>
  PROVE  Abstract!Accept(p)
<1> DEFINE n == Len(serverList)
           fw == [requestingAddress |-> c,
                  currentlyAttemptedServerAddress |-> NoServer,
                  remainingServersToTry |-> serverList,
                  timeRequestedPings |-> TRUE,
                  timeoutAfterSuccess |-> FALSE]
           one == [fw EXCEPT !.currentlyAttemptedServerAddress = serverList[1],
                             !.remainingServersToTry = <<>>,
                             !.timeRequestedPings = FALSE]
           ping(to) == [to |-> to, pair |-> p, servers |-> serverList,
                        id |-> "ID_UDP_PROXY_PING_SERVERS_FROM_COORDINATOR_TO_CLIENT"]
<1>1. UNCHANGED (LoggedIn \ closing) /\ LoggedIn \ closing = LoggedIn
  BY DEF LoggedIn, Idle
<1>2. ~Abstract!Listed(p)
  BY AbstractedFacts DEF InProgress, Reverse2, Abstract!Listed, Abstract!Known
<1>3. serverList \in Seq(Server) /\ LoggedIn \subseteq Server
  BY DEF IInv, TypeOK, LoggedIn, ToSet
<1>4. \/ n > 1 /\ Put(p, fw) /\ sent' = <<ping(p[1]), ping(p[2])>>
      \/ n = 1 /\ Put(p, one) /\ SendForwardingRequest(serverList[1], p)
  BY Zenon DEF Accept
<1>5. CASE n > 1 /\ Put(p, fw) /\ sent' = <<ping(p[1]), ping(p[2])>>
  <2>1. Answered' = {}
    BY <1>5 DEF Answered, Answer
  <2>2. Abstracted(fw) = [by |-> c, at |-> NoServer, untried |-> LoggedIn, forwarded |-> FALSE]
    BY DEF Abstracted, LoggedIn
  <2>3. Abstract!Only(p) /\ AbstractRequests'[p] = Abstracted(fw)
    BY <1>5, PutAbstracted
  <2> HIDE DEF fw, one, ping
  <2>. QED BY <1>1, <1>2, <1>3, <2>1, <2>2, <2>3, NoServerAssumption DEF Abstract!Accept
<1>6. CASE n = 1 /\ Put(p, one) /\ SendForwardingRequest(serverList[1], p)
  <2> DEFINE m == [to |-> serverList[1], pair |-> p,
               id |-> "ID_UDP_PROXY_FORWARDING_REQUEST_FROM_COORDINATOR_TO_SERVER"]
  <2>1. sent' = <<m>> /\ m.id \notin Answer
    BY <1>6 DEF SendForwardingRequest, Answer
  <2>2. serverList[1] \in LoggedIn
    BY <1>3, <1>6 DEF LoggedIn, ToSet
  <2>3. Abstracted(one) = [by |-> c, at |-> serverList[1], untried |-> {}, forwarded |-> FALSE]
    <3>1. fw \in ForwardingRequest /\ ToSet(<<>>) = {}
      BY <1>3 DEF ForwardingRequest, ToSet
    <3> HIDE DEF fw
    <3>2. /\ one.requestingAddress = fw.requestingAddress
          /\ one.timeoutAfterSuccess = fw.timeoutAfterSuccess
          /\ one.remainingServersToTry = <<>>
          /\ one.currentlyAttemptedServerAddress = serverList[1]
      BY <3>1 DEF ForwardingRequest
    <3> HIDE DEF one
    <3>. QED BY <3>1, <3>2 DEF Abstracted, fw
  <2>4. Abstract!Only(p) /\ AbstractRequests'[p] = Abstracted(one)
    BY <1>6, PutAbstracted
  <2> HIDE DEF fw, one, ping, m
  <2>5. Answered' = {}
    BY <2>1, OneSent
  <2>. QED BY <1>1, <1>2, <2>2, <2>3, <2>4, <2>5 DEF Abstract!Accept
<1>. QED BY <1>4, <1>5, <1>6

\* Every step of the coordinator is one of ProxyForwarding, or changes nothing
\* that ProxyForwarding knows.
LEMMA NextAbstracted ==
  ASSUME IInv, Next PROVE Abstract!Next
<1>1. ASSUME sent' = <<>>, UNCHANGED <<requests, LoggedIn \ closing>> PROVE Abstract!Pause
  BY <1>1, NothingSent DEF AbstractRequests, Abstract!Pause
<1>2. ASSUME NEW p \in DOMAIN requests
      PROVE  /\ p \in Pair /\ requests[p] \in ForwardingRequest
             /\ requests[p].remainingServersToTry \in Seq(Server)
             /\ IsInjective(requests[p].remainingServersToTry)
             /\ requests[p].currentlyAttemptedServerAddress
                  \notin ToSet(requests[p].remainingServersToTry)
             /\ Abstract!Known(p)
             /\ AbstractRequests[p] = Abstracted(requests[p])
  BY AbstractedFacts
     DEF IInv, TypeOK, NoServerAskedTwice, ForwardingRequest, Abstract!Known
<1>3. Abstract!Pair = Pair
  BY DEF Abstract!Pair, Pair
<1>4. ASSUME NEW a \in Address, Connect(a) PROVE Abstract!Pause
  BY <1>1, <1>4 DEF Connect, LoggedIn, pcVars
<1>5. ASSUME NEW a \in Address, OnClosedConnection(a) PROVE Abstract!Leave(a)
  <2>1. /\ closing = {} /\ Drop(RequestsOf(a)) /\ UNCHANGED LoggedIn
        /\ IF a \in LoggedIn THEN closing' = {a} ELSE UNCHANGED closing
    BY <1>5 DEF OnClosedConnection, Idle, LoggedIn, pcVars
  <2>2. (LoggedIn \ closing)' = (LoggedIn \ closing) \ {a}
    BY <2>1
  <2>3. RequestsOf(a) = {p \in DOMAIN AbstractRequests : AbstractRequests[p].by = a}
    BY AbstractedFacts DEF RequestsOf, Abstracted
  <2>4. Abstract!Remove({p \in DOMAIN AbstractRequests : AbstractRequests[p].by = a})
    BY <2>1, <2>3, DropAbstracted
  <2>5. Answered' = {}
    BY <1>5, NothingSent DEF OnClosedConnection
  <2>. QED BY <2>2, <2>4, <2>5 DEF Abstract!Leave
<1>6. ASSUME VisitRequest
      PROVE  Abstract!Pause \/ \E p \in Pair : Abstract!Try(p) \/ Abstract!Fail(p)
  <2>1. PICK p \in NextIn(toVisit) :
          /\ \/ AtLostServer(p) /\ TryNextServer(p, requests[p])
             \/ sent' = <<>> /\ UNCHANGED requests
          /\ UNCHANGED <<serverList, closing>>
    BY <1>6 DEF VisitRequest
  <2>2. p \in DOMAIN requests
    BY DEF NextIn, IInv, TypeOK
  <2>3. CASE AtLostServer(p) /\ TryNextServer(p, requests[p])
    <3>1. closing \cap ToSet(requests[p].remainingServersToTry) = {}
      BY <1>2, <2>2, <2>3 DEF AtLostServer, IInv, OneHandler
    <3>. QED BY <1>2, <2>1, <2>2, <2>3, <3>1, TryNextServerAbstracted
  <2>4. CASE sent' = <<>> /\ UNCHANGED requests
    BY <1>1, <2>1, <2>4 DEF LoggedIn
  <2>. QED BY <2>1, <2>3, <2>4
<1>7. ASSUME RemoveServer PROVE Abstract!Pause
  <2>1. PICK i \in 1 .. Len(serverList) :
          /\ serverList[i] \in closing
          /\ serverList' = RemoveAtIndexFast(serverList, i)
    BY <1>7 DEF RemoveServer
  <2>2. serverList \in Seq(Server) /\ IsInjective(serverList)
    BY DEF IInv, TypeOK, ServersAreConnected
  <2>3. closing = {serverList[i]} /\ closing' = {}
    BY <1>7, <2>1 DEF IInv, OneHandler, RemoveServer
  <2>4. ToSet(serverList') = ToSet(serverList) \ {serverList[i]}
    BY <2>1, <2>2, RemoveAtIndexFastLeaves
  <2>5. UNCHANGED (LoggedIn \ closing)
    BY <2>3, <2>4 DEF LoggedIn
  <2>. QED BY <1>1, <1>7, <2>5 DEF RemoveServer
<1>8. ASSUME NEW ask \in Ask, NEW byGuid \in BOOLEAN,
             OnForwardingRequest(ask[1], <<ask[2], ask[3]>>, byGuid)
      PROVE  \/ \E c \in Client, p \in Pair : Abstract!Refuse(c, p)
             \/ \E p \in Pair : Abstract!Accept(p)
  <2> DEFINE c == ask[1]
             p == <<ask[2], ask[3]>>
  <2>1. c \in Client /\ p \in Pair
    BY AskAssumption DEF Pair
  <2>2. ASSUME NEW why \in Answer, Refuse(c, p, why), UNCHANGED (LoggedIn \ closing)
        PROVE  Abstract!Refuse(c, p)
    <3> DEFINE m == [to |-> c, pair |-> p, id |-> why]
    <3>1. sent' = <<m>> /\ m.id \in Answer /\ m.to = c /\ m.pair = p
      BY <2>2 DEF Refuse
    <3> HIDE DEF m, c, p
    <3>2. Answered' = {<<c, p>>}
      BY <3>1, OneSent
    <3>3. UNCHANGED AbstractRequests
      BY <2>2 DEF Refuse, AbstractRequests
    <3>. QED BY <2>2, <3>2, <3>3 DEF Abstract!Refuse
  <2> HIDE DEF c, p
  <2>3. /\ \/ \E why \in {"ID_UDP_PROXY_IN_PROGRESS", "ID_UDP_PROXY_NO_SERVERS_ONLINE",
                          "ID_UDP_PROXY_RECIPIENT_GUID_NOT_CONNECTED_TO_COORDINATOR"} :
                 Refuse(c, p, why)
           \/ ~InProgress(p) /\ Accept(c, p)
        /\ Idle /\ UNCHANGED <<serverList, closing, LoggedIn>>
    BY <1>8 DEF OnForwardingRequest, LoggedIn, pcVars, c, p
  <2>. QED BY <2>1, <2>2, <2>3, AcceptAbstracted DEF Answer
<1>9. ASSUME NEW a \in Client, NEW p \in Pair, NEW reply \in PingReply,
             OnPingServersReply(a, p, reply)
      PROVE  Abstract!Pause
  BY <1>1, <1>9 DEF OnPingServersReply, LoggedIn, pcVars
<1>10. ASSUME NEW v \in Server, NEW id \in LoginAnswer, OnLoginRequest(v, id)
       PROVE  Abstract!Join(v) \/ Abstract!Pause
  <2> DEFINE m == [to |-> v, id |-> id]
  <2>1. /\ sent' = <<m>> /\ m.id \notin Answer
        /\ closing = {} /\ UNCHANGED <<requests, closing>>
    BY <1>10 DEF OnLoginRequest, Answer, LoginAnswer, Idle, pcVars
  <2> HIDE DEF m
  <2>2. Answered' = {} /\ UNCHANGED AbstractRequests
    BY <2>1, OneSent DEF AbstractRequests
  <2>3. CASE v \notin LoggedIn /\ serverList' = Append(serverList, v)
    <3>1. ToSet(serverList') = ToSet(serverList) \cup {v}
      BY <2>3, AppendFacts DEF LoggedIn, IInv, TypeOK, ServersAreConnected
    <3>2. (LoggedIn \ closing)' = (LoggedIn \ closing) \cup {v}
      BY <2>1, <3>1 DEF LoggedIn
    <3>. QED BY <2>2, <3>2 DEF Abstract!Join
  <2>4. CASE UNCHANGED serverList
    BY <2>1, <2>2, <2>4 DEF Abstract!Pause, LoggedIn
  <2>. QED BY <1>10, <2>3, <2>4 DEF OnLoginRequest
<1>11. ASSUME NEW v \in Server, NEW p \in Pair, NEW result \in UDPForwarderResult,
              OnForwardingReply(v, p, result)
       PROVE  Abstract!Succeed(p) \/ Abstract!Try(p) \/ Abstract!Fail(p)
  <2>1. p \in DOMAIN requests /\ closing = {} /\ UNCHANGED <<serverList, closing, LoggedIn>>
    BY <1>11 DEF OnForwardingReply, Idle, LoggedIn, pcVars
  <2>2. CASE Succeed(p)
    <3> DEFINE new == [requests[p] EXCEPT !.timeoutAfterSuccess = TRUE]
    <3>1. /\ new.requestingAddress = requests[p].requestingAddress
          /\ new.currentlyAttemptedServerAddress = requests[p].currentlyAttemptedServerAddress
          /\ new.remainingServersToTry = requests[p].remainingServersToTry
          /\ new.timeoutAfterSuccess = TRUE
      BY <1>2, <2>1 DEF ForwardingRequest
    <3>2. Put(p, new)
      BY <2>2 DEF Succeed
    <3> HIDE DEF new
    <3>3. Abstracted(new) = [AbstractRequests[p] EXCEPT !.forwarded = TRUE]
      <4> DEFINE old == [by |-> requests[p].requestingAddress,
                         at |-> requests[p].currentlyAttemptedServerAddress,
                         untried |-> ToSet(requests[p].remainingServersToTry),
                         forwarded |-> requests[p].timeoutAfterSuccess]
      <4>1. Abstracted(new) = [old EXCEPT !.forwarded = TRUE]
        <5> DEFINE T == TRUE
                   one == [by |-> requests[p].requestingAddress,
                           at |-> requests[p].currentlyAttemptedServerAddress,
                           untried |-> ToSet(requests[p].remainingServersToTry),
                           forwarded |-> T]
        <5>1. [old EXCEPT !.forwarded = T] = one
          <6> HIDE DEF T
          <6>. QED OBVIOUS
        <5>2. Abstracted(new) = one
          BY <3>1, Zenon DEF Abstracted
        <5> HIDE DEF old, one
        <5>. QED BY <5>1, <5>2
      <4>2. Abstracted(requests[p]) = old
        BY DEF Abstracted
      <4> HIDE DEF old
      <4>. QED BY <2>1, <4>1, <4>2, AbstractedFacts
    <3>4. /\ DOMAIN requests' = DOMAIN requests /\ requests'[p] = new
          /\ \A q \in DOMAIN requests : q # p => requests'[q] = requests[q]
      BY <2>1, <3>2 DEF Put
    <3>5. AbstractRequests' = [q \in DOMAIN AbstractRequests |->
                                 IF q = p THEN Abstracted(new) ELSE AbstractRequests[q]]
      BY <3>4, AbstractedFacts
    <3>6. AbstractRequests' = [AbstractRequests EXCEPT ![p].forwarded = TRUE]
      BY <2>1, <3>3, <3>5, AbstractedFacts
    <3>7. Answered' = {<<AbstractRequests[p].by, p>>}
      <4> DEFINE m == ToRequester(requests[p], p, "ID_UDP_PROXY_FORWARDING_SUCCEEDED")
                 w == [to |-> p[2], pair |-> p,
                       id |-> "ID_UDP_PROXY_FORWARDING_NOTIFICATION"]
      <4>1. /\ m.id \in Answer /\ m.to = AbstractRequests[p].by /\ m.pair = p
            /\ w.id \notin Answer
        BY <2>1, AbstractedFields DEF ToRequester, Answer
      <4>2. sent' = <<m, w>>
        BY <2>2 DEF Succeed
      <4> HIDE DEF m, w
      <4>3. /\ DOMAIN sent' = {1, 2} /\ sent'[1] = m /\ sent'[2] = w
        BY <4>2
      <4>. QED BY <4>1, <4>3 DEF Answered
    <3>. QED BY <1>2, <2>1, <3>6, <3>7 DEF Abstract!Succeed
  <2>3. CASE TryNextServer(p, requests[p])
    BY <1>2, <2>1, <2>3, TryNextServerAbstracted
  <2>4. CASE EndInProgress(p)
    <3> DEFINE m == ToRequester(requests[p], p, "ID_UDP_PROXY_IN_PROGRESS")
    <3>1. m.id \in Answer /\ m.to = AbstractRequests[p].by /\ m.pair = p
      BY <2>1, AbstractedFields DEF ToRequester, Answer
    <3>2. sent' = <<m>> /\ Drop({p})
      BY <2>4 DEF EndInProgress
    <3> HIDE DEF m
    <3>3. Answered' = {<<AbstractRequests[p].by, p>>} /\ Abstract!Remove({p})
      BY <3>1, <3>2, OneSent, DropAbstracted
    <3>. QED BY <1>2, <2>1, <3>3 DEF Abstract!Fail
  <2>. QED BY <1>11, <2>2, <2>3, <2>4 DEF OnForwardingReply
<1>12. ASSUME NEW p \in Pair, PingsTimeOut(p) PROVE Abstract!Try(p) \/ Abstract!Fail(p)
  <2>1. p \in DOMAIN requests /\ closing = {} /\ UNCHANGED <<serverList, closing>>
    BY <1>12 DEF PingsTimeOut, Idle, pcVars
  <2>2. PICK list \in OrderRemainingServersToTry(requests[p].remainingServersToTry,
                                                 sourcePings[p]) :
          TryNextServer(p, [requests[p] EXCEPT !.timeRequestedPings = FALSE,
                                               !.remainingServersToTry = list])
    BY <1>12 DEF PingsTimeOut
  <2> DEFINE fw == [requests[p] EXCEPT !.timeRequestedPings = FALSE,
                                       !.remainingServersToTry = list]
  <2>3. /\ list \in Seq(Server) /\ IsInjective(list)
        /\ ToSet(list) \subseteq ToSet(requests[p].remainingServersToTry)
    BY <1>2, <2>1, <2>2, OrderFacts
  <2>4. /\ fw \in ForwardingRequest
        /\ fw.remainingServersToTry = list
        /\ fw.requestingAddress = requests[p].requestingAddress
        /\ fw.timeoutAfterSuccess = requests[p].timeoutAfterSuccess
    BY <1>2, <2>1, <2>3 DEF ForwardingRequest
  <2>5. TryNextServer(p, fw)
    BY <2>2
  <2> HIDE DEF fw
  <2>. QED BY <2>1, <2>3, <2>4, <2>5, TryNextServerAbstracted
<1>13. ASSUME NEW p \in Pair, ForgetSuccess(p) PROVE Abstract!Forget(p)
  <2>1. /\ p \in DOMAIN requests /\ requests[p].timeoutAfterSuccess
        /\ Drop({p}) /\ sent' = <<>> /\ UNCHANGED <<LoggedIn, closing>>
    BY <1>13 DEF ForgetSuccess, LoggedIn, pcVars
  <2>2. AbstractRequests[p].forwarded = requests[p].timeoutAfterSuccess
    BY <2>1, AbstractedFields
  <2>. QED BY <1>2, <2>1, <2>2, NothingSent, DropAbstracted DEF Abstract!Forget
<1>. QED BY <1>3, <1>4, <1>5, <1>6, <1>7, <1>8, <1>9, <1>10, <1>11, <1>12, <1>13
         DEF Next, Abstract!Next, Address

\* The coordinator implements ProxyForwarding: whatever clients and servers
\* send and whichever connections are lost, every step of its handlers and of
\* its loop tries a server that is online and was not tried before, or tells
\* the requester how the request ended.
THEOREM Refinement == Spec => ImplementsForwarding
<1>1. Init => Abstract!Init
  BY DEF Init, Abstract!Init, AbstractRequests, Answered, LoggedIn, ToSet
<1>2. IInv /\ [Next]_vars => [Abstract!Next]_(Abstract!vars)
  <2>1. ASSUME UNCHANGED vars PROVE UNCHANGED Abstract!vars
    BY <2>1 DEF vars, pcVars, Abstract!vars, AbstractRequests, Answered, LoggedIn
  <2>. QED BY <2>1, NextAbstracted
<1>. QED BY <1>1, <1>2, Invariant, PTL DEF Spec, ImplementsForwarding, Abstract!Spec

=============================================================================
