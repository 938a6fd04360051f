---------------------------- MODULE CloudServer ----------------------------
(***************************************************************************)
(* The cloud, Source/CloudServer.cpp: clients post data under keys at      *)
(* their server, query keys on all servers, and subscribe to their         *)
(* changes.  Servers tell each other which keys have data or subscribers.  *)
(*                                                                         *)
(* Each server is single threaded; messages between two servers are        *)
(* RELIABLE_ORDERED on one channel.  Subscriptions are to all systems, and *)
(* data are within their limits.                                           *)
(***************************************************************************)
EXTENDS Integers, Sequences, SequencesExt, FiniteSetsExt

CONSTANTS
  CloudMachine,   \* servers
  CloudUser,      \* clients
  ServerOf,       \* the server each client is connected to
  CloudKey,       \* keys
  MaxPosts,       \* bound: posts of all clients
  MaxGets,        \* bound: queries of all clients
  MaxDepartures   \* bound: releases, unsubscriptions, and clients and servers that leave

ASSUME CloudAssumption ==
  /\ IsFiniteSet(CloudUser) /\ IsFiniteSet(CloudKey)
  /\ ServerOf \in [CloudUser -> CloudMachine]
  /\ MaxPosts \in Nat /\ MaxGets \in Nat /\ MaxDepartures \in Nat

VARIABLES
  attached,          \* clients that are connected
  dataRepository,    \* by server and key, the CloudDataList
  uploadedKeys,      \* by client, the keys its server has noted as uploaded by it
  subscribedKeys,    \* by client, the keys its server has noted as subscribed by it
  remoteServers,     \* by server, what it knows of each server it was told to add
  getRequests,       \* by server, its list of queries that wait for other servers
  nextGetRequestId,  \* queries made so far
  wire,              \* messages between servers, by sender and receiver
  unnoticed,         \* lost connections, as pairs of the server to be told and the other
  posts,             \* posts made so far
  departures,        \* MaxDepartures counts these
  view,              \* by client and key, the data it has been given, by uploader
  missed,            \* subscriptions that have been passed by, and why, see below
  stranded           \* queries that have lost a message, or the server they wait for

cloudVars == <<attached, dataRepository, uploadedKeys, subscribedKeys, remoteServers,
               getRequests, nextGetRequestId, wire, unnoticed, posts, departures, view,
               missed, stranded>>

\* Data are numbers of posts; 0 is no data.
Rows == [CloudUser -> 0 .. MaxPosts]
NoRows == [u \in CloudUser |-> 0]
CloudDataList == [uploaderCount : 0 .. MaxPosts, subscriberCount : 0 .. MaxGets,
                  keyData : Rows, nonSpecificSubscribers : SUBSET CloudUser]
NewList == [uploaderCount |-> 0, subscriberCount |-> 0, keyData |-> NoRows,
            nonSpecificSubscribers |-> {}]
NoList == [uploaderCount |-> -1, subscriberCount |-> -1, keyData |-> NoRows,
           nonSpecificSubscribers |-> {}]

RemoteServer == [gotSubscribedAndUploadedKeys : BOOLEAN,
                 uploadedKeys : SUBSET CloudKey, subscribedKeys : SUBSET CloudKey]
NewServer == [gotSubscribedAndUploadedKeys |-> FALSE, uploadedKeys |-> {}, subscribedKeys |-> {}]

GetRequest == [requestId : 0 .. MaxGets - 1, key : CloudKey, requestingClient : CloudUser,
               waiting : SUBSET CloudMachine, rows : Rows]

Known(s) == DOMAIN remoteServers[s]
ListOf(s, k) == IF dataRepository[s][k] = NoList THEN NewList ELSE dataRepository[s][k]
IsUnused(l) == l.keyData = NoRows /\ l.nonSpecificSubscribers = {}
\* Mutant: the list goes with the last data.
DroppedWithData(l) == IF l.keyData = NoRows THEN NoList ELSE l

KeptList(l) == IF IsUnused(l) THEN NoList ELSE l
RowsOf(s, k) == IF dataRepository[s][k].uploaderCount > 0 THEN dataRepository[s][k].keyData ELSE NoRows
Merged(r1, r2) == [u \in CloudUser |-> IF r1[u] # 0 THEN r1[u] ELSE r2[u]]

\* What server s sends, as functions from receivers to sequences.
SendTo(s, receivers, ms) == [t \in CloudMachine |-> IF t \in receivers THEN ms ELSE <<>>]
Both(f1, f2) == [t \in CloudMachine |-> f1[t] \o f2[t]]
SendAll(s, f) ==
  wire' = [wire EXCEPT ![s] = [t \in CloudMachine |->
             IF <<s, t>> \in unnoticed \/ <<t, s>> \in unnoticed THEN @[t] ELSE @[t] \o f[t]]]

-----------------------------------------------------------------------------
(* Changes of data *)

SubscribedServers(s, k) ==
  {t \in Known(s) : \/ ~remoteServers[s][t].gotSubscribedAndUploadedKeys
                    \/ k \in remoteServers[s][t].subscribedKeys}

NotifyServerSubscribersOfDataChange(s, k, u, v) ==
  SendTo(s, SubscribedServers(s, k), <<[type |-> "DATA_CHANGED", key |-> k, from |-> u, data |-> v]>>)

NotifyClientSubscribersOfDataChange(receivers, k, u, v) ==
  view' = [c \in CloudUser |-> IF c \in receivers \cap attached
                               THEN [view[c] EXCEPT ![k][u] = v] ELSE view[c]]

\* Subscriptions that a change of k at s passes by: it happens after s has
\* answered the query of the subscriber ("between"), and before it has been told
\* of the subscription.
PassedBy(s, k) ==
  {<<c, k, "between">> : c \in {u \in CloudUser : LET sent == wire[ServerOf[u]][s] IN
     /\ u \in dataRepository[ServerOf[u]][k].nonSpecificSubscribers
     /\ \E i \in DOMAIN sent : sent[i] = [type |-> "ADD_SUBSCRIBED_KEY", key |-> k]
     /\ \A i \in DOMAIN sent : sent[i].type = "PROCESS_GET_REQUEST" => sent[i].key # k}}
\* A subscription of c at s that posts have passed by: s does not know yet that
\* it has to ask for them.
PassedByPosts(s, c, k) ==
  {<<c, k, "between">> : t \in {r \in CloudMachine : \E i \in DOMAIN wire[r][s] :
     \/ wire[r][s][i].type = "ADD_UPLOADED_AND_SUBSCRIBED_KEYS"
     \/ wire[r][s][i] = [type |-> "ADD_UPLOADED_KEY", key |-> k]}}
\* Subscriptions made while servers were apart, or about to be.
AllSubscriptions == {x \in CloudUser \X CloudKey \X {"apart"} : x[2] \in subscribedKeys[x[1]]}

WithData(l, c, v) == [l EXCEPT !.uploaderCount = @ + 1, !.keyData[c] = v]

OnPostRequest(c, k) ==
  LET s == ServerOf[c]
      l == ListOf(s, k)
      v == posts + 1
  IN /\ c \in attached /\ posts < MaxPosts
     /\ posts' = v
     /\ uploadedKeys' = [uploadedKeys EXCEPT ![c] = @ \cup {k}]
     /\ dataRepository' = [dataRepository EXCEPT ![s][k] = WithData(l, c, v)]
     /\ SendAll(s, Both(IF l.uploaderCount > 0 THEN SendTo(s, {}, <<>>)
                        ELSE SendTo(s, Known(s), <<[type |-> "ADD_UPLOADED_KEY", key |-> k]>>),
                        NotifyServerSubscribersOfDataChange(s, k, c, v)))
     /\ NotifyClientSubscribersOfDataChange(l.nonSpecificSubscribers, k, c, v)
     /\ missed' = missed \cup PassedBy(s, k)
     /\ UNCHANGED <<attached, subscribedKeys, remoteServers, getRequests, nextGetRequestId,
                    unnoticed, departures, stranded>>

\* Mutant: the count is lowered for the data and again for its uploader.
ReleasedTwice(l, c) == [l EXCEPT !.uploaderCount = @ - 2, !.keyData[c] = 0]

WithoutData(l, c) == [l EXCEPT !.uploaderCount = @ - 1, !.keyData[c] = 0]

RemoveUploadedKeyFromServers(s, k, l) ==
  SendTo(s, IF l.uploaderCount = 0 THEN Known(s) ELSE {},
         <<[type |-> "REMOVE_UPLOADED_KEY", key |-> k]>>)

OnReleaseRequest(c, k) ==
  LET s == ServerOf[c]
      l == WithoutData(dataRepository[s][k], c)
  IN /\ c \in attached /\ departures < MaxDepartures /\ k \in uploadedKeys[c]
     /\ departures' = departures + 1
     /\ uploadedKeys' = [uploadedKeys EXCEPT ![c] = @ \ {k}]
     /\ dataRepository' = [dataRepository EXCEPT ![s][k] = KeptList(l)]
     /\ SendAll(s, Both(NotifyServerSubscribersOfDataChange(s, k, c, 0),
                        RemoveUploadedKeyFromServers(s, k, l)))
     /\ NotifyClientSubscribersOfDataChange(l.nonSpecificSubscribers, k, c, 0)
     /\ missed' = missed \cup PassedBy(s, k)
     /\ UNCHANGED <<attached, subscribedKeys, remoteServers, getRequests, nextGetRequestId,
                    unnoticed, posts, stranded>>

-----------------------------------------------------------------------------
(* Subscriptions *)

WithoutSubscriber(l, c) ==
  [l EXCEPT !.subscriberCount = @ - 1, !.nonSpecificSubscribers = @ \ {c}]

RemoveSubscribedKeyFromServers(s, k, l) ==
  SendTo(s, IF l.subscriberCount = 0 THEN Known(s) ELSE {},
         <<[type |-> "REMOVE_SUBSCRIBED_KEY", key |-> k]>>)

\* UnsubscribeFromKey.
OnUnsubscribeRequest(c, k) ==
  LET s == ServerOf[c]
      l == WithoutSubscriber(dataRepository[s][k], c)
  IN /\ c \in attached /\ departures < MaxDepartures /\ k \in subscribedKeys[c] /\ dataRepository[s][k] # NoList
     /\ departures' = departures + 1
     /\ subscribedKeys' = [subscribedKeys EXCEPT ![c] = @ \ {k}]
     /\ dataRepository' = [dataRepository EXCEPT ![s][k] = KeptList(l)]
     /\ SendAll(s, RemoveSubscribedKeyFromServers(s, k, l))
     /\ UNCHANGED <<attached, uploadedKeys, remoteServers, getRequests, nextGetRequestId,
                    unnoticed, posts, view, missed, stranded>>

WithSubscriber(l, c) ==
  [l EXCEPT !.subscriberCount = @ + 1, !.nonSpecificSubscribers = @ \cup {c}]

\* A client subscribes, anew if it has a subscription already.
Subscribe(c, k) ==
  LET s == ServerOf[c]
      again == k \in subscribedKeys[c]
      l == IF again THEN WithoutSubscriber(dataRepository[s][k], c) ELSE ListOf(s, k)
      kept == IF again /\ IsUnused(l) THEN NewList ELSE l
  IN [list |-> WithSubscriber(kept, c),
      sent |-> Both(IF again THEN RemoveSubscribedKeyFromServers(s, k, l) ELSE SendTo(s, {}, <<>>),
                    SendTo(s, IF kept.subscriberCount = 0 THEN Known(s) ELSE {},
                           <<[type |-> "ADD_SUBSCRIBED_KEY", key |-> k]>>))]

-----------------------------------------------------------------------------
(* Queries *)

\* Mutant: only servers that are known to have data are asked.
KnownToHaveData(s, k) == {t \in Known(s) : k \in remoteServers[s][t].uploadedKeys}

GetServersWithUploadedKeys(s, k) ==
  {t \in Known(s) : \/ ~remoteServers[s][t].gotSubscribedAndUploadedKeys
                    \/ k \in remoteServers[s][t].uploadedKeys}

\* ProcessAndTransmitGetRequest: the client is given local data and what others
\* have sent.
Transmit(vw, c, k, rows) ==
  IF c \in attached THEN [vw EXCEPT ![c][k] = Merged(RowsOf(ServerOf[c], k), rows)] ELSE vw

OnGetRequest(c, k, subscribeToResults) ==
  LET s == ServerOf[c]
      ask == GetServersWithUploadedKeys(s, k)
      sub == Subscribe(c, k)
      asked == SendTo(s, ask, <<[type |-> "PROCESS_GET_REQUEST", key |-> k,
                                requestId |-> nextGetRequestId]>>)
  IN /\ c \in attached /\ nextGetRequestId < MaxGets
     /\ nextGetRequestId' = nextGetRequestId + 1
     /\ IF ask = {}
        THEN /\ view' = Transmit(view, c, k, NoRows)
             /\ UNCHANGED getRequests
        ELSE /\ getRequests' = [getRequests EXCEPT ![s] =
                  <<[requestId |-> nextGetRequestId, key |-> k, requestingClient |-> c,
                     waiting |-> ask, rows |-> NoRows]>> \o @]
             /\ UNCHANGED view
     /\ \/ /\ subscribeToResults
           /\ subscribedKeys' = [subscribedKeys EXCEPT ![c] = @ \cup {k}]
           /\ dataRepository' = [dataRepository EXCEPT ![s][k] = sub.list]
           /\ SendAll(s, Both(asked, sub.sent))
           /\ missed' = {x \in missed : x[1] # c \/ x[2] # k} \cup PassedByPosts(s, c, k)
                \cup IF \A t \in CloudMachine \ {s} : t \in Known(s) /\ s \in Known(t)
                     THEN {} ELSE {<<c, k, "apart">>}
        \/ /\ ~subscribeToResults
           /\ SendAll(s, asked)
           /\ UNCHANGED <<subscribedKeys, dataRepository, missed>>
     /\ UNCHANGED <<attached, uploadedKeys, remoteServers, unnoticed, posts, departures, stranded>>

\* GetRequestComp says "before" of any two different ids, so that a new query
\* is put first in the list (OnGetRequest) and the binary search of
\* GetIndexFromKey only goes to the left.
Probed(list) ==
  LET n == Len(list)
      probe[i \in 0 .. n] == IF i = 0 THEN n \div 2
                             ELSE IF probe[i - 1] <= 0 THEN -1 ELSE (probe[i - 1] - 1) \div 2
  IN {probe[i] + 1 : i \in 0 .. n} \cap DOMAIN list

FoundRequest(list, id) == {i \in Probed(list) : list[i].requestId = id}

WithResponse(list, i, t, rows) ==
  [list EXCEPT ![i].waiting = @ \ {t}, ![i].rows = Merged(@, rows)]

\* The queries of list that are complete are answered and removed, in order: of
\* several of one client for one key, the last is what it has.
Transmitted(list) ==
  [c \in CloudUser |-> [k \in CloudKey |->
     LET answered == {i \in DOMAIN list :
                        list[i].waiting = {} /\ list[i].requestingClient = c /\ list[i].key = k}
     IN IF c \notin attached \/ answered = {} THEN view[c][k]
        ELSE Merged(RowsOf(ServerOf[c], k), list[Max(answered)].rows)]]
Incomplete(list) ==
  LET kept[n \in 0 .. Len(list)] ==
        IF n = 0 THEN <<>>
        ELSE IF list[n].waiting = {} THEN kept[n - 1] ELSE Append(kept[n - 1], list[n])
  IN kept[Len(list)]

-----------------------------------------------------------------------------
(* Messages of other servers *)

OnServerToServerGetRequest(s, t, m) ==
  /\ m.type = "PROCESS_GET_REQUEST"
  /\ IF t \in Known(s)
     THEN /\ wire' = [wire EXCEPT ![t][s] = Tail(@),
                        ![s][t] = Append(@, [type |-> "PROCESS_GET_RESPONSE",
                                             requestId |-> m.requestId, key |-> m.key,
                                             rows |-> RowsOf(s, m.key)])]
          /\ UNCHANGED stranded
     ELSE /\ wire' = [wire EXCEPT ![t][s] = Tail(@)]
          /\ stranded' = stranded \cup {m.requestId}
  /\ UNCHANGED <<getRequests, view, remoteServers>>

OnServerToServerGetResponse(s, t, m) ==
  LET found == FoundRequest(getRequests[s], m.requestId)
      i == CHOOSE j \in found : TRUE
      list == WithResponse(getRequests[s], i, t, m.rows)
  IN /\ m.type = "PROCESS_GET_RESPONSE"
     /\ IF t \in Known(s) /\ found # {} /\ t \in getRequests[s][i].waiting
        THEN /\ view' = Transmitted(list)
             /\ getRequests' = [getRequests EXCEPT ![s] = Incomplete(list)]
             /\ UNCHANGED stranded
        ELSE /\ stranded' = stranded \cup {m.requestId}
             /\ UNCHANGED <<view, getRequests>>
     /\ wire' = [wire EXCEPT ![t][s] = Tail(@)]
     /\ UNCHANGED remoteServers

\* The messages that change what s knows of t.
Learned(r, m) ==
  CASE m.type = "ADD_UPLOADED_AND_SUBSCRIBED_KEYS" ->
         [gotSubscribedAndUploadedKeys |-> TRUE, uploadedKeys |-> r.uploadedKeys \cup m.uploaded,
          subscribedKeys |-> r.subscribedKeys \cup m.subscribed]
    [] m.type = "ADD_UPLOADED_KEY" -> [r EXCEPT !.uploadedKeys = @ \cup {m.key}]
    [] m.type = "ADD_SUBSCRIBED_KEY" -> [r EXCEPT !.subscribedKeys = @ \cup {m.key}]
    [] m.type = "REMOVE_UPLOADED_KEY" -> [r EXCEPT !.uploadedKeys = @ \ {m.key}]
    [] m.type = "REMOVE_SUBSCRIBED_KEY" -> [r EXCEPT !.subscribedKeys = @ \ {m.key}]

Learn(s, t, m) ==
  /\ m.type \in {"ADD_UPLOADED_AND_SUBSCRIBED_KEYS", "ADD_UPLOADED_KEY", "ADD_SUBSCRIBED_KEY",
                 "REMOVE_UPLOADED_KEY", "REMOVE_SUBSCRIBED_KEY"}
  /\ remoteServers' = IF t \in Known(s)
                      THEN [remoteServers EXCEPT ![s][t] = Learned(@, m)] ELSE remoteServers
  /\ wire' = [wire EXCEPT ![t][s] = Tail(@)]
  /\ UNCHANGED <<getRequests, view, stranded>>

OnServerDataChanged(s, t, m) ==
  /\ m.type = "DATA_CHANGED"
  /\ IF t \in Known(s)
     THEN NotifyClientSubscribersOfDataChange(dataRepository[s][m.key].nonSpecificSubscribers,
                                              m.key, m.from, m.data)
     ELSE UNCHANGED view
  /\ wire' = [wire EXCEPT ![t][s] = Tail(@)]
  /\ UNCHANGED <<getRequests, remoteServers, stranded>>

OnServerToServerCommand(s, t) ==
  /\ wire[t][s] # <<>>
  /\ LET m == Head(wire[t][s])
     IN \/ OnServerToServerGetRequest(s, t, m) \/ OnServerToServerGetResponse(s, t, m)
        \/ Learn(s, t, m) \/ OnServerDataChanged(s, t, m)
  /\ UNCHANGED <<attached, dataRepository, uploadedKeys, subscribedKeys, nextGetRequestId,
                 unnoticed, posts, departures, missed>>

-----------------------------------------------------------------------------
(* Servers and connections come and go *)

AddServer(s, t) ==
  LET uploaded == {k \in CloudKey : dataRepository[s][k] # NoList}
      subscribed == {k \in uploaded : dataRepository[s][k].subscriberCount > 0}
  IN /\ s # t /\ t \notin Known(s)
     /\ <<s, t>> \notin unnoticed /\ <<t, s>> \notin unnoticed
     /\ remoteServers' = [remoteServers EXCEPT ![s] =
          [x \in DOMAIN @ \cup {t} |-> IF x = t THEN NewServer ELSE @[x]]]
     /\ SendAll(s, SendTo(s, IF uploaded = {} THEN {} ELSE {t},
                          <<[type |-> "ADD_UPLOADED_AND_SUBSCRIBED_KEYS",
                             uploaded |-> uploaded, subscribed |-> subscribed]>>))
     /\ missed' = missed \cup AllSubscriptions
     /\ UNCHANGED <<attached, dataRepository, uploadedKeys, subscribedKeys, getRequests,
                    nextGetRequestId, unnoticed, posts, departures, view, stranded>>

Forget(s, t) ==
  remoteServers' = [remoteServers EXCEPT ![s] = [x \in DOMAIN @ \ {t} |-> @[x]]]

\* Queries that wait for t go on waiting.
RemoveServer(s, t) ==
  /\ t \in Known(s) /\ departures < MaxDepartures
  /\ departures' = departures + 1
  /\ Forget(s, t)
  /\ stranded' = stranded \cup {getRequests[s][i].requestId : i \in
                  {j \in DOMAIN getRequests[s] : t \in getRequests[s][j].waiting}}
  /\ missed' = missed \cup AllSubscriptions
  /\ UNCHANGED <<attached, dataRepository, uploadedKeys, subscribedKeys, getRequests,
                 nextGetRequestId, wire, unnoticed, posts, view>>

LoseServerConnection(s, t) ==
  /\ s # t /\ departures < MaxDepartures
  /\ <<s, t>> \notin unnoticed /\ <<t, s>> \notin unnoticed
  /\ departures' = departures + 1
  /\ unnoticed' = unnoticed \cup {<<s, t>>, <<t, s>>}
  /\ wire' = [wire EXCEPT ![s][t] = <<>>, ![t][s] = <<>>]
  /\ missed' = missed \cup AllSubscriptions
  /\ UNCHANGED <<attached, dataRepository, uploadedKeys, subscribedKeys, remoteServers,
                 getRequests, nextGetRequestId, posts, view, stranded>>

\* Mutant: the queries go on waiting.
StillWaiting(list, t) == list

\* With its answer, if it has given one.
WithoutServer(list, t) ==
  [i \in DOMAIN list |-> [list[i] EXCEPT !.waiting = @ \ {t},
     !.rows = [u \in CloudUser |-> IF ServerOf[u] = t THEN 0 ELSE @[u]]]]

\* OnClosedConnection of server t at s.
ServerClosed(s, t) ==
  LET list == WithoutServer(getRequests[s], t)
  IN /\ <<s, t>> \in unnoticed
     /\ unnoticed' = unnoticed \ {<<s, t>>}
     /\ IF t \in Known(s)
        THEN /\ view' = Transmitted(list)
             /\ getRequests' = [getRequests EXCEPT ![s] = Incomplete(list)]
        ELSE UNCHANGED <<view, getRequests>>
     /\ Forget(s, t)
     /\ UNCHANGED <<attached, dataRepository, uploadedKeys, subscribedKeys, nextGetRequestId,
                    wire, posts, departures, missed, stranded>>

Attach(c) ==
  /\ c \notin attached /\ posts < MaxPosts
  /\ attached' = attached \cup {c}
  /\ view' = [view EXCEPT ![c] = [k \in CloudKey |-> NoRows]]
  /\ UNCHANGED <<dataRepository, uploadedKeys, subscribedKeys, remoteServers, getRequests,
                 nextGetRequestId, wire, unnoticed, posts, departures, missed, stranded>>

\* What server s sends as the data of c are removed, for each of the keys.
ToldOfKey(s, c, k) ==
  LET l == WithoutData(dataRepository[s][k], c)
  IN Both(Both(NotifyServerSubscribersOfDataChange(s, k, c, 0), RemoveUploadedKeyFromServers(s, k, l)),
          SendTo(s, IF IsUnused(l) THEN Known(s) ELSE {},
                 <<[type |-> "REMOVE_UPLOADED_KEY", key |-> k]>>))
ToldOfLoss(s, c, keys) ==
  LET told[n \in 0 .. Len(keys)] ==
        IF n = 0 THEN SendTo(s, {}, <<>>) ELSE Both(told[n - 1], ToldOfKey(s, c, keys[n]))
  IN told[Len(keys)]

\* What is left of the list of key k without the data, and the subscription, of c.
WithoutClient(l, c, k) ==
  LET kept == IF k \in uploadedKeys[c] THEN KeptList(WithoutData(l, c)) ELSE l
  IN IF k \in subscribedKeys[c] /\ kept # NoList THEN WithoutSubscriber(kept, c) ELSE kept

\* OnClosedConnection of client c: its data, then its subscriptions.  Other
\* servers are not told that the last subscriber of a key has gone.
ClientClosed(c) ==
  LET s == ServerOf[c]
  IN /\ c \in attached /\ departures < MaxDepartures
     /\ departures' = departures + 1
     /\ attached' = attached \ {c}
     /\ dataRepository' = [dataRepository EXCEPT ![s] =
          [k \in CloudKey |-> WithoutClient(dataRepository[s][k], c, k)]]
     /\ SendAll(s, ToldOfLoss(s, c, SetToSeq(uploadedKeys[c])))
     /\ view' = [d \in CloudUser |-> [k \in CloudKey |->
          IF d \in attached \ {c} /\ k \in uploadedKeys[c]
             /\ d \in dataRepository[s][k].nonSpecificSubscribers
          THEN [view[d][k] EXCEPT ![c] = 0] ELSE view[d][k]]]
     /\ uploadedKeys' = [uploadedKeys EXCEPT ![c] = {}]
     /\ subscribedKeys' = [subscribedKeys EXCEPT ![c] = {}]
     /\ missed' = {x \in missed : x[1] # c} \cup UNION {PassedBy(s, k) : k \in uploadedKeys[c]}
     /\ UNCHANGED <<remoteServers, getRequests, nextGetRequestId, unnoticed, posts, stranded>>

-----------------------------------------------------------------------------
(* Specification *)

CloudInit ==
  /\ attached = CloudUser
  /\ dataRepository = [s \in CloudMachine |-> [k \in CloudKey |-> NoList]]
  /\ uploadedKeys = [c \in CloudUser |-> {}] /\ subscribedKeys = [c \in CloudUser |-> {}]
  /\ remoteServers = [s \in CloudMachine |-> [t \in {} |-> NewServer]]
  /\ getRequests = [s \in CloudMachine |-> <<>>]
  /\ nextGetRequestId = 0
  /\ wire = [s \in CloudMachine |-> [t \in CloudMachine |-> <<>>]]
  /\ unnoticed = {} /\ posts = 0 /\ departures = 0
  /\ view = [c \in CloudUser |-> [k \in CloudKey |-> NoRows]]
  /\ missed = {} /\ stranded = {}

CloudNext ==
  \/ \E c \in CloudUser, k \in CloudKey :
       \/ OnPostRequest(c, k) \/ OnReleaseRequest(c, k) \/ OnUnsubscribeRequest(c, k)
       \/ \E subscribeToResults \in BOOLEAN : OnGetRequest(c, k, subscribeToResults)
  \/ \E s, t \in CloudMachine :
       \/ OnServerToServerCommand(s, t) \/ AddServer(s, t) \/ RemoveServer(s, t)
       \/ LoseServerConnection(s, t) \/ ServerClosed(s, t)
  \/ \E c \in CloudUser : Attach(c) \/ ClientClosed(c)

CloudSpec == CloudInit /\ [][CloudNext]_cloudVars

-----------------------------------------------------------------------------
(* Properties *)

CloudMessage ==
  [type : {"ADD_UPLOADED_AND_SUBSCRIBED_KEYS"}, uploaded : SUBSET CloudKey,
   subscribed : SUBSET CloudKey]
    \cup [type : {"ADD_UPLOADED_KEY", "ADD_SUBSCRIBED_KEY", "REMOVE_UPLOADED_KEY",
                  "REMOVE_SUBSCRIBED_KEY"}, key : CloudKey]
    \cup [type : {"DATA_CHANGED"}, key : CloudKey, from : CloudUser, data : 0 .. MaxPosts]
    \cup [type : {"PROCESS_GET_REQUEST"}, key : CloudKey, requestId : 0 .. MaxGets - 1]
    \cup [type : {"PROCESS_GET_RESPONSE"}, requestId : 0 .. MaxGets - 1, key : CloudKey, rows : Rows]

CloudTypeOK ==
  /\ attached \subseteq CloudUser
  /\ dataRepository \in [CloudMachine -> [CloudKey -> CloudDataList \cup {NoList}]]
  /\ uploadedKeys \in [CloudUser -> SUBSET CloudKey]
  /\ subscribedKeys \in [CloudUser -> SUBSET CloudKey]
  /\ DOMAIN remoteServers = CloudMachine
  /\ \A s \in CloudMachine :
       /\ Known(s) \subseteq CloudMachine \ {s}
       /\ remoteServers[s] \in [Known(s) -> RemoteServer]
  /\ getRequests \in [CloudMachine -> Seq(GetRequest)]
  /\ wire \in [CloudMachine -> [CloudMachine -> Seq(CloudMessage)]]
  /\ nextGetRequestId \in 0 .. MaxGets /\ posts \in 0 .. MaxPosts
  /\ departures \in 0 .. MaxDepartures
  /\ unnoticed \subseteq CloudMachine \X CloudMachine
  /\ view \in [CloudUser -> [CloudKey -> Rows]]
  /\ missed \subseteq CloudUser \X CloudKey \X {"between", "apart"}

\* What a server notes by client and what it notes by key are the same: a
\* release, an unsubscription or a lost client would otherwise follow a note to
\* data that are not there.  The counts, by which a server decides whom to
\* tell, are never behind the facts.
ListsAgree ==
  \A c \in CloudUser, k \in CloudKey :
    LET l == dataRepository[ServerOf[c]][k]
    IN /\ k \in uploadedKeys[c] <=> l # NoList /\ l.keyData[c] # 0
       /\ k \in subscribedKeys[c] <=> c \in l.nonSpecificSubscribers
       /\ l # NoList => /\ l.subscriberCount = Cardinality(l.nonSpecificSubscribers)
                        /\ l.uploaderCount >= Cardinality({u \in CloudUser : l.keyData[u] # 0})

Quiet(s, t) == wire[s][t] = <<>> /\ wire[t][s] = <<>> /\ <<s, t>> \notin unnoticed
Mutual(s, t) == t \in Known(s) /\ s \in Known(t)

\* "Tell other servers that this key is no longer uploaded, so they do not
\* request it from us", and when it is: whenever two servers that know each
\* other have nothing under way, each would ask the other for every key it has
\* data of.
ServersWithDataAreAsked ==
  \A s, t \in CloudMachine : Mutual(s, t) /\ Quiet(s, t) =>
    \A k \in CloudKey : RowsOf(t, k) # NoRows => t \in GetServersWithUploadedKeys(s, k)

\* In the same situation each would tell the other of every change that one of
\* the other's clients has subscribed to.
ServersWithSubscribersAreTold ==
  \A s, t \in CloudMachine : Mutual(s, t) /\ Quiet(s, t) =>
    \A k \in CloudKey :
      dataRepository[t][k].nonSpecificSubscribers # {} => t \in SubscribedServers(s, k)

\* What the servers note of their clients, of keys and of each other agrees with
\* what the clients have posted and subscribed to.
NotesAgree == ListsAgree /\ ServersWithDataAreAsked /\ ServersWithSubscribersAreTold

Latest(k) ==
  [u \in CloudUser |-> IF dataRepository[ServerOf[u]][k] = NoList THEN 0
                       ELSE dataRepository[ServerOf[u]][k].keyData[u]]

UpToDate(c, k) ==
  LET s == ServerOf[c]
  IN c \in attached /\ k \in subscribedKeys[c]
     /\ (\A t \in CloudMachine \ {s} : Mutual(s, t) /\ Quiet(s, t))
     /\ (\A i \in DOMAIN getRequests[s] : getRequests[s][i].requestingClient # c)
     => view[c][k] = Latest(k)

\* A subscriber that has been answered, and whose server waits for nothing,
\* has the data as they are, at its own server and at the others, unless its
\* subscription was passed by.
SubscribersSeeLatest ==
  \A c \in CloudUser, k \in CloudKey : (\A x \in missed : x[1] # c \/ x[2] # k) => UpToDate(c, k)

\* "Do not need to send current values, the Get request will do that as the Get
\* request is sent at the same time" (OnSendSubscribedKeyToServers): so also
\* for a change in between.
NoUpdateMissed ==
  \A c \in CloudUser, k \in CloudKey : <<c, k, "apart">> \notin missed => UpToDate(c, k)

IsFor(m, type, id) == m.type = type /\ m.requestId = id

\* The query or the answer is under way, or the loss of the server about to be noticed.
WillEnd(s, t, id) ==
  \/ \E j \in DOMAIN wire[s][t] : IsFor(wire[s][t][j], "PROCESS_GET_REQUEST", id)
  \/ \E j \in DOMAIN wire[t][s] : IsFor(wire[t][s][j], "PROCESS_GET_RESPONSE", id)
  \/ <<s, t>> \in unnoticed

\* A query waits only for servers that will answer, or whose loss is about to
\* be noticed.  It says nothing of the stranded ones, whose three second limit
\* never expires (RakNet::Time() is 0): a server that does not know the other
\* has dropped one of their messages or removed it, or an answer has not found
\* its query, which the binary search of OnServerToServerGetResponse may miss
\* in a list that is not sorted.
QueriesWaitForAnswers ==
  \A s \in CloudMachine : \A i \in DOMAIN getRequests[s] :
    LET r == getRequests[s][i]
    IN r.requestId \notin stranded => \A t \in r.waiting : WillEnd(s, t, r.requestId)

-----------------------------------------------------------------------------
(* Invariant *)

\* The notes of server s about key k: counts are of the past as well.
KeyNoted(s, k) ==
  LET l == dataRepository[s][k]
  IN /\ \A c \in CloudUser : ServerOf[c] = s =>
          /\ k \in uploadedKeys[c] <=> l.keyData[c] # 0
          /\ k \in subscribedKeys[c] <=> c \in l.nonSpecificSubscribers
     /\ l # NoList =>
          /\ l.subscriberCount = Cardinality(l.nonSpecificSubscribers)
          /\ l.uploaderCount >= Cardinality({u \in CloudUser : l.keyData[u] # 0})
          /\ l.uploaderCount <= posts /\ l.subscriberCount <= nextGetRequestId

Apart(s, t) == <<s, t>> \in unnoticed \/ <<t, s>> \in unnoticed

\* Of a connection that is lost nothing is under way; who noticed the loss has
\* forgotten the other, until both have.
LossForgets(s, t) ==
  /\ Apart(s, t) => wire[s][t] = <<>>
  /\ <<s, t>> \in unnoticed /\ s \in Known(t) => <<t, s>> \in unnoticed

\* What a message says of a key: that its server has data of it, or subscribers.
Kind == {"uploaded", "subscribed"}
AddOf(kind) == IF kind = "uploaded" THEN "ADD_UPLOADED_KEY" ELSE "ADD_SUBSCRIBED_KEY"
RemoveOf(kind) == IF kind = "uploaded" THEN "REMOVE_UPLOADED_KEY" ELSE "REMOVE_SUBSCRIBED_KEY"
KeysIn(m, kind) == IF kind = "uploaded" THEN m.uploaded ELSE m.subscribed
CountIn(l, kind) == IF kind = "uploaded" THEN l.uploaderCount ELSE l.subscriberCount

Says(m, kind, k) ==
  \/ m.type = "ADD_UPLOADED_AND_SUBSCRIBED_KEYS" /\ k \in KeysIn(m, kind)
  \/ m.type = AddOf(kind) /\ m.key = k
Unsays(m, kind, k) ==
  \/ m.type = "ADD_UPLOADED_AND_SUBSCRIBED_KEYS" /\ k \notin KeysIn(m, kind)
  \/ m.type = RemoveOf(kind) /\ m.key = k

\* What is under way leaves the receiver with the belief, and gives it one if it
\* has not got it.
Arrives(queue, kind, k, believed) ==
  /\ \A i \in DOMAIN queue :
       Unsays(queue[i], kind, k) => \E j \in DOMAIN queue : j > i /\ Says(queue[j], kind, k)
  /\ believed \/ \E i \in DOMAIN queue : Says(queue[i], kind, k)

Believed(s, t, kind, k) ==
  IF kind = "uploaded" THEN t \in GetServersWithUploadedKeys(s, k) ELSE t \in SubscribedServers(s, k)

\* Of a key with data or subscribers, t tells each server s that it knows.
KeysAreTold(s, t) ==
  s \in Known(t) /\ ~Apart(s, t) =>
    \A k \in CloudKey, kind \in Kind :
      CountIn(dataRepository[t][k], kind) > 0 =>
        Arrives(wire[t][s], kind, k, t \in Known(s) => Believed(s, t, kind, k))

\* Queries are told apart by their numbers, and wait for servers that are known.
RequestsWait(s) ==
  LET list == getRequests[s]
  IN /\ \A i, j \in DOMAIN list : list[i].requestId = list[j].requestId => i = j
     /\ \A i \in DOMAIN list :
          /\ list[i].requestId < nextGetRequestId
          /\ list[i].requestId \notin stranded => list[i].waiting \subseteq Known(s)

CloudIInv ==
  /\ CloudTypeOK
  /\ \A s \in CloudMachine, k \in CloudKey : KeyNoted(s, k)
  /\ \A s \in CloudMachine : wire[s][s] = <<>> /\ RequestsWait(s)
  /\ \A s, t \in CloudMachine : LossForgets(s, t) /\ KeysAreTold(s, t)
  /\ QueriesWaitForAnswers

=============================================================================
