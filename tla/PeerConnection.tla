--------------------------- MODULE PeerConnection ---------------------------
(***************************************************************************)
(* How systems connect and disconnect, Source/RakPeer.cpp: requests that   *)
(* are repeated, the offline messages of the handshake, the remote systems *)
(* with their ConnectMode, and the commands that the application's thread  *)
(* leaves to the network thread.                                           *)
(*                                                                         *)
(* Offline messages are lost, overtaken, and repeated by repeated          *)
(* requests.  Messages of a connection are numbered by the layer of the    *)
(* remote system that sends them; a layer does not know which layer of the *)
(* other system it talks to.  Messages of one layer arrive in the order    *)
(* they were sent, where ID_CONNECTION_REQUEST and ID_INVALID_PASSWORD     *)
(* (RELIABLE, not ordered) might be overtaken by later ordered ones when   *)
(* their datagram is lost.  Each system has one address; what the          *)
(* application sends, encryption and the limit by address are left out.    *)
(***************************************************************************)
EXTENDS Integers, Sequences, FiniteSets

CONSTANTS
  Peer,                  \* systems
  Misinformed,           \* those whose requests may have a wrong password
  maximumNumberOfPeers, maximumIncomingConnections,   \* by system
  MaxRequestsMade,       \* sendConnectionAttemptCount + 1
  MaxCalls,              \* bound: calls of Connect, CloseConnection and CancelConnectionAttempt
  MaxBreaks              \* bound: connections that break, systems that restart

ASSUME ConnectionAssumption == Misinformed \subseteq Peer /\ MaxRequestsMade \in Nat

VARIABLES
  requestedConnectionQueue,   \* by system, requestsMade for each system it asks
  remoteSystemList,           \* by system and address, see RemoteSystem
  bufferedCommands,           \* by system, commands for its network thread
  banned,                     \* by system, the addresses it has banned
  myGuid,                     \* by system, renewed by a restart
  misinformed,                \* those whose requests have a wrong password
  offline,                    \* offline messages
  unanswered,                   \* by system, those to which Connect has had no outcome
  told,                       \* by system, those of whose connection it was told last
  calls, breaks,
  excused                     \* pairs <<p, q>>: p has closed q without a notification, or its
                              \* Connect and one of q have met

connectionVars == <<requestedConnectionQueue, remoteSystemList, bufferedCommands, banned, myGuid,
                    misinformed, offline, unanswered, told, calls, breaks, excused>>

\* out: the reliable messages the layer has been given; acked: how many of them
\* have been acknowledged; next: how many it has received; ordered: how many of
\* those are RELIABLE_ORDERED.
ConnectionMessage == {"CONNECTION_REQUEST", "WRONG_REQUEST", "CONNECTION_REQUEST_ACCEPTED",
            "NEW_INCOMING_CONNECTION", "INVALID_PASSWORD", "DISCONNECTION_NOTIFICATION"}
IsOrdered(m) == m \in {"CONNECTION_REQUEST_ACCEPTED", "NEW_INCOMING_CONNECTION",
                       "DISCONNECTION_NOTIFICATION"}
Disconnecting == {"DISCONNECT_ASAP", "DISCONNECT_ASAP_SILENTLY", "DISCONNECT_ON_NO_ACK"}
Connecting == {"REQUESTED_CONNECTION", "HANDLING_CONNECTION_REQUEST", "UNVERIFIED_SENDER"}
ConnectMode == Disconnecting \cup Connecting \cup {"CONNECTED", "INACTIVE"}
RemoteSystem ==
  [connectMode : ConnectMode, guid : Nat, weInitiatedTheConnection : BOOLEAN,
   out : Seq(ConnectionMessage), acked : Nat, next : Nat, ordered : Nat]
Inactive == [connectMode |-> "INACTIVE", guid |-> 0, weInitiatedTheConnection |-> FALSE,
             out |-> <<>>, acked |-> 0, next |-> 0, ordered |-> 0]
Command == [target : Peer, notify : BOOLEAN]
NotRequested == -1

IsActive(p, q) == remoteSystemList[p][q].connectMode # "INACTIVE"
IsPending(p, q) == requestedConnectionQueue[p][q] # NotRequested

\* SendImmediate refuses a system that is being disconnected.
Sent(r, m) == IF r.connectMode \in Disconnecting \cup {"INACTIVE"} THEN r ELSE [r EXCEPT !.out = Append(@, m)]
WithMode(r, mode) == [r EXCEPT !.connectMode = mode]

SetRemote(p, q, r) == remoteSystemList' = [remoteSystemList EXCEPT ![p][q] = r]
Unrequest(p, q) == requestedConnectionQueue' = [requestedConnectionQueue EXCEPT ![p][q] = NotRequested]

\* What Receive gives to the application of p about q: the outcome of its
\* Connect, a connection, the loss of one.
TellOutcome(p, q) == unanswered' = [unanswered EXCEPT ![p] = @ \ {q}] /\ UNCHANGED told
TellConnected(p, q) ==
  /\ unanswered' = [unanswered EXCEPT ![p] = @ \ {q}]
  /\ told' = [told EXCEPT ![p] = @ \cup {q}]
TellLost(p, q) ==
  /\ unanswered' = [unanswered EXCEPT ![p] = @ \ {q}]
  /\ told' = [told EXCEPT ![p] = @ \ {q}]

-----------------------------------------------------------------------------
(* The application's thread *)

Connect(p, q) ==
  /\ p # q /\ calls < MaxCalls /\ calls' = calls + 1
  /\ ~IsActive(p, q) /\ ~IsPending(p, q)
  /\ requestedConnectionQueue' = [requestedConnectionQueue EXCEPT ![p][q] = 0]
  /\ unanswered' = [unanswered EXCEPT ![p] = @ \cup {q}]
  /\ UNCHANGED <<remoteSystemList, bufferedCommands, banned, myGuid, misinformed, offline,
                 told, breaks, excused>>

CancelConnectionAttempt(p, q) ==
  /\ calls < MaxCalls /\ calls' = calls + 1
  /\ IsPending(p, q)
  /\ Unrequest(p, q)
  /\ TellOutcome(p, q)
  /\ UNCHANGED <<remoteSystemList, bufferedCommands, banned, myGuid, misinformed, offline,
                 breaks, excused>>

\* With a notification, or without: then a system that is connected is reported
\* as lost at once.
CloseConnection(p, q, sendDisconnectionNotification) ==
  /\ calls < MaxCalls /\ calls' = calls + 1
  /\ IsActive(p, q)
  /\ bufferedCommands' = [bufferedCommands EXCEPT ![p] =
       Append(@, [target |-> q, notify |-> sendDisconnectionNotification])]
  /\ IF ~sendDisconnectionNotification /\ ~IsPending(p, q) /\ remoteSystemList[p][q].connectMode = "CONNECTED"
     THEN TellLost(p, q)
     ELSE TellOutcome(p, q)
  /\ excused' = IF sendDisconnectionNotification THEN excused ELSE excused \cup {<<p, q>>}
  /\ UNCHANGED <<requestedConnectionQueue, remoteSystemList, banned, myGuid, misinformed,
                 offline, breaks>>

-----------------------------------------------------------------------------
(* The network thread: RunUpdateCycle *)

RunCommand(p) ==
  /\ bufferedCommands[p] # <<>>
  /\ bufferedCommands' = [bufferedCommands EXCEPT ![p] = Tail(@)]
  /\ LET c == Head(bufferedCommands[p])
         r == remoteSystemList[p][c.target]
     IN SetRemote(p, c.target, IF c.notify /\ IsActive(p, c.target)
                               THEN WithMode(Sent(r, "DISCONNECTION_NOTIFICATION"), "DISCONNECT_ASAP")
                               ELSE Inactive)
  /\ UNCHANGED <<requestedConnectionQueue, banned, myGuid, misinformed, offline, unanswered,
                 told, calls, breaks, excused>>

\* A request is sent once more, or given up.
RequestConnection(p, q) ==
  /\ IsPending(p, q)
  /\ IF requestedConnectionQueue[p][q] = MaxRequestsMade
     THEN Unrequest(p, q) /\ TellOutcome(p, q)
     ELSE /\ requestedConnectionQueue' = [requestedConnectionQueue EXCEPT ![p][q] = @ + 1]
          /\ UNCHANGED <<unanswered, told>>
  /\ UNCHANGED <<remoteSystemList, bufferedCommands, banned, myGuid, misinformed, offline,
                 calls, breaks, excused>>

IsAcknowledged(p, q) == remoteSystemList[p][q].acked = Len(remoteSystemList[p][q].out)

\* The layer of p for q has waited too long for an acknowledgement; a system
\* that is connected is sent a ping when nothing else waits for one.
IsDeadConnection(p, q) ==
  \/ ~IsAcknowledged(p, q)
  \/ remoteSystemList[p][q].connectMode = "CONNECTED"

\* Mutant: the application is not told.
CloseSilently(p, q) ==
  /\ SetRemote(p, q, Inactive)
  /\ UNCHANGED <<unanswered, told>>

\* A failure: the application is told as the mode says, and the remote system
\* is closed (CloseConnectionInternal).
CloseFailed(p, q) ==
  /\ SetRemote(p, q, Inactive)
  /\ CASE remoteSystemList[p][q].connectMode = "REQUESTED_CONNECTION" -> TellOutcome(p, q)
       [] remoteSystemList[p][q].connectMode \in {"CONNECTED", "DISCONNECT_ASAP", "DISCONNECT_ON_NO_ACK"} ->
            TellLost(p, q)
       [] OTHER -> UNCHANGED <<unanswered, told>>

\* A connection dies when the other system has closed it, or breaks.
ConnectionDies(p, q) ==
  /\ IsActive(p, q) /\ IsDeadConnection(p, q)
  /\ IF IsActive(q, p) THEN breaks < MaxBreaks /\ breaks' = breaks + 1 ELSE UNCHANGED breaks
  /\ CloseFailed(p, q)
  /\ UNCHANGED <<requestedConnectionQueue, bufferedCommands, banned, myGuid, misinformed,
                 offline, calls, excused>>

\* Nothing waits to be sent, acknowledgements included, which take one update.
ConnectionEnds(p, q) ==
  /\ \/ remoteSystemList[p][q].connectMode \in {"DISCONNECT_ASAP", "DISCONNECT_ASAP_SILENTLY"}
        /\ IsAcknowledged(p, q)
     \/ remoteSystemList[p][q].connectMode = "DISCONNECT_ON_NO_ACK"
  /\ CloseFailed(p, q)
  /\ UNCHANGED <<requestedConnectionQueue, bufferedCommands, banned, myGuid, misinformed,
                 offline, calls, breaks, excused>>

\* Ten seconds after the remote system was assigned.
HandshakeTimesOut(p, q) ==
  /\ remoteSystemList[p][q].connectMode \in Connecting
  /\ CloseFailed(p, q)
  /\ UNCHANGED <<requestedConnectionQueue, bufferedCommands, banned, myGuid, misinformed,
                 offline, calls, breaks, excused>>

-----------------------------------------------------------------------------
(* Offline messages *)

Refusal == {"ALREADY_CONNECTED", "NO_FREE_INCOMING_CONNECTIONS", "CONNECTION_BANNED"}
Offline(type, from, to) == [type |-> type, from |-> from, to |-> to, guid |-> myGuid[from]]

\* ID_OPEN_CONNECTION_REQUEST_1 has been answered, by ID_OPEN_CONNECTION_REPLY_1
\* or a refusal; no state is kept for it.
OnOpenConnectionReply1(p, q) ==
  /\ IsPending(p, q) /\ requestedConnectionQueue[p][q] > 0
  /\ offline' = offline \cup {IF p \in banned[q] THEN Offline("CONNECTION_BANNED", q, p)
                              ELSE Offline("OPEN_CONNECTION_REQUEST_2", p, q)}
  /\ UNCHANGED <<requestedConnectionQueue, remoteSystemList, bufferedCommands, banned,
                 myGuid, misinformed,
                 unanswered, told, calls, breaks, excused>>

GetNumberOfRemoteInitiatedConnections(q) ==
  Cardinality({p \in Peer : /\ remoteSystemList[q][p].connectMode = "CONNECTED"
                            /\ ~remoteSystemList[q][p].weInitiatedTheConnection})

HasFreeSystem(q) ==
  Cardinality({p \in Peer : IsActive(q, p)}) < maximumNumberOfPeers[q]

Assigned(guid) == [Inactive EXCEPT !.connectMode = "UNVERIFIED_SENDER", !.guid = guid]

Answer(m, type) == offline' = (offline \ {m}) \cup {Offline(type, m.to, m.from)}

\* Whatever a banned system sends is answered and not read.
Read(p, m) == IF m.from \in banned[p] THEN Answer(m, "CONNECTION_BANNED") ELSE offline' = offline \ {m}

\* ID_OPEN_CONNECTION_REPLY_2 is sent also when there is no free remote system.
OnOpenConnectionRequest2(q, m) ==
  LET r == remoteSystemList[q][m.from]
  IN /\ m.type = "OPEN_CONNECTION_REQUEST_2" /\ m.to = q
     /\ IF m.from \in banned[q]
        THEN Answer(m, "CONNECTION_BANNED") /\ UNCHANGED remoteSystemList
        ELSE IF IsActive(q, m.from)
        THEN /\ Answer(m, IF r.guid = m.guid /\ r.connectMode = "UNVERIFIED_SENDER"
                          THEN "OPEN_CONNECTION_REPLY_2" ELSE "ALREADY_CONNECTED")
             /\ UNCHANGED remoteSystemList
        ELSE IF GetNumberOfRemoteInitiatedConnections(q) >= maximumIncomingConnections[q]
        THEN Answer(m, "NO_FREE_INCOMING_CONNECTIONS") /\ UNCHANGED remoteSystemList
        ELSE /\ Answer(m, "OPEN_CONNECTION_REPLY_2")
             /\ IF HasFreeSystem(q) THEN SetRemote(q, m.from, Assigned(m.guid))
                ELSE UNCHANGED remoteSystemList
     /\ UNCHANGED <<requestedConnectionQueue, bufferedCommands, banned, myGuid, misinformed,
                    unanswered, told,
                    calls, breaks, excused>>

ConnectionRequest(p) == IF p \in misinformed THEN "WRONG_REQUEST" ELSE "CONNECTION_REQUEST"

\* A remote system that is there already, of a connection from the other side,
\* is used, whatever its mode.
OnOpenConnectionReply2(p, m) ==
  LET q == m.from
      r == IF IsActive(p, q) THEN remoteSystemList[p][q] ELSE Assigned(m.guid)
  IN /\ m.type = "OPEN_CONNECTION_REPLY_2" /\ m.to = p
     /\ Read(p, m)
     /\ IF ~IsPending(p, q) \/ q \in banned[p]
        THEN UNCHANGED <<requestedConnectionQueue, remoteSystemList, unanswered, told, excused>>
        ELSE /\ Unrequest(p, q)
             /\ IF IsActive(p, q) \/ HasFreeSystem(p)
                THEN /\ SetRemote(p, q, Sent([r EXCEPT !.weInitiatedTheConnection = TRUE,
                                                       !.connectMode = "REQUESTED_CONNECTION"],
                                             ConnectionRequest(p)))
                     /\ UNCHANGED <<unanswered, told>>
                ELSE TellOutcome(p, q) /\ UNCHANGED remoteSystemList
             /\ excused' = IF IsActive(p, q) THEN excused \cup {<<p, q>>} ELSE excused
     /\ UNCHANGED <<bufferedCommands, banned, myGuid, misinformed, calls, breaks>>

\* Mutant: the refusal ends the request, and nobody is told.
RefusedQuietly(p, m) ==
  /\ m.type \in Refusal /\ m.to = p
  /\ offline' = offline \ {m}
  /\ IF IsPending(p, m.from) THEN Unrequest(p, m.from) ELSE UNCHANGED requestedConnectionQueue
  /\ UNCHANGED <<remoteSystemList, bufferedCommands, banned, myGuid, misinformed, unanswered,
                 told, calls, breaks, excused>>

OnRefusal(p, m) ==
  /\ m.type \in Refusal /\ m.to = p
  /\ Read(p, m)
  /\ IF IsPending(p, m.from) /\ m.from \notin banned[p]
     THEN Unrequest(p, m.from) /\ TellOutcome(p, m.from)
     ELSE UNCHANGED <<requestedConnectionQueue, unanswered, told>>
  /\ UNCHANGED <<remoteSystemList, bufferedCommands, banned, myGuid, misinformed, calls,
                 breaks, excused>>

-----------------------------------------------------------------------------
(* Messages of a connection *)

Requests == {"CONNECTION_REQUEST", "WRONG_REQUEST"}
OrderingIndex(out, i) == Cardinality({j \in 1 .. i - 1 : IsOrdered(out[j])})

\* Mutant: the password is not compared.
ParsedUnread(r, m) ==
  WithMode(Sent(r, "CONNECTION_REQUEST_ACCEPTED"), "HANDLING_CONNECTION_REQUEST")

\* ParseConnectionRequestPacket and OnConnectionRequest.
Parsed(r, m) ==
  IF m = "WRONG_REQUEST"
  THEN WithMode(Sent(r, "INVALID_PASSWORD"), "DISCONNECT_ASAP_SILENTLY")
  ELSE WithMode(Sent(r, "CONNECTION_REQUEST_ACCEPTED"), "HANDLING_CONNECTION_REQUEST")

\* The remote system r after message m.
Handled(r, m) ==
  IF r.connectMode = "UNVERIFIED_SENDER"
  THEN IF m \in Requests THEN Parsed(r, m) ELSE Inactive
  ELSE CASE m \in Requests ->
              IF r.connectMode = "REQUESTED_CONNECTION" THEN Parsed(r, m)
              ELSE Sent(r, "CONNECTION_REQUEST_ACCEPTED")
         [] m = "NEW_INCOMING_CONNECTION" /\ r.connectMode = "HANDLING_CONNECTION_REQUEST" ->
              WithMode(r, "CONNECTED")
         [] m = "CONNECTION_REQUEST_ACCEPTED"
            /\ r.connectMode \in {"HANDLING_CONNECTION_REQUEST", "REQUESTED_CONNECTION"} ->
              Sent(WithMode(r, "CONNECTED"), "NEW_INCOMING_CONNECTION")
         [] m = "DISCONNECTION_NOTIFICATION" -> WithMode(r, "DISCONNECT_ON_NO_ACK")
         [] m = "INVALID_PASSWORD" /\ r.connectMode = "REQUESTED_CONNECTION" ->
              WithMode(r, "DISCONNECT_ASAP_SILENTLY")
         [] OTHER -> r

\* p receives the next message of q that has not been acknowledged, which
\* acknowledges it.  A layer of p that is older than that of q takes it for a
\* duplicate; one that is younger waits for ordered messages it cannot get.
ReceiveMessage(p, q) ==
  LET s == remoteSystemList[q][p]
      r == remoteSystemList[p][q]
      i == s.acked + 1
      m == s.out[i]
      isInOrder == IsOrdered(m) => OrderingIndex(s.out, i) = r.ordered
      read == [r EXCEPT !.next = i, !.ordered = IF IsOrdered(m) THEN @ + 1 ELSE @]
      after == CASE i <= r.next -> r
                 [] i > r.next /\ ~isInOrder -> [r EXCEPT !.next = i]
                 [] OTHER -> Handled(read, m)
      isHandled == i > r.next /\ isInOrder
      nowConnected == r.connectMode # "CONNECTED" /\ after.connectMode = "CONNECTED"
  IN /\ IsActive(p, q) /\ IsActive(q, p) /\ ~IsAcknowledged(q, p)
     /\ remoteSystemList' = [remoteSystemList EXCEPT ![q][p].acked = i, ![p][q] = after]
     /\ banned' = [banned EXCEPT ![p] =
          IF isHandled /\ r.connectMode = "UNVERIFIED_SENDER" /\ m \notin Requests THEN @ \cup {q} ELSE @]
     /\ IF nowConnected THEN TellConnected(p, q)
        ELSE IF isHandled /\ m = "INVALID_PASSWORD" /\ r.connectMode = "REQUESTED_CONNECTION"
        THEN TellOutcome(p, q)
        ELSE UNCHANGED <<unanswered, told>>
     /\ excused' = IF isHandled /\ m \in Requests /\ r.weInitiatedTheConnection
                   THEN excused \cup {<<p, q>>} ELSE excused
     /\ UNCHANGED <<requestedConnectionQueue, bufferedCommands, myGuid, misinformed,
                    offline, calls, breaks>>

BanExpires(p, q) ==
  /\ q \in banned[p]
  /\ banned' = [banned EXCEPT ![p] = @ \ {q}]
  /\ UNCHANGED <<requestedConnectionQueue, remoteSystemList, bufferedCommands, myGuid,
                 misinformed, offline,
                 unanswered, told, calls, breaks, excused>>

\* A program that ends without notice and starts again.
Restart(p) ==
  /\ breaks < MaxBreaks /\ breaks' = breaks + 1
  /\ requestedConnectionQueue' = [requestedConnectionQueue EXCEPT ![p] = [q \in Peer |-> NotRequested]]
  /\ remoteSystemList' = [remoteSystemList EXCEPT ![p] = [q \in Peer |-> Inactive]]
  /\ bufferedCommands' = [bufferedCommands EXCEPT ![p] = <<>>]
  /\ banned' = [banned EXCEPT ![p] = {}]
  /\ myGuid' = [myGuid EXCEPT ![p] = @ + 1]
  /\ unanswered' = [unanswered EXCEPT ![p] = {}] /\ told' = [told EXCEPT ![p] = {}]
  /\ excused' = {x \in excused : x[1] # p}
  /\ UNCHANGED <<misinformed, offline, calls>>

-----------------------------------------------------------------------------
(* Specification *)

ConnectionInit ==
  /\ requestedConnectionQueue = [p \in Peer |-> [q \in Peer |-> NotRequested]]
  /\ remoteSystemList = [p \in Peer |-> [q \in Peer |-> Inactive]]
  /\ bufferedCommands = [p \in Peer |-> <<>>]
  /\ misinformed \in SUBSET Misinformed
  /\ banned = [p \in Peer |-> {}] /\ myGuid = [p \in Peer |-> 1]
  /\ offline = {} /\ calls = 0 /\ breaks = 0 /\ excused = {}
  /\ unanswered = [p \in Peer |-> {}] /\ told = [p \in Peer |-> {}]

NetworkThread(p, q) ==
  \/ RequestConnection(p, q) \/ OnOpenConnectionReply1(p, q)
  \/ ConnectionDies(p, q) \/ ConnectionEnds(p, q) \/ HandshakeTimesOut(p, q)
  \/ ReceiveMessage(p, q) \/ BanExpires(p, q)

ConnectionNext ==
  \/ \E p, q \in Peer :
       \/ Connect(p, q) \/ CancelConnectionAttempt(p, q)
       \/ \E notify \in BOOLEAN : CloseConnection(p, q, notify)
       \/ NetworkThread(p, q)
  \/ \E p \in Peer : RunCommand(p) \/ Restart(p)
  \/ \E p \in Peer : \E m \in offline :
       OnOpenConnectionRequest2(p, m) \/ OnOpenConnectionReply2(p, m) \/ OnRefusal(p, m)

\* The network thread runs its cycle: timers go off, and what was sent reliably
\* is sent again until it is acknowledged or the connection is dead.
ConnectionFairness ==
  \A p \in Peer : \A q \in Peer \ {p} :
    /\ WF_connectionVars(RequestConnection(p, q))
    /\ WF_connectionVars(HandshakeTimesOut(p, q))
    /\ WF_connectionVars(ConnectionEnds(p, q))
    /\ WF_connectionVars(ReceiveMessage(p, q))
    /\ WF_connectionVars(~IsActive(q, p) /\ ConnectionDies(p, q))

ConnectionSpec == ConnectionInit /\ [][ConnectionNext]_connectionVars /\ ConnectionFairness

-----------------------------------------------------------------------------
(* Properties *)

ConnectionTypeOK ==
  /\ requestedConnectionQueue \in [Peer -> [Peer -> NotRequested .. MaxRequestsMade]]
  /\ \A p, q \in Peer :
       /\ remoteSystemList[p][q] \in RemoteSystem
       /\ remoteSystemList[p][q].acked <= Len(remoteSystemList[p][q].out)
       /\ IsActive(p, q) => p # q
  /\ banned \in [Peer -> SUBSET Peer] /\ unanswered \in [Peer -> SUBSET Peer]
  /\ told \in [Peer -> SUBSET Peer] /\ excused \subseteq Peer \X Peer

\* "12/14/09 Return ID_CONNECTION_LOST ... elsewise it is never returned":
\* whoever has been told of a connection has it, or is told of its end.
ConnectionsEndAloud ==
  \A p \in Peer : \A q \in told[p] :
    \/ remoteSystemList[p][q].connectMode \in {"CONNECTED", "DISCONNECT_ASAP", "DISCONNECT_ON_NO_ACK"}
    \/ <<p, q>> \in excused

\* Connect is answered: a request is pending, or the handshake is under way.
AttemptsAreRemembered ==
  \A p \in Peer : \A q \in unanswered[p] :
    \/ IsPending(p, q)
    \/ remoteSystemList[p][q].connectMode \in {"REQUESTED_CONNECTION", "DISCONNECT_ASAP", "DISCONNECT_ON_NO_ACK"}
    \/ <<p, q>> \in excused

\* The application hears what becomes of its attempts and of its connections.
OutcomesAreTold == ConnectionsEndAloud /\ AttemptsAreRemembered

\* "A data block that must match the data block on the server passed to
\* SetIncomingPassword" (RakPeerInterface.h): a system whose password does not is
\* connected only to those that asked it, however the requests of both sides meet.
PasswordsMatch ==
  \A p \in misinformed, q \in Peer :
    remoteSystemList[q][p].connectMode = "CONNECTED" => remoteSystemList[q][p].weInitiatedTheConnection

\* "After sendConnectionAttemptCount number of attempts, ID_CONNECTION_ATTEMPT_FAILED
\* is returned" (RakPeerInterface.h): Connect gets an outcome, whatever is lost.
ConnectIsAnswered ==
  \A p \in Peer : \A q \in Peer \ {p} :
    q \in unanswered[p] ~> (q \notin unanswered[p] \/ <<p, q>> \in excused)

-----------------------------------------------------------------------------
(* The inductive invariant: what the properties above rest on. *)

\* What p keeps of q may be r: p sends no request with the right password when
\* it has a wrong one, and waits for the answer to a request only when it has
\* sent one; it goes through a handshake with q, if the password of q is wrong,
\* only when it has asked q itself.
GoodRemote(p, q, r) ==
  /\ r \in RemoteSystem
  /\ r.acked <= Len(r.out)
  /\ r.connectMode # "INACTIVE" => p # q
  /\ r.connectMode = "REQUESTED_CONNECTION" => r.weInitiatedTheConnection
  /\ p \in misinformed => \A i \in 1 .. Len(r.out) : r.out[i] # "CONNECTION_REQUEST"
  /\ q \in misinformed /\ r.connectMode \in {"HANDLING_CONNECTION_REQUEST", "CONNECTED"}
       => r.weInitiatedTheConnection

RemotesAreGood ==
  /\ misinformed \subseteq Peer
  /\ remoteSystemList \in [Peer -> [Peer -> RemoteSystem]]
  /\ \A p, q \in Peer : GoodRemote(p, q, remoteSystemList[p][q])

\* Nobody asks itself, or is sent an offline message by itself.
NobodyAsksItself ==
  /\ requestedConnectionQueue \in [Peer -> [Peer -> NotRequested .. MaxRequestsMade]]
  /\ \A p, q \in Peer : IsPending(p, q) => p # q
  /\ myGuid \in [Peer -> Nat]
  /\ \A m \in offline : m.from \in Peer /\ m.to \in Peer /\ m.from # m.to /\ m.guid \in Nat

\* A connection is closed without a notification only by a call that asks for it.
CommandsAreExcused ==
  /\ bufferedCommands \in [Peer -> Seq(Command)]
  /\ \A p \in Peer : \A i \in 1 .. Len(bufferedCommands[p]) :
       bufferedCommands[p][i].notify \/ <<p, bufferedCommands[p][i].target>> \in excused

ConnectionIInv ==
  /\ ConnectionTypeOK
  /\ RemotesAreGood
  /\ NobodyAsksItself
  /\ CommandsAreExcused
  /\ OutcomesAreTold

=============================================================================
