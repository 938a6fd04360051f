------------------------ MODULE Connections_proofs ------------------------
(***************************************************************************)
(* What holds between two systems.  First of PeerConnection, for any       *)
(* number of systems, whatever their limits are, whatever their            *)
(* applications call, and whichever messages are lost, repeated or         *)
(* overtaken; then of NatTypeDetection; then of ReliabilityLayer, for any  *)
(* script of messages, any first number and any length of the buffers.     *)
(***************************************************************************)
EXTENDS PeerConnection, NatTypeDetection, ReliabilityLayer, FiniteSetTheorems, WellFoundedInduction,
        TLAPS

-----------------------------------------------------------------------------
(* Remote systems *)

\* What changes in a remote system that is given a message to send.
LEMMA SentFacts ==
  ASSUME NEW r \in RemoteSystem, NEW m \in ConnectionMessage
  PROVE  /\ Sent(r, m) \in RemoteSystem
         /\ Sent(r, m).connectMode = r.connectMode
         /\ Sent(r, m).weInitiatedTheConnection = r.weInitiatedTheConnection
         /\ Sent(r, m).acked = r.acked
         /\ \/ Sent(r, m).out = r.out
            \/ Sent(r, m).out = Append(r.out, m)
<1>1. r.out \in Seq(ConnectionMessage) /\ Append(r.out, m) \in Seq(ConnectionMessage)
  BY DEF RemoteSystem
<1>2. CASE Sent(r, m) = r
  BY <1>2
<1>3. CASE Sent(r, m) = [r EXCEPT !.out = Append(r.out, m)]
  BY <1>1, <1>3 DEF RemoteSystem
<1>. QED BY <1>2, <1>3 DEF Sent

\* So a good remote system stays good when it is given a message, unless this is
\* a request that has the right password although p does not know it, ...
LEMMA SentIsGood ==
  ASSUME NEW p, NEW q, NEW r, GoodRemote(p, q, r), NEW m \in ConnectionMessage,
         m = "CONNECTION_REQUEST" => p \notin misinformed
  PROVE  GoodRemote(p, q, Sent(r, m))
<1> DEFINE s == Sent(r, m)
<1>1. /\ r \in RemoteSystem /\ r.out \in Seq(ConnectionMessage) /\ r.acked \in Nat
      /\ r.acked <= Len(r.out) /\ Len(r.out) \in Nat
  BY DEF GoodRemote, RemoteSystem
<1>2. /\ s \in RemoteSystem
      /\ s.connectMode = r.connectMode
      /\ s.weInitiatedTheConnection = r.weInitiatedTheConnection
      /\ s.acked = r.acked
      /\ \/ s.out = r.out
         \/ s.out = Append(r.out, m)
  BY <1>1, SentFacts
<1> HIDE DEF s
<1>3. s.acked <= Len(s.out)
  <2>1. CASE s.out = Append(r.out, m)
    <3>1. Len(s.out) = Len(r.out) + 1
      BY <1>1, <2>1
    <3>. QED BY <1>1, <1>2, <3>1
  <2>. QED BY <1>1, <1>2, <2>1
<1>4. p \in misinformed => \A i \in 1 .. Len(s.out) : s.out[i] # "CONNECTION_REQUEST"
  <2>1. CASE s.out = Append(r.out, m)
    <3>1. /\ Len(s.out) = Len(r.out) + 1 /\ s.out[Len(r.out) + 1] = m
          /\ \A i \in 1 .. Len(r.out) : s.out[i] = r.out[i]
      BY <1>1, <2>1
    <3>2. \A i \in 1 .. Len(s.out) : i \in 1 .. Len(r.out) \/ i = Len(r.out) + 1
      BY <1>1, <3>1
    <3>. QED BY <3>1, <3>2 DEF GoodRemote
  <2>. QED BY <1>2, <2>1 DEF GoodRemote
<1>. QED BY <1>2, <1>3, <1>4 DEF GoodRemote, s

\* ... and when its mode changes, unless it goes into the handshake.
LEMMA WithModeFacts ==
  ASSUME NEW r \in RemoteSystem, NEW mode \in ConnectMode
  PROVE  LET s == WithMode(r, mode)
         IN /\ s \in RemoteSystem
            /\ s.connectMode = mode
            /\ s.weInitiatedTheConnection = r.weInitiatedTheConnection
            /\ s.out = r.out /\ s.acked = r.acked
BY DEF WithMode, RemoteSystem

LEMMA WithModeIsGood ==
  ASSUME NEW p, NEW q, NEW r, GoodRemote(p, q, r), NEW mode \in ConnectMode, p # q,
         mode = "REQUESTED_CONNECTION" => r.weInitiatedTheConnection,
         mode \in {"HANDLING_CONNECTION_REQUEST", "CONNECTED"}
           => r.weInitiatedTheConnection \/ q \notin misinformed
  PROVE  GoodRemote(p, q, WithMode(r, mode))
<1> DEFINE s == WithMode(r, mode)
<1>1. /\ s \in RemoteSystem /\ s.connectMode = mode
      /\ s.weInitiatedTheConnection = r.weInitiatedTheConnection
      /\ s.out = r.out /\ s.acked = r.acked
  BY WithModeFacts DEF GoodRemote
<1> HIDE DEF s
<1>. QED BY <1>1 DEF GoodRemote, s

LEMMA InactiveIsGood ==
  ASSUME NEW p, NEW q PROVE GoodRemote(p, q, Inactive)
<1>1. <<>> \in Seq(ConnectionMessage) /\ Len(<<>>) = 0
  OBVIOUS
<1>. QED BY <1>1 DEF GoodRemote, Inactive, RemoteSystem, ConnectMode

LEMMA AssignedIsGood ==
  ASSUME NEW p, NEW q, p # q, NEW guid \in Nat
  PROVE  GoodRemote(p, q, Assigned(guid)) /\ Assigned(guid).connectMode = "UNVERIFIED_SENDER"
<1>1. Assigned(guid) = [connectMode |-> "UNVERIFIED_SENDER", guid |-> guid,
                        weInitiatedTheConnection |-> FALSE,
                        out |-> <<>>, acked |-> 0, next |-> 0, ordered |-> 0]
  <2>1. Inactive \in RemoteSystem
    BY InactiveIsGood DEF GoodRemote
  <2>2. /\ Assigned(guid).connectMode = "UNVERIFIED_SENDER" /\ Assigned(guid).guid = guid
        /\ Assigned(guid) \in RemoteSystem
        /\ Assigned(guid).weInitiatedTheConnection = Inactive.weInitiatedTheConnection
        /\ Assigned(guid).out = Inactive.out /\ Assigned(guid).acked = Inactive.acked
        /\ Assigned(guid).next = Inactive.next /\ Assigned(guid).ordered = Inactive.ordered
    BY <2>1 DEF Assigned, RemoteSystem, ConnectMode, Connecting
  <2>. QED BY <2>2 DEF Inactive, RemoteSystem
<1>2. <<>> \in Seq(ConnectionMessage) /\ Len(<<>>) = 0
  OBVIOUS
<1>. QED BY <1>1, <1>2 DEF GoodRemote, RemoteSystem, ConnectMode, Connecting

\* A request makes the connection ours.
LEMMA RequestedIsGood ==
  ASSUME NEW p, NEW q, NEW r, GoodRemote(p, q, r), p # q
  PROVE  LET ours == [r EXCEPT !.weInitiatedTheConnection = TRUE,
                               !.connectMode = "REQUESTED_CONNECTION"]
         IN /\ GoodRemote(p, q, Sent(ours, ConnectionRequest(p)))
            /\ Sent(ours, ConnectionRequest(p)).connectMode = "REQUESTED_CONNECTION"
<1> DEFINE ours == [r EXCEPT !.weInitiatedTheConnection = TRUE,
                             !.connectMode = "REQUESTED_CONNECTION"]
<1>1. /\ ours \in RemoteSystem
      /\ ours.connectMode = "REQUESTED_CONNECTION"
      /\ ours.weInitiatedTheConnection = TRUE
      /\ ours.out = r.out /\ ours.acked = r.acked
  BY DEF GoodRemote, RemoteSystem, ConnectMode, Connecting
<1> HIDE DEF ours
<1>2. GoodRemote(p, q, ours)
  BY <1>1 DEF GoodRemote
<1>3. /\ ConnectionRequest(p) \in ConnectionMessage
      /\ ConnectionRequest(p) = "CONNECTION_REQUEST" => p \notin misinformed
  BY DEF ConnectionRequest, ConnectionMessage
<1>. QED BY <1>1, <1>2, <1>3, SentIsGood, SentFacts DEF ours

\* ParseConnectionRequestPacket lets in who has sent the right password.
LEMMA ParsedIsGood ==
  ASSUME NEW p, NEW q, NEW r, GoodRemote(p, q, r), p # q, NEW m \in Requests,
         q \in misinformed => m # "CONNECTION_REQUEST"
  PROVE  /\ GoodRemote(p, q, Parsed(r, m))
         /\ Parsed(r, m).connectMode
              \in {"DISCONNECT_ASAP_SILENTLY", "HANDLING_CONNECTION_REQUEST"}
<1>1. CASE m = "WRONG_REQUEST"
  <2>1. GoodRemote(p, q, Sent(r, "INVALID_PASSWORD"))
    BY SentIsGood DEF ConnectionMessage
  <2>. QED BY <1>1, <2>1, WithModeIsGood, WithModeFacts
           DEF Parsed, ConnectMode, Disconnecting, GoodRemote
<1>2. CASE m # "WRONG_REQUEST"
  <2>1. GoodRemote(p, q, Sent(r, "CONNECTION_REQUEST_ACCEPTED"))
    BY SentIsGood DEF ConnectionMessage
  <2>2. q \notin misinformed
    BY <1>2 DEF Requests
  <2>. QED BY <1>2, <2>1, <2>2, WithModeIsGood, WithModeFacts
           DEF Parsed, ConnectMode, Connecting, GoodRemote
<1>. QED BY <1>1, <1>2

\* What a message of a connection does to a remote system.
HandledAs(r, m, s) ==
  \/ /\ r.connectMode \in {"UNVERIFIED_SENDER", "REQUESTED_CONNECTION"}
     /\ m \in Requests /\ s = Parsed(r, m)
  \/ r.connectMode = "UNVERIFIED_SENDER" /\ s = Inactive
  \/ m \in Requests /\ s = Sent(r, "CONNECTION_REQUEST_ACCEPTED")
     /\ r.connectMode # "REQUESTED_CONNECTION"
  \/ r.connectMode = "HANDLING_CONNECTION_REQUEST" /\ s = WithMode(r, "CONNECTED")
  \/ /\ r.connectMode \in {"HANDLING_CONNECTION_REQUEST", "REQUESTED_CONNECTION"}
     /\ s = Sent(WithMode(r, "CONNECTED"), "NEW_INCOMING_CONNECTION")
  \/ s = WithMode(r, "DISCONNECT_ON_NO_ACK")
  \/ /\ m = "INVALID_PASSWORD" /\ r.connectMode = "REQUESTED_CONNECTION"
     /\ s = WithMode(r, "DISCONNECT_ASAP_SILENTLY")
  \/ s = r

LEMMA HandledCases ==
  ASSUME NEW r, NEW m \in ConnectionMessage PROVE HandledAs(r, m, Handled(r, m))
<1>1. CASE r.connectMode = "UNVERIFIED_SENDER"
  <2>1. Handled(r, m) = IF m \in Requests THEN Parsed(r, m) ELSE Inactive
    BY <1>1, Zenon DEF Handled
  <2>. QED BY <1>1, <2>1 DEF HandledAs
<1>2. CASE r.connectMode # "UNVERIFIED_SENDER" /\ m \in Requests
  <2>1. Handled(r, m) = IF r.connectMode = "REQUESTED_CONNECTION" THEN Parsed(r, m)
                        ELSE Sent(r, "CONNECTION_REQUEST_ACCEPTED")
    BY <1>2 DEF Handled, Requests
  <2>. QED BY <1>2, <2>1 DEF HandledAs
<1>3. CASE r.connectMode # "UNVERIFIED_SENDER" /\ m = "NEW_INCOMING_CONNECTION"
  <2>1. Handled(r, m) = IF r.connectMode = "HANDLING_CONNECTION_REQUEST"
                        THEN WithMode(r, "CONNECTED") ELSE r
    BY <1>3 DEF Handled, Requests
  <2>. QED BY <2>1 DEF HandledAs
<1>4. CASE r.connectMode # "UNVERIFIED_SENDER" /\ m = "CONNECTION_REQUEST_ACCEPTED"
  <2>1. Handled(r, m) =
          IF r.connectMode \in {"HANDLING_CONNECTION_REQUEST", "REQUESTED_CONNECTION"}
          THEN Sent(WithMode(r, "CONNECTED"), "NEW_INCOMING_CONNECTION") ELSE r
    BY <1>4 DEF Handled, Requests
  <2>. QED BY <2>1 DEF HandledAs
<1>5. CASE r.connectMode # "UNVERIFIED_SENDER" /\ m = "DISCONNECTION_NOTIFICATION"
  <2>1. Handled(r, m) = WithMode(r, "DISCONNECT_ON_NO_ACK")
    BY <1>5 DEF Handled, Requests
  <2>. QED BY <2>1 DEF HandledAs
<1>6. CASE r.connectMode # "UNVERIFIED_SENDER" /\ m = "INVALID_PASSWORD"
  <2>1. Handled(r, m) = IF r.connectMode = "REQUESTED_CONNECTION"
                        THEN WithMode(r, "DISCONNECT_ASAP_SILENTLY") ELSE r
    BY <1>6 DEF Handled, Requests
  <2>. QED BY <1>6, <2>1 DEF HandledAs
<1>. QED BY <1>1, <1>2, <1>3, <1>4, <1>5, <1>6 DEF ConnectionMessage, Requests

\* Every message of a connection keeps a remote system good, in whichever mode
\* it is received.
LEMMA HandledIsGood ==
  ASSUME NEW p, NEW q, NEW r, GoodRemote(p, q, r), p # q, NEW m \in ConnectionMessage,
         q \in misinformed => m # "CONNECTION_REQUEST"
  PROVE  GoodRemote(p, q, Handled(r, m))
<1>. SUFFICES ASSUME NEW s, HandledAs(r, m, s) PROVE GoodRemote(p, q, s)
  BY HandledCases
<1>1. CASE s \in {Inactive, r}
  BY <1>1, InactiveIsGood
<1>2. CASE m \in Requests /\ s = Parsed(r, m)
  BY <1>2, ParsedIsGood
<1>3. CASE s = Sent(r, "CONNECTION_REQUEST_ACCEPTED")
  BY <1>3, SentIsGood DEF ConnectionMessage
<1>4. CASE /\ r.connectMode = "HANDLING_CONNECTION_REQUEST"
           /\ s = WithMode(r, "CONNECTED")
  <2>1. "CONNECTED" \in ConnectMode /\ (r.weInitiatedTheConnection \/ q \notin misinformed)
    BY <1>4 DEF GoodRemote, ConnectMode
  <2>. QED BY <1>4, <2>1, WithModeIsGood
<1>5. CASE /\ r.connectMode \in {"HANDLING_CONNECTION_REQUEST", "REQUESTED_CONNECTION"}
           /\ s = Sent(WithMode(r, "CONNECTED"), "NEW_INCOMING_CONNECTION")
  <2>1. GoodRemote(p, q, WithMode(r, "CONNECTED"))
    BY <1>5, WithModeIsGood DEF GoodRemote, ConnectMode
  <2>. QED BY <1>5, <2>1, SentIsGood DEF ConnectionMessage
<1>6. CASE s = WithMode(r, "DISCONNECT_ON_NO_ACK")
  BY <1>6, WithModeIsGood DEF ConnectMode, Disconnecting
<1>7. CASE s = WithMode(r, "DISCONNECT_ASAP_SILENTLY")
  BY <1>7, WithModeIsGood DEF ConnectMode, Disconnecting
<1>. QED BY <1>1, <1>2, <1>3, <1>4, <1>5, <1>6, <1>7 DEF HandledAs

-----------------------------------------------------------------------------
(* One step: the remote systems *)

LEMMA SetRemoteKeepsGood ==
  ASSUME RemotesAreGood, NEW p \in Peer, NEW q \in Peer, NEW r, GoodRemote(p, q, r),
         SetRemote(p, q, r), UNCHANGED misinformed
  PROVE  RemotesAreGood'
<1>1. r \in RemoteSystem
  BY DEF GoodRemote
<1>2. remoteSystemList' \in [Peer -> [Peer -> RemoteSystem]]
  BY <1>1 DEF SetRemote, RemotesAreGood
<1>3. \A a, b \in Peer : remoteSystemList'[a][b]
                           = IF a = p /\ b = q THEN r ELSE remoteSystemList[a][b]
  BY DEF SetRemote, RemotesAreGood
<1>4. ASSUME NEW a \in Peer, NEW b \in Peer
      PROVE  GoodRemote(a, b, remoteSystemList[a][b])'
  <2>1. GoodRemote(a, b, remoteSystemList[a][b])
    BY DEF RemotesAreGood
  <2>. QED BY <1>3, <2>1 DEF GoodRemote
<1>. QED BY <1>2, <1>4 DEF RemotesAreGood

\* The queue of commands of a system.
LEMMA QueueFacts ==
  ASSUME NEW S, NEW q \in Seq(S)
  PROVE  /\ Len(q) \in Nat /\ \A i \in 1 .. Len(q) : q[i] \in S
         /\ \A x \in S : /\ Append(q, x) \in Seq(S) /\ Len(Append(q, x)) = Len(q) + 1
                         /\ \A i \in 1 .. Len(q) : Append(q, x)[i] = q[i]
                         /\ Append(q, x)[Len(q) + 1] = x
         /\ q # <<>> => /\ Head(q) = q[1] /\ 1 \in 1 .. Len(q)
                        /\ Tail(q) \in Seq(S) /\ Len(Tail(q)) = Len(q) - 1
                        /\ \A i \in 1 .. Len(q) - 1 : Tail(q)[i] = q[i + 1]
OBVIOUS

\* What the network thread makes of a remote system when it runs a command.
LEMMA RunCommandKeepsGood ==
  ASSUME RemotesAreGood, CommandsAreExcused, NEW p \in Peer, RunCommand(p)
  PROVE  RemotesAreGood'
<1> DEFINE c == Head(bufferedCommands[p])
           q == c.target
           r == remoteSystemList[p][q]
           closing == WithMode(Sent(r, "DISCONNECTION_NOTIFICATION"), "DISCONNECT_ASAP")
<1>1. c \in Command
  <2>1. /\ bufferedCommands[p] \in Seq(Command)
        /\ bufferedCommands[p] # <<>>
    BY DEF RunCommand, CommandsAreExcused
  <2>. QED BY <2>1, QueueFacts
<1>2. q \in Peer /\ GoodRemote(p, q, r)
  BY <1>1 DEF RemotesAreGood, Command
<1>3. /\ UNCHANGED misinformed
      /\ \/ SetRemote(p, q, Inactive)
         \/ SetRemote(p, q, closing) /\ IsActive(p, q)
  <2>1. UNCHANGED misinformed
    BY DEF RunCommand
  <2>2. SetRemote(p, q, IF c.notify /\ IsActive(p, q) THEN closing ELSE Inactive)
    BY DEF RunCommand
  <2> HIDE DEF c, q, r, closing
  <2>3. CASE c.notify /\ IsActive(p, q)
    BY <2>1, <2>2, <2>3
  <2>4. CASE ~(c.notify /\ IsActive(p, q))
    BY <2>1, <2>2, <2>4
  <2>. QED BY <2>3, <2>4
<1> HIDE DEF c, q, r, closing
<1>4. IsActive(p, q) => GoodRemote(p, q, closing)
  <2>1. GoodRemote(p, q, Sent(r, "DISCONNECTION_NOTIFICATION"))
    BY <1>2, SentIsGood DEF ConnectionMessage
  <2>2. IsActive(p, q) => p # q
    BY <1>2 DEF IsActive, GoodRemote, r
  <2>. QED BY <2>1, <2>2, WithModeIsGood DEF ConnectMode, Disconnecting, closing
<1>. QED BY <1>2, <1>3, <1>4, InactiveIsGood, SetRemoteKeepsGood

LEMMA ReceiveFacts ==
  ASSUME RemotesAreGood, NEW p \in Peer, NEW q \in Peer, ReceiveMessage(p, q)
  PROVE  LET s == remoteSystemList[q][p]
             r == remoteSystemList[p][q]
             i == s.acked + 1
             m == s.out[i]
             after == remoteSystemList'[p][q]
         IN /\ p # q /\ m \in ConnectionMessage
            /\ remoteSystemList' \in [Peer -> [Peer -> RemoteSystem]]
            /\ \A a, b \in Peer :
                 <<a, b>> \notin {<<p, q>>, <<q, p>>}
                   => remoteSystemList'[a][b] = remoteSystemList[a][b]
            /\ remoteSystemList'[q][p] = [s EXCEPT !.acked = i]
            /\ GoodRemote(p, q, after) /\ GoodRemote(q, p, [s EXCEPT !.acked = i])
            /\ \/ /\ after.connectMode = r.connectMode
                  /\ UNCHANGED <<unanswered, told>>
               \/ \E read \in RemoteSystem :
                    /\ read.connectMode = r.connectMode
                    /\ read.weInitiatedTheConnection = r.weInitiatedTheConnection
                    /\ HandledAs(read, m, after)
                    /\ IF r.connectMode # "CONNECTED" /\ after.connectMode = "CONNECTED"
                       THEN TellConnected(p, q)
                       ELSE IF m = "INVALID_PASSWORD" /\ r.connectMode = "REQUESTED_CONNECTION"
                       THEN TellOutcome(p, q)
                       ELSE UNCHANGED <<unanswered, told>>
                    /\ m \in Requests /\ r.weInitiatedTheConnection => <<p, q>> \in excused'
            /\ excused \subseteq excused' /\ excused' \subseteq excused \cup {<<p, q>>}
<1> DEFINE s == remoteSystemList[q][p]
           r == remoteSystemList[p][q]
           i == s.acked + 1
           m == s.out[i]
           isInOrder == IsOrdered(m) => OrderingIndex(s.out, i) = r.ordered
           read == [r EXCEPT !.next = i, !.ordered = IF IsOrdered(m) THEN @ + 1 ELSE @]
           later == [r EXCEPT !.next = i]
           after == CASE i <= r.next -> r
                      [] i > r.next /\ ~isInOrder -> later
                      [] OTHER -> Handled(read, m)
           isHandled == i > r.next /\ isInOrder
           acked == [s EXCEPT !.acked = i]
<1>1. GoodRemote(p, q, r) /\ GoodRemote(q, p, s) /\ IsActive(p, q) /\ IsActive(q, p)
  BY DEF RemotesAreGood, ReceiveMessage
<1>2. p # q /\ r \in RemoteSystem /\ s \in RemoteSystem
  BY <1>1 DEF GoodRemote, IsActive
<1>3. /\ i \in Nat /\ i \in 1 .. Len(s.out) /\ m \in ConnectionMessage
      /\ r.next \in Nat /\ r.ordered \in Nat /\ i <= Len(s.out)
  <2>1. s.acked # Len(s.out) /\ s.acked <= Len(s.out) /\ s.acked \in Nat /\ s.out \in Seq(ConnectionMessage)
    BY <1>1, <1>2 DEF ReceiveMessage, IsAcknowledged, GoodRemote, RemoteSystem
  <2>2. r.next \in Nat /\ r.ordered \in Nat
    BY <1>2 DEF RemoteSystem
  <2> HIDE DEF s, r
  <2>3. i \in Nat /\ i \in 1 .. Len(s.out) /\ i <= Len(s.out)
    BY <2>1
  <2>. QED BY <2>1, <2>2, <2>3
<1>4. q \in misinformed => m # "CONNECTION_REQUEST"
  BY <1>1, <1>3 DEF GoodRemote
<1>5. /\ remoteSystemList' = [remoteSystemList EXCEPT ![q][p].acked = i, ![p][q] = after]
      /\ IF r.connectMode # "CONNECTED" /\ after.connectMode = "CONNECTED" THEN TellConnected(p, q)
         ELSE IF isHandled /\ m = "INVALID_PASSWORD" /\ r.connectMode = "REQUESTED_CONNECTION"
         THEN TellOutcome(p, q)
         ELSE UNCHANGED <<unanswered, told>>
      /\ excused' = IF isHandled /\ m \in Requests /\ r.weInitiatedTheConnection
                    THEN excused \cup {<<p, q>>} ELSE excused
  BY Zenon DEF ReceiveMessage
<1> HIDE DEF i, m, isInOrder
<1>6. /\ later \in RemoteSystem /\ later.connectMode = r.connectMode
      /\ later.weInitiatedTheConnection = r.weInitiatedTheConnection
      /\ later.out = r.out /\ later.acked = r.acked
  BY <1>2, <1>3 DEF RemoteSystem
<1>7. /\ read \in RemoteSystem /\ read.connectMode = r.connectMode
      /\ read.weInitiatedTheConnection = r.weInitiatedTheConnection
      /\ read.out = r.out /\ read.acked = r.acked
  <2>1. (IF IsOrdered(m) THEN r.ordered + 1 ELSE r.ordered) \in Nat
    BY <1>3
  <2>. QED BY <1>2, <1>3, <2>1 DEF RemoteSystem
<1>8. acked \in RemoteSystem /\ GoodRemote(q, p, acked)
  <2>1. /\ acked \in RemoteSystem /\ acked.connectMode = s.connectMode
        /\ acked.weInitiatedTheConnection = s.weInitiatedTheConnection
        /\ acked.out = s.out /\ acked.acked = i
    BY <1>2, <1>3 DEF RemoteSystem
  <2> HIDE DEF acked
  <2>. QED BY <1>1, <1>3, <2>1 DEF GoodRemote
<1> HIDE DEF later, read
<1>9. \/ ~isHandled /\ after \in {r, later}
      \/ isHandled /\ after = Handled(read, m)
  BY <1>3
<1>10. GoodRemote(p, q, later) /\ GoodRemote(p, q, read)
  BY <1>1, <1>6, <1>7 DEF GoodRemote
<1> HIDE DEF after, isHandled
<1>11. GoodRemote(p, q, after)
  BY <1>1, <1>2, <1>3, <1>4, <1>9, <1>10, HandledIsGood
<1>12. after \in RemoteSystem
  BY <1>11 DEF GoodRemote
<1>13. /\ remoteSystemList' \in [Peer -> [Peer -> RemoteSystem]]
       /\ \A a, b \in Peer : remoteSystemList'[a][b] =
            IF a = p /\ b = q THEN after ELSE IF a = q /\ b = p THEN acked
            ELSE remoteSystemList[a][b]
  BY <1>2, <1>5, <1>8, <1>12 DEF RemotesAreGood
<1>14. \/ /\ after.connectMode = r.connectMode
          /\ UNCHANGED <<unanswered, told>>
       \/ /\ HandledAs(read, m, after)
          /\ IF r.connectMode # "CONNECTED" /\ after.connectMode = "CONNECTED"
             THEN TellConnected(p, q)
             ELSE IF m = "INVALID_PASSWORD" /\ r.connectMode = "REQUESTED_CONNECTION"
             THEN TellOutcome(p, q)
             ELSE UNCHANGED <<unanswered, told>>
          /\ m \in Requests /\ r.weInitiatedTheConnection => <<p, q>> \in excused'
  <2>1. CASE ~isHandled /\ after \in {r, later}
    BY <1>5, <1>6, <2>1
  <2>2. CASE isHandled /\ after = Handled(read, m)
    BY <1>3, <1>5, <2>2, HandledCases
  <2>. QED BY <1>9, <2>1, <2>2
<1> HIDE DEF acked, r, s
<1>. QED BY <1>2, <1>3, <1>5, <1>7, <1>8, <1>11, <1>13, <1>14 DEF acked, r, s, i, m

\* A remote system that is reached by a reply is asked to connect.
LEMMA ReplyKeepsGood ==
  ASSUME ConnectionIInv, NEW p \in Peer, NEW m \in offline, OnOpenConnectionReply2(p, m)
  PROVE  RemotesAreGood'
<1> DEFINE q == m.from
           r == IF IsActive(p, q) THEN remoteSystemList[p][q] ELSE Assigned(m.guid)
           asked == Sent([r EXCEPT !.weInitiatedTheConnection = TRUE,
                                   !.connectMode = "REQUESTED_CONNECTION"],
                         ConnectionRequest(p))
<1>1. q \in Peer /\ p # q /\ m.guid \in Nat
  BY DEF ConnectionIInv, NobodyAsksItself, OnOpenConnectionReply2
<1>2. GoodRemote(p, q, r)
  BY <1>1, AssignedIsGood DEF ConnectionIInv, RemotesAreGood
<1>3. UNCHANGED misinformed
  BY DEF OnOpenConnectionReply2
<1>4. UNCHANGED remoteSystemList \/ SetRemote(p, q, asked)
  BY DEF OnOpenConnectionReply2
<1> HIDE DEF r
<1>5. GoodRemote(p, q, asked)
  BY <1>1, <1>2, RequestedIsGood
<1> HIDE DEF asked
<1>6. CASE UNCHANGED remoteSystemList
  BY <1>3, <1>6 DEF ConnectionIInv, RemotesAreGood, GoodRemote
<1>. QED BY <1>1, <1>3, <1>4, <1>5, <1>6, SetRemoteKeepsGood DEF ConnectionIInv

LEMMA ReceiveKeepsGood ==
  ASSUME ConnectionIInv, NEW p \in Peer, NEW q \in Peer, ReceiveMessage(p, q)
  PROVE  RemotesAreGood'
<1> DEFINE acked == [remoteSystemList[q][p] EXCEPT !.acked = remoteSystemList[q][p].acked + 1]
<1>1. /\ p # q
      /\ remoteSystemList' \in [Peer -> [Peer -> RemoteSystem]]
      /\ \A a, b \in Peer : <<a, b>> \notin {<<p, q>>, <<q, p>>}
                              => remoteSystemList'[a][b] = remoteSystemList[a][b]
      /\ remoteSystemList'[q][p] = acked
      /\ GoodRemote(p, q, remoteSystemList'[p][q]) /\ GoodRemote(q, p, acked)
  BY ReceiveFacts DEF ConnectionIInv
<1>2. UNCHANGED misinformed
  BY DEF ReceiveMessage
<1> HIDE DEF acked
<1>3. ASSUME NEW a \in Peer, NEW b \in Peer PROVE GoodRemote(a, b, remoteSystemList[a][b])'
  <2>1. GoodRemote(a, b, remoteSystemList'[a][b])
    <3>1. CASE <<a, b>> \notin {<<p, q>>, <<q, p>>}
      BY <1>1, <3>1 DEF ConnectionIInv, RemotesAreGood
    <3>. QED BY <1>1, <3>1
  <2>. QED BY <1>2, <2>1 DEF GoodRemote
<1>. QED BY <1>1, <1>2, <1>3 DEF ConnectionIInv, RemotesAreGood

LEMMA NextRemotes ==
  ASSUME ConnectionIInv, ConnectionNext PROVE RemotesAreGood'
<1>1. RemotesAreGood
  BY DEF ConnectionIInv
<1>2. ASSUME UNCHANGED <<remoteSystemList, misinformed>> PROVE RemotesAreGood'
  BY <1>1, <1>2 DEF RemotesAreGood, GoodRemote
<1>3. ASSUME NEW p \in Peer, NEW q \in Peer,
             \/ Connect(p, q) \/ CancelConnectionAttempt(p, q)
             \/ \E notify \in BOOLEAN : CloseConnection(p, q, notify)
             \/ RequestConnection(p, q) \/ OnOpenConnectionReply1(p, q) \/ BanExpires(p, q)
      PROVE  RemotesAreGood'
  BY <1>2, <1>3 DEF Connect, CancelConnectionAttempt, CloseConnection, RequestConnection,
                    OnOpenConnectionReply1, BanExpires
<1>4. ASSUME NEW p \in Peer, NEW q \in Peer,
             ConnectionDies(p, q) \/ ConnectionEnds(p, q) \/ HandshakeTimesOut(p, q)
      PROVE  RemotesAreGood'
  <2>1. SetRemote(p, q, Inactive) /\ UNCHANGED misinformed
    BY <1>4 DEF ConnectionDies, ConnectionEnds, HandshakeTimesOut, CloseFailed
  <2>. QED BY <1>1, <2>1, InactiveIsGood, SetRemoteKeepsGood
<1>5. ASSUME NEW p \in Peer, NEW m \in offline, OnOpenConnectionRequest2(p, m)
      PROVE  RemotesAreGood'
  <2>1. m.from \in Peer /\ p # m.from /\ m.guid \in Nat
    BY <1>5 DEF ConnectionIInv, NobodyAsksItself, OnOpenConnectionRequest2
  <2>2. /\ UNCHANGED misinformed
        /\ UNCHANGED remoteSystemList \/ SetRemote(p, m.from, Assigned(m.guid))
    BY <1>5 DEF OnOpenConnectionRequest2
  <2>. QED BY <1>1, <1>2, <2>1, <2>2, AssignedIsGood, SetRemoteKeepsGood
<1>6. ASSUME NEW p \in Peer, NEW m \in offline, OnRefusal(p, m) PROVE RemotesAreGood'
  BY <1>2, <1>6 DEF OnRefusal
<1>7. ASSUME NEW p \in Peer, Restart(p) PROVE RemotesAreGood'
  <2>1. /\ UNCHANGED misinformed
        /\ remoteSystemList' = [remoteSystemList EXCEPT ![p] = [q \in Peer |-> Inactive]]
    BY <1>7 DEF Restart
  <2>2. \A q \in Peer : GoodRemote(p, q, Inactive) /\ Inactive \in RemoteSystem
    BY InactiveIsGood DEF GoodRemote
  <2>3. /\ remoteSystemList' \in [Peer -> [Peer -> RemoteSystem]]
        /\ \A a, b \in Peer : remoteSystemList'[a][b]
                                = IF a = p THEN Inactive ELSE remoteSystemList[a][b]
    BY <1>1, <2>1, <2>2 DEF RemotesAreGood
  <2>4. ASSUME NEW a \in Peer, NEW b \in Peer PROVE GoodRemote(a, b, remoteSystemList[a][b])'
    <3>1. GoodRemote(a, b, remoteSystemList'[a][b])
      BY <1>1, <2>2, <2>3 DEF RemotesAreGood
    <3>. QED BY <2>1, <3>1 DEF GoodRemote
  <2>. QED BY <1>1, <2>1, <2>3, <2>4 DEF RemotesAreGood
<1>8. ASSUME NEW p \in Peer, RunCommand(p) PROVE RemotesAreGood'
  BY <1>8, RunCommandKeepsGood DEF ConnectionIInv
<1>. QED BY <1>3, <1>4, <1>5, <1>6, <1>7, <1>8, ReceiveKeepsGood, ReplyKeepsGood
         DEF ConnectionNext, NetworkThread

-----------------------------------------------------------------------------
(* One step: requests, offline messages and commands *)

\* What actions of the network thread leave alone.
LEMMA NetworkThreadLeaves ==
  ASSUME NEW p, NEW q
  PROVE  /\ ReceiveMessage(p, q)
              => UNCHANGED <<requestedConnectionQueue, bufferedCommands, myGuid, misinformed,
                             offline>>
         /\ ConnectionDies(p, q) \/ ConnectionEnds(p, q) \/ HandshakeTimesOut(p, q)
              => /\ UNCHANGED <<requestedConnectionQueue, bufferedCommands, banned, myGuid,
                                misinformed, offline, excused>>
                 /\ CloseFailed(p, q) /\ IsActive(p, q)
         /\ BanExpires(p, q)
              => UNCHANGED <<requestedConnectionQueue, remoteSystemList, bufferedCommands,
                             myGuid, misinformed, offline, unanswered, told, excused>>
         /\ RunCommand(p)
              => UNCHANGED <<requestedConnectionQueue, banned, myGuid, misinformed, offline,
                             unanswered, told, excused>>
         /\ OnOpenConnectionRequest2(p, q)
              => UNCHANGED <<requestedConnectionQueue, bufferedCommands, banned, myGuid,
                             misinformed, unanswered, told, excused>>
<1>1. ReceiveMessage(p, q) => UNCHANGED <<requestedConnectionQueue, bufferedCommands, myGuid,
                                          misinformed, offline>>
  BY Zenon DEF ReceiveMessage
<1>2. RunCommand(p) => UNCHANGED <<requestedConnectionQueue, banned, myGuid, misinformed,
                                   offline, unanswered, told, excused>>
  BY Zenon DEF RunCommand
<1>3. OnOpenConnectionRequest2(p, q) => UNCHANGED <<requestedConnectionQueue, bufferedCommands,
                                          banned, myGuid, misinformed, unanswered, told, excused>>
  BY Zenon DEF OnOpenConnectionRequest2
<1>4. BanExpires(p, q) => UNCHANGED <<requestedConnectionQueue, remoteSystemList,
                            bufferedCommands, myGuid, misinformed, offline, unanswered, told,
                            excused>>
  BY DEF BanExpires
<1>5. ConnectionDies(p, q) \/ ConnectionEnds(p, q) \/ HandshakeTimesOut(p, q)
        => /\ UNCHANGED <<requestedConnectionQueue, bufferedCommands, banned, myGuid,
                          misinformed, offline, excused>>
           /\ CloseFailed(p, q) /\ IsActive(p, q)
  BY DEF ConnectionDies, ConnectionEnds, HandshakeTimesOut, IsActive, Connecting
<1>. QED BY <1>1, <1>2, <1>3, <1>4, <1>5

\* A request is made, counted or ended.
LEMMA RequestKeepsOrder ==
  ASSUME NobodyAsksItself, NEW p \in Peer, NEW q \in Peer,
         NEW n \in NotRequested .. MaxRequestsMade, n = NotRequested \/ p # q,
         requestedConnectionQueue' = [requestedConnectionQueue EXCEPT ![p][q] = n]
  PROVE  /\ requestedConnectionQueue' \in [Peer -> [Peer -> NotRequested .. MaxRequestsMade]]
         /\ \A a, b \in Peer : IsPending(a, b)' => a # b
BY DEF NobodyAsksItself, IsPending

LEMMA NextRequests ==
  ASSUME ConnectionIInv, ConnectionNext PROVE NobodyAsksItself'
<1> DEFINE Requested == /\ requestedConnectionQueue'
                             \in [Peer -> [Peer -> NotRequested .. MaxRequestsMade]]
                        /\ \A a, b \in Peer : IsPending(a, b)' => a # b
           Sound(m) == m.from \in Peer /\ m.to \in Peer /\ m.from # m.to /\ m.guid \in Nat
           Talk == /\ myGuid' \in [Peer -> Nat]
                   /\ \A m \in offline' : Sound(m)
<1>1. NobodyAsksItself /\ NotRequested = -1 /\ MaxRequestsMade \in Nat
  BY ConnectionAssumption DEF ConnectionIInv, NotRequested
<1>2. Requested
  <2>0. NotRequested \in NotRequested .. MaxRequestsMade /\ 0 \in NotRequested .. MaxRequestsMade
    BY <1>1
  <2>1. ASSUME UNCHANGED requestedConnectionQueue PROVE Requested
    BY <1>1, <2>1 DEF NobodyAsksItself, IsPending
  <2>2. ASSUME NEW p \in Peer, NEW q \in Peer, Unrequest(p, q) PROVE Requested
    BY <1>1, <2>0, <2>2, RequestKeepsOrder DEF Unrequest
  <2>3. ASSUME NEW p \in Peer, NEW q \in Peer, Connect(p, q) PROVE Requested
    BY <1>1, <2>0, <2>3, RequestKeepsOrder DEF Connect
  <2>4. ASSUME NEW p \in Peer, NEW q \in Peer, RequestConnection(p, q) PROVE Requested
    <3>1. CASE requestedConnectionQueue[p][q] = MaxRequestsMade
      BY <2>2, <2>4, <3>1 DEF RequestConnection
    <3>2. CASE requestedConnectionQueue[p][q] # MaxRequestsMade
      <4> DEFINE n == requestedConnectionQueue[p][q] + 1
      <4>1. requestedConnectionQueue[p][q] \in NotRequested .. MaxRequestsMade /\ p # q
        BY <2>4 DEF RequestConnection, ConnectionIInv, NobodyAsksItself
      <4>2. n \in NotRequested .. MaxRequestsMade
        BY <1>1, <3>2, <4>1
      <4>3. requestedConnectionQueue' = [requestedConnectionQueue EXCEPT ![p][q] = n]
        BY <2>4, <3>2 DEF RequestConnection
      <4> HIDE DEF n
      <4>. QED BY <1>1, <4>1, <4>2, <4>3, RequestKeepsOrder
    <3>. QED BY <3>1, <3>2
  <2>5. ASSUME NEW p \in Peer, NEW m \in offline,
               OnOpenConnectionReply2(p, m) \/ OnRefusal(p, m)
        PROVE  Requested
    <3>1. m.from \in Peer
      BY <1>1 DEF NobodyAsksItself
    <3>2. Unrequest(p, m.from) \/ UNCHANGED requestedConnectionQueue
      BY <2>5 DEF OnOpenConnectionReply2, OnRefusal
    <3>. QED BY <2>1, <2>2, <3>1, <3>2
  <2>6. ASSUME NEW p \in Peer, Restart(p) PROVE Requested
    <3>1. requestedConnectionQueue'
            = [requestedConnectionQueue EXCEPT ![p] = [q \in Peer |-> NotRequested]]
      BY <2>6 DEF Restart
    <3>2. requestedConnectionQueue' \in [Peer -> [Peer -> NotRequested .. MaxRequestsMade]]
      BY <1>1, <2>0, <3>1 DEF NobodyAsksItself
    <3>3. \A a, b \in Peer : requestedConnectionQueue'[a][b] \in
                               {NotRequested, requestedConnectionQueue[a][b]}
      BY <1>1, <3>1 DEF NobodyAsksItself
    <3>. QED BY <1>1, <3>2, <3>3 DEF NobodyAsksItself, IsPending
  <2>7. ASSUME \/ \E p, q \in Peer :
                    \/ \E notify \in BOOLEAN : CloseConnection(p, q, notify)
                    \/ OnOpenConnectionReply1(p, q) \/ ConnectionDies(p, q)
                    \/ ConnectionEnds(p, q) \/ HandshakeTimesOut(p, q)
                    \/ ReceiveMessage(p, q) \/ BanExpires(p, q)
               \/ \E p \in Peer : RunCommand(p)
               \/ \E p \in Peer : \E m \in offline : OnOpenConnectionRequest2(p, m)
        PROVE  UNCHANGED requestedConnectionQueue
    BY <2>7, NetworkThreadLeaves DEF CloseConnection, OnOpenConnectionReply1
  <2> HIDE DEF Requested
  <2>8. ASSUME NEW p \in Peer, NEW q \in Peer, CancelConnectionAttempt(p, q) PROVE Requested
    BY <2>2, <2>8 DEF CancelConnectionAttempt
  <2>. QED BY <2>1, <2>3, <2>4, <2>5, <2>6, <2>7, <2>8 DEF ConnectionNext, NetworkThread
<1>3. Talk
  <2>0. myGuid \in [Peer -> Nat] /\ \A m \in offline : Sound(m)
    BY <1>1 DEF NobodyAsksItself
  <2>1. ASSUME UNCHANGED myGuid, offline' \subseteq offline PROVE Talk
    BY <2>0, <2>1
  <2>2. ASSUME NEW type, NEW from \in Peer, NEW to \in Peer, from # to
        PROVE  Sound(Offline(type, from, to))
    BY <2>0, <2>2 DEF Offline
  <2>3. ASSUME NEW p \in Peer, NEW q \in Peer, OnOpenConnectionReply1(p, q) PROVE Talk
    <3>1. p # q
      BY <1>1, <2>3 DEF NobodyAsksItself, OnOpenConnectionReply1
    <3>2. /\ UNCHANGED myGuid
          /\ \/ offline' = offline \cup {Offline("CONNECTION_BANNED", q, p)}
             \/ offline' = offline \cup {Offline("OPEN_CONNECTION_REQUEST_2", p, q)}
      BY <2>3 DEF OnOpenConnectionReply1
    <3> HIDE DEF Sound
    <3>. QED BY <2>0, <2>2, <3>1, <3>2
  <2>4. ASSUME NEW m \in offline, NEW type, Answer(m, type), UNCHANGED myGuid PROVE Talk
    <3>1. Sound(Offline(type, m.to, m.from))
      BY <2>0, <2>2
    <3> HIDE DEF Sound
    <3>. QED BY <2>0, <2>4, <3>1 DEF Answer
  <2>5. ASSUME NEW p \in Peer, NEW m \in offline,
               \/ OnOpenConnectionRequest2(p, m) \/ OnOpenConnectionReply2(p, m)
               \/ OnRefusal(p, m)
        PROVE  Talk
    <3>1. /\ UNCHANGED myGuid
          /\ \/ \E type : Answer(m, type)
             \/ offline' = offline \ {m}
      BY <2>5 DEF OnOpenConnectionRequest2, OnOpenConnectionReply2, OnRefusal, Read
    <3> HIDE DEF Talk
    <3>. QED BY <2>1, <2>4, <3>1
  <2>6. ASSUME NEW p \in Peer, Restart(p) PROVE Talk
    BY <2>0, <2>6 DEF Restart
  <2>7. ASSUME \/ \E p, q \in Peer :
                    \/ Connect(p, q) \/ CancelConnectionAttempt(p, q)
                    \/ \E notify \in BOOLEAN : CloseConnection(p, q, notify)
                    \/ RequestConnection(p, q) \/ ConnectionDies(p, q)
                    \/ ConnectionEnds(p, q) \/ HandshakeTimesOut(p, q)
                    \/ ReceiveMessage(p, q) \/ BanExpires(p, q)
               \/ \E p \in Peer : RunCommand(p)
        PROVE  UNCHANGED <<myGuid, offline>>
    <3>1. ASSUME NEW p \in Peer, NEW q \in Peer,
                 \/ Connect(p, q) \/ CancelConnectionAttempt(p, q)
                 \/ \E notify \in BOOLEAN : CloseConnection(p, q, notify)
                 \/ RequestConnection(p, q)
          PROVE  UNCHANGED <<myGuid, offline>>
      BY <3>1 DEF Connect, CancelConnectionAttempt, CloseConnection, RequestConnection
    <3>2. ASSUME NEW p \in Peer, NEW q \in Peer,
                 \/ ConnectionDies(p, q) \/ ConnectionEnds(p, q) \/ HandshakeTimesOut(p, q)
                 \/ ReceiveMessage(p, q) \/ BanExpires(p, q)
          PROVE  UNCHANGED <<myGuid, offline>>
      BY <3>2, NetworkThreadLeaves, Zenon
    <3>3. ASSUME NEW p \in Peer, RunCommand(p) PROVE UNCHANGED <<myGuid, offline>>
      BY <3>3, NetworkThreadLeaves, Zenon
    <3>. QED BY <2>7, <3>1, <3>2, <3>3, Zenon
  <2> HIDE DEF Talk
  <2>. QED BY <2>1, <2>3, <2>5, <2>6, <2>7 DEF ConnectionNext, NetworkThread
<1>. QED BY <1>2, <1>3 DEF NobodyAsksItself

-----------------------------------------------------------------------------
(* One step: the commands *)

LEMMA NextCommands ==
  ASSUME ConnectionIInv, ConnectionNext PROVE CommandsAreExcused'
<1>1. /\ bufferedCommands \in [Peer -> Seq(Command)]
      /\ \A p \in Peer : \A i \in 1 .. Len(bufferedCommands[p]) :
           bufferedCommands[p][i].notify \/ <<p, bufferedCommands[p][i].target>> \in excused
  BY DEF ConnectionIInv, CommandsAreExcused
<1>2. ASSUME UNCHANGED bufferedCommands, excused \subseteq excused' PROVE CommandsAreExcused'
  BY <1>1, <1>2 DEF CommandsAreExcused
<1>3. ASSUME NEW p \in Peer, NEW q \in Peer, NEW notify \in BOOLEAN,
             CloseConnection(p, q, notify)
      PROVE  CommandsAreExcused'
  <2> DEFINE queue == bufferedCommands[p]
             c == [target |-> q, notify |-> notify]
  <2>1. c \in Command /\ c.target = q /\ c.notify = notify /\ queue \in Seq(Command)
    BY <1>1 DEF Command
  <2>2. bufferedCommands' = [bufferedCommands EXCEPT ![p] = Append(queue, c)]
    BY <1>3 DEF CloseConnection
  <2>3. excused \subseteq excused' /\ (notify \/ <<p, q>> \in excused')
    BY <1>3 DEF CloseConnection
  <2> HIDE DEF queue, c
  <2>4. /\ Append(queue, c) \in Seq(Command) /\ Len(queue) \in Nat
        /\ Len(Append(queue, c)) = Len(queue) + 1
        /\ \A i \in 1 .. Len(queue) : Append(queue, c)[i] = queue[i]
        /\ Append(queue, c)[Len(queue) + 1] = c
    BY <2>1, QueueFacts
  <2>5. \A i \in 1 .. Len(Append(queue, c)) : i \in 1 .. Len(queue) \/ i = Len(queue) + 1
    BY <2>4
  <2>6. bufferedCommands' \in [Peer -> Seq(Command)]
    BY <1>1, <2>2, <2>4
  <2>7. ASSUME NEW a \in Peer, NEW i \in 1 .. Len(bufferedCommands'[a])
        PROVE  \/ bufferedCommands'[a][i].notify
               \/ <<a, bufferedCommands'[a][i].target>> \in excused'
    <3>1. CASE a # p
      BY <1>1, <2>2, <2>3, <2>7, <3>1
    <3>2. CASE a = p
      <4>1. bufferedCommands'[a] = Append(queue, c)
        BY <1>1, <2>2, <3>2
      <4>2. CASE i = Len(queue) + 1
        BY <2>1, <2>3, <2>4, <3>2, <4>1, <4>2
      <4>3. CASE i \in 1 .. Len(queue)
        BY <1>1, <2>3, <2>4, <3>2, <4>1, <4>3 DEF queue
      <4>. QED BY <2>5, <2>7, <4>1, <4>2, <4>3
    <3>. QED BY <3>1, <3>2
  <2>. QED BY <2>6, <2>7 DEF CommandsAreExcused
<1>4. ASSUME NEW p \in Peer, RunCommand(p) PROVE CommandsAreExcused'
  <2> DEFINE queue == bufferedCommands[p]
  <2>1. queue \in Seq(Command)
    BY <1>1
  <2>2. /\ UNCHANGED excused
        /\ queue # <<>> /\ bufferedCommands' = [bufferedCommands EXCEPT ![p] = Tail(queue)]
    BY <1>4 DEF RunCommand
  <2> HIDE DEF queue
  <2>3. /\ Tail(queue) \in Seq(Command) /\ Len(queue) \in Nat
        /\ Len(Tail(queue)) = Len(queue) - 1
        /\ \A i \in 1 .. Len(queue) - 1 : Tail(queue)[i] = queue[i + 1]
    BY <2>1, <2>2, QueueFacts
  <2>4. bufferedCommands' \in [Peer -> Seq(Command)]
    BY <1>1, <2>2, <2>3
  <2>5. ASSUME NEW a \in Peer, NEW i \in 1 .. Len(bufferedCommands'[a])
        PROVE  \/ bufferedCommands'[a][i].notify
               \/ <<a, bufferedCommands'[a][i].target>> \in excused'
    <3>1. CASE a # p
      BY <1>1, <2>2, <2>5, <3>1
    <3>2. CASE a = p
      <4>1. bufferedCommands'[a] = Tail(queue)
        BY <1>1, <2>2, <3>2
      <4>2. i \in 1 .. Len(queue) - 1 /\ i + 1 \in 1 .. Len(queue)
        BY <2>3, <2>5, <4>1
      <4>. QED BY <1>1, <2>2, <2>3, <3>2, <4>1, <4>2 DEF queue
    <3>. QED BY <3>1, <3>2
  <2>. QED BY <2>4, <2>5 DEF CommandsAreExcused
<1>5. ASSUME NEW p \in Peer, Restart(p) PROVE CommandsAreExcused'
  <2>1. /\ bufferedCommands' = [bufferedCommands EXCEPT ![p] = <<>>]
        /\ excused' = {x \in excused : x[1] # p}
    BY <1>5 DEF Restart
  <2>2. <<>> \in Seq(Command) /\ Len(<<>>) = 0
    OBVIOUS
  <2>3. bufferedCommands' \in [Peer -> Seq(Command)]
    BY <1>1, <2>1, <2>2
  <2>4. ASSUME NEW a \in Peer, NEW i \in 1 .. Len(bufferedCommands'[a])
        PROVE  \/ bufferedCommands'[a][i].notify
               \/ <<a, bufferedCommands'[a][i].target>> \in excused'
    <3>1. CASE a = p
      BY <1>1, <2>1, <2>2, <2>4, <3>1
    <3>2. CASE a # p
      <4>1. bufferedCommands'[a] = bufferedCommands[a]
        BY <1>1, <2>1, <3>2
      <4>. QED BY <1>1, <2>1, <2>4, <3>2, <4>1
    <3>. QED BY <3>1, <3>2
  <2>. QED BY <2>3, <2>4 DEF CommandsAreExcused
<1>6. ASSUME NEW p \in Peer, NEW q \in Peer,
             \/ Connect(p, q) \/ CancelConnectionAttempt(p, q) \/ NetworkThread(p, q)
      PROVE  UNCHANGED bufferedCommands /\ excused \subseteq excused'
  <2>1. CASE ReceiveMessage(p, q)
    BY <2>1, ReceiveFacts, NetworkThreadLeaves DEF ConnectionIInv
  <2>2. CASE ~ReceiveMessage(p, q)
    BY <1>6, <2>2, NetworkThreadLeaves
       DEF Connect, CancelConnectionAttempt, NetworkThread, RequestConnection,
           OnOpenConnectionReply1
  <2>. QED BY <2>1, <2>2
<1>7. ASSUME NEW p \in Peer, NEW m \in offline,
             \/ OnOpenConnectionRequest2(p, m) \/ OnOpenConnectionReply2(p, m)
             \/ OnRefusal(p, m)
      PROVE  UNCHANGED bufferedCommands /\ excused \subseteq excused'
  BY <1>7, NetworkThreadLeaves DEF OnOpenConnectionReply2, OnRefusal
<1>. QED BY <1>2, <1>3, <1>4, <1>5, <1>6, <1>7 DEF ConnectionNext

-----------------------------------------------------------------------------
(* One step: what the applications have been told *)

\* p has been told what became of q, or will be.
Outcome(p, q) ==
  /\ q \in told[p] =>
       \/ remoteSystemList[p][q].connectMode
            \in {"CONNECTED", "DISCONNECT_ASAP", "DISCONNECT_ON_NO_ACK"}
       \/ <<p, q>> \in excused
  /\ q \in unanswered[p] =>
       \/ IsPending(p, q)
       \/ remoteSystemList[p][q].connectMode
            \in {"REQUESTED_CONNECTION", "DISCONNECT_ASAP", "DISCONNECT_ON_NO_ACK"}
       \/ <<p, q>> \in excused

\* The step changes nothing that matters between p and q.
Kept(p, q) ==
  /\ remoteSystemList'[p][q].connectMode = remoteSystemList[p][q].connectMode
  /\ requestedConnectionQueue'[p][q] = requestedConnectionQueue[p][q]
  /\ q \in unanswered'[p] => q \in unanswered[p]
  /\ q \in told'[p] => q \in told[p]
  /\ <<p, q>> \in excused => <<p, q>> \in excused'

\* What the application is told of one system changes nothing else.
TellingIsTyped == unanswered \in [Peer -> SUBSET Peer] /\ told \in [Peer -> SUBSET Peer]

LEMMA TellFacts ==
  ASSUME TellingIsTyped, NEW p \in Peer, NEW q \in Peer,
         \/ TellOutcome(p, q) \/ TellConnected(p, q) \/ TellLost(p, q)
         \/ UNCHANGED <<unanswered, told>>
  PROVE  /\ TellingIsTyped'
         /\ q \in unanswered'[p] => q \in unanswered[p]
         /\ \A a, b \in Peer : <<a, b>> # <<p, q>>
              => /\ b \in unanswered'[a] => b \in unanswered[a]
                 /\ b \in told'[a] => b \in told[a]
         /\ TellOutcome(p, q) => /\ q \notin unanswered'[p]
                                 /\ q \in told'[p] => q \in told[p]
         /\ TellLost(p, q) => q \notin unanswered'[p] /\ q \notin told'[p]
         /\ TellConnected(p, q) => q \notin unanswered'[p]
         /\ UNCHANGED <<unanswered, told>> => (q \in told'[p] => q \in told[p])
BY DEF TellingIsTyped, TellOutcome, TellConnected, TellLost

LEMMA OneOutcome ==
  ASSUME OutcomesAreTold, NEW p \in Peer, NEW q \in Peer, TellingIsTyped, TellingIsTyped',
         \A a, b \in Peer : <<a, b>> # <<p, q>> => Kept(a, b),
         Outcome(p, q) => Outcome(p, q)'
  PROVE  OutcomesAreTold'
<1>1. \A a, b \in Peer : Outcome(a, b)
  BY DEF OutcomesAreTold, ConnectionsEndAloud, AttemptsAreRemembered, Outcome
<1>2. ASSUME NEW a \in Peer, NEW b \in Peer PROVE Outcome(a, b)'
  <2>1. CASE <<a, b>> = <<p, q>>
    BY <1>1, <2>1
  <2>2. CASE <<a, b>> # <<p, q>>
    BY <1>1, <2>2 DEF Outcome, Kept, IsPending
  <2>. QED BY <2>1, <2>2
<1>3. \A a \in Peer : unanswered'[a] \subseteq Peer /\ told'[a] \subseteq Peer
  BY DEF TellingIsTyped
<1>. QED BY <1>2, <1>3 DEF OutcomesAreTold, ConnectionsEndAloud, AttemptsAreRemembered, Outcome

\* One remote system is replaced, one request is ended, one pair is excused.
LEMMA OtherSystems ==
  ASSUME ConnectionIInv, NEW p \in Peer, NEW q \in Peer
  PROVE  /\ \A r : SetRemote(p, q, r)
              => /\ remoteSystemList'[p][q] = r
                 /\ \A a, b \in Peer : <<a, b>> # <<p, q>>
                      => remoteSystemList'[a][b] = remoteSystemList[a][b]
         /\ Unrequest(p, q)
              => \A a, b \in Peer : <<a, b>> # <<p, q>>
                   => requestedConnectionQueue'[a][b] = requestedConnectionQueue[a][b]
BY DEF ConnectionIInv, RemotesAreGood, NobodyAsksItself, SetRemote, Unrequest

\* A step that does nothing between p and q, or that tells the outcome.
LEMMA ToldOutcome ==
  ASSUME ConnectionIInv, NEW p \in Peer, NEW q \in Peer, TellOutcome(p, q),
         UNCHANGED remoteSystemList, excused \subseteq excused',
         Unrequest(p, q) \/ UNCHANGED requestedConnectionQueue
  PROVE  OutcomesAreTold' /\ TellingIsTyped'
<1>1. TellingIsTyped
  BY DEF ConnectionIInv, ConnectionTypeOK, TellingIsTyped
<1>2. /\ TellingIsTyped'
      /\ \A a, b \in Peer : <<a, b>> # <<p, q>>
              => /\ b \in unanswered'[a] => b \in unanswered[a]
                 /\ b \in told'[a] => b \in told[a]
      /\ q \notin unanswered'[p]
      /\ q \in told'[p] => q \in told[p]
  BY <1>1, TellFacts
<1>3. \A a, b \in Peer : <<a, b>> # <<p, q>>
        => requestedConnectionQueue'[a][b] = requestedConnectionQueue[a][b]
  BY OtherSystems
<1>4. \A a, b \in Peer : <<a, b>> # <<p, q>> => Kept(a, b)
  BY <1>2, <1>3 DEF Kept
<1>5. Outcome(p, q) => Outcome(p, q)'
  BY <1>2 DEF Outcome
<1>. QED BY <1>1, <1>2, <1>4, <1>5, OneOutcome DEF ConnectionIInv

\* A remote system changes, and p is told something of it or nothing.
LEMMA RemoteOutcome ==
  ASSUME ConnectionIInv, NEW p \in Peer, NEW q \in Peer, NEW r, SetRemote(p, q, r),
         UNCHANGED requestedConnectionQueue, excused \subseteq excused',
         \/ TellOutcome(p, q) \/ TellLost(p, q) \/ UNCHANGED <<unanswered, told>>,
         LET mode == remoteSystemList[p][q].connectMode
         IN \/ r.connectMode \in {"DISCONNECT_ASAP", "DISCONNECT_ON_NO_ACK"}
            \/ TellLost(p, q)
            \/ <<p, q>> \in excused
            \/ mode = "REQUESTED_CONNECTION" /\ TellOutcome(p, q)
            \/ mode \in {"UNVERIFIED_SENDER", "HANDLING_CONNECTION_REQUEST", "INACTIVE",
                         "DISCONNECT_ASAP_SILENTLY"}
               /\ UNCHANGED <<unanswered, told>>
  PROVE  OutcomesAreTold' /\ TellingIsTyped'
<1>1. TellingIsTyped
  BY DEF ConnectionIInv, ConnectionTypeOK, TellingIsTyped
<1>2. /\ TellingIsTyped'
      /\ q \in unanswered'[p] => q \in unanswered[p]
      /\ \A a, b \in Peer : <<a, b>> # <<p, q>>
              => /\ b \in unanswered'[a] => b \in unanswered[a]
                 /\ b \in told'[a] => b \in told[a]
      /\ TellOutcome(p, q) => /\ q \notin unanswered'[p]
                              /\ q \in told'[p] => q \in told[p]
      /\ TellLost(p, q) => q \notin unanswered'[p] /\ q \notin told'[p]
      /\ UNCHANGED <<unanswered, told>> => (q \in told'[p] => q \in told[p])
  BY <1>1, TellFacts
<1>3. /\ remoteSystemList'[p][q] = r
      /\ \A a, b \in Peer : <<a, b>> # <<p, q>>
           => remoteSystemList'[a][b] = remoteSystemList[a][b]
  BY OtherSystems
<1>4. \A a, b \in Peer : <<a, b>> # <<p, q>> => Kept(a, b)
  BY <1>2, <1>3 DEF Kept
<1>5. Outcome(p, q) => Outcome(p, q)'
  BY <1>2, <1>3 DEF Outcome, IsPending
<1>. QED BY <1>1, <1>2, <1>4, <1>5, OneOutcome DEF ConnectionIInv

\* A failure is reported as the mode asks.
LEMMA CloseFailedTells ==
  ASSUME ConnectionIInv, NEW p \in Peer, NEW q \in Peer, CloseFailed(p, q),
         UNCHANGED <<requestedConnectionQueue, excused>>
  PROVE  OutcomesAreTold' /\ TellingIsTyped'
<1> DEFINE mode == remoteSystemList[p][q].connectMode
<1>1. mode \in ConnectMode
  BY DEF ConnectionIInv, RemotesAreGood, RemoteSystem
<1>2. /\ SetRemote(p, q, Inactive)
      /\ \/ mode = "REQUESTED_CONNECTION" /\ TellOutcome(p, q)
         \/ TellLost(p, q)
         \/ /\ mode \in {"UNVERIFIED_SENDER", "HANDLING_CONNECTION_REQUEST", "INACTIVE",
                         "DISCONNECT_ASAP_SILENTLY"}
            /\ UNCHANGED <<unanswered, told>>
  <2>1. SetRemote(p, q, Inactive)
    BY DEF CloseFailed
  <2>2. mode = "REQUESTED_CONNECTION" => TellOutcome(p, q)
    BY DEF CloseFailed
  <2>3. mode \in {"CONNECTED", "DISCONNECT_ASAP", "DISCONNECT_ON_NO_ACK"} => TellLost(p, q)
    BY DEF CloseFailed
  <2>4. mode \notin {"REQUESTED_CONNECTION", "CONNECTED", "DISCONNECT_ASAP",
                     "DISCONNECT_ON_NO_ACK"} => UNCHANGED <<unanswered, told>>
    BY DEF CloseFailed
  <2>. QED BY <1>1, <2>1, <2>2, <2>3, <2>4 DEF ConnectMode, Connecting, Disconnecting
<1>. QED BY <1>2, RemoteOutcome

\* A message of a connection that ends a handshake is reported.
LEMMA HandledModes ==
  ASSUME NEW r \in RemoteSystem, NEW m \in ConnectionMessage, NEW s, HandledAs(r, m, s)
  PROVE  \/ r.connectMode \in {"UNVERIFIED_SENDER", "HANDLING_CONNECTION_REQUEST"}
         \/ r.connectMode = "REQUESTED_CONNECTION" /\ m \in Requests
         \/ r.connectMode = "REQUESTED_CONNECTION" /\ s.connectMode = "CONNECTED"
         \/ s.connectMode = "DISCONNECT_ON_NO_ACK"
         \/ /\ r.connectMode = "REQUESTED_CONNECTION" /\ m = "INVALID_PASSWORD"
            /\ s.connectMode = "DISCONNECT_ASAP_SILENTLY"
         \/ s.connectMode = r.connectMode
<1>1. CASE s = Sent(r, "CONNECTION_REQUEST_ACCEPTED")
  BY <1>1, SentFacts DEF ConnectionMessage
<1>2. CASE s = Sent(WithMode(r, "CONNECTED"), "NEW_INCOMING_CONNECTION")
           /\ r.connectMode = "REQUESTED_CONNECTION"
  <2>1. WithMode(r, "CONNECTED") \in RemoteSystem
        /\ WithMode(r, "CONNECTED").connectMode = "CONNECTED"
    BY WithModeFacts DEF ConnectMode
  <2>2. s.connectMode = "CONNECTED"
    BY <1>2, <2>1, SentFacts DEF ConnectionMessage
  <2>. QED BY <1>2, <2>2
<1>3. CASE s = WithMode(r, "DISCONNECT_ON_NO_ACK")
  BY <1>3, WithModeFacts DEF ConnectMode, Disconnecting
<1>4. CASE /\ r.connectMode = "REQUESTED_CONNECTION" /\ m = "INVALID_PASSWORD"
           /\ s = WithMode(r, "DISCONNECT_ASAP_SILENTLY")
  BY <1>4, WithModeFacts DEF ConnectMode, Disconnecting
<1>. QED BY <1>1, <1>2, <1>3, <1>4 DEF HandledAs

LEMMA ReceiveTells ==
  ASSUME ConnectionIInv, NEW p \in Peer, NEW q \in Peer, ReceiveMessage(p, q)
  PROVE  OutcomesAreTold' /\ TellingIsTyped'
<1> DEFINE s == remoteSystemList[q][p]
           r == remoteSystemList[p][q]
           m == s.out[s.acked + 1]
           after == remoteSystemList'[p][q]
           Tells == IF r.connectMode # "CONNECTED" /\ after.connectMode = "CONNECTED"
                    THEN TellConnected(p, q)
                    ELSE IF m = "INVALID_PASSWORD" /\ r.connectMode = "REQUESTED_CONNECTION"
                    THEN TellOutcome(p, q)
                    ELSE UNCHANGED <<unanswered, told>>
           Same == after.connectMode = r.connectMode /\ UNCHANGED <<unanswered, told>>
           Changed(read) == /\ read.connectMode = r.connectMode
                            /\ read.weInitiatedTheConnection = r.weInitiatedTheConnection
                            /\ HandledAs(read, m, after)
                            /\ Tells
                            /\ m \in Requests /\ r.weInitiatedTheConnection => <<p, q>> \in excused'
<1>1. GoodRemote(p, q, r) /\ r.connectMode # "INACTIVE"
  BY DEF ConnectionIInv, RemotesAreGood, ReceiveMessage, IsActive
<1>2. /\ m \in ConnectionMessage
      /\ \A a, b \in Peer :
           <<a, b>> \notin {<<p, q>>, <<q, p>>}
             => remoteSystemList'[a][b] = remoteSystemList[a][b]
      /\ remoteSystemList'[q][p] = [s EXCEPT !.acked = s.acked + 1]
      /\ Same \/ \E read \in RemoteSystem : Changed(read)
      /\ excused \subseteq excused'
  BY ReceiveFacts DEF ConnectionIInv
<1>3. remoteSystemList'[q][p].connectMode = s.connectMode
  <2>1. s \in RemoteSystem
    BY DEF ConnectionIInv, RemotesAreGood
  <2>. QED BY <1>2, <2>1 DEF RemoteSystem
<1>4. UNCHANGED requestedConnectionQueue
  BY NetworkThreadLeaves
<1>5. TellingIsTyped
  BY DEF ConnectionIInv, ConnectionTypeOK, TellingIsTyped
<1>6. \/ TellOutcome(p, q) \/ TellConnected(p, q) \/ UNCHANGED <<unanswered, told>>
  BY <1>2
<1>7. /\ TellingIsTyped'
      /\ q \in unanswered'[p] => q \in unanswered[p]
      /\ \A a, b \in Peer : <<a, b>> # <<p, q>>
              => /\ b \in unanswered'[a] => b \in unanswered[a]
                 /\ b \in told'[a] => b \in told[a]
      /\ TellOutcome(p, q) => /\ q \notin unanswered'[p]
                              /\ q \in told'[p] => q \in told[p]
      /\ TellConnected(p, q) => q \notin unanswered'[p]
      /\ UNCHANGED <<unanswered, told>> => (q \in told'[p] => q \in told[p])
  BY <1>5, <1>6, TellFacts
<1>8. ASSUME NEW a \in Peer, NEW b \in Peer, <<a, b>> # <<p, q>> PROVE Kept(a, b)
  <2>1. remoteSystemList'[a][b].connectMode = remoteSystemList[a][b].connectMode
    <3>1. CASE <<a, b>> = <<q, p>>
      BY <1>3, <3>1
    <3>2. CASE <<a, b>> # <<q, p>>
      BY <1>2, <1>8, <3>2
    <3>. QED BY <3>1, <3>2
  <2>. QED BY <1>2, <1>4, <1>7, <1>8, <2>1 DEF Kept
<1> HIDE DEF m, s, r, after
<1>9. Outcome(p, q) => Outcome(p, q)'
  <2>1. CASE Same
    BY <1>2, <1>4, <1>7, <2>1 DEF Outcome, IsPending, r, after
  <2>2. ASSUME NEW read \in RemoteSystem, Changed(read), Outcome(p, q)
        PROVE  Outcome(p, q)'
    <3> DEFINE was == r.connectMode
               is == after.connectMode
    <3>1. \/ was \in {"UNVERIFIED_SENDER", "HANDLING_CONNECTION_REQUEST"}
          \/ was = "REQUESTED_CONNECTION" /\ m \in Requests
          \/ was = "REQUESTED_CONNECTION" /\ is = "CONNECTED"
          \/ is = "DISCONNECT_ON_NO_ACK"
          \/ was = "REQUESTED_CONNECTION" /\ m = "INVALID_PASSWORD" /\ is = "DISCONNECT_ASAP_SILENTLY"
          \/ is = was
      BY <1>2, <2>2, HandledModes
    <3>2. was = "REQUESTED_CONNECTION" => r.weInitiatedTheConnection
      BY <1>1 DEF GoodRemote
    <3>3. was = "REQUESTED_CONNECTION" /\ m \in Requests => <<p, q>> \in excused'
      BY <2>2, <3>2
    <3>4. /\ q \in told[p] =>
               \/ was \in {"CONNECTED", "DISCONNECT_ASAP", "DISCONNECT_ON_NO_ACK"}
               \/ <<p, q>> \in excused
          /\ q \in unanswered[p] =>
               \/ IsPending(p, q)
               \/ was \in {"REQUESTED_CONNECTION", "DISCONNECT_ASAP", "DISCONNECT_ON_NO_ACK"}
               \/ <<p, q>> \in excused
      BY <2>2 DEF Outcome, r
    <3>5. /\ is = "CONNECTED" /\ was # "CONNECTED" => TellConnected(p, q)
          /\ was = "REQUESTED_CONNECTION" /\ m = "INVALID_PASSWORD" /\ is # "CONNECTED"
               => TellOutcome(p, q)
      BY <2>2
    <3> HIDE DEF was, is
    <3>6. q \in told'[p] =>
               \/ is \in {"CONNECTED", "DISCONNECT_ASAP", "DISCONNECT_ON_NO_ACK"}
               \/ <<p, q>> \in excused'
      BY <1>2, <1>7, <2>2, <3>1, <3>3, <3>4 DEF is, was
    <3>7. q \in unanswered'[p] =>
               \/ IsPending(p, q)
               \/ is \in {"REQUESTED_CONNECTION", "DISCONNECT_ASAP", "DISCONNECT_ON_NO_ACK"}
               \/ <<p, q>> \in excused'
      BY <1>2, <1>7, <3>1, <3>3, <3>4, <3>5
    <3>. QED BY <1>4, <3>6, <3>7 DEF Outcome, IsPending, is, after
  <2>. QED BY <1>2, <2>1, <2>2
<1>. QED BY <1>5, <1>7, <1>8, <1>9, OneOutcome DEF ConnectionIInv

\* A reply ends the request: a request of the connection has been sent in its
\* place, or there is no place for the remote system.
LEMMA ReplyTells ==
  ASSUME ConnectionIInv, NEW p \in Peer, NEW m \in offline, OnOpenConnectionReply2(p, m)
  PROVE  OutcomesAreTold' /\ TellingIsTyped'
<1> DEFINE q == m.from
           r == IF IsActive(p, q) THEN remoteSystemList[p][q] ELSE Assigned(m.guid)
           asked == Sent([r EXCEPT !.weInitiatedTheConnection = TRUE,
                                   !.connectMode = "REQUESTED_CONNECTION"],
                         ConnectionRequest(p))
<1>1. q \in Peer /\ p # q /\ m.guid \in Nat
  BY DEF ConnectionIInv, NobodyAsksItself, OnOpenConnectionReply2
<1>2. GoodRemote(p, q, r)
  BY <1>1, AssignedIsGood DEF ConnectionIInv, RemotesAreGood
<1>3. \/ UNCHANGED <<requestedConnectionQueue, remoteSystemList, unanswered, told, excused>>
      \/ /\ Unrequest(p, q) /\ TellOutcome(p, q) /\ UNCHANGED remoteSystemList
         /\ excused \subseteq excused'
      \/ /\ Unrequest(p, q) /\ SetRemote(p, q, asked) /\ UNCHANGED <<unanswered, told>>
         /\ excused' = IF IsActive(p, q) THEN excused \cup {<<p, q>>} ELSE excused
  BY DEF OnOpenConnectionReply2
<1> HIDE DEF r
<1>4. asked.connectMode = "REQUESTED_CONNECTION"
  BY <1>1, <1>2, RequestedIsGood
<1> HIDE DEF asked, q
<1>5. TellingIsTyped /\ OutcomesAreTold
  BY DEF ConnectionIInv, ConnectionTypeOK, TellingIsTyped
<1>6. CASE UNCHANGED <<requestedConnectionQueue, remoteSystemList, unanswered, told, excused>>
  BY <1>5, <1>6 DEF TellingIsTyped, OutcomesAreTold, ConnectionsEndAloud, AttemptsAreRemembered,
                    IsPending
<1>7. CASE /\ Unrequest(p, q) /\ SetRemote(p, q, asked) /\ UNCHANGED <<unanswered, told>>
           /\ excused' = IF IsActive(p, q) THEN excused \cup {<<p, q>>} ELSE excused
  <2>1. /\ remoteSystemList'[p][q] = asked
        /\ \A a, b \in Peer : <<a, b>> # <<p, q>>
             => /\ remoteSystemList'[a][b] = remoteSystemList[a][b]
                /\ requestedConnectionQueue'[a][b] = requestedConnectionQueue[a][b]
    BY <1>1, <1>7, OtherSystems
  <2>2. \A a, b \in Peer : <<a, b>> # <<p, q>> => Kept(a, b)
    BY <1>7, <2>1 DEF Kept
  <2>3. Outcome(p, q) => Outcome(p, q)'
    BY <1>4, <1>7, <2>1 DEF Outcome, IsActive
  <2>4. TellingIsTyped'
    BY <1>5, <1>7 DEF TellingIsTyped
  <2>. QED BY <1>1, <1>5, <2>2, <2>3, <2>4, OneOutcome
<1>. QED BY <1>1, <1>3, <1>6, <1>7, ToldOutcome

LEMMA NextTells ==
  ASSUME ConnectionIInv, ConnectionNext PROVE OutcomesAreTold' /\ TellingIsTyped'
<1> DEFINE Told == OutcomesAreTold' /\ TellingIsTyped'
<1>1. TellingIsTyped /\ OutcomesAreTold /\ NobodyAsksItself
  BY DEF ConnectionIInv, ConnectionTypeOK, TellingIsTyped
<1>2. ASSUME UNCHANGED <<unanswered, told, remoteSystemList, requestedConnectionQueue>>,
             excused \subseteq excused'
      PROVE  Told
  BY <1>1, <1>2 DEF TellingIsTyped, OutcomesAreTold, ConnectionsEndAloud, AttemptsAreRemembered,
                    IsPending
<1>3. ASSUME NEW p \in Peer, NEW q \in Peer, Connect(p, q) PROVE Told
  <2>1. /\ TellingIsTyped'
        /\ q \in told'[p] => q \in told[p]
        /\ \A a, b \in Peer : <<a, b>> # <<p, q>>
             => (b \in unanswered'[a] => b \in unanswered[a]) /\ (b \in told'[a] => b \in told[a])
    BY <1>1, <1>3 DEF Connect, TellingIsTyped
  <2>2. /\ requestedConnectionQueue'[p][q] = 0
        /\ \A a, b \in Peer : <<a, b>> # <<p, q>>
             => requestedConnectionQueue'[a][b] = requestedConnectionQueue[a][b]
        /\ UNCHANGED <<remoteSystemList, excused>>
    BY <1>1, <1>3 DEF Connect, NobodyAsksItself
  <2>3. \A a, b \in Peer : <<a, b>> # <<p, q>> => Kept(a, b)
    BY <2>1, <2>2 DEF Kept
  <2>4. Outcome(p, q) => Outcome(p, q)'
    BY <2>1, <2>2 DEF Outcome, IsPending, NotRequested
  <2>. QED BY <1>1, <2>1, <2>3, <2>4, OneOutcome
<1>4. ASSUME NEW p \in Peer, NEW q \in Peer, CancelConnectionAttempt(p, q) PROVE Told
  <2>1. /\ TellOutcome(p, q) /\ Unrequest(p, q) /\ UNCHANGED <<remoteSystemList, excused>>
    BY <1>4 DEF CancelConnectionAttempt
  <2>. QED BY <2>1, ToldOutcome
<1>5. ASSUME NEW p \in Peer, NEW q \in Peer, NEW notify \in BOOLEAN,
             CloseConnection(p, q, notify)
      PROVE  Told
  <2>1. /\ UNCHANGED <<remoteSystemList, requestedConnectionQueue>> /\ excused \subseteq excused'
        /\ \/ TellOutcome(p, q)
           \/ TellLost(p, q)
    BY <1>5 DEF CloseConnection
  <2>2. CASE TellOutcome(p, q)
    BY <2>1, <2>2, ToldOutcome
  <2>3. CASE TellLost(p, q)
    <3>1. remoteSystemList[p][q] = remoteSystemList[p][q]
          /\ SetRemote(p, q, remoteSystemList[p][q])
      BY <2>1 DEF SetRemote, ConnectionIInv, RemotesAreGood
    <3>. QED BY <2>1, <2>3, <3>1, RemoteOutcome
  <2>. QED BY <2>1, <2>2, <2>3
<1>6. ASSUME NEW p \in Peer, NEW q \in Peer, RequestConnection(p, q) PROVE Told
  <2>1. CASE requestedConnectionQueue[p][q] = MaxRequestsMade
    <3>1. /\ TellOutcome(p, q) /\ Unrequest(p, q) /\ UNCHANGED <<remoteSystemList, excused>>
      BY <1>6, <2>1 DEF RequestConnection
    <3>. QED BY <3>1, ToldOutcome
  <2>2. CASE requestedConnectionQueue[p][q] # MaxRequestsMade
    <3> DEFINE n == requestedConnectionQueue[p][q]
    <3>1. /\ requestedConnectionQueue' = [requestedConnectionQueue EXCEPT ![p][q] = n + 1]
          /\ UNCHANGED <<unanswered, told, remoteSystemList, excused>>
      BY <1>6, <2>2 DEF RequestConnection
    <3>2. n \in -1 .. MaxRequestsMade /\ n # -1 /\ MaxRequestsMade \in Nat
      BY <1>1, <1>6, ConnectionAssumption
         DEF RequestConnection, IsPending, NobodyAsksItself, NotRequested
    <3> HIDE DEF n
    <3>3. n + 1 # -1
      BY <3>2
    <3>4. /\ requestedConnectionQueue'[p][q] = n + 1
          /\ \A a, b \in Peer : <<a, b>> # <<p, q>>
               => requestedConnectionQueue'[a][b] = requestedConnectionQueue[a][b]
      BY <1>1, <3>1 DEF NobodyAsksItself
    <3>5. \A a, b \in Peer : <<a, b>> # <<p, q>> => Kept(a, b)
      BY <3>1, <3>4 DEF Kept
    <3>6. Outcome(p, q) => Outcome(p, q)'
      BY <3>1, <3>3, <3>4 DEF Outcome, IsPending, NotRequested
    <3>7. TellingIsTyped'
      BY <1>1, <3>1 DEF TellingIsTyped
    <3>. QED BY <1>1, <3>5, <3>6, <3>7, OneOutcome
  <2>. QED BY <2>1, <2>2
<1>7. ASSUME NEW p \in Peer, RunCommand(p) PROVE Told
  <2> DEFINE c == Head(bufferedCommands[p])
             q == c.target
             r == remoteSystemList[p][q]
             closing == WithMode(Sent(r, "DISCONNECTION_NOTIFICATION"), "DISCONNECT_ASAP")
  <2>1. bufferedCommands[p] \in Seq(Command) /\ bufferedCommands[p] # <<>>
    BY <1>7 DEF RunCommand, CommandsAreExcused, ConnectionIInv
  <2>2. c \in Command /\ c = bufferedCommands[p][1] /\ 1 \in 1 .. Len(bufferedCommands[p])
    BY <2>1, QueueFacts
  <2>3. q \in Peer /\ (c.notify \/ <<p, q>> \in excused)
    BY <2>2 DEF Command, ConnectionIInv, CommandsAreExcused
  <2>4. SetRemote(p, q, IF c.notify /\ IsActive(p, q) THEN closing ELSE Inactive)
    BY <1>7 DEF RunCommand
  <2>5. UNCHANGED <<requestedConnectionQueue, unanswered, told, excused>>
    BY <1>7, NetworkThreadLeaves
  <2>6. r \in RemoteSystem
    BY <2>3 DEF ConnectionIInv, RemotesAreGood
  <2> HIDE DEF c, q, r
  <2>7. closing.connectMode = "DISCONNECT_ASAP"
    BY <2>6, SentFacts, WithModeFacts DEF ConnectionMessage, ConnectMode, Disconnecting
  <2> HIDE DEF closing
  <2>8. CASE c.notify /\ IsActive(p, q)
    BY <2>3, <2>4, <2>5, <2>7, <2>8, RemoteOutcome
  <2>9. CASE c.notify /\ ~IsActive(p, q)
    <3>1. SetRemote(p, q, Inactive) /\ remoteSystemList[p][q].connectMode = "INACTIVE"
      BY <2>4, <2>9 DEF IsActive
    <3>. QED BY <2>3, <2>5, <3>1, RemoteOutcome
  <2>10. CASE ~c.notify
    <3>1. SetRemote(p, q, Inactive)
      BY <2>4, <2>10
    <3>. QED BY <2>3, <2>5, <2>10, <3>1, RemoteOutcome
  <2>. QED BY <2>8, <2>9, <2>10
<1>8. ASSUME NEW p \in Peer, Restart(p) PROVE Told
  <2>1. /\ unanswered' = [unanswered EXCEPT ![p] = {}] /\ told' = [told EXCEPT ![p] = {}]
        /\ requestedConnectionQueue'
             = [requestedConnectionQueue EXCEPT ![p] = [q \in Peer |-> NotRequested]]
        /\ remoteSystemList' = [remoteSystemList EXCEPT ![p] = [q \in Peer |-> Inactive]]
        /\ excused' = {x \in excused : x[1] # p}
    BY <1>8 DEF Restart
  <2>2. TellingIsTyped' /\ unanswered'[p] = {} /\ told'[p] = {}
    BY <1>1, <2>1 DEF TellingIsTyped
  <2>3. \A a, b \in Peer : a # p => Kept(a, b)
    BY <1>1, <2>1 DEF Kept, TellingIsTyped, NobodyAsksItself, RemotesAreGood, ConnectionIInv
  <2>4. \A b \in Peer : Outcome(p, b)'
    BY <2>2 DEF Outcome
  <2>5. \A a, b \in Peer : a # p => Outcome(a, b)'
    BY <1>1, <2>3 DEF Outcome, Kept, IsPending, OutcomesAreTold, ConnectionsEndAloud,
                      AttemptsAreRemembered
  <2>6. \A a, b \in Peer : Outcome(a, b)'
    BY <2>4, <2>5
  <2>7. \A a \in Peer : unanswered'[a] \subseteq Peer /\ told'[a] \subseteq Peer
    BY <2>2 DEF TellingIsTyped
  <2>. QED BY <2>2, <2>6, <2>7
           DEF Outcome, OutcomesAreTold, ConnectionsEndAloud, AttemptsAreRemembered
<1>9. ASSUME NEW p \in Peer, NEW m \in offline, OnOpenConnectionRequest2(p, m) PROVE Told
  <2>1. UNCHANGED <<requestedConnectionQueue, unanswered, told, excused>>
    BY <1>9, NetworkThreadLeaves
  <2>2. m.from \in Peer
    BY <1>1 DEF NobodyAsksItself
  <2>3. CASE UNCHANGED remoteSystemList
    BY <1>2, <2>1, <2>3
  <2>4. CASE SetRemote(p, m.from, Assigned(m.guid)) /\ ~IsActive(p, m.from)
    <3>1. remoteSystemList[p][m.from].connectMode = "INACTIVE"
      BY <2>4 DEF IsActive
    <3>. QED BY <2>1, <2>2, <2>4, <3>1, RemoteOutcome
  <2>. QED BY <1>9, <2>3, <2>4 DEF OnOpenConnectionRequest2
<1>10. ASSUME NEW p \in Peer, NEW m \in offline, OnRefusal(p, m) PROVE Told
  <2>1. m.from \in Peer
    BY <1>1 DEF NobodyAsksItself
  <2>2. /\ UNCHANGED <<remoteSystemList, excused>>
        /\ \/ Unrequest(p, m.from) /\ TellOutcome(p, m.from)
           \/ UNCHANGED <<requestedConnectionQueue, unanswered, told>>
    BY <1>10 DEF OnRefusal
  <2>. QED BY <1>2, <2>1, <2>2, ToldOutcome
<1>11. ASSUME NEW p \in Peer, NEW q \in Peer,
              ConnectionDies(p, q) \/ ConnectionEnds(p, q) \/ HandshakeTimesOut(p, q)
       PROVE  Told
  BY <1>11, NetworkThreadLeaves, CloseFailedTells
<1>12. ASSUME NEW p \in Peer, NEW q \in Peer,
              OnOpenConnectionReply1(p, q) \/ BanExpires(p, q)
       PROVE  Told
  BY <1>2, <1>12, NetworkThreadLeaves DEF OnOpenConnectionReply1
<1>13. ASSUME NEW p \in Peer, NEW m \in offline, OnOpenConnectionReply2(p, m) PROVE Told
  BY <1>13, ReplyTells
<1> HIDE DEF Told
<1>14. Told
  BY <1>3, <1>4, <1>5, <1>6, <1>7, <1>8, <1>9, <1>10, <1>11, <1>12, <1>13, ReceiveTells
     DEF ConnectionNext, NetworkThread, Told
<1>. QED BY <1>14 DEF Told

-----------------------------------------------------------------------------
(* The inductive invariant *)

LEMMA NextTypes ==
  ASSUME ConnectionIInv, ConnectionNext PROVE ConnectionTypeOK'
<1>1. RemotesAreGood' /\ NobodyAsksItself' /\ TellingIsTyped'
  BY NextRemotes, NextRequests, NextTells
<1>2. ASSUME NEW p \in Peer, NEW q \in Peer
      PROVE  /\ remoteSystemList'[p][q] \in RemoteSystem
             /\ remoteSystemList'[p][q].acked <= Len(remoteSystemList'[p][q].out)
             /\ IsActive(p, q)' => p # q
  <2>1. GoodRemote(p, q, remoteSystemList[p][q])'
    BY <1>1 DEF RemotesAreGood
  <2>. QED BY <2>1 DEF GoodRemote, IsActive
<1>3. banned' \in [Peer -> SUBSET Peer] /\ excused' \subseteq Peer \X Peer
  <2>1. banned \in [Peer -> SUBSET Peer] /\ excused \subseteq Peer \X Peer
    BY DEF ConnectionIInv, ConnectionTypeOK
  <2>2. ASSUME UNCHANGED banned, UNCHANGED excused
        PROVE  banned' \in [Peer -> SUBSET Peer] /\ excused' \subseteq Peer \X Peer
    BY <2>1, <2>2
  <2>3. ASSUME NEW p \in Peer, NEW q \in Peer, ReceiveMessage(p, q)
        PROVE  banned' \in [Peer -> SUBSET Peer] /\ excused' \subseteq Peer \X Peer
    <3>1. excused' \subseteq excused \cup {<<p, q>>}
      BY <2>3, ReceiveFacts DEF ConnectionIInv
    <3>2. \E b \in {TRUE, FALSE} :
            banned' = [banned EXCEPT ![p] = IF b THEN banned[p] \cup {q} ELSE banned[p]]
      BY <2>3, Zenon DEF ReceiveMessage
    <3>. QED BY <2>1, <3>1, <3>2
  <2>4. ASSUME NEW p \in Peer, NEW q \in Peer,
               \/ Connect(p, q) \/ CancelConnectionAttempt(p, q)
               \/ \E notify \in BOOLEAN : CloseConnection(p, q, notify)
               \/ RequestConnection(p, q) \/ OnOpenConnectionReply1(p, q)
               \/ BanExpires(p, q)
        PROVE  banned' \in [Peer -> SUBSET Peer] /\ excused' \subseteq Peer \X Peer
    <3>1. /\ \/ UNCHANGED banned
             \/ banned' = [banned EXCEPT ![p] = @ \ {q}]
          /\ excused' = excused \/ excused' = excused \cup {<<p, q>>}
      BY <2>4 DEF Connect, CancelConnectionAttempt, CloseConnection, RequestConnection,
                  OnOpenConnectionReply1, BanExpires
    <3>. QED BY <2>1, <3>1
  <2>5. ASSUME NEW p \in Peer, NEW q \in Peer,
               ConnectionDies(p, q) \/ ConnectionEnds(p, q) \/ HandshakeTimesOut(p, q)
        PROVE  UNCHANGED <<banned, excused>>
    BY <2>5, NetworkThreadLeaves
  <2>6. ASSUME NEW p \in Peer, Restart(p)
        PROVE  banned' \in [Peer -> SUBSET Peer] /\ excused' \subseteq Peer \X Peer
    BY <2>1, <2>6 DEF Restart
  <2>7. ASSUME NEW p \in Peer, RunCommand(p) PROVE UNCHANGED <<banned, excused>>
    BY <2>7, NetworkThreadLeaves
  <2>8. ASSUME NEW p \in Peer, NEW m \in offline,
               \/ OnOpenConnectionRequest2(p, m) \/ OnRefusal(p, m)
        PROVE  UNCHANGED <<banned, excused>>
    BY <2>8, NetworkThreadLeaves DEF OnRefusal
  <2>9. ASSUME NEW p \in Peer, NEW m \in offline, OnOpenConnectionReply2(p, m)
        PROVE  banned' \in [Peer -> SUBSET Peer] /\ excused' \subseteq Peer \X Peer
    <3>1. m.from \in Peer
      BY DEF ConnectionIInv, NobodyAsksItself
    <3>2. UNCHANGED banned /\ excused' \subseteq excused \cup {<<p, m.from>>}
      BY <2>9 DEF OnOpenConnectionReply2
    <3>. QED BY <2>1, <3>1, <3>2
  <2>. QED BY <2>2, <2>3, <2>4, <2>5, <2>6, <2>7, <2>8, <2>9
           DEF ConnectionNext, NetworkThread
<1>. QED BY <1>1, <1>2, <1>3 DEF ConnectionTypeOK, NobodyAsksItself, TellingIsTyped

LEMMA ConnectionInitGood ==
  ASSUME ConnectionInit PROVE ConnectionIInv
<1>1. \A p, q \in Peer : GoodRemote(p, q, Inactive) /\ Inactive \in RemoteSystem
  BY InactiveIsGood DEF GoodRemote
<1>2. RemotesAreGood
  BY <1>1, ConnectionAssumption DEF ConnectionInit, RemotesAreGood
<1>3. NobodyAsksItself
  BY ConnectionAssumption DEF ConnectionInit, NobodyAsksItself, IsPending, NotRequested
<1>4. CommandsAreExcused
  <2>1. <<>> \in Seq(Command) /\ Len(<<>>) = 0
    OBVIOUS
  <2>. QED BY <2>1 DEF ConnectionInit, CommandsAreExcused
<1>5. OutcomesAreTold
  BY DEF ConnectionInit, OutcomesAreTold, ConnectionsEndAloud, AttemptsAreRemembered
<1>6. ConnectionTypeOK
  BY <1>1, <1>3 DEF ConnectionInit, ConnectionTypeOK, NobodyAsksItself, IsActive, GoodRemote
<1>. QED BY <1>2, <1>3, <1>4, <1>5, <1>6 DEF ConnectionIInv

LEMMA ConnectionInductive ==
  ASSUME ConnectionIInv, [ConnectionNext]_connectionVars PROVE ConnectionIInv'
<1>1. CASE ConnectionNext
  BY <1>1, NextRemotes, NextRequests, NextCommands, NextTells, NextTypes DEF ConnectionIInv
<1>2. CASE UNCHANGED connectionVars
  BY <1>2 DEF connectionVars, ConnectionIInv, ConnectionTypeOK, RemotesAreGood, GoodRemote,
              NobodyAsksItself, CommandsAreExcused, OutcomesAreTold, ConnectionsEndAloud,
              AttemptsAreRemembered, IsPending, IsActive
<1>. QED BY <1>1, <1>2

\* The inductive invariant of connections, whatever the scheduling.
THEOREM Invariant == ConnectionSpec => []ConnectionIInv
<1>1. ConnectionInit => ConnectionIInv
  BY ConnectionInitGood
<1>2. ConnectionIInv /\ [ConnectionNext]_connectionVars => ConnectionIInv'
  BY ConnectionInductive
<1>. QED BY <1>1, <1>2, PTL DEF ConnectionSpec

\* Whoever was told of a connection has it until it is told of its end, and
\* whoever called Connect has an attempt that is under way until it is told the
\* outcome: the handlers of RakPeer.cpp lose neither, for any number of systems
\* that ask, close, cancel, refuse, time out and restart in any order.
THEOREM Outcomes == ConnectionSpec => []OutcomesAreTold
<1>1. ConnectionIInv => OutcomesAreTold
  BY DEF ConnectionIInv
<1>. QED BY <1>1, Invariant, PTL

\* ParseConnectionRequestPacket lets in nobody that has a wrong password, in
\* whichever mode the request finds the remote system, and however the requests
\* of both sides meet.
THEOREM Passwords == ConnectionSpec => []PasswordsMatch
<1>1. ConnectionIInv => PasswordsMatch
  BY DEF ConnectionIInv, RemotesAreGood, GoodRemote, PasswordsMatch
<1>. QED BY <1>1, Invariant, PTL

\* A remote system is what the code keeps, no more has been acknowledged than
\* was sent, and no system has a connection with itself.
THEOREM Types == ConnectionSpec => []ConnectionTypeOK
<1>1. ConnectionIInv => ConnectionTypeOK
  BY DEF ConnectionIInv
<1>. QED BY <1>1, Invariant, PTL

-----------------------------------------------------------------------------
(***************************************************************************)
(* NatTypeDetection: for any number of clients and detections, whatever    *)
(* their NATs are, and whichever datagrams are lost, late or repeated.     *)
(***************************************************************************)

-----------------------------------------------------------------------------
(* Types of NAT and messages *)

\* The order of the types, from the friendliest.
LEMMA Ranks ==
  /\ Rank("NONE") = 1 /\ Rank("FULL_CONE") = 2 /\ Rank("ADDRESS_RESTRICTED") = 3
  /\ Rank("PORT_RESTRICTED") = 4 /\ Rank("SYMMETRIC") = 5
BY DEF Rank, NatTypes

LEMMA KindsAreTypes ==
  /\ {NatTypes[i] : i \in 1 .. 5}
       = {"NONE", "FULL_CONE", "ADDRESS_RESTRICTED", "PORT_RESTRICTED", "SYMMETRIC"}
  /\ \A t \in NatKind :
       t \in {"NONE", "FULL_CONE", "ADDRESS_RESTRICTED", "PORT_RESTRICTED", "SYMMETRIC"}
BY DetectionAssumption DEF NatTypes

\* What a datagram that has passed the NAT says of it.
LEMMA PassesIsTrue ==
  ASSUME NatTypeOK, NEW c \in Client, NEW type \in {"NONE", "FULL_CONE", "ADDRESS_RESTRICTED"},
         Passes(c, type)
  PROVE  Rank(type) >= Rank(natType[c])
<1>1. natType[c] \in {"NONE", "FULL_CONE", "ADDRESS_RESTRICTED", "PORT_RESTRICTED", "SYMMETRIC"}
  BY KindsAreTypes DEF NatTypeOK
<1>. QED BY <1>1, Ranks DEF Passes

\* No message is both a result and a test, or both to and from a client.
LEMMA MessagesDiffer ==
  ASSUME NEW c, NEW b, NEW try, NEW port, NEW type, NEW same, NEW result
  PROVE  /\ [to |-> c, try |-> try, c2Port |-> port] \notin DetectionResult(b)
         /\ [to |-> c, type |-> type, c2Port |-> port] \notin ToS3P4(b)
         /\ [from |-> c, same |-> same] \in ToS3P4(b) => b = c
         /\ [to |-> c, result |-> result, c2Port |-> port] \in DetectionResult(b) => b = c
BY DEF DetectionResult, ToS3P4

LEMMA MessagesTyped ==
  ASSUME NEW c \in Client, NEW port \in 1 .. MaxDetections
  PROVE  /\ \A b \in BOOLEAN : [from |-> c, isRequest |-> b, c2Port |-> port]
              \in UNION {DetectionRequest(a) \cup DetectionDone(a) : a \in Client}
         /\ \A r \in {"PORT_RESTRICTED", "SYMMETRIC"} : [to |-> c, result |-> r, c2Port |-> port]
              \in UNION {DetectionResult(a) \cup PortTest(a) : a \in Client}
         /\ \A n \in {7, 8} : [to |-> c, try |-> n, c2Port |-> port]
              \in UNION {DetectionResult(a) \cup PortTest(a) : a \in Client}
         /\ \A t \in {"NONE", "FULL_CONE", "ADDRESS_RESTRICTED"} :
              [to |-> c, type |-> t, c2Port |-> port]
                \in UNION {ProbeTo(a) \cup ToS3P4(a) : a \in Client}
         /\ \A b \in BOOLEAN : [from |-> c, same |-> b]
              \in UNION {ProbeTo(a) \cup ToS3P4(a) : a \in Client}
<1>1. \A b \in BOOLEAN : [from |-> c, isRequest |-> b, c2Port |-> port]
        \in DetectionRequest(c) \cup DetectionDone(c)
  BY DEF DetectionRequest, DetectionDone
<1>2. \A r \in {"PORT_RESTRICTED", "SYMMETRIC"} : [to |-> c, result |-> r, c2Port |-> port]
        \in DetectionResult(c)
  BY DEF DetectionResult
<1>3. \A n \in {7, 8} : [to |-> c, try |-> n, c2Port |-> port] \in PortTest(c)
  BY DEF PortTest
<1>4. \A t \in {"NONE", "FULL_CONE", "ADDRESS_RESTRICTED"} :
        [to |-> c, type |-> t, c2Port |-> port] \in ProbeTo(c)
  BY DEF ProbeTo
<1>5. \A b \in BOOLEAN : [from |-> c, same |-> b] \in ToS3P4(c)
  BY DEF ToS3P4
<1>. QED BY <1>1, <1>2, <1>3, <1>4, <1>5

-----------------------------------------------------------------------------
(* One step: the client *)

LEMMA CompletionKeeps ==
  ASSUME NatTypeIInv, NEW c \in Client, detection[c] # 0,
         NEW result \in {"NONE", "FULL_CONE", "ADDRESS_RESTRICTED", "PORT_RESTRICTED", "SYMMETRIC"},
         Rank(result) >= Rank(natType[c]), OnCompletion(c, result),
         UNCHANGED <<natType, link, started, undisturbed, natDetectionAttempts, probes>>,
         answers' \subseteq answers
  PROVE  NatTypeIInv'
<1>1. NatTypeOK /\ ResultsOnTheirWay /\ NeverTooFriendly
  BY DEF NatTypeIInv
<1>2. /\ detection' = [detection EXCEPT ![c] = 0] /\ c2Received' = c2Received \ {c}
      /\ results' = [results EXCEPT ![c] = @ \cup {result}]
  BY DEF OnCompletion, StopDetection
<1>3. detection[c] \in 1 .. MaxDetections
  BY <1>1, DetectionAssumption DEF NatTypeOK
<1>4. testRequests' \subseteq UNION {DetectionRequest(b) \cup DetectionDone(b) : b \in Client}
  <2>1. [from |-> c, isRequest |-> FALSE, c2Port |-> detection[c]]
          \in UNION {DetectionRequest(b) \cup DetectionDone(b) : b \in Client}
    BY <1>3, MessagesTyped
  <2>. QED BY <1>1, <2>1 DEF OnCompletion, NatTypeOK
<1>5. results' \in [Client -> SUBSET {NatTypes[i] : i \in 1 .. 5}]
  BY <1>1, <1>2, KindsAreTypes DEF NatTypeOK
<1>6. /\ detection' \in [Client -> 0 .. MaxDetections]
      /\ c2Received' \subseteq {b \in Client : detection'[b] # 0}
  BY <1>1, <1>2, DetectionAssumption DEF NatTypeOK
<1>7. NatTypeOK'
  BY <1>1, <1>4, <1>5, <1>6 DEF NatTypeOK
<1>8. ResultsOnTheirWay'
  BY <1>1, <1>2 DEF ResultsOnTheirWay
<1>9. NeverTooFriendly'
  <2>1. results \in [Client -> SUBSET {NatTypes[i] : i \in 1 .. 5}]
    BY <1>1 DEF NatTypeOK
  <2>. QED BY <1>1, <1>2, <2>1 DEF NeverTooFriendly
<1>. QED BY <1>7, <1>8, <1>9 DEF NatTypeIInv

\* Each way in which a detection ends reports what the NAT is, or worse.
LEMMA ClientCompletes ==
  ASSUME NatTypeIInv, NEW c \in Client,
         \/ ClientUpdate(c)
         \/ \E t \in {"FULL_CONE", "ADDRESS_RESTRICTED"} : OnNatTypeDetect(c, t)
         \/ \E m \in answers : detection[c] # 0 /\ OnDetectionResult(c, m)
  PROVE  NatTypeIInv'
<1>1. NatTypeOK /\ ResultsOnTheirWay
  BY DEF NatTypeIInv
<1>2. CASE ClientUpdate(c)
  <2>1. /\ natType[c] = "NONE" /\ OnCompletion(c, "NONE") /\ detection[c] # 0
        /\ UNCHANGED <<natType, link, started, undisturbed, natDetectionAttempts, answers, probes>>
    BY <1>1, <1>2 DEF ClientUpdate, ResultsOnTheirWay
  <2>. QED BY <2>1, Ranks, CompletionKeeps
<1>3. ASSUME NEW t \in {"FULL_CONE", "ADDRESS_RESTRICTED"}, OnNatTypeDetect(c, t)
      PROVE  NatTypeIInv'
  <2>1. Rank(t) >= Rank(natType[c])
    BY <1>1, <1>3, PassesIsTrue DEF OnNatTypeDetect
  <2>. QED BY <1>3, <2>1, CompletionKeeps DEF OnNatTypeDetect
<1>4. ASSUME NEW m \in answers, detection[c] # 0, OnDetectionResult(c, m) PROVE NatTypeIInv'
  <2>1. /\ m \in answers \cap DetectionResult(c) /\ OnCompletion(c, m.result)
        /\ answers' \subseteq answers
        /\ UNCHANGED <<natType, link, started, undisturbed, natDetectionAttempts, probes>>
    BY <1>4 DEF OnDetectionResult
  <2>2. m.result \in {"PORT_RESTRICTED", "SYMMETRIC"}
    BY <2>1 DEF DetectionResult
  <2>3. m.result = "PORT_RESTRICTED" => natType[c] # "SYMMETRIC"
    BY <1>1, <2>1 DEF ResultsOnTheirWay
  <2>4. natType[c] \in {"NONE", "FULL_CONE", "ADDRESS_RESTRICTED", "PORT_RESTRICTED", "SYMMETRIC"}
    BY <1>1, KindsAreTypes DEF NatTypeOK
  <2>5. Rank(m.result) >= Rank(natType[c])
    BY <2>2, <2>3, <2>4, Ranks
  <2>. QED BY <1>4, <2>1, <2>2, <2>5, CompletionKeeps
<1>. QED BY <1>2, <1>3, <1>4

LEMMA ClientKeeps ==
  ASSUME NatTypeIInv, NEW c \in Client,
         \/ DetectNATType(c) \/ OnRNS2Recv(c) \/ ClientLoses(c)
         \/ \E m \in answers : detection[c] = 0 /\ OnDetectionResult(c, m)
         \/ \E m \in answers : OnTestPortRestricted(c, m)
  PROVE  NatTypeIInv'
<1>1. NatTypeOK /\ ResultsOnTheirWay /\ NeverTooFriendly
  BY DEF NatTypeIInv
<1>2. CASE DetectNATType(c)
  <2>1. started[c] + 1 \in 1 .. MaxDetections /\ started' = [started EXCEPT ![c] = started[c] + 1]
    BY <1>1, <1>2, DetectionAssumption DEF DetectNATType, NatTypeOK
  <2>2. started'[c] = started[c] + 1
    BY <1>1, <2>1 DEF NatTypeOK
  <2>3. [from |-> c, isRequest |-> TRUE, c2Port |-> started'[c]]
          \in UNION {DetectionRequest(b) \cup DetectionDone(b) : b \in Client}
    BY <2>1, <2>2, MessagesTyped
  <2>4. testRequests' \subseteq UNION {DetectionRequest(b) \cup DetectionDone(b) : b \in Client}
    BY <1>1, <1>2, <2>3 DEF DetectNATType, NatTypeOK
  <2>5. /\ started' \in [Client -> 0 .. MaxDetections]
        /\ detection' \in [Client -> 0 .. MaxDetections]
        /\ c2Received' \subseteq {b \in Client : detection'[b] # 0}
        /\ undisturbed' \subseteq Client
    BY <1>1, <1>2, <2>1, <2>2 DEF DetectNATType, NatTypeOK
  <2>6. UNCHANGED <<natType, link, c2Received, natDetectionAttempts, answers, probes, results>>
    BY <1>2 DEF DetectNATType
  <2>. QED BY <1>1, <2>4, <2>5, <2>6
           DEF NatTypeIInv, NatTypeOK, ResultsOnTheirWay, NeverTooFriendly
<1>3. CASE OnRNS2Recv(c)
  <2>1. natType[c] = "NONE"
    BY <1>3 DEF OnRNS2Recv, Passes
  <2>. QED BY <1>1, <1>3, <2>1
           DEF OnRNS2Recv, NatTypeIInv, NatTypeOK, ResultsOnTheirWay, NeverTooFriendly
<1>4. CASE ClientLoses(c)
  <2>1. /\ detection' = [detection EXCEPT ![c] = 0] /\ c2Received' = c2Received \ {c}
        /\ link' = [link EXCEPT ![c] = @ \ {"client"}] /\ answers' \subseteq answers
        /\ UNCHANGED <<natType, started, undisturbed, natDetectionAttempts, testRequests, probes,
                       results>>
    BY <1>4 DEF ClientLoses, StopDetection
  <2>2. /\ detection' \in [Client -> 0 .. MaxDetections]
        /\ c2Received' \subseteq {b \in Client : detection'[b] # 0}
        /\ link' \in [Client -> SUBSET {"client", "server"}]
    BY <1>1, <2>1, DetectionAssumption DEF NatTypeOK
  <2>. QED BY <1>1, <2>1, <2>2
           DEF NatTypeIInv, NatTypeOK, ResultsOnTheirWay, NeverTooFriendly
<1>5. ASSUME NEW m \in answers, detection[c] = 0, OnDetectionResult(c, m) PROVE NatTypeIInv'
  <2>1. /\ answers' \subseteq answers
        /\ UNCHANGED <<natType, link, detection, started, undisturbed, c2Received,
                       natDetectionAttempts, testRequests, probes, results>>
    BY <1>5 DEF OnDetectionResult
  <2>. QED BY <1>1, <2>1 DEF NatTypeIInv, NatTypeOK, ResultsOnTheirWay, NeverTooFriendly
<1>6. ASSUME NEW m \in answers, OnTestPortRestricted(c, m) PROVE NatTypeIInv'
  <2> DEFINE answer == [from |-> c, same |-> natType[c] # "SYMMETRIC"]
  <2>1. /\ answers' \subseteq answers /\ probes' \subseteq probes \cup {answer}
        /\ UNCHANGED <<natType, link, detection, started, undisturbed, c2Received,
                       natDetectionAttempts, testRequests, results>>
    BY <1>6 DEF OnTestPortRestricted
  <2>2. answer \in UNION {ProbeTo(b) \cup ToS3P4(b) : b \in Client}
    <3>1. [from |-> c, same |-> natType[c] # "SYMMETRIC"] \in ToS3P4(c)
      BY DEF ToS3P4
    <3>. QED BY <3>1
  <2>3. answer.same => natType[c] # "SYMMETRIC"
    OBVIOUS
  <2>4. \A b : answer \in ToS3P4(b) => b = c
    BY MessagesDiffer
  <2> HIDE DEF answer
  <2>5. NatTypeOK'
    BY <1>1, <2>1, <2>2 DEF NatTypeOK
  <2>6. ResultsOnTheirWay'
    BY <1>1, <2>1, <2>3, <2>4 DEF ResultsOnTheirWay
  <2>. QED BY <1>1, <2>1, <2>5, <2>6 DEF NatTypeIInv, NeverTooFriendly
<1>. QED BY <1>2, <1>3, <1>4, <1>5, <1>6

-----------------------------------------------------------------------------
(* One step: the server *)

\* An attempt ends with what was found, which is what the NAT is, or worse.
LEMMA ResultKeeps ==
  ASSUME NatTypeIInv, NEW c \in Client, InList(c),
         NEW result \in {"PORT_RESTRICTED", "SYMMETRIC"},
         result = "PORT_RESTRICTED" => natType[c] # "SYMMETRIC",
         EndWithResult(c, result),
         UNCHANGED <<natType, link, detection, started, undisturbed, c2Received, testRequests,
                     probes, results>>
  PROVE  NatTypeIInv'
<1> DEFINE m == [to |-> c, result |-> result, c2Port |-> natDetectionAttempts[c].c2Port]
<1>1. NatTypeOK /\ ResultsOnTheirWay /\ NeverTooFriendly
  BY DEF NatTypeIInv
<1>2. natDetectionAttempts[c].c2Port \in 1 .. MaxDetections
  BY <1>1 DEF NatTypeOK, InList, DetectionAttempt
<1>3. /\ m \in UNION {DetectionResult(a) \cup PortTest(a) : a \in Client}
      /\ m.result = result
      /\ \A b : m \in DetectionResult(b) => b = c
  BY <1>2, MessagesTyped, MessagesDiffer
<1>4. answers' \subseteq answers \cup {m}
  BY DEF EndWithResult, NatAnswer
<1>5. natDetectionAttempts' \in [Client -> DetectionAttempt \cup {NoDetectionAttempt}]
  BY <1>1 DEF EndWithResult, WithoutAttempt, NatTypeOK
<1> HIDE DEF m
<1>6. NatTypeOK'
  BY <1>1, <1>3, <1>4, <1>5 DEF NatTypeOK
<1>7. ResultsOnTheirWay'
  BY <1>1, <1>3, <1>4 DEF ResultsOnTheirWay
<1>. QED BY <1>1, <1>6, <1>7 DEF NatTypeIInv, NeverTooFriendly

LEMMA NextTestKeeps ==
  ASSUME NatTypeIInv, NEW c \in Client, NextTest(c) PROVE NatTypeIInv'
<1> DEFINE attempt == natDetectionAttempts[c]
           state == attempt.detectionState + 1
           next == [natDetectionAttempts EXCEPT ![c].detectionState = state]
           probe(type) == [to |-> c, type |-> type, c2Port |-> attempt.c2Port]
           try == [to |-> c, try |-> state, c2Port |-> attempt.c2Port]
           Rest == UNCHANGED <<natType, link, detection, started, undisturbed, c2Received,
                               testRequests, results>>
<1>1. NatTypeOK /\ ResultsOnTheirWay /\ NeverTooFriendly
  BY DEF NatTypeIInv
<1>2. attempt \in DetectionAttempt /\ InList(c)
  BY <1>1 DEF NextTest, InList, NatTypeOK
<1>3. attempt.c2Port \in 1 .. MaxDetections /\ attempt.detectionState \in 0 .. 8
  BY <1>2 DEF DetectionAttempt
<1>4. /\ Rest
      /\ \/ /\ state \in 1 .. 6 /\ natDetectionAttempts' = next /\ UNCHANGED answers
            /\ \E type \in {"NONE", "FULL_CONE", "ADDRESS_RESTRICTED"} :
                 probes' = probes \cup {probe(type)}
         \/ /\ state \in {7, 8} /\ natDetectionAttempts' = next
            /\ NatAnswer(c, try) /\ UNCHANGED probes
         \/ EndWithResult(c, "SYMMETRIC") /\ UNCHANGED probes
  BY <1>3 DEF NextTest
<1>5. CASE /\ state \in 1 .. 8 /\ natDetectionAttempts' = next
           /\ \/ UNCHANGED probes /\ answers' \subseteq answers \cup {try} /\ state \in {7, 8}
              \/ /\ UNCHANGED answers
                 /\ \E type \in {"NONE", "FULL_CONE", "ADDRESS_RESTRICTED"} :
                      probes' = probes \cup {probe(type)}
  <2>1. natDetectionAttempts' \in [Client -> DetectionAttempt \cup {NoDetectionAttempt}]
    <3>1. [attempt EXCEPT !.detectionState = state] \in DetectionAttempt
      BY <1>2, <1>5 DEF DetectionAttempt
    <3>. QED BY <1>1, <1>5, <3>1 DEF NatTypeOK
  <2>2. /\ state \in {7, 8} => try \in UNION {DetectionResult(a) \cup PortTest(a) : a \in Client}
        /\ \A type \in {"NONE", "FULL_CONE", "ADDRESS_RESTRICTED"} :
             probe(type) \in UNION {ProbeTo(a) \cup ToS3P4(a) : a \in Client}
    BY <1>3, MessagesTyped
  <2>3. /\ \A b : try \notin DetectionResult(b)
        /\ \A b, type : probe(type) \notin ToS3P4(b)
    BY MessagesDiffer
  <2> HIDE DEF try, probe, next, state, attempt
  <2>4. NatTypeOK'
    BY <1>1, <1>4, <1>5, <2>1, <2>2 DEF NatTypeOK
  <2>5. ResultsOnTheirWay'
    BY <1>1, <1>4, <1>5, <2>3 DEF ResultsOnTheirWay
  <2>. QED BY <1>1, <1>4, <2>4, <2>5 DEF NatTypeIInv, NeverTooFriendly
<1>6. CASE EndWithResult(c, "SYMMETRIC") /\ UNCHANGED probes
  BY <1>2, <1>4, <1>6, ResultKeeps
<1>. QED BY <1>4, <1>5, <1>6 DEF NatAnswer

LEMMA ServerKeeps ==
  ASSUME NatTypeIInv, NEW c \in Client,
         \/ \E m \in testRequests : OnDetectionRequest(c, m)
         \/ \E d \in probes : ReadS3P4(c, d)
         \/ ServerLoses(c) \/ NatReconnect(c)
  PROVE  NatTypeIInv'
<1>1. NatTypeOK /\ ResultsOnTheirWay /\ NeverTooFriendly
  BY DEF NatTypeIInv
<1>2. ASSUME NEW m \in testRequests, OnDetectionRequest(c, m) PROVE NatTypeIInv'
  <2>1. /\ m \in DetectionRequest(c) \cup DetectionDone(c)
        /\ testRequests' \subseteq testRequests
        /\ UNCHANGED <<natType, link, detection, started, undisturbed, c2Received, answers,
                       probes, results>>
        /\ natDetectionAttempts' \in
             {natDetectionAttempts, WithoutAttempt(c),
              [natDetectionAttempts EXCEPT ![c] = [detectionState |-> 0, c2Port |-> m.c2Port]]}
    BY <1>2 DEF OnDetectionRequest
  <2>2. [detectionState |-> 0, c2Port |-> m.c2Port] \in DetectionAttempt
    <3>1. m.c2Port \in 1 .. MaxDetections
      BY <2>1 DEF DetectionRequest, DetectionDone
    <3>2. 0 \in 0 .. 8
      OBVIOUS
    <3>. QED BY <3>1, <3>2, Zenon DEF DetectionAttempt
  <2>3. natDetectionAttempts' \in [Client -> DetectionAttempt \cup {NoDetectionAttempt}]
    BY <1>1, <2>1, <2>2 DEF NatTypeOK, WithoutAttempt
  <2>. QED BY <1>1, <2>1, <2>3
           DEF NatTypeIInv, NatTypeOK, ResultsOnTheirWay, NeverTooFriendly
<1>3. ASSUME NEW d \in probes, ReadS3P4(c, d) PROVE NatTypeIInv'
  <2>1. d.same => natType[c] # "SYMMETRIC"
    BY <1>1, <1>3 DEF ReadS3P4, ResultsOnTheirWay
  <2>2. UNCHANGED <<natType, link, detection, started, undisturbed, c2Received, testRequests,
                    probes, results>>
    BY <1>3 DEF ReadS3P4
  <2>3. CASE InList(c)
    <3>1. /\ EndWithResult(c, ConclusionOf(d))
          /\ ConclusionOf(d) \in {"PORT_RESTRICTED", "SYMMETRIC"}
          /\ ConclusionOf(d) = "PORT_RESTRICTED" => natType[c] # "SYMMETRIC"
      BY <1>3, <2>1, <2>3 DEF ReadS3P4, ConclusionOf
    <3>. QED BY <2>2, <2>3, <3>1, ResultKeeps
  <2>4. CASE ~InList(c)
    BY <1>1, <1>3, <2>2, <2>4
       DEF ReadS3P4, NatTypeIInv, NatTypeOK, ResultsOnTheirWay, NeverTooFriendly
  <2>. QED BY <2>3, <2>4
<1>4. CASE ServerLoses(c)
  BY <1>1, <1>4 DEF ServerLoses, WithoutAttempt, NatTypeIInv, NatTypeOK, ResultsOnTheirWay,
                    NeverTooFriendly
<1>5. CASE NatReconnect(c)
  BY <1>1, <1>5 DEF NatReconnect, NatTypeIInv, NatTypeOK, ResultsOnTheirWay, NeverTooFriendly
<1>. QED BY <1>2, <1>3, <1>4, <1>5

-----------------------------------------------------------------------------
(* Theorems *)

LEMMA NatTypeInitGood == NatTypeInit => NatTypeIInv
BY DetectionAssumption
   DEF NatTypeInit, NatTypeIInv, NatTypeOK, ResultsOnTheirWay, NeverTooFriendly

LEMMA NatTypeInductive ==
  ASSUME NatTypeIInv, [NatTypeNext]_natTypeVars PROVE NatTypeIInv'
<1>1. ASSUME NEW c \in Client, NatTypeStep(c) PROVE NatTypeIInv'
  BY <1>1, ClientCompletes, ClientKeeps, NextTestKeeps, ServerKeeps DEF NatTypeStep
<1>2. CASE UNCHANGED natTypeVars
  BY <1>2 DEF natTypeVars, NatTypeIInv, NatTypeOK, ResultsOnTheirWay, NeverTooFriendly, InList
<1>. QED BY <1>1, <1>2 DEF NatTypeNext

\* What the server and the clients keep and send is true of the NATs.
THEOREM DetectionInvariant == NatTypeSpec => []NatTypeIInv
<1>1. NatTypeIInv /\ [NatTypeNext]_natTypeVars => NatTypeIInv'
  BY NatTypeInductive
<1>. QED BY NatTypeInitGood, <1>1, PTL DEF NatTypeSpec

\* OnCompletion never reports a NAT that is friendlier than the client's, for any
\* number of clients and of detections, with datagrams and results of earlier
\* detections still on their way.
THEOREM Friendliness == NatTypeSpec => []NeverTooFriendly
<1>1. NatTypeIInv => NeverTooFriendly
  BY DEF NatTypeIInv
<1>. QED BY <1>1, DetectionInvariant, PTL

\* The state of the server and of the clients has its types, and a socket c2 has
\* buffered a datagram only while a detection runs.
THEOREM DetectionTypes == NatTypeSpec => []NatTypeOK
<1>1. NatTypeIInv => NatTypeOK
  BY DEF NatTypeIInv
<1>. QED BY <1>1, DetectionInvariant, PTL

-----------------------------------------------------------------------------
(* The reliability layer: numbers *)

LEMMA WrapFacts ==
  /\ NumberRange \in Nat \ {0}
  /\ \A x \in Int : Wrap(x) \in 0 .. NumberRange - 1
  /\ \A x \in 0 .. NumberRange - 1 : Wrap(x) = x
  /\ \A x \in NumberRange .. NumberRange + NumberRange - 1 : Wrap(x) = x - NumberRange
  /\ \A x \in (-NumberRange) .. -1 : Wrap(x) = x + NumberRange
<1>1. NumberRange \in Nat \ {0}
  BY ReliabilityAssumption
<1>2. \A x \in Int : x % NumberRange \in 0 .. NumberRange - 1
  BY <1>1
<1>3. \A x \in 0 .. NumberRange - 1 : x % NumberRange = x
  BY <1>1
<1>4. \A x \in NumberRange .. NumberRange + NumberRange - 1 : x % NumberRange = x - NumberRange
  BY <1>1
<1>5. \A x \in (-NumberRange) .. -1 : x % NumberRange = x + NumberRange
  BY <1>1
<1>. QED BY <1>1, <1>2, <1>3, <1>4, <1>5 DEF Wrap

Number == 0 .. NumberRange - 1

\* What an offset says of a number, if the first is one.
LEMMA OffsetFacts ==
  ASSUME scenario.first \in Number
  PROVE  /\ \A n \in Number : Offset(n) \in Number
         /\ \A m, n \in Number : Offset(m) = Offset(n) => m = n
         /\ \A k \in Number : Wrap(scenario.first + k) \in Number /\ Offset(Wrap(scenario.first + k)) = k
         /\ \A n \in Number : \A k \in Nat : Offset(n) + k < NumberRange =>
              Wrap(n + k) \in Number /\ Offset(Wrap(n + k)) = Offset(n) + k
         /\ \A m, n \in Number :
              Wrap(m - n) = IF Offset(m) >= Offset(n) THEN Offset(m) - Offset(n)
                            ELSE Offset(m) - Offset(n) + NumberRange
<1> DEFINE F == scenario.first
           R == NumberRange
<1>0. R \in Nat \ {0} /\ F \in 0 .. R - 1
  BY WrapFacts DEF Number
<1>1. \A n \in Number : Offset(n) = IF n >= F THEN n - F ELSE n - F + R
  <2>1. ASSUME NEW n \in Number PROVE Offset(n) = IF n >= F THEN n - F ELSE n - F + R
    <3>1. n - F \in (-R) .. R - 1
      BY <1>0 DEF Number
    <3>2. CASE n >= F
      <4>1. n - F \in 0 .. R - 1
        BY <1>0, <3>2 DEF Number
      <4>. QED BY <3>2, <4>1, WrapFacts DEF Offset
    <3>3. CASE ~(n >= F)
      <4>1. n - F \in (-R) .. -1
        BY <1>0, <3>3 DEF Number
      <4>. QED BY <3>3, <4>1, WrapFacts DEF Offset
    <3>. QED BY <3>2, <3>3
  <2>. QED BY <2>1
<1>2. /\ \A n \in Number : Offset(n) \in Number
      /\ \A m, n \in Number : Offset(m) = Offset(n) => m = n
  BY <1>0, <1>1 DEF Number
<1>3. ASSUME NEW n \in Number, NEW k \in Nat, Offset(n) + k < R
      PROVE  Wrap(n + k) \in Number /\ Offset(Wrap(n + k)) = Offset(n) + k
  <2>1. CASE n + k < R
    <3>1. n + k \in 0 .. R - 1
      BY <1>0, <2>1 DEF Number
    <3>2. Wrap(n + k) = n + k
      BY <3>1, WrapFacts
    <3>. QED BY <1>0, <1>1, <1>3, <3>1, <3>2 DEF Number
  <2>2. CASE n + k >= R
    <3>1. n + k \in R .. R + R - 1
      BY <1>0, <1>1, <1>3, <2>2 DEF Number
    <3>2. Wrap(n + k) = n + k - R
      BY <1>0, <3>1, WrapFacts DEF Number
    <3>. QED BY <1>0, <1>1, <1>3, <3>1, <3>2 DEF Number
  <2>. QED BY <1>0, <2>1, <2>2 DEF Number
<1>4. F \in Number /\ Offset(F) = 0
  BY <1>0, <1>1 DEF Number
<1>5. ASSUME NEW k \in Number PROVE Wrap(F + k) \in Number /\ Offset(Wrap(F + k)) = k
  <2>1. k \in Nat /\ Offset(F) + k < R /\ Offset(F) + k = k
    BY <1>0, <1>4, <1>5 DEF Number
  <2>. QED BY <1>3, <1>4, <2>1
<1>6. ASSUME NEW m \in Number, NEW n \in Number
      PROVE  Wrap(m - n) = IF Offset(m) >= Offset(n) THEN Offset(m) - Offset(n)
                           ELSE Offset(m) - Offset(n) + R
  <2>1. CASE m >= n
    <3>1. m - n \in 0 .. R - 1
      BY <1>0, <2>1 DEF Number
    <3>2. Wrap(m - n) = m - n
      BY <3>1, WrapFacts
    <3>. QED BY <1>0, <1>1, <2>1, <3>2 DEF Number
  <2>2. CASE ~(m >= n)
    <3>1. m - n \in (-R) .. -1
      BY <1>0, <2>2 DEF Number
    <3>2. Wrap(m - n) = m - n + R
      BY <1>0, <3>1, WrapFacts DEF Number
    <3>. QED BY <1>0, <1>1, <2>2, <3>2 DEF Number
  <2>. QED BY <2>1, <2>2
<1>7. \A n \in Number : \A k \in Nat : Offset(n) + k < R =>
        Wrap(n + k) \in Number /\ Offset(Wrap(n + k)) = Offset(n) + k
  BY <1>3
<1>8. \A k \in Number : Wrap(F + k) \in Number /\ Offset(Wrap(F + k)) = k
  BY <1>5
<1>9. \A m, n \in Number :
        Wrap(m - n) = IF Offset(m) >= Offset(n) THEN Offset(m) - Offset(n)
                      ELSE Offset(m) - Offset(n) + R
  BY <1>6
<1>. QED BY <1>2, <1>7, <1>8, <1>9

-----------------------------------------------------------------------------
(* Induction, without a parameter that is an operator *)

\* A set of numbers has a least one.
LEMMA LeastNumber ==
  ASSUME NEW S, S \subseteq Nat, S # {} PROVE \E x \in S : \A y \in S : x <= y
<1> DEFINE R == {ss \in Nat \X Nat : ss[1] < ss[2]}
<1>1. OpToRel(<, Nat) = R
  BY Zenon DEF OpToRel
<1>2. IsWellFoundedOn(R, Nat)
  BY <1>1, NatLessThanWellFounded
<1>3. \A x, y \in Nat : y < x => <<y, x>> \in R
  OBVIOUS
<1> HIDE DEF R
<1>4. PICK x \in S : \A y \in S : <<y, x>> \notin R
  BY <1>2, WFMin
<1>5. \A y \in S : ~(y < x) /\ y \in Nat /\ x \in Nat
  BY <1>3, <1>4
<1>. QED BY <1>5

\* So a property of the numbers up to N, given by the set of those that have it,
\* holds of all if it passes from each to the next.
LEMMA InductionUpTo ==
  ASSUME NEW N \in Nat, NEW K, 0 \in K, \A n \in 1 .. N : n - 1 \in K => n \in K
  PROVE  \A n \in 0 .. N : n \in K
<1> DEFINE S == {n \in 0 .. N : n \notin K}
<1>. SUFFICES ASSUME S # {} PROVE FALSE
  OBVIOUS
<1>1. S \subseteq Nat
  OBVIOUS
<1>2. PICK x \in S : \A y \in S : x <= y
  <2> HIDE DEF S
  <2>. QED BY <1>1, LeastNumber
<1>3. x \in 1 .. N /\ x - 1 \in 0 .. N /\ x - 1 \notin S
  BY <1>2
<1>. QED BY <1>3

\* f is what a loop over the numbers up to N has after each of them.
IsLoop(f, A, N, first, step) ==
  f \in [0 .. N -> A] /\ f[0] = first /\ \A n \in 1 .. N : f[n] = step[<<f[n - 1], n>>]

\* There is one for any function from what it has, and the number, to what it has next.
LEMMA RecursionUpTo ==
  ASSUME NEW N \in Nat, NEW A, NEW first \in A, NEW step \in [A \X (1 .. N) -> A]
  PROVE  \E f : IsLoop(f, A, N, first, step)
<1> DEFINE Loop(f, n) == f \in [0 .. n -> A] /\ f[0] = first
                         /\ \A k \in 1 .. n : f[k] = step[<<f[k - 1], k>>]
           K == {n \in 0 .. N : \E f : Loop(f, n)}
<1>1. 0 \in K
  <2> DEFINE f == [k \in 0 .. 0 |-> first]
  <2>1. f \in [0 .. 0 -> A] /\ f[0] = first
    OBVIOUS
  <2>2. Loop(f, 0)
    BY <2>1
  <2> HIDE DEF Loop, f
  <2>. QED BY <2>2
<1>2. ASSUME NEW n \in 1 .. N, n - 1 \in K PROVE n \in K
  <2>1. PICK f : Loop(f, n - 1)
    BY <1>2
  <2> DEFINE h == [k \in 0 .. n |-> IF k < n THEN f[k] ELSE step[<<f[n - 1], n>>]]
  <2>2. n - 1 \in 0 .. n - 1 /\ f[n - 1] \in A
    BY <2>1
  <2>3. step[<<f[n - 1], n>>] \in A
    BY <2>2
  <2>4. h \in [0 .. n -> A] /\ h[0] = first
    BY <2>1, <2>3
  <2>5. ASSUME NEW k \in 1 .. n PROVE h[k] = step[<<h[k - 1], k>>]
    <3>1. k - 1 \in 0 .. n /\ k - 1 < n /\ h[k - 1] = f[k - 1]
      OBVIOUS
    <3>2. CASE k = n
      BY <3>1, <3>2
    <3>3. CASE k # n
      <4>1. k \in 1 .. n - 1 /\ h[k] = f[k]
        BY <3>3
      <4>. QED BY <2>1, <3>1, <4>1
    <3>. QED BY <3>2, <3>3
  <2> HIDE DEF h
  <2>6. Loop(h, n)
    BY <2>4, <2>5
  <2> HIDE DEF Loop
  <2>. QED BY <2>6
<1> HIDE DEF K
<1>3. N \in K
  BY <1>1, <1>2, InductionUpTo
<1>4. PICK f : Loop(f, N)
  BY <1>3 DEF K
<1>. QED BY <1>4 DEF IsLoop

-----------------------------------------------------------------------------
(* The list from which is sent again *)

\* l is what is left of the first n of a list.
LeftOf(l, list, gone, n) ==
  /\ \A x : (\E i \in DOMAIN l : l[i] = x) <=> x \notin gone /\ \E i \in 1 .. n : list[i] = x
  /\ (\A i, j \in DOMAIN list : list[i] = list[j] => i = j)
       => \A i, j \in DOMAIN l : l[i] = l[j] => i = j

\* What RemoveFromList leaves: a list of no others, that has all but those that are gone,
\* and none more often than before.
LEMMA RemoveFromListFacts ==
  ASSUME NEW M, NEW list \in Seq(M), NEW gone
  PROVE  LET left == RemoveFromList(list, gone)
         IN /\ left \in Seq(M)
            /\ \A x : (\E i \in DOMAIN left : left[i] = x)
                        <=> x \notin gone /\ \E i \in DOMAIN list : list[i] = x
            /\ (\A i, j \in DOMAIN list : list[i] = list[j] => i = j)
                 => \A i, j \in DOMAIN left : left[i] = left[j] => i = j
<1> DEFINE N == Len(list)
           Next(l, i) == IF list[i] \in gone THEN l ELSE Append(l, list[i])
           step == [x \in Seq(M) \X (1 .. N) |-> Next(x[1], x[2])]
           left[i \in 0 .. N] == IF i = 0 THEN <<>>
                                 ELSE IF list[i] \in gone THEN left[i - 1]
                                 ELSE Append(left[i - 1], list[i])
<1>1. N \in Nat /\ DOMAIN list = 1 .. N /\ \A i \in 1 .. N : list[i] \in M
  OBVIOUS
<1>2. <<>> \in Seq(M) /\ step \in [Seq(M) \X (1 .. N) -> Seq(M)]
  <2>1. ASSUME NEW l \in Seq(M), NEW i \in 1 .. N PROVE Next(l, i) \in Seq(M)
    BY <1>1
  <2> HIDE DEF Next, N
  <2>2. step \in [Seq(M) \X (1 .. N) -> Seq(M)]
    BY <2>1
  <2>. QED BY <2>2
<1>3. \A l \in Seq(M) : \A i \in 1 .. N : step[<<l, i>>] = Next(l, i)
  OBVIOUS
<1> HIDE DEF step
<1>4. PICK f : IsLoop(f, Seq(M), N, <<>>, step)
  <2> HIDE DEF N
  <2>. QED BY <1>1, <1>2, RecursionUpTo
<1>5. f \in [0 .. N -> Seq(M)] /\ f[0] = <<>> /\ \A n \in 1 .. N : f[n] = Next(f[n - 1], n)
  <2> HIDE DEF Next, N
  <2>1. \A n \in 1 .. N : n - 1 \in 0 .. N
    BY <1>1
  <2>. QED BY <1>3, <1>4, <2>1 DEF IsLoop
<1>6. f = [i \in 0 .. N |-> IF i = 0 THEN <<>>
                            ELSE IF list[i] \in gone THEN f[i - 1] ELSE Append(f[i - 1], list[i])]
  <2>1. ASSUME NEW i \in 0 .. N
        PROVE  f[i] = IF i = 0 THEN <<>>
                      ELSE IF list[i] \in gone THEN f[i - 1] ELSE Append(f[i - 1], list[i])
    <3>1. i = 0 \/ i \in 1 .. N
      BY <1>1
    <3>. QED BY <1>5, <3>1
  <2> HIDE DEF Next, N
  <2>. QED BY <1>5, <2>1
<1>7. left = [i \in 0 .. N |-> IF i = 0 THEN <<>>
                               ELSE IF list[i] \in gone THEN left[i - 1] ELSE Append(left[i - 1], list[i])]
  <2>1. \E g : g = [i \in 0 .. N |-> IF i = 0 THEN <<>>
                            ELSE IF list[i] \in gone THEN g[i - 1] ELSE Append(g[i - 1], list[i])]
    BY <1>6
  <2>. QED BY <2>1, Zenon DEF left
<1>8. RemoveFromList(list, gone) = left[N]
  BY DEF RemoveFromList
<1> HIDE DEF left
<1>9. left[0] = <<>> /\ \A n \in 1 .. N : left[n] = Next(left[n - 1], n)
  <2>1. ASSUME NEW n \in 1 .. N PROVE left[n] = Next(left[n - 1], n)
    <3>1. n \in 0 .. N /\ n # 0
      BY <1>1
    <3> HIDE DEF N
    <3>. QED BY <1>7, <3>1
  <2>2. 0 \in 0 .. N
    BY <1>1
  <2> HIDE DEF N, Next
  <2>. QED BY <1>7, <2>1, <2>2
<1> HIDE DEF N
<1> DEFINE K == {n \in 0 .. N : LeftOf(left[n], list, gone, n) /\ left[n] \in Seq(M)}
<1>10. 0 \in K
  <2>1. LeftOf(<<>>, list, gone, 0) /\ <<>> \in Seq(M)
    BY DEF LeftOf
  <2>2. left[0] = <<>> /\ 0 \in 0 .. N
    BY <1>1, <1>9
  <2>. QED BY <2>1, <2>2
<1>11. ASSUME NEW n \in 1 .. N, n - 1 \in K PROVE n \in K
  <2> DEFINE l == left[n - 1]
  <2>1. left[n] = Next(l, n)
    BY <1>9
  <2>2. LeftOf(l, list, gone, n - 1) /\ l \in Seq(M)
    BY <1>11
  <2> HIDE DEF l
  <2>3. list[n] \in M /\ n \in DOMAIN list /\ n \in 0 .. N /\ \A i \in 1 .. n - 1 : i \in DOMAIN list /\ i # n
    BY <1>1
  <2>4. \A x : (\E i \in 1 .. n : list[i] = x) <=> (\E i \in 1 .. n - 1 : list[i] = x) \/ x = list[n]
    BY <1>1
  <2>5. CASE list[n] \in gone
    <3>1. left[n] = l
      BY <2>1, <2>5
    <3>2. LeftOf(l, list, gone, n)
      BY <2>2, <2>4, <2>5 DEF LeftOf
    <3>. QED BY <2>2, <2>3, <3>1, <3>2
  <2>6. CASE list[n] \notin gone
    <3> DEFINE long == Append(l, list[n])
    <3>1. left[n] = long
      BY <2>1, <2>6
    <3>2. /\ long \in Seq(M) /\ DOMAIN long = 1 .. Len(l) + 1 /\ Len(l) \in Nat
          /\ DOMAIN l = 1 .. Len(l)
          /\ \A i \in DOMAIN l : long[i] = l[i] /\ i \in DOMAIN long
          /\ long[Len(l) + 1] = list[n] /\ Len(l) + 1 \in DOMAIN long
      BY <2>2, <2>3
    <3> HIDE DEF long
    <3>3. \A i \in DOMAIN long : i \in DOMAIN l \/ i = Len(l) + 1
      BY <3>2
    <3>4. \A x : (\E i \in DOMAIN long : long[i] = x) <=> (\E i \in DOMAIN l : l[i] = x) \/ x = list[n]
      BY <3>2, <3>3
    <3>5. \A x : (\E i \in DOMAIN long : long[i] = x)
                   <=> x \notin gone /\ \E i \in 1 .. n : list[i] = x
      BY <2>2, <2>4, <2>6, <3>4 DEF LeftOf
    <3>6. ASSUME \A i, j \in DOMAIN list : list[i] = list[j] => i = j
          PROVE  \A i, j \in DOMAIN long : long[i] = long[j] => i = j
      <4>1. \A i, j \in DOMAIN l : l[i] = l[j] => i = j
        BY <2>2, <3>6 DEF LeftOf
      <4>2. \A i \in DOMAIN l : l[i] # list[n]
        <5>1. ~\E i \in 1 .. n - 1 : list[i] = list[n]
          BY <2>3, <3>6
        <5>. QED BY <2>2, <5>1 DEF LeftOf
      <4>. QED BY <3>2, <3>3, <4>1, <4>2
    <3>7. LeftOf(long, list, gone, n)
      BY <3>5, <3>6 DEF LeftOf
    <3>. QED BY <2>3, <3>1, <3>2, <3>7
  <2>. QED BY <2>5, <2>6
<1> HIDE DEF K
<1>12. N \in K
  BY <1>1, <1>10, <1>11, InductionUpTo
<1>13. LeftOf(left[N], list, gone, N) /\ left[N] \in Seq(M)
  BY <1>12 DEF K
<1>. QED BY <1>1, <1>8, <1>13 DEF LeftOf

-----------------------------------------------------------------------------
(* Packets that are sent for the first time *)

PushState ==
  [buffer : [0 .. ResendBufferLength - 1 -> InternalPacket], next : Number, list : Seq(Number),
   packets : Seq(InternalPacket), fits : BOOLEAN]

LEMMA SlotFacts ==
  /\ ResendBufferLength \in Nat \ {0}
  /\ \A n \in Number : Slot(n) \in 0 .. ResendBufferLength - 1
<1>1. ResendBufferLength \in Nat \ {0} /\ NumberRange \in Nat \ {0}
  BY ReliabilityAssumption
<1>. QED BY <1>1 DEF Slot, Number

LEMMA PushPacketTyped ==
  ASSUME NEW s \in PushState, NEW p \in InternalPacket PROVE PushPacket(s, p) \in PushState
<1> DEFINE numbered == [p EXCEPT !.number = s.next]
<1>1. /\ s.next \in Number /\ Slot(s.next) \in 0 .. ResendBufferLength - 1
      /\ s.next \in Int /\ Wrap(s.next + 1) \in Number
  <2>1. s.next \in Number
    BY DEF PushState
  <2>2. s.next \in Int /\ s.next + 1 \in Int
    BY <2>1, WrapFacts DEF Number
  <2>. QED BY <2>1, <2>2, WrapFacts, SlotFacts DEF Number
<1>2. numbered \in InternalPacket
  BY <1>1 DEF InternalPacket, Number
<1>3. /\ [s.buffer EXCEPT ![Slot(s.next)] = numbered] \in [0 .. ResendBufferLength - 1 -> InternalPacket]
      /\ Append(s.list, s.next) \in Seq(Number)
      /\ Append(s.packets, numbered) \in Seq(InternalPacket)
      /\ Append(s.packets, p) \in Seq(InternalPacket)
  BY <1>1, <1>2 DEF PushState
<1>4. (s.fits /\ ~ResendBufferOverflow(s.buffer, s.next)) \in BOOLEAN
  BY DEF PushState, ResendBufferOverflow
<1> HIDE DEF numbered
<1>5. CASE sent[p.id].reliability \in Reliable
  BY <1>1, <1>3, <1>4, <1>5 DEF PushPacket, PushState, numbered
<1>6. CASE sent[p.id].reliability \notin Reliable
  BY <1>3, <1>4, <1>6 DEF PushPacket, PushState
<1>. QED BY <1>5, <1>6

QueueIsTyped ==
  /\ outgoingPacketBuffer \in Seq(InternalPacket)
  /\ sendReliableMessageNumberIndex \in Number
  /\ resendBuffer \in [0 .. ResendBufferLength - 1 -> InternalPacket]
  /\ resendList \in Seq(Number)

NonePushed ==
  [buffer |-> resendBuffer, next |-> sendReliableMessageNumberIndex,
   list |-> resendList, packets |-> <<>>, fits |-> TRUE]

LEMMA PushedIsLoop ==
  ASSUME QueueIsTyped, NEW n \in 0 .. Len(outgoingPacketBuffer)
  PROVE  \E f \in [0 .. n -> PushState] :
           /\ f[0] = NonePushed /\ Pushed(n) = f[n]
           /\ \A i \in 1 .. n : f[i] = PushPacket(f[i - 1], outgoingPacketBuffer[i])
<1> DEFINE step == [x \in PushState \X (1 .. n) |-> PushPacket(x[1], outgoingPacketBuffer[x[2]])]
           pushed[i \in 0 .. n] == IF i = 0 THEN NonePushed
                                   ELSE PushPacket(pushed[i - 1], outgoingPacketBuffer[i])
<1>1. /\ n \in Nat /\ NonePushed \in PushState
      /\ \A i \in 1 .. n : outgoingPacketBuffer[i] \in InternalPacket
  <2>1. /\ n \in Nat /\ \A i \in 1 .. n : outgoingPacketBuffer[i] \in InternalPacket
    BY DEF QueueIsTyped
  <2>2. NonePushed \in PushState
    BY DEF QueueIsTyped, NonePushed, PushState
  <2>. QED BY <2>1, <2>2
<1>2. step \in [PushState \X (1 .. n) -> PushState]
  BY <1>1, PushPacketTyped
<1>3. \A s \in PushState : \A i \in 1 .. n : step[<<s, i>>] = PushPacket(s, outgoingPacketBuffer[i])
  OBVIOUS
<1> HIDE DEF step
<1>4. PICK f : IsLoop(f, PushState, n, NonePushed, step)
  BY <1>1, <1>2, RecursionUpTo
<1>5. /\ f \in [0 .. n -> PushState] /\ f[0] = NonePushed
      /\ \A i \in 1 .. n : f[i] = PushPacket(f[i - 1], outgoingPacketBuffer[i])
  <2>1. \A i \in 1 .. n : i - 1 \in 0 .. n
    BY <1>1
  <2>. QED BY <1>3, <1>4, <2>1 DEF IsLoop
<1>6. f = [i \in 0 .. n |-> IF i = 0 THEN NonePushed ELSE PushPacket(f[i - 1], outgoingPacketBuffer[i])]
  <2>1. \A i \in 0 .. n : i = 0 \/ i \in 1 .. n
    BY <1>1
  <2>. QED BY <1>5, <2>1
<1>7. pushed = [i \in 0 .. n |-> IF i = 0 THEN NonePushed
                                 ELSE PushPacket(pushed[i - 1], outgoingPacketBuffer[i])]
  <2>1. \E g : g = [i \in 0 .. n |-> IF i = 0 THEN NonePushed
                                     ELSE PushPacket(g[i - 1], outgoingPacketBuffer[i])]
    BY <1>6
  <2>. QED BY <2>1, Zenon DEF pushed
<1>8. Pushed(n) = pushed[n]
  BY DEF Pushed, NonePushed
<1> HIDE DEF pushed
<1> DEFINE K == {i \in 0 .. n : pushed[i] = f[i]}
<1>9. \A i \in 0 .. n : i \in K
  <2>1. 0 \in K
    BY <1>1, <1>5, <1>7
  <2>2. ASSUME NEW i \in 1 .. n, i - 1 \in K PROVE i \in K
    <3>1. i \in 0 .. n /\ i # 0
      BY <1>1
    <3>. QED BY <1>5, <1>7, <2>2, <3>1
  <2> HIDE DEF K
  <2>. QED BY <1>1, <2>1, <2>2, InductionUpTo
<1>10. pushed[n] = f[n]
  <2>1. n \in 0 .. n
    BY <1>1
  <2>. QED BY <1>9, <2>1
<1>. QED BY <1>5, <1>8, <1>10

\* A packet as it is sent, with its number if it is reliable.
SentAs(q, p, next) ==
  /\ q \in InternalPacket /\ q.id = p.id /\ q.part = p.part
  /\ IF IsReliable(p) THEN Offset(q.number) >= Numbered /\ Offset(q.number) < Offset(next) ELSE q = p

\* What is on the list has a place, and is there once.
Listed(buffer, list) ==
  /\ \A i \in DOMAIN list : buffer[Slot(list[i])] # NoPacket
  /\ \A i, j \in DOMAIN list : list[i] = list[j] => i = j

\* The packets are in the buffer and on the list, in places that were free.
PushedTo(buffer, list, packets) ==
  /\ \A k \in DOMAIN resendBuffer :
       /\ resendBuffer[k] # NoPacket => buffer[k] = resendBuffer[k]
       /\ \/ buffer[k] = resendBuffer[k]
          \/ \E j \in DOMAIN packets :
               IsReliable(packets[j]) /\ buffer[k] = packets[j] /\ k = Slot(packets[j].number)
  /\ \A j \in DOMAIN packets : IsReliable(packets[j]) => buffer[Slot(packets[j].number)] = packets[j]
  /\ \A x : (\E i \in DOMAIN list : list[i] = x)
              <=> \/ \E i \in DOMAIN resendList : resendList[i] = x
                  \/ \E j \in DOMAIN packets : IsReliable(packets[j]) /\ packets[j].number = x
  /\ Listed(buffer, list)

PushedSoFar(s, i) ==
  /\ Offset(s.next) >= Numbered /\ Offset(s.next) <= Numbered + i
  /\ Len(s.packets) = i
  /\ \A j \in 1 .. i : SentAs(s.packets[j], outgoingPacketBuffer[j], s.next)
  /\ \A j, k \in 1 .. i :
       IsReliable(s.packets[j]) /\ IsReliable(s.packets[k]) /\ s.packets[j].number = s.packets[k].number
         => j = k
  /\ s.fits => PushedTo(s.buffer, s.list, s.packets)

LEMMA PushStep ==
  ASSUME QueueIsTyped, scenario.first \in Number, Numbered + Len(outgoingPacketBuffer) < NumberRange,
         \A j \in DOMAIN outgoingPacketBuffer : outgoingPacketBuffer[j].id # 0,
         NEW i \in 1 .. Len(outgoingPacketBuffer), NEW s \in PushState, PushedSoFar(s, i - 1)
  PROVE  PushedSoFar(PushPacket(s, outgoingPacketBuffer[i]), i)
<1> DEFINE p == outgoingPacketBuffer[i]
           numbered == [p EXCEPT !.number = s.next]
           t == PushPacket(s, p)
<1>1. /\ p \in InternalPacket /\ p.id # 0 /\ i \in Nat /\ i - 1 \in Nat
      /\ s.next \in Number /\ sendReliableMessageNumberIndex \in Number
      /\ s.packets \in Seq(InternalPacket) /\ Len(s.packets) = i - 1
      /\ s.buffer \in [0 .. ResendBufferLength - 1 -> InternalPacket]
      /\ s.list \in Seq(Number) /\ Slot(s.next) \in 0 .. ResendBufferLength - 1
  BY SlotFacts DEF PushState, PushedSoFar, QueueIsTyped
<1>2. /\ Offset(s.next) \in Nat /\ Numbered \in Nat /\ Offset(s.next) + 1 < NumberRange
      /\ Wrap(s.next + 1) \in Number /\ Offset(Wrap(s.next + 1)) = Offset(s.next) + 1
  <2>1. Offset(s.next) \in Number /\ Numbered \in Number
    BY <1>1, OffsetFacts DEF Numbered
  <2>2. /\ Len(outgoingPacketBuffer) \in Nat /\ NumberRange \in Nat
        /\ Offset(s.next) <= Numbered + (i - 1) /\ i <= Len(outgoingPacketBuffer)
    BY WrapFacts DEF PushedSoFar, QueueIsTyped
  <2>3. Offset(s.next) + 1 < NumberRange /\ Offset(s.next) \in Nat /\ Numbered \in Nat
    BY <1>1, <2>1, <2>2 DEF Number
  <2>. QED BY <1>1, <2>3, OffsetFacts
<1>3. /\ numbered \in InternalPacket /\ numbered.id = p.id /\ numbered.part = p.part
      /\ numbered.number = s.next /\ numbered # NoPacket
      /\ IsReliable(numbered) <=> IsReliable(p)
  BY <1>1 DEF InternalPacket, Number, NoPacket, IsReliable
<1>4. \A j \in 1 .. i - 1 : j \in 1 .. i /\ j # i /\ j \in DOMAIN s.packets
  BY <1>1
<1>5. \A j \in 1 .. i : j = i \/ j \in 1 .. i - 1
  BY <1>1
<1> HIDE DEF p, numbered
<1>6. CASE IsReliable(p)
  <2> DEFINE packets == Append(s.packets, numbered)
             list == Append(s.list, s.next)
             buffer == [s.buffer EXCEPT ![Slot(s.next)] = numbered]
  <2>1. /\ t.buffer = buffer /\ t.next = Wrap(s.next + 1) /\ t.list = list
        /\ t.packets = packets /\ (t.fits <=> s.fits /\ s.buffer[Slot(s.next)] = NoPacket)
    BY <1>6 DEF PushPacket, IsReliable, numbered, ResendBufferOverflow
  <2>2. /\ DOMAIN packets = 1 .. i /\ Len(packets) = i /\ packets[i] = numbered
        /\ \A j \in 1 .. i - 1 : packets[j] = s.packets[j]
        /\ DOMAIN s.packets = 1 .. i - 1
    BY <1>1, <1>3
  <2>3. /\ DOMAIN list = 1 .. Len(s.list) + 1 /\ list[Len(s.list) + 1] = s.next
        /\ \A j \in DOMAIN s.list : list[j] = s.list[j] /\ j \in DOMAIN list
        /\ DOMAIN s.list = 1 .. Len(s.list) /\ Len(s.list) \in Nat
    BY <1>1
  <2>4. \A j \in DOMAIN list : j \in DOMAIN s.list \/ j = Len(s.list) + 1
    BY <2>3
  <2> HIDE DEF packets, list
  <2>5. /\ buffer[Slot(s.next)] = numbered
        /\ \A k \in 0 .. ResendBufferLength - 1 : k # Slot(s.next) => buffer[k] = s.buffer[k]
    BY <1>1
  <2> HIDE DEF buffer
  <2>6. \A j \in 1 .. i : SentAs(packets[j], outgoingPacketBuffer[j], Wrap(s.next + 1))
    <3>1. ASSUME NEW j \in 1 .. i - 1
          PROVE  SentAs(packets[j], outgoingPacketBuffer[j], Wrap(s.next + 1))
      <4>1. SentAs(s.packets[j], outgoingPacketBuffer[j], s.next)
        BY DEF PushedSoFar
      <4>2. s.packets[j] \in InternalPacket
        BY <1>1, <1>4
      <4>3. s.packets[j].number \in Number
        BY <4>2 DEF InternalPacket, Number
      <4>4. Offset(s.packets[j].number) \in Number
        BY <4>3, OffsetFacts
      <4>5. /\ packets[j] = s.packets[j]
            /\ \A x \in Number : x < Offset(s.next) => x < Offset(Wrap(s.next + 1))
        <5>1. \A x \in Number : x < Offset(s.next) => x < Offset(s.next) + 1
          BY <1>2, WrapFacts DEF Number
        <5>. QED BY <1>2, <2>2, <5>1
      <4>. QED BY <4>1, <4>4, <4>5 DEF SentAs
    <3>2. SentAs(numbered, p, Wrap(s.next + 1))
      <4>1. Offset(s.next) >= Numbered
        BY DEF PushedSoFar
      <4>. QED BY <1>2, <1>3, <1>6, <4>1 DEF SentAs
    <3>. QED BY <1>5, <2>2, <3>1, <3>2 DEF p
  <2>7. \A j \in 1 .. i - 1 : IsReliable(s.packets[j]) => Offset(s.packets[j].number) < Offset(s.next)
    BY DEF PushedSoFar, SentAs, IsReliable
  <2>8. \A j \in 1 .. i - 1 : IsReliable(s.packets[j]) => s.packets[j].number # s.next
    BY <1>2, <2>7
  <2>9. \A j, k \in 1 .. i :
          IsReliable(packets[j]) /\ IsReliable(packets[k]) /\ packets[j].number = packets[k].number => j = k
    <3>1. \A j, k \in 1 .. i - 1 :
            IsReliable(s.packets[j]) /\ IsReliable(s.packets[k]) /\ s.packets[j].number = s.packets[k].number
              => j = k
      BY DEF PushedSoFar
    <3>. QED BY <1>3, <1>5, <2>2, <2>8, <3>1
  <2>10. ASSUME s.fits, s.buffer[Slot(s.next)] = NoPacket PROVE PushedTo(buffer, list, packets)
    <3>1. PushedTo(s.buffer, s.list, s.packets)
      BY <2>10 DEF PushedSoFar
    <3>2. resendBuffer[Slot(s.next)] = NoPacket /\ DOMAIN resendBuffer = 0 .. ResendBufferLength - 1
      BY <1>1, <2>10, <3>1 DEF PushedTo, QueueIsTyped
    <3>3. ASSUME NEW k \in DOMAIN resendBuffer
          PROVE  /\ resendBuffer[k] # NoPacket => buffer[k] = resendBuffer[k]
                 /\ \/ buffer[k] = resendBuffer[k]
                    \/ \E j \in DOMAIN packets :
                         IsReliable(packets[j]) /\ buffer[k] = packets[j] /\ k = Slot(packets[j].number)
      <4>1. CASE k = Slot(s.next)
        <5>1. i \in DOMAIN packets /\ IsReliable(packets[i]) /\ buffer[k] = packets[i] /\ k = Slot(packets[i].number)
          BY <1>1, <1>3, <1>6, <2>2, <2>5, <4>1
        <5>. QED BY <3>2, <4>1, <5>1
      <4>2. CASE k # Slot(s.next)
        <5>1. buffer[k] = s.buffer[k]
          BY <2>5, <3>2, <4>2
        <5>. QED BY <1>4, <2>2, <3>1, <5>1 DEF PushedTo
      <4>. QED BY <4>1, <4>2
    <3>4. ASSUME NEW j \in DOMAIN packets, IsReliable(packets[j])
          PROVE  buffer[Slot(packets[j].number)] = packets[j]
      <4>1. CASE j = i
        BY <1>3, <2>2, <2>5, <4>1
      <4>2. CASE j \in 1 .. i - 1
        <5>1. /\ packets[j] = s.packets[j] /\ s.packets[j] \in InternalPacket
              /\ s.buffer[Slot(packets[j].number)] = packets[j]
          BY <1>1, <1>4, <2>2, <3>1, <3>4, <4>2 DEF PushedTo
        <5>2. packets[j].id # 0
          <6>1. SentAs(s.packets[j], outgoingPacketBuffer[j], s.next) /\ j \in DOMAIN outgoingPacketBuffer
            BY <1>1, <4>2 DEF PushedSoFar, QueueIsTyped
          <6>. QED BY <5>1, <6>1 DEF SentAs
        <5>3. Slot(packets[j].number) # Slot(s.next)
          BY <2>10, <5>1, <5>2 DEF NoPacket
        <5>4. Slot(packets[j].number) \in 0 .. ResendBufferLength - 1
          BY <5>1, SlotFacts DEF InternalPacket, Number
        <5>. QED BY <2>5, <5>1, <5>3, <5>4
      <4>. QED BY <1>5, <2>2, <4>1, <4>2
    <3>5. \A x : (\E j \in DOMAIN packets : IsReliable(packets[j]) /\ packets[j].number = x)
                   <=> \/ \E j \in DOMAIN s.packets : IsReliable(s.packets[j]) /\ s.packets[j].number = x
                       \/ x = s.next
      <4>1. i \in DOMAIN packets /\ IsReliable(packets[i]) /\ packets[i].number = s.next
        BY <1>1, <1>3, <1>6, <2>2
      <4>. QED BY <1>4, <1>5, <2>2, <4>1
    <3>6. \A x : (\E j \in DOMAIN list : list[j] = x) <=> (\E j \in DOMAIN s.list : s.list[j] = x) \/ x = s.next
      <4>1. Len(s.list) + 1 \in DOMAIN list
        BY <2>3
      <4>. QED BY <2>3, <2>4, <4>1
    <3>7. \A x : (\E j \in DOMAIN list : list[j] = x)
                   <=> \/ \E j \in DOMAIN resendList : resendList[j] = x
                       \/ \E j \in DOMAIN packets : IsReliable(packets[j]) /\ packets[j].number = x
      BY <3>1, <3>5, <3>6 DEF PushedTo
    <3>8. Listed(s.buffer, s.list)
      BY <3>1 DEF PushedTo
    <3>9. \A j \in DOMAIN s.list : s.list[j] # s.next /\ s.list[j] \in Number
      BY <1>1, <2>10, <3>8 DEF Listed
    <3>10. Listed(buffer, list)
      <4>1. ASSUME NEW j \in DOMAIN list PROVE buffer[Slot(list[j])] # NoPacket
        <5>1. CASE j = Len(s.list) + 1
          BY <1>3, <2>3, <2>5, <5>1
        <5>2. CASE j \in DOMAIN s.list
          <6>1. list[j] = s.list[j] /\ s.buffer[Slot(list[j])] # NoPacket /\ list[j] \in Number
            BY <2>3, <3>8, <3>9, <5>2 DEF Listed
          <6>2. Slot(list[j]) \in 0 .. ResendBufferLength - 1 /\ Slot(list[j]) # Slot(s.next)
            BY <2>10, <6>1, SlotFacts
          <6>. QED BY <2>5, <6>1, <6>2
        <5>. QED BY <2>4, <5>1, <5>2
      <4>2. ASSUME NEW j \in DOMAIN list, NEW k \in DOMAIN list, list[j] = list[k] PROVE j = k
        BY <2>3, <2>4, <3>8, <3>9, <4>2 DEF Listed
      <4>. QED BY <4>1, <4>2 DEF Listed
    <3>. QED BY <3>3, <3>4, <3>7, <3>10 DEF PushedTo
  <2>11. Offset(t.next) >= Numbered /\ Offset(t.next) <= Numbered + i
    <3>1. Offset(s.next) >= Numbered /\ Offset(s.next) <= Numbered + (i - 1)
      BY DEF PushedSoFar
    <3>. QED BY <1>1, <1>2, <2>1, <3>1
  <2> HIDE DEF t
  <2>. QED BY <2>1, <2>2, <2>6, <2>9, <2>10, <2>11 DEF PushedSoFar, t, p
<1>7. CASE ~IsReliable(p)
  <2> DEFINE packets == Append(s.packets, p)
  <2>1. /\ t.buffer = s.buffer /\ t.next = s.next /\ t.list = s.list
        /\ t.packets = packets /\ (t.fits => s.fits)
    <3>1. t = [s EXCEPT !.packets = Append(@, p),
                        !.fits = s.fits /\ ~ResendBufferOverflow(s.buffer, s.next)]
      BY <1>7 DEF PushPacket, IsReliable
    <3>. QED BY <3>1 DEF PushState
  <2>2. /\ DOMAIN packets = 1 .. i /\ Len(packets) = i /\ packets[i] = p
        /\ \A j \in 1 .. i - 1 : packets[j] = s.packets[j]
        /\ DOMAIN s.packets = 1 .. i - 1
    BY <1>1
  <2> HIDE DEF packets
  <2>3. \A j \in 1 .. i : SentAs(packets[j], outgoingPacketBuffer[j], s.next)
    <3>1. SentAs(p, p, s.next)
      BY <1>1, <1>7 DEF SentAs
    <3>2. \A j \in 1 .. i - 1 : SentAs(s.packets[j], outgoingPacketBuffer[j], s.next)
      BY DEF PushedSoFar
    <3>. QED BY <1>5, <2>2, <3>1, <3>2 DEF p
  <2>4. \A j, k \in 1 .. i :
          IsReliable(packets[j]) /\ IsReliable(packets[k]) /\ packets[j].number = packets[k].number => j = k
    BY <1>5, <1>7, <2>2 DEF PushedSoFar
  <2>5. ASSUME s.fits PROVE PushedTo(s.buffer, s.list, packets)
    <3>1. PushedTo(s.buffer, s.list, s.packets)
      BY <2>5 DEF PushedSoFar
    <3>2. \A k : (\E j \in DOMAIN packets :
                    IsReliable(packets[j]) /\ s.buffer[k] = packets[j] /\ k = Slot(packets[j].number))
                 <=> \E j \in DOMAIN s.packets :
                       IsReliable(s.packets[j]) /\ s.buffer[k] = s.packets[j] /\ k = Slot(s.packets[j].number)
      BY <1>4, <1>5, <1>7, <2>2
    <3>3. \A x : (\E j \in DOMAIN packets : IsReliable(packets[j]) /\ packets[j].number = x)
                 <=> \E j \in DOMAIN s.packets : IsReliable(s.packets[j]) /\ s.packets[j].number = x
      BY <1>4, <1>5, <1>7, <2>2
    <3>4. \A j \in DOMAIN packets : IsReliable(packets[j]) => s.buffer[Slot(packets[j].number)] = packets[j]
      BY <1>4, <1>5, <1>7, <2>2, <3>1 DEF PushedTo
    <3>. QED BY <3>1, <3>2, <3>3, <3>4 DEF PushedTo
  <2>6. Offset(s.next) >= Numbered /\ Offset(s.next) <= Numbered + i
    <3>1. Offset(s.next) >= Numbered /\ Offset(s.next) <= Numbered + (i - 1)
      BY DEF PushedSoFar
    <3>. QED BY <1>1, <1>2, <3>1
  <2> HIDE DEF t
  <2>. QED BY <2>1, <2>2, <2>3, <2>4, <2>5, <2>6 DEF PushedSoFar, t, p
<1>. QED BY <1>6, <1>7 DEF p

\* What Pushed returns.
LEMMA PushedFacts ==
  ASSUME QueueIsTyped, scenario.first \in Number, Numbered + Len(outgoingPacketBuffer) < NumberRange,
         \A j \in DOMAIN outgoingPacketBuffer : outgoingPacketBuffer[j].id # 0,
         Listed(resendBuffer, resendList), NEW n \in 0 .. Len(outgoingPacketBuffer)
  PROVE  Pushed(n) \in PushState /\ PushedSoFar(Pushed(n), n)
<1>1. PICK f \in [0 .. n -> PushState] :
        /\ f[0] = NonePushed /\ Pushed(n) = f[n]
        /\ \A i \in 1 .. n : f[i] = PushPacket(f[i - 1], outgoingPacketBuffer[i])
  BY PushedIsLoop
<1>2. n \in Nat /\ \A i \in 1 .. n : i \in 1 .. Len(outgoingPacketBuffer) /\ i - 1 \in 0 .. n
  BY DEF QueueIsTyped
<1> DEFINE K == {i \in 0 .. n : PushedSoFar(f[i], i)}
<1>3. 0 \in K
  <2>1. Numbered \in Nat
    <3>1. Numbered \in Number
      BY OffsetFacts DEF QueueIsTyped, Numbered
    <3>. QED BY <3>1, WrapFacts DEF Number
  <2>2. PushedTo(resendBuffer, resendList, <<>>)
    BY DEF PushedTo
  <2>3. PushedSoFar(NonePushed, 0)
    BY <2>1, <2>2 DEF PushedSoFar, NonePushed, Numbered
  <2>. QED BY <1>1, <1>2, <2>3
<1>4. ASSUME NEW i \in 1 .. n, i - 1 \in K PROVE i \in K
  <2>1. /\ f[i - 1] \in PushState /\ PushedSoFar(f[i - 1], i - 1) /\ i \in 0 .. n
        /\ i \in 1 .. Len(outgoingPacketBuffer) /\ f[i] = PushPacket(f[i - 1], outgoingPacketBuffer[i])
    BY <1>1, <1>2, <1>4
  <2>2. PushedSoFar(PushPacket(f[i - 1], outgoingPacketBuffer[i]), i)
    BY <2>1, PushStep
  <2>. QED BY <2>1, <2>2
<1> HIDE DEF K
<1>5. n \in K
  <2>1. \A i \in 1 .. n : i - 1 \in K => i \in K
    BY <1>4
  <2>2. n \in Nat /\ n \in 0 .. n
    BY <1>2
  <2>. QED BY <1>3, <2>1, <2>2, InductionUpTo
<1>6. n \in 0 .. n
  BY <1>2
<1>. QED BY <1>1, <1>5, <1>6 DEF K

-----------------------------------------------------------------------------
(* What the receiver does with a packet *)

ReceiverNow == {r \in Receiver : r.orderingHeap \in Seq([weight : Nat, id : DOMAIN sent])}

\* The receiver takes in nothing between the two.
SameIntake(r, s) ==
  /\ s.receivedPacketsBaseIndex = r.receivedPacketsBaseIndex
  /\ s.hasReceivedPacketQueue = r.hasReceivedPacketQueue
  /\ s.accepted = r.accepted

LEMMA SentTyped ==
  ASSUME sent \in Seq(SentMessage), NEW id \in DOMAIN sent
  PROVE  /\ id \in Nat \ {0}
         /\ sent[id].orderingIndex \in Number /\ sent[id].sequencingIndex \in Number
         /\ sent[id].parts \in 1 .. 2 /\ sent[id].reliability \in PacketReliability
<1>1. id \in 1 .. Len(sent) /\ Len(sent) \in Nat /\ sent[id] \in SentMessage
  OBVIOUS
<1>2. id \in Nat \ {0}
  BY <1>1
<1>3. /\ sent[id].orderingIndex \in Number /\ sent[id].sequencingIndex \in Number
      /\ sent[id].parts \in 1 .. 2 /\ sent[id].reliability \in PacketReliability
  BY <1>1 DEF SentMessage, Number
<1>. QED BY <1>2, <1>3

LEMMA OutputTyped ==
  ASSUME NEW r \in ReceiverNow, NEW id \in Nat
  PROVE  /\ Output(r, id) \in ReceiverNow /\ SameIntake(r, Output(r, id))
         /\ Output(r, id).orderingHeap = r.orderingHeap
<1>1. r.outputQueue \in Seq(Nat) /\ Append(r.outputQueue, id) \in Seq(Nat)
  BY DEF ReceiverNow, Receiver
<1>. QED BY <1>1 DEF ReceiverNow, Receiver, Output, SameIntake

LEMMA PopFirstTyped ==
  ASSUME sent \in Seq(SentMessage), NEW r \in ReceiverNow, NEW e
  PROVE  PopFirst(r, e) \in ReceiverNow /\ SameIntake(r, PopFirst(r, e))
<1>1. CASE r.orderingHeap = <<>> \/ r.orderingHeap[1] # e \/ sent[e.id].orderingIndex # r.orderedReadIndex
  <2>1. PopFirst(r, e) = r
    BY <1>1 DEF PopFirst
  <2>. QED BY <2>1 DEF SameIntake
<1>2. CASE ~(r.orderingHeap = <<>> \/ r.orderingHeap[1] # e \/ sent[e.id].orderingIndex # r.orderedReadIndex)
  <2> DEFINE out == Output(r, e.id)
             popped == [out EXCEPT !.orderingHeap = Tail(@)]
  <2>1. e \in [weight : Nat, id : DOMAIN sent] /\ Tail(r.orderingHeap) \in Seq([weight : Nat, id : DOMAIN sent])
    <3>1. ASSUME NEW S, NEW q \in Seq(S), q # <<>> PROVE q[1] \in S /\ Tail(q) \in Seq(S)
      BY <3>1
    <3>2. r.orderingHeap \in Seq([weight : Nat, id : DOMAIN sent])
      BY DEF ReceiverNow
    <3>. QED BY <1>2, <3>1, <3>2
  <2>2. e.id \in DOMAIN sent /\ e.id \in Nat
    BY <2>1, SentTyped
  <2>3. out \in ReceiverNow /\ SameIntake(r, out) /\ out.orderingHeap = r.orderingHeap
    BY <2>2, OutputTyped
  <2>4. Tail(r.orderingHeap) \in Seq([weight : Nat, id : Nat])
    BY <1>2 DEF ReceiverNow, Receiver
  <2> HIDE DEF out
  <2>5. popped \in ReceiverNow /\ SameIntake(r, popped)
    BY <2>1, <2>3, <2>4 DEF ReceiverNow, Receiver, SameIntake
  <2> HIDE DEF popped
  <2>6. PopFirst(r, e) = IF sent[e.id].reliability \in Sequenced
                         THEN [popped EXCEPT !.highestSequencedReadIndex = sent[e.id].sequencingIndex]
                         ELSE [popped EXCEPT !.orderedReadIndex = Wrap(@ + 1)]
    BY <1>2 DEF PopFirst, popped, out
  <2>7. sent[e.id].sequencingIndex \in 0 .. NumberRange - 1 /\ Wrap(popped.orderedReadIndex + 1) \in 0 .. NumberRange - 1
    <3>1. popped.orderedReadIndex \in 0 .. NumberRange - 1
      BY <2>5 DEF ReceiverNow, Receiver
    <3>2. popped.orderedReadIndex + 1 \in Int
      BY <3>1, WrapFacts
    <3>. QED BY <2>2, <3>2, SentTyped, WrapFacts DEF Number
  <2>. QED BY <2>5, <2>6, <2>7 DEF ReceiverNow, Receiver, SameIntake
<1>. QED BY <1>1, <1>2

LEMMA PopHeapTyped ==
  ASSUME sent \in Seq(SentMessage), NEW r \in ReceiverNow
  PROVE  PopHeap(r) \in ReceiverNow /\ SameIntake(r, PopHeap(r))
<1> DEFINE n == Len(r.orderingHeap)
           A == {s \in ReceiverNow : SameIntake(r, s)}
           step == [x \in A \X (1 .. n) |-> PopFirst(x[1], r.orderingHeap[x[2]])]
           popped[i \in 0 .. n] == IF i = 0 THEN r ELSE PopFirst(popped[i - 1], r.orderingHeap[i])
<1>1. n \in Nat /\ r \in A
  BY DEF ReceiverNow, SameIntake
<1> HIDE DEF n
<1>2. ASSUME NEW s \in A, NEW e PROVE PopFirst(s, e) \in A
  <2>1. s \in ReceiverNow /\ SameIntake(r, s)
    OBVIOUS
  <2>2. PopFirst(s, e) \in ReceiverNow /\ SameIntake(s, PopFirst(s, e))
    BY <2>1, PopFirstTyped
  <2>. QED BY <2>1, <2>2 DEF SameIntake
<1> HIDE DEF A
<1>3. step \in [A \X (1 .. n) -> A]
  BY <1>2
<1>4. \A s \in A : \A i \in 1 .. n : step[<<s, i>>] = PopFirst(s, r.orderingHeap[i])
  OBVIOUS
<1> HIDE DEF step
<1>5. PICK f : IsLoop(f, A, n, r, step)
  BY <1>1, <1>3, RecursionUpTo
<1>6. /\ f \in [0 .. n -> A] /\ f[0] = r
      /\ \A i \in 1 .. n : f[i] = PopFirst(f[i - 1], r.orderingHeap[i])
  <2>1. \A i \in 1 .. n : i - 1 \in 0 .. n
    BY <1>1
  <2>. QED BY <1>4, <1>5, <2>1 DEF IsLoop
<1>7. f = [i \in 0 .. n |-> IF i = 0 THEN r ELSE PopFirst(f[i - 1], r.orderingHeap[i])]
  <2>1. \A i \in 0 .. n : i = 0 \/ i \in 1 .. n
    BY <1>1
  <2>. QED BY <1>6, <2>1
<1>8. popped = [i \in 0 .. n |-> IF i = 0 THEN r ELSE PopFirst(popped[i - 1], r.orderingHeap[i])]
  <2>1. \E g : g = [i \in 0 .. n |-> IF i = 0 THEN r ELSE PopFirst(g[i - 1], r.orderingHeap[i])]
    BY <1>7
  <2>. QED BY <2>1, Zenon DEF popped
<1>9. PopHeap(r) = popped[n]
  BY DEF PopHeap, n
<1> HIDE DEF popped
<1> DEFINE K == {i \in 0 .. n : popped[i] \in A}
<1>10. n \in K
  <2>1. 0 \in K
    BY <1>1, <1>8
  <2>2. ASSUME NEW i \in 1 .. n, i - 1 \in K PROVE i \in K
    <3>1. i \in 0 .. n /\ i # 0
      BY <1>1
    <3>. QED BY <1>2, <1>8, <2>2, <3>1
  <2> HIDE DEF K
  <2>3. n \in Nat
    BY <1>1
  <2>4. \A i \in 0 .. n : i \in K
    BY <2>1, <2>2, <2>3, InductionUpTo
  <2>. QED BY <2>3, <2>4
<1>. QED BY <1>9, <1>10 DEF A

\* The numbers up to n are n.
LEMMA UpToIsFinite ==
  ASSUME NEW n \in Nat PROVE IsFiniteSet(1 .. n) /\ Cardinality(1 .. n) = n
<1>1. 1 \in Int /\ n \in Int /\ n - 1 + 1 = n /\ (1 > n => n = 0)
  OBVIOUS
<1>. QED BY <1>1, FS_Interval

LEMMA PushHeapTyped ==
  ASSUME sent \in Seq(SentMessage), NEW r0 \in ReceiverNow, NEW id \in DOMAIN sent
  PROVE  PushHeap(r0, id) \in ReceiverNow /\ SameIntake(r0, PushHeap(r0, id))
<1> DEFINE r == IF r0.orderingHeap = <<>> THEN [r0 EXCEPT !.heapIndexOffset = r0.orderedReadIndex] ELSE r0
           weight == Wrap(sent[id].orderingIndex - r.heapIndexOffset) * SequenceWeight
                     + IF sent[id].reliability \in Sequenced THEN sent[id].sequencingIndex
                       ELSE SequenceWeight - 1
           S == {i \in DOMAIN r.orderingHeap : r.orderingHeap[i].weight <= weight}
           before == Cardinality(S)
           item == [weight |-> weight, id |-> id]
           heap == InsertAt(r.orderingHeap, before + 1, item)
<1>1. r \in ReceiverNow /\ SameIntake(r0, r)
  BY DEF ReceiverNow, Receiver, SameIntake
<1>2. /\ sent[id].sequencingIndex \in Nat /\ sent[id].orderingIndex \in Int /\ id \in Nat
      /\ SequenceWeight \in Nat \ {0}
  BY SentTyped, WrapFacts, ReliabilityAssumption DEF Number
<1> HIDE DEF r
<1>3. weight \in Nat
  <2>1. r.heapIndexOffset \in Int
    BY <1>1, WrapFacts DEF ReceiverNow, Receiver
  <2>2. sent[id].orderingIndex - r.heapIndexOffset \in Int
    BY <1>2, <2>1
  <2>3. Wrap(sent[id].orderingIndex - r.heapIndexOffset) \in Nat
    BY <2>2, WrapFacts
  <2>4. ASSUME NEW a \in Nat, NEW b \in Nat PROVE a * b \in Nat
    OBVIOUS
  <2>5. Wrap(sent[id].orderingIndex - r.heapIndexOffset) * SequenceWeight \in Nat
    BY <1>2, <2>3, <2>4
  <2>. QED BY <1>2, <2>5
<1> HIDE DEF weight
<1>4. before \in 0 .. Len(r.orderingHeap) /\ Len(r.orderingHeap) \in Nat
  <2>1. DOMAIN r.orderingHeap = 1 .. Len(r.orderingHeap) /\ Len(r.orderingHeap) \in Nat
    BY <1>1 DEF ReceiverNow
  <2>2. S \subseteq 1 .. Len(r.orderingHeap)
    BY <2>1
  <2>3. IsFiniteSet(1 .. Len(r.orderingHeap)) /\ Cardinality(1 .. Len(r.orderingHeap)) = Len(r.orderingHeap)
    BY <2>1, UpToIsFinite, Zenon
  <2> HIDE DEF S
  <2>4. IsFiniteSet(S) /\ Cardinality(S) <= Len(r.orderingHeap)
    BY <2>2, <2>3, FS_Subset
  <2>. QED BY <2>1, <2>4, FS_CardinalityType
<1> HIDE DEF before
<1>5. item \in [weight : Nat, id : DOMAIN sent] /\ item \in [weight : Nat, id : Nat]
  BY <1>2, <1>3
<1> HIDE DEF item
<1>6. ASSUME NEW M, r.orderingHeap \in Seq(M), item \in M PROVE heap \in Seq(M)
  <2> DEFINE q == r.orderingHeap
  <2>1. q \in Seq(M) /\ before \in 0 .. Len(q) /\ Len(q) \in Nat
    BY <1>4, <1>6
  <2> HIDE DEF q
  <2>2. SubSeq(q, 1, before) \in Seq(M) /\ SubSeq(q, before + 1, Len(q)) \in Seq(M)
    BY <2>1
  <2>3. SubSeq(q, 1, before + 1 - 1) = SubSeq(q, 1, before)
    BY <2>1
  <2>4. <<item>> \in Seq(M)
    BY <1>6
  <2>. QED BY <2>2, <2>3, <2>4 DEF InsertAt, q
<1>7. PushHeap(r0, id) = [r EXCEPT !.orderingHeap = heap]
  BY DEF PushHeap, r, weight, before, item
<1> HIDE DEF heap
<1>8. heap \in Seq([weight : Nat, id : DOMAIN sent]) /\ heap \in Seq([weight : Nat, id : Nat])
  BY <1>1, <1>5, <1>6 DEF ReceiverNow, Receiver
<1>. QED BY <1>1, <1>7, <1>8 DEF ReceiverNow, Receiver, SameIntake

LEMMA DeliverTyped ==
  ASSUME sent \in Seq(SentMessage), NEW r \in ReceiverNow, NEW id \in DOMAIN sent
  PROVE  Deliver(r, id) \in ReceiverNow /\ SameIntake(r, Deliver(r, id))
<1> DEFINE m == sent[id]
           out == Output(r, id)
           ordered == [out EXCEPT !.orderedReadIndex = Wrap(@ + 1), !.highestSequencedReadIndex = 0]
           sequenced == [out EXCEPT !.highestSequencedReadIndex = Wrap(m.sequencingIndex + 1)]
<1>1. id \in Nat /\ m.sequencingIndex \in Number
  BY SentTyped
<1>2. out \in ReceiverNow /\ SameIntake(r, out)
  BY <1>1, OutputTyped
<1>3. /\ Wrap(out.orderedReadIndex + 1) \in 0 .. NumberRange - 1
      /\ Wrap(m.sequencingIndex + 1) \in 0 .. NumberRange - 1 /\ 0 \in 0 .. NumberRange - 1
  <2> HIDE DEF out
  <2>0. out.orderedReadIndex \in 0 .. NumberRange - 1
    BY <1>2 DEF ReceiverNow, Receiver
  <2>1. out.orderedReadIndex + 1 \in Int /\ m.sequencingIndex + 1 \in Int
    BY <1>1, <2>0, WrapFacts DEF Number
  <2>. QED BY <2>1, WrapFacts
<1> HIDE DEF out
<1>4. ordered \in ReceiverNow /\ SameIntake(r, ordered)
  BY <1>2, <1>3 DEF ReceiverNow, Receiver, SameIntake
<1>5. sequenced \in ReceiverNow /\ SameIntake(r, sequenced)
  BY <1>2, <1>3 DEF ReceiverNow, Receiver, SameIntake
<1>6. r \in ReceiverNow /\ SameIntake(r, r)
  BY DEF SameIntake
<1>7. PushHeap(r, id) \in ReceiverNow /\ SameIntake(r, PushHeap(r, id))
  BY PushHeapTyped
<1> HIDE DEF ordered, sequenced
<1>8. PopHeap(ordered) \in ReceiverNow /\ SameIntake(r, PopHeap(ordered))
  <2>1. PopHeap(ordered) \in ReceiverNow /\ SameIntake(ordered, PopHeap(ordered))
    BY <1>4, PopHeapTyped
  <2>. QED BY <1>4, <2>1 DEF SameIntake
<1>9. Deliver(r, id) \in {r, out, PushHeap(r, id), PopHeap(ordered), sequenced}
  BY DEF Deliver, ordered, sequenced, out
<1>. QED BY <1>2, <1>5, <1>6, <1>7, <1>8, <1>9

LEMMA AssembleTyped ==
  ASSUME sent \in Seq(SentMessage), NEW r \in ReceiverNow, NEW p, IsPart(p)
  PROVE  Assemble(r, p) \in ReceiverNow /\ SameIntake(r, Assemble(r, p))
<1> DEFINE parts == {x \in r.splitPackets : x[1] = p.id} \cup {<<p.id, p.part>>}
           whole == [r EXCEPT !.splitPackets = @ \ parts]
           more == [r EXCEPT !.splitPackets = @ \cup parts]
<1>1. p.id \in DOMAIN sent /\ parts \subseteq Nat \X Nat
  BY DEF IsPart, ReceiverNow, Receiver, InternalPacket
<1> HIDE DEF parts
<1>2. /\ whole \in ReceiverNow /\ SameIntake(r, whole)
      /\ more \in ReceiverNow /\ SameIntake(r, more)
  BY <1>1 DEF ReceiverNow, Receiver, SameIntake
<1>3. Assemble(r, p) \in {Deliver(whole, p.id), more}
  BY DEF Assemble, parts
<1> HIDE DEF whole, more
<1>4. Deliver(whole, p.id) \in ReceiverNow /\ SameIntake(r, Deliver(whole, p.id))
  <2>1. Deliver(whole, p.id) \in ReceiverNow /\ SameIntake(whole, Deliver(whole, p.id))
    BY <1>1, <1>2, DeliverTyped
  <2>. QED BY <1>2, <2>1 DEF SameIntake
<1>. QED BY <1>2, <1>3, <1>4

-----------------------------------------------------------------------------
(* The numbers the receiver has noted *)

\* How many numbers leave the queue.
LEMMA NoHoleBefore ==
  ASSUME NEW h \in Seq(BOOLEAN)
  PROVE  LET c == Cardinality({i \in DOMAIN h : \A j \in 1 .. i : ~h[j]})
         IN c \in 0 .. Len(h) /\ \A i \in 1 .. c : ~h[i]
<1> DEFINE S == {i \in DOMAIN h : \A j \in 1 .. i : ~h[j]}
           T == {i \in 1 .. Len(h) + 1 : i \notin S}
<1>1. DOMAIN h = 1 .. Len(h) /\ Len(h) \in Nat
  OBVIOUS
<1>2. T \subseteq Nat /\ Len(h) + 1 \in T
  BY <1>1
<1>3. PICK x \in T : \A y \in T : x <= y
  <2> HIDE DEF T
  <2>. QED BY <1>2, LeastNumber
<1>4. x \in Nat /\ x >= 1 /\ x <= Len(h) + 1 /\ x \notin S
  BY <1>1
<1>5. S = 1 .. x - 1
  <2>1. ASSUME NEW i \in S PROVE i \in 1 .. x - 1
    <3>1. CASE i >= x
      <4>1. \A j \in 1 .. x : j \in 1 .. i
        BY <1>1, <1>4, <3>1
      <4>2. x \in DOMAIN h
        BY <1>1, <1>4, <3>1
      <4>. QED BY <1>4, <4>1, <4>2
    <3>. QED BY <1>1, <1>4, <3>1
  <2>2. ASSUME NEW i \in 1 .. x - 1 PROVE i \in S
    <3>1. i \in 1 .. Len(h) + 1 /\ ~(x <= i)
      BY <1>1, <1>4
    <3>2. i \notin T
      BY <1>3, <3>1
    <3>. QED BY <3>1, <3>2
  <2> HIDE DEF S
  <2>. QED BY <2>1, <2>2
<1>6. Cardinality(S) = x - 1
  <2>1. x - 1 \in Nat /\ 1 \in Nat
    BY <1>4
  <2>2. Cardinality(1 .. x - 1) = x - 1
    BY <1>4, <2>1, FS_Interval
  <2>. QED BY <1>5, <2>2
<1>7. x - 1 \in 0 .. Len(h)
  BY <1>1, <1>4
<1>8. ASSUME NEW i \in 1 .. x - 1 PROVE ~h[i]
  <2>1. i \in S /\ i \in 1 .. i
    BY <1>4, <1>5
  <2>. QED BY <2>1
<1>. QED BY <1>6, <1>7, <1>8

Half == (NumberRange - 1) \div 2

LEMMA HalfFacts == Half \in Nat /\ 2 * Half <= NumberRange - 1
BY WrapFacts DEF Half

\* The numbers that are used are within half of the range.
FewAreNumbered == scenario.first \in Number /\ Numbered \in Nat /\ Numbered <= Half

\* The receiver has heard of no number that has not been used.
Heard(r) ==
  /\ r.receivedPacketsBaseIndex \in Number /\ r.hasReceivedPacketQueue \in Seq(BOOLEAN)
  /\ Offset(r.receivedPacketsBaseIndex) + Len(r.hasReceivedPacketQueue) <= Numbered

LEMMA HoleFacts ==
  ASSUME FewAreNumbered, NEW r, Heard(r), NEW p, p.number \in Number, Offset(p.number) < Numbered
  PROVE  LET B == Offset(r.receivedPacketsBaseIndex)
             k == Offset(p.number)
         IN /\ IsDuplicate(r, p) => Noted(r, p.number)
            /\ ~IsDuplicate(r, p) => B <= k /\ HoleCount(r, p) = k - B
<1> DEFINE B == Offset(r.receivedPacketsBaseIndex)
           k == Offset(p.number)
           L == Len(r.hasReceivedPacketQueue)
           q == r.hasReceivedPacketQueue
           hole == HoleCount(r, p)
<1>1. /\ B \in Nat /\ k \in Nat /\ L \in Nat /\ k < Numbered /\ B + L <= Numbered
      /\ B < NumberRange /\ k < NumberRange /\ NumberRange \in Nat
  <2>1. B \in Number /\ k \in Number
    BY OffsetFacts DEF FewAreNumbered, Heard
  <2>2. L \in Nat /\ B + L <= Numbered
    BY DEF Heard
  <2>. QED BY <2>1, <2>2, WrapFacts DEF Number
<1>2. hole = IF k >= B THEN k - B ELSE k - B + NumberRange
  BY OffsetFacts DEF HoleCount, FewAreNumbered, Heard
<1>3. /\ IsDuplicate(r, p) <=> (hole > Half \/ (hole # 0 /\ hole < L /\ ~q[hole + 1]))
      /\ Noted(r, p.number) <=> (k < B \/ (k < B + L /\ ~q[k - B + 1]))
  BY DEF IsDuplicate, Half, Noted
<1>4. Numbered \in Nat /\ Numbered <= Half /\ Half \in Nat /\ 2 * Half <= NumberRange - 1
  BY HalfFacts DEF FewAreNumbered
<1> HIDE DEF B, k, L, q, hole
<1>5. CASE k >= B
  BY <1>1, <1>2, <1>3, <1>4, <1>5 DEF B, k, hole
<1>6. CASE ~(k >= B)
  <2>1. hole > Half
    BY <1>1, <1>2, <1>4, <1>6
  <2>. QED BY <1>1, <1>3, <1>6, <2>1 DEF B, k
<1>. QED BY <1>5, <1>6

\* What Holes returns: the number no longer counts as missing.
LEMMA HolesFacts ==
  ASSUME NEW r, NEW p, r.hasReceivedPacketQueue \in Seq(BOOLEAN), HoleCount(r, p) \in Nat
  PROVE  LET q == r.hasReceivedPacketQueue
             h == Holes(r, p)
             hole == HoleCount(r, p)
         IN /\ h \in Seq(BOOLEAN)
            /\ Len(h) = IF hole < Len(q) THEN Len(q) ELSE hole + 1
            /\ \A j \in 1 .. Len(h) : ~h[j] => j = hole + 1 \/ (j <= Len(q) /\ ~q[j])
<1> DEFINE q == r.hasReceivedPacketQueue
           hole == HoleCount(r, p)
<1>1. q \in Seq(BOOLEAN) /\ hole \in Nat /\ Len(q) \in Nat
  OBVIOUS
<1>2. Holes(r, p) = IF hole < Len(q) THEN [q EXCEPT ![hole + 1] = FALSE]
                    ELSE q \o [i \in 1 .. hole - Len(q) |-> TRUE] \o <<FALSE>>
  BY DEF Holes
<1> HIDE DEF q, hole
<1>3. CASE hole < Len(q)
  <2>1. [q EXCEPT ![hole + 1] = FALSE] \in Seq(BOOLEAN) /\ Len([q EXCEPT ![hole + 1] = FALSE]) = Len(q)
    BY <1>1, <1>3
  <2>2. \A j \in 1 .. Len(q) : j # hole + 1 => [q EXCEPT ![hole + 1] = FALSE][j] = q[j]
    BY <1>1
  <2>. QED BY <1>1, <1>2, <1>3, <2>1, <2>2 DEF q, hole
<1>4. CASE ~(hole < Len(q))
  <2> DEFINE ones == [i \in 1 .. hole - Len(q) |-> TRUE]
  <2>1. ones \in Seq(BOOLEAN) /\ Len(ones) = hole - Len(q) /\ \A i \in 1 .. hole - Len(q) : ones[i] = TRUE
    BY <1>1, <1>4
  <2>2. <<FALSE>> \in Seq(BOOLEAN) /\ Len(<<FALSE>>) = 1
    OBVIOUS
  <2> HIDE DEF ones
  <2> DEFINE long == q \o ones
  <2>3. /\ long \in Seq(BOOLEAN) /\ Len(long) = hole
        /\ \A j \in 1 .. hole : long[j] = IF j <= Len(q) THEN q[j] ELSE ones[j - Len(q)]
    BY <1>1, <1>4, <2>1
  <2> HIDE DEF long
  <2> DEFINE h == long \o <<FALSE>>
  <2>4. /\ h \in Seq(BOOLEAN) /\ Len(h) = hole + 1
        /\ \A j \in 1 .. hole : h[j] = long[j]
    BY <1>1, <2>2, <2>3
  <2>5. \A j \in 1 .. hole + 1 : j = hole + 1 \/ j \in 1 .. hole
    BY <1>1
  <2>7. \A j \in 1 .. hole : ~long[j] => j <= Len(q) /\ ~q[j]
    <3>1. ASSUME NEW j \in 1 .. hole, ~long[j] PROVE j <= Len(q) /\ ~q[j]
      <4>1. CASE j <= Len(q)
        BY <2>3, <3>1, <4>1
      <4>2. CASE ~(j <= Len(q))
        <5>1. j - Len(q) \in 1 .. hole - Len(q)
          BY <1>1, <4>2
        <5>2. long[j] = ones[j - Len(q)]
          BY <2>3, <4>2
        <5>. QED BY <2>1, <3>1, <5>1, <5>2
      <4>. QED BY <4>1, <4>2
    <3>. QED BY <3>1
  <2>8. Holes(r, p) = h
    BY <1>2, <1>4 DEF h, long, ones
  <2> HIDE DEF h
  <2>. QED BY <1>4, <2>4, <2>5, <2>7, <2>8 DEF q, hole
<1>. QED BY <1>3, <1>4

\* After a number has been noted, it is the only new one.
LEMMA NoteFacts ==
  ASSUME FewAreNumbered, NEW r \in ReceiverNow, Heard(r), NEW p, p.number \in Number,
         Offset(p.number) < Numbered, ~IsDuplicate(r, p)
  PROVE  LET s == NoteNumber(r, p)
         IN /\ s \in ReceiverNow /\ Heard(s) /\ s.accepted = r.accepted
            /\ \A x \in Number : Noted(s, x) => x = p.number \/ Noted(r, x)
<1> DEFINE B == Offset(r.receivedPacketsBaseIndex)
           base == r.receivedPacketsBaseIndex
           k == Offset(p.number)
           q == r.hasReceivedPacketQueue
           h == Holes(r, p)
           c == Cardinality({i \in DOMAIN h : \A j \in 1 .. i : ~h[j]})
           s == NoteNumber(r, p)
<1>1. /\ B \in Nat /\ k \in Nat /\ q \in Seq(BOOLEAN) /\ Len(q) \in Nat /\ k < Numbered
      /\ B + Len(q) <= Numbered /\ NumberRange \in Nat /\ base \in Number
      /\ Numbered \in Nat /\ Numbered < NumberRange
  <2>1. B \in Number /\ k \in Number
    BY OffsetFacts DEF FewAreNumbered, Heard
  <2>2. q \in Seq(BOOLEAN) /\ B + Len(q) <= Numbered /\ base \in Number
    BY DEF Heard
  <2>3. Numbered < NumberRange
    BY HalfFacts, WrapFacts DEF FewAreNumbered
  <2>. QED BY <2>1, <2>2, <2>3, WrapFacts DEF Number, FewAreNumbered
<1>2. B <= k /\ HoleCount(r, p) = k - B
  BY HoleFacts
<1>3. /\ h \in Seq(BOOLEAN) /\ Len(h) = IF k - B < Len(q) THEN Len(q) ELSE k - B + 1
      /\ \A j \in 1 .. Len(h) : ~h[j] => j = k - B + 1 \/ (j <= Len(q) /\ ~q[j])
  <2>1. HoleCount(r, p) \in Nat /\ r.hasReceivedPacketQueue \in Seq(BOOLEAN)
    BY <1>1, <1>2
  <2>. QED BY <1>2, <2>1, HolesFacts
<1> HIDE DEF h
<1>4. c \in 0 .. Len(h) /\ \A i \in 1 .. c : ~h[i]
  BY <1>3, NoHoleBefore
<1>5. s = [r EXCEPT !.hasReceivedPacketQueue = SubSeq(h, c + 1, Len(h)),
                    !.receivedPacketsBaseIndex = Wrap(base + c)]
  BY DEF NoteNumber, h
<1> HIDE DEF c, s
<1>6. Len(h) \in Nat /\ B + Len(h) <= Numbered /\ c \in Nat /\ c <= Len(h)
  BY <1>1, <1>2, <1>3, <1>4
<1>7. Wrap(base + c) \in Number /\ Offset(Wrap(base + c)) = B + c
  <2>1. c \in Nat /\ B + c < NumberRange
    BY <1>1, <1>6
  <2>. QED BY <1>1, <2>1, OffsetFacts DEF FewAreNumbered
<1> DEFINE rest == SubSeq(h, c + 1, Len(h))
<1>8. /\ rest \in Seq(BOOLEAN) /\ Len(rest) = Len(h) - c
      /\ \A i \in 1 .. Len(h) - c : rest[i] = h[c + i]
  BY <1>3, <1>6
<1> HIDE DEF rest
<1>9. s \in ReceiverNow /\ s.accepted = r.accepted
      /\ s.receivedPacketsBaseIndex = Wrap(base + c) /\ s.hasReceivedPacketQueue = rest
  BY <1>5, <1>7, <1>8 DEF ReceiverNow, Receiver, Number, rest
<1>10. Heard(s)
  BY <1>1, <1>6, <1>7, <1>8, <1>9 DEF Heard
<1>11. ASSUME NEW x \in Number, Noted(s, x) PROVE x = p.number \/ Noted(r, x)
  <2> DEFINE y == Offset(x)
  <2>1. y \in Nat
    <3>1. y \in Number
      BY OffsetFacts DEF FewAreNumbered
    <3>. QED BY <3>1, WrapFacts DEF Number
  <2>2. y < B + c \/ (y < B + c + (Len(h) - c) /\ ~rest[y - (B + c) + 1])
    BY <1>7, <1>8, <1>9, <1>11 DEF Noted
  <2>3. Noted(r, x) <=> (y < B \/ (y < B + Len(q) /\ ~q[y - B + 1]))
    BY DEF Noted
  <2> HIDE DEF y, B, k, q
  <2>4. y < B \/ (y - B + 1 \in 1 .. Len(h) /\ ~h[y - B + 1])
    <3>1. CASE y < B
      BY <3>1
    <3>2. CASE ~(y < B) /\ y < B + c
      <4>1. y - B + 1 \in 1 .. c /\ y - B + 1 \in 1 .. Len(h)
        BY <1>1, <1>6, <2>1, <3>2
      <4>. QED BY <1>4, <4>1
    <3>3. CASE ~(y < B) /\ ~(y < B + c)
      <4> DEFINE i == y - (B + c) + 1
      <4>1. i \in 1 .. Len(h) - c /\ c + i = y - B + 1 /\ y - B + 1 \in 1 .. Len(h)
        BY <1>1, <1>6, <2>1, <2>2, <3>3
      <4>2. ~rest[i]
        BY <2>2, <3>3
      <4>. QED BY <1>8, <4>1, <4>2
    <3>. QED BY <3>1, <3>2, <3>3
  <2>5. CASE y = k
    BY <2>5, OffsetFacts DEF FewAreNumbered, y, k
  <2>6. CASE y # k
    <3>1. y - B + 1 # k - B + 1
      BY <1>1, <2>1, <2>6
    <3>2. y < B \/ (y - B + 1 <= Len(q) /\ ~q[y - B + 1])
      BY <1>3, <2>4, <3>1
    <3>3. y < B \/ (y < B + Len(q) /\ ~q[y - B + 1])
      BY <1>1, <2>1, <3>2
    <3>. QED BY <2>3, <3>3
  <2>. QED BY <2>5, <2>6
<1>. QED BY <1>9, <1>10, <1>11 DEF s

-----------------------------------------------------------------------------
(* What the receiver does with a datagram *)

\* What has been noted has been accepted.
TakenIn(r) ==
  /\ r \in ReceiverNow /\ Heard(r)
  /\ \A p \in Packets : IsReliable(p) /\ Noted(r, p.number) => Key(p) \in r.accepted

LEMMA SameNoted ==
  ASSUME NEW r, NEW s, SameIntake(r, s)
  PROVE  (Heard(s) <=> Heard(r)) /\ \A x : Noted(s, x) <=> Noted(r, x)
BY DEF SameIntake, Heard, Noted

LEMMA ReceivePacketFacts ==
  ASSUME FewAreNumbered, sent \in Seq(SentMessage), PacketsAreNumbered,
         NEW r, TakenIn(r), NEW p \in Packets
  PROVE  LET s == ReceivePacket(r, p)
         IN TakenIn(s) /\ Key(p) \in s.accepted /\ r.accepted \subseteq s.accepted
<1> DEFINE s == ReceivePacket(r, p)
           noted == IF IsReliable(p) THEN NoteNumber(r, p) ELSE r
           taken == [noted EXCEPT !.accepted = @ \cup {Key(p)}]
<1>1. /\ IsPart(p) /\ p.number \in Number /\ p.id \in DOMAIN sent /\ p.id \in Nat /\ p.part \in Nat
      /\ IsReliable(p) => Offset(p.number) < Numbered
  BY DEF PacketsAreNumbered, IsPart, InternalPacket, Number
<1>2. r \in ReceiverNow /\ Heard(r)
  BY DEF TakenIn
<1>3. CASE IsReliable(p) /\ IsDuplicate(r, p)
  <2>1. s = r
    BY <1>3 DEF ReceivePacket, IsReliable
  <2>2. Noted(r, p.number)
    BY <1>1, <1>2, <1>3, HoleFacts
  <2>. QED BY <1>3, <2>1, <2>2 DEF TakenIn
<1>4. CASE ~(IsReliable(p) /\ IsDuplicate(r, p))
  <2>1. /\ noted \in ReceiverNow /\ Heard(noted) /\ noted.accepted = r.accepted
        /\ \A x \in Number : Noted(noted, x) => (IsReliable(p) /\ x = p.number) \/ Noted(r, x)
    <3>1. CASE IsReliable(p)
      BY <1>1, <1>2, <1>4, <3>1, NoteFacts
    <3>2. CASE ~IsReliable(p)
      BY <1>2, <3>2
    <3>. QED BY <3>1, <3>2
  <2>2. s = IF sent[p.id].parts > 1 THEN Assemble(taken, p) ELSE Deliver(taken, p.id)
    BY <1>4 DEF ReceivePacket, IsReliable, Key
  <2> HIDE DEF noted, s
  <2>3. /\ taken \in ReceiverNow /\ taken.accepted = r.accepted \cup {Key(p)}
        /\ taken.receivedPacketsBaseIndex = noted.receivedPacketsBaseIndex
        /\ taken.hasReceivedPacketQueue = noted.hasReceivedPacketQueue
    <3>1. Key(p) \in Nat \X Nat
      BY <1>1 DEF Key
    <3>2. noted \in Receiver /\ noted.orderingHeap \in Seq([weight : Nat, id : DOMAIN sent])
      BY <2>1 DEF ReceiverNow
    <3>3. noted.accepted \cup {Key(p)} \in SUBSET (Nat \X Nat)
      BY <3>1, <3>2 DEF Receiver
    <3>4. /\ taken \in Receiver /\ taken.accepted = noted.accepted \cup {Key(p)}
          /\ taken.orderingHeap = noted.orderingHeap
          /\ taken.receivedPacketsBaseIndex = noted.receivedPacketsBaseIndex
          /\ taken.hasReceivedPacketQueue = noted.hasReceivedPacketQueue
      BY <3>2, <3>3 DEF Receiver
    <3>. QED BY <2>1, <3>2, <3>4 DEF ReceiverNow
  <2>4. Heard(taken) /\ \A x : Noted(taken, x) <=> Noted(noted, x)
    BY <2>1, <2>3 DEF Heard, Noted
  <2> HIDE DEF taken
  <2>5. s \in ReceiverNow /\ SameIntake(taken, s)
    <3>1. CASE sent[p.id].parts > 1
      BY <1>1, <2>2, <2>3, <3>1, AssembleTyped
    <3>2. CASE ~(sent[p.id].parts > 1)
      BY <1>1, <2>2, <2>3, <3>2, DeliverTyped
    <3>. QED BY <3>1, <3>2
  <2>6. s.accepted = r.accepted \cup {Key(p)} /\ Heard(s) /\ \A x : Noted(s, x) <=> Noted(noted, x)
    BY <2>3, <2>4, <2>5, SameNoted DEF SameIntake
  <2>7. ASSUME NEW q \in Packets, IsReliable(q), Noted(s, q.number) PROVE Key(q) \in s.accepted
    <3>1. q.number \in Number
      BY DEF PacketsAreNumbered, IsPart, InternalPacket, Number
    <3>2. CASE IsReliable(p) /\ q.number = p.number
      <4>1. q = p
        BY <2>7, <3>2 DEF PacketsAreNumbered
      <4>. QED BY <2>6, <4>1
    <3>3. CASE Noted(r, q.number)
      BY <2>6, <2>7, <3>3 DEF TakenIn
    <3>. QED BY <2>1, <2>6, <2>7, <3>1, <3>2, <3>3
  <2>. QED BY <2>5, <2>6, <2>7 DEF TakenIn, s
<1>. QED BY <1>3, <1>4

LEMMA ReceivedFromFacts ==
  ASSUME FewAreNumbered, sent \in Seq(SentMessage), PacketsAreNumbered, TakenIn(receiver),
         NEW d, d.packets \in Seq(InternalPacket), \A i \in DOMAIN d.packets : d.packets[i] \in Packets
  PROVE  LET s == ReceivedFrom(d)
         IN /\ TakenIn(s) /\ receiver.accepted \subseteq s.accepted
            /\ \A i \in DOMAIN d.packets : Key(d.packets[i]) \in s.accepted
<1> DEFINE n == Len(d.packets)
           A == {s \in ReceiverNow : TakenIn(s) /\ receiver.accepted \subseteq s.accepted}
           step == [x \in A \X (1 .. n) |-> ReceivePacket(x[1], d.packets[x[2]])]
           received[i \in 0 .. n] == IF i = 0 THEN receiver
                                     ELSE ReceivePacket(received[i - 1], d.packets[i])
<1>1. /\ n \in Nat /\ DOMAIN d.packets = 1 .. n /\ receiver \in A
  BY DEF TakenIn
<1>2. ASSUME NEW s \in A, NEW i \in 1 .. n
      PROVE  LET t == ReceivePacket(s, d.packets[i])
             IN t \in A /\ Key(d.packets[i]) \in t.accepted /\ s.accepted \subseteq t.accepted
  <2>1. TakenIn(s) /\ receiver.accepted \subseteq s.accepted /\ d.packets[i] \in Packets
    BY <1>1
  <2> DEFINE t == ReceivePacket(s, d.packets[i])
  <2>2. TakenIn(t) /\ Key(d.packets[i]) \in t.accepted /\ s.accepted \subseteq t.accepted
    BY <2>1, ReceivePacketFacts
  <2> HIDE DEF t
  <2>. QED BY <2>1, <2>2 DEF TakenIn, t
<1> HIDE DEF A, n
<1>3. step \in [A \X (1 .. n) -> A]
  BY <1>2
<1>4. \A s \in A : \A i \in 1 .. n : step[<<s, i>>] = ReceivePacket(s, d.packets[i])
  OBVIOUS
<1> HIDE DEF step
<1>5. PICK f : IsLoop(f, A, n, receiver, step)
  BY <1>1, <1>3, RecursionUpTo
<1>6. /\ f \in [0 .. n -> A] /\ f[0] = receiver
      /\ \A i \in 1 .. n : f[i] = ReceivePacket(f[i - 1], d.packets[i])
  <2>1. \A i \in 1 .. n : i - 1 \in 0 .. n
    BY <1>1
  <2>. QED BY <1>4, <1>5, <2>1 DEF IsLoop
<1>7. f = [i \in 0 .. n |-> IF i = 0 THEN receiver ELSE ReceivePacket(f[i - 1], d.packets[i])]
  <2>1. \A i \in 0 .. n : i = 0 \/ i \in 1 .. n
    BY <1>1
  <2>. QED BY <1>6, <2>1
<1>8. received = [i \in 0 .. n |-> IF i = 0 THEN receiver ELSE ReceivePacket(received[i - 1], d.packets[i])]
  <2>1. \E g : g = [i \in 0 .. n |-> IF i = 0 THEN receiver ELSE ReceivePacket(g[i - 1], d.packets[i])]
    BY <1>7
  <2>. QED BY <2>1, Zenon DEF received
<1>9. ReceivedFrom(d) = received[n]
  BY DEF ReceivedFrom, n
<1> HIDE DEF received
<1> DEFINE K == {i \in 0 .. n : received[i] \in A /\ \A j \in 1 .. i : Key(d.packets[j]) \in received[i].accepted}
<1>10. n \in K
  <2>1. 0 \in K
    <3>1. 0 \in 0 .. n /\ received[0] = receiver
      BY <1>1, <1>8
    <3>. QED BY <1>1, <3>1
  <2>2. ASSUME NEW i \in 1 .. n, i - 1 \in K PROVE i \in K
    <3>1. i \in 0 .. n /\ i # 0 /\ i \in Nat
      BY <1>1
    <3>2. received[i] = ReceivePacket(received[i - 1], d.packets[i]) /\ received[i - 1] \in A
      BY <1>8, <2>2, <3>1
    <3>3. /\ received[i] \in A /\ Key(d.packets[i]) \in received[i].accepted
          /\ received[i - 1].accepted \subseteq received[i].accepted
      BY <1>2, <3>2
    <3>4. \A j \in 1 .. i : j = i \/ j \in 1 .. i - 1
      BY <3>1
    <3>. QED BY <2>2, <3>1, <3>3, <3>4
  <2> HIDE DEF K
  <2>3. n \in Nat
    BY <1>1
  <2>4. \A i \in 0 .. n : i \in K
    BY <2>1, <2>2, <2>3, InductionUpTo
  <2>. QED BY <2>3, <2>4
<1>11. received[n] \in A /\ \A j \in 1 .. n : Key(d.packets[j]) \in received[n].accepted
  BY <1>10
<1>. QED BY <1>1, <1>9, <1>11 DEF A

-----------------------------------------------------------------------------
(* What follows from the invariant *)

LEMMA SeqElement ==
  ASSUME NEW S, NEW q \in Seq(S)
  PROVE  Len(q) \in Nat /\ DOMAIN q = 1 .. Len(q) /\ \A i \in DOMAIN q : q[i] \in S
OBVIOUS

LEMMA FewNumbers ==
  ASSUME MessagesAreScripted, QueueIsNew
  PROVE  /\ FewAreNumbered /\ Numbered + Len(outgoingPacketBuffer) <= Half
         /\ Len(sent) \in Nat /\ DOMAIN sent = 1 .. Len(sent)
         /\ scenario.script \in Seq([reliability : PacketReliability, parts : 1 .. 2])
         /\ Len(scenario.script) \in Nat /\ Len(sent) <= Len(scenario.script)
         /\ 2 * Len(scenario.script) <= Half /\ Numbered < 2 * Len(scenario.script) + 1
<1>1. /\ scenario.first \in Number
      /\ scenario.script \in Seq([reliability : PacketReliability, parts : 1 .. 2])
      /\ 2 * Len(scenario.script) <= Half
  BY ReliabilityAssumption DEF MessagesAreScripted, Number, Half
<1>2. Numbered \in Nat
  <2>1. Numbered \in Number
    BY <1>1, OffsetFacts DEF QueueIsNew, Numbered, Number
  <2>. QED BY <2>1, WrapFacts DEF Number
<1>3. /\ Len(sent) \in Nat /\ DOMAIN sent = 1 .. Len(sent) /\ Len(sent) <= Len(scenario.script)
      /\ Len(scenario.script) \in Nat
  BY <1>1 DEF MessagesAreScripted
<1>4. Numbered + Len(outgoingPacketBuffer) <= 2 * Len(sent) /\ Len(outgoingPacketBuffer) \in Nat
  BY DEF QueueIsNew
<1>5. Numbered <= Half /\ Numbered + Len(outgoingPacketBuffer) <= Half /\ Numbered < 2 * Len(scenario.script) + 1
  BY <1>1, <1>2, <1>3, <1>4, HalfFacts
<1>. QED BY <1>1, <1>2, <1>3, <1>5 DEF FewAreNumbered

LEMMA PartFacts ==
  ASSUME MessagesAreScripted, NEW p, IsPart(p)
  PROVE  /\ p \in InternalPacket /\ p.id \in DOMAIN sent /\ p.id \in Nat \ {0} /\ p # NoPacket
         /\ p.number \in Number /\ p.part \in 1 .. sent[p.id].parts
<1>1. sent \in Seq(SentMessage) /\ p.id \in DOMAIN sent
  BY DEF MessagesAreScripted, IsPart
<1>2. p.id \in Nat \ {0}
  BY <1>1, SentTyped
<1>. QED BY <1>1, <1>2 DEF IsPart, InternalPacket, Number, NoPacket

\* A message with a receipt that is not reliable has not been split.
LEMMA UnreliableIsWhole ==
  ASSUME MessagesAreScripted, NEW id \in DOMAIN sent, sent[id].reliability = "UNRELIABLE_WITH_ACK_RECEIPT"
  PROVE  /\ sent[id].parts = 1 /\ scenario.script[id].reliability = "UNRELIABLE_WITH_ACK_RECEIPT"
         /\ id \in DOMAIN scenario.script
         /\ sent[id].reliability \notin Reliable
<1>1. id \in DOMAIN scenario.script /\ scenario.script[id] \in [reliability : PacketReliability, parts : 1 .. 2]
  <2>1. scenario.script \in Seq([reliability : PacketReliability, parts : 1 .. 2])
    BY ReliabilityAssumption DEF MessagesAreScripted
  <2>2. id \in 1 .. Len(sent) /\ Len(sent) \in Nat /\ Len(sent) <= Len(scenario.script)
    BY DEF MessagesAreScripted
  <2>3. DOMAIN scenario.script = 1 .. Len(scenario.script) /\ Len(scenario.script) \in Nat
    BY <2>1
  <2>4. id \in DOMAIN scenario.script
    BY <2>2, <2>3
  <2>. QED BY <2>1, <2>4, SeqElement
<1> DEFINE said == scenario.script[id]
<1>2. sent[id].parts = said.parts /\ Upgraded(said.reliability, said.parts) = "UNRELIABLE_WITH_ACK_RECEIPT"
  BY DEF MessagesAreScripted
<1>3. said.reliability \in PacketReliability /\ said.parts \in 1 .. 2
  BY <1>1
<1> HIDE DEF said
<1>4. said.parts = 1 /\ said.reliability = "UNRELIABLE_WITH_ACK_RECEIPT"
  BY <1>2, <1>3 DEF Upgraded
<1>5. "UNRELIABLE_WITH_ACK_RECEIPT" \notin Reliable
  BY DEF Reliable, WithReceipt
<1>. QED BY <1>1, <1>2, <1>4, <1>5 DEF said

LEMMA PacketFacts ==
  ASSUME MessagesAreScripted, PacketsAreNumbered, NEW p \in Packets
  PROVE  /\ IsPart(p) /\ p \in InternalPacket /\ p.id \in DOMAIN sent /\ p.id \in Nat \ {0}
         /\ p # NoPacket /\ p.number \in Number
         /\ IsReliable(p) => Offset(p.number) < Numbered
         /\ ~IsReliable(p) => p.number = NoNumber
BY PartFacts DEF PacketsAreNumbered

LEMMA PacketsAre ==
  \A p : p \in Packets <=> \E d \in datagrams : p \in ToSet(d.packets)
BY DEF Packets

\* The datagram that is sent next has the next number, and takes its place in the history.
LEMMA SendDatagramFacts ==
  ASSUME ReliabilityIInv, NEW packets \in Seq(InternalPacket), SendDatagram(packets)
  PROVE  /\ Packets' = Packets \cup ToSet(packets)
         /\ DatagramsAreNumbered' /\ HistoryIsOfDatagrams'
         /\ NextDatagram \in Number /\ \A d \in datagrams : d.number # NextDatagram
         /\ \A d \in datagrams' : d \in datagrams \/ (d.number = NextDatagram /\ d.packets = packets)
         /\ datagrams \subseteq datagrams'
         /\ \E d \in datagrams' : d.number = NextDatagram /\ d.packets = packets
<1> DEFINE d0 == [number |-> NextDatagram, packets |-> packets, copies |-> MaxCopies]
           count == Cardinality(datagrams)
<1>1. /\ datagrams' = datagrams \cup {d0} /\ count < MaxDatagrams /\ IntoHistory(packets)
      /\ scenario' = scenario /\ sent' = sent
  BY DEF SendDatagram
<1>2. /\ IsFiniteSet(datagrams) /\ count \in Nat /\ count < NumberRange /\ MaxDatagrams \in Nat
      /\ MaxDatagrams <= NumberRange /\ NumberRange \in Nat
      /\ scenario.first \in Number
  <2>1. IsFiniteSet(datagrams) /\ scenario.first \in Number
    BY FewNumbers DEF ReliabilityIInv, DatagramsAreNumbered, FewAreNumbered
  <2>2. count \in Nat
    BY <2>1, FS_CardinalityType
  <2>3. MaxDatagrams \in 0 .. NumberRange /\ NumberRange \in Nat
    BY ReliabilityAssumption
  <2>. QED BY <1>1, <2>1, <2>2, <2>3
<1>3. NextDatagram \in Number /\ Offset(NextDatagram) = count
  <2>1. count \in Number
    BY <1>2 DEF Number
  <2>. QED BY <1>2, <2>1, OffsetFacts DEF NextDatagram
<1>4. \A d \in datagrams : d.number # NextDatagram /\ Offset(d.number) < count /\ d.number \in Number
  <2>1. ASSUME NEW d \in datagrams PROVE Offset(d.number) < count /\ d.number \in Number
    BY DEF ReliabilityIInv, DatagramsAreNumbered, Number
  <2>. QED BY <1>2, <1>3, <2>1
<1>5. d0 \notin datagrams /\ d0.number = NextDatagram /\ d0.packets = packets
  BY <1>4
<1>6. IsFiniteSet(datagrams') /\ Cardinality(datagrams') = count + 1
  BY <1>1, <1>2, <1>5, FS_AddElement
<1>7. \A d \in datagrams' : d \in datagrams \/ (d = d0 /\ d.number = NextDatagram /\ d.packets = packets)
  BY <1>1, <1>5
<1>8. Packets' = Packets \cup ToSet(packets)
  BY <1>1, <1>5 DEF Packets
<1>9. \A n : Offset(n)' = Offset(n)
  BY <1>1 DEF Offset
<1>10. d0 \in [number : 0 .. NumberRange - 1, packets : Seq(InternalPacket), copies : Nat]
  BY <1>3, ReliabilityAssumption DEF Number
<1> HIDE DEF d0, count
<1>11. DatagramsAreNumbered'
  <2>1. Cardinality(datagrams') <= MaxDatagrams
    BY <1>1, <1>2, <1>6
  <2>2. datagrams' \subseteq [number : 0 .. NumberRange - 1, packets : Seq(InternalPacket), copies : Nat]
    BY <1>1, <1>10 DEF ReliabilityIInv, DatagramsAreNumbered
  <2>3. ASSUME NEW d \in datagrams' PROVE Offset(d.number)' < Cardinality(datagrams')
    <3>1. Offset(d.number) < count + 1
      <4>1. CASE d \in datagrams
        <5>1. Offset(d.number) \in Number /\ Offset(d.number) < count
          BY <1>2, <1>4, <4>1, OffsetFacts
        <5>. QED BY <1>2, <5>1 DEF Number
      <4>. QED BY <1>2, <1>3, <1>7, <4>1
    <3>. QED BY <1>6, <1>9, <3>1
  <2>4. \A d, e \in datagrams' : d.number = e.number => d = e
    BY <1>4, <1>7 DEF ReliabilityIInv, DatagramsAreNumbered
  <2>. QED BY <1>6, <2>1, <2>2, <2>3, <2>4 DEF DatagramsAreNumbered
<1>12. HistoryIsOfDatagrams'
  <2> DEFINE full == Len(datagramHistory) > DatagramArrayLength
             numbers == {packets[i].number : i \in {j \in DOMAIN packets :
                           sent[packets[j].id].reliability \notin {"UNRELIABLE", "UNRELIABLE_SEQUENCED"}}}
             h == IF full THEN Tail(datagramHistory) ELSE datagramHistory
             c == IF full THEN 1 ELSE 0
             pop == datagramHistoryPopCount
  <2>1. /\ datagramHistory \in Seq(SUBSET Number) /\ pop \in Number
        /\ Offset(pop) + Len(datagramHistory) = count /\ Len(datagramHistory) \in Nat
        /\ Offset(pop) \in Nat /\ DatagramArrayLength \in Nat \ {0}
    <3>1. /\ datagramHistory \in Seq(SUBSET Number) /\ pop \in Number
          /\ Offset(pop) + Len(datagramHistory) = count
      BY DEF ReliabilityIInv, HistoryIsOfDatagrams, Number, count
    <3>2. Offset(pop) \in Number
      BY <1>2, <3>1, OffsetFacts
    <3>. QED BY <3>1, <3>2, ReliabilityAssumption DEF Number
  <2>2. /\ datagramHistory' = Append(h, numbers)
        /\ pop' = IF full THEN Wrap(pop + 1) ELSE pop
    BY <1>1 DEF IntoHistory
  <2>3. numbers \in SUBSET Number
    <3>1. \A i \in DOMAIN packets : packets[i] \in InternalPacket
      BY SeqElement
    <3>2. \A i \in DOMAIN packets : packets[i].number \in Number
      BY <3>1 DEF InternalPacket, Number
    <3>. QED BY <3>2
  <2>4. \A n \in numbers : \E p \in ToSet(packets) :
           p.number = n /\ sent[p.id].reliability \notin {"UNRELIABLE", "UNRELIABLE_SEQUENCED"}
    BY DEF ToSet
  <2> HIDE DEF numbers
  <2>5. /\ h \in Seq(SUBSET Number) /\ Len(h) = Len(datagramHistory) - c /\ c \in 0 .. 1
        /\ Len(h) \in Nat
        /\ \A i \in 1 .. Len(h) : h[i] = datagramHistory[i + c] /\ i + c \in 1 .. Len(datagramHistory)
    <3>1. CASE full
      <4>1. datagramHistory # <<>> /\ Len(datagramHistory) >= 1
        BY <2>1, <3>1
      <4>2. /\ Tail(datagramHistory) \in Seq(SUBSET Number)
            /\ Len(Tail(datagramHistory)) = Len(datagramHistory) - 1
            /\ \A i \in 1 .. Len(datagramHistory) - 1 : Tail(datagramHistory)[i] = datagramHistory[i + 1]
        BY <2>1, <4>1
      <4>. QED BY <2>1, <3>1, <4>1, <4>2
    <3>2. CASE ~full
      BY <2>1, <3>2
    <3>. QED BY <3>1, <3>2
  <2>6. pop' \in Number /\ Offset(pop') = Offset(pop) + c
    <3>1. CASE full
      <4>1. Offset(pop) + 1 < NumberRange /\ 1 \in Nat
        BY <1>2, <2>1, <3>1
      <4>. QED BY <1>2, <2>1, <2>2, <3>1, <4>1, OffsetFacts
    <3>2. CASE ~full
      BY <2>1, <2>2, <3>2
    <3>. QED BY <3>1, <3>2
  <2> HIDE DEF full, h, c
  <2>7. /\ datagramHistory' \in Seq(SUBSET Number) /\ Len(datagramHistory') = Len(h) + 1
        /\ \A i \in 1 .. Len(h) : datagramHistory'[i] = h[i]
        /\ datagramHistory'[Len(h) + 1] = numbers
        /\ DOMAIN datagramHistory' = 1 .. Len(h) + 1
    BY <2>2, <2>3, <2>5
  <2>8. Offset(pop') + Len(datagramHistory') = count + 1
    BY <2>1, <2>5, <2>6, <2>7
  <2>9. ASSUME NEW i \in DOMAIN datagramHistory', NEW d \in datagrams',
               Offset(d.number) = Offset(pop') + i - 1, NEW n \in datagramHistory'[i]
        PROVE  \E p \in ToSet(d.packets) :
                 p.number = n /\ sent[p.id].reliability \notin {"UNRELIABLE", "UNRELIABLE_SEQUENCED"}
    <3>0. i \in 1 .. Len(h) \/ i = Len(h) + 1
      BY <2>5, <2>7
    <3>1. CASE i = Len(h) + 1
      <4>1. Offset(d.number) = count
        BY <1>2, <2>1, <2>5, <2>6, <2>9, <3>1
      <4>2. d \notin datagrams
        BY <1>2, <1>4, <4>1
      <4>. QED BY <1>7, <2>4, <2>7, <3>1, <4>2
    <3>2. CASE i \in 1 .. Len(h)
      <4>1. Offset(d.number) = Offset(pop) + (i + c) - 1 /\ Offset(d.number) < count
        BY <2>1, <2>5, <2>6, <2>9, <3>2
      <4>2. d \in datagrams
        BY <1>2, <1>3, <1>7, <4>1
      <4>3. i + c \in DOMAIN datagramHistory
        <5>1. DOMAIN datagramHistory = 1 .. Len(datagramHistory)
          BY <2>1
        <5>. QED BY <2>5, <3>2, <5>1
      <4>4. n \in datagramHistory[i + c]
        BY <2>5, <2>7, <2>9, <3>2
      <4>. QED BY <4>1, <4>2, <4>3, <4>4 DEF ReliabilityIInv, HistoryIsOfDatagrams
    <3>. QED BY <3>0, <3>1, <3>2
  <2>. QED BY <1>1, <1>6, <1>9, <2>6, <2>7, <2>8, <2>9 DEF HistoryIsOfDatagrams, Number
<1>. QED BY <1>1, <1>3, <1>4, <1>5, <1>7, <1>8, <1>11, <1>12

-----------------------------------------------------------------------------
(* Each action keeps the invariant *)

LEMMA KeptStays ==
  ASSUME ReliableOnesKept, sent' = sent, receiver' = receiver,
         outgoingPacketBuffer' = outgoingPacketBuffer, resendBuffer' = resendBuffer
  PROVE  ReliableOnesKept'
<1>1. IdsOf(Reliable)' = IdsOf(Reliable)
  BY DEF IdsOf
<1>2. ASSUME NEW i \in IdsOf(Reliable), NEW part \in 1 .. sent[i].parts
      PROVE  \/ <<i, part>> \in receiver.accepted
             \/ \E k \in DOMAIN outgoingPacketBuffer :
                  outgoingPacketBuffer[k].id = i /\ outgoingPacketBuffer[k].part = part
             \/ \E k \in DOMAIN resendBuffer : resendBuffer[k].id = i /\ resendBuffer[k].part = part
  BY DEF ReliableOnesKept
<1>3. ASSUME NEW i \in IdsOf(Reliable)', NEW part \in 1 .. sent'[i].parts
      PROVE  \/ <<i, part>> \in receiver'.accepted
             \/ \E k \in DOMAIN outgoingPacketBuffer' :
                  outgoingPacketBuffer'[k].id = i /\ outgoingPacketBuffer'[k].part = part
             \/ \E k \in DOMAIN resendBuffer' : resendBuffer'[k].id = i /\ resendBuffer'[k].part = part
  BY <1>1, <1>2
<1>. QED BY <1>3 DEF ReliableOnesKept

LEMMA ReportLossKeeps ==
  ASSUME ReliabilityIInv, NEW x, ReportLoss(x) PROVE ReliabilityIInv'
<1>1. /\ x \in unreliableWithAckReceiptHistory
      /\ unreliableWithAckReceiptHistory' = unreliableWithAckReceiptHistory \ {x}
      /\ receipts' = [receipts EXCEPT ![x[2]] = Append(receipts[x[2]], "LOSS")]
      /\ scenario' = scenario /\ sent' = sent /\ outgoingPacketBuffer' = outgoingPacketBuffer
      /\ sendReliableMessageNumberIndex' = sendReliableMessageNumberIndex
      /\ resendBuffer' = resendBuffer /\ resendList' = resendList
      /\ datagramHistory' = datagramHistory /\ datagramHistoryPopCount' = datagramHistoryPopCount
      /\ datagrams' = datagrams /\ acks' = acks /\ receiver' = receiver
  BY DEF ReportLoss
<1>2. /\ MessagesAreScripted /\ QueueIsNew /\ PacketsAreNumbered /\ DatagramsAreNumbered
      /\ BufferIsOfPackets /\ HistoryIsOfDatagrams /\ NotedIsAccepted
      /\ ReceiptsAreDue /\ ReceiptsTrue /\ ReliableOnesKept
  BY DEF ReliabilityIInv
<1>3. /\ QueueIsNew' /\ PacketsAreNumbered' /\ DatagramsAreNumbered' /\ BufferIsOfPackets'
      /\ HistoryIsOfDatagrams' /\ NotedIsAccepted' /\ ReliableOnesKept'
  <2>1. QueueIsNew'
    BY <1>1, <1>2 DEF QueueIsNew, Numbered, Offset, Packets, IsPart
  <2>2. PacketsAreNumbered'
    BY <1>1, <1>2 DEF PacketsAreNumbered, Numbered, Offset, Packets, IsPart, IsReliable
  <2>3. DatagramsAreNumbered'
    BY <1>1, <1>2 DEF DatagramsAreNumbered, Offset
  <2>4. BufferIsOfPackets'
    BY <1>1, <1>2 DEF BufferIsOfPackets, Packets, IsReliable, IsInResendBuffer, ResendListOK
  <2>5. HistoryIsOfDatagrams'
    BY <1>1, <1>2 DEF HistoryIsOfDatagrams, Offset
  <2>6. NotedIsAccepted'
    BY <1>1, <1>2 DEF NotedIsAccepted, Numbered, Offset, Packets, IsReliable, Noted
  <2>7. ReliableOnesKept'
    BY <1>1, <1>2, KeptStays
  <2>. QED BY <2>1, <2>2, <2>3, <2>4, <2>5, <2>6, <2>7
<1> DEFINE id == x[2]
<1>4. /\ id \in DOMAIN sent /\ sent[id].reliability = "UNRELIABLE_WITH_ACK_RECEIPT" /\ receipts[id] = <<>>
      /\ \E d \in datagrams : \E p \in ToSet(d.packets) : x = <<d.number, p.id>>
      /\ \A y \in unreliableWithAckReceiptHistory : id = y[2] => x = y
  BY <1>1, <1>2 DEF ReceiptsAreDue
<1>5. sent[id].parts = 1 /\ id \in DOMAIN scenario.script /\ sent[id].reliability \notin Reliable
  BY <1>2, <1>4, UnreliableIsWhole
<1>6. receipts \in [DOMAIN scenario.script -> Seq({"ACKED", "LOSS"})]
  BY <1>2 DEF MessagesAreScripted
<1>7. /\ Append(receipts[id], "LOSS") = <<"LOSS">> /\ <<"LOSS">> \in Seq({"ACKED", "LOSS"})
      /\ Len(<<"LOSS">>) = 1 /\ <<"LOSS">> # <<"ACKED">>
  BY <1>4
<1> HIDE DEF id
<1>8. /\ receipts' \in [DOMAIN scenario.script -> Seq({"ACKED", "LOSS"})]
      /\ receipts'[id] = <<"LOSS">> /\ \A i \in DOMAIN receipts : i # id => receipts'[i] = receipts[i]
      /\ DOMAIN receipts' = DOMAIN receipts
  BY <1>1, <1>5, <1>6, <1>7 DEF id
<1>9. MessagesAreScripted'
  BY <1>1, <1>2, <1>8 DEF MessagesAreScripted
<1>10. ReceiptsTrue'
  <2>1. ASSUME NEW i \in DOMAIN receipts'
        PROVE  /\ Len(receipts'[i]) <= 1
               /\ receipts'[i] = <<"ACKED">> /\ sent'[i].parts = 1 => <<i, 1>> \in receiver'.accepted
    <3>1. CASE i = id
      <4>1. receipts'[i] = <<"LOSS">>
        BY <1>8, <3>1
      <4>. QED BY <1>7, <4>1
    <3>2. CASE i # id
      BY <1>1, <1>2, <1>8, <3>2 DEF ReceiptsTrue
    <3>. QED BY <3>1, <3>2
  <2>. QED BY <2>1 DEF ReceiptsTrue
<1>11. ReceiptsAreDue'
  <2>1. ASSUME NEW y \in unreliableWithAckReceiptHistory'
        PROVE  /\ y[2] \in DOMAIN sent /\ sent[y[2]].reliability = "UNRELIABLE_WITH_ACK_RECEIPT"
               /\ receipts'[y[2]] = <<>>
               /\ \E d \in datagrams : \E p \in ToSet(d.packets) : y = <<d.number, p.id>>
               /\ \A z \in unreliableWithAckReceiptHistory' : y[2] = z[2] => y = z
    <3>1. y \in unreliableWithAckReceiptHistory /\ y # x
      BY <1>1
    <3>2. /\ y[2] \in DOMAIN sent /\ sent[y[2]].reliability = "UNRELIABLE_WITH_ACK_RECEIPT"
          /\ receipts[y[2]] = <<>>
          /\ \E d \in datagrams : \E p \in ToSet(d.packets) : y = <<d.number, p.id>>
          /\ \A z \in unreliableWithAckReceiptHistory : y[2] = z[2] => y = z
      BY <1>2, <3>1 DEF ReceiptsAreDue
    <3>3. y[2] # id /\ y[2] \in DOMAIN receipts
      <4>1. y[2] \in DOMAIN scenario.script
        BY <1>2, <3>2, UnreliableIsWhole
      <4>. QED BY <1>4, <1>6, <3>1, <4>1 DEF id
    <3>. QED BY <1>1, <1>8, <3>2, <3>3
  <2>2. \A i \in DOMAIN receipts' : i \notin DOMAIN sent' => receipts'[i] = <<>>
    BY <1>1, <1>2, <1>4, <1>8 DEF ReceiptsAreDue, id
  <2>3. ASSUME NEW p \in ToSet(outgoingPacketBuffer) \cup {resendBuffer[i] : i \in DOMAIN resendBuffer},
               p # NoPacket, p.part = sent[p.id].parts
        PROVE  receipts'[p.id] = <<>>
    <3>1. receipts[p.id] = <<>>
      BY <1>2, <2>3 DEF ReceiptsAreDue
    <3>2. p.id # id
      <4>1. CASE p \in ToSet(outgoingPacketBuffer)
        <5>1. PICK i \in DOMAIN outgoingPacketBuffer : p = outgoingPacketBuffer[i]
          BY <4>1 DEF ToSet
        <5>2. PICK d \in datagrams : \E q \in ToSet(d.packets) : x = <<d.number, q.id>>
          BY <1>4
        <5>3. PICK q \in ToSet(d.packets) : x = <<d.number, q.id>>
          BY <5>2
        <5>4. q \in Packets /\ q.id = id
          BY <5>3, PacketsAre DEF id
        <5>5. q.part \in 1 .. sent[id].parts
          BY <1>2, <5>4, PacketFacts DEF IsPart
        <5>6. Key(q) # Key(p)
          BY <1>2, <5>1, <5>4 DEF QueueIsNew
        <5>. QED BY <1>5, <2>3, <5>4, <5>5, <5>6 DEF Key
      <4>2. CASE p \in {resendBuffer[i] : i \in DOMAIN resendBuffer}
        BY <1>2, <1>5, <2>3, <4>2 DEF BufferIsOfPackets, IsReliable
      <4>. QED BY <2>3, <4>1, <4>2
    <3>3. p.id \in DOMAIN receipts
      <4>1. p.id \in DOMAIN sent
        <5>1. CASE p \in ToSet(outgoingPacketBuffer)
          BY <1>2, <5>1 DEF QueueIsNew, ToSet, IsPart
        <5>2. CASE p \in {resendBuffer[i] : i \in DOMAIN resendBuffer}
          BY <1>2, <2>3, <5>2, PacketFacts DEF BufferIsOfPackets
        <5>. QED BY <2>3, <5>1, <5>2
      <4>. QED BY <1>2, <1>6, <4>1, FewNumbers, SeqElement
    <3>. QED BY <1>8, <3>1, <3>2, <3>3
  <2>. QED BY <1>1, <2>1, <2>2, <2>3 DEF ReceiptsAreDue
<1>. QED BY <1>3, <1>9, <1>10, <1>11 DEF ReliabilityIInv

LEMMA ReceiveDatagramKeeps ==
  ASSUME ReliabilityIInv, NEW d, ReceiveDatagram(d) PROVE ReliabilityIInv'
<1> DEFINE e == [d EXCEPT !.copies = d.copies - 1]
<1>1. /\ d \in datagrams /\ d.copies > 0 /\ datagrams' = (datagrams \ {d}) \cup {e}
      /\ acks' = acks \cup {d.number} /\ receiver' = ReceivedFrom(d)
      /\ scenario' = scenario /\ sent' = sent /\ outgoingPacketBuffer' = outgoingPacketBuffer
      /\ sendReliableMessageNumberIndex' = sendReliableMessageNumberIndex
      /\ resendBuffer' = resendBuffer /\ resendList' = resendList
      /\ datagramHistory' = datagramHistory /\ datagramHistoryPopCount' = datagramHistoryPopCount
      /\ unreliableWithAckReceiptHistory' = unreliableWithAckReceiptHistory /\ receipts' = receipts
  BY DEF ReceiveDatagram
<1>2. /\ MessagesAreScripted /\ QueueIsNew /\ PacketsAreNumbered /\ DatagramsAreNumbered
      /\ BufferIsOfPackets /\ HistoryIsOfDatagrams /\ NotedIsAccepted
      /\ ReceiptsAreDue /\ ReceiptsTrue /\ ReliableOnesKept
  BY DEF ReliabilityIInv
<1>3. /\ d \in [number : 0 .. NumberRange - 1, packets : Seq(InternalPacket), copies : Nat]
      /\ e \in [number : 0 .. NumberRange - 1, packets : Seq(InternalPacket), copies : Nat]
      /\ e.number = d.number /\ e.packets = d.packets
  <2>1. d \in [number : 0 .. NumberRange - 1, packets : Seq(InternalPacket), copies : Nat]
    BY <1>1, <1>2 DEF DatagramsAreNumbered
  <2>2. d.copies - 1 \in Nat
    BY <1>1, <2>1
  <2>. QED BY <2>1, <2>2
<1> HIDE DEF e
<1>4. /\ \A f \in datagrams' : f = e \/ (f \in datagrams /\ f # d)
      /\ \A f \in datagrams : \E g \in datagrams' : g.number = f.number /\ g.packets = f.packets
      /\ \A f \in datagrams' : \E g \in datagrams : g.number = f.number /\ g.packets = f.packets
  BY <1>1, <1>3
<1>5. Packets' = Packets
  <2>1. \A p : p \in Packets' <=> \E f \in datagrams' : p \in ToSet(f.packets)
    BY DEF Packets
  <2>. QED BY <1>4, <2>1, PacketsAre
<1>6. DatagramsAreNumbered' /\ Cardinality(datagrams') = Cardinality(datagrams)
  <2>1. e \notin datagrams \ {d}
    BY <1>1, <1>2, <1>3 DEF DatagramsAreNumbered
  <2>2. /\ IsFiniteSet(datagrams) /\ IsFiniteSet(datagrams \ {d})
        /\ Cardinality(datagrams \ {d}) = Cardinality(datagrams) - 1
        /\ Cardinality(datagrams) \in Nat
    BY <1>1, <1>2, FS_RemoveElement, FS_CardinalityType DEF DatagramsAreNumbered
  <2>3. IsFiniteSet(datagrams') /\ Cardinality(datagrams') = Cardinality(datagrams)
    <3>1. /\ IsFiniteSet((datagrams \ {d}) \cup {e})
          /\ Cardinality((datagrams \ {d}) \cup {e}) = Cardinality(datagrams \ {d}) + 1
      BY <2>1, <2>2, FS_AddElement
    <3>. QED BY <1>1, <2>2, <3>1
  <2>4. /\ datagrams' \subseteq [number : 0 .. NumberRange - 1, packets : Seq(InternalPacket), copies : Nat]
        /\ \A f \in datagrams' : Offset(f.number) < Cardinality(datagrams)
        /\ \A f, g \in datagrams' : f.number = g.number => f = g
    BY <1>1, <1>2, <1>3, <1>4 DEF DatagramsAreNumbered
  <2>. QED BY <1>1, <1>2, <2>3, <2>4 DEF DatagramsAreNumbered, Offset
<1>7. /\ FewAreNumbered /\ sent \in Seq(SentMessage) /\ TakenIn(receiver)
      /\ d.packets \in Seq(InternalPacket) /\ \A i \in DOMAIN d.packets : d.packets[i] \in Packets
  <2>1. FewAreNumbered /\ sent \in Seq(SentMessage)
    BY <1>2, FewNumbers DEF MessagesAreScripted
  <2>2. receiver \in ReceiverNow
    BY <1>2 DEF NotedIsAccepted, ReceiverNow
  <2>3. Heard(receiver)
    BY <1>2 DEF NotedIsAccepted, Heard, Receiver, Number
  <2>4. TakenIn(receiver)
    BY <1>2, <2>2, <2>3 DEF NotedIsAccepted, TakenIn
  <2>5. \A i \in DOMAIN d.packets : d.packets[i] \in Packets
    BY <1>1, PacketsAre DEF ToSet
  <2>. QED BY <1>3, <2>1, <2>4, <2>5
<1>8. /\ TakenIn(receiver') /\ receiver.accepted \subseteq receiver'.accepted
      /\ \A i \in DOMAIN d.packets : Key(d.packets[i]) \in receiver'.accepted
  BY <1>1, <1>2, <1>7, ReceivedFromFacts
<1>9. NotedIsAccepted'
  <2>1. /\ receiver' \in Receiver
        /\ receiver'.orderingHeap \in Seq([weight : Nat, id : DOMAIN sent])
        /\ Offset(receiver'.receivedPacketsBaseIndex) + Len(receiver'.hasReceivedPacketQueue) <= Numbered
        /\ \A p \in Packets : IsReliable(p) /\ Noted(receiver', p.number) => Key(p) \in receiver'.accepted
    BY <1>8 DEF TakenIn, ReceiverNow, Heard
  <2>2. acks' \subseteq {f.number : f \in datagrams'}
    BY <1>1, <1>2, <1>4 DEF NotedIsAccepted
  <2>3. ASSUME NEW f \in datagrams', f.number \in acks', NEW p \in ToSet(f.packets)
        PROVE  Key(p) \in receiver'.accepted
    <3>1. CASE f.number = d.number
      <4>1. f.packets = d.packets
        BY <1>1, <1>2, <1>3, <1>4, <3>1 DEF DatagramsAreNumbered
      <4>. QED BY <1>8, <2>3, <4>1 DEF ToSet
    <3>2. CASE f.number # d.number
      <4>1. f \in datagrams /\ f.number \in acks
        BY <1>1, <1>3, <1>4, <2>3, <3>2
      <4>2. Key(p) \in receiver.accepted
        BY <1>2, <2>3, <4>1 DEF NotedIsAccepted
      <4>. QED BY <1>8, <4>2
    <3>. QED BY <3>1, <3>2
  <2>4. Numbered' = Numbered /\ \A n : Offset(n)' = Offset(n)
    BY <1>1 DEF Numbered, Offset
  <2>5. \A p \in Packets : IsReliable(p)' <=> IsReliable(p)
    BY <1>1 DEF IsReliable
  <2>6. \A n : Noted(receiver, n)' <=> Noted(receiver', n)
    BY <1>1 DEF Noted, Offset
  <2>. QED BY <1>1, <1>5, <2>1, <2>2, <2>3, <2>4, <2>5, <2>6 DEF NotedIsAccepted, Key
<1>10. MessagesAreScripted' /\ QueueIsNew'
  BY <1>1, <1>2, <1>5 DEF MessagesAreScripted, QueueIsNew, Numbered, Offset, IsPart
<1>11. PacketsAreNumbered'
  BY <1>1, <1>2, <1>5 DEF PacketsAreNumbered, Numbered, Offset, IsPart, IsReliable
<1>12. BufferIsOfPackets'
  BY <1>1, <1>2, <1>5 DEF BufferIsOfPackets, IsReliable, IsInResendBuffer, ResendListOK
<1>13. HistoryIsOfDatagrams'
  <2>1. ASSUME NEW i \in DOMAIN datagramHistory, NEW f \in datagrams',
               Offset(f.number) = Offset(datagramHistoryPopCount) + i - 1, NEW n \in datagramHistory[i]
        PROVE  \E p \in ToSet(f.packets) :
                 p.number = n /\ sent[p.id].reliability \notin {"UNRELIABLE", "UNRELIABLE_SEQUENCED"}
    <3>1. PICK g \in datagrams : g.number = f.number /\ g.packets = f.packets
      BY <1>4
    <3>. QED BY <1>2, <2>1, <3>1 DEF HistoryIsOfDatagrams
  <2>. QED BY <1>1, <1>2, <1>6, <2>1 DEF HistoryIsOfDatagrams, Offset
<1>14. ReceiptsAreDue'
  <2>1. ASSUME NEW x \in unreliableWithAckReceiptHistory
        PROVE  \E f \in datagrams' : \E p \in ToSet(f.packets) : x = <<f.number, p.id>>
    <3>1. PICK g \in datagrams : \E p \in ToSet(g.packets) : x = <<g.number, p.id>>
      BY <1>2 DEF ReceiptsAreDue
    <3>2. PICK f \in datagrams' : f.number = g.number /\ f.packets = g.packets
      BY <1>4
    <3>. QED BY <3>1, <3>2
  <2>. QED BY <1>1, <1>2, <2>1 DEF ReceiptsAreDue
<1>15. ReceiptsTrue' /\ ReliableOnesKept'
  BY <1>1, <1>2, <1>8 DEF ReceiptsTrue, ReliableOnesKept, IdsOf
<1>. QED BY <1>6, <1>9, <1>10, <1>11, <1>12, <1>13, <1>14, <1>15 DEF ReliabilityIInv

\* An acknowledgement finds reliable packets that have been accepted.
LEMMA AckedFacts ==
  ASSUME ReliabilityIInv, NoNumberIsUnused, NEW d \in acks, NEW n \in MessageNumbers(d), IsInResendBuffer(n)
  PROVE  LET b == resendBuffer[Slot(n)]
         IN /\ n \in Number /\ Slot(n) \in DOMAIN resendBuffer
            /\ b \in Packets /\ IsReliable(b) /\ b # NoPacket /\ b.number = n
            /\ Key(b) \in receiver.accepted
<1> DEFINE pop == datagramHistoryPopCount
           offset == Wrap(d - pop)
           b == resendBuffer[Slot(n)]
           L == Len(datagramHistory)
<1>1. /\ MessagesAreScripted /\ QueueIsNew /\ PacketsAreNumbered /\ DatagramsAreNumbered
      /\ BufferIsOfPackets /\ HistoryIsOfDatagrams /\ NotedIsAccepted
  BY DEF ReliabilityIInv
<1>2. ~(offset >= L) /\ n \in datagramHistory[offset + 1]
  BY DEF MessageNumbers
<1>3. PICK e \in datagrams : e.number = d
  BY <1>1 DEF NotedIsAccepted
<1>4. scenario.first \in Number /\ d \in Number /\ pop \in Number
  BY <1>1, <1>3, FewNumbers DEF FewAreNumbered, DatagramsAreNumbered, HistoryIsOfDatagrams, Number
<1>5. /\ Offset(d) \in Nat /\ Offset(pop) \in Nat /\ NumberRange \in Nat /\ L \in Nat
      /\ Offset(pop) + L <= NumberRange
  <2>1. Offset(d) \in Number /\ Offset(pop) \in Number
    BY <1>4, OffsetFacts
  <2>2. Offset(pop) + L <= NumberRange /\ L \in Nat
    <3>1. Offset(pop) + L = Cardinality(datagrams) /\ L \in Nat
      BY <1>1 DEF HistoryIsOfDatagrams
    <3>2. Cardinality(datagrams) \in Nat /\ Cardinality(datagrams) <= MaxDatagrams /\ MaxDatagrams \in 0 .. NumberRange
      BY <1>1, FS_CardinalityType, ReliabilityAssumption DEF DatagramsAreNumbered
    <3>. QED BY <3>1, <3>2, WrapFacts
  <2>. QED BY <2>1, <2>2, WrapFacts DEF Number
<1>6. offset \in Nat /\ offset < L /\ Offset(d) = Offset(pop) + offset
  <2>1. offset = IF Offset(d) >= Offset(pop) THEN Offset(d) - Offset(pop)
                 ELSE Offset(d) - Offset(pop) + NumberRange
    BY <1>4, OffsetFacts
  <2> HIDE DEF offset, pop, L
  <2>. QED BY <1>2, <1>5, <2>1 DEF pop
<1>7. offset + 1 \in DOMAIN datagramHistory /\ Offset(d) = Offset(pop) + (offset + 1) - 1
  <2>1. DOMAIN datagramHistory = 1 .. L
    BY <1>1 DEF HistoryIsOfDatagrams
  <2> HIDE DEF offset
  <2>. QED BY <1>2, <1>5, <1>6, <2>1
<1> HIDE DEF offset
<1>8. PICK p \in ToSet(e.packets) :
        p.number = n /\ sent[p.id].reliability \notin {"UNRELIABLE", "UNRELIABLE_SEQUENCED"}
  BY <1>1, <1>2, <1>3, <1>7 DEF HistoryIsOfDatagrams
<1>9. p \in Packets /\ Key(p) \in receiver.accepted
  BY <1>1, <1>3, <1>8, PacketsAre DEF NotedIsAccepted
<1>10. n \in Number /\ Slot(n) \in DOMAIN resendBuffer
  <2>1. n \in Number
    BY <1>1, <1>8, <1>9, PacketFacts
  <2>. QED BY <1>1, <2>1, SlotFacts DEF BufferIsOfPackets
<1>11. b \in Packets /\ IsReliable(b) /\ b # NoPacket /\ b.number = n
  BY <1>1, <1>10 DEF BufferIsOfPackets, IsInResendBuffer
<1> HIDE DEF b
<1>12. CASE IsReliable(p)
  <2>1. p = b
    BY <1>1, <1>8, <1>9, <1>11, <1>12 DEF PacketsAreNumbered
  <2>. QED BY <1>9, <1>10, <1>11, <2>1 DEF b
<1>13. CASE ~IsReliable(p)
  <2>1. p.id \in DOMAIN sent /\ n = NoNumber
    BY <1>1, <1>8, <1>9, <1>13, PacketFacts
  <2>2. sent[p.id].reliability \in PacketReliability
    BY <1>1, <2>1, SentTyped DEF MessagesAreScripted
  <2>3. sent[p.id].reliability = "UNRELIABLE_WITH_ACK_RECEIPT"
    BY <1>8, <1>13, <2>2 DEF IsReliable, PacketReliability
  <2>4. scenario.first + 2 * Len(scenario.script) < NumberRange
    BY <1>1, <2>1, <2>3, UnreliableIsWhole DEF NoNumberIsUnused, MessagesAreScripted
  <2>5. Offset(n) < Numbered /\ Numbered \in Nat /\ Numbered < 2 * Len(scenario.script) + 1
    BY <1>1, <1>11, FewNumbers, PacketFacts DEF FewAreNumbered
  <2>6. Offset(n) = NumberRange - 1 - scenario.first
    <3>1. NumberRange - 1 - scenario.first \in 0 .. NumberRange - 1
      BY <1>4, WrapFacts DEF Number
    <3>. QED BY <2>1, <3>1, WrapFacts DEF Offset, NoNumber
  <2>7. Len(scenario.script) \in Nat /\ scenario.first \in Nat
    BY <1>1, <1>4, FewNumbers, WrapFacts DEF Number
  <2>. QED BY <1>5, <2>4, <2>5, <2>6, <2>7
<1>. QED BY <1>12, <1>13

LEMMA OnAckKeeps ==
  ASSUME ReliabilityIInv, NoNumberIsUnused, NEW d, OnAck(d) PROVE ReliabilityIInv'
<1> DEFINE acked == {n \in MessageNumbers(d) : IsInResendBuffer(n)}
           lastOf(id) == \E n \in acked : LET p == resendBuffer[Slot(n)]
                                          IN p.id = id /\ p.part = sent[id].parts
           reported == {id \in DOMAIN sent : \/ sent[id].reliability \in WithReceipt /\ lastOf(id)
                                             \/ <<d, id>> \in unreliableWithAckReceiptHistory}
<1>1. /\ d \in acks
      /\ receipts' = [id \in DOMAIN receipts |->
                        IF id \in reported THEN Append(receipts[id], "ACKED") ELSE receipts[id]]
      /\ unreliableWithAckReceiptHistory' = {x \in unreliableWithAckReceiptHistory : x[1] # d}
      /\ resendBuffer' = [i \in DOMAIN resendBuffer |->
                            IF \E n \in acked : Slot(n) = i THEN NoPacket ELSE resendBuffer[i]]
      /\ resendList' = RemoveFromList(resendList, acked)
      /\ datagramHistory' = IF MessageNumbers(d) = {} THEN datagramHistory
                            ELSE [datagramHistory EXCEPT ![Wrap(d - datagramHistoryPopCount) + 1] = {}]
      /\ scenario' = scenario /\ sent' = sent /\ outgoingPacketBuffer' = outgoingPacketBuffer
      /\ sendReliableMessageNumberIndex' = sendReliableMessageNumberIndex
      /\ datagramHistoryPopCount' = datagramHistoryPopCount
      /\ datagrams' = datagrams /\ acks' = acks /\ receiver' = receiver
  BY DEF OnAck
<1>2. /\ MessagesAreScripted /\ QueueIsNew /\ PacketsAreNumbered /\ DatagramsAreNumbered
      /\ BufferIsOfPackets /\ HistoryIsOfDatagrams /\ NotedIsAccepted
      /\ ReceiptsAreDue /\ ReceiptsTrue /\ ReliableOnesKept
  BY DEF ReliabilityIInv
<1>3. ASSUME NEW n \in acked
      PROVE  LET b == resendBuffer[Slot(n)]
             IN /\ n \in Number /\ Slot(n) \in DOMAIN resendBuffer
                /\ b \in Packets /\ IsReliable(b) /\ b # NoPacket /\ b.number = n
                /\ Key(b) \in receiver.accepted
  <2>1. n \in MessageNumbers(d) /\ IsInResendBuffer(n)
    OBVIOUS
  <2> HIDE DEF acked
  <2>. QED BY <1>1, <2>1, AckedFacts
<1>4. \A n : n \in acked <=> n \in MessageNumbers(d) /\ IsInResendBuffer(n)
  OBVIOUS
<1> HIDE DEF acked
<1>5. \A id : id \in reported <=> id \in DOMAIN sent /\ (\/ sent[id].reliability \in WithReceipt /\ lastOf(id)
                                                       \/ <<d, id>> \in unreliableWithAckReceiptHistory)
  OBVIOUS
<1>6. ASSUME NEW id, lastOf(id)
      PROVE  \E n \in acked : resendBuffer[Slot(n)].id = id /\ resendBuffer[Slot(n)].part = sent[id].parts
  BY <1>6
<1> HIDE DEF lastOf, reported
<1>7. /\ QueueIsNew' /\ PacketsAreNumbered' /\ DatagramsAreNumbered' /\ NotedIsAccepted'
  <2>1. QueueIsNew'
    BY <1>1, <1>2 DEF QueueIsNew, Numbered, Offset, Packets, IsPart
  <2>2. PacketsAreNumbered'
    BY <1>1, <1>2 DEF PacketsAreNumbered, Numbered, Offset, Packets, IsPart, IsReliable
  <2>3. DatagramsAreNumbered'
    BY <1>1, <1>2 DEF DatagramsAreNumbered, Offset
  <2>4. NotedIsAccepted'
    BY <1>1, <1>2 DEF NotedIsAccepted, Numbered, Offset, Packets, IsReliable, Noted
  <2>. QED BY <2>1, <2>2, <2>3, <2>4
<1>8. \A id \in DOMAIN receipts : receipts[id] \in Seq({"ACKED", "LOSS"})
  BY <1>2 DEF MessagesAreScripted
<1>9. /\ DOMAIN receipts' = DOMAIN receipts
      /\ \A id \in DOMAIN receipts :
           receipts'[id] = IF id \in reported THEN Append(receipts[id], "ACKED") ELSE receipts[id]
  BY <1>1
<1>10. MessagesAreScripted'
  <2>1. receipts' \in [DOMAIN scenario.script -> Seq({"ACKED", "LOSS"})]
    <3>1. \A q \in Seq({"ACKED", "LOSS"}) : Append(q, "ACKED") \in Seq({"ACKED", "LOSS"})
      OBVIOUS
    <3>. QED BY <1>1, <1>2, <1>8, <3>1 DEF MessagesAreScripted
  <2>. QED BY <1>1, <1>2, <2>1 DEF MessagesAreScripted
<1>11. HistoryIsOfDatagrams'
  <2>1. ASSUME NEW S, NEW h \in Seq(SUBSET S), NEW k
        PROVE  /\ [h EXCEPT ![k] = {}] \in Seq(SUBSET S) /\ Len([h EXCEPT ![k] = {}]) = Len(h)
               /\ \A i \in DOMAIN h : [h EXCEPT ![k] = {}][i] \subseteq h[i]
               /\ DOMAIN [h EXCEPT ![k] = {}] = DOMAIN h
    <3> DEFINE g == [h EXCEPT ![k] = {}]
    <3>1. h \in [1 .. Len(h) -> SUBSET S] /\ Len(h) \in Nat
      OBVIOUS
    <3>2. g \in [1 .. Len(h) -> SUBSET S]
      BY <3>1
    <3>3. \A i \in DOMAIN h : g[i] \subseteq h[i]
      BY <3>1
    <3> HIDE DEF g
    <3>4. g \in Seq(SUBSET S) /\ Len(g) = Len(h) /\ DOMAIN g = DOMAIN h
      BY <3>1, <3>2
    <3>. QED BY <3>3, <3>4 DEF g
  <2>2. /\ datagramHistory' \in Seq(SUBSET (0 .. NumberRange - 1)) /\ Len(datagramHistory') = Len(datagramHistory)
        /\ \A i \in DOMAIN datagramHistory : datagramHistory'[i] \subseteq datagramHistory[i]
        /\ DOMAIN datagramHistory' = DOMAIN datagramHistory
    <3>1. datagramHistory \in Seq(SUBSET (0 .. NumberRange - 1))
      BY <1>2 DEF HistoryIsOfDatagrams
    <3>. QED BY <1>1, <2>1, <3>1
  <2>. QED BY <1>1, <1>2, <2>2 DEF HistoryIsOfDatagrams, Offset
<1>12. /\ DOMAIN resendBuffer' = DOMAIN resendBuffer
       /\ \A i \in DOMAIN resendBuffer :
            resendBuffer'[i] = IF \E n \in acked : Slot(n) = i THEN NoPacket ELSE resendBuffer[i]
  BY <1>1
<1>13. BufferIsOfPackets'
  <2>1. /\ resendBuffer \in [0 .. ResendBufferLength - 1 -> InternalPacket]
        /\ \A i \in DOMAIN resendBuffer : resendBuffer[i] # NoPacket =>
             /\ resendBuffer[i] \in Packets /\ IsReliable(resendBuffer[i]) /\ Slot(resendBuffer[i].number) = i
        /\ resendList \in Seq(Number)
        /\ \A i \in DOMAIN resendList : IsInResendBuffer(resendList[i])
        /\ \A i, j \in DOMAIN resendList : resendList[i] = resendList[j] => i = j
    BY <1>2 DEF BufferIsOfPackets, ResendListOK, Number
  <2>2. \A x : (\E i \in DOMAIN resendList : resendList[i] = x)
                 <=> \E i \in DOMAIN resendBuffer : resendBuffer[i] # NoPacket /\ resendBuffer[i].number = x
    BY <1>2 DEF BufferIsOfPackets, ResendListOK, ToSet
  <2>3. /\ resendList' \in Seq(Number)
        /\ \A x : (\E i \in DOMAIN resendList' : resendList'[i] = x)
                    <=> x \notin acked /\ \E i \in DOMAIN resendList : resendList[i] = x
        /\ \A i, j \in DOMAIN resendList' : resendList'[i] = resendList'[j] => i = j
    <3> DEFINE left == RemoveFromList(resendList, acked)
    <3>1. /\ left \in Seq(Number)
          /\ \A x : (\E i \in DOMAIN left : left[i] = x)
                      <=> x \notin acked /\ \E i \in DOMAIN resendList : resendList[i] = x
          /\ (\A i, j \in DOMAIN resendList : resendList[i] = resendList[j] => i = j)
               => \A i, j \in DOMAIN left : left[i] = left[j] => i = j
      <4>1. resendList \in Seq(Number)
        BY <2>1
      <4>. QED BY <4>1, RemoveFromListFacts, Zenon
    <3>2. resendList' = left
      BY <1>1
    <3> HIDE DEF left
    <3>. QED BY <2>1, <3>1, <3>2
  <2>4. NoPacket \in InternalPacket
    BY WrapFacts DEF NoPacket, NoNumber, InternalPacket
  <2>5. resendBuffer' \in [0 .. ResendBufferLength - 1 -> InternalPacket]
    BY <1>1, <2>1, <2>4
  <2>6. ASSUME NEW i \in DOMAIN resendBuffer, resendBuffer'[i] # NoPacket
        PROVE  resendBuffer'[i] = resendBuffer[i] /\ ~\E n \in acked : Slot(n) = i
    BY <1>12, <2>6
  <2>7. ASSUME NEW x, IsInResendBuffer(x), x \notin acked, x \in Number
        PROVE  resendBuffer'[Slot(x)] # NoPacket /\ resendBuffer'[Slot(x)].number = x
    <3>1. ~\E n \in acked : Slot(n) = Slot(x)
      BY <1>3, <2>7 DEF IsInResendBuffer
    <3>2. Slot(x) \in DOMAIN resendBuffer
      BY <2>1, <2>7, SlotFacts
    <3>3. resendBuffer'[Slot(x)] = resendBuffer[Slot(x)]
      BY <1>12, <3>1, <3>2
    <3>. QED BY <2>7, <3>3 DEF IsInResendBuffer
  <2>8. ASSUME NEW i \in DOMAIN resendList'
        PROVE  /\ resendBuffer'[Slot(resendList'[i])] # NoPacket
               /\ resendBuffer'[Slot(resendList'[i])].number = resendList'[i]
    <3>1. resendList'[i] \notin acked /\ \E j \in DOMAIN resendList : resendList[j] = resendList'[i]
      BY <2>3
    <3>2. IsInResendBuffer(resendList'[i])
      BY <2>1, <3>1
    <3>3. resendList'[i] \in Number
      BY <2>1, <3>1, SeqElement
    <3>. QED BY <2>7, <3>1, <3>2, <3>3
  <2>9. ToSet(resendList') = {resendBuffer'[i].number : i \in {j \in DOMAIN resendBuffer' : resendBuffer'[j] # NoPacket}}
    <3>1. ASSUME NEW i \in DOMAIN resendList'
          PROVE  \E j \in DOMAIN resendBuffer' : resendBuffer'[j] # NoPacket /\ resendBuffer'[j].number = resendList'[i]
      <4>1. /\ resendList'[i] \in Number
            /\ resendBuffer'[Slot(resendList'[i])] # NoPacket
            /\ resendBuffer'[Slot(resendList'[i])].number = resendList'[i]
        BY <2>3, <2>8, SeqElement
      <4>. QED BY <1>12, <2>1, <4>1, SlotFacts
    <3>2. ASSUME NEW j \in DOMAIN resendBuffer', resendBuffer'[j] # NoPacket
          PROVE  \E i \in DOMAIN resendList' : resendList'[i] = resendBuffer'[j].number
      <4>1. j \in DOMAIN resendBuffer /\ resendBuffer'[j] = resendBuffer[j] /\ ~\E n \in acked : Slot(n) = j
        BY <1>12, <2>6, <3>2
      <4>2. \E i \in DOMAIN resendList : resendList[i] = resendBuffer[j].number
        BY <2>2, <3>2, <4>1
      <4>3. resendBuffer[j].number \notin acked
        BY <2>1, <3>2, <4>1
      <4>. QED BY <2>3, <4>1, <4>2, <4>3
    <3>. QED BY <3>1, <3>2 DEF ToSet
  <2>10. ASSUME NEW i \in DOMAIN resendBuffer', resendBuffer'[i] # NoPacket
         PROVE  /\ resendBuffer'[i] \in Packets' /\ sent'[resendBuffer'[i].id].reliability \in Reliable
                /\ Slot(resendBuffer'[i].number) = i
    <3>1. resendBuffer'[i] = resendBuffer[i] /\ resendBuffer[i] # NoPacket /\ i \in DOMAIN resendBuffer
      BY <1>12, <2>6, <2>10
    <3>2. Packets' = Packets
      BY <1>1 DEF Packets
    <3>. QED BY <1>1, <2>1, <3>1, <3>2 DEF IsReliable
  <2>. QED BY <2>3, <2>5, <2>8, <2>9, <2>10 DEF BufferIsOfPackets, ResendListOK, Number, IsReliable, IsInResendBuffer
<1>14. \A id \in reported : id \in DOMAIN sent /\ id \in DOMAIN receipts
  <2>1. DOMAIN receipts = DOMAIN scenario.script /\ DOMAIN scenario.script = 1 .. Len(scenario.script)
    BY <1>2, FewNumbers, SeqElement DEF MessagesAreScripted
  <2>2. ASSUME NEW id \in DOMAIN sent PROVE id \in DOMAIN receipts
    <3>1. /\ Len(sent) \in Nat /\ DOMAIN sent = 1 .. Len(sent) /\ Len(sent) <= Len(scenario.script)
          /\ Len(scenario.script) \in Nat
      BY <1>2, FewNumbers
    <3>. QED BY <2>1, <3>1
  <2>. QED BY <1>5, <2>2
\* What is reported has arrived, if it is of one part, and had no receipt.
<1>15. ASSUME NEW id \in reported
       PROVE  receipts[id] = <<>> /\ (sent[id].parts = 1 => <<id, 1>> \in receiver.accepted)
  <2>1. CASE lastOf(id)
    <3>1. PICK n \in acked : resendBuffer[Slot(n)].id = id /\ resendBuffer[Slot(n)].part = sent[id].parts
      BY <1>6, <2>1
    <3> DEFINE b == resendBuffer[Slot(n)]
    <3>2. b \in {resendBuffer[i] : i \in DOMAIN resendBuffer} /\ b # NoPacket /\ Key(b) \in receiver.accepted
      BY <1>3
    <3>3. b.id = id /\ b.part = sent[id].parts
      BY <3>1
    <3> HIDE DEF b
    <3>. QED BY <1>2, <3>2, <3>3 DEF ReceiptsAreDue, Key
  <2>2. CASE <<d, id>> \in unreliableWithAckReceiptHistory
    <3> DEFINE x == <<d, id>>
    <3>1. x[1] = d /\ x[2] = id
      OBVIOUS
    <3> HIDE DEF x
    <3>2. /\ receipts[x[2]] = <<>> /\ sent[x[2]].reliability = "UNRELIABLE_WITH_ACK_RECEIPT"
          /\ \E e \in datagrams : \E p \in ToSet(e.packets) : x = <<e.number, p.id>>
      BY <1>2, <2>2 DEF ReceiptsAreDue, x
    <3>3. PICK e \in datagrams : \E p \in ToSet(e.packets) : x = <<e.number, p.id>>
      BY <3>2
    <3>4. PICK p \in ToSet(e.packets) : x = <<e.number, p.id>>
      BY <3>3
    <3>5. e.number = d /\ p.id = id
      BY <3>1, <3>4
    <3>6. Key(p) \in receiver.accepted
      BY <1>1, <1>2, <3>4, <3>5 DEF NotedIsAccepted
    <3>7. p \in Packets /\ sent[id].parts = 1
      BY <1>2, <1>14, <3>1, <3>2, <3>4, PacketsAre, UnreliableIsWhole
    <3>8. p.part = 1
      BY <1>2, <3>5, <3>7, PacketFacts DEF IsPart
    <3>. QED BY <3>1, <3>2, <3>5, <3>6, <3>8 DEF Key
  <2>. QED BY <1>5, <2>1, <2>2
<1>16. ReceiptsTrue'
  <2>1. ASSUME NEW id \in DOMAIN receipts'
        PROVE  /\ Len(receipts'[id]) <= 1
               /\ receipts'[id] = <<"ACKED">> /\ sent'[id].parts = 1 => <<id, 1>> \in receiver'.accepted
    <3>1. CASE id \in reported
      <4>1. receipts'[id] = Append(<<>>, "ACKED")
        BY <1>9, <1>15, <3>1
      <4>2. receipts'[id] = <<"ACKED">> /\ Len(<<"ACKED">>) = 1
        BY <4>1
      <4>. QED BY <1>1, <1>15, <3>1, <4>2
    <3>2. CASE id \notin reported
      BY <1>1, <1>2, <1>9, <3>2 DEF ReceiptsTrue
    <3>. QED BY <3>1, <3>2
  <2>. QED BY <2>1 DEF ReceiptsTrue
<1>17. ASSUME NEW id \in reported, NEW p, IsPart(p), p.id = id, p.part = sent[id].parts
       PROVE  \/ \E n \in acked : Key(resendBuffer[Slot(n)]) = Key(p)
              \/ /\ sent[id].reliability = "UNRELIABLE_WITH_ACK_RECEIPT" /\ sent[id].parts = 1
                 /\ \E q \in Packets : Key(q) = Key(p)
  <2>1. CASE lastOf(id)
    BY <1>6, <1>17, <2>1 DEF Key
  <2>2. CASE <<d, id>> \in unreliableWithAckReceiptHistory
    <3> DEFINE x == <<d, id>>
    <3>1. x[2] = id
      OBVIOUS
    <3> HIDE DEF x
    <3>2. /\ sent[x[2]].reliability = "UNRELIABLE_WITH_ACK_RECEIPT"
          /\ \E e \in datagrams : \E q \in ToSet(e.packets) : x = <<e.number, q.id>>
      BY <1>2, <2>2 DEF ReceiptsAreDue, x
    <3>3. PICK e \in datagrams : \E q \in ToSet(e.packets) : x = <<e.number, q.id>>
      BY <3>2
    <3>4. PICK q \in ToSet(e.packets) : x = <<e.number, q.id>>
      BY <3>3
    <3>5. q \in Packets /\ q.id = id /\ sent[id].parts = 1 /\ sent[id].reliability = "UNRELIABLE_WITH_ACK_RECEIPT"
      BY <1>2, <1>14, <3>1, <3>2, <3>4, PacketsAre, UnreliableIsWhole
    <3>6. q.part = 1
      BY <1>2, <3>5, PacketFacts DEF IsPart
    <3>. QED BY <1>17, <3>5, <3>6 DEF Key
  <2>. QED BY <1>5, <2>1, <2>2
<1>18. ReceiptsAreDue'
  <2>1. ASSUME NEW y \in unreliableWithAckReceiptHistory'
        PROVE  /\ y[2] \in DOMAIN sent /\ sent[y[2]].reliability = "UNRELIABLE_WITH_ACK_RECEIPT"
               /\ receipts'[y[2]] = <<>>
               /\ \E e \in datagrams : \E p \in ToSet(e.packets) : y = <<e.number, p.id>>
               /\ \A z \in unreliableWithAckReceiptHistory' : y[2] = z[2] => y = z
    <3>1. y \in unreliableWithAckReceiptHistory /\ y[1] # d
      BY <1>1
    <3>2. /\ y[2] \in DOMAIN sent /\ sent[y[2]].reliability = "UNRELIABLE_WITH_ACK_RECEIPT"
          /\ receipts[y[2]] = <<>>
          /\ \E e \in datagrams : \E p \in ToSet(e.packets) : y = <<e.number, p.id>>
          /\ \A z \in unreliableWithAckReceiptHistory : y[2] = z[2] => y = z
      BY <1>2, <3>1 DEF ReceiptsAreDue
    <3>3. y[2] \notin reported
      <4>1. sent[y[2]].reliability \notin WithReceipt
        BY <3>2 DEF WithReceipt
      <4>2. <<d, y[2]>> \notin unreliableWithAckReceiptHistory
        <5>1. ASSUME <<d, y[2]>> \in unreliableWithAckReceiptHistory PROVE FALSE
          <6> DEFINE z == <<d, y[2]>>
          <6>1. z[1] = d /\ z[2] = y[2]
            OBVIOUS
          <6> HIDE DEF z
          <6>2. z \in unreliableWithAckReceiptHistory
            BY <5>1 DEF z
          <6>. QED BY <3>1, <3>2, <6>1, <6>2
        <5>. QED BY <5>1
      <4>. QED BY <1>5, <4>1, <4>2
    <3>4. y[2] \in DOMAIN receipts
      BY <1>2, <3>2, UnreliableIsWhole DEF MessagesAreScripted
    <3>5. receipts'[y[2]] = <<>>
      BY <1>9, <3>2, <3>3, <3>4
    <3>. QED BY <1>1, <3>2, <3>5
  <2>2. \A i \in DOMAIN receipts' : i \notin DOMAIN sent' => receipts'[i] = <<>>
    BY <1>1, <1>2, <1>9, <1>14 DEF ReceiptsAreDue
  <2>3. ASSUME NEW p \in ToSet(outgoingPacketBuffer), p # NoPacket, p.part = sent[p.id].parts
        PROVE  receipts'[p.id] = <<>>
    <3>1. PICK i \in DOMAIN outgoingPacketBuffer : p = outgoingPacketBuffer[i]
      BY DEF ToSet
    <3>2. IsPart(p) /\ \A q \in Packets : Key(q) # Key(p)
      BY <1>2, <3>1 DEF QueueIsNew
    <3>3. p.id \notin reported
      BY <1>3, <1>17, <2>3, <3>2
    <3>4. receipts[p.id] = <<>>
      BY <1>2, <2>3 DEF ReceiptsAreDue
    <3>5. p.id \in DOMAIN receipts
      <4>1. p.id \in DOMAIN sent
        BY <3>2 DEF IsPart
      <4>. QED BY <1>2, <4>1, FewNumbers, SeqElement DEF MessagesAreScripted
    <3>. QED BY <1>9, <3>3, <3>4, <3>5
  <2>4. ASSUME NEW i \in DOMAIN resendBuffer, resendBuffer'[i] # NoPacket,
               resendBuffer'[i].part = sent[resendBuffer'[i].id].parts
        PROVE  receipts'[resendBuffer'[i].id] = <<>>
    <3> DEFINE p == resendBuffer[i]
    <3>1. resendBuffer'[i] = p /\ p # NoPacket /\ ~\E n \in acked : Slot(n) = i
      BY <1>12, <2>4
    <3>2. p \in Packets /\ IsReliable(p) /\ Slot(p.number) = i
      BY <1>2, <3>1 DEF BufferIsOfPackets
    <3>3. IsPart(p) /\ p.id \in DOMAIN sent
      BY <1>2, <3>2, PacketFacts
    <3>4. p.part = sent[p.id].parts /\ p \in {resendBuffer[j] : j \in DOMAIN resendBuffer}
      BY <2>4, <3>1
    <3> HIDE DEF p
    <3>5. p.id \notin reported
      <4>1. ASSUME NEW n \in acked PROVE Key(resendBuffer[Slot(n)]) # Key(p)
        <5>1. ASSUME Key(resendBuffer[Slot(n)]) = Key(p) PROVE FALSE
          <6>1. resendBuffer[Slot(n)] = p /\ resendBuffer[Slot(n)].number = n
            BY <1>2, <1>3, <3>2, <5>1 DEF PacketsAreNumbered
          <6>. QED BY <3>1, <3>2, <6>1
        <5>. QED BY <5>1
      <4>2. sent[p.id].reliability # "UNRELIABLE_WITH_ACK_RECEIPT"
        BY <1>2, <3>2, <3>3, UnreliableIsWhole DEF IsReliable
      <4>. QED BY <1>17, <3>3, <3>4, <4>1, <4>2
    <3>6. receipts[p.id] = <<>>
      BY <1>2, <3>1, <3>4 DEF ReceiptsAreDue
    <3>7. p.id \in DOMAIN receipts
      BY <1>2, <3>3, FewNumbers, SeqElement DEF MessagesAreScripted
    <3>. QED BY <1>9, <3>1, <3>5, <3>6, <3>7
  <2>5. ASSUME NEW p \in ToSet(outgoingPacketBuffer)' \cup {resendBuffer'[i] : i \in DOMAIN resendBuffer'},
               p # NoPacket, p.part = sent'[p.id].parts
        PROVE  receipts'[p.id] = <<>>
    <3>1. sent' = sent /\ ToSet(outgoingPacketBuffer)' = ToSet(outgoingPacketBuffer)
      BY <1>1
    <3>2. CASE p \in ToSet(outgoingPacketBuffer)
      BY <2>3, <2>5, <3>1, <3>2
    <3>3. CASE \E i \in DOMAIN resendBuffer' : p = resendBuffer'[i]
      <4>1. PICK i \in DOMAIN resendBuffer : p = resendBuffer'[i]
        BY <1>12, <3>3
      <4>. QED BY <2>4, <2>5, <3>1, <4>1
    <3>. QED BY <2>5, <3>1, <3>2, <3>3
  <2>. QED BY <1>1, <2>1, <2>2, <2>5 DEF ReceiptsAreDue
<1>19. ReliableOnesKept'
  <2>1. IdsOf(Reliable)' = IdsOf(Reliable)
    BY <1>1 DEF IdsOf
  <2>2. ASSUME NEW id \in IdsOf(Reliable), NEW part \in 1 .. sent[id].parts
        PROVE  \/ <<id, part>> \in receiver.accepted
               \/ \E i \in DOMAIN outgoingPacketBuffer :
                    outgoingPacketBuffer[i].id = id /\ outgoingPacketBuffer[i].part = part
               \/ \E i \in DOMAIN resendBuffer' : resendBuffer'[i].id = id /\ resendBuffer'[i].part = part
    <3>1. ASSUME NEW i \in DOMAIN resendBuffer, resendBuffer[i].id = id, resendBuffer[i].part = part
          PROVE  \/ <<id, part>> \in receiver.accepted
                 \/ \E j \in DOMAIN resendBuffer' : resendBuffer'[j].id = id /\ resendBuffer'[j].part = part
      <4>1. CASE \E n \in acked : Slot(n) = i
        BY <1>3, <3>1, <4>1 DEF Key
      <4>2. CASE ~\E n \in acked : Slot(n) = i
        BY <1>12, <3>1, <4>2
      <4>. QED BY <4>1, <4>2
    <3>. QED BY <1>2, <3>1 DEF ReliableOnesKept
  <2>3. ASSUME NEW id \in IdsOf(Reliable)', NEW part \in 1 .. sent'[id].parts
        PROVE  \/ <<id, part>> \in receiver'.accepted
               \/ \E i \in DOMAIN outgoingPacketBuffer' :
                    outgoingPacketBuffer'[i].id = id /\ outgoingPacketBuffer'[i].part = part
               \/ \E i \in DOMAIN resendBuffer' : resendBuffer'[i].id = id /\ resendBuffer'[i].part = part
    BY <1>1, <2>1, <2>2
  <2>. QED BY <2>3 DEF ReliableOnesKept
<1>. QED BY <1>7, <1>10, <1>11, <1>13, <1>16, <1>18, <1>19 DEF ReliabilityIInv

\* What is left of a sequence without its first k elements.
LEMMA RestOfSequence ==
  ASSUME NEW S, NEW q \in Seq(S), NEW k \in 1 .. Len(q)
  PROVE  /\ SubSeq(q, k + 1, Len(q)) \in Seq(S) /\ Len(SubSeq(q, k + 1, Len(q))) = Len(q) - k
         /\ \A i \in 1 .. Len(q) - k : SubSeq(q, k + 1, Len(q))[i] = q[k + i]
<1>1. SubSeq(q, k + 1, Len(q)) = [i \in 1 .. Len(q) - k |-> q[k + i]]
  <2>1. \A i \in 1 .. Len(q) - k : SubSeq(q, k + 1, Len(q))[i] = q[k + i]
    OBVIOUS
  <2>. QED BY <2>1
<1>2. \A i \in 1 .. Len(q) - k : q[k + i] \in S
  OBVIOUS
<1>. QED BY <1>1, <1>2

\* What goes to the end of a list stays on it.
LEMMA RotatedFacts ==
  ASSUME NEW S, NEW q \in Seq(S), NEW n \in 1 .. Len(q)
  PROVE  LET r == SubSeq(q, n + 1, Len(q)) \o SubSeq(q, 1, n)
         IN /\ r \in Seq(S)
            /\ \A x : (\E i \in DOMAIN r : r[i] = x) <=> \E i \in DOMAIN q : q[i] = x
            /\ (\A i, j \in DOMAIN q : q[i] = q[j] => i = j) => \A i, j \in DOMAIN r : r[i] = r[j] => i = j
<1> DEFINE L == Len(q)
           a == SubSeq(q, n + 1, Len(q))
           b == SubSeq(q, 1, n)
           r == a \o b
           at(i) == IF i <= L - n THEN n + i ELSE i - (L - n)
<1>1. L \in Nat /\ n \in 1 .. L /\ DOMAIN q = 1 .. L
  OBVIOUS
<1>2. /\ a \in Seq(S) /\ Len(a) = L - n /\ \A i \in 1 .. L - n : a[i] = q[n + i]
      /\ b \in Seq(S) /\ Len(b) = n /\ \A i \in 1 .. n : b[i] = q[i]
  <2>1. a \in Seq(S) /\ Len(a) = L - n /\ \A i \in 1 .. L - n : a[i] = q[n + i]
    BY RestOfSequence
  <2>2. b \in Seq(S) /\ Len(b) = n /\ \A i \in 1 .. n : b[i] = q[i]
    BY <1>1
  <2>. QED BY <2>1, <2>2
<1> HIDE DEF a, b, L
<1>3. /\ r \in Seq(S) /\ Len(r) = L /\ DOMAIN r = 1 .. L
      /\ \A i \in 1 .. L : r[i] = IF i <= L - n THEN a[i] ELSE b[i - (L - n)]
  BY <1>1, <1>2
<1> HIDE DEF r
<1>4. \A i \in 1 .. L : r[i] = q[at(i)] /\ at(i) \in 1 .. L
  <2>1. ASSUME NEW i \in 1 .. L PROVE r[i] = q[at(i)] /\ at(i) \in 1 .. L
    <3>1. CASE i <= L - n
      <4>1. i \in 1 .. L - n /\ at(i) = n + i /\ n + i \in 1 .. L
        BY <1>1, <3>1
      <4>2. r[i] = a[i] /\ a[i] = q[n + i]
        BY <1>2, <1>3, <3>1, <4>1
      <4>. QED BY <4>1, <4>2
    <3>2. CASE ~(i <= L - n)
      <4>1. i - (L - n) \in 1 .. n /\ i - (L - n) \in 1 .. L
        BY <1>1, <3>2
      <4>. QED BY <1>2, <1>3, <3>2, <4>1
    <3>. QED BY <3>1, <3>2
  <2>. QED BY <2>1
<1>5. \A i, j \in 1 .. L : at(i) = at(j) => i = j
  BY <1>1
<1>6. \A k \in 1 .. L : \E i \in 1 .. L : at(i) = k
  <2>1. ASSUME NEW k \in 1 .. L PROVE \E i \in 1 .. L : at(i) = k
    <3>1. CASE k > n
      <4>1. k - n \in 1 .. L /\ at(k - n) = k
        BY <1>1, <3>1
      <4>. QED BY <4>1
    <3>2. CASE ~(k > n)
      <4>1. k + (L - n) \in 1 .. L /\ at(k + (L - n)) = k
        BY <1>1, <3>2
      <4>. QED BY <4>1
    <3>. QED BY <3>1, <3>2
  <2>. QED BY <2>1
<1> HIDE DEF at
<1>7. ASSUME NEW x PROVE (\E i \in DOMAIN r : r[i] = x) <=> \E i \in DOMAIN q : q[i] = x
  <2>1. ASSUME NEW i \in DOMAIN r, r[i] = x PROVE \E k \in DOMAIN q : q[k] = x
    BY <1>1, <1>3, <1>4, <2>1
  <2>2. ASSUME NEW k \in DOMAIN q, q[k] = x PROVE \E i \in DOMAIN r : r[i] = x
    <3>1. PICK i \in 1 .. L : at(i) = k
      BY <1>1, <1>6
    <3>. QED BY <1>3, <1>4, <2>2, <3>1
  <2>. QED BY <2>1, <2>2
<1>8. ASSUME \A i, j \in DOMAIN q : q[i] = q[j] => i = j
      PROVE  \A i, j \in DOMAIN r : r[i] = r[j] => i = j
  BY <1>1, <1>3, <1>4, <1>5, <1>8
<1>. QED BY <1>3, <1>7, <1>8 DEF r, a, b

\* A datagram that is sent has not been acknowledged.
LEMMA NewIsNotAcked ==
  ASSUME ReliabilityIInv, NEW packets \in Seq(InternalPacket), SendDatagram(packets)
  PROVE  /\ acks' = acks /\ acks' \subseteq {d.number : d \in datagrams'}
         /\ \A d \in datagrams' : d.number \in acks' => d \in datagrams
<1>1. acks' = acks /\ acks \subseteq {d.number : d \in datagrams}
  BY DEF SendDatagram, ReliabilityIInv, NotedIsAccepted
<1>2. /\ datagrams \subseteq datagrams' /\ \A d \in datagrams : d.number # NextDatagram
      /\ \A d \in datagrams' : d \in datagrams \/ d.number = NextDatagram
  BY SendDatagramFacts
<1>. QED BY <1>1, <1>2

LEMMA ResendPacketsKeeps ==
  ASSUME ReliabilityIInv, NEW n \in Nat \ {0}, ResendPackets(n) PROVE ReliabilityIInv'
<1> DEFINE due == SubSeq(resendList, 1, n)
           packets == [i \in 1 .. n |-> resendBuffer[Slot(due[i])]]
<1>1. /\ n \in 1 .. Len(resendList)
      /\ resendList' = SubSeq(resendList, n + 1, Len(resendList)) \o due
      /\ SendDatagram(packets)
      /\ outgoingPacketBuffer' = outgoingPacketBuffer
      /\ sendReliableMessageNumberIndex' = sendReliableMessageNumberIndex
      /\ resendBuffer' = resendBuffer
      /\ unreliableWithAckReceiptHistory' = unreliableWithAckReceiptHistory
  <2>1. Len(resendList) \in Nat
    BY DEF ReliabilityIInv, BufferIsOfPackets
  <2>2. n <= Len(resendList)
    BY DEF ResendPackets
  <2>3. n \in 1 .. Len(resendList)
    BY <2>1, <2>2
  <2>4. resendList' = SubSeq(resendList, n + 1, Len(resendList)) \o due
    BY DEF ResendPackets
  <2>. QED BY <2>3, <2>4 DEF ResendPackets
<1>2. /\ MessagesAreScripted /\ QueueIsNew /\ PacketsAreNumbered /\ DatagramsAreNumbered
      /\ BufferIsOfPackets /\ HistoryIsOfDatagrams /\ NotedIsAccepted
      /\ ReceiptsAreDue /\ ReceiptsTrue /\ ReliableOnesKept
  BY DEF ReliabilityIInv
<1>3. scenario' = scenario /\ sent' = sent /\ receipts' = receipts /\ receiver' = receiver
  BY <1>1 DEF SendDatagram
<1>4. \A i \in 1 .. n : due[i] = resendList[i] /\ i \in DOMAIN resendList
  <2>1. resendList \in Seq(0 .. NumberRange - 1)
    BY <1>2 DEF BufferIsOfPackets
  <2>. QED BY <1>1, <2>1
<1>5. \A i \in 1 .. n : packets[i] \in Packets
  <2>1. ASSUME NEW i \in 1 .. n PROVE packets[i] \in Packets
    <3>1. resendList[i] \in Number /\ IsInResendBuffer(resendList[i])
      <4>1. resendList \in Seq(Number) /\ i \in DOMAIN resendList
        BY <1>2, <1>4 DEF BufferIsOfPackets, Number
      <4>. QED BY <1>2, <4>1, SeqElement DEF BufferIsOfPackets
    <3>2. Slot(resendList[i]) \in DOMAIN resendBuffer
      BY <1>2, <3>1, SlotFacts DEF BufferIsOfPackets
    <3>3. resendBuffer[Slot(resendList[i])] \in Packets
      BY <1>2, <3>1, <3>2 DEF BufferIsOfPackets, IsInResendBuffer
    <3>. QED BY <1>4, <3>3
  <2>. QED BY <2>1
<1>6. packets \in Seq(InternalPacket) /\ ToSet(packets) \subseteq Packets
  <2>1. \A i \in 1 .. n : packets[i] \in InternalPacket
    BY <1>2, <1>5, PacketFacts
  <2>2. DOMAIN packets = 1 .. n
    OBVIOUS
  <2> HIDE DEF packets
  <2>3. ToSet(packets) \subseteq Packets
    BY <1>5, <2>2 DEF ToSet
  <2>4. packets = [i \in 1 .. n |-> packets[i]]
    BY DEF packets
  <2>. QED BY <2>1, <2>3, <2>4
<1> HIDE DEF packets
<1>7. /\ Packets' = Packets /\ DatagramsAreNumbered' /\ HistoryIsOfDatagrams'
      /\ datagrams \subseteq datagrams'
  BY <1>1, <1>6, SendDatagramFacts
<1>8. MessagesAreScripted' /\ QueueIsNew'
  BY <1>1, <1>2, <1>3, <1>7 DEF MessagesAreScripted, QueueIsNew, Numbered, Offset, IsPart
<1>9. PacketsAreNumbered'
  BY <1>1, <1>2, <1>3, <1>7 DEF PacketsAreNumbered, Numbered, Offset, IsPart, IsReliable
<1>10. BufferIsOfPackets'
  <2>1. resendList \in Seq(Number) /\ \A i, j \in DOMAIN resendList : resendList[i] = resendList[j] => i = j
    BY <1>2 DEF BufferIsOfPackets, ResendListOK, Number
  <2>2. /\ resendList' \in Seq(Number)
        /\ \A x : (\E i \in DOMAIN resendList' : resendList'[i] = x) <=> \E i \in DOMAIN resendList : resendList[i] = x
        /\ \A i, j \in DOMAIN resendList' : resendList'[i] = resendList'[j] => i = j
    <3> DEFINE r == SubSeq(resendList, n + 1, Len(resendList)) \o SubSeq(resendList, 1, n)
    <3>1. /\ r \in Seq(Number)
          /\ \A x : (\E i \in DOMAIN r : r[i] = x) <=> \E i \in DOMAIN resendList : resendList[i] = x
          /\ (\A i, j \in DOMAIN resendList : resendList[i] = resendList[j] => i = j)
               => \A i, j \in DOMAIN r : r[i] = r[j] => i = j
      BY <1>1, <2>1, RotatedFacts, Zenon
    <3>2. resendList' = r
      BY <1>1
    <3> HIDE DEF r
    <3>. QED BY <2>1, <3>1, <3>2
  <2>3. ToSet(resendList') = ToSet(resendList)
    BY <2>2 DEF ToSet
  <2>4. \A i \in DOMAIN resendList' : IsInResendBuffer(resendList'[i])
    <3>1. \A i \in DOMAIN resendList : IsInResendBuffer(resendList[i])
      BY <1>2 DEF BufferIsOfPackets
    <3>. QED BY <2>2, <3>1
  <2>5. \A i \in DOMAIN resendList' :
          resendBuffer'[Slot(resendList'[i])] # NoPacket /\ resendBuffer'[Slot(resendList'[i])].number = resendList'[i]
    BY <1>1, <2>4 DEF IsInResendBuffer
  <2>6. /\ resendBuffer' \in [0 .. ResendBufferLength - 1 -> InternalPacket]
        /\ \A i \in DOMAIN resendBuffer' : resendBuffer'[i] # NoPacket =>
             /\ resendBuffer'[i] \in Packets' /\ sent'[resendBuffer'[i].id].reliability \in Reliable
             /\ Slot(resendBuffer'[i].number) = i
    BY <1>1, <1>2, <1>3, <1>7 DEF BufferIsOfPackets, IsReliable
  <2>7. ToSet(resendList') = {resendBuffer'[i].number : i \in {j \in DOMAIN resendBuffer' : resendBuffer'[j] # NoPacket}}
    BY <1>1, <1>2, <2>3 DEF BufferIsOfPackets, ResendListOK
  <2>. QED BY <2>2, <2>5, <2>6, <2>7
       DEF BufferIsOfPackets, ResendListOK, Number, IsReliable, IsInResendBuffer
<1>11. NotedIsAccepted'
  <2>1. /\ acks' \subseteq {d.number : d \in datagrams'}
        /\ \A d \in datagrams' : d.number \in acks' => d \in datagrams /\ d.number \in acks
    BY <1>1, <1>6, NewIsNotAcked
  <2>. QED BY <1>1, <1>2, <1>3, <1>7, <2>1 DEF NotedIsAccepted, Numbered, Offset, IsReliable, Noted
<1>12. ReceiptsAreDue' /\ ReceiptsTrue'
  BY <1>1, <1>2, <1>3, <1>7 DEF ReceiptsAreDue, ReceiptsTrue
<1>13. ReliableOnesKept'
  BY <1>1, <1>2, <1>3, KeptStays
<1>. QED BY <1>7, <1>8, <1>9, <1>10, <1>11, <1>12, <1>13 DEF ReliabilityIInv

\* The message that is sent, and its parts.
LEMMA SendFacts ==
  ASSUME MessagesAreScripted, QueueIsNew, Send
  PROVE  LET id == Len(sent) + 1
             said == scenario.script[id]
             m == sent'[id]
             L == Len(outgoingPacketBuffer)
         IN /\ id \in DOMAIN scenario.script /\ id \notin DOMAIN sent /\ id \in Nat \ {0}
            /\ sent' \in Seq(SentMessage) /\ Len(sent') = id /\ DOMAIN sent' = DOMAIN sent \cup {id}
            /\ \A i \in DOMAIN sent : sent'[i] = sent[i]
            /\ m.reliability = Upgraded(said.reliability, said.parts) /\ m.parts = said.parts
            /\ m.parts \in 1 .. 2 /\ L \in Nat
            /\ outgoingPacketBuffer' \in Seq(InternalPacket) /\ Len(outgoingPacketBuffer') = L + m.parts
            /\ \A i \in DOMAIN outgoingPacketBuffer :
                 i \in DOMAIN outgoingPacketBuffer' /\ outgoingPacketBuffer'[i] = outgoingPacketBuffer[i]
            /\ \A k \in 1 .. m.parts :
                 L + k \in DOMAIN outgoingPacketBuffer'
                 /\ outgoingPacketBuffer'[L + k] = [id |-> id, part |-> k, number |-> NoNumber]
            /\ \A i \in DOMAIN outgoingPacketBuffer' :
                 i \in DOMAIN outgoingPacketBuffer \/ \E k \in 1 .. m.parts : i = L + k
<1> DEFINE id == Len(sent) + 1
           said == scenario.script[id]
           L == Len(outgoingPacketBuffer)
           m == [reliability |-> Upgraded(said.reliability, said.parts), parts |-> said.parts,
                 orderingIndex |-> Wrap(scenario.first + OrderedBefore(id - 1)),
                 sequencingIndex |-> Wrap(SequencedSince(id - 1))]
           new == [p \in 1 .. said.parts |-> [id |-> id, part |-> p, number |-> NoNumber]]
<1>1. /\ id <= Len(scenario.script) /\ sent' = Append(sent, m)
      /\ outgoingPacketBuffer' = outgoingPacketBuffer \o new
  BY DEF Send
<1>2. /\ Len(sent) \in Nat /\ DOMAIN sent = 1 .. Len(sent) /\ sent \in Seq(SentMessage)
      /\ id \in Nat \ {0} /\ id \notin DOMAIN sent
      /\ L \in Nat /\ outgoingPacketBuffer \in Seq(InternalPacket) /\ DOMAIN outgoingPacketBuffer = 1 .. L
  <2>1. Len(sent) \in Nat /\ DOMAIN sent = 1 .. Len(sent) /\ sent \in Seq(SentMessage)
    BY DEF MessagesAreScripted
  <2>2. L \in Nat /\ outgoingPacketBuffer \in Seq(InternalPacket) /\ DOMAIN outgoingPacketBuffer = 1 .. L
    BY DEF QueueIsNew
  <2>. QED BY <2>1, <2>2
<1>3. /\ id \in DOMAIN scenario.script
      /\ said \in [reliability : PacketReliability, parts : 1 .. 2]
  <2>1. scenario.script \in Seq([reliability : PacketReliability, parts : 1 .. 2])
    BY FewNumbers
  <2>2. id \in DOMAIN scenario.script
    BY <1>1, <1>2, <2>1
  <2>. QED BY <2>1, <2>2, SeqElement
<1>4. said.parts \in 1 .. 2 /\ said.reliability \in PacketReliability
  BY <1>3
<1>5. m \in SentMessage /\ m.parts = said.parts
  <2>1. ASSUME NEW n \in Nat PROVE OrderedBefore(n) \in Int /\ SequencedSince(n) \in Int
    <3>1. ASSUME NEW S, S \subseteq 1 .. n PROVE Cardinality(S) \in Nat
      <4>1. IsFiniteSet(1 .. n)
        BY FS_Interval
      <4>2. IsFiniteSet(S)
        BY <3>1, <4>1, FS_Subset
      <4>. QED BY <4>2, FS_CardinalityType
    <3>. QED BY <3>1 DEF OrderedBefore, SequencedSince
  <2>2. id - 1 \in Nat /\ scenario.first \in Int
    <3>1. scenario.first \in 0 .. NumberRange - 1 /\ NumberRange \in Nat
      BY FewNumbers, WrapFacts DEF FewAreNumbered, Number
    <3>. QED BY <1>2, <3>1
  <2>3. /\ Wrap(scenario.first + OrderedBefore(id - 1)) \in 0 .. NumberRange - 1
        /\ Wrap(SequencedSince(id - 1)) \in 0 .. NumberRange - 1
    <3>1. scenario.first + OrderedBefore(id - 1) \in Int /\ SequencedSince(id - 1) \in Int
      BY <2>1, <2>2
    <3>. QED BY <3>1, WrapFacts
  <2> HIDE DEF said, id
  <2>4. Upgraded(said.reliability, said.parts) \in PacketReliability
    BY <1>4 DEF Upgraded, PacketReliability, Reliable, WithReceipt
  <2>. QED BY <1>4, <2>3, <2>4 DEF SentMessage
<1>6. m.reliability = Upgraded(said.reliability, said.parts)
  OBVIOUS
<1>7. NoNumber \in 0 .. NumberRange - 1
  BY WrapFacts DEF NoNumber
<1> DEFINE q == said.parts
<1>8. /\ new \in Seq(InternalPacket) /\ Len(new) = q
      /\ \A k \in 1 .. q : new[k] = [id |-> id, part |-> k, number |-> NoNumber]
  <2> HIDE DEF said, id
  <2>1. \A k \in 1 .. q : [id |-> id, part |-> k, number |-> NoNumber] \in InternalPacket
    BY <1>2, <1>4, <1>7 DEF InternalPacket
  <2>. QED BY <1>4, <2>1
<1> HIDE DEF m, new, id
<1>9. /\ sent' \in Seq(SentMessage) /\ Len(sent') = id /\ DOMAIN sent' = DOMAIN sent \cup {id}
      /\ \A i \in DOMAIN sent : sent'[i] = sent[i]
      /\ sent'[id] = m
  <2>1. /\ sent' \in Seq(SentMessage) /\ Len(sent') = Len(sent) + 1
        /\ \A i \in DOMAIN sent : sent'[i] = sent[i]
        /\ sent'[Len(sent) + 1] = m
    BY <1>1, <1>2, <1>5
  <2>2. DOMAIN sent' = 1 .. Len(sent) + 1
    BY <2>1
  <2>. QED BY <1>2, <2>1, <2>2 DEF id
<1>10. /\ outgoingPacketBuffer' \in Seq(InternalPacket) /\ Len(outgoingPacketBuffer') = L + q
       /\ \A i \in 1 .. L : outgoingPacketBuffer'[i] = outgoingPacketBuffer[i]
       /\ \A k \in 1 .. q : outgoingPacketBuffer'[L + k] = new[k]
       /\ DOMAIN outgoingPacketBuffer' = 1 .. L + q
  <2> HIDE DEF said
  <2>. QED BY <1>1, <1>2, <1>4, <1>8
<1> HIDE DEF L, said
<1>11. /\ \A i \in 1 .. L : i \in 1 .. L + q
       /\ \A k \in 1 .. q : L + k \in 1 .. L + q
  BY <1>2, <1>4
<1>12. ASSUME NEW i \in 1 .. L + q PROVE i \in 1 .. L \/ \E k \in 1 .. q : i = L + k
  <2>1. CASE i <= L
    BY <1>2, <2>1
  <2>2. CASE ~(i <= L)
    <3>1. i - L \in 1 .. q /\ i = L + (i - L)
      BY <1>2, <1>4, <2>2
    <3>. QED BY <3>1
  <2>. QED BY <2>1, <2>2
<1>. QED BY <1>2, <1>3, <1>4, <1>5, <1>6, <1>8, <1>9, <1>10, <1>11, <1>12 DEF id, L, said

LEMMA SendKeeps ==
  ASSUME ReliabilityIInv, Send PROVE ReliabilityIInv'
<1> DEFINE id == Len(sent) + 1
           m == sent'[id]
           L == Len(outgoingPacketBuffer)
<1>1. /\ scenario' = scenario /\ receipts' = receipts
      /\ sendReliableMessageNumberIndex' = sendReliableMessageNumberIndex
      /\ resendBuffer' = resendBuffer /\ resendList' = resendList
      /\ datagramHistory' = datagramHistory /\ datagramHistoryPopCount' = datagramHistoryPopCount
      /\ unreliableWithAckReceiptHistory' = unreliableWithAckReceiptHistory
      /\ datagrams' = datagrams /\ acks' = acks /\ receiver' = receiver
  BY DEF Send
<1>2. /\ MessagesAreScripted /\ QueueIsNew /\ PacketsAreNumbered /\ DatagramsAreNumbered
      /\ BufferIsOfPackets /\ HistoryIsOfDatagrams /\ NotedIsAccepted
      /\ ReceiptsAreDue /\ ReceiptsTrue /\ ReliableOnesKept
  BY DEF ReliabilityIInv
<1>3. /\ id \in DOMAIN scenario.script /\ id \notin DOMAIN sent /\ id \in Nat \ {0}
      /\ sent' \in Seq(SentMessage) /\ Len(sent') = id /\ DOMAIN sent' = DOMAIN sent \cup {id}
      /\ \A i \in DOMAIN sent : sent'[i] = sent[i]
      /\ m.reliability = Upgraded(scenario.script[id].reliability, scenario.script[id].parts)
      /\ m.parts = scenario.script[id].parts /\ m.parts \in 1 .. 2 /\ L \in Nat
      /\ outgoingPacketBuffer' \in Seq(InternalPacket) /\ Len(outgoingPacketBuffer') = L + m.parts
  BY <1>2, SendFacts
<1>4. /\ \A i \in DOMAIN outgoingPacketBuffer :
           i \in DOMAIN outgoingPacketBuffer' /\ outgoingPacketBuffer'[i] = outgoingPacketBuffer[i]
      /\ \A k \in 1 .. m.parts :
           L + k \in DOMAIN outgoingPacketBuffer'
           /\ outgoingPacketBuffer'[L + k] = [id |-> id, part |-> k, number |-> NoNumber]
      /\ \A i \in DOMAIN outgoingPacketBuffer' :
           i \in DOMAIN outgoingPacketBuffer \/ \E k \in 1 .. m.parts : i = L + k
  BY <1>2, SendFacts
<1>5. Len(sent) \in Nat /\ id = Len(sent) + 1 /\ Len(sent') <= Len(scenario.script)
  <2>1. DOMAIN scenario.script = 1 .. Len(scenario.script) /\ Len(scenario.script) \in Nat
    BY <1>2, FewNumbers, SeqElement
  <2>. QED BY <1>2, <1>3, <2>1, FewNumbers
<1> HIDE DEF id, m, L
<1>6. /\ Packets' = Packets /\ Numbered' = Numbered /\ \A n : Offset(n)' = Offset(n)
  BY <1>1 DEF Packets, Numbered, Offset
<1>7. ASSUME NEW p, IsPart(p)
      PROVE  IsPart(p)' /\ sent'[p.id] = sent[p.id] /\ (IsReliable(p)' <=> IsReliable(p))
  BY <1>3, <1>7 DEF IsPart, IsReliable
<1>8. \A p \in Packets : IsPart(p)
  BY <1>2 DEF PacketsAreNumbered
<1>9. \A i \in DOMAIN outgoingPacketBuffer :
        /\ IsPart(outgoingPacketBuffer[i]) /\ outgoingPacketBuffer[i].number = NoNumber
        /\ \A p \in Packets : Key(p) # Key(outgoingPacketBuffer[i])
        /\ \A j \in DOMAIN outgoingPacketBuffer :
             Key(outgoingPacketBuffer[j]) = Key(outgoingPacketBuffer[i]) => i = j
  BY <1>2 DEF QueueIsNew
<1>10. MessagesAreScripted'
  <2>1. ASSUME NEW i \in DOMAIN sent'
        PROVE  LET said == scenario'.script[i]
               IN sent'[i].parts = said.parts /\ sent'[i].reliability = Upgraded(said.reliability, said.parts)
    <3>1. CASE i = id
      BY <1>1, <1>3, <3>1 DEF m
    <3>2. CASE i \in DOMAIN sent
      BY <1>1, <1>2, <1>3, <3>2 DEF MessagesAreScripted
    <3>. QED BY <1>3, <3>1, <3>2
  <2>. QED BY <1>1, <1>2, <1>3, <1>5, <2>1 DEF MessagesAreScripted
<1>11. ASSUME NEW k \in 1 .. m.parts, NEW p, p = [id |-> id, part |-> k, number |-> NoNumber]
       PROVE  /\ IsPart(p)' /\ Key(p) = <<id, k>>
              /\ \A q : IsPart(q) => Key(q) # Key(p)
  <2>1. p \in InternalPacket /\ p.id = id /\ p.part = k
    BY <1>3, <1>11, WrapFacts DEF InternalPacket, NoNumber
  <2>2. \A q : IsPart(q) => q.id # id
    BY <1>3 DEF IsPart
  <2>3. p.id \in DOMAIN sent' /\ p.part \in 1 .. sent'[p.id].parts
    BY <1>3, <2>1 DEF m
  <2>. QED BY <2>1, <2>2, <2>3 DEF IsPart, Key
<1>12. QueueIsNew'
  <2>1. Numbered' + Len(outgoingPacketBuffer') <= 2 * Len(sent')
    <3>1. Numbered + L <= 2 * Len(sent) /\ Numbered \in Nat
      BY <1>2, FewNumbers DEF QueueIsNew, L, FewAreNumbered
    <3>2. Numbered' = Numbered /\ Len(sent') = Len(sent) + 1 /\ Len(sent) \in Nat
      BY <1>3, <1>5, <1>6
    <3>3. ASSUME NEW a \in Nat, NEW b \in Nat, NEW c \in Nat, NEW k \in 1 .. 2, a + b <= 2 * c
          PROVE  a + (b + k) <= 2 * (c + 1)
      BY <3>3
    <3>4. Numbered + (L + m.parts) <= 2 * (Len(sent) + 1)
      <4>1. L \in Nat /\ m.parts \in 1 .. 2
        BY <1>3
      <4>. QED BY <3>1, <3>2, <3>3, <4>1
    <3>5. Len(outgoingPacketBuffer') = L + m.parts
      BY <1>3
    <3>. QED BY <3>2, <3>4, <3>5
  <2>2. ASSUME NEW i \in DOMAIN outgoingPacketBuffer'
        PROVE  /\ IsPart(outgoingPacketBuffer[i])' /\ outgoingPacketBuffer'[i].number = NoNumber
               /\ \A p \in Packets : Key(p) # Key(outgoingPacketBuffer'[i])
               /\ \A j \in DOMAIN outgoingPacketBuffer' :
                    Key(outgoingPacketBuffer'[j]) = Key(outgoingPacketBuffer'[i]) => i = j
    <3>1. CASE i \in DOMAIN outgoingPacketBuffer
      <4> DEFINE p == outgoingPacketBuffer[i]
      <4>1. outgoingPacketBuffer'[i] = p /\ IsPart(p)
        BY <1>4, <1>9, <3>1
      <4>2. IsPart(p)'
        BY <1>1, <1>3, <1>4, <4>1, <3>1 DEF IsPart
      <4>3. ASSUME NEW j \in DOMAIN outgoingPacketBuffer', Key(outgoingPacketBuffer'[j]) = Key(p) PROVE i = j
        <5>1. CASE j \in DOMAIN outgoingPacketBuffer
          BY <1>4, <1>9, <3>1, <4>3, <5>1
        <5>2. CASE \E k \in 1 .. m.parts : j = L + k
          <6>1. PICK k \in 1 .. m.parts : j = L + k
            BY <5>2
          <6>2. outgoingPacketBuffer'[j] = [id |-> id, part |-> k, number |-> NoNumber]
            BY <1>4, <6>1
          <6>. QED BY <1>11, <4>1, <4>3, <6>2
        <5>. QED BY <1>4, <5>1, <5>2
      <4>. QED BY <1>9, <3>1, <4>1, <4>2, <4>3
    <3>2. CASE \E k \in 1 .. m.parts : i = L + k
      <4>1. PICK k \in 1 .. m.parts : i = L + k
        BY <3>2
      <4>2. PICK p : p = [id |-> id, part |-> k, number |-> NoNumber]
        OBVIOUS
      <4>3. outgoingPacketBuffer'[i] = p /\ IsPart(p)' /\ Key(p) = <<id, k>> /\ p.number = NoNumber
            /\ \A q : IsPart(q) => Key(q) # Key(p)
        <5>1. IsPart(p)' /\ Key(p) = <<id, k>> /\ \A q : IsPart(q) => Key(q) # Key(p)
          BY <1>11, <4>2
        <5>. QED BY <1>4, <4>1, <4>2, <5>1
      <4>4. ASSUME NEW j \in DOMAIN outgoingPacketBuffer', Key(outgoingPacketBuffer'[j]) = Key(p) PROVE i = j
        <5>1. CASE j \in DOMAIN outgoingPacketBuffer
          BY <1>4, <1>9, <4>3, <4>4, <5>1
        <5>2. CASE \E h \in 1 .. m.parts : j = L + h
          <6>1. PICK h \in 1 .. m.parts : j = L + h
            BY <5>2
          <6>2. outgoingPacketBuffer'[j] = [id |-> id, part |-> h, number |-> NoNumber]
            BY <1>4, <6>1
          <6>3. h = k
            BY <4>3, <4>4, <6>2 DEF Key
          <6>. QED BY <4>1, <6>1, <6>3
        <5>. QED BY <1>4, <5>1, <5>2
      <4>5. IsPart(outgoingPacketBuffer[i])'
        BY <4>3 DEF IsPart
      <4>. QED BY <1>8, <4>3, <4>4, <4>5
    <3>. QED BY <1>4, <3>1, <3>2
  <2>. QED BY <1>1, <1>2, <1>3, <1>6, <2>1, <2>2 DEF QueueIsNew, Key
<1>13. PacketsAreNumbered'
  <2>1. ASSUME NEW p \in Packets
        PROVE  /\ IsPart(p)' /\ (IsReliable(p)' <=> IsReliable(p))
               /\ IF IsReliable(p)' THEN Offset(p.number) < Numbered ELSE p.number = NoNumber
    BY <1>2, <1>7, <1>8 DEF PacketsAreNumbered
  <2>2. \A p \in Packets : IsReliable(p)' <=> IsReliable(p)
    BY <2>1
  <2>3. \A p, q \in Packets : IsReliable(p)' /\ IsReliable(q)' /\ (p.number = q.number \/ Key(p) = Key(q)) => p = q
    BY <1>2, <2>2 DEF PacketsAreNumbered
  <2>. QED BY <1>6, <2>1, <2>3 DEF PacketsAreNumbered, Key
<1>14. DatagramsAreNumbered'
  BY <1>1, <1>2 DEF DatagramsAreNumbered, Offset
<1>15. BufferIsOfPackets'
  <2>1. ASSUME NEW i \in DOMAIN resendBuffer, resendBuffer[i] # NoPacket
        PROVE  /\ resendBuffer[i] \in Packets /\ sent'[resendBuffer[i].id].reliability \in Reliable
               /\ Slot(resendBuffer[i].number) = i
    <3>1. resendBuffer[i] \in Packets /\ IsReliable(resendBuffer[i]) /\ Slot(resendBuffer[i].number) = i
      BY <1>2, <2>1 DEF BufferIsOfPackets
    <3>2. sent'[resendBuffer[i].id] = sent[resendBuffer[i].id]
      BY <1>7, <1>8, <3>1
    <3>. QED BY <3>1, <3>2 DEF IsReliable
  <2>. QED BY <1>1, <1>2, <1>6, <2>1 DEF BufferIsOfPackets, IsReliable, IsInResendBuffer, ResendListOK
<1>16. HistoryIsOfDatagrams'
  <2>1. ASSUME NEW i \in DOMAIN datagramHistory, NEW f \in datagrams,
               Offset(f.number) = Offset(datagramHistoryPopCount) + i - 1, NEW n \in datagramHistory[i]
        PROVE  \E p \in ToSet(f.packets) :
                 p.number = n /\ sent'[p.id].reliability \notin {"UNRELIABLE", "UNRELIABLE_SEQUENCED"}
    <3>1. PICK p \in ToSet(f.packets) :
            p.number = n /\ sent[p.id].reliability \notin {"UNRELIABLE", "UNRELIABLE_SEQUENCED"}
      BY <1>2, <2>1 DEF HistoryIsOfDatagrams
    <3>2. p \in Packets
      BY PacketsAre
    <3>3. sent'[p.id] = sent[p.id]
      BY <1>7, <1>8, <3>2
    <3>. QED BY <3>1, <3>3
  <2>. QED BY <1>1, <1>2, <2>1 DEF HistoryIsOfDatagrams, Offset
<1>17. NotedIsAccepted'
  <2>1. receiver.orderingHeap \in Seq([weight : Nat, id : DOMAIN sent'])
    <3>1. [weight : Nat, id : DOMAIN sent] \subseteq [weight : Nat, id : DOMAIN sent']
      BY <1>3
    <3>2. ASSUME NEW S, NEW T, S \subseteq T PROVE Seq(S) \subseteq Seq(T)
      BY <3>2
    <3>3. receiver.orderingHeap \in Seq([weight : Nat, id : DOMAIN sent])
      BY <1>2 DEF NotedIsAccepted
    <3>. QED BY <3>1, <3>2, <3>3
  <2>2. \A p \in Packets : IsReliable(p)' /\ Noted(receiver, p.number) => Key(p) \in receiver.accepted
    <3>1. \A p \in Packets : IsReliable(p)' <=> IsReliable(p)
      BY <1>7, <1>8
    <3>. QED BY <1>2, <3>1 DEF NotedIsAccepted
  <2>. QED BY <1>1, <1>2, <1>6, <2>1, <2>2 DEF NotedIsAccepted, Noted, Offset, Key
<1>18. ReceiptsAreDue'
  <2>1. ASSUME NEW x \in unreliableWithAckReceiptHistory
        PROVE  /\ x[2] \in DOMAIN sent' /\ sent'[x[2]].reliability = "UNRELIABLE_WITH_ACK_RECEIPT"
               /\ receipts[x[2]] = <<>>
               /\ \E d \in datagrams : \E p \in ToSet(d.packets) : x = <<d.number, p.id>>
               /\ \A y \in unreliableWithAckReceiptHistory : x[2] = y[2] => x = y
    <3>1. x[2] \in DOMAIN sent /\ sent[x[2]].reliability = "UNRELIABLE_WITH_ACK_RECEIPT"
      BY <1>2 DEF ReceiptsAreDue
    <3>. QED BY <1>2, <1>3, <3>1 DEF ReceiptsAreDue
  <2>2. \A i \in DOMAIN receipts : i \notin DOMAIN sent' => receipts[i] = <<>>
    BY <1>2, <1>3 DEF ReceiptsAreDue
  <2>3. ASSUME NEW i \in DOMAIN outgoingPacketBuffer',
               outgoingPacketBuffer'[i].part = sent'[outgoingPacketBuffer'[i].id].parts
        PROVE  receipts[outgoingPacketBuffer'[i].id] = <<>>
    <3>1. CASE i \in DOMAIN outgoingPacketBuffer
      <4> DEFINE p == outgoingPacketBuffer[i]
      <4>1. outgoingPacketBuffer'[i] = p /\ IsPart(p) /\ p \in ToSet(outgoingPacketBuffer)
        BY <1>4, <1>9, <3>1 DEF ToSet
      <4>2. sent'[p.id] = sent[p.id] /\ p # NoPacket
        BY <1>2, <1>7, <4>1, PartFacts
      <4>. QED BY <1>2, <2>3, <4>1, <4>2 DEF ReceiptsAreDue
    <3>2. CASE \E k \in 1 .. m.parts : i = L + k
      <4>1. outgoingPacketBuffer'[i].id = id
        <5>1. PICK k \in 1 .. m.parts : i = L + k
          BY <3>2
        <5>2. outgoingPacketBuffer'[i] = [id |-> id, part |-> k, number |-> NoNumber]
          BY <1>4, <5>1
        <5>. QED BY <5>2
      <4>2. id \in DOMAIN receipts
        BY <1>2, <1>3 DEF MessagesAreScripted
      <4>. QED BY <1>2, <1>3, <4>1, <4>2 DEF ReceiptsAreDue
    <3>. QED BY <1>4, <3>1, <3>2
  <2>4. ASSUME NEW i \in DOMAIN resendBuffer, resendBuffer[i] # NoPacket,
               resendBuffer[i].part = sent'[resendBuffer[i].id].parts
        PROVE  receipts[resendBuffer[i].id] = <<>>
    <3>1. resendBuffer[i] \in Packets
      BY <1>2, <2>4 DEF BufferIsOfPackets
    <3>2. sent'[resendBuffer[i].id] = sent[resendBuffer[i].id]
      BY <1>7, <1>8, <3>1
    <3>. QED BY <1>2, <2>4, <3>2 DEF ReceiptsAreDue
  <2>5. \A p \in ToSet(outgoingPacketBuffer)' \cup {resendBuffer[i] : i \in DOMAIN resendBuffer} :
          p # NoPacket /\ p.part = sent'[p.id].parts => receipts[p.id] = <<>>
    BY <2>3, <2>4 DEF ToSet
  <2>. QED BY <1>1, <2>1, <2>2, <2>5 DEF ReceiptsAreDue
<1>19. ReceiptsTrue'
  <2>1. ASSUME NEW i \in DOMAIN receipts
        PROVE  /\ Len(receipts[i]) <= 1
               /\ receipts[i] = <<"ACKED">> /\ sent'[i].parts = 1 => <<i, 1>> \in receiver.accepted
    <3>1. CASE i \in DOMAIN sent
      BY <1>2, <1>3, <3>1 DEF ReceiptsTrue
    <3>2. CASE i \notin DOMAIN sent
      <4>1. receipts[i] = <<>>
        BY <1>2, <3>2 DEF ReceiptsAreDue
      <4>. QED BY <4>1
    <3>. QED BY <3>1, <3>2
  <2>. QED BY <1>1, <2>1 DEF ReceiptsTrue
<1>20. ReliableOnesKept'
  <2>1. ASSUME NEW i \in DOMAIN sent', sent'[i].reliability \in Reliable, NEW part \in 1 .. sent'[i].parts
        PROVE  \/ <<i, part>> \in receiver.accepted
               \/ \E k \in DOMAIN outgoingPacketBuffer' :
                    outgoingPacketBuffer'[k].id = i /\ outgoingPacketBuffer'[k].part = part
               \/ \E k \in DOMAIN resendBuffer : resendBuffer[k].id = i /\ resendBuffer[k].part = part
    <3>1. CASE i = id
      <4>1. part \in 1 .. m.parts
        BY <3>1 DEF m
      <4>2. L + part \in DOMAIN outgoingPacketBuffer' /\ outgoingPacketBuffer'[L + part] = [id |-> id, part |-> part, number |-> NoNumber]
        BY <1>4, <4>1
      <4>. QED BY <3>1, <4>2
    <3>2. CASE i \in DOMAIN sent
      <4>1. sent'[i] = sent[i] /\ i \in IdsOf(Reliable)
        BY <1>3, <2>1, <3>2 DEF IdsOf
      <4>2. \/ <<i, part>> \in receiver.accepted
            \/ \E k \in DOMAIN outgoingPacketBuffer :
                 outgoingPacketBuffer[k].id = i /\ outgoingPacketBuffer[k].part = part
            \/ \E k \in DOMAIN resendBuffer : resendBuffer[k].id = i /\ resendBuffer[k].part = part
        BY <1>2, <4>1 DEF ReliableOnesKept
      <4>3. ASSUME NEW k \in DOMAIN outgoingPacketBuffer,
                   outgoingPacketBuffer[k].id = i, outgoingPacketBuffer[k].part = part
            PROVE  \E j \in DOMAIN outgoingPacketBuffer' :
                     outgoingPacketBuffer'[j].id = i /\ outgoingPacketBuffer'[j].part = part
        <5>1. k \in DOMAIN outgoingPacketBuffer' /\ outgoingPacketBuffer'[k] = outgoingPacketBuffer[k]
          BY <1>4
        <5>. QED BY <4>3, <5>1
      <4>. QED BY <4>2, <4>3
    <3>. QED BY <1>3, <3>1, <3>2
  <2>2. ASSUME NEW i \in IdsOf(Reliable)', NEW part \in 1 .. sent'[i].parts
        PROVE  \/ <<i, part>> \in receiver'.accepted
               \/ \E k \in DOMAIN outgoingPacketBuffer' :
                    outgoingPacketBuffer'[k].id = i /\ outgoingPacketBuffer'[k].part = part
               \/ \E k \in DOMAIN resendBuffer' : resendBuffer'[k].id = i /\ resendBuffer'[k].part = part
    <3>1. i \in DOMAIN sent' /\ sent'[i].reliability \in Reliable
      BY DEF IdsOf
    <3>. QED BY <1>1, <2>1, <3>1
  <2>. QED BY <2>2 DEF ReliableOnesKept
<1>. QED BY <1>10, <1>12, <1>13, <1>14, <1>15, <1>16, <1>17, <1>18, <1>19, <1>20 DEF ReliabilityIInv

\* What SendPackets takes from the queue, and where it puts it.
LEMMA NewPacketFacts ==
  ASSUME ReliabilityIInv, NEW n \in 1 .. Len(outgoingPacketBuffer), Pushed(n).fits
  PROVE  LET s == Pushed(n)
         IN /\ s \in PushState /\ Len(s.packets) = n /\ DOMAIN s.packets = 1 .. n
            /\ Numbered <= Offset(s.next) /\ Offset(s.next) <= Numbered + n
            /\ \A j \in 1 .. n :
                 LET q == s.packets[j]
                 IN /\ IsPart(q) /\ Key(q) = Key(outgoingPacketBuffer[j]) /\ j \in DOMAIN outgoingPacketBuffer
                    /\ IF IsReliable(q) THEN Numbered <= Offset(q.number) /\ Offset(q.number) < Offset(s.next)
                       ELSE q.number = NoNumber
                    /\ \A p \in Packets : Key(p) # Key(q)
                    /\ \A k \in 1 .. n : Key(s.packets[k]) = Key(q) => j = k
            /\ \A j, k \in 1 .. n :
                 IsReliable(s.packets[j]) /\ IsReliable(s.packets[k]) /\ s.packets[j].number = s.packets[k].number
                   => j = k
            /\ PushedTo(s.buffer, s.list, s.packets)
<1> DEFINE s == Pushed(n)
<1>1. /\ MessagesAreScripted /\ QueueIsNew /\ PacketsAreNumbered /\ BufferIsOfPackets
  BY DEF ReliabilityIInv
<1>2. /\ QueueIsTyped /\ scenario.first \in Number /\ Numbered + Len(outgoingPacketBuffer) < NumberRange
      /\ n \in 0 .. Len(outgoingPacketBuffer) /\ n \in Nat
  <2>1. QueueIsTyped
    BY <1>1 DEF QueueIsNew, BufferIsOfPackets, QueueIsTyped, Number
  <2>2. Numbered + Len(outgoingPacketBuffer) <= Half /\ Numbered \in Nat /\ Len(outgoingPacketBuffer) \in Nat
    BY <1>1, <2>1, FewNumbers DEF FewAreNumbered, QueueIsTyped
  <2>3. Numbered + Len(outgoingPacketBuffer) < NumberRange
    BY <2>2, HalfFacts, WrapFacts
  <2>. QED BY <1>1, <2>1, <2>2, <2>3, FewNumbers DEF FewAreNumbered
<1>3. \A j \in DOMAIN outgoingPacketBuffer :
        /\ IsPart(outgoingPacketBuffer[j]) /\ outgoingPacketBuffer[j].number = NoNumber
        /\ outgoingPacketBuffer[j].id # 0
        /\ \A p \in Packets : Key(p) # Key(outgoingPacketBuffer[j])
        /\ \A k \in DOMAIN outgoingPacketBuffer :
             Key(outgoingPacketBuffer[k]) = Key(outgoingPacketBuffer[j]) => j = k
  <2>1. ASSUME NEW j \in DOMAIN outgoingPacketBuffer PROVE outgoingPacketBuffer[j].id # 0
    <3>1. IsPart(outgoingPacketBuffer[j])
      BY <1>1 DEF QueueIsNew
    <3>. QED BY <1>1, <3>1, PartFacts
  <2>. QED BY <1>1, <2>1 DEF QueueIsNew
<1>4. Listed(resendBuffer, resendList)
  BY <1>1 DEF BufferIsOfPackets, IsInResendBuffer, ResendListOK, Listed
<1>5. s \in PushState /\ PushedSoFar(s, n)
  BY <1>2, <1>3, <1>4, PushedFacts
<1> HIDE DEF s
<1>6. /\ Len(s.packets) = n /\ DOMAIN s.packets = 1 .. n /\ \A j \in 1 .. n : s.packets[j] \in InternalPacket
  <2>1. s.packets \in Seq(InternalPacket) /\ Len(s.packets) = n
    BY <1>5 DEF PushState, PushedSoFar
  <2>. QED BY <2>1, SeqElement
<1>7. \A j \in 1 .. n : j \in DOMAIN outgoingPacketBuffer
  BY <1>2 DEF QueueIsTyped
<1>8. ASSUME NEW j \in 1 .. n
      PROVE  /\ IsPart(s.packets[j]) /\ Key(s.packets[j]) = Key(outgoingPacketBuffer[j])
             /\ IF IsReliable(s.packets[j])
                THEN Numbered <= Offset(s.packets[j].number) /\ Offset(s.packets[j].number) < Offset(s.next)
                ELSE s.packets[j].number = NoNumber
  <2>1. SentAs(s.packets[j], outgoingPacketBuffer[j], s.next)
    BY <1>5 DEF PushedSoFar
  <2>2. s.packets[j] \in InternalPacket /\ s.packets[j].id = outgoingPacketBuffer[j].id
        /\ s.packets[j].part = outgoingPacketBuffer[j].part
    BY <2>1 DEF SentAs
  <2>3. IsPart(s.packets[j]) /\ Key(s.packets[j]) = Key(outgoingPacketBuffer[j])
        /\ (IsReliable(s.packets[j]) <=> IsReliable(outgoingPacketBuffer[j]))
    BY <1>3, <1>7, <2>2 DEF IsPart, Key, IsReliable
  <2>4. CASE IsReliable(s.packets[j])
    <3>1. Offset(s.packets[j].number) >= Numbered /\ Offset(s.packets[j].number) < Offset(s.next)
      BY <2>1, <2>3, <2>4 DEF SentAs
    <3>2. Offset(s.packets[j].number) \in Int /\ Numbered \in Int
      <4>1. s.packets[j].number \in Number
        BY <1>6 DEF InternalPacket, Number
      <4>2. Offset(s.packets[j].number) \in Number /\ Numbered \in Nat
        BY <1>1, <1>2, <4>1, OffsetFacts, FewNumbers DEF FewAreNumbered
      <4>. QED BY <4>2, WrapFacts DEF Number
    <3>. QED BY <2>3, <2>4, <3>1, <3>2
  <2>5. CASE ~IsReliable(s.packets[j])
    BY <1>3, <1>7, <2>1, <2>3, <2>5 DEF SentAs
  <2>. QED BY <2>3, <2>4, <2>5
<1>9. ASSUME NEW j \in 1 .. n
      PROVE  /\ \A p \in Packets : Key(p) # Key(s.packets[j])
             /\ \A k \in 1 .. n : Key(s.packets[k]) = Key(s.packets[j]) => j = k
  BY <1>3, <1>7, <1>8
<1>10. PushedTo(s.buffer, s.list, s.packets)
  BY <1>5 DEF PushedSoFar, s
<1>11. Numbered <= Offset(s.next) /\ Offset(s.next) <= Numbered + n
  <2>1. Offset(s.next) >= Numbered /\ Offset(s.next) <= Numbered + n
    BY <1>5 DEF PushedSoFar
  <2>2. Offset(s.next) \in Int /\ Numbered \in Int
    <3>1. s.next \in Number
      BY <1>5 DEF PushState
    <3>2. Offset(s.next) \in Number /\ Numbered \in Nat
      BY <1>1, <1>2, <3>1, OffsetFacts, FewNumbers DEF FewAreNumbered
    <3>. QED BY <3>2, WrapFacts DEF Number
  <2>. QED BY <2>1, <2>2
<1>12. \A j, k \in 1 .. n :
         IsReliable(s.packets[j]) /\ IsReliable(s.packets[k]) /\ s.packets[j].number = s.packets[k].number
           => j = k
  BY <1>5 DEF PushedSoFar
<1>. QED BY <1>5, <1>6, <1>7, <1>8, <1>9, <1>10, <1>11, <1>12 DEF s

LEMMA SendPacketsKeeps ==
  ASSUME ReliabilityIInv, NEW n \in Nat \ {0}, SendPackets(n) PROVE ReliabilityIInv'
<1> DEFINE packets == Pushed(n).packets
           buffer == Pushed(n).buffer
           list == Pushed(n).list
           next == Pushed(n).next
           L == Len(outgoingPacketBuffer)
           added == {<<NextDatagram, packets[i].id>> : i \in {j \in 1 .. n :
                       sent[packets[j].id].reliability = "UNRELIABLE_WITH_ACK_RECEIPT"}}
<1>1. /\ n <= L /\ Pushed(n).fits
      /\ outgoingPacketBuffer' = SubSeq(outgoingPacketBuffer, n + 1, L)
      /\ resendBuffer' = buffer /\ resendList' = list /\ sendReliableMessageNumberIndex' = next
      /\ unreliableWithAckReceiptHistory' = unreliableWithAckReceiptHistory \cup added
      /\ SendDatagram(packets)
  BY DEF SendPackets
<1>2. /\ MessagesAreScripted /\ QueueIsNew /\ PacketsAreNumbered /\ DatagramsAreNumbered
      /\ BufferIsOfPackets /\ HistoryIsOfDatagrams /\ NotedIsAccepted
      /\ ReceiptsAreDue /\ ReceiptsTrue /\ ReliableOnesKept
  BY DEF ReliabilityIInv
<1>3. /\ L \in Nat /\ n \in 1 .. L /\ outgoingPacketBuffer \in Seq(InternalPacket)
      /\ DOMAIN outgoingPacketBuffer = 1 .. L
  BY <1>1, <1>2 DEF QueueIsNew
<1>4. /\ Pushed(n) \in PushState /\ Len(packets) = n /\ DOMAIN packets = 1 .. n
      /\ Numbered <= Offset(next) /\ Offset(next) <= Numbered + n
      /\ PushedTo(buffer, list, packets)
  BY <1>1, <1>3, NewPacketFacts
<1>5. \A j \in 1 .. n :
        /\ IsPart(packets[j]) /\ Key(packets[j]) = Key(outgoingPacketBuffer[j])
        /\ IF IsReliable(packets[j])
           THEN Numbered <= Offset(packets[j].number) /\ Offset(packets[j].number) < Offset(next)
           ELSE packets[j].number = NoNumber
        /\ \A p \in Packets : Key(p) # Key(packets[j])
        /\ \A k \in 1 .. n : Key(packets[k]) = Key(packets[j]) => j = k
  BY <1>1, <1>3, NewPacketFacts
<1>6. \A j, k \in 1 .. n :
        IsReliable(packets[j]) /\ IsReliable(packets[k]) /\ packets[j].number = packets[k].number => j = k
  BY <1>1, <1>3, NewPacketFacts
<1>7. /\ packets \in Seq(InternalPacket) /\ buffer \in [0 .. ResendBufferLength - 1 -> InternalPacket]
      /\ list \in Seq(Number) /\ next \in Number
  BY <1>4 DEF PushState
<1> HIDE DEF packets, buffer, list, next, added
<1>8. scenario' = scenario /\ sent' = sent /\ receipts' = receipts /\ receiver' = receiver /\ acks' = acks
  BY <1>1 DEF SendDatagram
<1>9. /\ Packets' = Packets \cup ToSet(packets) /\ DatagramsAreNumbered' /\ HistoryIsOfDatagrams'
      /\ datagrams \subseteq datagrams' /\ \A d \in datagrams : d.number # NextDatagram
      /\ \E d \in datagrams' : d.number = NextDatagram /\ d.packets = packets
  BY <1>1, <1>7, SendDatagramFacts
<1>10. /\ \A q \in ToSet(packets) : \E j \in 1 .. n : q = packets[j]
       /\ \A j \in 1 .. n : packets[j] \in ToSet(packets)
  BY <1>4 DEF ToSet
<1>11. Numbered' = Offset(next) /\ \A k : Offset(k)' = Offset(k)
  BY <1>1, <1>8 DEF Numbered, Offset
<1>12. /\ Numbered \in Nat /\ Offset(next) \in Nat /\ NumberRange \in Nat
       /\ \A k \in Number : Offset(k) \in Nat
  <2>1. FewAreNumbered
    BY <1>2, FewNumbers
  <2>2. \A k \in Number : Offset(k) \in Number
    BY <2>1, OffsetFacts DEF FewAreNumbered
  <2>3. NumberRange \in Nat
    BY WrapFacts
  <2>. QED BY <1>7, <2>1, <2>2, <2>3 DEF FewAreNumbered, Number
<1>13. \A p : (IsPart(p)' <=> IsPart(p)) /\ (IsReliable(p)' <=> IsReliable(p))
  BY <1>8 DEF IsPart, IsReliable
<1>14. MessagesAreScripted'
  BY <1>2, <1>8 DEF MessagesAreScripted
<1>15. /\ outgoingPacketBuffer' \in Seq(InternalPacket) /\ Len(outgoingPacketBuffer') = L - n
       /\ DOMAIN outgoingPacketBuffer' = 1 .. L - n
       /\ \A i \in 1 .. L - n : outgoingPacketBuffer'[i] = outgoingPacketBuffer[n + i] /\ n + i \in 1 .. L /\ n + i > n
  <2>1. /\ outgoingPacketBuffer' \in Seq(InternalPacket) /\ Len(outgoingPacketBuffer') = L - n
        /\ \A i \in 1 .. L - n : outgoingPacketBuffer'[i] = outgoingPacketBuffer[n + i]
    <3> HIDE DEF L
    <3>1. L = Len(outgoingPacketBuffer)
      BY DEF L
    <3>. QED BY <1>1, <1>3, RestOfSequence, <3>1
  <2> HIDE DEF L
  <2>2. /\ L - n \in Nat /\ \A i \in 1 .. L - n : n + i \in 1 .. L /\ n + i > n
    BY <1>3
  <2>3. DOMAIN outgoingPacketBuffer' = 1 .. L - n
    BY <2>1
  <2>. QED BY <2>1, <2>2, <2>3
<1>16. \A j \in 1 .. n : j \in 1 .. L /\ j <= n
  BY <1>3
<1>17. \A i \in 1 .. L : i <= n \/ (i - n \in 1 .. L - n /\ n + (i - n) = i)
  BY <1>3
<1> HIDE DEF L
<1>18. \A i \in 1 .. L :
         /\ IsPart(outgoingPacketBuffer[i]) /\ outgoingPacketBuffer[i].number = NoNumber
         /\ \A p \in Packets : Key(p) # Key(outgoingPacketBuffer[i])
         /\ \A j \in 1 .. L : Key(outgoingPacketBuffer[j]) = Key(outgoingPacketBuffer[i]) => i = j
  BY <1>2, <1>3 DEF QueueIsNew
<1>19. QueueIsNew'
  <2>1. Numbered' + Len(outgoingPacketBuffer') <= 2 * Len(sent')
    <3>1. Numbered + L <= 2 * Len(sent) /\ Len(sent) \in Nat
      BY <1>2, FewNumbers DEF QueueIsNew, L
    <3>. QED BY <1>3, <1>4, <1>8, <1>11, <1>12, <1>15, <3>1
  <2>2. ASSUME NEW i \in 1 .. L - n
        PROVE  /\ IsPart(outgoingPacketBuffer'[i]) /\ outgoingPacketBuffer'[i].number = NoNumber
               /\ \A p \in Packets' : Key(p) # Key(outgoingPacketBuffer'[i])
               /\ \A j \in 1 .. L - n :
                    Key(outgoingPacketBuffer'[j]) = Key(outgoingPacketBuffer'[i]) => i = j
    <3>1. outgoingPacketBuffer'[i] = outgoingPacketBuffer[n + i] /\ n + i \in 1 .. L /\ n + i > n
      BY <1>15
    <3>2. ASSUME NEW p \in ToSet(packets) PROVE Key(p) # Key(outgoingPacketBuffer[n + i])
      <4>1. PICK j \in 1 .. n : p = packets[j]
        BY <1>10
      <4>2. j \in 1 .. L /\ Key(p) = Key(outgoingPacketBuffer[j]) /\ j # n + i
        BY <1>3, <1>5, <1>16, <3>1, <4>1
      <4>. QED BY <1>18, <3>1, <4>2
    <3>3. ASSUME NEW j \in 1 .. L - n, Key(outgoingPacketBuffer'[j]) = Key(outgoingPacketBuffer'[i]) PROVE i = j
      <4>1. n + j = n + i
        BY <1>15, <1>18, <3>1, <3>3
      <4>. QED BY <1>3, <4>1
    <3>. QED BY <1>9, <1>18, <3>1, <3>2, <3>3
  <2>3. sendReliableMessageNumberIndex' \in 0 .. NumberRange - 1
    BY <1>1, <1>7 DEF Number
  <2>4. \A i \in DOMAIN outgoingPacketBuffer' :
          outgoingPacketBuffer'[i] \in InternalPacket
          /\ outgoingPacketBuffer'[i].id \in DOMAIN sent'
          /\ outgoingPacketBuffer'[i].part \in 1 .. sent'[outgoingPacketBuffer'[i].id].parts
    BY <1>8, <1>15, <2>2 DEF IsPart
  <2>. QED BY <1>15, <2>1, <2>2, <2>3, <2>4 DEF QueueIsNew, IsPart, Key
<1>20. PacketsAreNumbered'
  <2>1. ASSUME NEW p \in Packets'
        PROVE  IsPart(p) /\ IF IsReliable(p) THEN Offset(p.number) < Numbered' ELSE p.number = NoNumber
    <3>1. CASE p \in Packets
      <4>1. p.number \in Number /\ IsPart(p) /\ (IsReliable(p) => Offset(p.number) < Numbered)
            /\ (~IsReliable(p) => p.number = NoNumber)
        BY <1>2, <3>1, PacketFacts
      <4>. QED BY <1>4, <1>11, <1>12, <4>1
    <3>2. CASE p \in ToSet(packets)
      BY <1>5, <1>10, <1>11, <3>2
    <3>. QED BY <1>9, <3>1, <3>2
  <2>2. ASSUME NEW p \in Packets, NEW q \in ToSet(packets), IsReliable(p), IsReliable(q)
        PROVE  p.number # q.number /\ Key(p) # Key(q)
    <3>1. PICK j \in 1 .. n : q = packets[j]
      BY <1>10
    <3>2. Numbered <= Offset(q.number) /\ Key(p) # Key(q)
      BY <1>5, <2>2, <3>1
    <3>3. Offset(p.number) < Numbered /\ p.number \in Number
      BY <1>2, <2>2, PacketFacts
    <3>. QED BY <1>12, <3>2, <3>3
  <2>3. ASSUME NEW p \in Packets', NEW q \in Packets', IsReliable(p), IsReliable(q),
               p.number = q.number \/ Key(p) = Key(q)
        PROVE  p = q
    <3>1. CASE p \in Packets /\ q \in Packets
      BY <1>2, <2>3, <3>1 DEF PacketsAreNumbered
    <3>2. CASE p \in ToSet(packets) /\ q \in ToSet(packets)
      <4>1. PICK j \in 1 .. n : p = packets[j]
        BY <1>10, <3>2
      <4>2. PICK k \in 1 .. n : q = packets[k]
        BY <1>10, <3>2
      <4>3. j = k
        BY <1>5, <1>6, <2>3, <4>1, <4>2
      <4>. QED BY <4>1, <4>2, <4>3
    <3>. QED BY <1>9, <2>2, <2>3, <3>1, <3>2
  <2>. QED BY <1>11, <1>13, <2>1, <2>3 DEF PacketsAreNumbered, Key
<1>21. \A k \in DOMAIN resendBuffer :
         /\ resendBuffer[k] # NoPacket => buffer[k] = resendBuffer[k]
         /\ \/ buffer[k] = resendBuffer[k]
            \/ \E j \in 1 .. n : IsReliable(packets[j]) /\ buffer[k] = packets[j] /\ k = Slot(packets[j].number)
  BY <1>4 DEF PushedTo
<1>22. /\ \A j \in 1 .. n : IsReliable(packets[j]) =>
            buffer[Slot(packets[j].number)] = packets[j] /\ Slot(packets[j].number) \in 0 .. ResendBufferLength - 1
       /\ \A x : (\E i \in DOMAIN list : list[i] = x)
                   <=> \/ \E i \in DOMAIN resendList : resendList[i] = x
                       \/ \E j \in 1 .. n : IsReliable(packets[j]) /\ packets[j].number = x
       /\ \A i, j \in DOMAIN list : list[i] = list[j] => i = j
  <2>1. ASSUME NEW j \in 1 .. n PROVE Slot(packets[j].number) \in 0 .. ResendBufferLength - 1
    BY <1>2, <1>5, PartFacts, SlotFacts
  <2>. QED BY <1>4, <2>1 DEF PushedTo, Listed
<1>23. DOMAIN resendBuffer = 0 .. ResendBufferLength - 1 /\ DOMAIN buffer = 0 .. ResendBufferLength - 1
  BY <1>2, <1>7 DEF BufferIsOfPackets
<1>24. \A j \in 1 .. n : packets[j] # NoPacket /\ packets[j] \in InternalPacket
  BY <1>2, <1>5, PartFacts
<1>25. BufferIsOfPackets'
  <2>1. ASSUME NEW k \in DOMAIN buffer, buffer[k] # NoPacket
        PROVE  buffer[k] \in Packets' /\ IsReliable(buffer[k]) /\ Slot(buffer[k].number) = k
               /\ \E i \in DOMAIN list : list[i] = buffer[k].number
    <3>1. CASE buffer[k] = resendBuffer[k]
      <4>1. /\ resendBuffer[k] \in Packets /\ IsReliable(resendBuffer[k]) /\ Slot(resendBuffer[k].number) = k
            /\ resendBuffer[k].number \in ToSet(resendList)
        BY <1>2, <1>23, <2>1, <3>1 DEF BufferIsOfPackets, ResendListOK
      <4>. QED BY <1>9, <1>22, <3>1, <4>1 DEF ToSet
    <3>2. CASE \E j \in 1 .. n : IsReliable(packets[j]) /\ buffer[k] = packets[j] /\ k = Slot(packets[j].number)
      BY <1>9, <1>10, <1>22, <3>2
    <3>. QED BY <1>21, <1>23, <3>1, <3>2
  <2>2. ASSUME NEW i \in DOMAIN list
        PROVE  /\ buffer[Slot(list[i])] # NoPacket /\ buffer[Slot(list[i])].number = list[i]
               /\ Slot(list[i]) \in DOMAIN buffer
    <3>0. list[i] \in Number /\ Slot(list[i]) \in DOMAIN buffer
      BY <1>7, <1>23, SeqElement, SlotFacts
    <3>1. CASE \E j \in DOMAIN resendList : resendList[j] = list[i]
      <4>1. IsInResendBuffer(list[i])
        BY <1>2, <3>1 DEF BufferIsOfPackets
      <4>. QED BY <1>21, <1>23, <3>0, <4>1 DEF IsInResendBuffer
    <3>2. CASE \E j \in 1 .. n : IsReliable(packets[j]) /\ packets[j].number = list[i]
      BY <1>22, <1>24, <3>0, <3>2
    <3>. QED BY <1>22, <3>1, <3>2
  <2>3. ToSet(list) = {buffer[i].number : i \in {j \in DOMAIN buffer : buffer[j] # NoPacket}}
    BY <2>1, <2>2 DEF ToSet
  <2>. QED BY <1>1, <1>7, <1>8, <1>22, <2>1, <2>2, <2>3
       DEF BufferIsOfPackets, ResendListOK, IsReliable, IsInResendBuffer, Number
<1>26. NotedIsAccepted'
  <2>1. /\ acks' \subseteq {d.number : d \in datagrams'}
        /\ \A d \in datagrams' : d.number \in acks' => d \in datagrams
    BY <1>1, <1>7, NewIsNotAcked
  <2>2. ASSUME NEW p \in Packets', IsReliable(p), Noted(receiver, p.number) PROVE Key(p) \in receiver.accepted
    <3>1. CASE p \in Packets
      BY <1>2, <2>2, <3>1 DEF NotedIsAccepted
    <3>2. CASE p \in ToSet(packets)
      <4> DEFINE B == Offset(receiver.receivedPacketsBaseIndex)
                 H == Len(receiver.hasReceivedPacketQueue)
                 k == Offset(p.number)
      <4>1. Numbered <= k /\ p.number \in Number
        BY <1>2, <1>5, <1>10, <2>2, <3>2, PartFacts
      <4>2. B + H <= Numbered /\ receiver.receivedPacketsBaseIndex \in Number /\ H \in Nat
        BY <1>2 DEF NotedIsAccepted, Receiver, Number
      <4>3. k < B \/ k < B + H
        BY <2>2 DEF Noted
      <4>4. k \in Nat /\ B \in Nat
        BY <1>12, <4>1, <4>2
      <4> HIDE DEF k, B, H
      <4>. QED BY <1>12, <4>1, <4>2, <4>3, <4>4
    <3>. QED BY <1>9, <3>1, <3>2
  <2>3. Offset(receiver.receivedPacketsBaseIndex) + Len(receiver.hasReceivedPacketQueue) <= Numbered'
    <3>1. /\ Offset(receiver.receivedPacketsBaseIndex) + Len(receiver.hasReceivedPacketQueue) <= Numbered
          /\ receiver.receivedPacketsBaseIndex \in Number /\ Len(receiver.hasReceivedPacketQueue) \in Nat
      BY <1>2 DEF NotedIsAccepted, Receiver, Number
    <3>. QED BY <1>4, <1>11, <1>12, <3>1
  <2>4. \A x : Noted(receiver, x)' <=> Noted(receiver, x)
    BY <1>8 DEF Noted, Offset
  <2>5. \A d \in datagrams' : d.number \in acks' => \A p \in ToSet(d.packets) : Key(p) \in receiver.accepted
    BY <1>2, <1>8, <2>1 DEF NotedIsAccepted
  <2>. QED BY <1>2, <1>8, <1>11, <1>13, <2>1, <2>2, <2>3, <2>4, <2>5 DEF NotedIsAccepted, Key
\* What is in the queue of a message that has had its receipt is not its last part.
<1>27. \A i \in 1 .. L : outgoingPacketBuffer[i].part = sent[outgoingPacketBuffer[i].id].parts
                           => receipts[outgoingPacketBuffer[i].id] = <<>>
  <2>1. ASSUME NEW i \in 1 .. L, outgoingPacketBuffer[i].part = sent[outgoingPacketBuffer[i].id].parts
        PROVE  receipts[outgoingPacketBuffer[i].id] = <<>>
    <3>1. outgoingPacketBuffer[i] # NoPacket /\ outgoingPacketBuffer[i] \in ToSet(outgoingPacketBuffer)
      BY <1>2, <1>3, <1>18, PartFacts DEF ToSet
    <3>. QED BY <1>2, <2>1, <3>1 DEF ReceiptsAreDue
  <2>. QED BY <2>1
<1>28. ASSUME NEW j \in 1 .. n
       PROVE  packets[j].part = sent[packets[j].id].parts => receipts[packets[j].id] = <<>>
  <2>1. packets[j].id = outgoingPacketBuffer[j].id /\ packets[j].part = outgoingPacketBuffer[j].part
    BY <1>5 DEF Key
  <2>. QED BY <1>16, <1>27, <2>1
<1>29. ASSUME NEW x \in added
       PROVE  \E j \in 1 .. n : x = <<NextDatagram, packets[j].id>>
                                /\ sent[packets[j].id].reliability = "UNRELIABLE_WITH_ACK_RECEIPT"
                                /\ packets[j].part = 1 /\ sent[packets[j].id].parts = 1 /\ packets[j].id \in DOMAIN sent
  <2>1. PICK j \in 1 .. n : x = <<NextDatagram, packets[j].id>>
                            /\ sent[packets[j].id].reliability = "UNRELIABLE_WITH_ACK_RECEIPT"
    BY DEF added
  <2>2. packets[j].id \in DOMAIN sent /\ packets[j].part \in 1 .. sent[packets[j].id].parts
    BY <1>5 DEF IsPart
  <2>3. sent[packets[j].id].parts = 1
    BY <1>2, <2>1, <2>2, UnreliableIsWhole
  <2>4. packets[j].part = 1
    BY <2>2, <2>3
  <2>. QED BY <2>1, <2>2, <2>3, <2>4
<1>30. ReceiptsAreDue'
  <2>1. ASSUME NEW x \in unreliableWithAckReceiptHistory
        PROVE  /\ x[2] \in DOMAIN sent /\ sent[x[2]].reliability = "UNRELIABLE_WITH_ACK_RECEIPT"
               /\ receipts[x[2]] = <<>>
               /\ \E d \in datagrams' : \E p \in ToSet(d.packets) : x = <<d.number, p.id>>
               /\ \A y \in unreliableWithAckReceiptHistory : x[2] = y[2] => x = y
               /\ \E p \in Packets : p.id = x[2] /\ p.part = 1
    <3>1. /\ x[2] \in DOMAIN sent /\ sent[x[2]].reliability = "UNRELIABLE_WITH_ACK_RECEIPT"
          /\ receipts[x[2]] = <<>>
          /\ \E d \in datagrams : \E p \in ToSet(d.packets) : x = <<d.number, p.id>>
          /\ \A y \in unreliableWithAckReceiptHistory : x[2] = y[2] => x = y
      BY <1>2 DEF ReceiptsAreDue
    <3>2. PICK d \in datagrams : \E p \in ToSet(d.packets) : x = <<d.number, p.id>>
      BY <3>1
    <3>3. PICK p \in ToSet(d.packets) : x = <<d.number, p.id>>
      BY <3>2
    <3>4. p \in Packets /\ p.id = x[2]
      BY <3>3, PacketsAre
    <3>5. sent[p.id].parts = 1
      BY <1>2, <3>1, <3>4, UnreliableIsWhole
    <3>6. p.part = 1
      BY <1>2, <3>4, <3>5, PacketFacts DEF IsPart
    <3>. QED BY <1>9, <3>1, <3>2, <3>3, <3>4, <3>6
  <2>2. ASSUME NEW x \in added
        PROVE  /\ x[2] \in DOMAIN sent /\ sent[x[2]].reliability = "UNRELIABLE_WITH_ACK_RECEIPT"
               /\ receipts[x[2]] = <<>> /\ x[1] = NextDatagram
               /\ \E d \in datagrams' : \E p \in ToSet(d.packets) : x = <<d.number, p.id>>
               /\ \E j \in 1 .. n : packets[j].id = x[2] /\ packets[j].part = 1
    <3>1. PICK j \in 1 .. n : x = <<NextDatagram, packets[j].id>>
                              /\ sent[packets[j].id].reliability = "UNRELIABLE_WITH_ACK_RECEIPT"
                              /\ packets[j].part = 1 /\ sent[packets[j].id].parts = 1 /\ packets[j].id \in DOMAIN sent
      BY <1>29
    <3>2. x[1] = NextDatagram /\ x[2] = packets[j].id
      BY <3>1
    <3>3. receipts[packets[j].id] = <<>>
      BY <1>28, <3>1
    <3>4. PICK d \in datagrams' : d.number = NextDatagram /\ d.packets = packets
      BY <1>9
    <3>5. packets[j] \in ToSet(d.packets) /\ x = <<d.number, packets[j].id>>
      BY <1>10, <3>1, <3>4
    <3>. QED BY <3>1, <3>2, <3>3, <3>5
  <2>3. ASSUME NEW x \in unreliableWithAckReceiptHistory, NEW y \in added PROVE x[2] # y[2]
    <3>1. PICK p \in Packets : p.id = x[2] /\ p.part = 1
      BY <2>1
    <3>2. PICK j \in 1 .. n : packets[j].id = y[2] /\ packets[j].part = 1
      BY <2>2
    <3>. QED BY <1>5, <3>1, <3>2 DEF Key
  <2>4. ASSUME NEW x \in added, NEW y \in added, x[2] = y[2] PROVE x = y
    <3>1. PICK j \in 1 .. n : x = <<NextDatagram, packets[j].id>>
      BY <1>29
    <3>2. PICK k \in 1 .. n : y = <<NextDatagram, packets[k].id>>
      BY <1>29
    <3>3. x[2] = packets[j].id /\ y[2] = packets[k].id
      BY <3>1, <3>2
    <3>. QED BY <2>4, <3>1, <3>2, <3>3
  <2>5. \A i \in DOMAIN receipts : i \notin DOMAIN sent => receipts[i] = <<>>
    BY <1>2 DEF ReceiptsAreDue
  <2>6. ASSUME NEW i \in DOMAIN outgoingPacketBuffer',
               outgoingPacketBuffer'[i].part = sent[outgoingPacketBuffer'[i].id].parts
        PROVE  receipts[outgoingPacketBuffer'[i].id] = <<>>
    BY <1>15, <1>27, <2>6
  <2>7. ASSUME NEW k \in DOMAIN buffer, buffer[k] # NoPacket, buffer[k].part = sent[buffer[k].id].parts
        PROVE  receipts[buffer[k].id] = <<>>
    <3>1. CASE buffer[k] = resendBuffer[k]
      <4>1. resendBuffer[k] \in {resendBuffer[i] : i \in DOMAIN resendBuffer}
        BY <1>23
      <4>. QED BY <1>2, <2>7, <3>1, <4>1 DEF ReceiptsAreDue
    <3>2. CASE \E j \in 1 .. n : buffer[k] = packets[j]
      BY <1>28, <2>7, <3>2
    <3>. QED BY <1>21, <1>23, <3>1, <3>2
  <2>8. \A p \in ToSet(outgoingPacketBuffer)' \cup {buffer[i] : i \in DOMAIN buffer} :
          p # NoPacket /\ p.part = sent[p.id].parts => receipts[p.id] = <<>>
    BY <2>6, <2>7 DEF ToSet
  <2>9. ASSUME NEW x \in unreliableWithAckReceiptHistory'
        PROVE  /\ x[2] \in DOMAIN sent /\ sent[x[2]].reliability = "UNRELIABLE_WITH_ACK_RECEIPT"
               /\ receipts[x[2]] = <<>>
               /\ \E d \in datagrams' : \E p \in ToSet(d.packets) : x = <<d.number, p.id>>
               /\ \A y \in unreliableWithAckReceiptHistory' : x[2] = y[2] => x = y
    BY <1>1, <2>1, <2>2, <2>3, <2>4
  <2>. QED BY <1>1, <1>8, <2>5, <2>8, <2>9 DEF ReceiptsAreDue
<1>31. ReceiptsTrue'
  BY <1>2, <1>8 DEF ReceiptsTrue
<1>32. ReliableOnesKept'
  <2>1. ASSUME NEW id \in IdsOf(Reliable), NEW part \in 1 .. sent[id].parts
        PROVE  \/ <<id, part>> \in receiver.accepted
               \/ \E i \in DOMAIN outgoingPacketBuffer' :
                    outgoingPacketBuffer'[i].id = id /\ outgoingPacketBuffer'[i].part = part
               \/ \E k \in DOMAIN buffer : buffer[k].id = id /\ buffer[k].part = part
    <3>1. CASE <<id, part>> \in receiver.accepted
      BY <3>1
    <3>2. CASE \E i \in 1 .. L : outgoingPacketBuffer[i].id = id /\ outgoingPacketBuffer[i].part = part
      <4>1. PICK i \in 1 .. L : outgoingPacketBuffer[i].id = id /\ outgoingPacketBuffer[i].part = part
        BY <3>2
      <4>2. CASE i <= n
        <5>1. i \in 1 .. n
          BY <1>3, <4>2
        <5>2. packets[i].id = id /\ packets[i].part = part
          BY <1>5, <4>1, <5>1 DEF Key
        <5>3. IsReliable(packets[i])
          BY <5>2 DEF IsReliable, IdsOf
        <5>. QED BY <1>22, <1>23, <5>1, <5>2, <5>3
      <4>3. CASE ~(i <= n)
        <5>1. i - n \in DOMAIN outgoingPacketBuffer' /\ outgoingPacketBuffer'[i - n] = outgoingPacketBuffer[i]
          BY <1>15, <1>17, <4>3
        <5>. QED BY <4>1, <5>1
      <4>. QED BY <4>2, <4>3
    <3>3. CASE \E k \in DOMAIN resendBuffer : resendBuffer[k].id = id /\ resendBuffer[k].part = part
      <4>1. PICK k \in DOMAIN resendBuffer : resendBuffer[k].id = id /\ resendBuffer[k].part = part
        BY <3>3
      <4>2. resendBuffer[k] # NoPacket
        <5>1. part # 0
          <6>1. sent[id].parts \in 1 .. 2
            BY <1>2, SentTyped DEF MessagesAreScripted, IdsOf
          <6>. QED BY <6>1
        <5>. QED BY <4>1, <5>1 DEF NoPacket
      <4>. QED BY <1>21, <1>23, <4>1, <4>2
    <3>. QED BY <1>2, <1>3, <3>1, <3>2, <3>3 DEF ReliableOnesKept
  <2>2. IdsOf(Reliable)' = IdsOf(Reliable)
    BY <1>8 DEF IdsOf
  <2>3. ASSUME NEW id \in IdsOf(Reliable)', NEW part \in 1 .. sent'[id].parts
        PROVE  \/ <<id, part>> \in receiver'.accepted
               \/ \E i \in DOMAIN outgoingPacketBuffer' :
                    outgoingPacketBuffer'[i].id = id /\ outgoingPacketBuffer'[i].part = part
               \/ \E k \in DOMAIN resendBuffer' : resendBuffer'[k].id = id /\ resendBuffer'[k].part = part
    <3>1. id \in IdsOf(Reliable) /\ part \in 1 .. sent[id].parts
      BY <1>8, <2>2
    <3>2. receiver' = receiver /\ resendBuffer' = buffer
      BY <1>1, <1>8
    <3>. QED BY <2>1, <3>1, <3>2
  <2>. QED BY <2>3 DEF ReliableOnesKept
<1>. QED BY <1>9, <1>14, <1>19, <1>20, <1>25, <1>26, <1>30, <1>31, <1>32 DEF ReliabilityIInv

-----------------------------------------------------------------------------
(* The reliability layer: specification *)

LEMMA InitKeeps == ASSUME ReliabilityInit PROVE ReliabilityIInv
<1>1. /\ scenario \in Scenario /\ sent = <<>> /\ outgoingPacketBuffer = <<>> /\ resendList = <<>>
      /\ datagramHistory = <<>> /\ sendReliableMessageNumberIndex = scenario.first
      /\ datagramHistoryPopCount = scenario.first
      /\ resendBuffer = [i \in 0 .. ResendBufferLength - 1 |-> NoPacket]
      /\ unreliableWithAckReceiptHistory = {} /\ datagrams = {} /\ acks = {}
      /\ receipts = [i \in DOMAIN scenario.script |-> <<>>]
  BY DEF ReliabilityInit
<1>2. receiver = [receivedPacketsBaseIndex |-> scenario.first, hasReceivedPacketQueue |-> <<>>,
                  splitPackets |-> {}, orderedReadIndex |-> scenario.first,
                  highestSequencedReadIndex |-> 0, heapIndexOffset |-> 0, orderingHeap |-> <<>>,
                  outputQueue |-> <<>>, accepted |-> {}]
  BY DEF ReliabilityInit
<1>3. /\ scenario.first \in 0 .. NumberRange - 1 /\ scenario.first \in Number
      /\ scenario.script \in Seq([reliability : PacketReliability, parts : 1 .. 2])
      /\ Len(scenario.script) \in Nat
  <2>1. /\ scenario.first \in 0 .. NumberRange - 1
        /\ scenario.script \in Seq([reliability : PacketReliability, parts : 1 .. 2])
    BY <1>1, ReliabilityAssumption
  <2>. QED BY <2>1 DEF Number
<1>4. Offset(scenario.first) = 0
  <2>1. scenario.first - scenario.first = 0 /\ 0 \in 0 .. NumberRange - 1
    BY <1>3, WrapFacts
  <2>. QED BY <2>1, WrapFacts DEF Offset
<1>5. Packets = {}
  BY <1>1 DEF Packets
<1>6. IsFiniteSet(datagrams) /\ Cardinality(datagrams) = 0
  BY <1>1, FS_EmptySet
<1>7. NoPacket \in InternalPacket /\ NumberRange - 1 \in 0 .. NumberRange - 1
  BY WrapFacts DEF NoPacket, NoNumber, InternalPacket
<1>8. \A S : <<>> \in Seq(S)
  OBVIOUS
<1>9. Len(<<>>) = 0 /\ DOMAIN <<>> = {} /\ ToSet(<<>>) = {}
  BY DEF ToSet
<1>10. Numbered = 0
  BY <1>1, <1>4 DEF Numbered
<1>11. MessagesAreScripted
  <2>1. receipts \in [DOMAIN scenario.script -> Seq({"ACKED", "LOSS"})]
    BY <1>1, <1>8
  <2>. QED BY <1>1, <1>3, <1>8, <1>9, <2>1 DEF MessagesAreScripted
<1>12. QueueIsNew
  BY <1>1, <1>3, <1>8, <1>9, <1>10 DEF QueueIsNew
<1>13. PacketsAreNumbered
  BY <1>5 DEF PacketsAreNumbered
<1>14. DatagramsAreNumbered
  <2>1. MaxDatagrams \in 0 .. NumberRange /\ NumberRange \in Nat
    BY ReliabilityAssumption, WrapFacts
  <2>. QED BY <1>1, <1>6, <2>1 DEF DatagramsAreNumbered
<1>15. BufferIsOfPackets
  <2>1. {j \in DOMAIN resendBuffer : resendBuffer[j] # NoPacket} = {}
    BY <1>1
  <2>2. ResendListOK
    BY <1>1, <1>9, <2>1 DEF ResendListOK
  <2>. QED BY <1>1, <1>7, <1>8, <1>9, <2>2 DEF BufferIsOfPackets
<1>16. HistoryIsOfDatagrams
  BY <1>1, <1>3, <1>4, <1>6, <1>8, <1>9 DEF HistoryIsOfDatagrams
<1>17. NotedIsAccepted
  <2>1. receiver \in Receiver
    <3>1. 0 \in 0 .. NumberRange - 1
      BY WrapFacts
    <3>. QED BY <1>2, <1>3, <1>8, <3>1 DEF Receiver
  <2>2. /\ receiver.orderingHeap = <<>> /\ receiver.hasReceivedPacketQueue = <<>>
        /\ receiver.receivedPacketsBaseIndex = scenario.first
    BY <1>2
  <2>. QED BY <1>1, <1>4, <1>5, <1>8, <1>9, <1>10, <2>1, <2>2 DEF NotedIsAccepted
<1>18. ReceiptsAreDue
  <2>1. \A i \in DOMAIN resendBuffer : resendBuffer[i] = NoPacket
    BY <1>1
  <2>. QED BY <1>1, <1>9, <2>1 DEF ReceiptsAreDue
<1>19. ReceiptsTrue
  BY <1>1, <1>9 DEF ReceiptsTrue
<1>20. ReliableOnesKept
  BY <1>1, <1>9 DEF ReliableOnesKept, IdsOf
<1>. QED BY <1>11, <1>12, <1>13, <1>14, <1>15, <1>16, <1>17, <1>18, <1>19, <1>20 DEF ReliabilityIInv

LEMMA NextKeeps ==
  ASSUME ReliabilityIInv, NoNumberIsUnused, [ReliabilityNext]_reliabilityVars PROVE ReliabilityIInv'
<1>1. CASE Send
  BY <1>1, SendKeeps
<1>2. ASSUME NEW n \in 1 .. MaxPerDatagram, SendPackets(n) PROVE ReliabilityIInv'
  BY <1>2, SendPacketsKeeps
<1>3. ASSUME NEW n \in 1 .. MaxPerDatagram, ResendPackets(n) PROVE ReliabilityIInv'
  BY <1>3, ResendPacketsKeeps
<1>4. ASSUME NEW d \in acks, OnAck(d) PROVE ReliabilityIInv'
  BY <1>4, OnAckKeeps
<1>5. ASSUME NEW x \in unreliableWithAckReceiptHistory, ReportLoss(x) PROVE ReliabilityIInv'
  BY <1>5, ReportLossKeeps
<1>6. ASSUME NEW d \in datagrams, ReceiveDatagram(d) PROVE ReliabilityIInv'
  BY <1>6, ReceiveDatagramKeeps
<1>7. CASE UNCHANGED reliabilityVars
  <2> USE <1>7 DEF reliabilityVars
  <2>1. MessagesAreScripted' /\ QueueIsNew'
    BY DEF ReliabilityIInv, MessagesAreScripted, QueueIsNew, IsPart, Packets, Key, Numbered, Offset
  <2>2. PacketsAreNumbered' /\ DatagramsAreNumbered'
    BY DEF ReliabilityIInv, PacketsAreNumbered, DatagramsAreNumbered, IsPart, Packets, Key, IsReliable,
           Numbered, Offset
  <2>3. BufferIsOfPackets'
    BY DEF ReliabilityIInv, BufferIsOfPackets, IsInResendBuffer, ResendListOK, Packets, IsReliable
  <2>4. HistoryIsOfDatagrams'
    BY DEF ReliabilityIInv, HistoryIsOfDatagrams, Offset
  <2>5. NotedIsAccepted'
    BY DEF ReliabilityIInv, NotedIsAccepted, Noted, Packets, IsReliable, Key, Numbered, Offset
  <2>6. ReceiptsAreDue' /\ ReceiptsTrue'
    BY DEF ReliabilityIInv, ReceiptsAreDue, ReceiptsTrue
  <2>7. ReliableOnesKept'
    BY KeptStays DEF ReliabilityIInv
  <2>. QED BY <2>1, <2>2, <2>3, <2>4, <2>5, <2>6, <2>7 DEF ReliabilityIInv
<1>. QED BY <1>1, <1>2, <1>3, <1>4, <1>5, <1>6, <1>7 DEF ReliabilityNext

\* What one end knows of the messages, the packets and the acknowledgements
\* agrees with what is in the network and with the other end, for every script,
\* first number and length of the buffers.
THEOREM ReliabilityInvariant ==
  ASSUME NoNumberIsUnused PROVE ReliabilitySpec => []ReliabilityIInv
<1>1. ReliabilityInit => ReliabilityIInv
  BY InitKeeps
<1>2. ReliabilityIInv /\ [ReliabilityNext]_reliabilityVars => ReliabilityIInv'
  BY NextKeeps
<1>. QED BY <1>1, <1>2, PTL DEF ReliabilitySpec

\* The two lists of the sender and its queue forget no reliable message that has
\* not arrived, where no reliable message has the number of unreliable ones.
THEOREM NoneForgotten ==
  ASSUME NoNumberIsUnused PROVE ReliabilitySpec => []NoMessageForgotten
<1>1. ReliabilityIInv => NoMessageForgotten
  BY DEF ReliabilityIInv, BufferIsOfPackets, NoMessageForgotten
<1>. QED BY <1>1, ReliabilityInvariant, PTL

\* A receipt is given once, and ID_SND_RECEIPT_ACKED only for what has arrived.
THEOREM ReceiptsAreTrue ==
  ASSUME NoNumberIsUnused PROVE ReliabilitySpec => []ReceiptsTrue
<1>1. ReliabilityIInv => ReceiptsTrue
  BY DEF ReliabilityIInv
<1>. QED BY <1>1, ReliabilityInvariant, PTL

\* The queues, buffers and read indices of both ends have their types.
THEOREM ReliabilityTypes ==
  ASSUME NoNumberIsUnused PROVE ReliabilitySpec => []ReliabilityTypeOK
<1>1. ASSUME ReliabilityIInv PROVE ReliabilityTypeOK
  <2>1. ASSUME NEW x \in unreliableWithAckReceiptHistory PROVE x \in (0 .. NumberRange - 1) \X DOMAIN sent
    <3>1. PICK d \in datagrams : \E p \in ToSet(d.packets) : x = <<d.number, p.id>>
      BY <1>1 DEF ReliabilityIInv, ReceiptsAreDue
    <3>2. d.number \in 0 .. NumberRange - 1
      BY <1>1 DEF ReliabilityIInv, DatagramsAreNumbered
    <3>3. x[2] \in DOMAIN sent
      BY <1>1 DEF ReliabilityIInv, ReceiptsAreDue
    <3>. QED BY <3>1, <3>2, <3>3
  <2>2. \A id \in DOMAIN receipts : receipts[id] \in Seq({"ACKED", "LOSS"})
    BY <1>1 DEF ReliabilityIInv, MessagesAreScripted
  <2>. QED BY <1>1, <2>1, <2>2 DEF ReliabilityTypeOK, ReliabilityIInv, MessagesAreScripted, QueueIsNew,
                                   BufferIsOfPackets, NotedIsAccepted
<1>2. ReliabilityIInv => ReliabilityTypeOK
  BY <1>1
<1>. QED BY <1>2, ReliabilityInvariant, PTL

=============================================================================
