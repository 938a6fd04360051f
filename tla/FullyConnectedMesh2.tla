------------------------ MODULE FullyConnectedMesh2 ------------------------
(***************************************************************************)
(* The host calculation of FullyConnectedMesh2: systems that connect and   *)
(* lose each other, each of which gives itself a number (FCM2Guid) when it *)
(* learns how many systems the mesh has had, and takes the participant of  *)
(* the lowest number for the host.                                         *)
(***************************************************************************)
EXTENDS PeerLinks, Functions

CONSTANTS
  autoParticipateConnections,  \* [System -> BOOLEAN]
  MeshLots,                    \* orders in which the random numbers may be drawn
  MeshBudgets                  \* how often systems connect and lose each other, as records

Lots == Cardinality(System) + 1

ASSUME MeshAssumption == autoParticipateConnections \in [System -> BOOLEAN]

\* No two systems draw the same number.
ASSUME LotsAssumption ==
  \A lots \in MeshLots : lots \in [System -> 1 .. Lots - 1] /\ IsInjective(lots)

VARIABLES
  mesh,       \* the plugin of each system
  drawn,      \* the order of the random numbers the systems draw
  unnumbered  \* systems that have lost a participant whose number they never learned

meshVars == <<linkVars, mesh, drawn, unnumbered>>

NoHost == 0   \* UNASSIGNED_RAKNET_GUID
Unset == 0    \* of an FCM2Guid

MeshMessage ==
  [id : {"REQUEST_FCMGUID", "RESPOND_CONNECTION_COUNT", "INFORM_FCMGUID",
         "UPDATE_MIN_TOTAL_CONNECTION_COUNT"},
   guid : Nat, count : Nat, startup : System \cup {0}]

Plugin(participants) ==
  [self : System, fcm2ParticipantList : [participants -> Nat], ourFCMGuid : Nat,
   totalConnectionCount : Nat, hostRakNetGuid : System \cup {NoHost},
   lastPushedHost : System \cup {NoHost}, out : [System -> Seq(MeshMessage)]]

Blank(id) == [id |-> id, guid |-> Unset, count |-> 0, startup |-> 0]

-----------------------------------------------------------------------------
(* What handlers do: operators on [plugin, out], the plugin of one system and *)
(* the messages it sends to each other.                                       *)

Participants(f) == DOMAIN f.fcm2ParticipantList

SendTo(s, targets, m) ==
  [s EXCEPT !.out = [q \in System |-> IF q \in targets THEN Append(@[q], m) ELSE @[q]]]

\* A system without a number gives the time it has been running.
FCMGuidMessage(s, id) ==
  IF s.ourFCMGuid = Unset THEN [Blank(id) EXCEPT !.startup = s.self]
  ELSE [Blank(id) EXCEPT !.guid = s.ourFCMGuid, !.count = s.totalConnectionCount]

SendFCMGuid(s, targets, id) == SendTo(s, targets, FCMGuidMessage(s, id))

SendCount(s, targets, id, count) == SendTo(s, targets, [Blank(id) EXCEPT !.count = count])

SendConnectionCountResponse(s, q, count) == SendCount(s, {q}, "RESPOND_CONNECTION_COUNT", count)

\* Whatever guid is given is stored; a new participant is asked for its own.
AddParticipantInternal(s, q, guid) ==
  IF q \in Participants(s)
  THEN IF guid = Unset THEN s ELSE [s EXCEPT !.fcm2ParticipantList[q] = guid]
  ELSE SendFCMGuid([s EXCEPT !.fcm2ParticipantList =
               [r \in DOMAIN @ \cup {q} |-> IF r = q THEN guid ELSE @[r]]],
            {q}, "REQUEST_FCMGUID")

IncrementTotalConnectionCount(s, count) ==
  [s EXCEPT !.totalConnectionCount = IF count > @ THEN count ELSE @]

\* The count in the high half, a random number in the low half.
AssignOurFCMGuid(s) ==
  [s EXCEPT !.ourFCMGuid = s.totalConnectionCount * Lots + drawn[s.self]]

\* The lowest number known, one's own included.
CalculateHost(s) ==
  LET guids == [q \in Participants(s) \cup {s.self} |->
                  IF q = s.self THEN s.ourFCMGuid ELSE s.fcm2ParticipantList[q]]
      known == {q \in DOMAIN guids : guids[q] # Unset \/ q = s.self}
  IN CHOOSE q \in known : \A r \in known : guids[q] <= guids[r]

PushNewHost(s, host) == [s EXCEPT !.hostRakNetGuid = host, !.lastPushedHost = host]

AllListed(s) == \A q \in Participants(s) : s.fcm2ParticipantList[q] # Unset

CalculateAndPushHost(s) ==
  IF AllListed(s) /\ CalculateHost(s) # s.lastPushedHost
  THEN PushNewHost(s, CalculateHost(s))
  ELSE s

\* The number is given, and told to all participants.
AssignAndInform(s) ==
  LET t == AssignOurFCMGuid(s) IN SendFCMGuid(t, Participants(t), "INFORM_FCMGUID")

\* Of two systems without a number the one started first waits for the other's
\* answer; the answer may take longer than it was started earlier.
OnRequestFCMGuid(s, q, m, probablyHost) ==
  LET t == AddParticipantInternal(s, q, m.guid)
  IN CalculateAndPushHost(
       IF s.ourFCMGuid = Unset
       THEN IF m.guid = Unset
            THEN SendConnectionCountResponse(t, q, IF probablyHost THEN 2 ELSE 1)
            ELSE AssignAndInform(IncrementTotalConnectionCount(t, m.count + 1))
       ELSE IF m.guid = Unset
            THEN SendConnectionCountResponse(t, q, t.totalConnectionCount + 1)
            ELSE SendFCMGuid(IncrementTotalConnectionCount(t, m.count), {q}, "INFORM_FCMGUID"))

\* The number is made of the count that was told, before the count becomes 2.
OnRespondConnectionCount(s, m) ==
  LET t == IncrementTotalConnectionCount(s, m.count)
      u == IF s.ourFCMGuid = Unset THEN AssignOurFCMGuid(t) ELSE t
      v == IncrementTotalConnectionCount(u, 2)
  IN IF s.ourFCMGuid = Unset
     THEN CalculateAndPushHost(SendFCMGuid(v, Participants(v), "INFORM_FCMGUID"))
     ELSE v

OnInformFCMGuid(s, q, m) ==
  LET t == IncrementTotalConnectionCount(s, m.count)
      u == AddParticipantInternal(t, q, m.guid)
      v == IF q \in Participants(s) THEN u
           ELSE SendCount(u, Participants(u) \ {q}, "UPDATE_MIN_TOTAL_CONNECTION_COUNT",
                          u.totalConnectionCount)
  IN CalculateAndPushHost(IF v.ourFCMGuid = Unset THEN AssignAndInform(v) ELSE v)

\* Mutant: the host is calculated before the lost one is taken off the list.
CalculatesBeforeRemoval(s, q) ==
  LET t == [s EXCEPT !.fcm2ParticipantList = [r \in DOMAIN @ \ {q} |-> @[r]]]
  IN IF q \in Participants(s) /\ q = s.hostRakNetGuid /\ s.ourFCMGuid # Unset
     THEN PushNewHost(t, CalculateHost(s))
     ELSE t

\* The loss of the host, and only that, has the host calculated again.
OnClosedConnection(s, q) ==
  LET t == [s EXCEPT !.fcm2ParticipantList = [r \in DOMAIN @ \ {q} |-> @[r]]]
  IN IF q \in Participants(s) /\ q = s.hostRakNetGuid /\ s.ourFCMGuid # Unset
     THEN PushNewHost(t, IF Participants(t) = {} THEN s.self ELSE CalculateHost(t))
     ELSE t

-----------------------------------------------------------------------------
(* Steps *)

Becomes(p, s) == mesh' = [mesh EXCEPT ![p] = [s EXCEPT !.out = Nothing]]

\* System p has handled the next message of q and is now s.
Handle(p, q, s) ==
  Becomes(p, s) /\ PassesAfter(p, q, s.out) /\ UNCHANGED <<drawn, unnumbered>>

\* AddParticipant of a system that is connected, or seems to be until its loss
\* is noticed.
OnNewConnection(p, q) ==
  /\ HasNext(p, q, "NEW_CONNECTION")
  /\ \/ /\ autoParticipateConnections[p]
        /\ Handle(p, q, AddParticipantInternal(mesh[p], q, Unset))
     \/ /\ ~autoParticipateConnections[p] \/ ~Linked(p, q)
        /\ Handle(p, q, mesh[p])

\* The application adds a system it is connected to.
AddParticipant(p, q) ==
  /\ ~autoParticipateConnections[p] /\ Linked(p, q)
  /\ q \notin Participants(mesh[p])
  /\ \A i \in DOMAIN inbox[p][q] : inbox[p][q][i].id \notin {"NEW_CONNECTION", "CLOSED_CONNECTION"}
  /\ LET s == AddParticipantInternal(mesh[p], q, Unset)
     IN Becomes(p, s) /\ PassesUnasked(p, s.out)
  /\ UNCHANGED <<drawn, unnumbered>>

ReceiveRequestFCMGuid(p, q) ==
  /\ HasNext(p, q, "REQUEST_FCMGUID")
  /\ \E probablyHost \in BOOLEAN :
       /\ p < Head(inbox[p][q]).startup => probablyHost
       /\ Handle(p, q, OnRequestFCMGuid(mesh[p], q, Head(inbox[p][q]), probablyHost))

ReceiveRespondConnectionCount(p, q) ==
  /\ HasNext(p, q, "RESPOND_CONNECTION_COUNT")
  /\ Handle(p, q, OnRespondConnectionCount(mesh[p], Head(inbox[p][q])))

ReceiveInformFCMGuid(p, q) ==
  /\ HasNext(p, q, "INFORM_FCMGUID")
  /\ Handle(p, q, OnInformFCMGuid(mesh[p], q, Head(inbox[p][q])))

OnUpdateMinTotalConnectionCount(p, q) ==
  /\ HasNext(p, q, "UPDATE_MIN_TOTAL_CONNECTION_COUNT")
  /\ Handle(p, q, IncrementTotalConnectionCount(mesh[p], Head(inbox[p][q]).count))

ReceiveClosedConnection(p, q) ==
  /\ HasNext(p, q, "CLOSED_CONNECTION")
  /\ LET s == OnClosedConnection(mesh[p], q)
     IN Becomes(p, s) /\ PassesAfter(p, q, s.out)
  /\ unnumbered' = IF q \in Participants(mesh[p]) /\ mesh[p].fcm2ParticipantList[q] = Unset
                   THEN unnumbered \cup {p} ELSE unnumbered
  /\ UNCHANGED drawn

MeshInit ==
  /\ mesh = [p \in System |->
       [self |-> p, fcm2ParticipantList |-> [q \in {} |-> Unset], ourFCMGuid |-> Unset,
        totalConnectionCount |-> 0, hostRakNetGuid |-> NoHost, lastPushedHost |-> NoHost, out |-> Nothing]]
  /\ drawn \in MeshLots
  /\ unnumbered = {}

MeshNext ==
  \/ \E p \in System : \E q \in Senders(p) :
       \/ OnNewConnection(p, q) \/ ReceiveClosedConnection(p, q)
       \/ ReceiveRequestFCMGuid(p, q) \/ ReceiveRespondConnectionCount(p, q)
       \/ ReceiveInformFCMGuid(p, q) \/ OnUpdateMinTotalConnectionCount(p, q)
  \/ \E p, q \in System : AddParticipant(p, q)
  \/ LinksChange /\ UNCHANGED <<mesh, drawn, unnumbered>>

MeshSpec == MeshInit /\ LinksInit({}, MeshBudgets) /\ [][MeshNext]_meshVars

-----------------------------------------------------------------------------
(* Properties *)

\* Hosts and participants are systems, and what was sent is under way.
MeshTypeOK ==
  /\ LinksTypeOK(MeshMessage)
  /\ DOMAIN mesh = System
  /\ \A p \in System :
       /\ mesh[p] \in Plugin(Participants(mesh[p])) /\ Participants(mesh[p]) \subseteq System \ {p}
       /\ mesh[p].self = p /\ mesh[p].out = Nothing /\ inbox[p][p] = <<>>
  /\ drawn \in MeshLots /\ unnumbered \subseteq System

Neighbours(p) == {p} \cup {q \in System : Linked(p, q)}

\* p is one of a fully connected mesh, of participants of each other, and no
\* system of it has anything to handle.
Settled(p) ==
  \A q \in Neighbours(p) :
    /\ Neighbours(q) = Neighbours(p)
    /\ Participants(mesh[q]) = Neighbours(p) \ {q}
    /\ \A r \in System : inbox[q][r] = <<>>

\* "The connected host is whichever system we are connected to that has been
\* running the longest": when a fully connected mesh has settled, its systems
\* were told of one and the same host, which is among them.  Left out is a mesh
\* with a system that lost a participant before that had a number: such a
\* participant kept the list incomplete, and OnClosedConnection has the host
\* calculated only when the host is lost, so the system stays without one.
HostsAgree ==
  \A p \in System :
    Settled(p) /\ Cardinality(Neighbours(p)) > 1 /\ Neighbours(p) \cap unnumbered = {} =>
      /\ mesh[p].lastPushedHost \in Neighbours(p)
      /\ \A q \in Neighbours(p) : mesh[q].lastPushedHost = mesh[p].lastPushedHost

-----------------------------------------------------------------------------
(* Invariant *)

Number(p) == mesh[p].ourFCMGuid
Participates(p, q) == q \in Participants(mesh[p])
NumberListed(p, q) == mesh[p].fcm2ParticipantList[q]

CarriesNumber(m) == m.id \in {"REQUEST_FCMGUID", "INFORM_FCMGUID"}

\* What a queue has to say about the number of the system it is from.
TellsNumber(queue) == \E m \in Range(queue) : CarriesNumber(m) /\ m.guid # Unset
AsksForNumber(queue) == \E m \in Range(queue) : m.id = "REQUEST_FCMGUID" /\ m.guid = Unset
TellsCount(queue) == \E m \in Range(queue) : m.id = "RESPOND_CONNECTION_COUNT"

\* A lost connection is the last that is heard of the other system, which is no
\* participant from then on.
LossesNoticed(p, q) ==
  IF Linked(p, q) THEN Notice("CLOSED_CONNECTION") \notin Range(inbox[p][q])
  ELSE IF inbox[p][q] = <<>> THEN ~Participates(p, q)
  ELSE inbox[p][q][Len(inbox[p][q])] = Notice("CLOSED_CONNECTION")

\* A number that is told or listed is the number of the system.
NumbersAreTrue(p, q) ==
  /\ \A m \in Range(inbox[p][q]) : CarriesNumber(m) => m.guid \in {Unset, Number(q)}
  /\ Participates(p, q) => NumberListed(p, q) \in {Unset, Number(q)}

\* The number of a system that takes p for a participant is known to p, or on its way.
NumberArrives(p, q) ==
  Linked(p, q) /\ Participates(q, p) /\ Number(q) # Unset =>
    \/ Participates(p, q) /\ NumberListed(p, q) = Number(q)
    \/ TellsNumber(inbox[p][q])

\* A system without a number has asked each participant, or the answer is on its way.
NumberIsComing(p, q) ==
  Linked(p, q) /\ Participates(p, q) /\ Number(p) = Unset =>
    AsksForNumber(inbox[q][p]) \/ TellsCount(inbox[p][q]) \/ TellsNumber(inbox[p][q])

\* What a system makes of its list.
OwnHostAgrees(p) ==
  /\ mesh[p].hostRakNetGuid = mesh[p].lastPushedHost
  /\ Number(p) # Unset =>
       \E c \in 0 .. mesh[p].totalConnectionCount : Number(p) = c * Lots + drawn[p]
  /\ (\E q \in Participants(mesh[p]) : NumberListed(p, q) # Unset) => Number(p) # Unset
  /\ p \notin unnumbered /\ AllListed(mesh[p]) /\ Participants(mesh[p]) # {} =>
       mesh[p].lastPushedHost = CalculateHost(mesh[p])

MeshIInv ==
  /\ MeshTypeOK
  /\ \A p \in System : OwnHostAgrees(p)
  /\ \A p \in System : \A q \in System \ {p} :
       LossesNoticed(p, q) /\ NumbersAreTrue(p, q) /\ NumberArrives(p, q) /\ NumberIsComing(p, q)

=============================================================================
