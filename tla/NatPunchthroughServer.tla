----------------------- MODULE NatPunchthroughServer -----------------------
(***************************************************************************)
(* The NAT punchthrough facilitator, Source/NatPunchthroughServer.cpp.     *)
(*                                                                         *)
(* Clients keep a connection to the facilitator and ask it to be connected *)
(* to one another.  The facilitator pairs two users that are both ready,   *)
(* asks both for the port their router is likely to open next, and tells   *)
(* both to start punching at the same time.                                *)
(*                                                                         *)
(* The plugin is single threaded: a handler runs to its end before the     *)
(* next packet, connection event or Update.  Handlers contain loops, so a  *)
(* handler is a first step that reads the input, followed by one step per  *)
(* iteration of its loops; closing, toVisit and toStart are the program    *)
(* counter of the handler that runs, and no input is taken before it ends  *)
(* (Idle).                                                                 *)
(*                                                                         *)
(* The inputs are open: any connected user may send any message at any     *)
(* time.  Module NatPunchthrough closes the system with the clients.       *)
(***************************************************************************)
EXTENDS Integers, Sequences, SequencesExt

CONSTANTS
  Guid,          \* the systems that may connect, ordered as RakNetGUIDs are
  Port,          \* the ports a client may report
  Ptr,           \* addresses a ConnectionAttempt can be allocated at
  SessionIds,    \* number of session ids before sessionId++ wraps (2^16)
  SelfRequests   \* whether some client asks to be connected to itself

ASSUME GuidAssumption == Guid \subseteq Int
ASSUME PortAssumption == Port \subseteq Nat
ASSUME SessionIdsAssumption == SessionIds \in Nat \ {0}
ASSUME SelfRequestsAssumption == SelfRequests \in BOOLEAN

VARIABLES
  users,               \* guids with a User record
  isReady,             \* User::isReady
  mostRecentPort,      \* User::mostRecentPort, 0 when not known
  connectionAttempts,  \* User::connectionAttempts, a list of addresses
  attempts,            \* the live ConnectionAttempt objects by address
  sessionId,           \* next session id
  closing,             \* the user OnClosedConnection is removing, if any
  toVisit,             \* users the running Update has still to visit
  toStart,             \* StartPunchthroughForUser calls still to be made
  sent                 \* the messages sent by the last step, in order

pcVars == <<closing, toVisit, toStart>>
vars == <<users, isReady, mostRecentPort, connectionAttempts, attempts,
          sessionId, closing, toVisit, toStart, sent>>

Session == 0 .. SessionIds - 1

Attempt ==
  [sender : Guid, recipient : Guid, sessionId : Session,
   attemptPhase : {"NOT_STARTED", "GETTING_RECENT_PORTS"},
   overdue : BOOLEAN]       \* started more than 10 seconds ago

Message ==
       [to : Guid, peer : Guid, session : Session,
        id : {"ID_NAT_TARGET_UNRESPONSIVE", "ID_NAT_CONNECTION_TO_TARGET_LOST"}]
  \cup [to : Guid, peer : Guid,
        id : {"ID_NAT_TARGET_NOT_CONNECTED", "ID_NAT_ALREADY_IN_PROGRESS"}]
  \cup [to : Guid, session : Session, id : {"ID_NAT_GET_MOST_RECENT_PORT"}]
  \cup [to : Guid, peer : Guid, session : Session, port : Port,
        weAreSender : BOOLEAN, id : {"ID_NAT_CONNECT_AT_TIME"}]

-----------------------------------------------------------------------------
(* Helpers *)

\* No handler is running: the next input may be taken.
Idle == closing = {} /\ toVisit = {} /\ toStart = <<>>

Involves(ca, u) == attempts[ca].sender = u \/ attempts[ca].recipient = u
InProgress(ca) == attempts[ca].attemptPhase = "GETTING_RECENT_PORTS"

\* The endpoint of attempt ca that is not u.
OtherUser(ca, u) ==
  IF attempts[ca].sender = u THEN attempts[ca].recipient ELSE attempts[ca].sender

\* i is the position of the first element of list that is in S.
FirstIn(i, list, S) ==
  /\ i \in 1 .. Len(list)
  /\ list[i] \in S
  /\ \A j \in 1 .. i - 1 : list[j] \notin S

\* User::DerefConnectionAttempt
Deref(list, ca) ==
  IF ca \in ToSet(list)
  THEN RemoveAt(list, CHOOSE i \in 1 .. Len(list) : FirstIn(i, list, {ca}))
  ELSE list

\* Mutant: the list of the recipient keeps the address.
DeleteFromSender(ca) ==
  /\ connectionAttempts' =
       [connectionAttempts EXCEPT ![attempts[ca].sender] = Deref(@, ca)]
  /\ attempts' = [p \in DOMAIN attempts \ {ca} |-> attempts[p]]

\* Attempt ca disappears from the lists of both endpoints and is deleted.
\* Both list operations of the code, Deref- and DeleteConnectionAttempt.
Delete(ca) ==
  LET s == attempts[ca].sender
      r == attempts[ca].recipient
      without == [connectionAttempts EXCEPT ![s] = Deref(@, ca)]
  IN /\ connectionAttempts' = [without EXCEPT ![r] = Deref(@, ca)]
     /\ attempts' = [p \in DOMAIN attempts \ {ca} |-> attempts[p]]

-----------------------------------------------------------------------------
(* Connections *)

OnNewConnection(g) ==
  /\ Idle
  /\ g \notin users
  /\ users' = users \cup {g}
  /\ isReady' = [isReady EXCEPT ![g] = TRUE]
  /\ mostRecentPort' = [mostRecentPort EXCEPT ![g] = 0]
  /\ sent' = <<>>
  /\ UNCHANGED <<connectionAttempts, attempts, sessionId, pcVars>>

OnClosedConnection(g) ==
  /\ Idle
  /\ g \in users
  /\ closing' = {g}
  /\ sent' = <<>>
  /\ UNCHANGED <<users, isReady, mostRecentPort, connectionAttempts, attempts,
                 sessionId, toVisit, toStart>>

\* Whether the other end of a lost attempt is ready: it is freed if the attempt
\* was in progress, and stays what it is if the attempt was waiting.
ReadyAfterLoss(ca, other) == isReady[other] \/ InProgress(ca)

\* Mutant: the wrong end of the attempt is collected.
FreedSelf(ca, g) == IF InProgress(ca) THEN Append(toStart, g) ELSE toStart

\* freedUpInProgressUsers, the users to start when g has been removed.
FreedUp(ca, g) ==
  IF InProgress(ca) THEN Append(toStart, OtherUser(ca, g)) ELSE toStart

\* The loop of OnClosedConnection over the attempts of the user that left.  A
\* request of a user to itself is listed twice: its deletion removes an entry
\* of the list the loop runs over, and the loop passes over the other one.
LoseAttempt ==
  \E g \in closing :
    LET ca == Head(connectionAttempts[g])
        other == OtherUser(ca, g)
        without == [connectionAttempts EXCEPT ![other] = Deref(@, ca)]
    IN /\ connectionAttempts[g] # <<>>
       /\ sent' = <<[to |-> other, id |-> "ID_NAT_CONNECTION_TO_TARGET_LOST",
                     peer |-> g, session |-> attempts[ca].sessionId]>>
       /\ isReady' = [isReady EXCEPT ![other] = ReadyAfterLoss(ca, other)]
       /\ toStart' = FreedUp(ca, g)
       /\ connectionAttempts' = [without EXCEPT ![g] = Tail(@)]
       /\ attempts' = [p \in DOMAIN attempts \ {ca} |-> attempts[p]]
       /\ UNCHANGED <<users, mostRecentPort, sessionId, closing, toVisit>>

\* The end of that loop: the user is deleted, and the calls collected in
\* freedUpInProgressUsers are made.
RemoveUser ==
  \E g \in closing :
    /\ connectionAttempts[g] = <<>>
    /\ users' = users \ {g}
    /\ isReady' = [isReady EXCEPT ![g] = FALSE]
    /\ mostRecentPort' = [mostRecentPort EXCEPT ![g] = 0]
    /\ closing' = {}
    /\ sent' = <<>>
    /\ UNCHANGED <<connectionAttempts, attempts, sessionId, toVisit, toStart>>

-----------------------------------------------------------------------------
(* Messages from clients *)

\* Mutant: only what the user asked for itself is looked at.
HasAttemptAsSender(u, other) ==
  \E ca \in ToSet(connectionAttempts[u]) : attempts[ca].recipient = other

HasConnectionAttemptToUser(u, other) ==
  \E ca \in ToSet(connectionAttempts[u]) : Involves(ca, other)

\* Mutant: the counter is wider than a session id.
NextSessionUnwrapped == sessionId + 1

\* sessionId is a uint16_t, and counts requests that are refused, too.
NextSession == (sessionId + 1) % SessionIds

Refuse(g, r, why) ==
  /\ sent' = <<[to |-> g, id |-> why, peer |-> r]>>
  /\ UNCHANGED <<connectionAttempts, attempts, toStart>>

\* The test of line 396 compares the sender with a recipient that is still
\* null, so a request of a user to itself goes on to the next test.
OnNATPunchthroughRequest(g, r) ==
  /\ Idle
  /\ g \in users
  /\ g = r => SelfRequests
  /\ sessionId' = NextSession
  /\ \/ /\ r \notin users
        /\ Refuse(g, r, "ID_NAT_TARGET_NOT_CONNECTED")
     \/ /\ r \in users
        /\ HasConnectionAttemptToUser(r, g)
        /\ Refuse(g, r, "ID_NAT_ALREADY_IN_PROGRESS")
     \/ /\ r \in users
        /\ ~HasConnectionAttemptToUser(r, g)
        /\ \E ca \in Ptr \ DOMAIN attempts :
             LET new == [sender |-> g, recipient |-> r, sessionId |-> sessionId,
                         attemptPhase |-> "NOT_STARTED", overdue |-> FALSE]
                 with == [connectionAttempts EXCEPT ![g] = Append(@, ca)]
             IN /\ attempts' = [p \in DOMAIN attempts \cup {ca} |->
                                  IF p = ca THEN new ELSE attempts[p]]
                /\ connectionAttempts' = [with EXCEPT ![r] = Append(@, ca)]
        /\ toStart' = <<g>>
        /\ sent' = <<>>
  /\ UNCHANGED <<users, isReady, mostRecentPort, closing, toVisit>>

\* Mutant: the attempts that waited for this user are not started.
OnClientReadyOnly(g) ==
  /\ Idle
  /\ g \in users
  /\ isReady' = [isReady EXCEPT ![g] = TRUE]
  /\ sent' = <<>>
  /\ UNCHANGED <<users, mostRecentPort, connectionAttempts, attempts,
                 sessionId, pcVars>>

OnClientReady(g) ==
  /\ Idle
  /\ g \in users
  /\ isReady' = [isReady EXCEPT ![g] = TRUE]
  /\ toStart' = <<g>>
  /\ sent' = <<>>
  /\ UNCHANGED <<users, mostRecentPort, connectionAttempts, attempts,
                 sessionId, closing, toVisit>>

\* Mutant: the end that asked is not told.
ConnectRecipientAtTime(ca, ports) ==
  << [to |-> attempts[ca].recipient, id |-> "ID_NAT_CONNECT_AT_TIME",
      session |-> attempts[ca].sessionId, peer |-> attempts[ca].sender,
      port |-> ports[attempts[ca].sender], weAreSender |-> FALSE] >>

\* What both endpoints of attempt ca are told when the ports are known.
ConnectAtTime(ca, ports) ==
  LET a == attempts[ca]
      to(u, peer, weAreSender) ==
        [to |-> u, id |-> "ID_NAT_CONNECT_AT_TIME", session |-> a.sessionId,
         peer |-> peer, port |-> ports[peer], weAreSender |-> weAreSender]
  IN << to(a.recipient, a.sender, FALSE), to(a.sender, a.recipient, TRUE) >>

\* The attempts a report of session s completes, given the ports known.
Answered(s, ports) ==
  {ca \in DOMAIN attempts : /\ InProgress(ca)
                            /\ attempts[ca].sessionId = s
                            /\ ports[attempts[ca].sender] # 0
                            /\ ports[attempts[ca].recipient] # 0}

OnGetMostRecentPort(g, s, port) ==
  LET ports == [mostRecentPort EXCEPT ![g] = port]
      list == connectionAttempts[g]
  IN /\ Idle
     /\ g \in users
     /\ mostRecentPort' = ports
     /\ \/ \E i \in 1 .. Len(list) :
             /\ FirstIn(i, list, Answered(s, ports))
             /\ sent' = ConnectAtTime(list[i], ports)
             /\ Delete(list[i])
        \/ /\ ToSet(list) \cap Answered(s, ports) = {}
           /\ sent' = <<>>
           /\ UNCHANGED <<connectionAttempts, attempts>>
     /\ UNCHANGED <<users, isReady, sessionId, pcVars>>

-----------------------------------------------------------------------------
(* StartPunchthroughForUser, called by the handlers above and by Update *)

\* Both ends of an attempt that starts are busy.
Engaged(s, r) == [isReady EXCEPT ![s] = FALSE, ![r] = FALSE]

\* The first attempt of the user whose other end is ready.  The phase is not
\* looked at: an attempt in progress with two ready ends is started again.
StartAttempt ==
  LET u == Head(toStart)
      list == connectionAttempts[u]
      Startable == {ca \in DOMAIN attempts : isReady[OtherUser(ca, u)]}
  IN /\ closing = {}
     /\ toStart # <<>>
     /\ isReady[u]
     /\ \E i \in 1 .. Len(list) :
          LET ca == list[i]
              s == attempts[ca].sender
              r == attempts[ca].recipient
              ask(v) == [to |-> v, id |-> "ID_NAT_GET_MOST_RECENT_PORT",
                         session |-> attempts[ca].sessionId]
          IN /\ FirstIn(i, list, Startable)
             /\ isReady' = Engaged(s, r)
             /\ mostRecentPort' = [mostRecentPort EXCEPT ![s] = 0, ![r] = 0]
             /\ attempts' = [attempts EXCEPT
                              ![ca].attemptPhase = "GETTING_RECENT_PORTS",
                              ![ca].overdue = FALSE]
             /\ sent' = <<ask(s), ask(r)>>
     /\ toStart' = Tail(toStart)
     /\ UNCHANGED <<users, connectionAttempts, sessionId, closing, toVisit>>

NothingToStart ==
  LET u == Head(toStart)
      list == connectionAttempts[u]
  IN /\ closing = {}
     /\ toStart # <<>>
     /\ isReady[u] => \A ca \in ToSet(list) : ~isReady[OtherUser(ca, u)]
     /\ toStart' = Tail(toStart)
     /\ sent' = <<>>
     /\ UNCHANGED <<users, isReady, mostRecentPort, connectionAttempts, attempts,
                    sessionId, closing, toVisit>>

-----------------------------------------------------------------------------
(* Time *)

\* Ten seconds have passed since attempt ca was started.
BecomesOverdue(ca) ==
  /\ Idle
  /\ InProgress(ca)
  /\ ~attempts[ca].overdue
  /\ attempts' = [attempts EXCEPT ![ca].overdue = TRUE]
  /\ sent' = <<>>
  /\ UNCHANGED <<users, isReady, mostRecentPort, connectionAttempts, sessionId,
                 pcVars>>

\* A call of Update that finds no overdue attempt changes nothing.
Update ==
  /\ Idle
  /\ \E ca \in DOMAIN attempts : attempts[ca].overdue
  /\ toVisit' = users
  /\ sent' = <<>>
  /\ UNCHANGED <<users, isReady, mostRecentPort, connectionAttempts, attempts,
                 sessionId, closing, toStart>>

OverdueFrom(u) ==
  {ca \in DOMAIN attempts : attempts[ca].sender = u /\ attempts[ca].overdue}

\* The loop of Update over the users, in the order of their guids.  At most
\* one attempt of a user is timed out by one call.
VisitUser ==
  /\ toStart = <<>>
  /\ \E u \in toVisit :
       LET list == connectionAttempts[u]
           unresponsive(v, peer, ca) ==
             [to |-> v, id |-> "ID_NAT_TARGET_UNRESPONSIVE",
              peer |-> peer, session |-> attempts[ca].sessionId]
       IN /\ \A v \in toVisit : u <= v
          /\ toVisit' = toVisit \ {u}
          /\ \/ \E i \in 1 .. Len(list) :
                  LET r == attempts[list[i]].recipient
                  IN /\ FirstIn(i, list, OverdueFrom(u))
                     /\ sent' = << unresponsive(u, r, list[i]),
                                   unresponsive(r, u, list[i]) >>
                     /\ isReady' = [isReady EXCEPT ![u] = TRUE, ![r] = TRUE]
                     /\ Delete(list[i])
                     /\ toStart' = <<u, r>>
             \/ /\ ToSet(list) \cap OverdueFrom(u) = {}
                /\ sent' = <<>>
                /\ UNCHANGED <<isReady, connectionAttempts, attempts, toStart>>
  /\ UNCHANGED <<users, mostRecentPort, sessionId, closing>>

-----------------------------------------------------------------------------
(* Specification *)

Init ==
  /\ users = {}
  /\ isReady = [g \in Guid |-> FALSE]
  /\ mostRecentPort = [g \in Guid |-> 0]
  /\ connectionAttempts = [g \in Guid |-> <<>>]
  /\ attempts = [ca \in {} |-> <<>>]
  /\ sessionId = 0
  /\ closing = {}
  /\ toVisit = {}
  /\ toStart = <<>>
  /\ sent = <<>>

\* The steps of a handler that has begun.
Continue == LoseAttempt \/ RemoveUser \/ StartAttempt \/ NothingToStart \/ VisitUser

Next ==
  \/ \E g \in Guid : OnNewConnection(g) \/ OnClosedConnection(g) \/ OnClientReady(g)
  \/ \E g, r \in Guid : OnNATPunchthroughRequest(g, r)
  \/ \E g \in Guid, s \in Session, p \in Port : OnGetMostRecentPort(g, s, p)
  \/ \E ca \in DOMAIN attempts : BecomesOverdue(ca)
  \/ Update
  \/ Continue

Spec == Init /\ [][Next]_vars

-----------------------------------------------------------------------------
(* Properties *)

TypeOK ==
  /\ users \subseteq Guid
  /\ isReady \in [Guid -> BOOLEAN]
  /\ mostRecentPort \in [Guid -> Port \cup {0}]
  /\ connectionAttempts \in [Guid -> Seq(Ptr)]
  /\ DOMAIN attempts \subseteq Ptr
  /\ attempts \in [DOMAIN attempts -> Attempt]
  /\ sessionId \in Session
  /\ closing \subseteq users
  /\ toVisit \subseteq users
  /\ toStart \in Seq(Guid)
  /\ sent \in Seq(Message)

\* A ConnectionAttempt is shared by the lists of two users and freed through
\* one of them.  No list ever holds an address that was freed, both endpoints
\* of a live attempt are connected and list it exactly once, and no other
\* user lists it (DeleteConnectionAttempt and DerefConnectionAttempt are
\* always paired, whichever handler ends the attempt).
AttemptsLinked ==
  /\ \A g \in Guid :
       /\ IsInjective(connectionAttempts[g])
       /\ \A ca \in ToSet(connectionAttempts[g]) :
            ca \in DOMAIN attempts /\ Involves(ca, g)
  /\ \A ca \in DOMAIN attempts : \A g \in {attempts[ca].sender, attempts[ca].recipient} :
       g \in users /\ ca \in ToSet(connectionAttempts[g])

\* Two users share at most one attempt, whichever of them asked: what the
\* answer ID_NAT_ALREADY_IN_PROGRESS is for.
OneAttemptPerPair ==
  \A c1, c2 \in DOMAIN attempts :
    {attempts[c1].sender, attempts[c1].recipient}
      = {attempts[c2].sender, attempts[c2].recipient} => c1 = c2

\* The freed-up users OnClosedConnection and Update restart are still there
\* when StartPunchthroughForUser dereferences them.  True of attempts of two
\* users; an attempt of one user with itself (SelfRequests) makes it false.
StartsLiveUsers == ToSet(toStart) \subseteq users

\* No attempt is left waiting while both its ends are ready: every handler
\* that makes a user ready goes on to start what that user waits for.
NoAttemptLeftWaiting ==
  Idle => \A ca \in DOMAIN attempts :
            ~(isReady[attempts[ca].sender] /\ isReady[attempts[ca].recipient])

\* A connected endpoint of an attempt that ends is always told, with the
\* session of that attempt (the 05/28/09 comments in Update and in
\* OnClosedConnection).
EndsAreAnnounced ==
  [][\A ca \in DOMAIN attempts \ DOMAIN attempts' :
       \A g \in {attempts[ca].sender, attempts[ca].recipient} \ closing :
         \E i \in 1 .. Len(sent') : /\ sent'[i].to = g
                                   /\ sent'[i].session = attempts[ca].sessionId]_vars

\* A connected user that stops being ready has just been asked for its port,
\* so it has a session to finish before it is ready again.
NotReadyOnlyWhenAsked ==
  [][\A g \in users \cap users' : isReady[g] /\ ~isReady'[g] =>
       \E i \in 1 .. Len(sent') : /\ sent'[i].to = g
                                 /\ sent'[i].id = "ID_NAT_GET_MOST_RECENT_PORT"]_vars

-----------------------------------------------------------------------------
(* The inductive invariant: what the properties above rest on. *)

\* Without requests to oneself every attempt has two endpoints.
NoSelfAttempt ==
  \A ca \in DOMAIN attempts : attempts[ca].sender # attempts[ca].recipient

\* One handler runs at a time, OnClosedConnection removes one user, and the
\* users it frees are others.
OneHandler ==
  /\ closing # {} => toVisit = {}
  /\ \A g, h \in closing : g = h
  /\ closing \cap ToSet(toStart) = {}

\* NoAttemptLeftWaiting within handlers: two ready ends mean that the running
\* handler has yet to start or to remove one of them.
ReadyPairsAreHandled ==
  \A ca \in DOMAIN attempts :
    isReady[attempts[ca].sender] /\ isReady[attempts[ca].recipient] =>
      {attempts[ca].sender, attempts[ca].recipient}
        \cap (ToSet(toStart) \cup closing) # {}

IInv ==
  /\ TypeOK
  /\ AttemptsLinked
  /\ OneAttemptPerPair
  /\ StartsLiveUsers
  /\ NoSelfAttempt
  /\ OneHandler
  /\ ReadyPairsAreHandled

=============================================================================
