----------------------------- MODULE ReadyEvent -----------------------------
(***************************************************************************)
(* ReadyEvent: peers that wait for each other, each with a list of systems *)
(* to wait for, tell each other when they are set, when all they wait for  *)
(* are set, and when one of them has forced the event to be complete.      *)
(* Events of different ids do not touch each other: this is one of them.   *)
(***************************************************************************)
EXTENDS PeerLinks

CONSTANT ReadyBudgets   \* how often an event is unset, forced, deleted or a system
                        \* removed, and which systems wait for each other at first

VARIABLES
  node,        \* the ReadyEventNode of each system, or NoEvent
  reversals,   \* what is left of the budget
  forgetters,  \* systems that have deleted the event or removed a system from its list
  forcers      \* systems that have forced it to be complete

readyVars == <<linkVars, node, reversals, forgetters, forcers>>

NoEvent == [eventStatus |-> "NO_EVENT"]
Known(p) == node[p] # NoEvent
Waits(p, q) == Known(p) /\ q \in DOMAIN node[p].systemList

Status == {"UNSET", "SET", "ALL_SET", "FORCE_ALL_SET"}   \* ID_READY_EVENT_...

RemoteStatus == [lastSentStatus : Status, lastReceivedStatus : Status \ {"FORCE_ALL_SET"}]
ReadyEventNode ==
  [eventStatus : Status,
   systemList : UNION {[systems -> RemoteStatus] : systems \in SUBSET System}]

ReadyMessage == [id : {"QUERY", "UPDATE"}, eventStatus : Status]

-----------------------------------------------------------------------------
(* Operators on [node, out], an event and what is sent about it to each    *)
(* system.                                                                 *)

Waiting(s) == DOMAIN s.node.systemList

NewSystem == [lastSentStatus |-> "UNSET", lastReceivedStatus |-> "UNSET"]

EventNode(status, systems) == [eventStatus |-> status, systemList |-> [q \in systems |-> NewSystem]]

At(p) == [node |-> node[p], out |-> Nothing]
Created(p, status) == IF Known(p) THEN At(p) ELSE [node |-> EventNode(status, {}), out |-> Nothing]

Query == [id |-> "QUERY", eventStatus |-> "UNSET"]
Update(status) == [id |-> "UPDATE", eventStatus |-> status]

\* A status that was sent before is sent again only if that is asked for and the
\* receiver cannot take it for granted.
SendReadyUpdate(s, q, forceIfNotDefault) ==
  LET status == s.node.eventStatus
  IN IF status # s.node.systemList[q].lastSentStatus \/ (forceIfNotDefault /\ status # "UNSET")
     THEN [s EXCEPT !.node.systemList[q].lastSentStatus = status,
                    !.out[q] = Append(@, Update(status))]
     ELSE s

\* SendReadyUpdate to each system that is waited for.
BroadcastReadyUpdate(s) ==
  LET status == s.node.eventStatus
      IsNews(q) == q \in Waiting(s) /\ status # s.node.systemList[q].lastSentStatus
  IN [node |-> [s.node EXCEPT !.systemList =
                  [q \in Waiting(s) |-> [@[q] EXCEPT !.lastSentStatus = status]]],
      out |-> [q \in System |-> IF IsNews(q) THEN Append(s.out[q], Update(status)) ELSE s.out[q]]]

AnyUnset(s) == \E q \in Waiting(s) : s.node.systemList[q].lastReceivedStatus = "UNSET"

\* A set event is all set when nobody it waits for is known to be unset.
UpdateReadyStatus(s) ==
  BroadcastReadyUpdate(
    IF s.node.eventStatus \in {"SET", "ALL_SET"}
    THEN [s EXCEPT !.node.eventStatus = IF AnyUnset(s) THEN "SET" ELSE "ALL_SET"]
    ELSE s)

IsEventCompleted(n) ==
  \/ n.eventStatus = "FORCE_ALL_SET"
  \/ /\ n.eventStatus = "ALL_SET"
     /\ \A q \in DOMAIN n.systemList : n.systemList[q].lastReceivedStatus = "ALL_SET"

\* Those that are new are sent a query (SendReadyStateQuery).
AddToWaitListInternal(s, added) ==
  LET new == added \ Waiting(s)
  IN [node |-> [s.node EXCEPT !.systemList =
                  [q \in DOMAIN @ \cup new |-> IF q \in new THEN NewSystem ELSE @[q]]],
      out |-> [q \in System |-> IF q \in new THEN Append(s.out[q], Query) ELSE s.out[q]]]

Without(s, gone) ==
  [s EXCEPT !.node.systemList = [r \in DOMAIN @ \ gone |-> @[r]]]

-----------------------------------------------------------------------------
(* Steps: calls of the application and handlers *)

Now(p, s) == node' = [node EXCEPT ![p] = s.node]

Called(p, s) == Now(p, s) /\ PassesUnasked(p, s.out)
Answered(p, q, s) ==
  Now(p, s) /\ PassesAfter(p, q, s.out) /\ UNCHANGED <<reversals, forgetters, forcers>>

Reverses(kind) ==
  reversals[kind] > 0 /\ reversals' = [reversals EXCEPT ![kind] = @ - 1]

\* An event that is created set is not all set until its list changes.
SetEvent(p, isReady) ==
  /\ IF ~Known(p) THEN Called(p, Created(p, IF isReady THEN "SET" ELSE "UNSET"))
     ELSE /\ node[p].eventStatus \in IF isReady THEN {"UNSET"} ELSE {"SET", "ALL_SET"}
          /\ Called(p, UpdateReadyStatus(
               [At(p) EXCEPT !.node.eventStatus = IF isReady THEN "SET" ELSE "UNSET"]))
  /\ IF isReady \/ ~Known(p) THEN UNCHANGED reversals ELSE Reverses("unset")
  /\ UNCHANGED <<forgetters, forcers>>

ForceCompletion(p) ==
  /\ Called(p, UpdateReadyStatus([Created(p, "SET") EXCEPT !.node.eventStatus = "FORCE_ALL_SET"]))
  /\ Reverses("force") /\ forcers' = forcers \cup {p} /\ UNCHANGED forgetters

DeleteEvent(p) ==
  /\ Known(p)
  /\ node' = [node EXCEPT ![p] = NoEvent]
  /\ Reverses("forget") /\ forgetters' = forgetters \cup {p}
  /\ UNCHANGED <<linkVars, forcers>>

\* Of one system or all that are connected, as far as their loss, if they were
\* lost before, was noticed.
AddToWaitList(p) ==
  LET connected == {q \in System : Linked(p, q) /\ \A i \in DOMAIN inbox[p][q] :
                                      inbox[p][q][i].id # "CLOSED_CONNECTION"}
  IN \E added \in {{q} : q \in connected} \cup {connected} :
       /\ added \ Waiting(Created(p, "UNSET")) # {}
       /\ Called(p, UpdateReadyStatus(AddToWaitListInternal(Created(p, "UNSET"), added)))
  /\ UNCHANGED <<reversals, forgetters, forcers>>

\* One system, or all of them.
RemoveFromWaitList(p) ==
  /\ Known(p) /\ Waiting(At(p)) # {}
  /\ \E gone \in {{q} : q \in Waiting(At(p))} \cup {Waiting(At(p))} :
       Called(p, UpdateReadyStatus(Without(At(p), gone)))
  /\ Reverses("forget") /\ forgetters' = forgetters \cup {p}
  /\ UNCHANGED forcers

\* Nothing is known of a system that is not waited for.
OnReadyEventPacketUpdate(p, q) ==
  /\ HasNext(p, q, "UPDATE") /\ Head(inbox[p][q]).eventStatus # "FORCE_ALL_SET"
  /\ LET status == Head(inbox[p][q]).eventStatus
         s == [At(p) EXCEPT !.node.systemList[q].lastReceivedStatus = status]
     IN Answered(p, q,
          IF ~Known(p) \/ q \notin Waiting(At(p)) THEN At(p)
          ELSE IF node[p].systemList[q].lastReceivedStatus = status THEN At(p)
          ELSE IF node[p].eventStatus = "FORCE_ALL_SET" THEN s
          ELSE UpdateReadyStatus(s))

\* Mutant: a forced completion is taken for an update of the sender's status.
ForcedAsUpdate(p, q) ==
  /\ HasNext(p, q, "UPDATE") /\ Head(inbox[p][q]).eventStatus = "FORCE_ALL_SET"
  /\ Answered(p, q,
       IF Known(p) /\ q \in Waiting(At(p))
       THEN UpdateReadyStatus([At(p) EXCEPT !.node.systemList[q].lastReceivedStatus = "FORCE_ALL_SET"])
       ELSE At(p))

\* From whomever it comes, and it is not passed on.
OnReadyEventForceAllSet(p, q) ==
  /\ HasNext(p, q, "UPDATE") /\ Head(inbox[p][q]).eventStatus = "FORCE_ALL_SET"
  /\ Answered(p, q, IF Known(p) THEN [At(p) EXCEPT !.node.eventStatus = "FORCE_ALL_SET"] ELSE At(p))

\* Mutant: a status that was sent before is not sent again when it is asked for.
AnswerOnlyNews(p, q) ==
  /\ HasNext(p, q, "QUERY")
  /\ Answered(p, q, IF Known(p) /\ q \in Waiting(At(p)) THEN SendReadyUpdate(At(p), q, FALSE) ELSE At(p))

OnReadyEventQuery(p, q) ==
  /\ HasNext(p, q, "QUERY")
  /\ Answered(p, q, IF Known(p) /\ q \in Waiting(At(p)) THEN SendReadyUpdate(At(p), q, TRUE) ELSE At(p))

\* RemoveFromAllLists
ReadyOnClosedConnection(p, q) ==
  /\ HasNext(p, q, "CLOSED_CONNECTION")
  /\ Answered(p, q, IF Known(p) THEN UpdateReadyStatus(Without(At(p), {q})) ELSE At(p))

ReadyOnNewConnection(p, q) ==
  HasNext(p, q, "NEW_CONNECTION") /\ Answered(p, q, At(p))

ReadyInit ==
  /\ reversals \in ReadyBudgets
  /\ node = [p \in System |->
       LET others == {q \in System \ {p} : Pair(p, q) \subseteq reversals.waiting}
       IN IF others = {} THEN NoEvent ELSE EventNode("UNSET", others)]
  /\ forgetters = {} /\ forcers = {}

ReadyNext ==
  \/ \E p \in System :
       \/ \E isReady \in BOOLEAN : SetEvent(p, isReady)
       \/ ForceCompletion(p) \/ DeleteEvent(p)
       \/ AddToWaitList(p) \/ RemoveFromWaitList(p)
  \/ \E p \in System : \E q \in Senders(p) :
       \/ OnReadyEventPacketUpdate(p, q) \/ OnReadyEventForceAllSet(p, q)
       \/ OnReadyEventQuery(p, q)
       \/ ReadyOnClosedConnection(p, q) \/ ReadyOnNewConnection(p, q)
  \/ LinksChange /\ UNCHANGED <<node, reversals, forgetters, forcers>>

\* Systems that wait for each other at first are connected.
ReadySpec ==
  /\ ReadyInit
  /\ \E pairs \in SUBSET AllPairs :
       /\ LinksInit(pairs, [connects : Nat, breaks : Nat])
       /\ \A p, q \in System : Waits(p, q) => Linked(p, q)
  /\ [][ReadyNext]_readyVars

-----------------------------------------------------------------------------
(* Properties *)

\* An event has a status and keeps that of every other system that is waited for.
ReadyTypeOK ==
  /\ LinksTypeOK(ReadyMessage)
  /\ node \in [System -> ReadyEventNode \cup {NoEvent}]
  /\ \A p \in System : ~Waits(p, p)
  /\ forgetters \subseteq System /\ forcers \subseteq System

\* p waits for q and q for p.
Mutual(p, q) == Waits(p, q) /\ Waits(q, p)

\* What p believes of a system that waits for it is so, when nothing is under
\* way between the two.  Left out is a system that has deleted the event or
\* removed a system from its list: it begins with the other at UNSET, and does
\* not tell the other that it is no longer set.
StatusesAgree ==
  \A p, q \in System :
    Mutual(p, q) /\ QuietBetween(p, q) /\ q \notin forgetters
      /\ node[q].eventStatus # "FORCE_ALL_SET" =>
      node[p].systemList[q].lastReceivedStatus = node[q].eventStatus

\* A group of systems that all wait for each other and have heard of each other.
SettledGroup(group) ==
  /\ Cardinality(group) > 1 /\ group \cap forgetters = {}
  /\ \A p \in group :
       /\ Known(p) /\ DOMAIN node[p].systemList = group \ {p}
       /\ \A q \in group : inbox[p][q] = <<>>

\* "This plugin uses two stages to solve that problem, first, everyone I know
\* about is ready.  Second, everyone I know about is ready to everyone they know
\* about": whatever the systems were told in which order, when a group that waits
\* for each other has heard of everything, the event is completed for all of them
\* if one of them has forced it; and if no forcing has reached them it is completed
\* for each just when all have set it.  Left out is a system that was forced by one
\* outside of the group, for a system does not pass on that it was forced.
EventsAgree ==
  /\ StatusesAgree
  /\ \A group \in SUBSET System : SettledGroup(group) =>
       LET forced == {p \in group : node[p].eventStatus = "FORCE_ALL_SET"}
       IN /\ group \cap forcers # {} => forced = group
          /\ forced = {} =>
               \A p \in group : IsEventCompleted(node[p])
                                  <=> \A q \in group : node[q].eventStatus # "UNSET"

-----------------------------------------------------------------------------
(* The inductive invariant *)

Has(queue, m) == \E i \in 1 .. Len(queue) : queue[i] = m

\* A system that waits for another is connected with it or has yet to notice the
\* loss, which is the last it hears of it.
WaitsForConnected(p, q) ==
  /\ Waits(p, q) => Linked(p, q) \/ inbox[p][q] # <<>>
  /\ Has(inbox[p][q], Notice("CLOSED_CONNECTION")) => ~Linked(p, q)
  /\ ~Linked(p, q) /\ inbox[p][q] # <<>> =>
       inbox[p][q][Len(inbox[p][q])] = Notice("CLOSED_CONNECTION")

\* What q was sent last is p's status; one that is set and not all set knows of one
\* that is unset; and what is forced stays so and is told to all.
OwnEventAgrees(p) ==
  /\ Known(p) /\ node[p].eventStatus # "FORCE_ALL_SET" =>
       \A q \in DOMAIN node[p].systemList :
         node[p].systemList[q].lastSentStatus = node[p].eventStatus
  /\ Known(p) /\ node[p].eventStatus = "SET" /\ DOMAIN node[p].systemList # {} =>
       AnyUnset(At(p))
  /\ p \in forcers \ forgetters =>
       /\ Known(p) /\ node[p].eventStatus = "FORCE_ALL_SET"
       /\ \A q \in DOMAIN node[p].systemList :
            node[p].systemList[q].lastSentStatus = "FORCE_ALL_SET"

HasUpdate(queue) == \E i \in 1 .. Len(queue) : queue[i].id = "UPDATE"

LastUpdateIs(queue, m) ==
  \A i \in 1 .. Len(queue) : queue[i].id = "UPDATE" =>
    queue[i] = m \/ \E j \in i + 1 .. Len(queue) : queue[j].id = "UPDATE"

\* What is under way of q's status: nothing of a system that does not wait, and
\* the last is what it is, which p believes when it has handled it.  A system that
\* was added again believes UNSET and has asked.
NewsAgree(p, q) ==
  Linked(p, q) /\ q \notin forgetters =>
    /\ Has(inbox[p][q], Update("FORCE_ALL_SET")) =>
         Known(q) /\ node[q].eventStatus = "FORCE_ALL_SET"
    /\ ~Waits(q, p) =>
         /\ ~HasUpdate(inbox[p][q])
         /\ Waits(p, q) => node[p].systemList[q].lastReceivedStatus = "UNSET"
    /\ Waits(q, p) /\ node[q].eventStatus # "FORCE_ALL_SET" =>
         /\ LastUpdateIs(inbox[p][q], Update(node[q].eventStatus))
         /\ \/ ~Waits(p, q) \/ HasUpdate(inbox[p][q])
            \/ node[p].systemList[q].lastReceivedStatus = node[q].eventStatus
            \/ Has(inbox[q][p], Query) /\ node[p].systemList[q].lastReceivedStatus = "UNSET"

\* A system that q was told of being forced is forced, or is asked for, or is told.
ForceArrives(p, q) ==
  Linked(p, q) /\ p \notin forgetters /\ Mutual(p, q)
    /\ node[q].systemList[p].lastSentStatus = "FORCE_ALL_SET" =>
      \/ node[p].eventStatus = "FORCE_ALL_SET"
      \/ Has(inbox[p][q], Update("FORCE_ALL_SET"))
      \/ Has(inbox[q][p], Query)

ReadyIInv ==
  /\ ReadyTypeOK
  /\ \A p \in System : OwnEventAgrees(p)
  /\ \A p \in System : \A q \in System \ {p} :
       WaitsForConnected(p, q) /\ NewsAgree(p, q) /\ ForceArrives(p, q)

=============================================================================
