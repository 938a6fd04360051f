---------------------------- MODULE Peers_proofs ----------------------------
(***************************************************************************)
(* What holds of ReadyEvent, of FullyConnectedMesh2 and of                 *)
(* TwoWayAuthentication for any number of systems, whatever their          *)
(* applications call and whichever connections are made and lost.          *)
(***************************************************************************)
EXTENDS ReadyEvent, FullyConnectedMesh2, TwoWayAuthentication, FiniteSetTheorems, SequenceTheorems,
        WellFoundedInduction, TLAPS

-----------------------------------------------------------------------------
(* Queues *)

\* What a queue has after a message is sent.
LEMMA AppendFacts ==
  ASSUME NEW M, NEW queue \in Seq(M), NEW m \in M
  PROVE  /\ \A x : Has(Append(queue, m), x) <=> Has(queue, x) \/ m = x
         /\ HasUpdate(Append(queue, m)) <=> HasUpdate(queue) \/ m.id = "UPDATE"
         /\ m.id # "UPDATE" =>
              \A x : LastUpdateIs(queue, x) => LastUpdateIs(Append(queue, m), x)
         /\ m.id = "UPDATE" => LastUpdateIs(Append(queue, m), m)
         /\ Append(queue, m) \in Seq(M) /\ Append(queue, m) # <<>>
         /\ queue \o <<>> = queue /\ queue \o <<m>> = Append(queue, m)
         /\ \A n \in M : queue \o <<m, n>> = Append(Append(queue, m), n)
<1> DEFINE long == Append(queue, m)
<1>1. /\ Len(long) = Len(queue) + 1 /\ long[Len(long)] = m
      /\ \A i \in 1 .. Len(queue) : long[i] = queue[i]
      /\ Len(queue) \in Nat /\ long \in Seq(M) /\ long # <<>>
  OBVIOUS
<1>2. /\ queue \o <<>> = queue /\ queue \o <<m>> = Append(queue, m)
      /\ \A n \in M : queue \o <<m, n>> = Append(Append(queue, m), n)
  OBVIOUS
<1> HIDE DEF long
<1>3. \A i \in 1 .. Len(long) : i \in 1 .. Len(queue) \/ i = Len(long)
  BY <1>1
<1>4. \A x : Has(long, x) <=> Has(queue, x) \/ m = x
  BY <1>1, <1>3 DEF Has
<1>5. HasUpdate(long) <=> HasUpdate(queue) \/ m.id = "UPDATE"
  BY <1>1, <1>3 DEF HasUpdate
<1>6. m.id # "UPDATE" => \A x : LastUpdateIs(queue, x) => LastUpdateIs(long, x)
  BY <1>1, <1>3 DEF LastUpdateIs
<1>7. m.id = "UPDATE" => LastUpdateIs(long, m)
  BY <1>1, <1>3 DEF LastUpdateIs
<1>. QED BY <1>1, <1>2, <1>4, <1>5, <1>6, <1>7 DEF long

\* What a queue has before and after its first message is handled.
LEMMA TailFacts ==
  ASSUME NEW M, NEW queue \in Seq(M), queue # <<>>
  PROVE  /\ \A x : Has(queue, x) <=> Head(queue) = x \/ Has(Tail(queue), x)
         /\ HasUpdate(queue) <=> Head(queue).id = "UPDATE" \/ HasUpdate(Tail(queue))
         /\ \A x : LastUpdateIs(queue, x) =>
              /\ LastUpdateIs(Tail(queue), x)
              /\ Head(queue).id = "UPDATE" /\ ~HasUpdate(Tail(queue)) => Head(queue) = x
         /\ Tail(queue) \in Seq(M) /\ Head(queue) \in M
         /\ \A x : queue[Len(queue)] = x =>
              \/ Tail(queue) = <<>> /\ Head(queue) = x
              \/ Tail(queue) # <<>> /\ Tail(queue)[Len(Tail(queue))] = x
<1> DEFINE short == Tail(queue)
<1>1. /\ Len(short) = Len(queue) - 1 /\ Len(queue) \in Nat \ {0} /\ Head(queue) = queue[1]
      /\ \A i \in 1 .. Len(short) : short[i] = queue[i + 1]
      /\ short \in Seq(M) /\ Head(queue) \in M
  OBVIOUS
<1> HIDE DEF short
<1>2. short # <<>> <=> Len(short) > 0
  BY <1>1
<1>3. \A i \in 1 .. Len(queue) : i = 1 \/ (i - 1 \in 1 .. Len(short) /\ queue[i] = short[i - 1])
  BY <1>1
<1>4. \A i \in 1 .. Len(short) : i + 1 \in 1 .. Len(queue)
  BY <1>1
<1>5. ASSUME NEW x PROVE Has(queue, x) <=> Head(queue) = x \/ Has(short, x)
  <2>1. Has(queue, x) => Head(queue) = x \/ Has(short, x)
    BY <1>1, <1>3 DEF Has
  <2>2. Head(queue) = x => Has(queue, x)
    BY <1>1 DEF Has
  <2>3. Has(short, x) => Has(queue, x)
    BY <1>1, <1>4 DEF Has
  <2>. QED BY <2>1, <2>2, <2>3
<1>6. HasUpdate(queue) <=> Head(queue).id = "UPDATE" \/ HasUpdate(short)
  BY <1>1, <1>3, <1>4 DEF HasUpdate
<1>7. ASSUME NEW x, LastUpdateIs(queue, x)
      PROVE  /\ LastUpdateIs(short, x)
             /\ Head(queue).id = "UPDATE" /\ ~HasUpdate(short) => Head(queue) = x
  <2>1. ASSUME NEW i \in 1 .. Len(short), short[i].id = "UPDATE", short[i] # x
        PROVE  \E j \in i + 1 .. Len(short) : short[j].id = "UPDATE"
    <3>1. PICK k \in i + 2 .. Len(queue) : queue[k].id = "UPDATE"
      BY <1>1, <1>4, <1>7, <2>1 DEF LastUpdateIs
    <3>. QED BY <1>1, <3>1, <1>3
  <2>2. ASSUME Head(queue).id = "UPDATE", ~HasUpdate(short), Head(queue) # x PROVE FALSE
    <3>1. PICK k \in 2 .. Len(queue) : queue[k].id = "UPDATE"
      BY <1>1, <1>7, <2>2 DEF LastUpdateIs
    <3>. QED BY <1>1, <1>3, <2>2, <3>1 DEF HasUpdate
  <2>. QED BY <2>1, <2>2 DEF LastUpdateIs
<1>8. \A x : queue[Len(queue)] = x =>
        \/ short = <<>> /\ Head(queue) = x
        \/ short # <<>> /\ short[Len(short)] = x
  BY <1>1, <1>2
<1>. QED BY <1>1, <1>5, <1>6, <1>7, <1>8 DEF short

-----------------------------------------------------------------------------
(* Events *)

\* What an event is made of.
LEMMA NodeFacts ==
  /\ \A n \in ReadyEventNode :
       /\ n = [eventStatus |-> n.eventStatus, systemList |-> n.systemList]
       /\ n.eventStatus \in Status /\ DOMAIN n.systemList \subseteq System
       /\ n.systemList \in [DOMAIN n.systemList -> RemoteStatus]
       /\ n # NoEvent
  /\ \A status \in Status, systems \in SUBSET System : \A list \in [systems -> RemoteStatus] :
       [eventStatus |-> status, systemList |-> list] \in ReadyEventNode
<1>1. ASSUME NEW n \in ReadyEventNode
      PROVE  /\ n = [eventStatus |-> n.eventStatus, systemList |-> n.systemList]
             /\ n.eventStatus \in Status /\ DOMAIN n.systemList \subseteq System
             /\ n.systemList \in [DOMAIN n.systemList -> RemoteStatus]
             /\ n # NoEvent
  <2>1. PICK systems \in SUBSET System : n.systemList \in [systems -> RemoteStatus]
    BY DEF ReadyEventNode
  <2>. QED BY <2>1 DEF ReadyEventNode, NoEvent, Status
<1>. QED BY <1>1 DEF ReadyEventNode

\* What UpdateReadyStatus leaves: the list, what was received, and a status that was sent
\* to all, which is SET only if somebody is unset.
LEMMA UpdatedFacts ==
  ASSUME NEW s, s = [node |-> s.node, out |-> s.out], s.node \in ReadyEventNode
  PROVE  LET t == UpdateReadyStatus(s)
         IN /\ t.node \in ReadyEventNode
            /\ Waiting(t) = Waiting(s)
            /\ \A q \in Waiting(s) :
                 /\ t.node.systemList[q].lastReceivedStatus = s.node.systemList[q].lastReceivedStatus
                 /\ t.node.systemList[q].lastSentStatus = t.node.eventStatus
            /\ \/ s.node.eventStatus \notin {"SET", "ALL_SET"} /\ t.node.eventStatus = s.node.eventStatus
               \/ s.node.eventStatus \in {"SET", "ALL_SET"} /\ t.node.eventStatus = "SET" /\ AnyUnset(t)
               \/ s.node.eventStatus \in {"SET", "ALL_SET"} /\ t.node.eventStatus = "ALL_SET"
            /\ \A q \in System :
                 t.out[q] = IF q \in Waiting(s) /\ t.node.eventStatus # s.node.systemList[q].lastSentStatus
                            THEN Append(s.out[q], Update(t.node.eventStatus)) ELSE s.out[q]
<1> DEFINE t == UpdateReadyStatus(s)
           list == s.node.systemList
           status == IF s.node.eventStatus \in {"SET", "ALL_SET"}
                     THEN IF AnyUnset(s) THEN "SET" ELSE "ALL_SET"
                     ELSE s.node.eventStatus
           new == [q \in DOMAIN list |-> [list[q] EXCEPT !.lastSentStatus = status]]
<1>1. /\ s.node = [eventStatus |-> s.node.eventStatus, systemList |-> list]
      /\ s.node.eventStatus \in Status /\ DOMAIN list \subseteq System
      /\ list \in [DOMAIN list -> RemoteStatus]
  BY NodeFacts
<1>2. status \in Status
  BY <1>1 DEF Status
<1> DEFINE u == IF s.node.eventStatus \in {"SET", "ALL_SET"}
                THEN [s EXCEPT !.node.eventStatus = IF AnyUnset(s) THEN "SET" ELSE "ALL_SET"]
                ELSE s
<1>3. u.node = [eventStatus |-> status, systemList |-> list] /\ u.out = s.out
  BY <1>1
<1>4. /\ t.node = [eventStatus |-> status, systemList |-> new]
      /\ t.out = [q \in System |->
           IF q \in DOMAIN list /\ status # list[q].lastSentStatus
           THEN Append(s.out[q], Update(status)) ELSE s.out[q]]
  <2>1. t = BroadcastReadyUpdate(u)
    BY DEF UpdateReadyStatus
  <2> HIDE DEF u, status
  <2>. QED BY <1>3, <2>1 DEF BroadcastReadyUpdate, Waiting
<1> HIDE DEF t, status
<1>5. /\ new \in [DOMAIN list -> RemoteStatus]
      /\ \A q \in DOMAIN list : /\ new[q].lastReceivedStatus = list[q].lastReceivedStatus
                                /\ new[q].lastSentStatus = status
  BY <1>1, <1>2 DEF RemoteStatus
<1>6. AnyUnset(t) <=> AnyUnset(s)
  BY <1>4, <1>5 DEF AnyUnset, Waiting
<1>7. t.node \in ReadyEventNode
  <2> HIDE DEF new, list
  <2>1. \A l \in [DOMAIN list -> RemoteStatus] :
          [eventStatus |-> status, systemList |-> l] \in ReadyEventNode
    BY <1>1, <1>2, NodeFacts
  <2>. QED BY <1>4, <1>5, <2>1
<1>8. \/ s.node.eventStatus \notin {"SET", "ALL_SET"} /\ status = s.node.eventStatus
      \/ s.node.eventStatus \in {"SET", "ALL_SET"} /\ status = "SET" /\ AnyUnset(s)
      \/ s.node.eventStatus \in {"SET", "ALL_SET"} /\ status = "ALL_SET"
  BY DEF status
<1>. QED BY <1>4, <1>5, <1>6, <1>7, <1>8 DEF Waiting, t

-----------------------------------------------------------------------------
(* Steps *)

Handled == ReadyMessage \cup {Notice("NEW_CONNECTION"), Notice("CLOSED_CONNECTION")}
Closed == Notice("CLOSED_CONNECTION")
Forced == "FORCE_ALL_SET"

\* Queries, updates and notices differ.
LEMMA Kinds ==
  /\ Query \in Handled /\ Query.id = "QUERY" /\ Query # Closed
  /\ \A status \in Status : /\ Update(status) \in Handled /\ Update(status).id = "UPDATE"
                            /\ Update(status).eventStatus = status
                            /\ Update(status) # Closed /\ Update(status) # Query
  /\ \A m \in Handled : m.id = "UPDATE" =>
       m = Update(m.eventStatus) /\ m.eventStatus \in Status
  /\ Forced \in Status /\ "UNSET" \in Status
BY DEF Handled, Closed, ReadyMessage, Query, Update, Notice, Status, Forced

\* What is sent to a system in one step.
LEMMA SentFacts ==
  ASSUME NEW queue \in Seq(Handled), NEW status \in Status
  PROVE  LET told == queue \o <<Update(status)>>
             asked == queue \o <<Query>>
             both == queue \o <<Query, Update(status)>>
         IN /\ \A x : Has(told, x) <=> Has(queue, x) \/ x = Update(status)
            /\ \A x : Has(asked, x) <=> Has(queue, x) \/ x = Query
            /\ \A x : Has(both, x) <=> Has(queue, x) \/ x = Query \/ x = Update(status)
            /\ HasUpdate(told) /\ HasUpdate(both) /\ (HasUpdate(asked) <=> HasUpdate(queue))
            /\ LastUpdateIs(told, Update(status)) /\ LastUpdateIs(both, Update(status))
            /\ queue \o <<>> = queue
<1>1. Query \in Handled /\ Update(status) \in Handled
      /\ Query.id # "UPDATE" /\ Update(status).id = "UPDATE"
  BY Kinds
<1> DEFINE asked == Append(queue, Query)
<1>2. /\ queue \o <<Update(status)>> = Append(queue, Update(status)) /\ queue \o <<>> = queue
      /\ \A x : Has(Append(queue, Update(status)), x) <=> Has(queue, x) \/ x = Update(status)
      /\ HasUpdate(Append(queue, Update(status)))
      /\ LastUpdateIs(Append(queue, Update(status)), Update(status))
  BY <1>1, AppendFacts
<1>3. /\ queue \o <<Query>> = asked
      /\ queue \o <<Query, Update(status)>> = Append(asked, Update(status))
      /\ \A x : Has(asked, x) <=> Has(queue, x) \/ x = Query
      /\ HasUpdate(asked) <=> HasUpdate(queue)
      /\ asked \in Seq(Handled)
  BY <1>1, AppendFacts
<1> HIDE DEF asked
<1>4. /\ \A x : Has(Append(asked, Update(status)), x) <=> Has(asked, x) \/ x = Update(status)
      /\ HasUpdate(Append(asked, Update(status)))
      /\ LastUpdateIs(Append(asked, Update(status)), Update(status))
  BY <1>1, <1>3, AppendFacts
<1>. QED BY <1>2, <1>3, <1>4

\* A queue without an update has nothing to be the last.
LEMMA NoUpdateFacts ==
  ASSUME NEW queue, ~HasUpdate(queue) PROVE \A x : LastUpdateIs(queue, x)
BY DEF HasUpdate, LastUpdateIs

StatusOf(p) == node[p].eventStatus
Entry(p, q) == node[p].systemList[q]

\* One is that an update is sent, with or without a query.
LEMMA ToldFacts ==
  ASSUME NEW queue \in Seq(Handled), NEW status \in Status, NEW long,
         \/ long = queue \o <<Update(status)>>
         \/ long = queue \o <<Query, Update(status)>>
  PROVE  /\ HasUpdate(long) /\ LastUpdateIs(long, Update(status)) /\ Has(long, Update(status))
         /\ \A x : Has(long, x) => Has(queue, x) \/ x = Query \/ x = Update(status)
<1>1. CASE long = queue \o <<Update(status)>>
  BY <1>1, SentFacts
<1>2. CASE long = queue \o <<Query, Update(status)>>
  BY <1>2, SentFacts
<1>. QED BY <1>1, <1>2

News(p, q) ==
  /\ Has(inbox[p][q], Update(Forced)) => Known(q) /\ StatusOf(q) = Forced
  /\ ~Waits(q, p) =>
       /\ ~HasUpdate(inbox[p][q])
       /\ Waits(p, q) => Entry(p, q).lastReceivedStatus = "UNSET"
  /\ Waits(q, p) /\ StatusOf(q) # Forced =>
       /\ LastUpdateIs(inbox[p][q], Update(StatusOf(q)))
       /\ \/ ~Waits(p, q) \/ HasUpdate(inbox[p][q])
          \/ Entry(p, q).lastReceivedStatus = StatusOf(q)
          \/ Has(inbox[q][p], Query) /\ Entry(p, q).lastReceivedStatus = "UNSET"

\* NewsAgree, with names for what it reads.
LEMMA NewsFacts ==
  ASSUME NEW p, NEW q
  PROVE  /\ NewsAgree(p, q) <=> (Linked(p, q) /\ q \notin forgetters => News(p, q))
         /\ NewsAgree(p, q)' <=> (Linked(p, q)' /\ q \notin forgetters' => News(p, q)')
BY DEF NewsAgree, News, Entry, StatusOf, Forced

\* What becomes of q in r's list, and what q is sent.
Deals(r, q, sent) ==
  \/ /\ Waits(r, q) /\ Waits(r, q)'
     /\ \/ /\ sent = <<>> /\ UNCHANGED Entry(r, q).lastSentStatus
           /\ StatusOf(r)' \in {StatusOf(r), Forced}
        \/ sent = <<Update(StatusOf(r)')>> /\ Entry(r, q)'.lastSentStatus = StatusOf(r)'
  \/ /\ ~Waits(r, q) /\ Waits(r, q)' /\ Linked(r, q)
     /\ Entry(r, q)'.lastReceivedStatus = "UNSET"
     /\ \/ /\ sent = <<Query>>
           /\ StatusOf(r)' = "UNSET" /\ Entry(r, q)'.lastSentStatus = "UNSET"
        \/ sent = <<Query, Update(StatusOf(r)')>> /\ Entry(r, q)'.lastSentStatus = StatusOf(r)'
  \/ /\ ~Waits(r, q)' /\ sent = <<>>
     /\ Waits(r, q) => r \in forgetters' \/ ~Linked(r, q)

\* What comes of the message of q's that r has handled.
Learns(r, q, sent) ==
  LET m == Head(inbox[r][q])
  IN /\ Waits(r, q) /\ Waits(r, q)' =>
          \/ /\ m.id = "UPDATE"
             /\ Entry(r, q)'.lastReceivedStatus = m.eventStatus \/ m.eventStatus = Forced
          \/ m.id # "UPDATE" /\ UNCHANGED Entry(r, q).lastReceivedStatus
     /\ m = Update(Forced) /\ Known(r) => StatusOf(r)' = Forced
     /\ m = Query /\ Waits(r, q) /\ StatusOf(r) # "UNSET" => sent = <<Update(StatusOf(r)')>>
     /\ m = Closed => ~Waits(r, q)'

Hears(r, q, sent) ==
  \/ /\ inbox'[r][q] = inbox[r][q]
     /\ Waits(r, q) /\ Waits(r, q)' => UNCHANGED Entry(r, q).lastReceivedStatus
  \/ inbox[r][q] # <<>> /\ inbox'[r][q] = Tail(inbox[r][q]) /\ Learns(r, q, sent)

Others(r) == System \ {r}

StepOf(r, out) ==
  /\ UNCHANGED linked
  /\ \A q \in Others(r) :
       /\ node'[q] = node[q]
       /\ inbox'[q][r] = IF Linked(q, r) THEN inbox[q][r] \o out[q] ELSE inbox[q][r]
       /\ \A p \in Others(r) : inbox'[q][p] = inbox[q][p]
  /\ forgetters' \in {forgetters, forgetters \cup {r}}
  /\ forcers' \in {forcers, forcers \cup {r}}
  /\ r \notin forgetters' /\ Known(r) =>
       Known(r)' /\ (StatusOf(r) = Forced => StatusOf(r)' = Forced)
  /\ \A q \in Others(r) : Deals(r, q, out[q]) /\ Hears(r, q, out[q])

\* A step of q keeps what is so of q's news for p.
LEMMA SpeakerKeeps ==
  ASSUME ReadyIInv, ReadyTypeOK', NEW q \in System, NEW p \in Others(q), NEW out, StepOf(q, out)
  PROVE  NewsAgree(p, q)' /\ ForceArrives(p, q)'
<1> DEFINE queue == inbox[p][q]
           asked == inbox[q][p]
           sent == out[p]
<1>1. /\ p # q /\ p \in System /\ NewsAgree(p, q) /\ ForceArrives(p, q) /\ OwnEventAgrees(q)
      /\ queue \in Seq(Handled) /\ asked \in Seq(Handled)
  BY DEF ReadyIInv, ReadyTypeOK, LinksTypeOK, Others, Handled
<1>2. /\ linked' = linked /\ node'[p] = node[p]
      /\ (Waits(p, q)' <=> Waits(p, q)) /\ (Known(p)' <=> Known(p))
      /\ inbox'[p][q] = IF Linked(p, q) THEN queue \o sent ELSE queue
      /\ Deals(q, p, sent) /\ Hears(q, p, sent)
      /\ p \in forgetters' <=> p \in forgetters
      /\ q \notin forgetters' => q \notin forgetters
      /\ q \notin forgetters' /\ Known(q) =>
           Known(q)' /\ (StatusOf(q) = Forced => StatusOf(q)' = Forced)
  BY <1>1 DEF StepOf, Others, Waits, Known
<1>3. Waits(q, p)' => StatusOf(q)' \in Status
  BY NodeFacts DEF ReadyTypeOK, Waits, Known, StatusOf
<1>4. Linked(p, q)' <=> Linked(p, q)
  BY <1>2 DEF Linked
<1>5. Waits(q, p)' => Known(q)'
  BY DEF Waits
<1>6. \A x : Has(asked, x) => Has(inbox'[q][p], x) \/ (asked # <<>> /\ Head(asked) = x)
  BY <1>1, <1>2, TailFacts DEF Hears, Learns
<1> HIDE DEF queue, asked, sent
<1>7. ASSUME Linked(p, q), q \notin forgetters'
      PROVE  News(p, q)'
  <2>1. inbox'[p][q] = queue \o sent /\ (Waits(q, p) => Known(q))
        /\ q \notin forgetters
    BY <1>2, <1>7 DEF Waits
  <2>2. News(p, q)
    BY <1>1, <1>7, <2>1, NewsFacts
  <2>3. Entry(p, q)' = Entry(p, q)
    BY <1>2 DEF Entry
  <2>4. CASE ~Waits(q, p)' /\ ~Waits(q, p) /\ sent = <<>>
    <3>1. inbox'[p][q] = queue
      BY <1>1, <2>1, <2>4, SentFacts, Kinds
    <3>. QED BY <1>2, <1>5, <1>7, <2>1, <2>2, <2>3, <2>4, <3>1 DEF News, queue
  <2>5. CASE Waits(q, p) /\ Waits(q, p)' /\ sent = <<>> /\ StatusOf(q)' \in {StatusOf(q), Forced}
    <3>1. inbox'[p][q] = queue
      BY <1>1, <2>1, <2>5, SentFacts, Kinds
    <3>2. Has(asked, Query) => Has(inbox'[q][p], Query) \/ StatusOf(q) = "UNSET"
      BY <1>2, <1>6, <2>5 DEF Hears, Learns, asked
    <3>. QED BY <1>2, <1>5, <1>7, <2>1, <2>2, <2>3, <2>5, <3>1, <3>2 DEF News, queue, asked
  <2>6. CASE Waits(q, p)' /\ \/ sent = <<Update(StatusOf(q)')>>
                             \/ sent = <<Query, Update(StatusOf(q)')>>
    <3>1. PICK status \in Status : status = StatusOf(q)'
      BY <1>3, <2>6
    <3>2. sent = <<Update(status)>> \/ sent = <<Query, Update(status)>>
      BY <2>6, <3>1
    <3>3. /\ HasUpdate(inbox'[p][q]) /\ LastUpdateIs(inbox'[p][q], Update(status))
          /\ Has(inbox'[p][q], Update(Forced)) =>
               Has(queue, Update(Forced)) \/ Update(Forced) = Update(status) \/ Update(Forced) = Query
      <4>1. \/ inbox'[p][q] = queue \o <<Update(status)>>
            \/ inbox'[p][q] = queue \o <<Query, Update(status)>>
        BY <2>1, <3>2
      <4>. QED BY <1>1, <4>1, ToldFacts
    <3>4. Has(inbox'[p][q], Update(Forced)) => Has(queue, Update(Forced)) \/ status = Forced
      BY <3>3, Kinds
    <3>. QED BY <1>2, <1>5, <1>7, <2>1, <2>2, <2>6, <3>1, <3>3, <3>4 DEF News, queue
  <2>7. CASE ~Waits(q, p) /\ Waits(q, p)' /\ sent = <<Query>> /\ StatusOf(q)' = "UNSET"
    <3>1. /\ ~HasUpdate(inbox'[p][q])
          /\ Has(inbox'[p][q], Update(Forced)) => Has(queue, Update(Forced))
      <4>1. inbox'[p][q] = queue \o <<Query>> /\ ~HasUpdate(queue)
        BY <2>1, <2>2, <2>7 DEF News, queue
      <4>2. /\ HasUpdate(queue \o <<Query>>) <=> HasUpdate(queue)
            /\ \A x : Has(queue \o <<Query>>, x) <=> Has(queue, x) \/ x = Query
        BY <1>1, SentFacts, Kinds
      <4>. QED BY <4>1, <4>2, Kinds
    <3>2. LastUpdateIs(inbox'[p][q], Update(StatusOf(q)'))
      BY <3>1, NoUpdateFacts
    <3>. QED BY <1>2, <1>5, <1>7, <2>1, <2>2, <2>3, <2>7, <3>1, <3>2 DEF News, queue
  <2>8. Linked(q, p)
    BY <1>7 DEF Linked, Pair
  <2>. QED BY <1>2, <1>7, <2>4, <2>5, <2>6, <2>7, <2>8 DEF Deals
<1>8. ASSUME Linked(p, q), p \notin forgetters', Mutual(p, q)',
             Entry(q, p)'.lastSentStatus = Forced
      PROVE  \/ StatusOf(p)' = Forced
             \/ Has(inbox'[p][q], Update(Forced))
             \/ Has(inbox'[q][p], Query)
  <2>1. inbox'[p][q] = queue \o sent /\ Waits(p, q) /\ Waits(q, p)' /\ p \notin forgetters
        /\ StatusOf(p)' = StatusOf(p)
    BY <1>2, <1>8 DEF Mutual, StatusOf
  <2>2. CASE Waits(q, p) /\ sent = <<>> /\ UNCHANGED Entry(q, p).lastSentStatus
    <3>1. Waits(q, p) /\ Entry(q, p).lastSentStatus = Forced
      BY <1>8, <2>2
    <3>2. \/ StatusOf(p) = Forced \/ Has(queue, Update(Forced)) \/ Has(asked, Query)
      BY <1>1, <1>8, <2>1, <3>1 DEF ForceArrives, Mutual, Entry, StatusOf, Forced, queue, asked
    <3>3. StatusOf(q) = Forced
      BY <1>1, <3>1 DEF OwnEventAgrees, Waits, Entry, StatusOf, Forced
    <3>4. Has(asked, Query) => Has(inbox'[q][p], Query)
      BY <1>2, <1>6, <2>2, <3>1, <3>3 DEF Hears, Learns, asked, Forced
    <3>. QED BY <1>1, <2>1, <2>2, <3>2, <3>4, AppendFacts, Kinds, SentFacts
  <2>3. CASE /\ sent = <<Update(StatusOf(q)')>> \/ sent = <<Query, Update(StatusOf(q)')>>
             /\ Entry(q, p)'.lastSentStatus = StatusOf(q)'
    <3>1. sent = <<Update(Forced)>> \/ sent = <<Query, Update(Forced)>>
      BY <1>8, <2>3
    <3>2. \/ inbox'[p][q] = queue \o <<Update(Forced)>>
          \/ inbox'[p][q] = queue \o <<Query, Update(Forced)>>
      BY <2>1, <3>1
    <3>. QED BY <1>1, <3>2, ToldFacts, Kinds
  <2>4. CASE Entry(q, p)'.lastSentStatus = "UNSET"
    BY <1>8, <2>4 DEF Forced
  <2>. QED BY <1>2, <2>1, <2>2, <2>3, <2>4 DEF Deals
<1>. QED BY <1>4, <1>7, <1>8, NewsFacts DEF ForceArrives, Entry, StatusOf, Forced

\* A step of p keeps what is so of q's news for p.
LEMMA ListenerKeeps ==
  ASSUME ReadyIInv, ReadyTypeOK', NEW p \in System, NEW q \in Others(p), NEW out, StepOf(p, out)
  PROVE  NewsAgree(p, q)' /\ ForceArrives(p, q)'
<1> DEFINE queue == inbox[p][q]
           asked == inbox[q][p]
           sent == out[q]
<1>1. /\ p # q /\ q \in System /\ NewsAgree(p, q) /\ ForceArrives(p, q)
      /\ queue \in Seq(Handled) /\ asked \in Seq(Handled)
  BY DEF ReadyIInv, ReadyTypeOK, LinksTypeOK, Others, Handled
<1>2. /\ linked' = linked /\ node'[q] = node[q]
      /\ (Waits(q, p)' <=> Waits(q, p)) /\ (Known(q)' <=> Known(q))
      /\ inbox'[q][p] = IF Linked(q, p) THEN asked \o sent ELSE asked
      /\ Deals(p, q, sent) /\ Hears(p, q, sent)
      /\ q \in forgetters' <=> q \in forgetters
      /\ p \notin forgetters' => p \notin forgetters
      /\ p \notin forgetters' /\ Known(p) =>
           Known(p)' /\ (StatusOf(p) = Forced => StatusOf(p)' = Forced)
  BY <1>1 DEF StepOf, Others, Waits, Known
<1>3. Waits(p, q)' => StatusOf(p)' \in Status
  BY NodeFacts DEF ReadyTypeOK, Waits, Known, StatusOf
<1>4. (Linked(p, q)' <=> Linked(p, q)) /\ (Linked(q, p) <=> Linked(p, q))
  BY <1>2 DEF Linked, Pair
<1>5. StatusOf(q)' = StatusOf(q) /\ Entry(q, p)' = Entry(q, p)
  BY <1>2 DEF StatusOf, Entry
<1>6. /\ \A x : Has(inbox'[p][q], x) => Has(queue, x)
      /\ \A x : Has(queue, x) => Has(inbox'[p][q], x) \/ (queue # <<>> /\ Head(queue) = x)
      /\ HasUpdate(inbox'[p][q]) => HasUpdate(queue)
      /\ \A x : LastUpdateIs(queue, x) => LastUpdateIs(inbox'[p][q], x)
      /\ HasUpdate(queue) /\ ~HasUpdate(inbox'[p][q]) =>
           /\ queue # <<>> /\ inbox'[p][q] = Tail(queue) /\ Head(queue).id = "UPDATE"
           /\ \A x : LastUpdateIs(queue, x) => Head(queue) = x
  BY <1>1, <1>2, TailFacts DEF Hears, Learns
<1>7. ASSUME Linked(p, q)
      PROVE  /\ \A x : Has(asked, x) => Has(inbox'[q][p], x)
             /\ ~Waits(p, q) /\ Waits(p, q)' => Has(inbox'[q][p], Query)
  <2>1. inbox'[q][p] = asked \o sent
    BY <1>2, <1>4, <1>7
  <2>2. CASE Waits(p, q)' /\ \/ sent = <<Update(StatusOf(p)')>>
                             \/ sent = <<Query, Update(StatusOf(p)')>>
    <3>1. PICK status \in Status : status = StatusOf(p)'
      BY <1>3, <2>2
    <3>2. CASE sent = <<Update(status)>>
      <4>1. \A x : Has(asked \o <<Update(status)>>, x) <=> Has(asked, x) \/ x = Update(status)
        BY <1>1, SentFacts
      <4>2. ~(~Waits(p, q) /\ Waits(p, q)')
        BY <1>2, <3>2, Kinds DEF Deals
      <4>. QED BY <2>1, <3>2, <4>1, <4>2
    <3>3. CASE sent = <<Query, Update(status)>>
      <4>1. \A x : Has(asked \o <<Query, Update(status)>>, x)
                     <=> Has(asked, x) \/ x = Query \/ x = Update(status)
        BY <1>1, SentFacts
      <4>. QED BY <2>1, <3>3, <4>1
    <3>. QED BY <2>2, <3>1, <3>2, <3>3
  <2>3. CASE sent = <<>> /\ ~(~Waits(p, q) /\ Waits(p, q)')
    BY <1>1, <2>1, <2>3, SentFacts, Kinds
  <2>4. CASE sent = <<Query>>
    <3>1. \A x : Has(asked \o <<Query>>, x) <=> Has(asked, x) \/ x = Query
      BY <1>1, SentFacts, Kinds
    <3>. QED BY <2>1, <2>4, <3>1
  <2>. QED BY <1>2, <2>2, <2>3, <2>4 DEF Deals
<1> HIDE DEF queue, asked, sent
<1>8. ASSUME Linked(p, q), q \notin forgetters'
      PROVE  News(p, q)'
  <2>1. News(p, q)
    BY <1>1, <1>2, <1>8, NewsFacts
  <2>2. Has(inbox'[p][q], Update(Forced)) => Known(q)' /\ StatusOf(q)' = Forced
    BY <1>2, <1>5, <1>6, <2>1 DEF News, queue
  <2>3. ~Waits(p, q) /\ Waits(p, q)' =>
          Entry(p, q)'.lastReceivedStatus = "UNSET" /\ Has(inbox'[q][p], Query)
    BY <1>2, <1>7, <1>8 DEF Deals
  <2>4. ASSUME Waits(p, q), Waits(p, q)', ~HasUpdate(queue)
        PROVE  Entry(p, q)'.lastReceivedStatus = Entry(p, q).lastReceivedStatus
    BY <1>1, <1>2, <2>4, TailFacts DEF Hears, Learns, queue
  <2>5. ASSUME ~Waits(q, p)'
        PROVE  /\ ~HasUpdate(inbox'[p][q])
               /\ Waits(p, q)' => Entry(p, q)'.lastReceivedStatus = "UNSET"
    BY <1>2, <1>6, <2>1, <2>3, <2>4, <2>5 DEF News, queue
  <2>6. ASSUME Waits(q, p)', StatusOf(q)' # Forced
        PROVE  /\ LastUpdateIs(inbox'[p][q], Update(StatusOf(q)'))
               /\ \/ ~Waits(p, q)' \/ HasUpdate(inbox'[p][q])
                  \/ Entry(p, q)'.lastReceivedStatus = StatusOf(q)'
                  \/ Has(inbox'[q][p], Query) /\ Entry(p, q)'.lastReceivedStatus = "UNSET"
    <3>1. /\ LastUpdateIs(queue, Update(StatusOf(q))) /\ LastUpdateIs(inbox'[p][q], Update(StatusOf(q)'))
          /\ \/ ~Waits(p, q) \/ HasUpdate(queue)
             \/ Entry(p, q).lastReceivedStatus = StatusOf(q)
             \/ Has(asked, Query) /\ Entry(p, q).lastReceivedStatus = "UNSET"
      BY <1>2, <1>5, <1>6, <2>1, <2>6 DEF News, queue, asked
    <3>2. CASE ~(Waits(p, q) /\ Waits(p, q)')
      BY <2>3, <3>1, <3>2
    <3>3. CASE Waits(p, q) /\ Waits(p, q)' /\ ~HasUpdate(queue)
      BY <1>5, <1>7, <1>8, <2>4, <3>1, <3>3
    <3>4. CASE Waits(p, q) /\ Waits(p, q)' /\ HasUpdate(queue) /\ ~HasUpdate(inbox'[p][q])
      <4>1. /\ Head(queue) = Update(StatusOf(q)) /\ Head(queue).id = "UPDATE"
            /\ inbox'[p][q] = Tail(queue) /\ queue # <<>>
        BY <1>6, <3>1, <3>4
      <4>2. StatusOf(q) \in Status
        BY <1>1, <1>2, <2>6, NodeFacts DEF ReadyIInv, ReadyTypeOK, Waits, Known, StatusOf
      <4>3. inbox'[p][q] # queue
        BY <1>1, <4>1
      <4>4. Entry(p, q)'.lastReceivedStatus = Update(StatusOf(q)).eventStatus
        BY <1>2, <1>5, <2>6, <3>4, <4>1, <4>2, <4>3, Kinds DEF Hears, Learns, queue
      <4>. QED BY <1>5, <3>1, <4>2, <4>4, Kinds
    <3>. QED BY <3>1, <3>2, <3>3, <3>4
  <2>. QED BY <2>2, <2>5, <2>6 DEF News
<1>9. ASSUME Linked(p, q), p \notin forgetters', Mutual(p, q)',
             Entry(q, p)'.lastSentStatus = Forced
      PROVE  \/ StatusOf(p)' = Forced
             \/ Has(inbox'[p][q], Update(Forced))
             \/ Has(inbox'[q][p], Query)
  <2>1. CASE ~Waits(p, q)
    BY <1>7, <1>9, <2>1 DEF Mutual
  <2>2. CASE Waits(p, q)
    <3>1. Known(p) /\ Known(p)' /\ Mutual(p, q) /\ Entry(q, p).lastSentStatus = Forced
      BY <1>2, <1>5, <1>9, <2>2 DEF Mutual, Waits
    <3>2. \/ StatusOf(p) = Forced \/ Has(queue, Update(Forced)) \/ Has(asked, Query)
      BY <1>1, <1>2, <1>9, <3>1 DEF ForceArrives, Entry, StatusOf, Forced, queue, asked
    <3>3. Has(queue, Update(Forced)) => Has(inbox'[p][q], Update(Forced)) \/ StatusOf(p)' = Forced
      BY <1>2, <1>6, <3>1 DEF Hears, Learns, queue
    <3>. QED BY <1>2, <1>7, <1>9, <3>1, <3>2, <3>3
  <2>. QED BY <2>1, <2>2
<1>. QED BY <1>4, <1>8, <1>9, NewsFacts DEF ForceArrives, Entry, StatusOf, Forced

\* So a step of one system keeps the invariant, when its own event agrees.
LEMMA StepKeeps ==
  ASSUME ReadyIInv, ReadyTypeOK', NEW r \in System, NEW out, StepOf(r, out), OwnEventAgrees(r)'
  PROVE  ReadyIInv'
<1>1. ASSUME NEW q \in Others(r)
      PROVE  /\ q \in System /\ q # r
             /\ node'[q] = node[q]
             /\ (Waits(q, r)' <=> Waits(q, r))
             /\ inbox'[q][r] = IF Linked(q, r) THEN inbox[q][r] \o out[q] ELSE inbox[q][r]
             /\ (q \in forgetters' <=> q \in forgetters) /\ (q \in forcers' <=> q \in forcers)
             /\ Deals(r, q, out[q]) /\ Hears(r, q, out[q])
             /\ \A p \in Others(r) : inbox'[q][p] = inbox[q][p]
  BY <1>1 DEF StepOf, Others, Waits, Known
<1>2. linked' = linked /\ \A p, q : Linked(p, q)' <=> Linked(p, q)
  BY DEF StepOf, Linked
<1>3. ASSUME NEW q \in Others(r) PROVE OwnEventAgrees(q)'
  <2>1. OwnEventAgrees(q)
    BY <1>1, <1>3 DEF ReadyIInv
  <2>. QED BY <1>1, <1>3, <2>1 DEF OwnEventAgrees, Known, AnyUnset, At, Waiting
<1>4. ASSUME NEW p \in Others(r), NEW q \in Others(r), p # q
      PROVE  (WaitsForConnected(p, q) /\ NewsAgree(p, q) /\ ForceArrives(p, q))'
  <2>1. /\ node'[p] = node[p] /\ node'[q] = node[q]
        /\ inbox'[p][q] = inbox[p][q] /\ inbox'[q][p] = inbox[q][p]
        /\ (p \in forgetters' <=> p \in forgetters) /\ (q \in forgetters' <=> q \in forgetters)
    BY <1>1, <1>4
  <2>2. WaitsForConnected(p, q) /\ NewsAgree(p, q) /\ ForceArrives(p, q)
    BY <1>1, <1>4 DEF ReadyIInv
  <2>3. WaitsForConnected(p, q)'
    BY <1>2, <2>1, <2>2 DEF WaitsForConnected, Waits, Known
  <2>4. NewsAgree(p, q)'
    BY <1>2, <2>1, <2>2 DEF NewsAgree, Waits, Known
  <2>5. ForceArrives(p, q)'
    BY <1>2, <2>1, <2>2 DEF ForceArrives, Mutual, Waits, Known
  <2>. QED BY <2>3, <2>4, <2>5
<1>5. ASSUME NEW q \in Others(r)
      PROVE  (NewsAgree(q, r) /\ ForceArrives(q, r))' /\ (NewsAgree(r, q) /\ ForceArrives(r, q))'
  BY <1>5, SpeakerKeeps, ListenerKeeps
<1>6. ASSUME NEW q \in Others(r) PROVE WaitsForConnected(q, r)'
  <2>1. WaitsForConnected(q, r) /\ inbox[q][r] \in Seq(Handled)
    <3>1. q \in System /\ r \in System \ {q}
      BY <1>1, <1>6
    <3>. QED BY <3>1 DEF ReadyIInv, ReadyTypeOK, LinksTypeOK, Handled
  <2>2. CASE ~Linked(q, r)
    <3>1. inbox'[q][r] = inbox[q][r]
      BY <1>1, <1>6, <2>1, <2>2, SentFacts, Kinds
    <3>. QED BY <1>1, <1>2, <1>6, <2>1, <3>1 DEF WaitsForConnected, Closed
  <2>3. CASE Linked(q, r)
    <3>1. inbox'[q][r] = inbox[q][r] \o out[q]
      BY <1>1, <1>6, <2>3
    <3>2. ~Has(inbox[q][r], Closed)
      BY <2>1, <2>3 DEF WaitsForConnected, Closed
    <3>3. Waits(r, q)' => StatusOf(r)' \in Status
      BY NodeFacts DEF ReadyTypeOK, Waits, Known, StatusOf
    <3>4. CASE out[q] = <<>>
      <4>1. inbox'[q][r] = inbox[q][r]
        BY <2>1, <3>1, <3>4, SentFacts, Kinds
      <4>. QED BY <1>1, <1>2, <1>6, <2>1, <2>3, <3>2, <4>1 DEF WaitsForConnected, Closed
    <3>5. CASE out[q] = <<Query>>
      <4>1. \A x : Has(inbox[q][r] \o <<Query>>, x) => Has(inbox[q][r], x) \/ x = Query
        BY <2>1, SentFacts, Kinds
      <4>2. ~Has(inbox'[q][r], Closed)
        BY <3>1, <3>2, <3>5, <4>1, Kinds
      <4>. QED BY <1>2, <2>3, <4>2 DEF WaitsForConnected, Closed
    <3>6. CASE /\ Waits(r, q)'
               /\ out[q] = <<Update(StatusOf(r)')>> \/ out[q] = <<Query, Update(StatusOf(r)')>>
      <4>1. PICK status \in Status : status = StatusOf(r)'
        BY <3>3, <3>6
      <4>2. \/ inbox'[q][r] = inbox[q][r] \o <<Update(status)>>
            \/ inbox'[q][r] = inbox[q][r] \o <<Query, Update(status)>>
        BY <3>1, <3>6, <4>1
      <4>3. ~Has(inbox'[q][r], Closed)
        BY <2>1, <3>2, <4>2, ToldFacts, Kinds
      <4>. QED BY <1>2, <2>3, <4>3 DEF WaitsForConnected, Closed
    <3>. QED BY <1>1, <1>6, <3>4, <3>5, <3>6 DEF Deals
  <2>. QED BY <2>2, <2>3
<1>7. ASSUME NEW q \in Others(r) PROVE WaitsForConnected(r, q)'
  <2> DEFINE queue == inbox[r][q]
  <2>1. WaitsForConnected(r, q) /\ queue \in Seq(Handled)
    <3>1. q \in System \ {r}
      BY <1>1, <1>7
    <3>. QED BY <3>1 DEF ReadyIInv, ReadyTypeOK, LinksTypeOK, Handled
  <2>2. ~Waits(r, q) /\ Waits(r, q)' => Linked(r, q)
    BY <1>1, <1>7 DEF Deals
  <2>3. CASE inbox'[r][q] = queue
    BY <1>2, <2>1, <2>2, <2>3 DEF WaitsForConnected
  <2>4. CASE queue # <<>> /\ inbox'[r][q] = Tail(queue) /\ (Head(queue) = Closed => ~Waits(r, q)')
    <3>1. Has(inbox'[r][q], Closed) => ~Linked(r, q)
      BY <2>1, <2>4, TailFacts DEF WaitsForConnected, Closed
    <3>2. ASSUME ~Linked(r, q)
          PROVE  /\ inbox'[r][q] # <<>> => inbox'[r][q][Len(inbox'[r][q])] = Closed
                 /\ inbox'[r][q] = <<>> => ~Waits(r, q)'
      <4>1. queue[Len(queue)] = Closed
        BY <2>1, <2>4, <3>2 DEF WaitsForConnected, Closed
      <4>. QED BY <2>1, <2>4, <4>1, TailFacts
    <3>. QED BY <1>2, <3>1, <3>2 DEF WaitsForConnected, Closed
  <2>. QED BY <1>1, <1>7, <2>3, <2>4 DEF Hears, Learns
<1>8. \A p \in System : OwnEventAgrees(p)'
  BY <1>3 DEF Others
<1>9. ASSUME NEW p \in System, NEW q \in System \ {p}
      PROVE  (WaitsForConnected(p, q) /\ NewsAgree(p, q) /\ ForceArrives(p, q))'
  <2>1. CASE p = r
    BY <1>5, <1>7, <1>9, <2>1 DEF Others
  <2>2. CASE q = r
    BY <1>5, <1>6, <1>9, <2>2 DEF Others
  <2>3. CASE p # r /\ q # r
    BY <1>4, <1>9, <2>3 DEF Others
  <2>. QED BY <2>1, <2>2, <2>3
<1>. QED BY <1>8, <1>9 DEF ReadyIInv

\* What is left of a queue that is cut, and what is in a new one.
LEMMA NoticeFacts ==
  /\ \A queue \in Seq(Handled) : \A n \in 0 .. Len(queue) :
       Cut(queue, n) \in Seq(Handled) /\ Cut(queue, n) # <<>> /\ Cut(queue, n)[Len(Cut(queue, n))] = Closed
  /\ LET news == <<Notice("NEW_CONNECTION")>>
     IN /\ news \in Seq(Handled) /\ news # <<>>
        /\ ~HasUpdate(news) /\ ~Has(news, Closed) /\ \A status : ~Has(news, Update(status))
<1>1. ASSUME NEW queue \in Seq(Handled), NEW n \in 0 .. Len(queue)
      PROVE  Cut(queue, n) \in Seq(Handled) /\ Cut(queue, n) # <<>> /\ Cut(queue, n)[Len(Cut(queue, n))] = Closed
  <2>1. Closed \in Handled
    BY DEF Closed, Handled
  <2> DEFINE begun == SubSeq(queue, 1, n)
  <2>2. begun \in Seq(Handled)
    OBVIOUS
  <2>3. Cut(queue, n) = begun \o <<Closed>>
    BY DEF Cut, Closed
  <2> HIDE DEF begun
  <2>4. begun \o <<Closed>> = Append(begun, Closed)
    BY <2>1, <2>2, AppendFacts
  <2>5. Append(begun, Closed) \in Seq(Handled) /\ Append(begun, Closed) # <<>>
        /\ Append(begun, Closed)[Len(Append(begun, Closed))] = Closed
    BY <2>1, <2>2
  <2>. QED BY <2>3, <2>4, <2>5
<1> DEFINE news == <<Notice("NEW_CONNECTION")>>
<1>2. Len(news) = 1 /\ news[1] = Notice("NEW_CONNECTION") /\ news # <<>>
  OBVIOUS
<1>3. news \in Seq(Handled)
  BY DEF Handled
<1>4. ~HasUpdate(news) /\ ~Has(news, Closed) /\ \A status : ~Has(news, Update(status))
  <2>1. /\ Notice("NEW_CONNECTION") # Closed /\ Notice("NEW_CONNECTION").id # "UPDATE"
        /\ \A status : Notice("NEW_CONNECTION") # Update(status)
    BY DEF Notice, Closed, Update
  <2> HIDE DEF news
  <2>. QED BY <1>2, <2>1 DEF HasUpdate, Has
<1>. QED BY <1>1, <1>2, <1>3, <1>4

\* What changes in the links of two systems.
LEMMA LinksKeep ==
  ASSUME ReadyIInv, LinksChange, UNCHANGED <<node, reversals, forgetters, forcers>>
  PROVE  ReadyIInv'
<1>1. PICK a \in System, b \in System : PeersConnect(a, b) \/ PeersLoseEachOther(a, b)
  BY DEF LinksChange
<1>2. a # b
  BY <1>1, SystemAssumption DEF PeersConnect, PeersLoseEachOther
<1>3. /\ inbox \in [System -> [System -> Seq(Handled)]] /\ linked \subseteq AllPairs
      /\ ReadyTypeOK
      /\ \A p \in System : OwnEventAgrees(p)
      /\ \A p \in System : \A q \in System \ {p} :
           WaitsForConnected(p, q) /\ NewsAgree(p, q) /\ ForceArrives(p, q)
  BY DEF ReadyIInv, ReadyTypeOK, LinksTypeOK, Handled
<1>4. Pair(a, b) \in AllPairs /\ Pair(a, b) = Pair(b, a)
      /\ \A p, q : Pair(p, q) = Pair(a, b) => (p = a /\ q = b) \/ (p = b /\ q = a)
  BY <1>2 DEF Pair, AllPairs
<1>5. \A p, q : Waits(p, q)' <=> Waits(p, q)
  BY DEF Waits, Known
<1>6. \A p \in System : OwnEventAgrees(p)'
  BY <1>3 DEF OwnEventAgrees, Known, AnyUnset, At, Waiting
  \* The two get new queues, and the other pairs keep what they have.
<1>7. ASSUME linked' \subseteq AllPairs, NEW first \in Seq(Handled), NEW second \in Seq(Handled),
             inbox' = [inbox EXCEPT ![a][b] = first, ![b][a] = second],
             \A p, q : Pair(p, q) # Pair(a, b) => (Linked(p, q)' <=> Linked(p, q)),
             (WaitsForConnected(a, b) /\ NewsAgree(a, b) /\ ForceArrives(a, b))',
             (WaitsForConnected(b, a) /\ NewsAgree(b, a) /\ ForceArrives(b, a))'
      PROVE  ReadyIInv'
  <2>1. /\ inbox' \in [System -> [System -> Seq(Handled)]]
        /\ \A p, q \in System : Pair(p, q) # Pair(a, b) =>
             inbox'[p][q] = inbox[p][q] /\ inbox'[q][p] = inbox[q][p]
    BY <1>2, <1>3, <1>7 DEF Pair
  <2>2. ReadyTypeOK'
    BY <1>3, <1>5, <1>7, <2>1 DEF ReadyTypeOK, LinksTypeOK, Handled
  <2>3. ASSUME NEW p \in System, NEW q \in System \ {p}, Pair(p, q) # Pair(a, b)
        PROVE  (WaitsForConnected(p, q) /\ NewsAgree(p, q) /\ ForceArrives(p, q))'
    <3>1. /\ inbox'[p][q] = inbox[p][q] /\ inbox'[q][p] = inbox[q][p]
          /\ Linked(p, q)' <=> Linked(p, q)
          /\ WaitsForConnected(p, q) /\ NewsAgree(p, q) /\ ForceArrives(p, q)
      BY <1>3, <1>7, <2>1, <2>3
    <3>2. WaitsForConnected(p, q)'
      BY <1>5, <3>1 DEF WaitsForConnected
    <3>3. NewsAgree(p, q)'
      BY <1>5, <3>1 DEF NewsAgree, Known
    <3>4. ForceArrives(p, q)'
      BY <1>5, <3>1 DEF ForceArrives, Mutual
    <3>. QED BY <3>2, <3>3, <3>4
  <2>. QED BY <1>4, <1>6, <1>7, <2>2, <2>3 DEF ReadyIInv
<1>8. CASE PeersConnect(a, b)
  <2> DEFINE news == <<Notice("NEW_CONNECTION")>>
  <2>1. /\ ~Linked(a, b) /\ ~Linked(b, a) /\ inbox[a][b] = <<>> /\ inbox[b][a] = <<>>
        /\ linked' = linked \cup {Pair(a, b)}
        /\ inbox' = [inbox EXCEPT ![a][b] = news, ![b][a] = news]
    BY <1>4, <1>8 DEF PeersConnect, QuietBetween, Linked
  <2>2. ~Waits(a, b) /\ ~Waits(b, a)
    BY <1>2, <1>3, <2>1 DEF WaitsForConnected
  <2>3. /\ inbox'[a][b] = news /\ inbox'[b][a] = news
        /\ Linked(a, b)' /\ Linked(b, a)' /\ linked' \subseteq AllPairs
        /\ \A p, q : Pair(p, q) # Pair(a, b) => (Linked(p, q)' <=> Linked(p, q))
    BY <1>2, <1>3, <1>4, <2>1 DEF Linked
  <2>4. news \in Seq(Handled) /\ ~HasUpdate(news) /\ ~Has(news, Closed)
        /\ ~Has(news, Update("FORCE_ALL_SET"))
    BY NoticeFacts
  <2> HIDE DEF news
  <2>5. \A p, q : (p = a /\ q = b) \/ (p = b /\ q = a) =>
          (WaitsForConnected(p, q) /\ NewsAgree(p, q) /\ ForceArrives(p, q))'
    BY <1>5, <2>2, <2>3, <2>4 DEF WaitsForConnected, NewsAgree, ForceArrives, Mutual, Closed
  <2>. QED BY <1>7, <2>1, <2>3, <2>4, <2>5
<1>9. CASE PeersLoseEachOther(a, b)
  <2>1. PICK m \in Kept(inbox[a][b]), n \in Kept(inbox[b][a]) :
          inbox' = [inbox EXCEPT ![a][b] = Cut(@, m), ![b][a] = Cut(@, n)]
    BY <1>9 DEF PeersLoseEachOther
  <2> DEFINE first == Cut(inbox[a][b], m)
             second == Cut(inbox[b][a], n)
  <2>2. /\ first \in Seq(Handled) /\ first # <<>> /\ first[Len(first)] = Closed
        /\ second \in Seq(Handled) /\ second # <<>> /\ second[Len(second)] = Closed
    <3>1. /\ m \in 0 .. Len(inbox[a][b]) /\ n \in 0 .. Len(inbox[b][a])
          /\ inbox[a][b] \in Seq(Handled) /\ inbox[b][a] \in Seq(Handled)
      BY <1>3, <2>1 DEF Kept
    <3>. QED BY <3>1, NoticeFacts
  <2>3. inbox' = [inbox EXCEPT ![a][b] = first, ![b][a] = second]
    BY <1>2, <1>3, <2>1
  <2> HIDE DEF first, second
  <2>4. /\ inbox'[a][b] = first /\ inbox'[b][a] = second
        /\ ~Linked(a, b)' /\ ~Linked(b, a)' /\ linked' \subseteq AllPairs
        /\ \A p, q : Pair(p, q) # Pair(a, b) => (Linked(p, q)' <=> Linked(p, q))
    BY <1>2, <1>3, <1>4, <1>9, <2>3 DEF Linked, PeersLoseEachOther
  <2>5. \A p, q : (p = a /\ q = b) \/ (p = b /\ q = a) =>
          (WaitsForConnected(p, q) /\ NewsAgree(p, q) /\ ForceArrives(p, q))'
    BY <2>2, <2>4 DEF WaitsForConnected, NewsAgree, ForceArrives, Closed
  <2>. QED BY <1>7, <2>2, <2>3, <2>4, <2>5
<1>. QED BY <1>1, <1>8, <1>9

\* Messages in the order they were sent.
LEMMA AppendToShort ==
  ASSUME NEW M, NEW x \in M, NEW y \in M
  PROVE  Append(<<>>, x) = <<x>> /\ Append(<<y>>, x) = <<y, x>>
<1>1. <<>> \in Seq(M) /\ <<y>> \in Seq(M) /\ <<x>> \in Seq(M) /\ <<y, x>> \in Seq(M)
  OBVIOUS
<1>2. \A queue \in Seq(M) : <<>> \o queue = queue
  OBVIOUS
<1>3. /\ <<>> \o <<x>> = Append(<<>>, x) /\ <<>> \o <<y>> = Append(<<>>, y)
      /\ <<>> \o <<y, x>> = Append(Append(<<>>, y), x)
  BY <1>1, AppendFacts
<1>. QED BY <1>1, <1>2, <1>3

\* p has rest to handle, of messages in M, and the others what p passed them.
Arrived(p, rest, out, M) ==
  /\ inbox' \in [System -> [System -> Seq(M)]] /\ linked' = linked
  /\ inbox'[p] = rest
  /\ \A q \in System \ {p} :
       /\ inbox'[q][p] = IF Linked(q, p) THEN inbox[q][p] \o out[q] ELSE inbox[q][p]
       /\ \A o \in System \ {p} : inbox'[q][o] = inbox[q][o]

\* What the others have to handle after a step of r.
LEMMA PassesFacts ==
  ASSUME ReadyIInv, NEW r \in System, NEW rest \in [System -> Seq(Handled)], NEW out,
         \A q \in Others(r) : out[q] \in Seq(Handled), Passes(r, rest, out)
  PROVE  Arrived(r, rest, out, Handled)
<1>1. inbox \in [System -> [System -> Seq(Handled)]]
  BY DEF ReadyIInv, ReadyTypeOK, LinksTypeOK, Handled
<1>2. inbox' = [q \in System |->
        IF q = r THEN rest
        ELSE [inbox[q] EXCEPT ![r] = @ \o IF Linked(q, r) THEN out[q] ELSE <<>>]]
      /\ linked' = linked
  BY DEF Passes
<1>3. ASSUME NEW q \in Others(r)
      PROVE  /\ inbox'[q] \in [System -> Seq(Handled)]
             /\ inbox'[q][r] = IF Linked(q, r) THEN inbox[q][r] \o out[q] ELSE inbox[q][r]
             /\ \A p \in Others(r) : inbox'[q][p] = inbox[q][p]
  <2>1. inbox[q] \in [System -> Seq(Handled)] /\ q \in System /\ q # r
    BY <1>1, <1>3 DEF Others
  <2>2. inbox[q][r] \in Seq(Handled) /\ inbox[q][r] \o <<>> = inbox[q][r]
    BY <2>1
  <2>3. CASE Linked(q, r)
    <3>1. inbox'[q] = [inbox[q] EXCEPT ![r] = @ \o out[q]]
      BY <1>2, <2>1, <2>3
    <3>2. inbox[q][r] \o out[q] \in Seq(Handled)
      BY <1>3, <2>2
    <3>. QED BY <2>1, <2>3, <3>1, <3>2 DEF Others
  <2>4. CASE ~Linked(q, r)
    <3>1. inbox'[q] = [inbox[q] EXCEPT ![r] = @ \o <<>>]
      BY <1>2, <2>1, <2>4
    <3>. QED BY <2>1, <2>2, <2>4, <3>1 DEF Others
  <2>. QED BY <2>3, <2>4
<1>4. inbox' \in [System -> [System -> Seq(Handled)]] /\ inbox'[r] = rest
  <2>1. inbox'[r] = rest
    BY <1>2
  <2>2. \A q \in System : inbox'[q] \in [System -> Seq(Handled)]
    BY <1>3, <2>1 DEF Others
  <2>3. inbox' = [q \in System |-> inbox'[q]]
    BY <1>2
  <2>. QED BY <2>1, <2>2, <2>3
<1>. QED BY <1>2, <1>3, <1>4 DEF Arrived, Others

\* A step of one system keeps the invariant, when its own event agrees.
LEMMA StepKeepsAll ==
  ASSUME ReadyIInv, NEW r \in System, NEW n \in ReadyEventNode \cup {NoEvent},
         node' = [node EXCEPT ![r] = n], ~Waits(r, r)',
         inbox' \in [System -> [System -> Seq(Handled)]], NEW out, StepOf(r, out), OwnEventAgrees(r)'
  PROVE  ReadyIInv'
<1>1. ReadyTypeOK
  BY DEF ReadyIInv
<1>2. \A p \in System : ~Waits(p, p)'
  BY <1>1 DEF ReadyTypeOK, Waits, Known
<1>3. ReadyTypeOK'
  BY <1>1, <1>2 DEF ReadyTypeOK, LinksTypeOK, StepOf, Handled
<1>. QED BY <1>3, StepKeeps

\* Nothing is sent that is not a message.
LEMMA DealsSends ==
  ASSUME NEW r \in System, NEW q, NEW sent, Deals(r, q, sent),
         node' \in [System -> ReadyEventNode \cup {NoEvent}]
  PROVE  sent \in Seq(Handled)
<1>1. Waits(r, q)' => StatusOf(r)' \in Status
  BY NodeFacts DEF Waits, Known, StatusOf
<1>2. Query \in Handled /\ \A status \in Status : Update(status) \in Handled
  BY Kinds
<1>3. CASE sent = <<>>
  BY <1>3
<1>4. CASE sent = <<Query>>
  BY <1>2, <1>4
<1>5. CASE Waits(r, q)' /\ sent = <<Update(StatusOf(r)')>>
  BY <1>1, <1>2, <1>5
<1>6. CASE Waits(r, q)' /\ sent = <<Query, Update(StatusOf(r)')>>
  BY <1>1, <1>2, <1>6
<1>. QED BY <1>3, <1>4, <1>5, <1>6 DEF Deals

\* An event of r and what r has sent about it, before its status is updated.
Prepared(r, s) ==
  /\ s = [node |-> s.node, out |-> s.out] /\ s.node \in ReadyEventNode
  /\ r \notin Waiting(s)
  /\ Known(r) /\ StatusOf(r) = Forced => s.node.eventStatus = Forced
  /\ \A q \in Others(r) :
       \/ /\ q \in Waiting(s) /\ Waits(r, q) /\ s.out[q] = <<>>
          /\ s.node.systemList[q].lastSentStatus = Entry(r, q).lastSentStatus
       \/ /\ q \in Waiting(s) /\ ~Waits(r, q) /\ Linked(r, q)
          /\ s.out[q] = <<Query>> /\ s.node.systemList[q] = NewSystem
       \/ /\ q \notin Waiting(s) /\ s.out[q] = <<>>
          /\ Waits(r, q) => r \in forgetters' \/ ~Linked(r, q)

\* What a prepared event is when its status is updated, and what is sent of that.
LEMMA UpdatedDeals ==
  ASSUME ReadyIInv, NEW r \in System, NEW s, Prepared(r, s), Now(r, UpdateReadyStatus(s)),
         forgetters' \in {forgetters, forgetters \cup {r}},
         r \in forcers' \ forgetters' => s.node.eventStatus = Forced
  PROVE  /\ UpdateReadyStatus(s).node \in ReadyEventNode
         /\ Known(r)' /\ ~Waits(r, r)' /\ OwnEventAgrees(r)'
         /\ s.node.eventStatus = Forced => StatusOf(r)' = Forced
         /\ \A q \in Others(r) :
              /\ Deals(r, q, UpdateReadyStatus(s).out[q])
              /\ UpdateReadyStatus(s).out[q] \in Seq(Handled)
              /\ q \in Waiting(s) =>
                   Entry(r, q)'.lastReceivedStatus = s.node.systemList[q].lastReceivedStatus
              /\ Waits(r, q)' <=> q \in Waiting(s)
<1> DEFINE t == UpdateReadyStatus(s)
<1>1. /\ t.node \in ReadyEventNode /\ Waiting(t) = Waiting(s)
      /\ \A q \in Waiting(s) :
           /\ t.node.systemList[q].lastReceivedStatus = s.node.systemList[q].lastReceivedStatus
           /\ t.node.systemList[q].lastSentStatus = t.node.eventStatus
      /\ \/ s.node.eventStatus \notin {"SET", "ALL_SET"} /\ t.node.eventStatus = s.node.eventStatus
         \/ s.node.eventStatus \in {"SET", "ALL_SET"} /\ t.node.eventStatus = "SET" /\ AnyUnset(t)
         \/ s.node.eventStatus \in {"SET", "ALL_SET"} /\ t.node.eventStatus = "ALL_SET"
      /\ \A q \in System :
           t.out[q] = IF q \in Waiting(s) /\ t.node.eventStatus # s.node.systemList[q].lastSentStatus
                      THEN Append(s.out[q], Update(t.node.eventStatus)) ELSE s.out[q]
  BY UpdatedFacts DEF Prepared
<1> HIDE DEF t
<1>2. /\ ReadyTypeOK /\ OwnEventAgrees(r)
  BY DEF ReadyIInv
<1>3. /\ node'[r] = t.node /\ node' \in [System -> ReadyEventNode \cup {NoEvent}]
      /\ Known(r)' /\ t.node.eventStatus \in Status
  BY <1>1, <1>2, NodeFacts DEF Now, ReadyTypeOK, Known, t
<1>4. /\ StatusOf(r)' = t.node.eventStatus
      /\ \A q : Entry(r, q)' = t.node.systemList[q]
      /\ \A q : Waits(r, q)' <=> q \in Waiting(s)
  BY <1>1, <1>3 DEF StatusOf, Entry, Waits, Waiting
<1>5. s.node.eventStatus = Forced => t.node.eventStatus = Forced
  BY <1>1 DEF Forced
<1>6. OwnEventAgrees(r)'
  <2>1. \A q \in DOMAIN node'[r].systemList : node'[r].systemList[q].lastSentStatus = node'[r].eventStatus
    BY <1>1, <1>3 DEF Waiting
  <2>2. ASSUME node'[r].eventStatus = "SET" PROVE AnyUnset(At(r))'
    <3>1. AnyUnset(t)
      BY <1>1, <1>3, <2>2 DEF Forced
    <3>. QED BY <1>3, <3>1 DEF AnyUnset, At, Waiting
  <2>. QED BY <1>3, <1>5, <2>1, <2>2 DEF OwnEventAgrees, Forced
<1>7. ASSUME NEW q \in Others(r)
      PROVE  Deals(r, q, t.out[q])
  <2>1. q \in System
        /\ Append(<<>>, Update(t.node.eventStatus)) = <<Update(t.node.eventStatus)>>
        /\ Append(<<Query>>, Update(t.node.eventStatus)) = <<Query, Update(t.node.eventStatus)>>
    <3>1. Query \in Handled /\ Update(t.node.eventStatus) \in Handled
      BY <1>3, Kinds
    <3>. QED BY <1>7, <3>1, AppendToShort DEF Others
  <2>2. CASE /\ q \in Waiting(s) /\ Waits(r, q) /\ s.out[q] = <<>>
             /\ s.node.systemList[q].lastSentStatus = Entry(r, q).lastSentStatus
    <3>1. Entry(r, q)'.lastSentStatus = t.node.eventStatus
      BY <1>1, <1>4, <2>2
    <3>2. CASE t.node.eventStatus # Entry(r, q).lastSentStatus
      BY <1>1, <1>4, <2>1, <2>2, <3>1, <3>2 DEF Deals
    <3>3. CASE t.node.eventStatus = Entry(r, q).lastSentStatus
      <4>1. t.out[q] = <<>>
        BY <1>1, <2>1, <2>2, <3>3
      <4>2. Known(r) /\ q \in DOMAIN node[r].systemList
        BY <2>2 DEF Waits
      <4>3. StatusOf(r) # Forced => Entry(r, q).lastSentStatus = StatusOf(r)
        BY <1>2, <4>2 DEF OwnEventAgrees, StatusOf, Entry, Forced
      <4>4. StatusOf(r) = Forced => t.node.eventStatus = Forced
        BY <1>5, <4>2 DEF Prepared
      <4>. QED BY <1>4, <2>2, <3>1, <3>3, <4>1, <4>3, <4>4 DEF Deals
    <3>. QED BY <3>2, <3>3
  <2>3. CASE /\ q \in Waiting(s) /\ ~Waits(r, q) /\ Linked(r, q)
             /\ s.out[q] = <<Query>> /\ s.node.systemList[q] = NewSystem
    <3>1. /\ s.node.systemList[q].lastSentStatus = "UNSET"
          /\ s.node.systemList[q].lastReceivedStatus = "UNSET"
      BY <2>3 DEF NewSystem
    <3>. QED BY <1>1, <1>4, <2>1, <2>3, <3>1 DEF Deals
  <2>4. CASE /\ q \notin Waiting(s) /\ s.out[q] = <<>>
             /\ Waits(r, q) => r \in forgetters' \/ ~Linked(r, q)
    BY <1>1, <1>4, <2>1, <2>4 DEF Deals
  <2>. QED BY <1>7, <2>2, <2>3, <2>4 DEF Prepared
<1>8. \A q \in Others(r) : t.out[q] \in Seq(Handled)
  BY <1>3, <1>7, DealsSends
<1>. QED BY <1>1, <1>3, <1>4, <1>5, <1>6, <1>7, <1>8 DEF t, Prepared

\* What r is left with when it has handled a message of x, or none.
LEMMA RestFacts ==
  ASSUME ReadyIInv, NEW r \in System, NEW x \in System, inbox[r][x] # <<>>
  PROVE  /\ inbox[r] \in [System -> Seq(Handled)]
         /\ [inbox[r] EXCEPT ![x] = Tail(@)] \in [System -> Seq(Handled)]
         /\ [inbox[r] EXCEPT ![x] = Tail(@)][x] = Tail(inbox[r][x])
         /\ \A q \in System \ {x} : [inbox[r] EXCEPT ![x] = Tail(@)][q] = inbox[r][q]
<1>1. inbox[r] \in [System -> Seq(Handled)]
  BY DEF ReadyIInv, ReadyTypeOK, LinksTypeOK, Handled
<1>2. Tail(inbox[r][x]) \in Seq(Handled)
  BY <1>1
<1>. QED BY <1>1, <1>2

\* A call of the application.
LEMMA CallKeeps ==
  ASSUME ReadyIInv, NEW r \in System, NEW s, s.node \in ReadyEventNode \cup {NoEvent},
         Now(r, s), PassesUnasked(r, s.out), ~Waits(r, r)', OwnEventAgrees(r)',
         forgetters' \in {forgetters, forgetters \cup {r}},
         forcers' \in {forcers, forcers \cup {r}},
         r \notin forgetters' /\ Known(r) =>
           Known(r)' /\ (StatusOf(r) = Forced => StatusOf(r)' = Forced),
         \A q \in Others(r) :
           /\ Deals(r, q, s.out[q])
           /\ Waits(r, q) /\ Waits(r, q)' => UNCHANGED Entry(r, q).lastReceivedStatus
  PROVE  ReadyIInv'
<1>1. /\ node \in [System -> ReadyEventNode \cup {NoEvent}]
      /\ inbox[r] \in [System -> Seq(Handled)]
  BY DEF ReadyIInv, ReadyTypeOK, LinksTypeOK, Handled
<1>2. /\ node' = [node EXCEPT ![r] = s.node] /\ node' \in [System -> ReadyEventNode \cup {NoEvent}]
      /\ \A q \in Others(r) : node'[q] = node[q]
  BY <1>1 DEF Now, Others
<1>3. \A q \in Others(r) : s.out[q] \in Seq(Handled)
  BY <1>2, DealsSends
<1>4. /\ inbox' \in [System -> [System -> Seq(Handled)]] /\ linked' = linked
      /\ inbox'[r] = inbox[r]
      /\ \A q \in Others(r) :
           /\ inbox'[q][r] = IF Linked(q, r) THEN inbox[q][r] \o s.out[q] ELSE inbox[q][r]
           /\ \A p \in Others(r) : inbox'[q][p] = inbox[q][p]
  <2>1. PICK out : out = s.out
    OBVIOUS
  <2>2. Passes(r, inbox[r], out) /\ \A q \in Others(r) : out[q] \in Seq(Handled)
    BY <1>3, <2>1 DEF PassesUnasked
  <2>3. /\ inbox' \in [System -> [System -> Seq(Handled)]] /\ linked' = linked
        /\ inbox'[r] = inbox[r]
        /\ \A q \in Others(r) :
             /\ inbox'[q][r] = IF Linked(q, r) THEN inbox[q][r] \o out[q] ELSE inbox[q][r]
             /\ \A p \in Others(r) : inbox'[q][p] = inbox[q][p]
    <3>1. Arrived(r, inbox[r], out, Handled)
      BY <1>1, <2>2, PassesFacts
    <3>. QED BY <3>1 DEF Arrived, Others
  <2>. QED BY <2>1, <2>3
<1>5. \A q \in Others(r) : Hears(r, q, s.out[q])
  BY <1>4 DEF Hears
<1>6. StepOf(r, s.out)
  BY <1>2, <1>4, <1>5 DEF StepOf
<1>. QED BY <1>2, <1>4, <1>6, StepKeepsAll

\* The handler of a message of x.
LEMMA AnswerKeeps ==
  ASSUME ReadyIInv, NEW r \in System, NEW x \in System, inbox[r][x] # <<>>,
         NEW s, s.node \in ReadyEventNode \cup {NoEvent},
         Answered(r, x, s), ~Waits(r, r)', OwnEventAgrees(r)',
         Known(r) => Known(r)' /\ (StatusOf(r) = Forced => StatusOf(r)' = Forced),
         \A q \in Others(r) : Deals(r, q, s.out[q]),
         \A q \in Others(r) \ {x} :
           Waits(r, q) /\ Waits(r, q)' => UNCHANGED Entry(r, q).lastReceivedStatus,
         x \in Others(r) => Learns(r, x, s.out[x])
  PROVE  ReadyIInv'
<1> DEFINE rest == [inbox[r] EXCEPT ![x] = Tail(@)]
<1>1. /\ node \in [System -> ReadyEventNode \cup {NoEvent}]
      /\ rest \in [System -> Seq(Handled)] /\ rest[x] = Tail(inbox[r][x])
      /\ \A q \in System \ {x} : rest[q] = inbox[r][q]
  BY RestFacts DEF ReadyIInv, ReadyTypeOK
<1>2. /\ node' = [node EXCEPT ![r] = s.node] /\ node' \in [System -> ReadyEventNode \cup {NoEvent}]
      /\ \A q \in Others(r) : node'[q] = node[q]
      /\ forgetters' = forgetters /\ forcers' = forcers /\ PassesAfter(r, x, s.out)
  BY <1>1 DEF Now, Others, Answered
<1>3. \A q \in Others(r) : s.out[q] \in Seq(Handled)
  BY <1>2, DealsSends
<1>4. Passes(r, rest, s.out)
  BY <1>2 DEF PassesAfter
<1> HIDE DEF rest
<1>5. /\ inbox' \in [System -> [System -> Seq(Handled)]] /\ linked' = linked
      /\ inbox'[r] = rest
      /\ \A q \in Others(r) :
           /\ inbox'[q][r] = IF Linked(q, r) THEN inbox[q][r] \o s.out[q] ELSE inbox[q][r]
           /\ \A p \in Others(r) : inbox'[q][p] = inbox[q][p]
  <2>1. PICK out : out = s.out
    OBVIOUS
  <2>2. Passes(r, rest, out) /\ \A q \in Others(r) : out[q] \in Seq(Handled)
    BY <1>3, <1>4, <2>1
  <2>3. /\ inbox' \in [System -> [System -> Seq(Handled)]] /\ linked' = linked
        /\ inbox'[r] = rest
        /\ \A q \in Others(r) :
             /\ inbox'[q][r] = IF Linked(q, r) THEN inbox[q][r] \o out[q] ELSE inbox[q][r]
             /\ \A p \in Others(r) : inbox'[q][p] = inbox[q][p]
    <3>1. Arrived(r, rest, out, Handled)
      BY <1>1, <2>2, PassesFacts
    <3>. QED BY <3>1 DEF Arrived, Others
  <2>. QED BY <2>1, <2>3
<1>6. ASSUME NEW q \in Others(r) PROVE Hears(r, q, s.out[q])
  <2>1. CASE q = x
    BY <1>1, <1>5, <1>6, <2>1 DEF Hears
  <2>2. CASE q # x
    BY <1>1, <1>5, <1>6, <2>2 DEF Hears, Others
  <2>. QED BY <2>1, <2>2
<1>7. StepOf(r, s.out)
  BY <1>2, <1>5, <1>6 DEF StepOf
<1>. QED BY <1>2, <1>5, <1>7, StepKeepsAll

-----------------------------------------------------------------------------
(* Calls and handlers *)

\* A handler that leaves the event as it is and sends nothing.
LEMMA NothingKeeps ==
  ASSUME ReadyIInv, NEW r \in System, NEW x \in System, inbox[r][x] # <<>>,
         Answered(r, x, At(r)),
         x \in Others(r) => Learns(r, x, <<>>)
  PROVE  ReadyIInv'
<1> DEFINE s == At(r)
<1>1. /\ node \in [System -> ReadyEventNode \cup {NoEvent}] /\ ~Waits(r, r) /\ OwnEventAgrees(r)
  BY DEF ReadyIInv, ReadyTypeOK
<1>2. s.node = node[r] /\ \A q \in Others(r) : s.out[q] = <<>>
  BY DEF At, Nothing, Others
<1> HIDE DEF s
<1>3. /\ node' = node /\ UNCHANGED <<forgetters, forcers>> /\ s.node \in ReadyEventNode \cup {NoEvent}
  BY <1>1, <1>2 DEF Answered, Now, s
<1>4. /\ ~Waits(r, r)' /\ OwnEventAgrees(r)' /\ (Known(r)' <=> Known(r)) /\ StatusOf(r)' = StatusOf(r)
      /\ \A q : (Waits(r, q)' <=> Waits(r, q)) /\ Entry(r, q)' = Entry(r, q)
  BY <1>1, <1>3 DEF Waits, Known, StatusOf, Entry, OwnEventAgrees, AnyUnset, At, Waiting
<1>5. \A q \in Others(r) : Deals(r, q, s.out[q])
  BY <1>2, <1>4 DEF Deals
<1>. QED BY <1>2, <1>3, <1>4, <1>5, AnswerKeeps DEF s

\* A call of the application that ends with UpdateReadyStatus.
LEMMA CallUpdates ==
  ASSUME ReadyIInv, NEW r \in System, NEW s, Prepared(r, s), Called(r, UpdateReadyStatus(s)),
         forgetters' \in {forgetters, forgetters \cup {r}},
         forcers' \in {forcers, forcers \cup {r}},
         r \in forcers' \ forgetters' => s.node.eventStatus = Forced,
         \A q \in Others(r) : q \in Waiting(s) /\ Waits(r, q) =>
           s.node.systemList[q].lastReceivedStatus = Entry(r, q).lastReceivedStatus
  PROVE  ReadyIInv'
<1>1. PICK t : t = UpdateReadyStatus(s)
  OBVIOUS
<1>2. Now(r, t) /\ PassesUnasked(r, t.out)
  BY <1>1 DEF Called
<1>3. /\ t.node \in ReadyEventNode
      /\ Known(r)' /\ ~Waits(r, r)' /\ OwnEventAgrees(r)'
      /\ s.node.eventStatus = Forced => StatusOf(r)' = Forced
      /\ \A q \in Others(r) :
           /\ Deals(r, q, t.out[q])
           /\ q \in Waiting(s) =>
                Entry(r, q)'.lastReceivedStatus = s.node.systemList[q].lastReceivedStatus
           /\ Waits(r, q)' <=> q \in Waiting(s)
  BY <1>1, <1>2, UpdatedDeals
<1>4. Known(r) /\ StatusOf(r) = Forced => StatusOf(r)' = Forced
  BY <1>3 DEF Prepared
<1>. QED BY <1>2, <1>3, <1>4, CallKeeps

\* A handler that ends with UpdateReadyStatus.
LEMMA AnswerUpdates ==
  ASSUME ReadyIInv, NEW r \in System, NEW x \in System, inbox[r][x] # <<>>,
         NEW s, Prepared(r, s), Answered(r, x, UpdateReadyStatus(s)), Known(r),
         \A q \in Others(r) \ {x} : q \in Waiting(s) /\ Waits(r, q) =>
           s.node.systemList[q].lastReceivedStatus = Entry(r, q).lastReceivedStatus,
         LET m == Head(inbox[r][x])
         IN /\ m.id = "UPDATE" /\ m.eventStatus # Forced /\ x \in Waiting(s) =>
                 s.node.systemList[x].lastReceivedStatus = m.eventStatus
            /\ m.id # "UPDATE" => m = Closed /\ x \notin Waiting(s)
            /\ m # Update(Forced)
  PROVE  ReadyIInv'
<1>1. PICK t : t = UpdateReadyStatus(s)
  OBVIOUS
<1>2. Answered(r, x, t) /\ Now(r, t) /\ forgetters' = forgetters /\ forcers' = forcers
  BY <1>1 DEF Answered
<1>3. r \in forcers' \ forgetters' => s.node.eventStatus = Forced
  BY <1>2 DEF ReadyIInv, OwnEventAgrees, Prepared, StatusOf, Forced
<1>4. /\ t.node \in ReadyEventNode
      /\ Known(r)' /\ ~Waits(r, r)' /\ OwnEventAgrees(r)'
      /\ s.node.eventStatus = Forced => StatusOf(r)' = Forced
      /\ \A q \in Others(r) :
           /\ Deals(r, q, t.out[q])
           /\ q \in Waiting(s) =>
                Entry(r, q)'.lastReceivedStatus = s.node.systemList[q].lastReceivedStatus
           /\ Waits(r, q)' <=> q \in Waiting(s)
  BY <1>1, <1>2, <1>3, UpdatedDeals
<1>5. Known(r) /\ StatusOf(r) = Forced => StatusOf(r)' = Forced
  BY <1>4 DEF Prepared
<1>6. ASSUME x \in Others(r) PROVE Learns(r, x, t.out[x])
  <2>1. Closed # Query /\ Closed.id # "UPDATE"
    BY DEF Closed, Query, Notice
  <2>. QED BY <1>4, <1>6, <2>1, Kinds DEF Learns
<1>7. \A q \in Others(r) \ {x} :
        Waits(r, q) /\ Waits(r, q)' => UNCHANGED Entry(r, q).lastReceivedStatus
  BY <1>4
<1>. QED BY <1>2, <1>4, <1>5, <1>6, <1>7, AnswerKeeps

\* Another status for an event, and another list.
LEMMA ChangedFacts ==
  ASSUME NEW n \in ReadyEventNode
  PROVE  /\ \A status \in Status :
              /\ [n EXCEPT !.eventStatus = status] \in ReadyEventNode
              /\ [n EXCEPT !.eventStatus = status].eventStatus = status
              /\ [n EXCEPT !.eventStatus = status].systemList = n.systemList
         /\ \A systems \in SUBSET System : \A list \in [systems -> RemoteStatus] :
              /\ [n EXCEPT !.systemList = list] \in ReadyEventNode
              /\ [n EXCEPT !.systemList = list].eventStatus = n.eventStatus
              /\ [n EXCEPT !.systemList = list].systemList = list
<1>1. /\ n = [eventStatus |-> n.eventStatus, systemList |-> n.systemList]
      /\ n.eventStatus \in Status /\ DOMAIN n.systemList \subseteq System
      /\ n.systemList \in [DOMAIN n.systemList -> RemoteStatus]
  BY NodeFacts
<1>2. ASSUME NEW status \in Status
      PROVE  [n EXCEPT !.eventStatus = status] = [eventStatus |-> status, systemList |-> n.systemList]
  BY <1>1
<1>3. ASSUME NEW list
      PROVE  [n EXCEPT !.systemList = list] = [eventStatus |-> n.eventStatus, systemList |-> list]
  BY <1>1
<1>. QED BY <1>1, <1>2, <1>3, NodeFacts

\* u is n with another list of systems.
Relisted(n, u, list) ==
  u \in ReadyEventNode /\ u.eventStatus = n.eventStatus /\ u.systemList = list

LEMMA RelistedFacts ==
  ASSUME NEW n \in ReadyEventNode, NEW systems \in SUBSET System, NEW list \in [systems -> RemoteStatus]
  PROVE  Relisted(n, [n EXCEPT !.systemList = list], list)
BY ChangedFacts DEF Relisted

\* The event a call or a handler begins with.
LEMMA CreatedFacts ==
  ASSUME ReadyIInv, NEW r \in System, NEW status \in Status, NEW s,
         s = Created(r, status) \/ (Known(r) /\ s = At(r))
  PROVE  /\ s = [node |-> s.node, out |-> s.out] /\ s.node \in ReadyEventNode
         /\ s.out = Nothing /\ \A q \in System : s.out[q] = <<>>
         /\ r \notin Waiting(s) /\ \A q : q \in Waiting(s) <=> Waits(r, q)
         /\ \A q \in Waiting(s) : s.node.systemList[q] = Entry(r, q)
         /\ Known(r) => s.node = node[r] /\ s.node.eventStatus = StatusOf(r)
         /\ ~Known(r) => s.node = EventNode(status, {}) /\ s.node.eventStatus = status
<1>1. node \in [System -> ReadyEventNode \cup {NoEvent}] /\ ~Waits(r, r)
  BY DEF ReadyIInv, ReadyTypeOK
<1>2. \A q \in System : Nothing[q] = <<>>
  BY DEF Nothing
<1>3. CASE Known(r)
  <2>1. s = [node |-> node[r], out |-> Nothing]
    BY <1>3 DEF Created, At
  <2>2. node[r] \in ReadyEventNode
    BY <1>1, <1>3 DEF Known
  <2>3. \A q : q \in Waiting(s) <=> Waits(r, q)
    BY <1>3, <2>1 DEF Waiting, Waits
  <2>. QED BY <1>1, <1>2, <1>3, <2>1, <2>2, <2>3 DEF Waiting, Entry, StatusOf
<1>4. CASE ~Known(r)
  <2>1. s = [node |-> EventNode(status, {}), out |-> Nothing]
    BY <1>4 DEF Created
  <2> DEFINE list == [q \in {} |-> NewSystem]
  <2>2. EventNode(status, {}) = [eventStatus |-> status, systemList |-> list]
    BY DEF EventNode
  <2>3. list \in [{} -> RemoteStatus] /\ {} \in SUBSET System
    OBVIOUS
  <2> HIDE DEF list
  <2>4. EventNode(status, {}) \in ReadyEventNode
    <3>1. \A l \in [{} -> RemoteStatus] : [eventStatus |-> status, systemList |-> l] \in ReadyEventNode
      BY <2>3, NodeFacts
    <3>. QED BY <2>2, <2>3, <3>1
  <2>5. Waiting(s) = {} /\ \A q : ~Waits(r, q)
    BY <1>4, <2>1, <2>2, <2>3 DEF Waiting, Waits
  <2>. QED BY <1>2, <1>4, <2>1, <2>2, <2>4, <2>5
<1>. QED BY <1>3, <1>4

\* SetEvent creates the event, or changes it when it is not forced.
LEMMA SetEventKeeps ==
  ASSUME ReadyIInv, NEW r \in System, NEW isReady \in BOOLEAN, SetEvent(r, isReady)
  PROVE  ReadyIInv'
<1> DEFINE status == IF isReady THEN "SET" ELSE "UNSET"
<1>1. status \in Status /\ status # Forced /\ OwnEventAgrees(r)
      /\ UNCHANGED <<forgetters, forcers>>
  BY DEF Status, Forced, ReadyIInv, SetEvent
<1>2. CASE ~Known(r)
  <2>1. PICK s : s = Created(r, status)
    OBVIOUS
  <2>2. /\ s.node \in ReadyEventNode /\ s.node = EventNode(status, {})
        /\ \A q \in System : s.out[q] = <<>>
    BY <1>1, <1>2, <2>1, CreatedFacts
  <2>3. Now(r, s) /\ PassesUnasked(r, s.out)
    BY <1>2, <2>1 DEF SetEvent, Called
  <2>4. node'[r] = s.node
    BY <2>3 DEF Now, ReadyIInv, ReadyTypeOK
  <2>5. DOMAIN node'[r].systemList = {} /\ node'[r].eventStatus = status
    BY <2>2, <2>4 DEF EventNode
  <2>6. ~Waits(r, r)' /\ \A q : ~Waits(r, q) /\ ~Waits(r, q)'
    BY <1>2, <2>5 DEF Waits
  <2>7. OwnEventAgrees(r)'
    BY <1>1, <1>2, <2>5 DEF OwnEventAgrees
  <2>8. \A q \in Others(r) : Deals(r, q, s.out[q])
    BY <2>2, <2>6 DEF Deals, Others
  <2>. QED BY <1>1, <1>2, <2>2, <2>3, <2>6, <2>7, <2>8, CallKeeps
<1>3. CASE Known(r)
  <2>1. PICK s : s = [At(r) EXCEPT !.node.eventStatus = status]
    OBVIOUS
  <2>2. PICK a : a = At(r)
    OBVIOUS
  <2>3. /\ a = [node |-> a.node, out |-> a.out] /\ a.node \in ReadyEventNode
        /\ \A q \in System : a.out[q] = <<>>
        /\ r \notin Waiting(a) /\ \A q : q \in Waiting(a) <=> Waits(r, q)
        /\ \A q \in Waiting(a) : a.node.systemList[q] = Entry(r, q)
    BY <1>1, <1>3, <2>2, CreatedFacts
  <2>4. s = [node |-> [a.node EXCEPT !.eventStatus = status], out |-> a.out]
    BY <2>1, <2>2, <2>3
  <2>5. /\ s.node \in ReadyEventNode /\ s.node.eventStatus = status
        /\ s.node.systemList = a.node.systemList /\ s.out = a.out
    <3>1. PICK n \in ReadyEventNode : n = a.node
      BY <2>3
    <3>2. /\ [n EXCEPT !.eventStatus = status] \in ReadyEventNode
          /\ [n EXCEPT !.eventStatus = status].eventStatus = status
          /\ [n EXCEPT !.eventStatus = status].systemList = n.systemList
      BY <1>1, ChangedFacts
    <3>. QED BY <2>4, <3>1, <3>2
  <2>6. Waiting(s) = Waiting(a)
    BY <2>5 DEF Waiting
  <2>7. StatusOf(r) # Forced /\ Called(r, UpdateReadyStatus(s))
    BY <1>3, <2>1 DEF SetEvent, StatusOf, Forced
  <2>8. Prepared(r, s)
    BY <2>3, <2>4, <2>5, <2>6, <2>7 DEF Prepared, Others
  <2>9. r \notin forcers' \ forgetters'
    BY <1>1, <2>7 DEF OwnEventAgrees, StatusOf, Forced
  <2>. QED BY <1>1, <2>3, <2>5, <2>6, <2>7, <2>8, <2>9, CallUpdates
<1>. QED BY <1>2, <1>3

\* ForceCompletion tells all.
LEMMA ForceCompletionKeeps ==
  ASSUME ReadyIInv, NEW r \in System, ForceCompletion(r)
  PROVE  ReadyIInv'
<1>1. PICK c : c = Created(r, "SET")
  OBVIOUS
<1>2. PICK s : s = [c EXCEPT !.node.eventStatus = "FORCE_ALL_SET"]
  OBVIOUS
<1>3. /\ c = [node |-> c.node, out |-> c.out] /\ c.node \in ReadyEventNode
      /\ \A q \in System : c.out[q] = <<>>
      /\ r \notin Waiting(c) /\ \A q : q \in Waiting(c) <=> Waits(r, q)
      /\ \A q \in Waiting(c) : c.node.systemList[q] = Entry(r, q)
  <2>1. "SET" \in Status
    BY DEF Status
  <2>. QED BY <1>1, <2>1, CreatedFacts
<1>4. s = [node |-> [c.node EXCEPT !.eventStatus = Forced], out |-> c.out]
  BY <1>2, <1>3 DEF Forced
<1>5. /\ s.node \in ReadyEventNode /\ s.node.eventStatus = Forced
      /\ s.node.systemList = c.node.systemList /\ s.out = c.out
  <2>1. PICK n \in ReadyEventNode : n = c.node
    BY <1>3
  <2>2. /\ [n EXCEPT !.eventStatus = Forced] \in ReadyEventNode
        /\ [n EXCEPT !.eventStatus = Forced].eventStatus = Forced
        /\ [n EXCEPT !.eventStatus = Forced].systemList = n.systemList
    BY ChangedFacts, Kinds
  <2>. QED BY <1>4, <2>1, <2>2
<1>6. Waiting(s) = Waiting(c)
  BY <1>5 DEF Waiting
<1>7. Called(r, UpdateReadyStatus(s)) /\ forcers' = forcers \cup {r} /\ forgetters' = forgetters
  BY <1>1, <1>2 DEF ForceCompletion
<1>8. Prepared(r, s)
  BY <1>3, <1>4, <1>5, <1>6 DEF Prepared, Others
<1>. QED BY <1>3, <1>5, <1>6, <1>7, <1>8, CallUpdates

\* DeleteEvent sends nothing; the system is not relied upon any more.
LEMMA DeleteEventKeeps ==
  ASSUME ReadyIInv, NEW r \in System, DeleteEvent(r)
  PROVE  ReadyIInv'
<1>1. /\ node \in [System -> ReadyEventNode \cup {NoEvent}]
      /\ inbox \in [System -> [System -> Seq(Handled)]]
      /\ forgetters \subseteq System
  BY DEF ReadyIInv, ReadyTypeOK, LinksTypeOK, Handled
<1>2. /\ node' = [node EXCEPT ![r] = NoEvent] /\ inbox' = inbox /\ linked' = linked
      /\ forgetters' = forgetters \cup {r} /\ forcers' = forcers
  BY DEF DeleteEvent, linkVars
<1>3. ~Known(r)' /\ \A q : ~Waits(r, q)'
  BY <1>1, <1>2 DEF Known, Waits
<1>4. OwnEventAgrees(r)'
  BY <1>2, <1>3 DEF OwnEventAgrees
<1>5. ASSUME NEW q \in Others(r)
      PROVE  /\ q \in System /\ q # r /\ node'[q] = node[q]
             /\ Deals(r, q, Nothing[q]) /\ Hears(r, q, Nothing[q])
             /\ inbox'[q][r] = IF Linked(q, r) THEN inbox[q][r] \o Nothing[q] ELSE inbox[q][r]
  <2>1. q \in System /\ q # r
    BY <1>5 DEF Others
  <2>2. Nothing[q] = <<>> /\ inbox[q][r] \in Seq(Handled)
    BY <1>1, <2>1 DEF Nothing
  <2>3. inbox[q][r] \o <<>> = inbox[q][r]
    BY <2>2
  <2>. QED BY <1>1, <1>2, <1>3, <2>1, <2>2, <2>3 DEF Deals, Hears
<1>6. StepOf(r, Nothing)
  BY <1>2, <1>5 DEF StepOf
<1>. QED BY <1>1, <1>2, <1>3, <1>4, <1>6, StepKeepsAll

\* What AddToWaitListInternal leaves: those that are new are asked.
LEMMA AddedFacts ==
  ASSUME NEW c, c = [node |-> c.node, out |-> c.out], c.node \in ReadyEventNode,
         \A q \in System : c.out[q] = <<>>,
         NEW added \in SUBSET System
  PROVE  LET s == AddToWaitListInternal(c, added)
         IN /\ s = [node |-> s.node, out |-> s.out] /\ s.node \in ReadyEventNode
            /\ s.node.eventStatus = c.node.eventStatus
            /\ Waiting(s) = Waiting(c) \cup added
            /\ \A q \in System :
                 IF q \in added \ Waiting(c)
                 THEN s.node.systemList[q] = NewSystem /\ s.out[q] = <<Query>>
                 ELSE /\ s.out[q] = <<>>
                      /\ q \in Waiting(c) => s.node.systemList[q] = c.node.systemList[q]
<1> DEFINE s == AddToWaitListInternal(c, added)
           new == added \ Waiting(c)
           list == c.node.systemList
           longer == [q \in DOMAIN list \cup new |-> IF q \in new THEN NewSystem ELSE list[q]]
<1>1. /\ s.node = [c.node EXCEPT !.systemList = longer] /\ s = [node |-> s.node, out |-> s.out]
      /\ s.out = [q \in System |-> IF q \in new THEN Append(c.out[q], Query) ELSE c.out[q]]
  BY DEF AddToWaitListInternal
<1>2. /\ DOMAIN list \subseteq System /\ list \in [DOMAIN list -> RemoteStatus]
      /\ NewSystem \in RemoteStatus /\ Append(<<>>, Query) = <<Query>>
  <2>1. NewSystem \in RemoteStatus
    BY DEF NewSystem, RemoteStatus, Status
  <2>. QED BY <2>1, NodeFacts, AppendToShort, Kinds
<1>3. DOMAIN list \cup new \in SUBSET System /\ longer \in [DOMAIN list \cup new -> RemoteStatus]
  BY <1>2
<1> HIDE DEF s, longer
<1>4. /\ s.node \in ReadyEventNode /\ s.node.eventStatus = c.node.eventStatus
      /\ s.node.systemList = longer
  <2>1. PICK n \in ReadyEventNode : n = c.node
    OBVIOUS
  <2>2. /\ [n EXCEPT !.systemList = longer] \in ReadyEventNode
        /\ [n EXCEPT !.systemList = longer].eventStatus = n.eventStatus
        /\ [n EXCEPT !.systemList = longer].systemList = longer
    <3>1. PICK systems \in SUBSET System : longer \in [systems -> RemoteStatus]
      BY <1>3
    <3>2. PICK l \in [systems -> RemoteStatus] : l = longer
      BY <3>1
    <3>3. /\ [n EXCEPT !.systemList = l] \in ReadyEventNode
          /\ [n EXCEPT !.systemList = l].eventStatus = n.eventStatus
          /\ [n EXCEPT !.systemList = l].systemList = l
      BY RelistedFacts DEF Relisted
    <3>. QED BY <3>2, <3>3
  <2>. QED BY <1>1, <2>1, <2>2
<1>5. Waiting(s) = Waiting(c) \cup added
  BY <1>4 DEF Waiting, longer
<1>6. ASSUME NEW q \in System
      PROVE  IF q \in new THEN s.node.systemList[q] = NewSystem /\ s.out[q] = <<Query>>
             ELSE /\ s.out[q] = <<>>
                  /\ q \in Waiting(c) => s.node.systemList[q] = list[q]
  <2>1. c.out[q] = <<>>
    BY <1>6
  <2>2. CASE q \in new
    BY <1>1, <1>2, <1>4, <2>1, <2>2 DEF longer
  <2>3. CASE q \notin new
    BY <1>1, <1>4, <2>1, <2>3 DEF longer, Waiting
  <2>. QED BY <2>2, <2>3
<1>. QED BY <1>1, <1>4, <1>5, <1>6 DEF s

\* What is left of an event without some systems.
LEMMA WithoutFacts ==
  ASSUME NEW c, c = [node |-> c.node, out |-> c.out], c.node \in ReadyEventNode, NEW gone
  PROVE  LET s == Without(c, gone)
         IN /\ s = [node |-> s.node, out |-> s.out] /\ s.node \in ReadyEventNode
            /\ s.node.eventStatus = c.node.eventStatus /\ s.out = c.out
            /\ Waiting(s) = Waiting(c) \ gone
            /\ \A q \in Waiting(s) : s.node.systemList[q] = c.node.systemList[q]
<1> DEFINE s == Without(c, gone)
           list == c.node.systemList
           shorter == [q \in DOMAIN list \ gone |-> list[q]]
<1>1. /\ s.node = [c.node EXCEPT !.systemList = shorter] /\ s = [node |-> s.node, out |-> s.out]
      /\ s.out = c.out
  BY DEF Without
<1>2. DOMAIN list \subseteq System /\ list \in [DOMAIN list -> RemoteStatus]
  BY NodeFacts
<1>3. DOMAIN list \ gone \in SUBSET System /\ shorter \in [DOMAIN list \ gone -> RemoteStatus]
  BY <1>2
<1> HIDE DEF s, shorter
<1>4. /\ s.node \in ReadyEventNode /\ s.node.eventStatus = c.node.eventStatus
      /\ s.node.systemList = shorter
  <2>1. PICK n \in ReadyEventNode : n = c.node
    OBVIOUS
  <2>2. /\ [n EXCEPT !.systemList = shorter] \in ReadyEventNode
        /\ [n EXCEPT !.systemList = shorter].eventStatus = n.eventStatus
        /\ [n EXCEPT !.systemList = shorter].systemList = shorter
    BY <1>3, ChangedFacts
  <2>. QED BY <1>1, <2>1, <2>2
<1>. QED BY <1>1, <1>4 DEF s, shorter, Waiting

\* Systems are added that are connected, and the rest of the list is as it was.
LEMMA AddToWaitListKeeps ==
  ASSUME ReadyIInv, NEW r \in System, AddToWaitList(r)
  PROVE  ReadyIInv'
<1>1. PICK c : c = Created(r, "UNSET")
  OBVIOUS
<1>2. PICK added \in SUBSET {q \in System : Linked(r, q)} :
        Called(r, UpdateReadyStatus(AddToWaitListInternal(c, added)))
  BY <1>1 DEF AddToWaitList
<1>3. PICK s : s = AddToWaitListInternal(c, added)
  OBVIOUS
<1>4. /\ c = [node |-> c.node, out |-> c.out] /\ c.node \in ReadyEventNode
      /\ \A q \in System : c.out[q] = <<>>
      /\ r \notin Waiting(c) /\ \A q : q \in Waiting(c) <=> Waits(r, q)
      /\ \A q \in Waiting(c) : c.node.systemList[q] = Entry(r, q)
      /\ Known(r) => c.node.eventStatus = StatusOf(r)
  BY <1>1, CreatedFacts, Kinds
<1>5. r \notin added /\ added \in SUBSET System
  BY <1>2 DEF ReadyIInv, ReadyTypeOK, LinksTypeOK, AllPairs, Linked
<1>6. /\ s = [node |-> s.node, out |-> s.out] /\ s.node \in ReadyEventNode
      /\ s.node.eventStatus = c.node.eventStatus
      /\ Waiting(s) = Waiting(c) \cup added
      /\ \A q \in System :
           IF q \in added \ Waiting(c)
           THEN s.node.systemList[q] = NewSystem /\ s.out[q] = <<Query>>
           ELSE /\ s.out[q] = <<>>
                /\ q \in Waiting(c) => s.node.systemList[q] = c.node.systemList[q]
  BY <1>3, <1>4, <1>5, AddedFacts
<1>7. Called(r, UpdateReadyStatus(s)) /\ UNCHANGED <<forgetters, forcers>>
  BY <1>2, <1>3 DEF AddToWaitList
<1>8. Prepared(r, s)
  BY <1>2, <1>4, <1>5, <1>6 DEF Prepared, Others
<1>9. r \in forcers' \ forgetters' => s.node.eventStatus = Forced
  BY <1>4, <1>6, <1>7 DEF ReadyIInv, OwnEventAgrees, StatusOf, Forced
<1>10. \A q \in Others(r) : q \in Waiting(s) /\ Waits(r, q) =>
         s.node.systemList[q].lastReceivedStatus = Entry(r, q).lastReceivedStatus
  BY <1>4, <1>6 DEF Others
<1>. QED BY <1>7, <1>8, <1>9, <1>10, CallUpdates

\* RemoveFromWaitList tells those that stay; the system is not relied upon any more.
LEMMA RemoveFromWaitListKeeps ==
  ASSUME ReadyIInv, NEW r \in System, RemoveFromWaitList(r)
  PROVE  ReadyIInv'
<1>1. PICK c : c = At(r)
  OBVIOUS
<1>2. PICK gone : Called(r, UpdateReadyStatus(Without(c, gone)))
  BY <1>1 DEF RemoveFromWaitList
<1>3. PICK s : s = Without(c, gone)
  OBVIOUS
<1>4. /\ c = [node |-> c.node, out |-> c.out] /\ c.node \in ReadyEventNode
      /\ \A q \in System : c.out[q] = <<>>
      /\ r \notin Waiting(c) /\ \A q : q \in Waiting(c) <=> Waits(r, q)
      /\ \A q \in Waiting(c) : c.node.systemList[q] = Entry(r, q)
      /\ c.node.eventStatus = StatusOf(r)
  BY <1>1, CreatedFacts, Kinds DEF RemoveFromWaitList
<1>5. /\ s = [node |-> s.node, out |-> s.out] /\ s.node \in ReadyEventNode
      /\ s.node.eventStatus = c.node.eventStatus /\ s.out = c.out
      /\ Waiting(s) = Waiting(c) \ gone
      /\ \A q \in Waiting(s) : s.node.systemList[q] = c.node.systemList[q]
  BY <1>3, <1>4, WithoutFacts
<1>6. /\ Called(r, UpdateReadyStatus(s))
      /\ forgetters' = forgetters \cup {r} /\ UNCHANGED forcers
  BY <1>2, <1>3 DEF RemoveFromWaitList
<1>7. forgetters \subseteq System /\ r \in forgetters'
  BY <1>6 DEF ReadyIInv, ReadyTypeOK
<1>8. Prepared(r, s)
  BY <1>4, <1>5, <1>7 DEF Prepared, Others
<1>9. \A q \in Others(r) : q \in Waiting(s) /\ Waits(r, q) =>
        s.node.systemList[q].lastReceivedStatus = Entry(r, q).lastReceivedStatus
  BY <1>4, <1>5 DEF Others
<1>. QED BY <1>6, <1>7, <1>8, <1>9, CallUpdates

\* s is c with another entry of x.
EntryIs(c, s, x, entry) ==
  /\ s = [node |-> s.node, out |-> s.out] /\ s.node \in ReadyEventNode
  /\ s.node.eventStatus = c.node.eventStatus /\ s.out = c.out
  /\ Waiting(s) = Waiting(c)
  /\ s.node.systemList[x] = entry
  /\ \A q \in Waiting(c) \ {x} : s.node.systemList[q] = c.node.systemList[q]

\* What is kept of another system changes.
LEMMA EntryFacts ==
  ASSUME NEW c, c = [node |-> c.node, out |-> c.out], c.node \in ReadyEventNode,
         NEW x \in Waiting(c), NEW entry \in RemoteStatus
  PROVE  EntryIs(c, [c EXCEPT !.node.systemList[x] = entry], x, entry)
<1> DEFINE s == [c EXCEPT !.node.systemList[x] = entry]
           list == c.node.systemList
           new == [list EXCEPT ![x] = entry]
<1>1. /\ s.node = [c.node EXCEPT !.systemList = new] /\ s = [node |-> s.node, out |-> s.out]
      /\ s.out = c.out
  OBVIOUS
<1>2. DOMAIN list \subseteq System /\ list \in [DOMAIN list -> RemoteStatus] /\ x \in DOMAIN list
  BY NodeFacts DEF Waiting
<1>3. /\ DOMAIN list \in SUBSET System /\ new \in [DOMAIN list -> RemoteStatus]
      /\ DOMAIN new = DOMAIN list /\ new[x] = entry
      /\ \A q \in DOMAIN list \ {x} : new[q] = list[q]
  BY <1>2
<1> HIDE DEF s, new
<1>4. /\ s.node \in ReadyEventNode /\ s.node.eventStatus = c.node.eventStatus
      /\ s.node.systemList = new
  <2>1. PICK n \in ReadyEventNode : n = c.node
    OBVIOUS
  <2>2. PICK systems \in SUBSET System : new \in [systems -> RemoteStatus]
    BY <1>3
  <2>3. PICK l \in [systems -> RemoteStatus] : l = new
    BY <2>2
  <2>4. /\ [n EXCEPT !.systemList = l] \in ReadyEventNode
        /\ [n EXCEPT !.systemList = l].eventStatus = n.eventStatus
        /\ [n EXCEPT !.systemList = l].systemList = l
    BY ChangedFacts
  <2>. QED BY <1>1, <2>1, <2>3, <2>4
<1>5. Waiting(s) = Waiting(c)
  BY <1>3, <1>4 DEF Waiting
<1>6. EntryIs(c, s, x, entry)
  BY <1>1, <1>3, <1>4, <1>5 DEF EntryIs, Waiting
<1>. QED BY <1>6 DEF s

\* The next message of x.
LEMMA NextFacts ==
  ASSUME ReadyIInv, NEW r \in System, NEW x \in System, inbox[r][x] # <<>>
  PROVE  /\ Head(inbox[r][x]) \in Handled
         /\ x # r => Has(inbox[r][x], Head(inbox[r][x]))
<1>1. inbox[r][x] \in Seq(Handled)
  BY DEF ReadyIInv, ReadyTypeOK, LinksTypeOK, Handled
<1>. QED BY <1>1, TailFacts

\* An update from a system that is waited for is believed, forced or not.
LEMMA OnReadyEventPacketUpdateKeeps ==
  ASSUME ReadyIInv, NEW r \in System, NEW x \in System, OnReadyEventPacketUpdate(r, x)
  PROVE  ReadyIInv'
<1> DEFINE m == Head(inbox[r][x])
           next == [At(r) EXCEPT !.node.systemList[x].lastReceivedStatus = m.eventStatus]
<1>1. /\ inbox[r][x] # <<>> /\ m.id = "UPDATE" /\ m.eventStatus \in Status \ {Forced}
      /\ m # Query /\ m # Closed /\ m # Update(Forced)
  <2>1. inbox[r][x] # <<>> /\ m.id = "UPDATE" /\ m.eventStatus # Forced
    BY DEF OnReadyEventPacketUpdate, HasNext, Forced
  <2>. QED BY <2>1, NextFacts, Kinds DEF Query, Closed, Notice
<1> HIDE DEF m
<1>2. CASE ~Known(r) \/ x \notin Waiting(At(r)) \/ Entry(r, x).lastReceivedStatus = m.eventStatus
  <2>1. Answered(r, x, At(r))
    BY <1>2 DEF OnReadyEventPacketUpdate, Entry, m
  <2>2. node' = node
    BY <2>1 DEF Answered, Now, At, ReadyIInv, ReadyTypeOK
  <2>3. Waits(r, x) => Entry(r, x)'.lastReceivedStatus = m.eventStatus
    BY <1>2, <2>2 DEF Waits, Waiting, At, Entry
  <2>4. Learns(r, x, <<>>)
    BY <1>1, <2>3 DEF Learns, m
  <2>. QED BY <1>1, <2>1, <2>4, NothingKeeps
<1>3. CASE Known(r) /\ x \in Waiting(At(r)) /\ Entry(r, x).lastReceivedStatus # m.eventStatus
  <2>1. PICK c : c = At(r)
    OBVIOUS
  <2>2. /\ c = [node |-> c.node, out |-> c.out] /\ c.node \in ReadyEventNode
        /\ \A q \in System : c.out[q] = <<>>
        /\ r \notin Waiting(c) /\ \A q : q \in Waiting(c) <=> Waits(r, q)
        /\ \A q \in Waiting(c) : c.node.systemList[q] = Entry(r, q)
        /\ c.node = node[r] /\ c.node.eventStatus = StatusOf(r)
    BY <1>3, <2>1, CreatedFacts, Kinds
  <2>3. PICK entry : entry = [c.node.systemList[x] EXCEPT !.lastReceivedStatus = m.eventStatus]
    OBVIOUS
  <2>4. /\ x \in Waiting(c) /\ entry \in RemoteStatus /\ entry.lastReceivedStatus = m.eventStatus
        /\ entry.lastSentStatus = Entry(r, x).lastSentStatus
    <3>1. c.node.systemList[x] \in RemoteStatus
      BY <1>3, <2>1, <2>2, NodeFacts DEF Waiting
    <3>. QED BY <1>1, <1>3, <2>1, <2>2, <2>3, <3>1 DEF RemoteStatus, Forced
  <2>5. PICK s : s = [c EXCEPT !.node.systemList[x] = entry]
    OBVIOUS
  <2>6. /\ s = [node |-> s.node, out |-> s.out] /\ s.node \in ReadyEventNode
        /\ s.node.eventStatus = c.node.eventStatus /\ s.out = c.out
        /\ Waiting(s) = Waiting(c)
        /\ s.node.systemList[x] = entry
        /\ \A q \in Waiting(c) \ {x} : s.node.systemList[q] = c.node.systemList[q]
    <3>1. c = [node |-> c.node, out |-> c.out] /\ c.node \in ReadyEventNode
      BY <2>2
    <3>2. x \in Waiting(c) /\ entry \in RemoteStatus
      BY <2>4
    <3>3. EntryIs(c, s, x, entry)
      BY <2>5, <3>1, <3>2, EntryFacts
    <3>. QED BY <3>3 DEF EntryIs
  <2>7. s = next
    BY <2>1, <2>3, <2>5
  <2>8. CASE StatusOf(r) # Forced
    <3>1. Answered(r, x, UpdateReadyStatus(s))
      BY <1>3, <2>7, <2>8 DEF OnReadyEventPacketUpdate, Entry, StatusOf, Forced, m
    <3>2. Prepared(r, s)
      BY <2>2, <2>4, <2>6, <2>8 DEF Prepared, Others
    <3>3. \A q \in Others(r) \ {x} : q \in Waiting(s) /\ Waits(r, q) =>
            s.node.systemList[q].lastReceivedStatus = Entry(r, q).lastReceivedStatus
      BY <2>2, <2>6
    <3>. QED BY <1>1, <1>3, <2>4, <2>6, <3>1, <3>2, <3>3, AnswerUpdates DEF m
  <2>9. CASE StatusOf(r) = Forced
    <3>1. Answered(r, x, s)
      BY <1>3, <2>7, <2>9 DEF OnReadyEventPacketUpdate, Entry, StatusOf, Forced, m
    <3>2. node'[r] = s.node /\ UNCHANGED <<forgetters, forcers>>
      BY <3>1 DEF Answered, Now, ReadyIInv, ReadyTypeOK
    <3>3. Known(r)' /\ StatusOf(r)' = Forced /\ \A q : Entry(r, q)' = s.node.systemList[q]
      BY <2>2, <2>6, <2>9, <3>2, NodeFacts DEF Known, StatusOf, Entry
    <3>4. \A q : Waits(r, q)' <=> Waits(r, q)
      BY <2>2, <2>6, <3>2, <3>3 DEF Waits, Waiting
    <3>5. \A q : Waits(r, q) => Entry(r, q)'.lastSentStatus = Entry(r, q).lastSentStatus
      BY <2>2, <2>4, <2>6, <3>3
    <3>6. OwnEventAgrees(r)'
      <4>1. r \in forcers \ forgetters =>
              \A q \in DOMAIN node[r].systemList : Entry(r, q).lastSentStatus = Forced
        BY DEF ReadyIInv, OwnEventAgrees, Entry, Forced
      <4>2. \A q \in DOMAIN node'[r].systemList : q \in DOMAIN node[r].systemList /\ Waits(r, q)
        BY <2>2, <2>6, <3>2 DEF Waiting
      <4>. QED BY <3>2, <3>3, <3>5, <4>1, <4>2 DEF OwnEventAgrees, Entry, StatusOf, Forced
    <3>7. \A q \in Others(r) : Deals(r, q, s.out[q])
      BY <2>2, <2>6, <2>9, <3>3, <3>4, <3>5 DEF Deals, Others
    <3>8. \A q \in Others(r) \ {x} :
            Waits(r, q) /\ Waits(r, q)' => UNCHANGED Entry(r, q).lastReceivedStatus
      BY <2>2, <2>6, <3>3
    <3>9. Learns(r, x, s.out[x])
      BY <1>1, <2>4, <2>6, <3>3 DEF Learns, m
    <3>10. ~Waits(r, r)'
      BY <2>2, <3>4
    <3>. QED BY <1>1, <2>6, <3>1, <3>3, <3>6, <3>7, <3>8, <3>9, <3>10, AnswerKeeps
  <2>. QED BY <2>8, <2>9
<1>. QED BY <1>2, <1>3

\* A forced completion is taken over and not passed on.
LEMMA OnReadyEventForceAllSetKeeps ==
  ASSUME ReadyIInv, NEW r \in System, NEW x \in System, OnReadyEventForceAllSet(r, x)
  PROVE  ReadyIInv'
<1> DEFINE m == Head(inbox[r][x])
<1>1. inbox[r][x] # <<>> /\ m.id = "UPDATE" /\ m.eventStatus = Forced /\ m # Query /\ m # Closed
  BY DEF OnReadyEventForceAllSet, HasNext, Forced, Query, Closed, Notice
<1> HIDE DEF m
<1>2. CASE ~Known(r)
  <2>1. Answered(r, x, At(r))
    BY <1>2 DEF OnReadyEventForceAllSet
  <2>2. Learns(r, x, <<>>)
    BY <1>1, <1>2 DEF Learns, m, Waits
  <2>. QED BY <1>1, <2>1, <2>2, NothingKeeps
<1>3. CASE Known(r)
  <2>1. PICK c : c = At(r)
    OBVIOUS
  <2>2. /\ c = [node |-> c.node, out |-> c.out] /\ c.node \in ReadyEventNode
        /\ \A q \in System : c.out[q] = <<>>
        /\ r \notin Waiting(c) /\ \A q : q \in Waiting(c) <=> Waits(r, q)
        /\ c.node = node[r]
    BY <1>3, <2>1, CreatedFacts, Kinds
  <2>3. PICK s : s = [c EXCEPT !.node.eventStatus = "FORCE_ALL_SET"]
    OBVIOUS
  <2>4. s.node = [c.node EXCEPT !.eventStatus = Forced] /\ s.out = c.out
    BY <2>2, <2>3 DEF Forced
  <2>5. /\ s.node \in ReadyEventNode /\ s.node.eventStatus = Forced
        /\ s.node.systemList = c.node.systemList
    <3>1. PICK n \in ReadyEventNode : n = c.node
      BY <2>2
    <3>2. /\ [n EXCEPT !.eventStatus = Forced] \in ReadyEventNode
          /\ [n EXCEPT !.eventStatus = Forced].eventStatus = Forced
          /\ [n EXCEPT !.eventStatus = Forced].systemList = n.systemList
      BY ChangedFacts, Kinds
    <3>. QED BY <2>4, <3>1, <3>2
  <2>6. Answered(r, x, s)
    BY <1>3, <2>1, <2>3 DEF OnReadyEventForceAllSet
  <2>7. node'[r] = s.node /\ UNCHANGED <<forgetters, forcers>>
    BY <2>6 DEF Answered, Now, ReadyIInv, ReadyTypeOK
  <2>8. /\ Known(r)' /\ StatusOf(r)' = Forced /\ \A q : Entry(r, q)' = Entry(r, q)
        /\ DOMAIN node'[r].systemList = DOMAIN node[r].systemList
    BY <2>2, <2>5, <2>7, NodeFacts DEF Known, StatusOf, Entry
  <2>9. \A q : Waits(r, q)' <=> Waits(r, q)
    BY <1>3, <2>8 DEF Waits
  <2>10. OwnEventAgrees(r)'
    <3>1. r \in forcers \ forgetters =>
            \A q \in DOMAIN node[r].systemList : Entry(r, q).lastSentStatus = Forced
      BY DEF ReadyIInv, OwnEventAgrees, Entry, Forced
    <3>. QED BY <2>7, <2>8, <3>1 DEF OwnEventAgrees, Entry, StatusOf, Forced
  <2>11. \A q \in Others(r) : Deals(r, q, s.out[q])
    BY <2>2, <2>4, <2>8, <2>9 DEF Deals, Others
  <2>12. Learns(r, x, s.out[x])
    BY <1>1, <2>8 DEF Learns, m
  <2>. QED BY <1>1, <2>2, <2>5, <2>6, <2>8, <2>9, <2>10, <2>11, <2>12, AnswerKeeps
<1>. QED BY <1>2, <1>3

\* A query is answered unless UNSET is what was sent before.
LEMMA OnReadyEventQueryKeeps ==
  ASSUME ReadyIInv, NEW r \in System, NEW x \in System, OnReadyEventQuery(r, x)
  PROVE  ReadyIInv'
<1> DEFINE m == Head(inbox[r][x])
<1>1. inbox[r][x] # <<>> /\ m.id = "QUERY" /\ m # Closed /\ m # Update(Forced)
  BY DEF OnReadyEventQuery, HasNext, Update, Closed, Notice
<1> HIDE DEF m
<1>2. CASE /\ Answered(r, x, At(r))
           /\ ~Waits(r, x) \/ StatusOf(r) = "UNSET"
  <2>1. node' = node
    BY <1>2 DEF Answered, Now, At, ReadyIInv, ReadyTypeOK
  <2>2. Learns(r, x, <<>>)
    BY <1>1, <1>2, <2>1 DEF Learns, m, Entry
  <2>. QED BY <1>1, <1>2, <2>2, NothingKeeps
<1>3. CASE ~Waits(r, x)
  <2>1. Answered(r, x, At(r))
    BY <1>3 DEF OnReadyEventQuery, Waits, Waiting, At
  <2>. QED BY <1>2, <1>3, <2>1
<1>4. CASE Waits(r, x)
  <2>1. PICK c : c = At(r)
    OBVIOUS
  <2>2. /\ c = [node |-> c.node, out |-> c.out] /\ c.node \in ReadyEventNode
        /\ c.out = Nothing /\ \A q \in System : c.out[q] = <<>>
        /\ r \notin Waiting(c) /\ \A q : q \in Waiting(c) <=> Waits(r, q)
        /\ \A q \in Waiting(c) : c.node.systemList[q] = Entry(r, q)
        /\ c.node = node[r] /\ c.node.eventStatus = StatusOf(r)
    BY <1>4, <2>1, CreatedFacts, Kinds DEF Waits
  <2>3. Answered(r, x, SendReadyUpdate(c, x, TRUE))
    BY <1>4, <2>1 DEF OnReadyEventQuery, Waits, Waiting, At
  <2>4. CASE StatusOf(r) = Entry(r, x).lastSentStatus /\ StatusOf(r) = "UNSET"
    BY <1>2, <1>4, <2>1, <2>2, <2>3, <2>4 DEF SendReadyUpdate
  <2>5. CASE ~(StatusOf(r) = Entry(r, x).lastSentStatus /\ StatusOf(r) = "UNSET")
    <3>1. PICK status \in Status : status = StatusOf(r)
      BY <2>2, NodeFacts
    <3>2. PICK entry : entry = [c.node.systemList[x] EXCEPT !.lastSentStatus = status]
      OBVIOUS
    <3>3. /\ x \in Waiting(c) /\ x \in System /\ x # r
          /\ entry \in RemoteStatus /\ entry.lastSentStatus = status
          /\ entry.lastReceivedStatus = Entry(r, x).lastReceivedStatus
      <4>1. x \in Waiting(c) /\ c.node.systemList[x] \in RemoteStatus
        BY <1>4, <2>2, NodeFacts DEF Waiting
      <4>. QED BY <2>2, <3>1, <3>2, <4>1 DEF RemoteStatus
    <3>4. PICK u : u = [c EXCEPT !.node.systemList[x] = entry]
      OBVIOUS
    <3>5. /\ u = [node |-> u.node, out |-> u.out] /\ u.node \in ReadyEventNode
          /\ u.node.eventStatus = c.node.eventStatus /\ u.out = c.out
          /\ Waiting(u) = Waiting(c)
          /\ u.node.systemList[x] = entry
          /\ \A q \in Waiting(c) \ {x} : u.node.systemList[q] = c.node.systemList[q]
      <4>1. c = [node |-> c.node, out |-> c.out] /\ c.node \in ReadyEventNode
        BY <2>2
      <4>2. x \in Waiting(c) /\ entry \in RemoteStatus
        BY <3>3
      <4>3. EntryIs(c, u, x, entry)
        BY <3>4, <4>1, <4>2, EntryFacts
      <4>. QED BY <4>3 DEF EntryIs
    <3>6. PICK s : s = SendReadyUpdate(c, x, TRUE)
      OBVIOUS
    <3>7. s.node = u.node /\ s.out = [c.out EXCEPT ![x] = Append(@, Update(status))]
      <4>1. s = [c EXCEPT !.node.systemList[x].lastSentStatus = status,
                          !.out[x] = Append(@, Update(status))]
        BY <2>2, <2>5, <3>1, <3>3, <3>6 DEF SendReadyUpdate
      <4>. QED BY <2>2, <3>2, <3>4, <4>1
    <3>8. /\ s.out[x] = <<Update(status)>> /\ \A q \in System \ {x} : s.out[q] = <<>>
      <4>1. Append(<<>>, Update(status)) = <<Update(status)>>
        BY Kinds, AppendToShort
      <4>. QED BY <2>2, <3>3, <3>7, <4>1 DEF Nothing
    <3>9. Answered(r, x, s) /\ node'[r] = u.node /\ UNCHANGED <<forgetters, forcers>>
      BY <2>3, <3>6, <3>7 DEF Answered, Now, ReadyIInv, ReadyTypeOK
    <3>10. Known(r)' /\ StatusOf(r)' = status /\ \A q : Entry(r, q)' = u.node.systemList[q]
      BY <2>2, <3>1, <3>5, <3>9, NodeFacts DEF Known, StatusOf, Entry
    <3>11. \A q : Waits(r, q)' <=> Waits(r, q)
      BY <2>2, <3>5, <3>9, <3>10 DEF Waits, Waiting
    <3>12. \A q : Waits(r, q) =>
             /\ Entry(r, q)'.lastReceivedStatus = Entry(r, q).lastReceivedStatus
             /\ q # x => Entry(r, q)' = Entry(r, q)
      BY <2>2, <3>3, <3>5, <3>10
    <3>13. Entry(r, x)'.lastSentStatus = status
      BY <3>3, <3>5, <3>10
    <3>14. OwnEventAgrees(r)'
      <4>1. /\ status # Forced =>
                 \A q \in DOMAIN node[r].systemList : Entry(r, q).lastSentStatus = status
            /\ status = "SET" /\ DOMAIN node[r].systemList # {} => AnyUnset(At(r))
            /\ r \in forcers \ forgetters =>
                 /\ status = Forced
                 /\ \A q \in DOMAIN node[r].systemList : Entry(r, q).lastSentStatus = Forced
        BY <1>4, <3>1 DEF ReadyIInv, OwnEventAgrees, Entry, StatusOf, Forced, Waits
      <4>2. DOMAIN node'[r].systemList = DOMAIN node[r].systemList
            /\ \A q \in DOMAIN node[r].systemList : Waits(r, q)
        BY <2>2, <3>5, <3>9 DEF Waiting
      <4>3. AnyUnset(At(r)) => AnyUnset(At(r))'
        BY <3>12, <4>2 DEF AnyUnset, At, Waiting, Entry
      <4>4. \A q \in DOMAIN node[r].systemList :
              Entry(r, q)'.lastSentStatus \in {status, Entry(r, q).lastSentStatus}
        BY <3>12, <3>13, <4>2
      <4>5. \A q \in DOMAIN node'[r].systemList : r \in forcers \ forgetters \/ status # Forced =>
              Entry(r, q)'.lastSentStatus = status
        BY <4>1, <4>2, <4>4
      <4>. QED BY <3>9, <3>10, <4>1, <4>2, <4>3, <4>5 DEF OwnEventAgrees, Entry, StatusOf, Forced
    <3>15. ASSUME NEW q \in Others(r) PROVE Deals(r, q, s.out[q])
      <4>1. CASE q = x
        BY <1>4, <3>8, <3>10, <3>11, <3>13, <4>1 DEF Deals
      <4>2. CASE q # x
        <5>1. s.out[q] = <<>> /\ StatusOf(r)' = StatusOf(r)
          BY <3>1, <3>8, <3>10, <3>15, <4>2 DEF Others
        <5>2. CASE Waits(r, q)
          BY <3>11, <3>12, <4>2, <5>1, <5>2 DEF Deals
        <5>3. CASE ~Waits(r, q)
          BY <3>11, <5>1, <5>3 DEF Deals
        <5>. QED BY <5>2, <5>3
      <4>. QED BY <4>1, <4>2
    <3>16. Learns(r, x, s.out[x])
      BY <1>1, <3>8, <3>10, <3>12 DEF Learns, m
    <3>17. ~Waits(r, r)'
      BY <2>2, <3>11
    <3>18. s.node \in ReadyEventNode
      BY <3>5, <3>7
    <3>19. Known(r) => Known(r)' /\ (StatusOf(r) = Forced => StatusOf(r)' = Forced)
      BY <3>1, <3>10
    <3>. QED BY <1>1, <3>9, <3>12, <3>14, <3>15, <3>16, <3>17, <3>18, <3>19, AnswerKeeps
  <2>. QED BY <2>4, <2>5
<1>. QED BY <1>3, <1>4

\* A loss is noticed when the systems are not connected any more.
LEMMA ReadyOnClosedConnectionKeeps ==
  ASSUME ReadyIInv, NEW r \in System, NEW x \in System, ReadyOnClosedConnection(r, x)
  PROVE  ReadyIInv'
<1> DEFINE m == Head(inbox[r][x])
<1>1. inbox[r][x] # <<>> /\ m = Closed /\ m.id # "UPDATE" /\ m # Query /\ m # Update(Forced)
  <2>1. inbox[r][x] # <<>> /\ m.id = "CLOSED_CONNECTION"
    BY DEF ReadyOnClosedConnection, HasNext
  <2>2. m \in Handled
    BY <2>1, NextFacts
  <2>. QED BY <2>1, <2>2 DEF Handled, ReadyMessage, Closed, Notice, Query, Update
<1> HIDE DEF m
<1>2. CASE ~Known(r)
  <2>1. Answered(r, x, At(r))
    BY <1>2 DEF ReadyOnClosedConnection
  <2>2. node' = node
    BY <2>1 DEF Answered, Now, At, ReadyIInv, ReadyTypeOK
  <2>3. Learns(r, x, <<>>)
    BY <1>1, <1>2, <2>2 DEF Learns, m, Waits, Known
  <2>. QED BY <1>1, <2>1, <2>3, NothingKeeps
<1>3. CASE Known(r)
  <2>1. PICK c : c = At(r)
    OBVIOUS
  <2>2. /\ c = [node |-> c.node, out |-> c.out] /\ c.node \in ReadyEventNode
        /\ \A q \in System : c.out[q] = <<>>
        /\ r \notin Waiting(c) /\ \A q : q \in Waiting(c) <=> Waits(r, q)
        /\ \A q \in Waiting(c) : c.node.systemList[q] = Entry(r, q)
        /\ c.node.eventStatus = StatusOf(r)
    BY <1>3, <2>1, CreatedFacts, Kinds
  <2>3. PICK s : s = Without(c, {x})
    OBVIOUS
  <2>4. /\ s = [node |-> s.node, out |-> s.out] /\ s.node \in ReadyEventNode
        /\ s.node.eventStatus = c.node.eventStatus /\ s.out = c.out
        /\ Waiting(s) = Waiting(c) \ {x}
        /\ \A q \in Waiting(s) : s.node.systemList[q] = c.node.systemList[q]
    <3>1. PICK gone : gone = {x}
      OBVIOUS
    <3>2. s = Without(c, gone) /\ c = [node |-> c.node, out |-> c.out] /\ c.node \in ReadyEventNode
      BY <2>2, <2>3, <3>1
    <3>3. /\ s = [node |-> s.node, out |-> s.out] /\ s.node \in ReadyEventNode
          /\ s.node.eventStatus = c.node.eventStatus /\ s.out = c.out
          /\ Waiting(s) = Waiting(c) \ gone
          /\ \A q \in Waiting(s) : s.node.systemList[q] = c.node.systemList[q]
      BY <3>2, WithoutFacts
    <3>. QED BY <3>1, <3>3
  <2>5. Answered(r, x, UpdateReadyStatus(s))
    BY <1>3, <2>1, <2>3 DEF ReadyOnClosedConnection
  <2>6. x # r => ~Linked(r, x)
    BY <1>1, NextFacts DEF ReadyIInv, WaitsForConnected, m, Closed
  <2>7. Prepared(r, s)
    BY <2>2, <2>4, <2>6 DEF Prepared, Others
  <2>8. \A q \in Others(r) \ {x} : q \in Waiting(s) /\ Waits(r, q) =>
          s.node.systemList[q].lastReceivedStatus = Entry(r, q).lastReceivedStatus
    BY <2>2, <2>4
  <2>. QED BY <1>1, <1>3, <2>4, <2>5, <2>7, <2>8, AnswerUpdates DEF m
<1>. QED BY <1>2, <1>3

\* A new connection changes nothing.
LEMMA ReadyOnNewConnectionKeeps ==
  ASSUME ReadyIInv, NEW r \in System, NEW x \in System, ReadyOnNewConnection(r, x)
  PROVE  ReadyIInv'
<1> DEFINE m == Head(inbox[r][x])
<1>1. inbox[r][x] # <<>> /\ m.id = "NEW_CONNECTION" /\ m # Closed /\ m # Query /\ m # Update(Forced)
  BY DEF ReadyOnNewConnection, HasNext, Closed, Notice, Query, Update
<1> HIDE DEF m
<1>2. Answered(r, x, At(r))
  BY DEF ReadyOnNewConnection
<1>3. node' = node
  BY <1>2 DEF Answered, Now, At, ReadyIInv, ReadyTypeOK
<1>4. Learns(r, x, <<>>)
  BY <1>1, <1>3 DEF Learns, m, Entry
<1>. QED BY <1>1, <1>2, <1>4, NothingKeeps

\* It is so at first: every event is UNSET and nothing is under way.
LEMMA ReadyInitAgrees ==
  ASSUME ReadyInit, NEW pairs \in SUBSET AllPairs, NEW budgets, LinksInit(pairs, budgets),
         \A p, q \in System : Waits(p, q) => Linked(p, q)
  PROVE  ReadyIInv
<1> DEFINE others(p) == {q \in System \ {p} : Pair(p, q) \subseteq reversals.waiting}
<1>1. /\ linked \subseteq AllPairs
      /\ inbox = [p \in System |-> [q \in System |-> <<>>]]
      /\ forgetters = {} /\ forcers = {}
  BY DEF LinksInit, ReadyInit
<1>2. inbox \in [System -> [System -> Seq(Handled)]]
  BY <1>1
<1>3. \A p \in System : node[p] = IF others(p) = {} THEN NoEvent ELSE EventNode("UNSET", others(p))
  BY DEF ReadyInit
<1>4. ASSUME NEW p \in System
      PROVE  /\ node[p] \in ReadyEventNode \cup {NoEvent}
             /\ p \notin DOMAIN node[p].systemList \/ ~Known(p)
             /\ Known(p) => /\ node[p].eventStatus = "UNSET"
                            /\ \A q \in DOMAIN node[p].systemList : Entry(p, q) = NewSystem
  <2>1. CASE others(p) = {}
    BY <1>3, <1>4, <2>1 DEF Known
  <2>2. CASE others(p) # {}
    <3> DEFINE list == [q \in others(p) |-> NewSystem]
    <3>1. node[p] = [eventStatus |-> "UNSET", systemList |-> list]
      BY <1>3, <1>4, <2>2 DEF EventNode
    <3>2. /\ others(p) \in SUBSET System /\ p \notin others(p)
          /\ NewSystem \in RemoteStatus /\ "UNSET" \in Status
      BY DEF NewSystem, RemoteStatus, Status
    <3>3. list \in [others(p) -> RemoteStatus] /\ DOMAIN list = others(p)
          /\ \A q \in others(p) : list[q] = NewSystem
      BY <3>2
    <3> HIDE DEF list, others
    <3>4. \A l \in [others(p) -> RemoteStatus] :
            [eventStatus |-> "UNSET", systemList |-> l] \in ReadyEventNode
      BY <3>2, NodeFacts
    <3>. QED BY <3>1, <3>2, <3>3, <3>4 DEF Entry
  <2>. QED BY <2>1, <2>2
<1> HIDE DEF others
<1>5. node \in [System -> ReadyEventNode \cup {NoEvent}]
  <2>1. node = [p \in System |-> node[p]]
    BY DEF ReadyInit
  <2>. QED BY <1>4, <2>1
<1>6. ReadyTypeOK
  BY <1>1, <1>2, <1>4, <1>5 DEF ReadyTypeOK, LinksTypeOK, Handled, Waits
<1>7. ASSUME NEW p \in System PROVE OwnEventAgrees(p)
  BY <1>1, <1>4, <1>7 DEF OwnEventAgrees, Entry, NewSystem
<1>8. ASSUME NEW p \in System, NEW q \in System \ {p}
      PROVE  WaitsForConnected(p, q) /\ NewsAgree(p, q) /\ ForceArrives(p, q)
  <2>1. inbox[p][q] = <<>> /\ inbox[q][p] = <<>>
    BY <1>1, <1>8
  <2>2. /\ \A x : ~Has(inbox[p][q], x) /\ LastUpdateIs(inbox[p][q], x)
        /\ ~HasUpdate(inbox[p][q])
    BY <2>1 DEF Has, HasUpdate, LastUpdateIs
  <2>3. /\ Waits(p, q) => Entry(p, q) = NewSystem
        /\ Waits(q, p) => Entry(q, p) = NewSystem /\ node[q].eventStatus = "UNSET"
    BY <1>4, <1>8 DEF Waits
  <2>4. WaitsForConnected(p, q)
    BY <2>1, <2>2, <1>8 DEF WaitsForConnected
  <2>5. NewsAgree(p, q)
    BY <2>2, <2>3 DEF NewsAgree, Entry, NewSystem
  <2>6. ForceArrives(p, q)
    BY <2>3 DEF ForceArrives, Mutual, Entry, NewSystem
  <2>. QED BY <2>4, <2>5, <2>6
<1>. QED BY <1>6, <1>7, <1>8 DEF ReadyIInv

\* Every step keeps it.
LEMMA ReadyStepKeeps ==
  ASSUME ReadyIInv, [ReadyNext]_readyVars
  PROVE  ReadyIInv'
<1>1. ASSUME NEW r \in System, NEW isReady \in BOOLEAN, SetEvent(r, isReady) PROVE ReadyIInv'
  BY <1>1, SetEventKeeps
<1>2. ASSUME NEW r \in System,
             \/ ForceCompletion(r) \/ DeleteEvent(r)
             \/ AddToWaitList(r) \/ RemoveFromWaitList(r)
      PROVE  ReadyIInv'
  BY <1>2, ForceCompletionKeeps, DeleteEventKeeps, AddToWaitListKeeps, RemoveFromWaitListKeeps
<1>3. ASSUME NEW r \in System, NEW x \in System,
             \/ OnReadyEventPacketUpdate(r, x) \/ OnReadyEventForceAllSet(r, x)
             \/ OnReadyEventQuery(r, x)
             \/ ReadyOnClosedConnection(r, x) \/ ReadyOnNewConnection(r, x)
      PROVE  ReadyIInv'
  BY <1>3, OnReadyEventPacketUpdateKeeps, OnReadyEventForceAllSetKeeps, OnReadyEventQueryKeeps,
     ReadyOnClosedConnectionKeeps, ReadyOnNewConnectionKeeps
<1>4. CASE LinksChange /\ UNCHANGED <<node, reversals, forgetters, forcers>>
  BY <1>4, LinksKeep
<1>5. CASE UNCHANGED readyVars
  <2>1. /\ linked' = linked /\ inbox' = inbox /\ node' = node
        /\ forgetters' = forgetters /\ forcers' = forcers
    BY <1>5 DEF readyVars, linkVars
  <2>2. \A p, q : (Linked(p, q)' <=> Linked(p, q)) /\ (Waits(p, q)' <=> Waits(p, q))
    BY <2>1 DEF Linked, Waits, Known
  <2>3. ReadyTypeOK' /\ \A p \in System : OwnEventAgrees(p)'
    BY <2>1, <2>2 DEF ReadyIInv, ReadyTypeOK, LinksTypeOK, OwnEventAgrees, Known, AnyUnset, At, Waiting
  <2>4. ASSUME NEW p \in System, NEW q \in System \ {p}
        PROVE  (WaitsForConnected(p, q) /\ NewsAgree(p, q) /\ ForceArrives(p, q))'
    <3>1. WaitsForConnected(p, q) /\ NewsAgree(p, q) /\ ForceArrives(p, q)
      BY <2>4 DEF ReadyIInv
    <3>. QED BY <2>1, <2>2, <3>1 DEF WaitsForConnected, NewsAgree, ForceArrives, Mutual, Known
  <2>. QED BY <2>3, <2>4 DEF ReadyIInv
<1>. QED BY <1>1, <1>2, <1>3, <1>4, <1>5 DEF ReadyNext, Senders

\* What the systems believe of each other, with what is under way, always agrees with
\* what they are, whoever is set, forced, added, removed, connected or lost, in any order.
THEOREM ReadyInvariant == ReadySpec => []ReadyIInv
<1>1. ReadyInit /\ (\E pairs \in SUBSET AllPairs :
         /\ LinksInit(pairs, [connects : Nat, breaks : Nat])
         /\ \A p, q \in System : Waits(p, q) => Linked(p, q)) => ReadyIInv
  BY ReadyInitAgrees
<1>2. ReadyIInv /\ [ReadyNext]_readyVars => ReadyIInv'
  BY ReadyStepKeeps
<1>. QED BY <1>1, <1>2, PTL DEF ReadySpec

\* With nothing under way, what is believed of a system is what it is.
LEMMA SettledStatuses ==
  ASSUME ReadyIInv PROVE StatusesAgree
<1>1. ASSUME NEW p \in System, NEW q \in System, Mutual(p, q), QuietBetween(p, q),
             q \notin forgetters, node[q].eventStatus # "FORCE_ALL_SET"
      PROVE  node[p].systemList[q].lastReceivedStatus = node[q].eventStatus
  <2>1. p # q
    BY <1>1 DEF ReadyIInv, ReadyTypeOK, Mutual
  <2>2. WaitsForConnected(p, q) /\ NewsAgree(p, q)
    BY <1>1, <2>1 DEF ReadyIInv
  <2>3. Linked(p, q)
    BY <1>1, <2>2 DEF WaitsForConnected, QuietBetween, Mutual
  <2>4. ~HasUpdate(inbox[p][q]) /\ ~Has(inbox[q][p], Query)
    BY <1>1 DEF QuietBetween, HasUpdate, Has
  <2>. QED BY <1>1, <2>2, <2>3, <2>4 DEF NewsAgree, Mutual
<1>. QED BY <1>1 DEF StatusesAgree

\* When nothing is under way between the systems of a group, the event is complete for
\* all of them if one has forced it, and else for each just when all have set it.
LEMMA SettledEvents ==
  ASSUME ReadyIInv PROVE EventsAgree
<1>1. StatusesAgree
  BY SettledStatuses
<1>2. ASSUME NEW group \in SUBSET System, SettledGroup(group)
      PROVE  /\ \A p \in group : p \in System /\ Known(p) /\ OwnEventAgrees(p) /\ p \notin forgetters
                                 /\ DOMAIN node[p].systemList = group \ {p} /\ group \ {p} # {}
                                 /\ node[p].eventStatus \in Status
             /\ \A p, q \in group : p # q => Mutual(p, q) /\ QuietBetween(p, q)
  <2>1. Cardinality(group) > 1 /\ group \cap forgetters = {}
        /\ \A p \in group :
             /\ Known(p) /\ DOMAIN node[p].systemList = group \ {p}
             /\ \A q \in group : inbox[p][q] = <<>>
    BY <1>2 DEF SettledGroup
  <2>2. \A p \in group : group \ {p} # {}
    <3>1. ASSUME NEW p \in group, group \ {p} = {} PROVE FALSE
      <4>1. group = {p}
        BY <3>1
      <4>2. Cardinality(group) = 1
        BY <4>1, FS_Singleton
      <4>. QED BY <2>1, <4>2
    <3>. QED BY <3>1
  <2>3. \A p \in group : p \in System /\ OwnEventAgrees(p) /\ node[p].eventStatus \in Status
    BY <2>1, NodeFacts DEF ReadyIInv, ReadyTypeOK, Known
  <2>4. \A p, q \in group : p # q => Mutual(p, q) /\ QuietBetween(p, q)
    BY <2>1 DEF Mutual, Waits, QuietBetween
  <2>. QED BY <2>1, <2>2, <2>3, <2>4
<1>3. ASSUME NEW group \in SUBSET System, SettledGroup(group), NEW f \in group \cap forcers,
             NEW p \in group
      PROVE  node[p].eventStatus = "FORCE_ALL_SET"
  <2>1. /\ node[f].eventStatus = "FORCE_ALL_SET"
        /\ \A q \in DOMAIN node[f].systemList : node[f].systemList[q].lastSentStatus = "FORCE_ALL_SET"
    BY <1>2, <1>3 DEF OwnEventAgrees
  <2>2. CASE p # f
    <3>1. WaitsForConnected(p, f) /\ ForceArrives(p, f)
      BY <1>3, <2>2 DEF ReadyIInv
    <3>2. Mutual(p, f) /\ p \notin forgetters /\ inbox[p][f] = <<>> /\ inbox[f][p] = <<>>
      BY <1>2, <1>3, <2>2 DEF QuietBetween
    <3>3. Linked(p, f) /\ p \in DOMAIN node[f].systemList
      BY <3>1, <3>2 DEF WaitsForConnected, Mutual, Waits
    <3>. QED BY <2>1, <3>1, <3>2, <3>3 DEF ForceArrives, Has
  <2>. QED BY <2>1, <2>2
<1>4. ASSUME NEW group \in SUBSET System, SettledGroup(group),
             \A p \in group : node[p].eventStatus # "FORCE_ALL_SET", NEW p \in group
      PROVE  IsEventCompleted(node[p]) <=> \A q \in group : node[q].eventStatus # "UNSET"
  <2>1. \A a \in group : \A q \in group \ {a} :
          node[a].systemList[q].lastReceivedStatus = node[q].eventStatus
    BY <1>1, <1>2, <1>4 DEF StatusesAgree
  <2>2. ASSUME IsEventCompleted(node[p]) PROVE \A q \in group : node[q].eventStatus # "UNSET"
    <3>1. /\ node[p].eventStatus = "ALL_SET"
          /\ \A q \in group \ {p} : node[p].systemList[q].lastReceivedStatus = "ALL_SET"
      BY <1>2, <1>4, <2>2 DEF IsEventCompleted
    <3>. QED BY <2>1, <3>1
  <2>3. ASSUME \A q \in group : node[q].eventStatus # "UNSET" PROVE IsEventCompleted(node[p])
    <3>1. ASSUME NEW a \in group PROVE node[a].eventStatus = "ALL_SET"
      <4>1. ~AnyUnset(At(a))
        <5>1. DOMAIN node[a].systemList = group \ {a}
          BY <1>2, <1>4, <3>1
        <5>2. \A q \in DOMAIN node[a].systemList : node[a].systemList[q].lastReceivedStatus # "UNSET"
          BY <2>1, <2>3, <3>1, <5>1
        <5>. QED BY <5>2 DEF AnyUnset, At, Waiting
      <4>2. node[a].eventStatus # "SET"
        BY <1>2, <1>4, <3>1, <4>1 DEF OwnEventAgrees
      <4>3. node[a].eventStatus \in Status
        BY <1>2, <1>4, <3>1
      <4>. QED BY <1>4, <2>3, <3>1, <4>2, <4>3 DEF Status
    <3>2. node[p].eventStatus = "ALL_SET"
      BY <1>4, <3>1
    <3>3. DOMAIN node[p].systemList = group \ {p}
      BY <1>2, <1>4
    <3>4. ASSUME NEW q \in DOMAIN node[p].systemList
          PROVE  node[p].systemList[q].lastReceivedStatus = "ALL_SET"
      <4>1. q \in group \ {p}
        BY <3>3, <3>4
      <4>2. node[p].systemList[q].lastReceivedStatus = node[q].eventStatus
        BY <1>4, <2>1, <4>1
      <4>3. node[q].eventStatus = "ALL_SET"
        BY <3>1, <4>1
      <4>. QED BY <4>2, <4>3
    <3>. QED BY <3>2, <3>4 DEF IsEventCompleted
  <2>. QED BY <2>2, <2>3
<1>. QED BY <1>1, <1>3, <1>4 DEF EventsAgree

\* When a group of systems that wait for each other has heard of everything, one that
\* forced the event has completed it for all, and otherwise each has it complete just when
\* all have set it: for any number of systems and whatever was unset, deleted or lost.
THEOREM ReadyEventsAgree == ReadySpec => []EventsAgree
<1>1. ReadyIInv => EventsAgree
  BY SettledEvents
<1>. QED BY <1>1, ReadyInvariant, PTL

-----------------------------------------------------------------------------
(* Queues of a mesh *)

\* What is in a queue after messages are sent, and after the first is handled.
LEMMA QueueFacts ==
  ASSUME NEW M, NEW queue \in Seq(M)
  PROVE  /\ \A m \in M : Append(queue, m) \in Seq(M) /\ Range(Append(queue, m)) = Range(queue) \cup {m}
         /\ \A sent \in Seq(M) : queue \o sent \in Seq(M) /\ Range(queue \o sent) = Range(queue) \cup Range(sent)
         /\ queue # <<>> => /\ Tail(queue) \in Seq(M) /\ Head(queue) \in M
                            /\ Range(queue) = {Head(queue)} \cup Range(Tail(queue))
                            /\ Tail(queue) # <<>> => Tail(queue)[Len(Tail(queue))] = queue[Len(queue)]
                            /\ Tail(queue) = <<>> => Head(queue) = queue[Len(queue)]
         /\ Range(queue) \subseteq M
<1>1. ASSUME NEW m \in M
      PROVE  Append(queue, m) \in Seq(M) /\ Range(Append(queue, m)) = Range(queue) \cup {m}
  <2> DEFINE long == Append(queue, m)
  <2>1. /\ Len(long) = Len(queue) + 1 /\ long[Len(long)] = m /\ Len(queue) \in Nat
        /\ DOMAIN long = 1 .. Len(long) /\ DOMAIN queue = 1 .. Len(queue)
        /\ \A i \in 1 .. Len(queue) : long[i] = queue[i]
        /\ long \in Seq(M)
    OBVIOUS
  <2> HIDE DEF long
  <2>2. \A i \in 1 .. Len(long) : i \in 1 .. Len(queue) \/ i = Len(long)
    BY <2>1
  <2>3. Len(long) \in DOMAIN long /\ \A i \in DOMAIN queue : i \in DOMAIN long
    BY <2>1
  <2>. QED BY <2>1, <2>2, <2>3 DEF Range, long
<1>2. ASSUME NEW sent \in Seq(M)
      PROVE  queue \o sent \in Seq(M) /\ Range(queue \o sent) = Range(queue) \cup Range(sent)
  <2> DEFINE long == queue \o sent
  <2>1. /\ Len(long) = Len(queue) + Len(sent) /\ Len(queue) \in Nat /\ Len(sent) \in Nat
        /\ DOMAIN long = 1 .. Len(long) /\ DOMAIN queue = 1 .. Len(queue) /\ DOMAIN sent = 1 .. Len(sent)
        /\ \A i \in 1 .. Len(queue) : long[i] = queue[i]
        /\ long \in Seq(M)
    OBVIOUS
  <2>5. \A i \in Len(queue) + 1 .. Len(queue) + Len(sent) : long[i] = sent[i - Len(queue)]
    OBVIOUS
  <2> HIDE DEF long
  <2>2. \A i \in 1 .. Len(long) :
          i \in 1 .. Len(queue) \/ (i - Len(queue) \in 1 .. Len(sent) /\ long[i] = sent[i - Len(queue)])
    BY <2>1, <2>5
  <2>3. /\ \A i \in DOMAIN queue : i \in DOMAIN long
        /\ \A i \in DOMAIN sent : i + Len(queue) \in DOMAIN long /\ long[i + Len(queue)] = sent[i]
    BY <2>1, <2>5
  <2>4. Range(long) \subseteq Range(queue) \cup Range(sent)
    BY <2>1, <2>2 DEF Range
  <2>6. Range(queue) \subseteq Range(long)
    BY <2>1, <2>3 DEF Range
  <2>7. Range(sent) \subseteq Range(long)
    BY <2>1, <2>3 DEF Range
  <2>. QED BY <2>1, <2>4, <2>6, <2>7 DEF long
<1>3. ASSUME queue # <<>>
      PROVE  /\ Tail(queue) \in Seq(M) /\ Head(queue) \in M
             /\ Range(queue) = {Head(queue)} \cup Range(Tail(queue))
             /\ Tail(queue) # <<>> => Tail(queue)[Len(Tail(queue))] = queue[Len(queue)]
             /\ Tail(queue) = <<>> => Head(queue) = queue[Len(queue)]
  <2> DEFINE short == Tail(queue)
  <2>1. /\ Len(short) = Len(queue) - 1 /\ Len(queue) \in Nat \ {0} /\ Head(queue) = queue[1]
        /\ DOMAIN short = 1 .. Len(short) /\ DOMAIN queue = 1 .. Len(queue)
        /\ \A i \in 1 .. Len(short) : short[i] = queue[i + 1]
        /\ short \in Seq(M) /\ Head(queue) \in M
    BY <1>3
  <2> HIDE DEF short
  <2>2. short # <<>> <=> Len(short) > 0
    BY <2>1
  <2>3. \A i \in 1 .. Len(queue) : i = 1 \/ (i - 1 \in 1 .. Len(short) /\ queue[i] = short[i - 1])
    BY <2>1
  <2>4. (\A i \in DOMAIN short : i + 1 \in DOMAIN queue) /\ 1 \in DOMAIN queue
    BY <2>1
  <2>5. Range(queue) = {Head(queue)} \cup Range(short)
    BY <2>1, <2>3, <2>4 DEF Range
  <2>. QED BY <2>1, <2>2, <2>5 DEF short
<1>4. Range(queue) \subseteq M
  BY DEF Range
<1>. QED BY <1>1, <1>2, <1>3, <1>4

-----------------------------------------------------------------------------
(* Plugins of a mesh *)

IsPlugin(s) == s \in Plugin(Participants(s)) /\ Participants(s) \subseteq System /\ drawn[s.self] \in Nat \ {0}

SameFields(s, t) ==
  /\ t.self = s.self /\ t.fcm2ParticipantList = s.fcm2ParticipantList /\ t.ourFCMGuid = s.ourFCMGuid
  /\ t.totalConnectionCount = s.totalConnectionCount /\ t.hostRakNetGuid = s.hostRakNetGuid
  /\ t.lastPushedHost = s.lastPushedHost

\* What a plugin is made of.
LEMMA PluginFacts ==
  ASSUME NEW s
  PROVE  /\ IsPlugin(s) =>
              /\ s = [self |-> s.self, fcm2ParticipantList |-> s.fcm2ParticipantList,
                      ourFCMGuid |-> s.ourFCMGuid, totalConnectionCount |-> s.totalConnectionCount,
                      hostRakNetGuid |-> s.hostRakNetGuid, lastPushedHost |-> s.lastPushedHost, out |-> s.out]
              /\ s.self \in System /\ drawn[s.self] \in Nat \ {0}
              /\ s.fcm2ParticipantList \in [Participants(s) -> Nat] /\ Participants(s) \subseteq System
              /\ s.ourFCMGuid \in Nat /\ s.totalConnectionCount \in Nat
              /\ s.hostRakNetGuid \in System \cup {NoHost} /\ s.lastPushedHost \in System \cup {NoHost}
              /\ s.out \in [System -> Seq(MeshMessage)]
         /\ \A self \in System, list, our \in Nat, count \in Nat, host \in System \cup {NoHost},
               last \in System \cup {NoHost}, out \in [System -> Seq(MeshMessage)] :
              /\ drawn[self] \in Nat \ {0} /\ list \in [DOMAIN list -> Nat] /\ DOMAIN list \subseteq System
              /\ s = [self |-> self, fcm2ParticipantList |-> list, ourFCMGuid |-> our,
                      totalConnectionCount |-> count, hostRakNetGuid |-> host, lastPushedHost |-> last,
                      out |-> out]
              => IsPlugin(s)
  BY DEF IsPlugin, Plugin, Participants

\* t is s, and m is sent to the targets.
HasSent(s, t, targets, m) ==
  /\ IsPlugin(t) /\ SameFields(s, t)
  /\ \A q \in System : Range(t.out[q]) = IF q \in targets THEN Range(s.out[q]) \cup {m} ELSE Range(s.out[q])

\* What a plugin sends is added to what it has sent.
LEMMA SendFacts ==
  ASSUME NEW s, IsPlugin(s), NEW targets, NEW m \in MeshMessage
  PROVE  HasSent(s, SendTo(s, targets, m), targets, m)
<1> DEFINE t == SendTo(s, targets, m)
           out == [q \in System |-> IF q \in targets THEN Append(s.out[q], m) ELSE s.out[q]]
<1>1. /\ s = [self |-> s.self, fcm2ParticipantList |-> s.fcm2ParticipantList,
              ourFCMGuid |-> s.ourFCMGuid, totalConnectionCount |-> s.totalConnectionCount,
              hostRakNetGuid |-> s.hostRakNetGuid, lastPushedHost |-> s.lastPushedHost, out |-> s.out]
      /\ s.out \in [System -> Seq(MeshMessage)]
  BY PluginFacts
<1>2. ASSUME NEW q \in System
      PROVE  out[q] \in Seq(MeshMessage)
             /\ Range(out[q]) = IF q \in targets THEN Range(s.out[q]) \cup {m} ELSE Range(s.out[q])
  <2>1. s.out[q] \in Seq(MeshMessage)
    BY <1>1
  <2>2. Append(s.out[q], m) \in Seq(MeshMessage) /\ Range(Append(s.out[q], m)) = Range(s.out[q]) \cup {m}
    BY <2>1, QueueFacts
  <2>. QED BY <2>1, <2>2
<1>3. out \in [System -> Seq(MeshMessage)]
  BY <1>2
<1>4. t = [self |-> s.self, fcm2ParticipantList |-> s.fcm2ParticipantList,
           ourFCMGuid |-> s.ourFCMGuid, totalConnectionCount |-> s.totalConnectionCount,
           hostRakNetGuid |-> s.hostRakNetGuid, lastPushedHost |-> s.lastPushedHost, out |-> out]
  <2>1. t = [s EXCEPT !.out = out]
    BY DEF SendTo
  <2> HIDE DEF out, t
  <2>. QED BY <1>1, <2>1
<1> HIDE DEF out, t
<1>5. SameFields(s, t) /\ t.out = out
  BY <1>4 DEF SameFields
<1>6. IsPlugin(t)
  BY <1>3, <1>4, <1>5 DEF IsPlugin, Plugin, Participants, SameFields
<1>7. HasSent(s, t, targets, m)
  BY <1>2, <1>5, <1>6 DEF HasSent
<1>. QED BY <1>7 DEF t

\* The number of a system is made of a count it had and of what it drew.
NumberIsMade(s) ==
  s.ourFCMGuid # Unset => \E c \in 0 .. s.totalConnectionCount : s.ourFCMGuid = c * Lots + drawn[s.self]

\* What may become of a plugin, and what it sends, in a step that concerns q.
MayBecome(s, t, q) ==
  /\ IsPlugin(t) /\ t.self = s.self
  /\ s.ourFCMGuid # Unset => t.ourFCMGuid = s.ourFCMGuid
  /\ s.totalConnectionCount <= t.totalConnectionCount
  /\ NumberIsMade(s) => NumberIsMade(t)
  /\ s.hostRakNetGuid = s.lastPushedHost => t.hostRakNetGuid = t.lastPushedHost
  /\ Participants(s) \subseteq Participants(t) /\ Participants(t) \subseteq Participants(s) \cup {q}
  /\ \A r \in Participants(s) \ {q} : t.fcm2ParticipantList[r] = s.fcm2ParticipantList[r]
  /\ \A r \in System :
       /\ Range(s.out[r]) \subseteq Range(t.out[r])
       /\ \A m \in Range(t.out[r]) \ Range(s.out[r]) : CarriesNumber(m) => m.guid \in {Unset, t.ourFCMGuid}
       /\ r \in Participants(t) /\ t.ourFCMGuid # Unset =>
            TellsNumber(t.out[r]) \/ (r \in Participants(s) /\ s.ourFCMGuid # Unset)
       /\ r \in Participants(t) /\ t.ourFCMGuid = Unset =>
            AsksForNumber(t.out[r]) \/ r \in Participants(s)

\* Two changes one after the other are one such change.
LEMMA MayTransitive ==
  ASSUME NEW s, IsPlugin(s), NEW t, NEW u, NEW q, MayBecome(s, t, q), MayBecome(t, u, q)
  PROVE  MayBecome(s, u, q)
<1>1. /\ s.totalConnectionCount \in Nat /\ t.totalConnectionCount \in Nat /\ u.totalConnectionCount \in Nat
  BY PluginFacts DEF MayBecome
<1>2. /\ IsPlugin(u) /\ u.self = s.self
      /\ s.ourFCMGuid # Unset => u.ourFCMGuid = s.ourFCMGuid
      /\ s.totalConnectionCount <= u.totalConnectionCount
      /\ NumberIsMade(s) => NumberIsMade(u)
      /\ s.hostRakNetGuid = s.lastPushedHost => u.hostRakNetGuid = u.lastPushedHost
      /\ Participants(s) \subseteq Participants(u) /\ Participants(u) \subseteq Participants(s) \cup {q}
      /\ \A r \in Participants(s) \ {q} : u.fcm2ParticipantList[r] = s.fcm2ParticipantList[r]
  BY <1>1 DEF MayBecome
<1>3. ASSUME NEW r \in System
      PROVE  /\ Range(s.out[r]) \subseteq Range(u.out[r])
             /\ \A m \in Range(u.out[r]) \ Range(s.out[r]) : CarriesNumber(m) => m.guid \in {Unset, u.ourFCMGuid}
             /\ r \in Participants(u) /\ u.ourFCMGuid # Unset =>
                  TellsNumber(u.out[r]) \/ (r \in Participants(s) /\ s.ourFCMGuid # Unset)
             /\ r \in Participants(u) /\ u.ourFCMGuid = Unset =>
                  AsksForNumber(u.out[r]) \/ r \in Participants(s)
  <2>1. /\ Range(s.out[r]) \subseteq Range(t.out[r]) /\ Range(t.out[r]) \subseteq Range(u.out[r])
        /\ \A m \in Range(t.out[r]) \ Range(s.out[r]) : CarriesNumber(m) => m.guid \in {Unset, t.ourFCMGuid}
        /\ \A m \in Range(u.out[r]) \ Range(t.out[r]) : CarriesNumber(m) => m.guid \in {Unset, u.ourFCMGuid}
        /\ t.ourFCMGuid # Unset => u.ourFCMGuid = t.ourFCMGuid
    BY <1>3 DEF MayBecome
  <2>2. /\ r \in Participants(t) /\ t.ourFCMGuid # Unset =>
             TellsNumber(t.out[r]) \/ (r \in Participants(s) /\ s.ourFCMGuid # Unset)
        /\ r \in Participants(t) /\ t.ourFCMGuid = Unset =>
             AsksForNumber(t.out[r]) \/ r \in Participants(s)
        /\ r \in Participants(u) /\ u.ourFCMGuid # Unset =>
             TellsNumber(u.out[r]) \/ (r \in Participants(t) /\ t.ourFCMGuid # Unset)
        /\ r \in Participants(u) /\ u.ourFCMGuid = Unset =>
             AsksForNumber(u.out[r]) \/ r \in Participants(t)
    BY <1>3 DEF MayBecome
  <2>3. /\ TellsNumber(t.out[r]) => TellsNumber(u.out[r])
        /\ AsksForNumber(t.out[r]) => AsksForNumber(u.out[r])
    BY <2>1 DEF TellsNumber, AsksForNumber
  <2>. QED BY <2>1, <2>2, <2>3
<1>. QED BY <1>2, <1>3 DEF MayBecome

\* Messages.
LEMMA MessageFacts ==
  /\ \A s, id : IsPlugin(s) /\ id \in {"REQUEST_FCMGUID", "INFORM_FCMGUID"} =>
       LET m == FCMGuidMessage(s, id)
       IN m \in MeshMessage /\ m.id = id /\ m.guid = s.ourFCMGuid
  /\ \A id \in {"RESPOND_CONNECTION_COUNT", "UPDATE_MIN_TOTAL_CONNECTION_COUNT"}, count \in Nat :
       LET m == [Blank(id) EXCEPT !.count = count]
       IN m \in MeshMessage /\ m.id = id /\ ~CarriesNumber(m)
<1>1. ASSUME NEW s, NEW id, IsPlugin(s), id \in {"REQUEST_FCMGUID", "INFORM_FCMGUID"}
      PROVE  LET m == FCMGuidMessage(s, id)
             IN m \in MeshMessage /\ m.id = id /\ m.guid = s.ourFCMGuid
  <2>1. s.self \in System /\ s.ourFCMGuid \in Nat /\ s.totalConnectionCount \in Nat
    BY <1>1, PluginFacts
  <2>. QED BY <1>1, <2>1 DEF FCMGuidMessage, Blank, MeshMessage, Unset
<1>. QED BY <1>1 DEF Blank, MeshMessage, Unset, CarriesNumber

\* A message that tells no number, or that of a system that has one.
LEMMA SendMay ==
  ASSUME NEW s, IsPlugin(s), NEW targets, NEW m \in MeshMessage, NEW q,
         CarriesNumber(m) => m.guid \in {Unset, s.ourFCMGuid}
  PROVE  MayBecome(s, SendTo(s, targets, m), q) /\ SameFields(s, SendTo(s, targets, m))
<1> DEFINE t == SendTo(s, targets, m)
<1>1. /\ IsPlugin(t) /\ SameFields(s, t)
      /\ \A r \in System : Range(t.out[r]) = IF r \in targets THEN Range(s.out[r]) \cup {m}
                                             ELSE Range(s.out[r])
  BY SendFacts DEF HasSent
<1> HIDE DEF t
<1>2. s.totalConnectionCount \in Nat
  BY PluginFacts
<1>3. NumberIsMade(s) => NumberIsMade(t)
  BY <1>1 DEF SameFields, NumberIsMade
<1>4. Participants(t) = Participants(s)
  BY <1>1 DEF SameFields, Participants
<1>5. \A r \in System :
        /\ Range(s.out[r]) \subseteq Range(t.out[r])
        /\ \A x \in Range(t.out[r]) \ Range(s.out[r]) : CarriesNumber(x) => x.guid \in {Unset, t.ourFCMGuid}
  BY <1>1 DEF SameFields
<1>6. MayBecome(s, t, q)
  BY <1>1, <1>2, <1>3, <1>4, <1>5 DEF MayBecome, SameFields
<1>. QED BY <1>1, <1>6 DEF t

\* The list of a plugin when it has taken q in, with a number or without.
LEMMA AddFacts ==
  ASSUME NEW s, IsPlugin(s), NEW q \in System, NEW guid \in Nat
  PROVE  LET t == AddParticipantInternal(s, q, guid)
         IN /\ MayBecome(s, t, q) /\ t.ourFCMGuid = s.ourFCMGuid
            /\ t.totalConnectionCount = s.totalConnectionCount /\ t.lastPushedHost = s.lastPushedHost
            /\ q \in Participants(t)
            /\ guid # Unset \/ q \notin Participants(s) => t.fcm2ParticipantList[q] = guid
            /\ guid = Unset /\ q \in Participants(s) => t = s
<1> DEFINE t == AddParticipantInternal(s, q, guid)
<1>1. /\ s = [self |-> s.self, fcm2ParticipantList |-> s.fcm2ParticipantList,
              ourFCMGuid |-> s.ourFCMGuid, totalConnectionCount |-> s.totalConnectionCount,
              hostRakNetGuid |-> s.hostRakNetGuid, lastPushedHost |-> s.lastPushedHost, out |-> s.out]
      /\ s.fcm2ParticipantList \in [Participants(s) -> Nat] /\ Participants(s) \subseteq System
      /\ s.ourFCMGuid \in Nat /\ s.totalConnectionCount \in Nat
  BY PluginFacts
<1>2. CASE q \in Participants(s) /\ guid = Unset
  <2>1. t = s
    BY <1>2 DEF AddParticipantInternal
  <2>. QED BY <1>1, <1>2, <2>1 DEF MayBecome
  \* With another list of the same or one more participant.
<1>3. ASSUME NEW list, list \in [Participants(s) \cup {q} -> Nat], list[q] = guid,
             \A r \in Participants(s) \ {q} : list[r] = s.fcm2ParticipantList[r],
             NEW u, u = [s EXCEPT !.fcm2ParticipantList = list]
      PROVE  /\ IsPlugin(u) /\ Participants(u) = Participants(s) \cup {q}
             /\ u.fcm2ParticipantList = list
             /\ u.self = s.self /\ u.ourFCMGuid = s.ourFCMGuid /\ u.out = s.out
             /\ u.totalConnectionCount = s.totalConnectionCount
             /\ u.hostRakNetGuid = s.hostRakNetGuid /\ u.lastPushedHost = s.lastPushedHost
  <2>1. u = [self |-> s.self, fcm2ParticipantList |-> list,
             ourFCMGuid |-> s.ourFCMGuid, totalConnectionCount |-> s.totalConnectionCount,
             hostRakNetGuid |-> s.hostRakNetGuid, lastPushedHost |-> s.lastPushedHost, out |-> s.out]
    BY <1>1, <1>3
  <2>2. Participants(u) = Participants(s) \cup {q}
    BY <1>3, <2>1 DEF Participants
  <2>3. IsPlugin(u)
    BY <1>1, <1>3, <2>1, <2>2 DEF IsPlugin, Plugin
  <2>. QED BY <2>1, <2>2, <2>3
<1>4. CASE q \in Participants(s) /\ guid # Unset
  <2> DEFINE list == [s.fcm2ParticipantList EXCEPT ![q] = guid]
  <2>1. t = [s EXCEPT !.fcm2ParticipantList = list]
    BY <1>4 DEF AddParticipantInternal
  <2>2. /\ list \in [Participants(s) \cup {q} -> Nat] /\ list[q] = guid
        /\ \A r \in Participants(s) \ {q} : list[r] = s.fcm2ParticipantList[r]
    BY <1>1, <1>4
  <2> HIDE DEF list, t
  <2>3. /\ IsPlugin(t) /\ Participants(t) = Participants(s) \cup {q}
        /\ t.fcm2ParticipantList = list
        /\ t.self = s.self /\ t.ourFCMGuid = s.ourFCMGuid /\ t.out = s.out
        /\ t.totalConnectionCount = s.totalConnectionCount
        /\ t.hostRakNetGuid = s.hostRakNetGuid /\ t.lastPushedHost = s.lastPushedHost
    BY <1>3, <2>1, <2>2
  <2>4. MayBecome(s, t, q)
    BY <1>1, <1>4, <2>2, <2>3 DEF MayBecome, NumberIsMade
  <2>. QED BY <1>4, <2>2, <2>3, <2>4 DEF t
<1>5. CASE q \notin Participants(s)
  <2> DEFINE list == [r \in DOMAIN s.fcm2ParticipantList \cup {q} |->
                        IF r = q THEN guid ELSE s.fcm2ParticipantList[r]]
             u == [s EXCEPT !.fcm2ParticipantList = list]
             m == FCMGuidMessage(u, "REQUEST_FCMGUID")
  <2>1. t = SendTo(u, {q}, m)
    BY <1>5 DEF AddParticipantInternal, SendFCMGuid
  <2>2. /\ list \in [Participants(s) \cup {q} -> Nat] /\ list[q] = guid
        /\ \A r \in Participants(s) \ {q} : list[r] = s.fcm2ParticipantList[r]
    BY <1>1 DEF Participants
  <2> HIDE DEF list
  <2>3. /\ IsPlugin(u) /\ Participants(u) = Participants(s) \cup {q}
        /\ u.fcm2ParticipantList = list
        /\ u.self = s.self /\ u.ourFCMGuid = s.ourFCMGuid /\ u.out = s.out
        /\ u.totalConnectionCount = s.totalConnectionCount
        /\ u.hostRakNetGuid = s.hostRakNetGuid /\ u.lastPushedHost = s.lastPushedHost
    BY <1>3, <2>2
  <2> HIDE DEF u, t
  <2>4. m \in MeshMessage /\ m.id = "REQUEST_FCMGUID" /\ m.guid = u.ourFCMGuid
    BY <2>3, MessageFacts
  <2> HIDE DEF m
  <2>5. /\ IsPlugin(t) /\ SameFields(u, t)
        /\ \A r \in System : Range(t.out[r]) = IF r \in {q} THEN Range(u.out[r]) \cup {m} ELSE Range(u.out[r])
    <3> DEFINE targets == {q}
    <3>1. t = SendTo(u, targets, m)
      BY <2>1
    <3> HIDE DEF targets
    <3>2. /\ IsPlugin(t) /\ SameFields(u, t)
          /\ \A r \in System :
               Range(t.out[r]) = IF r \in targets THEN Range(u.out[r]) \cup {m} ELSE Range(u.out[r])
      <4>1. IsPlugin(u) /\ m \in MeshMessage
        BY <2>3, <2>4
      <4>2. /\ IsPlugin(SendTo(u, targets, m)) /\ SameFields(u, SendTo(u, targets, m))
            /\ \A r \in System : Range(SendTo(u, targets, m).out[r]) =
                 IF r \in targets THEN Range(u.out[r]) \cup {m} ELSE Range(u.out[r])
        BY <4>1, SendFacts DEF HasSent
      <4>. QED BY <3>1, <4>2
    <3>. QED BY <3>2 DEF targets
  <2>6. /\ Participants(t) = Participants(s) \cup {q} /\ t.fcm2ParticipantList = list
        /\ t.self = s.self /\ t.ourFCMGuid = s.ourFCMGuid
        /\ t.totalConnectionCount = s.totalConnectionCount
        /\ t.hostRakNetGuid = s.hostRakNetGuid /\ t.lastPushedHost = s.lastPushedHost
    BY <2>3, <2>5 DEF SameFields, Participants
  <2>7. /\ m \in Range(t.out[q]) /\ CarriesNumber(m) /\ m.guid = t.ourFCMGuid
        /\ \A r \in System : Range(s.out[r]) \subseteq Range(t.out[r])
                             /\ \A x \in Range(t.out[r]) \ Range(s.out[r]) : x = m
    BY <2>3, <2>4, <2>5, <2>6 DEF CarriesNumber
  <2>8. /\ t.ourFCMGuid # Unset => TellsNumber(t.out[q])
        /\ t.ourFCMGuid = Unset => AsksForNumber(t.out[q])
    BY <2>4, <2>7 DEF TellsNumber, AsksForNumber
  <2>9. MayBecome(s, t, q)
    <3>1. NumberIsMade(s) => NumberIsMade(t)
      BY <2>6 DEF NumberIsMade
    <3>. QED BY <1>1, <1>5, <2>2, <2>5, <2>6, <2>7, <2>8, <3>1 DEF MayBecome
  <2>. QED BY <1>5, <2>2, <2>6, <2>9 DEF t
<1>. QED BY <1>2, <1>4, <1>5

\* A higher count.
LEMMA IncrementFacts ==
  ASSUME NEW s, IsPlugin(s), NEW count \in Nat, NEW q
  PROVE  LET t == IncrementTotalConnectionCount(s, count)
         IN /\ MayBecome(s, t, q) /\ t.ourFCMGuid = s.ourFCMGuid /\ t.lastPushedHost = s.lastPushedHost
            /\ t.fcm2ParticipantList = s.fcm2ParticipantList /\ t.out = s.out
<1> DEFINE t == IncrementTotalConnectionCount(s, count)
           higher == IF count > s.totalConnectionCount THEN count ELSE s.totalConnectionCount
<1>1. /\ s = [self |-> s.self, fcm2ParticipantList |-> s.fcm2ParticipantList,
              ourFCMGuid |-> s.ourFCMGuid, totalConnectionCount |-> s.totalConnectionCount,
              hostRakNetGuid |-> s.hostRakNetGuid, lastPushedHost |-> s.lastPushedHost, out |-> s.out]
      /\ s.totalConnectionCount \in Nat
  BY PluginFacts
<1>2. higher \in Nat /\ s.totalConnectionCount <= higher
  BY <1>1
<1>3. t = [s EXCEPT !.totalConnectionCount = higher]
  BY DEF IncrementTotalConnectionCount
<1> HIDE DEF higher, t
<1>4. t = [self |-> s.self, fcm2ParticipantList |-> s.fcm2ParticipantList,
           ourFCMGuid |-> s.ourFCMGuid, totalConnectionCount |-> higher,
           hostRakNetGuid |-> s.hostRakNetGuid, lastPushedHost |-> s.lastPushedHost, out |-> s.out]
  BY <1>1, <1>3
<1>5. IsPlugin(t) /\ Participants(t) = Participants(s)
  BY <1>2, <1>4 DEF IsPlugin, Plugin, Participants
<1>6. NumberIsMade(s) => NumberIsMade(t)
  BY <1>1, <1>2, <1>4 DEF NumberIsMade
<1>7. MayBecome(s, t, q)
  BY <1>2, <1>4, <1>5, <1>6 DEF MayBecome
<1>. QED BY <1>4, <1>7 DEF t

\* A set of numbers has a least one.
LEMMA LeastNumber ==
  ASSUME NEW S, S \subseteq Nat, S # {} PROVE \E x \in S : \A y \in S : x <= y
<1> DEFINE R == {ss \in Nat \X Nat : ss[1] < ss[2]}
<1>1. OpToRel(<, Nat) = R
  BY Zenon DEF OpToRel
<1>2. IsWellFoundedOn(R, Nat)
  BY <1>1, NatLessThanWellFounded
<1>3. \A x, y \in Nat : y < x => <<y, x>> \in R
  OBVIOUS
<1> HIDE DEF R
<1>4. PICK x \in S : \A y \in S : <<y, x>> \notin R
  BY <1>2, WFMin
<1>5. \A y \in S : ~(y < x) /\ y \in Nat /\ x \in Nat
  BY <1>3, <1>4
<1>. QED BY <1>5

\* The number a system takes a participant, or itself, to have.
NumberFor(s, q) == IF q = s.self THEN s.ourFCMGuid ELSE s.fcm2ParticipantList[q]

Considered(s) == {q \in Participants(s) \cup {s.self} : NumberFor(s, q) # Unset \/ q = s.self}

\* The host is one of the lowest number considered.
LEMMA HostFacts ==
  ASSUME NEW s, IsPlugin(s)
  PROVE  /\ CalculateHost(s) \in Considered(s)
         /\ \A r \in Considered(s) : NumberFor(s, CalculateHost(s)) <= NumberFor(s, r)
<1> DEFINE guids == [q \in Participants(s) \cup {s.self} |->
                       IF q = s.self THEN s.ourFCMGuid ELSE s.fcm2ParticipantList[q]]
           known == {q \in DOMAIN guids : guids[q] # Unset \/ q = s.self}
           numbers == {guids[q] : q \in known}
<1>1. /\ s.fcm2ParticipantList \in [Participants(s) -> Nat] /\ s.ourFCMGuid \in Nat
  BY PluginFacts
<1>2. /\ \A q \in DOMAIN guids : guids[q] \in Nat /\ guids[q] = NumberFor(s, q)
      /\ DOMAIN guids = Participants(s) \cup {s.self}
  BY <1>1 DEF NumberFor
<1>3. known = Considered(s)
  BY <1>2 DEF Considered
<1>4. CalculateHost(s) = CHOOSE q \in known : \A r \in known : guids[q] <= guids[r]
  BY DEF CalculateHost
<1> HIDE DEF guids
<1>5. numbers \subseteq Nat /\ s.self \in known
  BY <1>2
<1>6. PICK x \in numbers : \A y \in numbers : x <= y
  <2>1. numbers # {}
    BY <1>5
  <2> HIDE DEF numbers
  <2>. QED BY <1>5, <2>1, LeastNumber
<1>7. \E q \in known : \A r \in known : guids[q] <= guids[r]
  BY <1>6
<1> HIDE DEF known
<1>8. CalculateHost(s) \in known /\ \A r \in known : guids[CalculateHost(s)] <= guids[r]
  BY <1>4, <1>7
<1>9. \A q \in known : guids[q] = NumberFor(s, q)
  BY <1>2 DEF known
<1>. QED BY <1>3, <1>8, <1>9

\* The host depends on the list and the own number alone.
LEMMA SameHost ==
  ASSUME NEW s, NEW t, t.self = s.self, t.fcm2ParticipantList = s.fcm2ParticipantList,
         t.ourFCMGuid = s.ourFCMGuid
  PROVE  CalculateHost(t) = CalculateHost(s)
BY DEF CalculateHost, Participants

\* The host is the one of the list, if the list is complete.
HostIsPushed(s) ==
  AllListed(s) /\ Participants(s) # {} => s.lastPushedHost = CalculateHost(s)

\* A host is pushed.
LEMMA PushFacts ==
  ASSUME NEW s, IsPlugin(s), NEW host \in System, NEW q
  PROVE  LET t == PushNewHost(s, host)
         IN /\ MayBecome(s, t, q) /\ t.ourFCMGuid = s.ourFCMGuid /\ t.lastPushedHost = host
            /\ t.fcm2ParticipantList = s.fcm2ParticipantList /\ t.out = s.out
<1> DEFINE t == PushNewHost(s, host)
<1>1. /\ s = [self |-> s.self, fcm2ParticipantList |-> s.fcm2ParticipantList,
              ourFCMGuid |-> s.ourFCMGuid, totalConnectionCount |-> s.totalConnectionCount,
              hostRakNetGuid |-> s.hostRakNetGuid, lastPushedHost |-> s.lastPushedHost, out |-> s.out]
      /\ s.totalConnectionCount \in Nat
  BY PluginFacts
<1>2. t = [self |-> s.self, fcm2ParticipantList |-> s.fcm2ParticipantList,
           ourFCMGuid |-> s.ourFCMGuid, totalConnectionCount |-> s.totalConnectionCount,
           hostRakNetGuid |-> host, lastPushedHost |-> host, out |-> s.out]
  <2>1. t = [s EXCEPT !.hostRakNetGuid = host, !.lastPushedHost = host]
    BY DEF PushNewHost
  <2> HIDE DEF t
  <2>. QED BY <1>1, <2>1
<1> HIDE DEF t
<1>3. IsPlugin(t) /\ Participants(t) = Participants(s)
  BY <1>2 DEF IsPlugin, Plugin, Participants
<1>4. NumberIsMade(s) => NumberIsMade(t)
  BY <1>1, <1>2 DEF NumberIsMade
<1>5. MayBecome(s, t, q)
  BY <1>1, <1>2, <1>3, <1>4 DEF MayBecome
<1>. QED BY <1>2, <1>5 DEF t

\* After a calculation the host of a complete list has been pushed.
LEMMA CalculateFacts ==
  ASSUME NEW s, IsPlugin(s), NEW q
  PROVE  LET t == CalculateAndPushHost(s)
         IN /\ MayBecome(s, t, q) /\ t.ourFCMGuid = s.ourFCMGuid
            /\ t.fcm2ParticipantList = s.fcm2ParticipantList /\ t.out = s.out
            /\ HostIsPushed(t)
<1> DEFINE t == CalculateAndPushHost(s)
           host == CalculateHost(s)
<1>1. host \in System
  <2>1. s.self \in System /\ Participants(s) \subseteq System
    BY PluginFacts
  <2>. QED BY <2>1, HostFacts DEF Considered
<1>2. CASE AllListed(s) /\ host # s.lastPushedHost
  <2>1. t = PushNewHost(s, host)
    BY <1>2 DEF CalculateAndPushHost
  <2> HIDE DEF host, t
  <2>2. /\ MayBecome(s, t, q) /\ t.ourFCMGuid = s.ourFCMGuid /\ t.lastPushedHost = host
        /\ t.fcm2ParticipantList = s.fcm2ParticipantList /\ t.out = s.out
    BY <1>1, <2>1, PushFacts
  <2>3. CalculateHost(t) = host
    BY <2>2, SameHost DEF MayBecome, host
  <2>. QED BY <2>2, <2>3 DEF HostIsPushed, t
<1>3. CASE ~(AllListed(s) /\ host # s.lastPushedHost)
  <2>1. t = s
    BY <1>3 DEF CalculateAndPushHost
  <2>2. MayBecome(s, s, q)
    BY PluginFacts DEF MayBecome
  <2>. QED BY <1>3, <2>1, <2>2 DEF HostIsPushed
<1>. QED BY <1>2, <1>3

\* A number is given, and told to all participants.
LEMMA InformFacts ==
  ASSUME NEW s, IsPlugin(s), s.ourFCMGuid = Unset, NEW u, IsPlugin(u), NEW q,
         u.self = s.self, u.fcm2ParticipantList = s.fcm2ParticipantList, u.out = s.out,
         u.ourFCMGuid # Unset, s.totalConnectionCount <= u.totalConnectionCount,
         u.hostRakNetGuid = s.hostRakNetGuid, u.lastPushedHost = s.lastPushedHost, NumberIsMade(u)
  PROVE  LET t == SendFCMGuid(u, Participants(u), "INFORM_FCMGUID")
         IN /\ MayBecome(s, t, q) /\ t.ourFCMGuid = u.ourFCMGuid
            /\ t.fcm2ParticipantList = s.fcm2ParticipantList /\ t.lastPushedHost = s.lastPushedHost
<1> DEFINE t == SendFCMGuid(u, Participants(u), "INFORM_FCMGUID")
           m == FCMGuidMessage(u, "INFORM_FCMGUID")
           targets == Participants(u)
<1>1. m \in MeshMessage /\ m.id = "INFORM_FCMGUID" /\ m.guid = u.ourFCMGuid
  BY MessageFacts
<1>2. t = SendTo(u, targets, m)
  BY DEF SendFCMGuid
<1> HIDE DEF t, m
<1>3. /\ IsPlugin(t) /\ SameFields(u, t)
      /\ \A r \in System : Range(t.out[r]) = IF r \in Participants(u) THEN Range(u.out[r]) \cup {m}
                                             ELSE Range(u.out[r])
  <2> HIDE DEF targets
  <2>1. HasSent(u, t, targets, m)
    BY <1>1, <1>2, SendFacts
  <2>. QED BY <2>1 DEF HasSent, targets
<1>4. /\ Participants(t) = Participants(s) /\ Participants(u) = Participants(s)
      /\ t.ourFCMGuid = u.ourFCMGuid /\ t.self = s.self
      /\ t.fcm2ParticipantList = s.fcm2ParticipantList /\ t.totalConnectionCount = u.totalConnectionCount
      /\ t.hostRakNetGuid = s.hostRakNetGuid /\ t.lastPushedHost = s.lastPushedHost
  BY <1>3 DEF SameFields, Participants
<1>5. NumberIsMade(t)
  BY <1>3 DEF SameFields, NumberIsMade
<1>6. /\ CarriesNumber(m) /\ m.guid = t.ourFCMGuid /\ m.guid # Unset
      /\ \A r \in System : Range(s.out[r]) \subseteq Range(t.out[r])
                           /\ \A x \in Range(t.out[r]) \ Range(s.out[r]) : x = m
      /\ \A r \in System : r \in Participants(t) => m \in Range(t.out[r])
  BY <1>1, <1>3, <1>4 DEF CarriesNumber
<1>7. \A r \in System : r \in Participants(t) => TellsNumber(t.out[r])
  BY <1>6 DEF TellsNumber
<1>8. MayBecome(s, t, q)
  BY <1>3, <1>4, <1>5, <1>6, <1>7 DEF MayBecome
<1>. QED BY <1>4, <1>8 DEF t

\* The number is of a count the system has, and not the one that stands for none.
LEMMA AssignFacts ==
  ASSUME NEW s, IsPlugin(s)
  PROVE  LET u == AssignOurFCMGuid(s)
         IN /\ IsPlugin(u) /\ u.self = s.self /\ u.fcm2ParticipantList = s.fcm2ParticipantList
            /\ u.out = s.out /\ u.ourFCMGuid # Unset /\ u.totalConnectionCount = s.totalConnectionCount
            /\ u.hostRakNetGuid = s.hostRakNetGuid /\ u.lastPushedHost = s.lastPushedHost
            /\ NumberIsMade(u)
<1> DEFINE u == AssignOurFCMGuid(s)
           number == s.totalConnectionCount * Lots + drawn[s.self]
<1>1. /\ s = [self |-> s.self, fcm2ParticipantList |-> s.fcm2ParticipantList,
              ourFCMGuid |-> s.ourFCMGuid, totalConnectionCount |-> s.totalConnectionCount,
              hostRakNetGuid |-> s.hostRakNetGuid, lastPushedHost |-> s.lastPushedHost, out |-> s.out]
      /\ s.totalConnectionCount \in Nat /\ drawn[s.self] \in Nat \ {0}
  BY PluginFacts
<1>2. Lots \in Nat
  BY SystemAssumption, FS_CardinalityType DEF Lots
<1>3. number \in Nat /\ number # Unset
  <2>1. \A a, b \in Nat : a * b \in Nat
    OBVIOUS
  <2>2. s.totalConnectionCount * Lots \in Nat
    BY <1>1, <1>2, <2>1
  <2>. QED BY <1>1, <2>2 DEF Unset
<1>4. u = [s EXCEPT !.ourFCMGuid = number]
  BY DEF AssignOurFCMGuid
<1>5. NumberIsMade(u)
  <2>1. u.totalConnectionCount = s.totalConnectionCount /\ u.self = s.self /\ u.ourFCMGuid = number
    <3> HIDE DEF number, u
    <3>. QED BY <1>1, <1>4
  <2>2. s.totalConnectionCount \in 0 .. s.totalConnectionCount
    BY <1>1
  <2>. QED BY <2>1, <2>2 DEF NumberIsMade
<1> HIDE DEF number, u
<1>6. u = [self |-> s.self, fcm2ParticipantList |-> s.fcm2ParticipantList,
           ourFCMGuid |-> number, totalConnectionCount |-> s.totalConnectionCount,
           hostRakNetGuid |-> s.hostRakNetGuid, lastPushedHost |-> s.lastPushedHost, out |-> s.out]
  BY <1>1, <1>4
<1>7. IsPlugin(u)
  BY <1>3, <1>6 DEF IsPlugin, Plugin, Participants
<1>. QED BY <1>3, <1>5, <1>6, <1>7 DEF u

\* A system that gives itself a number leaves its list and its host alone.
LEMMA AssignAndInformFacts ==
  ASSUME NEW s, IsPlugin(s), s.ourFCMGuid = Unset, NEW q
  PROVE  LET t == AssignAndInform(s)
         IN /\ MayBecome(s, t, q) /\ t.ourFCMGuid # Unset
            /\ t.fcm2ParticipantList = s.fcm2ParticipantList /\ t.lastPushedHost = s.lastPushedHost
<1> DEFINE u == AssignOurFCMGuid(s)
           t == SendFCMGuid(u, Participants(u), "INFORM_FCMGUID")
<1>1. /\ IsPlugin(u) /\ u.self = s.self /\ u.fcm2ParticipantList = s.fcm2ParticipantList
      /\ u.out = s.out /\ u.ourFCMGuid # Unset /\ u.totalConnectionCount = s.totalConnectionCount
      /\ u.hostRakNetGuid = s.hostRakNetGuid /\ u.lastPushedHost = s.lastPushedHost
      /\ NumberIsMade(u)
  BY AssignFacts
<1>2. s.totalConnectionCount <= u.totalConnectionCount
  BY <1>1, PluginFacts
<1>3. AssignAndInform(s) = t
  BY DEF AssignAndInform
<1> HIDE DEF u
<1>4. /\ MayBecome(s, t, q) /\ t.ourFCMGuid = u.ourFCMGuid
      /\ t.fcm2ParticipantList = s.fcm2ParticipantList /\ t.lastPushedHost = s.lastPushedHost
  BY <1>1, <1>2, InformFacts
<1>. QED BY <1>1, <1>3, <1>4

-----------------------------------------------------------------------------
(* Handlers *)

IsTold(m) == CarriesNumber(m) /\ m.guid # Unset

\* What comes of a message m of q.
LearnsFrom(s, t, q, m) ==
  /\ IsTold(m) => q \in Participants(t) /\ t.fcm2ParticipantList[q] = m.guid /\ t.ourFCMGuid # Unset
  /\ ~IsTold(m) /\ q \in Participants(t) =>
       t.fcm2ParticipantList[q] = IF q \in Participants(s) THEN s.fcm2ParticipantList[q] ELSE Unset
  /\ m.id = "REQUEST_FCMGUID" /\ m.guid = Unset => TellsCount(t.out[q])
  /\ m.id = "RESPOND_CONNECTION_COUNT" => t.ourFCMGuid # Unset
  /\ HostIsPushed(s) => HostIsPushed(t)

\* A count is sent.
LEMMA SendCountFacts ==
  ASSUME NEW s, IsPlugin(s), NEW targets, NEW count \in Nat, NEW q \in System,
         NEW id \in {"RESPOND_CONNECTION_COUNT", "UPDATE_MIN_TOTAL_CONNECTION_COUNT"}
  PROVE  LET t == SendCount(s, targets, id, count)
         IN /\ MayBecome(s, t, q) /\ SameFields(s, t)
            /\ q \in targets /\ id = "RESPOND_CONNECTION_COUNT" => TellsCount(t.out[q])
<1> DEFINE t == SendCount(s, targets, id, count)
           m == [Blank(id) EXCEPT !.count = count]
<1>1. m \in MeshMessage /\ m.id = id /\ ~CarriesNumber(m)
  BY MessageFacts
<1>2. t = SendTo(s, targets, m)
  BY DEF SendCount
<1> HIDE DEF t, m
<1>3. MayBecome(s, t, q) /\ SameFields(s, t)
  BY <1>1, <1>2, SendMay
<1>4. q \in targets => m \in Range(t.out[q])
  <2>1. \A r \in System : Range(SendTo(s, targets, m).out[r]) =
          IF r \in targets THEN Range(s.out[r]) \cup {m} ELSE Range(s.out[r])
    BY <1>1, SendFacts DEF HasSent
  <2>. QED BY <1>2, <2>1
<1>. QED BY <1>1, <1>3, <1>4 DEF TellsCount, t

\* A request: a system without a number is told the count, and one that has a
\* number makes this one have one too.
LEMMA RequestFacts ==
  ASSUME NEW s, IsPlugin(s), NEW q \in System, NEW m \in MeshMessage, NEW probablyHost \in BOOLEAN,
         m.id = "REQUEST_FCMGUID"
  PROVE  LET t == OnRequestFCMGuid(s, q, m, probablyHost) IN MayBecome(s, t, q) /\ LearnsFrom(s, t, q, m)
<1> DEFINE t == AddParticipantInternal(s, q, m.guid)
           x == IF s.ourFCMGuid = Unset
                THEN IF m.guid = Unset
                     THEN SendConnectionCountResponse(t, q, IF probablyHost THEN 2 ELSE 1)
                     ELSE AssignAndInform(IncrementTotalConnectionCount(t, m.count + 1))
                ELSE IF m.guid = Unset
                     THEN SendConnectionCountResponse(t, q, t.totalConnectionCount + 1)
                     ELSE SendFCMGuid(IncrementTotalConnectionCount(t, m.count), {q}, "INFORM_FCMGUID")
           v == CalculateAndPushHost(x)
<1>1. v = OnRequestFCMGuid(s, q, m, probablyHost)
  BY DEF OnRequestFCMGuid
<1>2. m.guid \in Nat /\ m.count \in Nat /\ m.count + 1 \in Nat
  BY DEF MeshMessage
<1>3. /\ MayBecome(s, t, q) /\ t.ourFCMGuid = s.ourFCMGuid
      /\ t.totalConnectionCount = s.totalConnectionCount
      /\ q \in Participants(t)
      /\ m.guid # Unset \/ q \notin Participants(s) => t.fcm2ParticipantList[q] = m.guid
      /\ m.guid = Unset /\ q \in Participants(s) => t = s
  BY <1>2, AddFacts
<1>4. IsPlugin(t) /\ t.totalConnectionCount \in Nat
  BY <1>3, PluginFacts DEF MayBecome
<1> HIDE DEF t
<1>5. /\ MayBecome(t, x, q) /\ x.fcm2ParticipantList = t.fcm2ParticipantList
      /\ m.guid # Unset => x.ourFCMGuid # Unset
      /\ m.guid = Unset => TellsCount(x.out[q])
  <2>1. ASSUME NEW count \in Nat, x = SendConnectionCountResponse(t, q, count), m.guid = Unset
        PROVE  MayBecome(t, x, q) /\ x.fcm2ParticipantList = t.fcm2ParticipantList /\ TellsCount(x.out[q])
    <3>1. x = SendCount(t, {q}, "RESPOND_CONNECTION_COUNT", count)
      BY <2>1 DEF SendConnectionCountResponse
    <3> HIDE DEF x
    <3>2. /\ MayBecome(t, x, q) /\ SameFields(t, x) /\ TellsCount(x.out[q])
      BY <1>4, <3>1, SendCountFacts
    <3>. QED BY <3>2 DEF SameFields
  <2>2. CASE m.guid = Unset
    <3>1. PICK count \in Nat : x = SendConnectionCountResponse(t, q, count)
      <4>1. (IF probablyHost THEN 2 ELSE 1) \in Nat /\ t.totalConnectionCount + 1 \in Nat
        BY <1>4
      <4>. QED BY <2>2, <4>1
    <3>. QED BY <2>1, <2>2, <3>1
  <2>3. CASE m.guid # Unset /\ s.ourFCMGuid = Unset
    <3> DEFINE higher == m.count + 1
               u == IncrementTotalConnectionCount(t, higher)
    <3>1. x = AssignAndInform(u)
      BY <2>3
    <3> HIDE DEF higher
    <3>2. /\ MayBecome(t, u, q) /\ u.ourFCMGuid = t.ourFCMGuid
          /\ u.fcm2ParticipantList = t.fcm2ParticipantList
      BY <1>2, <1>4, IncrementFacts DEF higher
    <3> HIDE DEF u, x
    <3>3. IsPlugin(u) /\ u.ourFCMGuid = Unset
      BY <1>3, <2>3, <3>2 DEF MayBecome
    <3>4. /\ MayBecome(u, x, q) /\ x.ourFCMGuid # Unset
          /\ x.fcm2ParticipantList = u.fcm2ParticipantList
      BY <3>1, <3>3, AssignAndInformFacts
    <3>. QED BY <1>4, <2>3, <3>2, <3>4, MayTransitive
  <2>4. CASE m.guid # Unset /\ s.ourFCMGuid # Unset
    <3> DEFINE u == IncrementTotalConnectionCount(t, m.count)
               f == FCMGuidMessage(u, "INFORM_FCMGUID")
    <3>1. x = SendTo(u, {q}, f)
      BY <2>4 DEF SendFCMGuid
    <3>2. /\ MayBecome(t, u, q) /\ u.ourFCMGuid = t.ourFCMGuid
          /\ u.fcm2ParticipantList = t.fcm2ParticipantList
      BY <1>2, <1>4, IncrementFacts
    <3> HIDE DEF u, x
    <3>3. IsPlugin(u) /\ u.ourFCMGuid # Unset
      BY <1>3, <2>4, <3>2 DEF MayBecome
    <3>4. f \in MeshMessage /\ f.guid = u.ourFCMGuid
      BY <3>3, MessageFacts
    <3> HIDE DEF f
    <3>5. MayBecome(u, x, q) /\ SameFields(u, x)
      BY <3>1, <3>3, <3>4, SendMay
    <3>. QED BY <1>4, <2>4, <3>2, <3>3, <3>5, MayTransitive DEF SameFields
  <2>. QED BY <2>2, <2>3, <2>4
<1> HIDE DEF x
<1>6. MayBecome(s, x, q) /\ IsPlugin(x)
  <2>1. MayBecome(s, x, q)
    BY <1>3, <1>5, MayTransitive
  <2>. QED BY <2>1 DEF MayBecome
<1>7. /\ MayBecome(x, v, q) /\ v.ourFCMGuid = x.ourFCMGuid
      /\ v.fcm2ParticipantList = x.fcm2ParticipantList /\ v.out = x.out
      /\ HostIsPushed(v)
  BY <1>6, CalculateFacts
<1> HIDE DEF v
<1>8. MayBecome(s, v, q)
  BY <1>6, <1>7, MayTransitive
<1>9. /\ Participants(v) = Participants(t) /\ v.fcm2ParticipantList = t.fcm2ParticipantList
  BY <1>5, <1>7 DEF Participants
<1>10. LearnsFrom(s, v, q, m)
  <2>1. CarriesNumber(m)
    BY DEF CarriesNumber
  <2>. QED BY <1>3, <1>5, <1>7, <1>9, <2>1 DEF LearnsFrom, IsTold, Unset
<1>. QED BY <1>1, <1>8, <1>10

\* An answer: the system has a number.
LEMMA RespondFacts ==
  ASSUME NEW s, IsPlugin(s), NEW q \in System, NEW m \in MeshMessage,
         m.id = "RESPOND_CONNECTION_COUNT"
  PROVE  LET t == OnRespondConnectionCount(s, m) IN MayBecome(s, t, q) /\ LearnsFrom(s, t, q, m)
<1> DEFINE t == IncrementTotalConnectionCount(s, m.count)
           u == IF s.ourFCMGuid = Unset THEN AssignOurFCMGuid(t) ELSE t
           v == IncrementTotalConnectionCount(u, 2)
           x == SendFCMGuid(v, Participants(v), "INFORM_FCMGUID")
           w == CalculateAndPushHost(x)
<1>1. OnRespondConnectionCount(s, m) = IF s.ourFCMGuid = Unset THEN w ELSE v
  BY DEF OnRespondConnectionCount
<1>2. m.count \in Nat /\ ~IsTold(m)
  BY DEF MeshMessage, IsTold, CarriesNumber
<1>3. /\ MayBecome(s, t, q) /\ t.ourFCMGuid = s.ourFCMGuid /\ t.lastPushedHost = s.lastPushedHost
      /\ t.fcm2ParticipantList = s.fcm2ParticipantList /\ t.out = s.out
  BY <1>2, IncrementFacts
<1>4. IsPlugin(t) /\ t.self = s.self /\ t.totalConnectionCount \in Nat /\ s.totalConnectionCount \in Nat
      /\ s.totalConnectionCount <= t.totalConnectionCount
      /\ 2 \in Nat
  BY <1>3, PluginFacts DEF MayBecome
<1>5. CASE s.ourFCMGuid # Unset
  <2>1. u = t
    BY <1>5
  <2> HIDE DEF u
  <2>2. /\ MayBecome(t, v, q) /\ v.ourFCMGuid = t.ourFCMGuid /\ v.lastPushedHost = t.lastPushedHost
        /\ v.fcm2ParticipantList = t.fcm2ParticipantList
    BY <1>4, <2>1, IncrementFacts
  <2> HIDE DEF t, v
  <2>3. MayBecome(s, v, q)
    BY <1>3, <2>2, MayTransitive
  <2>4. /\ Participants(v) = Participants(s) /\ v.fcm2ParticipantList = s.fcm2ParticipantList
        /\ v.ourFCMGuid = s.ourFCMGuid /\ v.lastPushedHost = s.lastPushedHost /\ v.self = s.self
    BY <1>3, <2>2, <2>3 DEF Participants, MayBecome
  <2>5. HostIsPushed(s) => HostIsPushed(v)
    BY <2>4, SameHost DEF HostIsPushed, AllListed
  <2>6. LearnsFrom(s, v, q, m)
    BY <1>2, <1>5, <2>4, <2>5 DEF LearnsFrom
  <2>. QED BY <1>1, <1>5, <2>3, <2>6
<1>6. CASE s.ourFCMGuid = Unset
  <2>1. u = AssignOurFCMGuid(t)
    BY <1>6
  <2> HIDE DEF t, u
  <2>2. /\ IsPlugin(u) /\ u.self = t.self /\ u.fcm2ParticipantList = t.fcm2ParticipantList
        /\ u.out = t.out /\ u.ourFCMGuid # Unset /\ u.totalConnectionCount = t.totalConnectionCount
        /\ u.hostRakNetGuid = t.hostRakNetGuid /\ u.lastPushedHost = t.lastPushedHost
        /\ NumberIsMade(u)
    BY <1>4, <2>1, AssignFacts
  <2>3. /\ MayBecome(u, v, q) /\ v.ourFCMGuid = u.ourFCMGuid /\ v.lastPushedHost = u.lastPushedHost
        /\ v.fcm2ParticipantList = u.fcm2ParticipantList /\ v.out = u.out
    BY <2>2, IncrementFacts
  <2> HIDE DEF v
  <2>4. /\ IsPlugin(v) /\ NumberIsMade(v) /\ u.totalConnectionCount <= v.totalConnectionCount
        /\ v.self = t.self /\ v.ourFCMGuid # Unset /\ v.out = t.out
        /\ v.fcm2ParticipantList = t.fcm2ParticipantList /\ v.totalConnectionCount \in Nat
    BY <2>2, <2>3, PluginFacts DEF MayBecome
  <2>5. v.hostRakNetGuid = t.hostRakNetGuid /\ v.lastPushedHost = t.lastPushedHost
    <3>1. IncrementTotalConnectionCount(u, 2).hostRakNetGuid = u.hostRakNetGuid
      BY <2>2, PluginFacts DEF IncrementTotalConnectionCount
    <3>. QED BY <2>2, <2>3, <3>1 DEF v
  <2>6. t.totalConnectionCount <= v.totalConnectionCount /\ t.ourFCMGuid = Unset
    BY <1>3, <1>6, <2>2, <2>4
  <2>7. /\ MayBecome(t, x, q) /\ x.ourFCMGuid = v.ourFCMGuid
        /\ x.fcm2ParticipantList = t.fcm2ParticipantList
    BY <1>4, <2>4, <2>5, <2>6, InformFacts
  <2> HIDE DEF x
  <2>8. MayBecome(s, x, q) /\ IsPlugin(x)
    <3>1. MayBecome(s, x, q)
      BY <1>3, <2>7, MayTransitive
    <3>. QED BY <3>1 DEF MayBecome
  <2>9. /\ MayBecome(x, w, q) /\ w.ourFCMGuid = x.ourFCMGuid
        /\ w.fcm2ParticipantList = x.fcm2ParticipantList /\ w.out = x.out
        /\ HostIsPushed(w)
    BY <2>8, CalculateFacts
  <2> HIDE DEF w
  <2>10. MayBecome(s, w, q)
    BY <2>8, <2>9, MayTransitive
  <2>11. /\ Participants(w) = Participants(s) /\ w.fcm2ParticipantList = s.fcm2ParticipantList
         /\ w.ourFCMGuid # Unset
    BY <1>3, <2>4, <2>7, <2>9 DEF Participants
  <2>12. LearnsFrom(s, w, q, m)
    BY <1>2, <2>9, <2>11 DEF LearnsFrom
  <2>. QED BY <1>1, <1>6, <2>10, <2>12
<1>. QED BY <1>5, <1>6

\* A number is told: the others are told of a new participant, and the system has a
\* number afterwards.
LEMMA InformedFacts ==
  ASSUME NEW s, IsPlugin(s), NEW q \in System, NEW m \in MeshMessage, m.id = "INFORM_FCMGUID"
  PROVE  LET t == OnInformFCMGuid(s, q, m) IN MayBecome(s, t, q) /\ LearnsFrom(s, t, q, m)
<1> DEFINE t == IncrementTotalConnectionCount(s, m.count)
           u == AddParticipantInternal(t, q, m.guid)
           targets == Participants(u) \ {q}
           v == IF q \in Participants(s) THEN u
                ELSE SendCount(u, targets, "UPDATE_MIN_TOTAL_CONNECTION_COUNT", u.totalConnectionCount)
           x == IF v.ourFCMGuid = Unset THEN AssignAndInform(v) ELSE v
           w == CalculateAndPushHost(x)
<1>1. w = OnInformFCMGuid(s, q, m)
  BY DEF OnInformFCMGuid
<1>2. m.guid \in Nat /\ m.count \in Nat
  BY DEF MeshMessage
<1>3. /\ MayBecome(s, t, q) /\ t.ourFCMGuid = s.ourFCMGuid
      /\ t.fcm2ParticipantList = s.fcm2ParticipantList
  BY <1>2, IncrementFacts
<1>4. IsPlugin(t) /\ Participants(t) = Participants(s)
  BY <1>3 DEF MayBecome, Participants
<1> HIDE DEF t
<1>5. /\ MayBecome(t, u, q) /\ u.ourFCMGuid = t.ourFCMGuid
      /\ q \in Participants(u)
      /\ m.guid # Unset \/ q \notin Participants(t) => u.fcm2ParticipantList[q] = m.guid
      /\ m.guid = Unset /\ q \in Participants(t) => u = t
  BY <1>2, <1>4, AddFacts
<1>6. IsPlugin(u) /\ u.totalConnectionCount \in Nat
  BY <1>5, PluginFacts DEF MayBecome
<1> HIDE DEF u, targets
<1>7. /\ MayBecome(u, v, q) /\ v.fcm2ParticipantList = u.fcm2ParticipantList
  <2>1. CASE q \in Participants(s)
    BY <1>6, <2>1, PluginFacts DEF MayBecome
  <2>2. CASE q \notin Participants(s)
    <3>1. v = SendCount(u, targets, "UPDATE_MIN_TOTAL_CONNECTION_COUNT", u.totalConnectionCount)
      BY <2>2
    <3> HIDE DEF v
    <3>2. MayBecome(u, v, q) /\ SameFields(u, v)
      <4> DEFINE count == u.totalConnectionCount
      <4>1. v = SendCount(u, targets, "UPDATE_MIN_TOTAL_CONNECTION_COUNT", count) /\ count \in Nat
        BY <1>6, <3>1
      <4> HIDE DEF count
      <4>. QED BY <1>6, <4>1, SendCountFacts
    <3>. QED BY <3>2 DEF SameFields
  <2>. QED BY <2>1, <2>2
<1> HIDE DEF v
<1>8. IsPlugin(v)
  BY <1>7 DEF MayBecome
<1>9. /\ MayBecome(v, x, q) /\ x.fcm2ParticipantList = v.fcm2ParticipantList /\ x.ourFCMGuid # Unset
  <2>1. CASE v.ourFCMGuid = Unset
    <3>1. x = AssignAndInform(v)
      BY <2>1
    <3> HIDE DEF x
    <3>. QED BY <1>8, <2>1, <3>1, AssignAndInformFacts
  <2>2. CASE v.ourFCMGuid # Unset
    BY <1>8, <2>2, PluginFacts DEF MayBecome
  <2>. QED BY <2>1, <2>2
<1> HIDE DEF x
<1>10. MayBecome(s, x, q) /\ IsPlugin(x)
  <2>1. MayBecome(s, u, q)
    BY <1>3, <1>5, MayTransitive
  <2>2. MayBecome(s, v, q)
    BY <1>7, <2>1, MayTransitive
  <2>3. MayBecome(s, x, q)
    BY <1>9, <2>2, MayTransitive
  <2>. QED BY <2>3 DEF MayBecome
<1>11. /\ MayBecome(x, w, q) /\ w.ourFCMGuid = x.ourFCMGuid
       /\ w.fcm2ParticipantList = x.fcm2ParticipantList
       /\ HostIsPushed(w)
  BY <1>10, CalculateFacts
<1> HIDE DEF w
<1>12. MayBecome(s, w, q)
  BY <1>10, <1>11, MayTransitive
<1>13. /\ Participants(w) = Participants(u) /\ w.fcm2ParticipantList = u.fcm2ParticipantList
       /\ w.ourFCMGuid # Unset
  BY <1>7, <1>9, <1>11 DEF Participants
<1>14. LearnsFrom(s, w, q, m)
  <2>1. CarriesNumber(m)
    BY DEF CarriesNumber
  <2>. QED BY <1>3, <1>4, <1>5, <1>11, <1>13, <2>1 DEF LearnsFrom, IsTold, Unset
<1>. QED BY <1>1, <1>12, <1>14

\* Only a count is told.
LEMMA UpdateFacts ==
  ASSUME NEW s, IsPlugin(s), NEW q \in System, NEW m \in MeshMessage,
         m.id = "UPDATE_MIN_TOTAL_CONNECTION_COUNT"
  PROVE  LET t == IncrementTotalConnectionCount(s, m.count)
         IN MayBecome(s, t, q) /\ LearnsFrom(s, t, q, m)
<1> DEFINE t == IncrementTotalConnectionCount(s, m.count)
<1>1. m.count \in Nat /\ ~IsTold(m)
  BY DEF MeshMessage, IsTold, CarriesNumber
<1>2. /\ MayBecome(s, t, q) /\ t.ourFCMGuid = s.ourFCMGuid /\ t.lastPushedHost = s.lastPushedHost
      /\ t.fcm2ParticipantList = s.fcm2ParticipantList
  BY <1>1, IncrementFacts
<1> HIDE DEF t
<1>3. Participants(t) = Participants(s) /\ t.self = s.self
  BY <1>2 DEF Participants, MayBecome
<1>4. HostIsPushed(s) => HostIsPushed(t)
  BY <1>2, <1>3, SameHost DEF HostIsPushed, AllListed
<1>5. LearnsFrom(s, t, q, m)
  BY <1>1, <1>2, <1>3, <1>4 DEF LearnsFrom
<1>. QED BY <1>2, <1>5 DEF t

\* A participant is taken in, or nothing is done, at a notice of RakPeer.
LEMMA NoticedFacts ==
  ASSUME NEW s, IsPlugin(s), NEW q \in System
  PROVE  LET t == AddParticipantInternal(s, q, Unset)
         IN /\ MayBecome(s, t, q) /\ LearnsFrom(s, t, q, Notice("NEW_CONNECTION"))
            /\ MayBecome(s, s, q) /\ LearnsFrom(s, s, q, Notice("NEW_CONNECTION"))
<1> DEFINE t == AddParticipantInternal(s, q, Unset)
           m == Notice("NEW_CONNECTION")
<1>1. ~IsTold(m) /\ m.id = "NEW_CONNECTION"
  BY DEF IsTold, CarriesNumber, Notice
<1>2. /\ MayBecome(s, t, q) /\ t.ourFCMGuid = s.ourFCMGuid
      /\ q \in Participants(t)
      /\ q \notin Participants(s) => t.fcm2ParticipantList[q] = Unset
      /\ q \in Participants(s) => t = s
  <2>1. Unset \in Nat
    BY DEF Unset
  <2>. QED BY <2>1, AddFacts
<1> HIDE DEF t, m
<1>3. HostIsPushed(s) => HostIsPushed(t)
  BY <1>2 DEF HostIsPushed, AllListed
<1>4. LearnsFrom(s, t, q, m)
  BY <1>1, <1>2, <1>3 DEF LearnsFrom
<1>5. MayBecome(s, s, q) /\ LearnsFrom(s, s, q, m)
  BY <1>1, PluginFacts DEF MayBecome, LearnsFrom
<1>. QED BY <1>2, <1>4, <1>5 DEF t, m

-----------------------------------------------------------------------------
(* Steps of a mesh *)

LostNotice == Notice("CLOSED_CONNECTION")
MadeNotice == Notice("NEW_CONNECTION")
MeshHandled == MeshMessage \cup {MadeNotice, LostNotice}

\* What the invariant says of one plugin.
LEMMA OwnFacts ==
  ASSUME MeshIInv, NEW p \in System
  PROVE  /\ IsPlugin(mesh[p]) /\ mesh[p].self = p /\ mesh[p].out = Nothing /\ p \notin Participants(mesh[p])
         /\ Participants(mesh[p]) \subseteq System
         /\ NumberIsMade(mesh[p]) /\ mesh[p].hostRakNetGuid = mesh[p].lastPushedHost
         /\ p \notin unnumbered => HostIsPushed(mesh[p])
         /\ drawn \in [System -> Nat \ {0}]
         /\ inbox \in [System -> [System -> Seq(MeshHandled)]] /\ inbox[p][p] = <<>>
<1>1. drawn \in [System -> 1 .. Lots - 1]
  BY LotsAssumption DEF MeshIInv, MeshTypeOK
<1>2. Lots \in Nat
  BY SystemAssumption, FS_CardinalityType DEF Lots
<1>3. drawn \in [System -> Nat \ {0}]
  BY <1>1, <1>2
<1>4. OwnHostAgrees(p) /\ MeshTypeOK
  BY DEF MeshIInv
<1>5. inbox \in [System -> [System -> Seq(MeshHandled)]]
  BY <1>4 DEF MeshTypeOK, LinksTypeOK, MeshHandled, MadeNotice, LostNotice
<1>6. /\ mesh[p] \in Plugin(Participants(mesh[p])) /\ Participants(mesh[p]) \subseteq System \ {p}
      /\ mesh[p].self = p /\ mesh[p].out = Nothing /\ inbox[p][p] = <<>>
  BY <1>4 DEF MeshTypeOK
<1>7. NumberIsMade(mesh[p])
  BY <1>4, <1>6 DEF OwnHostAgrees, NumberIsMade, Number
<1>8. IsPlugin(mesh[p])
  BY <1>3, <1>6 DEF IsPlugin
<1>9. p \notin unnumbered => HostIsPushed(mesh[p])
  BY <1>4 DEF OwnHostAgrees, HostIsPushed
<1>. QED BY <1>3, <1>4, <1>5, <1>6, <1>7, <1>8, <1>9 DEF OwnHostAgrees

\* What is handled is a message of the mesh or a notice, which its id tells apart.
LEMMA MessageKinds ==
  /\ LostNotice \notin MeshMessage /\ MadeNotice \notin MeshMessage /\ LostNotice # MadeNotice
  /\ MadeNotice.id = "NEW_CONNECTION" /\ LostNotice.id = "CLOSED_CONNECTION"
  /\ ~IsTold(MadeNotice) /\ ~IsTold(LostNotice)
  /\ \A m \in MeshHandled : m.id \in {"REQUEST_FCMGUID", "RESPOND_CONNECTION_COUNT", "INFORM_FCMGUID",
                                      "UPDATE_MIN_TOTAL_CONNECTION_COUNT"} => m \in MeshMessage
  /\ \A m \in MeshHandled : m.id = "NEW_CONNECTION" => m = MadeNotice
  /\ \A m \in MeshHandled : m.id = "CLOSED_CONNECTION" => m = LostNotice
<1>1. MadeNotice.id = "NEW_CONNECTION" /\ LostNotice.id = "CLOSED_CONNECTION"
  BY DEF MadeNotice, LostNotice, Notice
<1>2. \A m \in MeshMessage : m.id \notin {"NEW_CONNECTION", "CLOSED_CONNECTION"}
  BY DEF MeshMessage
<1>. QED BY <1>1, <1>2 DEF MeshHandled, IsTold, CarriesNumber

\* System p, which was called about q or has handled a message m of q, is t now.
StepOfMesh(p, q, t, m) ==
  /\ MayBecome(mesh[p], t, q) /\ LearnsFrom(mesh[p], t, q, m)
  /\ mesh' = [mesh EXCEPT ![p] = [t EXCEPT !.out = Nothing]]
  /\ linked' = linked /\ drawn' = drawn /\ unnumbered' = unnumbered
  /\ inbox' \in [System -> [System -> Seq(MeshHandled)]]
  /\ \A r \in System \ {q} : inbox'[p][r] = inbox[p][r]
  /\ \/ Linked(p, q) /\ m = MadeNotice /\ inbox'[p][q] = inbox[p][q]
     \/ inbox[p][q] # <<>> /\ m = Head(inbox[p][q]) /\ m # LostNotice /\ inbox'[p][q] = Tail(inbox[p][q])
  /\ \A r \in System \ {p} :
       /\ inbox'[r][p] = IF Linked(r, p) THEN inbox[r][p] \o t.out[r] ELSE inbox[r][p]
       /\ \A o \in System \ {p} : inbox'[r][o] = inbox[r][o]

\* What such a step leaves of the plugins.
LEMMA StepPlugins ==
  ASSUME MeshIInv, NEW p \in System, NEW q \in System \ {p}, NEW t, NEW m, StepOfMesh(p, q, t, m)
  PROVE  /\ IsPlugin(t) /\ t.self = p /\ IsPlugin(mesh'[p]) /\ SameFields(t, mesh'[p])
         /\ mesh'[p].out = Nothing /\ Participants(mesh'[p]) = Participants(t)
         /\ Participants(mesh[p]) \subseteq Participants(t)
         /\ Participants(t) \subseteq Participants(mesh[p]) \cup {q}
         /\ DOMAIN mesh' = System /\ \A r \in System \ {p} : mesh'[r] = mesh[r]
         /\ \A r \in Participants(mesh[p]) \ {q} :
              t.fcm2ParticipantList[r] = mesh[p].fcm2ParticipantList[r]
         /\ Number(p) # Unset => t.ourFCMGuid = Number(p)
<1>1. /\ IsPlugin(mesh[p]) /\ mesh[p].self = p
      /\ DOMAIN mesh = System
  BY OwnFacts DEF MeshIInv, MeshTypeOK
<1>2. /\ MayBecome(mesh[p], t, q)
      /\ mesh' = [mesh EXCEPT ![p] = [t EXCEPT !.out = Nothing]]
  BY DEF StepOfMesh
<1>3. /\ IsPlugin(t) /\ t.self = p
      /\ Participants(mesh[p]) \subseteq Participants(t)
      /\ Participants(t) \subseteq Participants(mesh[p]) \cup {q}
      /\ \A r \in Participants(mesh[p]) \ {q} :
           t.fcm2ParticipantList[r] = mesh[p].fcm2ParticipantList[r]
      /\ Number(p) # Unset => t.ourFCMGuid = Number(p)
  BY <1>1, <1>2 DEF MayBecome, Number
<1>4. /\ DOMAIN mesh' = System /\ mesh'[p] = [t EXCEPT !.out = Nothing]
      /\ \A r \in System \ {p} : mesh'[r] = mesh[r]
  BY <1>1, <1>2
<1>5. /\ t = [self |-> t.self, fcm2ParticipantList |-> t.fcm2ParticipantList,
              ourFCMGuid |-> t.ourFCMGuid, totalConnectionCount |-> t.totalConnectionCount,
              hostRakNetGuid |-> t.hostRakNetGuid, lastPushedHost |-> t.lastPushedHost, out |-> t.out]
  BY <1>3, PluginFacts
<1> DEFINE n == mesh'[p]
<1>6. n = [self |-> t.self, fcm2ParticipantList |-> t.fcm2ParticipantList,
           ourFCMGuid |-> t.ourFCMGuid, totalConnectionCount |-> t.totalConnectionCount,
           hostRakNetGuid |-> t.hostRakNetGuid, lastPushedHost |-> t.lastPushedHost, out |-> Nothing]
  <2> HIDE DEF n
  <2>1. n = [t EXCEPT !.out = Nothing]
    BY <1>4 DEF n
  <2>. QED BY <1>5, <2>1
<1>7. Nothing \in [System -> Seq(MeshMessage)]
  BY DEF Nothing
<1> HIDE DEF n
<1>8. SameFields(t, n) /\ n.out = Nothing
  BY <1>6 DEF SameFields
<1>9. IsPlugin(n) /\ Participants(n) = Participants(t)
  <2>1. Participants(n) = Participants(t)
    BY <1>8 DEF SameFields, Participants
  <2>. QED BY <1>3, <1>6, <1>7, <1>8, <2>1 DEF IsPlugin, Plugin, SameFields
<1>. QED BY <1>3, <1>4, <1>8, <1>9 DEF n

\* Of the messages p has to handle only one of q goes.
Drops(p, q, m) ==
  \A b \in System \ {p} :
    /\ Range(inbox'[p][b]) \subseteq Range(inbox[p][b])
    /\ \A x \in Range(inbox[p][b]) : x \in Range(inbox'[p][b]) \/ (b = q /\ x = m)

\* What p sends is added to what the others have to handle.
Adds(p, t) ==
  \A a \in System \ {p} :
    /\ Range(inbox[a][p]) \subseteq Range(inbox'[a][p])
    /\ \A x \in Range(inbox'[a][p]) : x \in Range(inbox[a][p]) \/ (Linked(a, p) /\ x \in Range(t.out[a]))
    /\ Linked(a, p) => Range(t.out[a]) \subseteq Range(inbox'[a][p])
    /\ ~Linked(a, p) => inbox'[a][p] = inbox[a][p]

\* What the queues of p are after such a step.
LEMMA StepQueues ==
  ASSUME MeshIInv, NEW p \in System, NEW q \in System \ {p}, NEW t, NEW m, StepOfMesh(p, q, t, m)
  PROVE  /\ Drops(p, q, m) /\ Adds(p, t)
         /\ m = MadeNotice \/ m \in Range(inbox[p][q])
         /\ \A a \in System : t.out[a] \in Seq(MeshMessage) /\ Range(t.out[a]) \subseteq MeshMessage
<1>1. inbox \in [System -> [System -> Seq(MeshHandled)]]
  BY OwnFacts
<1>2. IsPlugin(t)
  BY StepPlugins
<1>3. ASSUME NEW a \in System
      PROVE  t.out[a] \in Seq(MeshMessage) /\ t.out[a] \in Seq(MeshHandled)
             /\ Range(t.out[a]) \subseteq MeshMessage
  <2>1. t.out[a] \in Seq(MeshMessage)
    BY <1>2, PluginFacts
  <2>2. MeshMessage \subseteq MeshHandled
    BY DEF MeshHandled
  <2>3. t.out[a] \in Seq(MeshHandled)
    BY <2>1, <2>2
  <2>. QED BY <2>1, <2>3, QueueFacts
<1>4. /\ m = MadeNotice \/ m \in Range(inbox[p][q])
      /\ Range(inbox'[p][q]) \subseteq Range(inbox[p][q])
      /\ \A x \in Range(inbox[p][q]) : x \in Range(inbox'[p][q]) \/ x = m
  <2>1. CASE m = MadeNotice /\ inbox'[p][q] = inbox[p][q]
    BY <2>1
  <2>2. CASE inbox[p][q] # <<>> /\ m = Head(inbox[p][q]) /\ inbox'[p][q] = Tail(inbox[p][q])
    <3> DEFINE queue == inbox[p][q]
    <3>1. queue \in Seq(MeshHandled) /\ queue # <<>>
      BY <1>1, <2>2
    <3> HIDE DEF queue
    <3>2. Range(queue) = {Head(queue)} \cup Range(Tail(queue))
      BY <3>1, QueueFacts
    <3>. QED BY <2>2, <3>2 DEF queue
  <2>. QED BY <2>1, <2>2 DEF StepOfMesh
<1>5. ASSUME NEW b \in System \ {p}
      PROVE  /\ Range(inbox'[p][b]) \subseteq Range(inbox[p][b])
             /\ \A x \in Range(inbox[p][b]) : x \in Range(inbox'[p][b]) \/ (b = q /\ x = m)
  <2>1. b # q => inbox'[p][b] = inbox[p][b]
    BY <1>5 DEF StepOfMesh
  <2>. QED BY <1>4, <2>1
<1>6. ASSUME NEW a \in System \ {p}
      PROVE  /\ Range(inbox[a][p]) \subseteq Range(inbox'[a][p])
             /\ \A x \in Range(inbox'[a][p]) : x \in Range(inbox[a][p]) \/ (Linked(a, p) /\ x \in Range(t.out[a]))
             /\ Linked(a, p) => Range(t.out[a]) \subseteq Range(inbox'[a][p])
             /\ ~Linked(a, p) => inbox'[a][p] = inbox[a][p]
  <2> DEFINE queue == inbox[a][p]
             sent == t.out[a]
  <2>1. queue \in Seq(MeshHandled) /\ sent \in Seq(MeshHandled)
    BY <1>1, <1>3
  <2>2. inbox'[a][p] = IF Linked(a, p) THEN queue \o sent ELSE queue
    BY <1>6 DEF StepOfMesh
  <2> HIDE DEF queue, sent
  <2>3. Range(queue \o sent) = Range(queue) \cup Range(sent)
    BY <2>1, QueueFacts
  <2>4. /\ Range(queue) \subseteq Range(inbox'[a][p])
        /\ \A x \in Range(inbox'[a][p]) : x \in Range(queue) \/ (Linked(a, p) /\ x \in Range(sent))
        /\ Linked(a, p) => Range(sent) \subseteq Range(inbox'[a][p])
        /\ ~Linked(a, p) => inbox'[a][p] = queue
    BY <2>2, <2>3
  <2>. QED BY <2>4 DEF queue, sent
<1>. QED BY <1>3, <1>4, <1>5, <1>6 DEF Drops, Adds

\* What such a step says: to whom, and what of.
LEMMA StepSends ==
  ASSUME MeshIInv, NEW p \in System, NEW q \in System \ {p}, NEW t, NEW m, StepOfMesh(p, q, t, m),
         NEW a \in System \ {p}
  PROVE  /\ \A x \in Range(t.out[a]) : CarriesNumber(x) => x.guid \in {Unset, t.ourFCMGuid}
         /\ a \in Participants(t) /\ t.ourFCMGuid # Unset =>
              TellsNumber(t.out[a]) \/ (Participates(p, a) /\ Number(p) # Unset)
         /\ a \in Participants(t) /\ t.ourFCMGuid = Unset => AsksForNumber(t.out[a]) \/ Participates(p, a)
<1>1. mesh[p].out = Nothing
  BY OwnFacts
<1>2. Range(mesh[p].out[a]) = {}
  BY <1>1 DEF Nothing, Range
<1>. QED BY <1>2 DEF StepOfMesh, MayBecome, Number, Participates

\* What p knows of the others after such a step.
LEMMA MeshListenerKeeps ==
  ASSUME MeshIInv, NEW p \in System, NEW q \in System \ {p}, NEW t, NEW m, StepOfMesh(p, q, t, m),
         NEW b \in System \ {p}
  PROVE  (LossesNoticed(p, b) /\ NumbersAreTrue(p, b) /\ NumberArrives(p, b) /\ NumberIsComing(p, b))'
<1>1. /\ LossesNoticed(p, b) /\ NumbersAreTrue(p, b) /\ NumberArrives(p, b) /\ NumberIsComing(p, b)
      /\ NumbersAreTrue(p, q) /\ LossesNoticed(p, q)
  BY DEF MeshIInv
<1>2. /\ Linked(p, b)' <=> Linked(p, b)
      /\ Linked(b, p) <=> Linked(p, b)
  BY DEF StepOfMesh, Linked, Pair
<1>3. /\ Participates(p, b)' <=> b \in Participants(t)
      /\ Participates(p, b) => b \in Participants(t)
      /\ b \in Participants(t) => Participates(p, b) \/ b = q
      /\ Participates(b, p)' <=> Participates(b, p)
      /\ Number(p)' = t.ourFCMGuid /\ Number(b)' = Number(b)
      /\ NumberListed(p, b)' = t.fcm2ParticipantList[b]
      /\ Participates(p, b) /\ b # q => t.fcm2ParticipantList[b] = NumberListed(p, b)
      /\ Number(p) # Unset => t.ourFCMGuid = Number(p)
  BY StepPlugins DEF Participates, Number, NumberListed, SameFields
<1>4. /\ Range(inbox'[p][b]) \subseteq Range(inbox[p][b])
      /\ \A x \in Range(inbox[p][b]) : x \in Range(inbox'[p][b]) \/ (b = q /\ x = m)
      /\ Range(inbox[b][p]) \subseteq Range(inbox'[b][p])
      /\ Linked(b, p) => Range(t.out[b]) \subseteq Range(inbox'[b][p])
      /\ m = MadeNotice \/ m \in Range(inbox[p][q])
  <2>1. Drops(p, q, m) /\ Adds(p, t)
    BY StepQueues
  <2>2. (m = MadeNotice \/ m \in Range(inbox[p][q])) /\ \A r \in System : Range(t.out[r]) \subseteq MeshMessage
    BY StepQueues
  <2>. QED BY <2>1, <2>2 DEF Drops, Adds
<1>5. /\ IsTold(m) => q \in Participants(t) /\ t.fcm2ParticipantList[q] = m.guid /\ t.ourFCMGuid # Unset
      /\ ~IsTold(m) /\ q \in Participants(t) =>
           t.fcm2ParticipantList[q] = IF Participates(p, q) THEN NumberListed(p, q) ELSE Unset
      /\ m.id = "RESPOND_CONNECTION_COUNT" => t.ourFCMGuid # Unset
  BY DEF StepOfMesh, LearnsFrom, Participates, NumberListed
<1>6. IsTold(m) => m.guid = Number(q)
  BY <1>1, <1>4, MessageKinds DEF NumbersAreTrue, IsTold
<1>7. LossesNoticed(p, b)'
  <2>1. CASE Linked(p, b)
    BY <1>1, <1>2, <1>4, <2>1 DEF LossesNoticed
  <2>2. CASE ~Linked(p, b) /\ b # q
    <3>1. inbox'[p][b] = inbox[p][b]
      BY <2>2 DEF StepOfMesh
    <3>. QED BY <1>1, <1>2, <1>3, <2>2, <3>1 DEF LossesNoticed
  <2>3. CASE ~Linked(p, b) /\ b = q
    <3> DEFINE queue == inbox[p][q]
    <3>1. /\ queue # <<>> /\ Head(queue) # LostNotice /\ inbox'[p][q] = Tail(queue)
          /\ queue \in Seq(MeshHandled)
      BY <2>3, OwnFacts DEF StepOfMesh
    <3>2. queue[Len(queue)] = LostNotice
      BY <1>1, <2>3, <3>1 DEF LossesNoticed, LostNotice
    <3> HIDE DEF queue
    <3>3. Tail(queue) # <<>> /\ Tail(queue)[Len(Tail(queue))] = LostNotice
      BY <3>1, <3>2, QueueFacts
    <3>. QED BY <1>2, <2>3, <3>1, <3>3 DEF LossesNoticed, LostNotice
  <2>. QED BY <2>1, <2>2, <2>3
<1>8. NumbersAreTrue(p, b)'
  <2>1. Participates(p, b)' => NumberListed(p, b)' \in {Unset, Number(b)}
    BY <1>1, <1>3, <1>5, <1>6 DEF NumbersAreTrue
  <2>. QED BY <1>1, <1>3, <1>4, <2>1 DEF NumbersAreTrue
<1>9. NumberArrives(p, b)'
  <2>1. SUFFICES ASSUME Linked(p, b), Participates(b, p), Number(b) # Unset
                 PROVE  \/ b \in Participants(t) /\ t.fcm2ParticipantList[b] = Number(b)
                        \/ TellsNumber(inbox'[p][b])
    BY <1>2, <1>3 DEF NumberArrives
  <2>2. CASE Participates(p, b) /\ NumberListed(p, b) = Number(b)
    BY <1>3, <1>5, <1>6, <2>2
  <2>3. CASE TellsNumber(inbox[p][b])
    <3>1. PICK x \in Range(inbox[p][b]) : IsTold(x)
      BY <2>3 DEF TellsNumber, IsTold
    <3>2. CASE x \in Range(inbox'[p][b])
      BY <3>1, <3>2 DEF TellsNumber, IsTold
    <3>3. CASE b = q /\ x = m
      BY <1>5, <1>6, <3>1, <3>3
    <3>. QED BY <1>4, <3>2, <3>3
  <2>. QED BY <1>1, <2>1, <2>2, <2>3 DEF NumberArrives
<1>10. NumberIsComing(p, b)'
  <2>1. SUFFICES ASSUME Linked(p, b), b \in Participants(t), t.ourFCMGuid = Unset
                 PROVE  AsksForNumber(inbox'[b][p]) \/ TellsCount(inbox'[p][b]) \/ TellsNumber(inbox'[p][b])
    BY <1>2, <1>3 DEF NumberIsComing
  <2>2. AsksForNumber(t.out[b]) \/ Participates(p, b)
    BY <2>1, StepSends
  <2>3. CASE AsksForNumber(t.out[b])
    BY <1>2, <1>4, <2>1, <2>3 DEF AsksForNumber
  <2>4. CASE Participates(p, b)
    <3>1. Number(p) = Unset
      BY <1>3, <2>1
    <3>2. AsksForNumber(inbox[b][p]) \/ TellsCount(inbox[p][b]) \/ TellsNumber(inbox[p][b])
      BY <1>1, <2>1, <2>4, <3>1 DEF NumberIsComing
    <3>3. CASE AsksForNumber(inbox[b][p])
      BY <1>4, <3>3 DEF AsksForNumber
    <3>4. CASE TellsCount(inbox[p][b])
      BY <1>4, <1>5, <2>1, <3>4 DEF TellsCount
    <3>5. CASE TellsNumber(inbox[p][b])
      <4>1. PICK x \in Range(inbox[p][b]) : IsTold(x)
        BY <3>5 DEF TellsNumber, IsTold
      <4>2. x \in Range(inbox'[p][b])
        BY <1>4, <1>5, <2>1, <4>1
      <4>. QED BY <4>1, <4>2 DEF TellsNumber, IsTold
    <3>. QED BY <3>2, <3>3, <3>4, <3>5
  <2>. QED BY <2>2, <2>3, <2>4
<1>. QED BY <1>7, <1>8, <1>9, <1>10

\* What the others know of p.
LEMMA MeshSpeakerKeeps ==
  ASSUME MeshIInv, NEW p \in System, NEW q \in System \ {p}, NEW t, NEW m, StepOfMesh(p, q, t, m),
         NEW a \in System \ {p}
  PROVE  (LossesNoticed(a, p) /\ NumbersAreTrue(a, p) /\ NumberArrives(a, p) /\ NumberIsComing(a, p))'
<1>1. /\ LossesNoticed(a, p) /\ NumbersAreTrue(a, p) /\ NumberArrives(a, p) /\ NumberIsComing(a, p)
  BY DEF MeshIInv
<1>2. /\ Linked(a, p)' <=> Linked(a, p)
      /\ Linked(p, a) <=> Linked(a, p)
  BY DEF StepOfMesh, Linked, Pair
<1>3. /\ Participates(p, a)' <=> a \in Participants(t)
      /\ Participates(a, p)' <=> Participates(a, p)
      /\ Number(p)' = t.ourFCMGuid /\ Number(a)' = Number(a)
      /\ NumberListed(a, p)' = NumberListed(a, p)
      /\ Number(p) # Unset => t.ourFCMGuid = Number(p)
  BY StepPlugins DEF Participates, Number, NumberListed, SameFields
<1>4. /\ Range(inbox[a][p]) \subseteq Range(inbox'[a][p])
      /\ \A x \in Range(inbox'[a][p]) : x \in Range(inbox[a][p]) \/ (Linked(a, p) /\ x \in Range(t.out[a]))
      /\ Linked(a, p) => Range(t.out[a]) \subseteq Range(inbox'[a][p])
      /\ ~Linked(a, p) => inbox'[a][p] = inbox[a][p]
      /\ \A x \in Range(inbox[p][a]) : x \in Range(inbox'[p][a]) \/ (a = q /\ x = m)
      /\ Range(t.out[a]) \subseteq MeshMessage
  <2>1. Drops(p, q, m) /\ Adds(p, t)
    BY StepQueues
  <2>2. (m = MadeNotice \/ m \in Range(inbox[p][q])) /\ \A r \in System : Range(t.out[r]) \subseteq MeshMessage
    BY StepQueues
  <2>. QED BY <2>1, <2>2 DEF Drops, Adds
<1>5. /\ \A x \in Range(t.out[a]) : CarriesNumber(x) => x.guid \in {Unset, t.ourFCMGuid}
      /\ a \in Participants(t) /\ t.ourFCMGuid # Unset =>
           TellsNumber(t.out[a]) \/ (Participates(p, a) /\ Number(p) # Unset)
  BY StepSends
<1>6. LossesNoticed(a, p)'
  <2>1. CASE Linked(a, p)
    BY <1>1, <1>2, <1>4, <2>1, MessageKinds DEF LossesNoticed, LostNotice
  <2>2. CASE ~Linked(a, p)
    BY <1>1, <1>2, <1>3, <1>4, <2>2 DEF LossesNoticed
  <2>. QED BY <2>1, <2>2
<1>7. NumbersAreTrue(a, p)'
  BY <1>1, <1>3, <1>4, <1>5 DEF NumbersAreTrue
<1>8. NumberArrives(a, p)'
  <2>1. SUFFICES ASSUME Linked(a, p), a \in Participants(t), t.ourFCMGuid # Unset
                 PROVE  \/ Participates(a, p) /\ NumberListed(a, p) = t.ourFCMGuid
                        \/ TellsNumber(inbox'[a][p])
    BY <1>2, <1>3 DEF NumberArrives
  <2>2. CASE TellsNumber(t.out[a])
    BY <1>4, <2>1, <2>2 DEF TellsNumber
  <2>3. CASE Participates(p, a) /\ Number(p) # Unset
    BY <1>1, <1>3, <1>4, <2>1, <2>3 DEF NumberArrives, TellsNumber
  <2>. QED BY <1>5, <2>1, <2>2, <2>3
<1>9. NumberIsComing(a, p)'
  <2>1. SUFFICES ASSUME Linked(a, p), Participates(a, p), Number(a) = Unset
                 PROVE  AsksForNumber(inbox'[p][a]) \/ TellsCount(inbox'[a][p]) \/ TellsNumber(inbox'[a][p])
    BY <1>2, <1>3 DEF NumberIsComing
  <2>2. CASE AsksForNumber(inbox[p][a])
    <3>1. PICK x \in Range(inbox[p][a]) : x.id = "REQUEST_FCMGUID" /\ x.guid = Unset
      BY <2>2 DEF AsksForNumber
    <3>2. CASE x \in Range(inbox'[p][a])
      BY <3>1, <3>2 DEF AsksForNumber
    <3>3. CASE a = q /\ x = m
      <4>1. TellsCount(t.out[a])
        BY <3>1, <3>3 DEF StepOfMesh, LearnsFrom
      <4>. QED BY <1>4, <2>1, <4>1 DEF TellsCount
    <3>. QED BY <1>4, <3>2, <3>3
  <2>3. CASE TellsCount(inbox[a][p])
    BY <1>4, <2>3 DEF TellsCount
  <2>4. CASE TellsNumber(inbox[a][p])
    BY <1>4, <2>4 DEF TellsNumber
  <2>. QED BY <1>1, <2>1, <2>2, <2>3, <2>4 DEF NumberIsComing
<1>. QED BY <1>6, <1>7, <1>8, <1>9

\* The typing of a plugin, from its being one.
LEMMA TypedPlugin ==
  ASSUME MeshIInv, NEW p \in System, NEW n, IsPlugin(n), n.self = p, n.out = Nothing, p \notin Participants(n),
         mesh'[p] = n, DOMAIN mesh' = System, \A r \in System \ {p} : mesh'[r] = mesh[r],
         linked' \subseteq AllPairs, inbox' \in [System -> [System -> Seq(MeshHandled)]],
         \A r \in System : inbox'[r][r] = <<>>, drawn' = drawn, unnumbered' \subseteq System
  PROVE  MeshTypeOK'
<1>1. MeshTypeOK
  BY DEF MeshIInv
<1>2. n \in Plugin(Participants(n)) /\ Participants(n) \subseteq System \ {p}
  BY DEF IsPlugin
<1>3. \A r \in System :
        /\ mesh'[r] \in Plugin(Participants(mesh'[r])) /\ Participants(mesh'[r]) \subseteq System \ {r}
        /\ mesh'[r].self = r /\ mesh'[r].out = Nothing
  <2>1. ASSUME NEW r \in System \ {p}
        PROVE  /\ mesh[r] \in Plugin(Participants(mesh[r])) /\ Participants(mesh[r]) \subseteq System \ {r}
               /\ mesh[r].self = r /\ mesh[r].out = Nothing
    BY <1>1 DEF MeshTypeOK
  <2>2. ASSUME NEW r \in System
        PROVE  /\ mesh'[r] \in Plugin(Participants(mesh'[r])) /\ Participants(mesh'[r]) \subseteq System \ {r}
               /\ mesh'[r].self = r /\ mesh'[r].out = Nothing
    <3>1. CASE r = p
      BY <1>2, <3>1
    <3>2. CASE r # p
      <4>1. mesh'[r] = mesh[r]
        BY <3>2
      <4>. QED BY <2>1, <3>2, <4>1
    <3>. QED BY <3>1, <3>2
  <2>. QED BY <2>2
<1>4. LinksTypeOK(MeshMessage)'
  BY DEF LinksTypeOK, MeshHandled, MadeNotice, LostNotice
<1>. QED BY <1>1, <1>3, <1>4 DEF MeshTypeOK

\* What a system makes of its list, from what is said of its plugin.
LEMMA OwnFromPlugin ==
  ASSUME NEW p \in System, NEW n, mesh'[p] = n, drawn' = drawn, n.self = p,
         n.hostRakNetGuid = n.lastPushedHost, NumberIsMade(n),
         (\E r \in Participants(n) : n.fcm2ParticipantList[r] # Unset) => n.ourFCMGuid # Unset,
         p \notin unnumbered' => HostIsPushed(n)
  PROVE  OwnHostAgrees(p)'
<1>1. (p \notin unnumbered /\ AllListed(mesh[p]) /\ Participants(mesh[p]) # {} =>
         mesh[p].lastPushedHost = CalculateHost(mesh[p]))'
  <2>1. AllListed(mesh[p])' <=> AllListed(n)
    BY DEF AllListed, Participants
  <2>2. Participants(mesh[p])' = Participants(n) /\ CalculateHost(mesh[p])' = CalculateHost(n)
    BY DEF Participants, CalculateHost
  <2>. QED BY <2>1, <2>2 DEF HostIsPushed
<1>2. ((\E q \in Participants(mesh[p]) : NumberListed(p, q) # Unset) => Number(p) # Unset)'
  BY DEF NumberListed, Number, Participants
<1>. QED BY <1>1, <1>2 DEF OwnHostAgrees, NumberIsMade, Number

\* What other systems make of theirs.
LEMMA OwnUnchanged ==
  ASSUME NEW p \in System, OwnHostAgrees(p), mesh'[p] = mesh[p], drawn' = drawn,
         p \in unnumbered => p \in unnumbered'
  PROVE  OwnHostAgrees(p)'
<1>1. AllListed(mesh[p])' <=> AllListed(mesh[p])
  BY DEF AllListed, Participants
<1>2. Participants(mesh[p])' = Participants(mesh[p]) /\ CalculateHost(mesh[p])' = CalculateHost(mesh[p])
  BY DEF Participants, CalculateHost
<1>. QED BY <1>1, <1>2 DEF OwnHostAgrees, Number, NumberListed

\* Pairs that have nothing to do with a step.
LEMMA PairUnchanged ==
  ASSUME NEW a \in System, NEW b \in System \ {a},
         LossesNoticed(a, b) /\ NumbersAreTrue(a, b) /\ NumberArrives(a, b) /\ NumberIsComing(a, b),
         Participates(a, b)' <=> Participates(a, b), Participates(b, a)' <=> Participates(b, a),
         Number(a)' = Number(a), Number(b)' = Number(b),
         Participates(a, b) => NumberListed(a, b)' = NumberListed(a, b),
         inbox'[a][b] = inbox[a][b], inbox'[b][a] = inbox[b][a], Linked(a, b)' <=> Linked(a, b)
  PROVE  (LossesNoticed(a, b) /\ NumbersAreTrue(a, b) /\ NumberArrives(a, b) /\ NumberIsComing(a, b))'
<1>2. LossesNoticed(a, b)'
  BY DEF LossesNoticed
<1>3. NumbersAreTrue(a, b)'
  BY DEF NumbersAreTrue
<1>4. NumberArrives(a, b)'
  BY DEF NumberArrives
<1>5. NumberIsComing(a, b)'
  BY DEF NumberIsComing
<1>. QED BY <1>2, <1>3, <1>4, <1>5

\* A step of a plugin keeps the invariant.
LEMMA MeshStepKeeps ==
  ASSUME MeshIInv, NEW p \in System, NEW q \in System \ {p}, NEW t, NEW m, StepOfMesh(p, q, t, m)
  PROVE  MeshIInv'
<1>1. /\ IsPlugin(t) /\ t.self = p /\ IsPlugin(mesh'[p]) /\ SameFields(t, mesh'[p])
      /\ mesh'[p].out = Nothing /\ Participants(mesh'[p]) = Participants(t)
      /\ Participants(mesh[p]) \subseteq Participants(t)
      /\ Participants(t) \subseteq Participants(mesh[p]) \cup {q}
      /\ DOMAIN mesh' = System /\ \A r \in System \ {p} : mesh'[r] = mesh[r]
      /\ \A r \in Participants(mesh[p]) \ {q} :
           t.fcm2ParticipantList[r] = mesh[p].fcm2ParticipantList[r]
      /\ Number(p) # Unset => t.ourFCMGuid = Number(p)
  BY StepPlugins
<1>2. /\ p \notin Participants(mesh[p]) /\ NumberIsMade(mesh[p])
      /\ mesh[p].hostRakNetGuid = mesh[p].lastPushedHost
      /\ p \notin unnumbered => HostIsPushed(mesh[p])
  BY OwnFacts
<1>3. /\ drawn' = drawn /\ unnumbered' = unnumbered /\ linked' = linked
      /\ inbox' \in [System -> [System -> Seq(MeshHandled)]]
      /\ MayBecome(mesh[p], t, q) /\ LearnsFrom(mesh[p], t, q, m)
      /\ \A r \in System \ {q} : inbox'[p][r] = inbox[p][r]
      /\ \A r, o \in System \ {p} : inbox'[r][o] = inbox[r][o]
  BY DEF StepOfMesh
<1>4. /\ \A r \in System : inbox[r][r] = <<>>
      /\ linked \subseteq AllPairs /\ unnumbered \subseteq System
      /\ \A r \in System : OwnHostAgrees(r)
      /\ \A a \in System : \A b \in System \ {a} :
           LossesNoticed(a, b) /\ NumbersAreTrue(a, b) /\ NumberArrives(a, b) /\ NumberIsComing(a, b)
  BY DEF MeshIInv, MeshTypeOK, LinksTypeOK
<1>5. MeshTypeOK'
  <2> DEFINE n == mesh'[p]
  <2>1. /\ IsPlugin(n) /\ n.self = p /\ n.out = Nothing /\ p \notin Participants(n)
    BY <1>1, <1>2 DEF SameFields
  <2>2. \A r \in System : inbox'[r][r] = <<>>
    BY <1>3, <1>4
  <2>3. linked' \subseteq AllPairs /\ unnumbered' \subseteq System
    BY <1>3, <1>4
  <2>. QED BY <1>1, <1>3, <2>1, <2>2, <2>3, TypedPlugin
<1>6. OwnHostAgrees(p)'
  <2>1. /\ NumberIsMade(t) /\ t.hostRakNetGuid = t.lastPushedHost
        /\ p \notin unnumbered => HostIsPushed(t)
    BY <1>2, <1>3 DEF MayBecome, LearnsFrom
  <2>2. ASSUME NEW r \in Participants(t), t.fcm2ParticipantList[r] # Unset PROVE t.ourFCMGuid # Unset
    <3>1. \A o \in Participants(mesh[p]) : mesh[p].fcm2ParticipantList[o] # Unset => Number(p) # Unset
      BY <1>4 DEF OwnHostAgrees, NumberListed
    <3>2. CASE r # q
      BY <1>1, <2>2, <3>1, <3>2
    <3>3. CASE r = q /\ IsTold(m)
      BY <1>3, <3>3 DEF LearnsFrom
    <3>4. CASE r = q /\ ~IsTold(m)
      BY <1>1, <1>3, <2>2, <3>1, <3>4 DEF LearnsFrom
    <3>. QED BY <3>2, <3>3, <3>4
  <2> DEFINE n == mesh'[p]
  <2>3. SameFields(t, n) /\ Participants(n) = Participants(t)
    BY <1>1
  <2> HIDE DEF n
  <2>4. NumberIsMade(n) /\ n.hostRakNetGuid = n.lastPushedHost /\ n.self = p
    BY <1>1, <2>1, <2>3 DEF SameFields, NumberIsMade
  <2>5. (\E r \in Participants(n) : n.fcm2ParticipantList[r] # Unset) => n.ourFCMGuid # Unset
    BY <2>2, <2>3 DEF SameFields
  <2>6. HostIsPushed(t) => HostIsPushed(n)
    BY <2>3, SameHost DEF HostIsPushed, AllListed, SameFields
  <2>7. p \notin unnumbered' => HostIsPushed(n)
    BY <1>3, <2>1, <2>6
  <2>. QED BY <1>3, <2>4, <2>5, <2>7, OwnFromPlugin DEF n
<1>7. ASSUME NEW r \in System PROVE OwnHostAgrees(r)'
  <2>1. CASE r = p
    BY <1>6, <2>1
  <2>2. CASE r # p
    BY <1>1, <1>3, <1>4, <2>2, OwnUnchanged
  <2>. QED BY <2>1, <2>2
<1>8. ASSUME NEW a \in System, NEW b \in System \ {a}
      PROVE  (LossesNoticed(a, b) /\ NumbersAreTrue(a, b) /\ NumberArrives(a, b) /\ NumberIsComing(a, b))'
  <2>1. CASE a = p
    BY <2>1, MeshListenerKeeps
  <2>2. CASE b = p
    BY <2>2, MeshSpeakerKeeps
  <2>3. CASE a # p /\ b # p
    <3>1. mesh'[a] = mesh[a] /\ mesh'[b] = mesh[b]
          /\ inbox'[a][b] = inbox[a][b] /\ inbox'[b][a] = inbox[b][a] /\ (Linked(a, b)' <=> Linked(a, b))
      BY <1>1, <1>3, <2>3 DEF Linked
    <3>2. /\ (Participates(a, b)' <=> Participates(a, b)) /\ (Participates(b, a)' <=> Participates(b, a))
          /\ Number(a)' = Number(a) /\ Number(b)' = Number(b) /\ NumberListed(a, b)' = NumberListed(a, b)
      BY <3>1 DEF Participates, Participants, Number, NumberListed
    <3>. QED BY <1>4, <3>1, <3>2, PairUnchanged
  <2>. QED BY <2>1, <2>2, <2>3
<1>. QED BY <1>5, <1>7, <1>8 DEF MeshIInv

-----------------------------------------------------------------------------
(* Connections *)

\* No two systems have one number.
LEMMA NumbersAreDistinct ==
  ASSUME MeshIInv, NEW p \in System, NEW q \in System, Number(p) # Unset, Number(p) = Number(q)
  PROVE  p = q
<1>1. /\ OwnHostAgrees(p) /\ OwnHostAgrees(q) /\ MeshTypeOK
      /\ mesh[p].totalConnectionCount \in Nat /\ mesh[q].totalConnectionCount \in Nat
  BY OwnFacts, PluginFacts DEF MeshIInv
<1>2. /\ drawn \in [System -> 1 .. Lots - 1]
      /\ \A r, o \in System : drawn[r] = drawn[o] => r = o
  BY <1>1, LotsAssumption DEF MeshTypeOK, IsInjective
<1>3. Lots \in Nat
  BY SystemAssumption, FS_CardinalityType DEF Lots
<1>4. PICK c \in Nat : Number(p) = c * Lots + drawn[p]
  BY <1>1 DEF OwnHostAgrees
<1>5. PICK d \in Nat : Number(p) = d * Lots + drawn[q]
  BY <1>1 DEF OwnHostAgrees
<1>6. \A a, b, n, x, y \in Nat : a < b /\ x < n /\ a * n + x = b * n + y => FALSE
  <2>1. SUFFICES ASSUME NEW a \in Nat, NEW b \in Nat, NEW n \in Nat, NEW x \in Nat, NEW y \in Nat,
                        a < b, x < n, a * n + x = b * n + y
                 PROVE  FALSE
    OBVIOUS
  <2>2. PICK k \in Nat : b = a + 1 + k
    <3>1. b - a - 1 \in Nat /\ b = a + 1 + (b - a - 1)
      BY <2>1
    <3>. QED BY <3>1
  <2>3. b * n = a * n + n + k * n
    BY <2>2
  <2>4. k * n \in Nat /\ a * n \in Nat
    BY <2>2
  <2>. QED BY <2>1, <2>3, <2>4
<1>7. drawn[p] \in Nat /\ drawn[q] \in Nat /\ drawn[p] < Lots /\ drawn[q] < Lots
  BY <1>2, <1>3
<1>8. ~(c < d) /\ ~(d < c)
  BY <1>3, <1>4, <1>5, <1>6, <1>7
<1>9. c = d
  BY <1>8
<1>10. c * Lots \in Nat
  BY <1>3
<1>11. drawn[p] = drawn[q]
  BY <1>4, <1>5, <1>7, <1>9, <1>10
<1>. QED BY <1>2, <1>11

\* What a queue is when it is cut.
LEMMA CutFacts ==
  ASSUME NEW queue \in Seq(MeshHandled), NEW n \in 0 .. Len(queue)
  PROVE  /\ Cut(queue, n) \in Seq(MeshHandled) /\ Cut(queue, n) # <<>>
         /\ Cut(queue, n)[Len(Cut(queue, n))] = LostNotice
         /\ Range(Cut(queue, n)) \subseteq Range(queue) \cup {LostNotice}
<1> DEFINE begun == SubSeq(queue, 1, n)
<1>1. LostNotice \in MeshHandled
  BY DEF MeshHandled
<1>2. /\ begun \in Seq(MeshHandled) /\ Len(begun) = n /\ DOMAIN begun = 1 .. n
      /\ \A i \in 1 .. n : begun[i] = queue[i] /\ i \in DOMAIN queue
  OBVIOUS
<1>3. Cut(queue, n) = begun \o <<LostNotice>>
  BY DEF Cut, LostNotice
<1> HIDE DEF begun
<1>4. begun \o <<LostNotice>> = Append(begun, LostNotice)
  BY <1>1, <1>2
<1>5. /\ Append(begun, LostNotice) \in Seq(MeshHandled) /\ Append(begun, LostNotice) # <<>>
      /\ Append(begun, LostNotice)[Len(Append(begun, LostNotice))] = LostNotice
  BY <1>1, <1>2
<1>6. Range(Append(begun, LostNotice)) = Range(begun) \cup {LostNotice}
  BY <1>1, <1>2, QueueFacts
<1>7. Range(begun) \subseteq Range(queue)
  BY <1>2 DEF Range
<1>. QED BY <1>3, <1>4, <1>5, <1>6, <1>7

\* What both ends hear of a new connection.
LEMMA ConnectionNews ==
  LET news == <<MadeNotice>>
  IN news \in Seq(MeshHandled) /\ news # <<>> /\ Range(news) = {MadeNotice}
<1> DEFINE news == <<MadeNotice>>
<1>1. MadeNotice \in MeshHandled
  BY DEF MeshHandled
<1>2. news \in Seq(MeshHandled) /\ news # <<>> /\ DOMAIN news = {1} /\ news[1] = MadeNotice
  BY <1>1
<1> HIDE DEF news
<1>3. Range(news) = {MadeNotice}
  BY <1>2 DEF Range
<1>. QED BY <1>2, <1>3 DEF news

\* What changes in the links of two systems.
LEMMA MeshLinksKeep ==
  ASSUME MeshIInv, LinksChange, UNCHANGED <<mesh, drawn, unnumbered>>
  PROVE  MeshIInv'
<1>1. PICK a \in System, b \in System : PeersConnect(a, b) \/ PeersLoseEachOther(a, b)
  BY DEF LinksChange
<1>2. a # b
  BY <1>1, SystemAssumption DEF PeersConnect, PeersLoseEachOther
<1>3. /\ inbox \in [System -> [System -> Seq(MeshHandled)]] /\ linked \subseteq AllPairs
      /\ MeshTypeOK
      /\ \A p \in System : OwnHostAgrees(p)
      /\ \A p \in System : \A q \in System \ {p} :
           LossesNoticed(p, q) /\ NumbersAreTrue(p, q) /\ NumberArrives(p, q) /\ NumberIsComing(p, q)
  BY OwnFacts DEF MeshIInv, MeshTypeOK, LinksTypeOK
<1>4. Pair(a, b) \in AllPairs /\ Pair(a, b) = Pair(b, a)
      /\ \A p, q : Pair(p, q) = Pair(a, b) => (p = a /\ q = b) \/ (p = b /\ q = a)
  BY <1>2 DEF Pair, AllPairs
<1>5. \A p, q : /\ Participates(p, q)' <=> Participates(p, q)
                /\ Number(p)' = Number(p) /\ NumberListed(p, q)' = NumberListed(p, q)
  BY DEF Participates, Participants, Number, NumberListed
<1>6. \A p \in System : OwnHostAgrees(p)'
  BY <1>3, OwnUnchanged
  \* The two get new queues, and the other pairs keep what they have.
<1>7. ASSUME linked' \subseteq AllPairs, NEW first \in Seq(MeshHandled), NEW second \in Seq(MeshHandled),
             inbox' = [inbox EXCEPT ![a][b] = first, ![b][a] = second],
             \A p, q : Pair(p, q) # Pair(a, b) => (Linked(p, q)' <=> Linked(p, q)),
             (LossesNoticed(a, b) /\ NumbersAreTrue(a, b) /\ NumberArrives(a, b) /\ NumberIsComing(a, b))',
             (LossesNoticed(b, a) /\ NumbersAreTrue(b, a) /\ NumberArrives(b, a) /\ NumberIsComing(b, a))'
      PROVE  MeshIInv'
  <2>1. /\ inbox' \in [System -> [System -> Seq(MeshHandled)]]
        /\ \A p, q \in System : Pair(p, q) # Pair(a, b) =>
             inbox'[p][q] = inbox[p][q] /\ inbox'[q][p] = inbox[q][p]
        /\ \A p \in System : inbox'[p][p] = inbox[p][p]
    BY <1>2, <1>3, <1>7 DEF Pair
  <2>2. MeshTypeOK'
    <3>1. LinksTypeOK(MeshMessage)'
      BY <1>7, <2>1 DEF LinksTypeOK, MeshHandled, MadeNotice, LostNotice
    <3>2. mesh' = mesh /\ drawn' = drawn /\ unnumbered' = unnumbered
      OBVIOUS
    <3>3. /\ DOMAIN mesh = System /\ drawn \in MeshLots /\ unnumbered \subseteq System
          /\ \A p \in System :
               /\ mesh[p] \in Plugin(Participants(mesh[p])) /\ Participants(mesh[p]) \subseteq System \ {p}
               /\ mesh[p].self = p /\ mesh[p].out = Nothing /\ inbox'[p][p] = <<>>
      BY <1>3, <2>1 DEF MeshTypeOK
    <3>4. \A p \in System :
            /\ mesh'[p] \in Plugin(Participants(mesh'[p])) /\ Participants(mesh'[p]) \subseteq System \ {p}
            /\ mesh'[p].self = p /\ mesh'[p].out = Nothing /\ inbox'[p][p] = <<>>
      BY <3>2, <3>3
    <3>. QED BY <3>1, <3>2, <3>3, <3>4 DEF MeshTypeOK
  <2>3. ASSUME NEW p \in System, NEW q \in System \ {p}, Pair(p, q) # Pair(a, b)
        PROVE  (LossesNoticed(p, q) /\ NumbersAreTrue(p, q) /\ NumberArrives(p, q) /\ NumberIsComing(p, q))'
    <3>1. /\ inbox'[p][q] = inbox[p][q] /\ inbox'[q][p] = inbox[q][p]
          /\ Linked(p, q)' <=> Linked(p, q)
      BY <1>7, <2>1, <2>3
    <3>2. /\ (Participates(p, q)' <=> Participates(p, q)) /\ (Participates(q, p)' <=> Participates(q, p))
          /\ Number(p)' = Number(p) /\ Number(q)' = Number(q) /\ NumberListed(p, q)' = NumberListed(p, q)
      BY <1>5
    <3>. QED BY <1>3, <3>1, <3>2, PairUnchanged
  <2>4. ASSUME NEW p \in System, NEW q \in System \ {p}
        PROVE  (LossesNoticed(p, q) /\ NumbersAreTrue(p, q) /\ NumberArrives(p, q) /\ NumberIsComing(p, q))'
    BY <1>4, <1>7, <2>3
  <2>. QED BY <1>6, <2>2, <2>4 DEF MeshIInv
<1>8. CASE PeersConnect(a, b)
  <2> DEFINE news == <<MadeNotice>>
  <2>1. /\ ~Linked(a, b) /\ ~Linked(b, a) /\ inbox[a][b] = <<>> /\ inbox[b][a] = <<>>
        /\ linked' = linked \cup {Pair(a, b)}
        /\ inbox' = [inbox EXCEPT ![a][b] = news, ![b][a] = news]
    BY <1>4, <1>8 DEF PeersConnect, QuietBetween, Linked, MadeNotice
  <2>2. ~Participates(a, b) /\ ~Participates(b, a)
    BY <1>2, <1>3, <2>1 DEF LossesNoticed
  <2>3. /\ inbox'[a][b] = news /\ inbox'[b][a] = news
        /\ Linked(a, b)' /\ Linked(b, a)' /\ linked' \subseteq AllPairs
        /\ \A p, q : Pair(p, q) # Pair(a, b) => (Linked(p, q)' <=> Linked(p, q))
    BY <1>2, <1>3, <1>4, <2>1 DEF Linked
  <2>4. news \in Seq(MeshHandled) /\ Range(news) = {MadeNotice}
    BY ConnectionNews
  <2> HIDE DEF news
  <2>5. LostNotice \notin Range(news) /\ \A m \in Range(news) : ~CarriesNumber(m)
    BY <2>4, MessageKinds DEF CarriesNumber
  <2>6. \A p, q : (p = a /\ q = b) \/ (p = b /\ q = a) =>
          (LossesNoticed(p, q) /\ NumbersAreTrue(p, q) /\ NumberArrives(p, q) /\ NumberIsComing(p, q))'
    BY <1>5, <2>2, <2>3, <2>5 DEF LossesNoticed, LostNotice, NumbersAreTrue, NumberArrives, NumberIsComing
  <2>. QED BY <1>7, <2>1, <2>3, <2>4, <2>6
<1>9. CASE PeersLoseEachOther(a, b)
  <2>1. PICK m \in Kept(inbox[a][b]), n \in Kept(inbox[b][a]) :
          inbox' = [inbox EXCEPT ![a][b] = Cut(@, m), ![b][a] = Cut(@, n)]
    BY <1>9 DEF PeersLoseEachOther
  <2> DEFINE first == Cut(inbox[a][b], m)
             second == Cut(inbox[b][a], n)
  <2>2. /\ first \in Seq(MeshHandled) /\ first # <<>> /\ first[Len(first)] = LostNotice
        /\ Range(first) \subseteq Range(inbox[a][b]) \cup {LostNotice}
        /\ second \in Seq(MeshHandled) /\ second # <<>> /\ second[Len(second)] = LostNotice
        /\ Range(second) \subseteq Range(inbox[b][a]) \cup {LostNotice}
    <3>1. /\ m \in 0 .. Len(inbox[a][b]) /\ n \in 0 .. Len(inbox[b][a])
          /\ inbox[a][b] \in Seq(MeshHandled) /\ inbox[b][a] \in Seq(MeshHandled)
      BY <1>3, <2>1 DEF Kept
    <3>. QED BY <3>1, CutFacts
  <2>3. inbox' = [inbox EXCEPT ![a][b] = first, ![b][a] = second]
    BY <1>2, <1>3, <2>1
  <2> HIDE DEF first, second
  <2>4. /\ inbox'[a][b] = first /\ inbox'[b][a] = second
        /\ ~Linked(a, b)' /\ ~Linked(b, a)' /\ linked' \subseteq AllPairs
        /\ \A p, q : Pair(p, q) # Pair(a, b) => (Linked(p, q)' <=> Linked(p, q))
    BY <1>2, <1>3, <1>4, <1>9, <2>3 DEF Linked, PeersLoseEachOther
  <2>5. ~CarriesNumber(LostNotice) /\ NumbersAreTrue(a, b) /\ NumbersAreTrue(b, a)
    BY <1>2, <1>3, MessageKinds DEF CarriesNumber
  <2>6. NumbersAreTrue(a, b)' /\ NumbersAreTrue(b, a)'
    BY <1>5, <2>2, <2>4, <2>5 DEF NumbersAreTrue
  <2>7. \A p, q : (p = a /\ q = b) \/ (p = b /\ q = a) =>
          (LossesNoticed(p, q) /\ NumberArrives(p, q) /\ NumberIsComing(p, q))'
    BY <2>2, <2>4 DEF LossesNoticed, NumberArrives, NumberIsComing, LostNotice
  <2>. QED BY <1>7, <2>2, <2>3, <2>4, <2>6, <2>7
<1>. QED BY <1>1, <1>8, <1>9

-----------------------------------------------------------------------------
(* Actions *)

\* What all have to handle after a step of p.
LEMMA MeshPassesFacts ==
  ASSUME MeshIInv, NEW p \in System, NEW rest \in [System -> Seq(MeshHandled)], NEW out,
         \A r \in System : out[r] \in Seq(MeshMessage), Passes(p, rest, out)
  PROVE  Arrived(p, rest, out, MeshHandled)
<1>1. inbox \in [System -> [System -> Seq(MeshHandled)]]
  BY OwnFacts
<1>2. inbox' = [q \in System |->
        IF q = p THEN rest
        ELSE [inbox[q] EXCEPT ![p] = @ \o IF Linked(q, p) THEN out[q] ELSE <<>>]]
      /\ linked' = linked
  BY DEF Passes
<1>3. ASSUME NEW q \in System \ {p}
      PROVE  /\ inbox'[q] \in [System -> Seq(MeshHandled)]
             /\ inbox'[q][p] = IF Linked(q, p) THEN inbox[q][p] \o out[q] ELSE inbox[q][p]
             /\ \A o \in System \ {p} : inbox'[q][o] = inbox[q][o]
  <2>1. inbox[q] \in [System -> Seq(MeshHandled)] /\ q \in System /\ q # p
    BY <1>1
  <2>2. inbox[q][p] \in Seq(MeshHandled) /\ inbox[q][p] \o <<>> = inbox[q][p]
    BY <2>1
  <2>3. CASE Linked(q, p)
    <3>1. inbox'[q] = [inbox[q] EXCEPT ![p] = @ \o out[q]]
      BY <1>2, <2>1, <2>3
    <3>2. inbox[q][p] \o out[q] \in Seq(MeshHandled)
      <4>1. MeshMessage \subseteq MeshHandled
        BY DEF MeshHandled
      <4>2. out[q] \in Seq(MeshHandled)
        BY <4>1
      <4>. QED BY <2>2, <4>2
    <3>. QED BY <2>1, <2>3, <3>1, <3>2
  <2>4. CASE ~Linked(q, p)
    <3>1. inbox'[q] = [inbox[q] EXCEPT ![p] = @ \o <<>>]
      BY <1>2, <2>1, <2>4
    <3>. QED BY <2>1, <2>2, <2>4, <3>1
  <2>. QED BY <2>3, <2>4
<1>4. inbox' \in [System -> [System -> Seq(MeshHandled)]] /\ inbox'[p] = rest
  <2>1. inbox'[p] = rest
    BY <1>2
  <2>2. \A q \in System : inbox'[q] \in [System -> Seq(MeshHandled)]
    BY <1>3, <2>1
  <2>3. inbox' = [q \in System |-> inbox'[q]]
    BY <1>2
  <2>. QED BY <2>1, <2>2, <2>3
<1>. QED BY <1>2, <1>3, <1>4 DEF Arrived

\* The next message of a system is of another, and one of those handled.
LEMMA MeshNextFacts ==
  ASSUME MeshIInv, NEW p \in System, NEW q \in System, NEW id, HasNext(p, q, id)
  PROVE  /\ q # p /\ inbox[p][q] # <<>> /\ inbox[p][q] \in Seq(MeshHandled)
         /\ Head(inbox[p][q]) \in MeshHandled /\ Head(inbox[p][q]).id = id
         /\ Head(inbox[p][q]) \in Range(inbox[p][q])
         /\ [inbox[p] EXCEPT ![q] = Tail(@)] \in [System -> Seq(MeshHandled)]
<1>1. inbox \in [System -> [System -> Seq(MeshHandled)]] /\ inbox[p][p] = <<>>
  BY OwnFacts
<1> DEFINE queue == inbox[p][q]
<1>2. queue # <<>> /\ queue \in Seq(MeshHandled) /\ Head(queue).id = id
  BY <1>1 DEF HasNext
<1> HIDE DEF queue
<1>3. Tail(queue) \in Seq(MeshHandled) /\ Head(queue) \in MeshHandled
      /\ Range(queue) = {Head(queue)} \cup Range(Tail(queue))
  BY <1>2, QueueFacts
<1>4. [inbox[p] EXCEPT ![q] = Tail(@)] \in [System -> Seq(MeshHandled)]
  BY <1>1, <1>3 DEF queue
<1>. QED BY <1>1, <1>2, <1>3, <1>4 DEF queue

\* A message is handled.
LEMMA HandleKeeps ==
  ASSUME MeshIInv, NEW p \in System, NEW q \in System, NEW id, HasNext(p, q, id), id # "CLOSED_CONNECTION",
         NEW t, MayBecome(mesh[p], t, q), LearnsFrom(mesh[p], t, q, Head(inbox[p][q])), Handle(p, q, t)
  PROVE  MeshIInv'
<1> DEFINE rest == [inbox[p] EXCEPT ![q] = Tail(@)]
           m == Head(inbox[p][q])
<1>1. /\ q # p /\ inbox[p][q] # <<>> /\ m \in MeshHandled /\ m.id = id
      /\ rest \in [System -> Seq(MeshHandled)]
  BY MeshNextFacts
<1>2. /\ mesh' = [mesh EXCEPT ![p] = [t EXCEPT !.out = Nothing]]
      /\ Passes(p, rest, t.out) /\ drawn' = drawn /\ unnumbered' = unnumbered
  BY DEF Handle, Becomes, PassesAfter
<1>3. m # LostNotice
  BY <1>1, MessageKinds
<1>4. /\ rest[q] = Tail(inbox[p][q]) /\ \A r \in System \ {q} : rest[r] = inbox[p][r]
  BY OwnFacts
<1> HIDE DEF rest
<1>5. \A r \in System : t.out[r] \in Seq(MeshMessage)
  BY PluginFacts DEF MayBecome
<1>6. /\ inbox' \in [System -> [System -> Seq(MeshHandled)]] /\ linked' = linked
      /\ inbox'[p] = rest
      /\ \A r \in System \ {p} :
           /\ inbox'[r][p] = IF Linked(r, p) THEN inbox[r][p] \o t.out[r] ELSE inbox[r][p]
           /\ \A o \in System \ {p} : inbox'[r][o] = inbox[r][o]
  <2> DEFINE out == t.out
  <2>1. (\A r \in System : out[r] \in Seq(MeshMessage)) /\ Passes(p, rest, out)
    BY <1>2, <1>5
  <2> HIDE DEF out
  <2>2. /\ inbox' \in [System -> [System -> Seq(MeshHandled)]] /\ linked' = linked
        /\ inbox'[p] = rest
        /\ \A r \in System \ {p} :
             /\ inbox'[r][p] = IF Linked(r, p) THEN inbox[r][p] \o out[r] ELSE inbox[r][p]
             /\ \A o \in System \ {p} : inbox'[r][o] = inbox[r][o]
    <3>1. Arrived(p, rest, out, MeshHandled)
      BY <1>1, <2>1, MeshPassesFacts
    <3>. QED BY <3>1 DEF Arrived
  <2>. QED BY <2>2 DEF out
<1>7. StepOfMesh(p, q, t, m)
  BY <1>1, <1>2, <1>3, <1>4, <1>6 DEF StepOfMesh
<1> HIDE DEF m
<1>. QED BY <1>1, <1>7, MeshStepKeeps

\* Each handler keeps the invariant: of a connection,
LEMMA OnNewConnectionKeeps ==
  ASSUME MeshIInv, NEW p \in System, NEW q \in System, OnNewConnection(p, q) PROVE MeshIInv'
<1>1. HasNext(p, q, "NEW_CONNECTION")
  BY DEF OnNewConnection
<1>2. Head(inbox[p][q]) = Notice("NEW_CONNECTION")
  <2>1. Head(inbox[p][q]) \in MeshHandled /\ Head(inbox[p][q]).id = "NEW_CONNECTION"
    BY <1>1, MeshNextFacts
  <2>. QED BY <2>1, MessageKinds DEF MadeNotice
<1>3. PICK t \in {AddParticipantInternal(mesh[p], q, Unset), mesh[p]} : Handle(p, q, t)
  BY DEF OnNewConnection
<1>4. IsPlugin(mesh[p])
  BY OwnFacts
<1>5. MayBecome(mesh[p], t, q) /\ LearnsFrom(mesh[p], t, q, Notice("NEW_CONNECTION"))
  <2> DEFINE s == mesh[p]
             u == AddParticipantInternal(s, q, Unset)
  <2>1. /\ MayBecome(s, u, q) /\ LearnsFrom(s, u, q, Notice("NEW_CONNECTION"))
        /\ MayBecome(s, s, q) /\ LearnsFrom(s, s, q, Notice("NEW_CONNECTION"))
    <3>1. IsPlugin(s)
      BY <1>4
    <3> HIDE DEF s
    <3>. QED BY <3>1, NoticedFacts
  <2>. QED BY <1>3, <2>1
<1>. QED BY <1>1, <1>2, <1>3, <1>5, HandleKeeps

\* of a participant the application adds,
LEMMA AddParticipantKeeps ==
  ASSUME MeshIInv, NEW p \in System, NEW q \in System, AddParticipant(p, q) PROVE MeshIInv'
<1> DEFINE s == mesh[p]
           t == AddParticipantInternal(s, q, Unset)
           out == t.out
<1>1. /\ Linked(p, q) /\ linked \subseteq AllPairs
      /\ mesh' = [mesh EXCEPT ![p] = [t EXCEPT !.out = Nothing]]
      /\ Passes(p, inbox[p], out) /\ drawn' = drawn /\ unnumbered' = unnumbered
  BY DEF AddParticipant, Becomes, PassesUnasked, MeshIInv, MeshTypeOK, LinksTypeOK
<1>2. p # q
  BY <1>1 DEF Linked, AllPairs
<1>3. MayBecome(s, t, q) /\ LearnsFrom(s, t, q, MadeNotice)
  <2>1. IsPlugin(s)
    BY OwnFacts
  <2> HIDE DEF s
  <2>. QED BY <2>1, NoticedFacts DEF MadeNotice
<1> HIDE DEF t
<1>4. (\A r \in System : out[r] \in Seq(MeshMessage)) /\ inbox[p] \in [System -> Seq(MeshHandled)]
  <2>1. IsPlugin(t)
    BY <1>3 DEF MayBecome
  <2>2. out \in [System -> Seq(MeshMessage)]
    BY <2>1, PluginFacts, Zenon
  <2>3. inbox \in [System -> [System -> Seq(MeshHandled)]]
    BY OwnFacts, Zenon
  <2> HIDE DEF out
  <2>. QED BY <2>2, <2>3
<1> HIDE DEF out
<1>5. /\ inbox' \in [System -> [System -> Seq(MeshHandled)]] /\ linked' = linked
      /\ inbox'[p] = inbox[p]
      /\ \A r \in System \ {p} :
           /\ inbox'[r][p] = IF Linked(r, p) THEN inbox[r][p] \o out[r] ELSE inbox[r][p]
           /\ \A o \in System \ {p} : inbox'[r][o] = inbox[r][o]
  <2> DEFINE rest == inbox[p]
  <2>1. Passes(p, rest, out) /\ rest \in [System -> Seq(MeshHandled)]
    BY <1>1, <1>4
  <2> HIDE DEF rest
  <2>2. /\ inbox' \in [System -> [System -> Seq(MeshHandled)]] /\ linked' = linked
        /\ inbox'[p] = rest
        /\ \A r \in System \ {p} :
             /\ inbox'[r][p] = IF Linked(r, p) THEN inbox[r][p] \o out[r] ELSE inbox[r][p]
             /\ \A o \in System \ {p} : inbox'[r][o] = inbox[r][o]
    <3>1. Arrived(p, rest, out, MeshHandled)
      BY <1>4, <2>1, MeshPassesFacts
    <3>. QED BY <3>1 DEF Arrived
  <2>. QED BY <2>2 DEF rest
<1>6. StepOfMesh(p, q, t, MadeNotice)
  BY <1>1, <1>3, <1>5 DEF StepOfMesh, out
<1>. QED BY <1>2, <1>6, MeshStepKeeps

\* of a request for the number,
LEMMA ReceiveRequestKeeps ==
  ASSUME MeshIInv, NEW p \in System, NEW q \in System, ReceiveRequestFCMGuid(p, q) PROVE MeshIInv'
<1> DEFINE s == mesh[p]
           m == Head(inbox[p][q])
<1>1. HasNext(p, q, "REQUEST_FCMGUID")
  BY DEF ReceiveRequestFCMGuid
<1>2. PICK probablyHost \in BOOLEAN : Handle(p, q, OnRequestFCMGuid(s, q, m, probablyHost))
  BY DEF ReceiveRequestFCMGuid
<1> DEFINE t == OnRequestFCMGuid(s, q, m, probablyHost)
<1>3. m \in MeshMessage /\ m.id = "REQUEST_FCMGUID" /\ IsPlugin(s)
  BY <1>1, MeshNextFacts, MessageKinds, OwnFacts
<1>4. MayBecome(s, t, q) /\ LearnsFrom(s, t, q, m)
  <2> HIDE DEF s, m
  <2>. QED BY <1>3, RequestFacts
<1> HIDE DEF t
<1>. QED BY <1>1, <1>2, <1>4, HandleKeeps DEF t

\* of the answer with the count,
LEMMA ReceiveRespondKeeps ==
  ASSUME MeshIInv, NEW p \in System, NEW q \in System, ReceiveRespondConnectionCount(p, q) PROVE MeshIInv'
<1> DEFINE s == mesh[p]
           m == Head(inbox[p][q])
           t == OnRespondConnectionCount(s, m)
<1>1. HasNext(p, q, "RESPOND_CONNECTION_COUNT") /\ Handle(p, q, t)
  BY DEF ReceiveRespondConnectionCount
<1>3. m \in MeshMessage /\ m.id = "RESPOND_CONNECTION_COUNT" /\ IsPlugin(s)
  BY <1>1, MeshNextFacts, MessageKinds, OwnFacts
<1>4. MayBecome(s, t, q) /\ LearnsFrom(s, t, q, m)
  <2> HIDE DEF s, m
  <2>. QED BY <1>3, RespondFacts
<1> HIDE DEF t
<1>. QED BY <1>1, <1>4, HandleKeeps

\* of a number that is told,
LEMMA ReceiveInformKeeps ==
  ASSUME MeshIInv, NEW p \in System, NEW q \in System, ReceiveInformFCMGuid(p, q) PROVE MeshIInv'
<1> DEFINE s == mesh[p]
           m == Head(inbox[p][q])
           t == OnInformFCMGuid(s, q, m)
<1>1. HasNext(p, q, "INFORM_FCMGUID") /\ Handle(p, q, t)
  BY DEF ReceiveInformFCMGuid
<1>3. m \in MeshMessage /\ m.id = "INFORM_FCMGUID" /\ IsPlugin(s)
  BY <1>1, MeshNextFacts, MessageKinds, OwnFacts
<1>4. MayBecome(s, t, q) /\ LearnsFrom(s, t, q, m)
  <2> HIDE DEF s, m
  <2>. QED BY <1>3, InformedFacts
<1> HIDE DEF t
<1>. QED BY <1>1, <1>4, HandleKeeps

\* of a higher count,
LEMMA OnUpdateKeeps ==
  ASSUME MeshIInv, NEW p \in System, NEW q \in System, OnUpdateMinTotalConnectionCount(p, q) PROVE MeshIInv'
<1> DEFINE s == mesh[p]
           m == Head(inbox[p][q])
           t == IncrementTotalConnectionCount(s, m.count)
<1>1. HasNext(p, q, "UPDATE_MIN_TOTAL_CONNECTION_COUNT") /\ Handle(p, q, t)
  BY DEF OnUpdateMinTotalConnectionCount
<1>3. m \in MeshMessage /\ m.id = "UPDATE_MIN_TOTAL_CONNECTION_COUNT" /\ IsPlugin(s)
  BY <1>1, MeshNextFacts, MessageKinds, OwnFacts
<1>4. MayBecome(s, t, q) /\ LearnsFrom(s, t, q, m)
  <2> HIDE DEF s, m
  <2>. QED BY <1>3, UpdateFacts
<1> HIDE DEF t
<1>. QED BY <1>1, <1>4, HandleKeeps

\* A participant that is lost, or is none, goes.
LEMMA ClosedFacts ==
  ASSUME NEW s, IsPlugin(s), s.out = Nothing, NEW q \in System, q # s.self,
         s.hostRakNetGuid = s.lastPushedHost
  PROVE  LET t == OnClosedConnection(s, q)
         IN /\ IsPlugin(t) /\ t.self = s.self /\ t.out = Nothing
            /\ Participants(t) = Participants(s) \ {q}
            /\ t.fcm2ParticipantList = [r \in Participants(s) \ {q} |-> s.fcm2ParticipantList[r]]
            /\ t.ourFCMGuid = s.ourFCMGuid /\ t.totalConnectionCount = s.totalConnectionCount
            /\ t.hostRakNetGuid = t.lastPushedHost
            /\ \/ t.lastPushedHost = s.lastPushedHost
                  /\ ~(q \in Participants(s) /\ q = s.hostRakNetGuid /\ s.ourFCMGuid # Unset)
               \/ Participants(t) # {} => t.lastPushedHost = CalculateHost(t)
<1> DEFINE t == OnClosedConnection(s, q)
           list == [r \in Participants(s) \ {q} |-> s.fcm2ParticipantList[r]]
           u == [s EXCEPT !.fcm2ParticipantList = list]
<1>1. /\ s = [self |-> s.self, fcm2ParticipantList |-> s.fcm2ParticipantList,
              ourFCMGuid |-> s.ourFCMGuid, totalConnectionCount |-> s.totalConnectionCount,
              hostRakNetGuid |-> s.hostRakNetGuid, lastPushedHost |-> s.lastPushedHost, out |-> s.out]
      /\ s.fcm2ParticipantList \in [Participants(s) -> Nat] /\ Participants(s) \subseteq System
  BY PluginFacts
<1>2. t = IF q \in Participants(s) /\ q = s.hostRakNetGuid /\ s.ourFCMGuid # Unset
          THEN PushNewHost(u, IF Participants(u) = {} THEN u.self ELSE CalculateHost(u))
          ELSE u
  <2>1. u.self = s.self
    <3> HIDE DEF list
    <3>. QED BY <1>1
  <2>. QED BY <2>1 DEF OnClosedConnection, Participants
<1>3. list \in [Participants(s) \ {q} -> Nat] /\ DOMAIN list = Participants(s) \ {q}
  BY <1>1
<1> HIDE DEF list
<1>4. u = [self |-> s.self, fcm2ParticipantList |-> list,
           ourFCMGuid |-> s.ourFCMGuid, totalConnectionCount |-> s.totalConnectionCount,
           hostRakNetGuid |-> s.hostRakNetGuid, lastPushedHost |-> s.lastPushedHost, out |-> s.out]
  BY <1>1
<1> HIDE DEF u, t
<1>5. IsPlugin(u) /\ Participants(u) = Participants(s) \ {q}
  <2>1. Participants(u) = Participants(s) \ {q}
    BY <1>3, <1>4 DEF Participants
  <2>. QED BY <1>3, <1>4, <2>1 DEF IsPlugin, Plugin
<1>6. CASE q \in Participants(s) /\ q = s.hostRakNetGuid /\ s.ourFCMGuid # Unset
  <2> DEFINE host == IF Participants(u) = {} THEN u.self ELSE CalculateHost(u)
  <2>1. host \in System
    <3>1. u.self \in System /\ Participants(u) \subseteq System
      BY <1>5, PluginFacts
    <3>. QED BY <1>5, <3>1, HostFacts DEF Considered
  <2>2. t = PushNewHost(u, host)
    BY <1>2, <1>6
  <2>3. Participants(u) # {} => host = CalculateHost(u)
    OBVIOUS
  <2> HIDE DEF host
  <2>4. /\ MayBecome(u, t, q) /\ t.ourFCMGuid = u.ourFCMGuid /\ t.lastPushedHost = host
        /\ t.fcm2ParticipantList = u.fcm2ParticipantList /\ t.out = u.out
    BY <1>5, <2>1, <2>2, PushFacts
  <2>5. IsPlugin(t) /\ t.self = u.self /\ t.hostRakNetGuid = t.lastPushedHost
    BY <1>4, <2>4 DEF MayBecome
  <2>6. t.totalConnectionCount = u.totalConnectionCount
    BY <1>4, <2>2 DEF PushNewHost
  <2>7. CalculateHost(t) = CalculateHost(u) /\ Participants(t) = Participants(u)
    BY <2>4, <2>5, SameHost DEF Participants
  <2>. QED BY <1>4, <1>5, <2>3, <2>4, <2>5, <2>6, <2>7 DEF list, t
<1>7. CASE ~(q \in Participants(s) /\ q = s.hostRakNetGuid /\ s.ourFCMGuid # Unset)
  <2>1. t = u
    BY <1>2, <1>7
  <2>. QED BY <1>4, <1>5, <1>7, <2>1 DEF list, t
<1>. QED BY <1>6, <1>7

\* The host is the same without a participant that was not the host.
LEMMA HostRemains ==
  ASSUME MeshIInv, NEW p \in System, NEW q \in System \ {p}, Participates(p, q),
         AllListed(mesh[p]), Number(p) # Unset, CalculateHost(mesh[p]) # q,
         NEW t, IsPlugin(t), t.self = p, t.ourFCMGuid = Number(p),
         Participants(t) = Participants(mesh[p]) \ {q},
         t.fcm2ParticipantList = [r \in Participants(mesh[p]) \ {q} |-> mesh[p].fcm2ParticipantList[r]]
  PROVE  CalculateHost(t) = CalculateHost(mesh[p])
<1> DEFINE s == mesh[p]
           h == CalculateHost(s)
           c == CalculateHost(t)
<1>1. IsPlugin(s) /\ s.self = p /\ p \notin Participants(s) /\ Participants(s) \subseteq System
  BY OwnFacts
<1>2. ASSUME NEW r \in Participants(s) \cup {p} PROVE NumberFor(s, r) = Number(r) /\ Number(r) # Unset
  <2>1. CASE r = p
    BY <1>1, <2>1 DEF NumberFor, Number
  <2>2. CASE r # p
    <3>1. NumbersAreTrue(p, r) /\ r \in Participants(s)
      BY <1>1, <1>2, <2>2 DEF MeshIInv
    <3>2. s.fcm2ParticipantList[r] # Unset
      BY <3>1 DEF AllListed
    <3>. QED BY <1>1, <2>2, <3>1, <3>2 DEF NumbersAreTrue, NumberFor, Participates, NumberListed
  <2>. QED BY <2>1, <2>2
<1>3. ASSUME NEW r \in Participants(t) \cup {p} PROVE NumberFor(t, r) = NumberFor(s, r) /\ r \in Participants(s) \cup {p}
  BY <1>1, <1>3 DEF NumberFor, Number
<1>4. /\ h \in Considered(s) /\ \A r \in Considered(s) : NumberFor(s, h) <= NumberFor(s, r)
      /\ c \in Considered(t) /\ \A r \in Considered(t) : NumberFor(t, c) <= NumberFor(t, r)
  <2> HIDE DEF s
  <2>. QED BY <1>1, HostFacts
<1> HIDE DEF h, c
<1>5. Considered(s) = Participants(s) \cup {p} /\ Considered(t) = Participants(t) \cup {p}
  BY <1>1, <1>2, <1>3 DEF Considered
<1>6. h \in Considered(t) /\ c \in Considered(s)
  BY <1>4, <1>5 DEF h
<1>7. NumberFor(s, h) <= NumberFor(s, c) /\ NumberFor(s, c) <= NumberFor(s, h)
  BY <1>3, <1>4, <1>5, <1>6
<1>8. Number(h) <= Number(c) /\ Number(c) <= Number(h) /\ Number(h) # Unset /\ h \in System /\ c \in System
  BY <1>1, <1>2, <1>4, <1>5, <1>6, <1>7
<1>9. Number(h) \in Nat /\ Number(c) \in Nat
  BY <1>8, OwnFacts, PluginFacts DEF Number
<1>10. Number(h) = Number(c)
  BY <1>8, <1>9
<1>11. h = c
  BY <1>8, <1>10, NumbersAreDistinct
<1>. QED BY <1>11 DEF h, c

\* and of a lost connection.
LEMMA ReceiveClosedKeeps ==
  ASSUME MeshIInv, NEW p \in System, NEW q \in System, ReceiveClosedConnection(p, q) PROVE MeshIInv'
<1> DEFINE s == mesh[p]
           t == OnClosedConnection(s, q)
           rest == [inbox[p] EXCEPT ![q] = Tail(@)]
           queue == inbox[p][q]
<1>1. /\ q # p /\ queue # <<>> /\ queue \in Seq(MeshHandled)
      /\ Head(queue) = LostNotice /\ LostNotice \in Range(queue)
      /\ rest \in [System -> Seq(MeshHandled)]
  <2>1. HasNext(p, q, "CLOSED_CONNECTION")
    BY DEF ReceiveClosedConnection
  <2>. QED BY <2>1, MeshNextFacts, MessageKinds
<1>2. /\ mesh' = [mesh EXCEPT ![p] = [t EXCEPT !.out = Nothing]]
      /\ Passes(p, rest, t.out) /\ drawn' = drawn
      /\ unnumbered' = IF q \in Participants(mesh[p]) /\ mesh[p].fcm2ParticipantList[q] = Unset
                       THEN unnumbered \cup {p} ELSE unnumbered
  BY DEF ReceiveClosedConnection, Becomes, PassesAfter
<1>3. /\ IsPlugin(s) /\ s.self = p /\ s.out = Nothing /\ p \notin Participants(s)
      /\ Participants(s) \subseteq System
      /\ NumberIsMade(s) /\ s.hostRakNetGuid = s.lastPushedHost
      /\ p \notin unnumbered => HostIsPushed(s)
      /\ inbox \in [System -> [System -> Seq(MeshHandled)]]
  BY OwnFacts
<1>4. /\ MeshTypeOK /\ linked \subseteq AllPairs /\ unnumbered \subseteq System /\ DOMAIN mesh = System
      /\ \A r \in System : OwnHostAgrees(r) /\ inbox[r][r] = <<>>
      /\ \A a \in System : \A b \in System \ {a} :
           LossesNoticed(a, b) /\ NumbersAreTrue(a, b) /\ NumberArrives(a, b) /\ NumberIsComing(a, b)
  BY DEF MeshIInv, MeshTypeOK, LinksTypeOK
<1>5. ~Linked(p, q) /\ ~Linked(q, p)
  <2>1. LossesNoticed(p, q)
    BY <1>1, <1>4
  <2>. QED BY <1>1, <2>1 DEF LossesNoticed, LostNotice, Linked, Pair
<1>6. /\ IsPlugin(t) /\ t.self = p /\ t.out = Nothing
      /\ Participants(t) = Participants(s) \ {q}
      /\ t.fcm2ParticipantList = [r \in Participants(s) \ {q} |-> s.fcm2ParticipantList[r]]
      /\ t.ourFCMGuid = s.ourFCMGuid /\ t.totalConnectionCount = s.totalConnectionCount
      /\ t.hostRakNetGuid = t.lastPushedHost
      /\ \/ t.lastPushedHost = s.lastPushedHost
            /\ ~(q \in Participants(s) /\ q = s.hostRakNetGuid /\ s.ourFCMGuid # Unset)
         \/ Participants(t) # {} => t.lastPushedHost = CalculateHost(t)
  <2> HIDE DEF s
  <2>. QED BY <1>1, <1>3, ClosedFacts
<1>7. rest[q] = Tail(queue) /\ \A r \in System \ {q} : rest[r] = inbox[p][r]
  BY <1>3
<1> HIDE DEF t, rest
<1>8. /\ inbox' \in [System -> [System -> Seq(MeshHandled)]] /\ linked' = linked
      /\ inbox'[p] = rest
      /\ \A r \in System \ {p} : \A o \in System : inbox'[r][o] = inbox[r][o]
  <2> DEFINE out == Nothing
  <2>1. (\A r \in System : out[r] = <<>> /\ out[r] \in Seq(MeshMessage)) /\ Passes(p, rest, out)
    BY <1>2, <1>6 DEF Nothing
  <2> HIDE DEF out
  <2>2. /\ inbox' \in [System -> [System -> Seq(MeshHandled)]] /\ linked' = linked
        /\ inbox'[p] = rest
        /\ \A r \in System \ {p} :
             /\ inbox'[r][p] = IF Linked(r, p) THEN inbox[r][p] \o out[r] ELSE inbox[r][p]
             /\ \A o \in System \ {p} : inbox'[r][o] = inbox[r][o]
    <3>1. Arrived(p, rest, out, MeshHandled)
      BY <1>1, <2>1, MeshPassesFacts
    <3>. QED BY <3>1 DEF Arrived
  <2>3. ASSUME NEW r \in System \ {p} PROVE inbox'[r][p] = inbox[r][p]
    <3>1. inbox[r][p] \in Seq(MeshHandled) /\ inbox[r][p] \o <<>> = inbox[r][p]
      BY <1>3
    <3>. QED BY <2>1, <2>2, <3>1
  <2>. QED BY <2>2, <2>3
<1>9. mesh'[p] = t /\ \A r \in System \ {p} : mesh'[r] = mesh[r]
  <2>1. [t EXCEPT !.out = Nothing] = t
    BY <1>6, PluginFacts
  <2>. QED BY <1>2, <1>4, <2>1
<1>10. DOMAIN mesh' = System
  BY <1>2, <1>4
<1>11. MeshTypeOK'
  <2>1. ASSUME NEW r \in System PROVE inbox'[r][r] = <<>>
    <3>1. CASE r = p
      <4>1. inbox'[r][r] = rest[p] /\ p \in System \ {q}
        BY <1>1, <1>8, <3>1
      <4>. QED BY <1>4, <1>7, <4>1
    <3>2. CASE r # p
      <4>1. inbox'[r][r] = inbox[r][r]
        BY <1>8, <3>2
      <4>. QED BY <1>4, <4>1
    <3>. QED BY <3>1, <3>2
  <2>2. linked' \subseteq AllPairs /\ unnumbered' \subseteq System /\ p \notin Participants(t)
    <3>1. linked' \subseteq AllPairs
      BY <1>4, <1>8
    <3>2. unnumbered' \subseteq System
      BY <1>2, <1>4
    <3>. QED BY <1>3, <1>6, <3>1, <3>2
  <2>3. IsPlugin(mesh'[p]) /\ mesh'[p].self = p /\ mesh'[p].out = Nothing /\ p \notin Participants(mesh'[p])
    BY <1>6, <1>9, <2>2
  <2>4. drawn' = drawn /\ \A r \in System \ {p} : mesh'[r] = mesh[r]
    BY <1>2, <1>9
  <2>5. inbox' \in [System -> [System -> Seq(MeshHandled)]]
    BY <1>8
  <2>. QED BY <1>10, <2>1, <2>2, <2>3, <2>4, <2>5, TypedPlugin
<1>12. OwnHostAgrees(p)'
  <2>1. NumberIsMade(t)
    BY <1>3, <1>6 DEF NumberIsMade
  <2>2. \A r \in Participants(s) : s.fcm2ParticipantList[r] # Unset => s.ourFCMGuid # Unset
    BY <1>4 DEF OwnHostAgrees, NumberListed, Number
  <2>3. (\E r \in Participants(t) : t.fcm2ParticipantList[r] # Unset) => t.ourFCMGuid # Unset
    BY <1>6, <2>2
  <2>4. ASSUME p \notin unnumbered', AllListed(t), Participants(t) # {}
        PROVE  t.lastPushedHost = CalculateHost(t)
    <3>1. /\ HostIsPushed(s)
          /\ q \in Participants(s) => s.fcm2ParticipantList[q] # Unset
      BY <1>2, <1>3, <2>4
    <3>2. AllListed(s) /\ Participants(s) # {}
      BY <1>6, <2>4, <3>1 DEF AllListed
    <3>3. s.lastPushedHost = CalculateHost(s)
      BY <3>1, <3>2 DEF HostIsPushed
    <3>4. CASE q \notin Participants(s)
      <4>1. t.fcm2ParticipantList = s.fcm2ParticipantList
        <5> DEFINE list == s.fcm2ParticipantList
        <5>1. list \in [Participants(s) -> Nat]
          BY <1>3, PluginFacts
        <5>2. Participants(s) \ {q} = Participants(s) /\ t.fcm2ParticipantList = [r \in Participants(s) \ {q} |-> list[r]]
          BY <1>6, <3>4
        <5> HIDE DEF s, list
        <5>3. t.fcm2ParticipantList = list
          BY <5>1, <5>2
        <5>. QED BY <5>3 DEF list
      <4>2. t.self = s.self /\ t.ourFCMGuid = s.ourFCMGuid
        BY <1>3, <1>6
      <4>3. CalculateHost(t) = CalculateHost(s)
        <5> HIDE DEF s
        <5>. QED BY <4>1, <4>2, SameHost
      <4>. QED BY <1>6, <2>4, <3>3, <4>3
    <3>5. CASE q \in Participants(s) /\ q # s.hostRakNetGuid
      <4>1. Number(p) # Unset /\ Participates(p, q) /\ AllListed(mesh[p]) /\ CalculateHost(mesh[p]) # q
            /\ t.ourFCMGuid = Number(p)
        BY <1>3, <1>6, <2>2, <3>1, <3>2, <3>3, <3>5 DEF Number, Participates
      <4>2. /\ q \in System \ {p} /\ IsPlugin(t) /\ t.self = p
            /\ Participants(t) = Participants(mesh[p]) \ {q}
            /\ t.fcm2ParticipantList =
                 [r \in Participants(mesh[p]) \ {q} |-> mesh[p].fcm2ParticipantList[r]]
        BY <1>1, <1>6
      <4>3. CalculateHost(t) = CalculateHost(mesh[p])
        BY <4>1, <4>2, HostRemains
      <4>. QED BY <1>6, <2>4, <3>3, <4>3
    <3>6. CASE q \in Participants(s) /\ q = s.hostRakNetGuid
      BY <1>6, <2>2, <2>4, <3>1, <3>6
    <3>. QED BY <3>4, <3>5, <3>6
  <2>5. p \notin unnumbered' => HostIsPushed(t)
    BY <2>4 DEF HostIsPushed
  <2>. QED BY <1>2, <1>6, <1>9, <2>1, <2>3, <2>5, OwnFromPlugin
<1>13. ASSUME NEW r \in System PROVE OwnHostAgrees(r)'
  <2>1. CASE r = p
    BY <1>12, <2>1
  <2>2. CASE r # p
    <3>1. r \in unnumbered => r \in unnumbered'
      BY <1>2
    <3>. QED BY <1>2, <1>4, <1>9, <2>2, <3>1, OwnUnchanged
  <2>. QED BY <2>1, <2>2
<1>14. /\ \A a, b : Linked(a, b)' <=> Linked(a, b)
       /\ \A a, b \in System : a # p \/ b # q => inbox'[a][b] = inbox[a][b]
  BY <1>7, <1>8 DEF Linked
<1>15. /\ \A r \in System : Number(r)' = Number(r)
       /\ \A a, b \in System : a # p \/ b # q =>
            /\ Participates(a, b)' <=> Participates(a, b)
            /\ Participates(a, b) => NumberListed(a, b)' = NumberListed(a, b)
       /\ ~Participates(p, q)'
  <2>1. \A r \in System : Number(r)' = Number(r)
    BY <1>6, <1>9 DEF Number
  <2>2. ~Participates(p, q)'
    BY <1>6, <1>9 DEF Participates, Participants
  <2>3. ASSUME NEW a \in System, NEW b \in System, a # p \/ b # q
        PROVE  /\ Participates(a, b)' <=> Participates(a, b)
               /\ Participates(a, b) => NumberListed(a, b)' = NumberListed(a, b)
    <3>1. CASE a # p
      BY <1>9, <3>1 DEF Participates, Participants, NumberListed
    <3>2. CASE a = p
      <4>1. Participates(p, b)' <=> b \in Participants(t)
        BY <1>9 DEF Participates, Participants
      <4>. QED BY <1>6, <1>9, <2>3, <3>2, <4>1 DEF Participates, NumberListed
    <3>. QED BY <3>1, <3>2
  <2>. QED BY <2>1, <2>2, <2>3
<1>16. (LossesNoticed(p, q) /\ NumbersAreTrue(p, q) /\ NumberArrives(p, q) /\ NumberIsComing(p, q))'
  <2>1. LossesNoticed(p, q)'
    <3>1. queue[Len(queue)] = LostNotice
      BY <1>1, <1>4, <1>5 DEF LossesNoticed, LostNotice
    <3>2. Tail(queue) # <<>> => Tail(queue)[Len(Tail(queue))] = LostNotice
      <4> HIDE DEF queue
      <4>. QED BY <1>1, <3>1, QueueFacts
    <3>3. inbox'[p][q] = Tail(queue)
      BY <1>7, <1>8
    <3>. QED BY <1>5, <1>14, <1>15, <3>2, <3>3 DEF LossesNoticed, LostNotice
  <2>2. NumbersAreTrue(p, q)'
    <3>1. Range(Tail(queue)) \subseteq Range(queue)
      <4> HIDE DEF queue
      <4>. QED BY <1>1, QueueFacts
    <3>2. inbox'[p][q] = Tail(queue) /\ NumbersAreTrue(p, q)
      BY <1>1, <1>4, <1>7, <1>8
    <3>. QED BY <1>15, <3>1, <3>2 DEF NumbersAreTrue
  <2>. QED BY <1>5, <1>14, <2>1, <2>2 DEF NumberArrives, NumberIsComing
<1>17. (LossesNoticed(q, p) /\ NumbersAreTrue(q, p) /\ NumberArrives(q, p) /\ NumberIsComing(q, p))'
  <2>1. LossesNoticed(q, p) /\ NumbersAreTrue(q, p)
    BY <1>1, <1>4
  <2>2. inbox'[q][p] = inbox[q][p]
    BY <1>1, <1>14
  <2>3. (Participates(q, p)' <=> Participates(q, p)) /\ Number(p)' = Number(p)
        /\ (Participates(q, p) => NumberListed(q, p)' = NumberListed(q, p))
    BY <1>1, <1>15
  <2>4. LossesNoticed(q, p)' /\ NumbersAreTrue(q, p)'
    BY <1>14, <2>1, <2>2, <2>3 DEF LossesNoticed, NumbersAreTrue
  <2>. QED BY <1>5, <1>14, <2>4 DEF NumberArrives, NumberIsComing
<1>18. ASSUME NEW a \in System, NEW b \in System \ {a}, ~(a = p /\ b = q), ~(a = q /\ b = p)
       PROVE  (LossesNoticed(a, b) /\ NumbersAreTrue(a, b) /\ NumberArrives(a, b) /\ NumberIsComing(a, b))'
  <2>1. /\ inbox'[a][b] = inbox[a][b] /\ inbox'[b][a] = inbox[b][a] /\ (Linked(a, b)' <=> Linked(a, b))
        /\ (Participates(a, b)' <=> Participates(a, b)) /\ (Participates(b, a)' <=> Participates(b, a))
        /\ Number(a)' = Number(a) /\ Number(b)' = Number(b)
        /\ Participates(a, b) => NumberListed(a, b)' = NumberListed(a, b)
    BY <1>14, <1>15, <1>18
  <2>2. LossesNoticed(a, b) /\ NumbersAreTrue(a, b) /\ NumberArrives(a, b) /\ NumberIsComing(a, b)
    BY <1>4
  <2>. QED BY <2>1, <2>2, PairUnchanged
<1>19. ASSUME NEW a \in System, NEW b \in System \ {a}
       PROVE  (LossesNoticed(a, b) /\ NumbersAreTrue(a, b) /\ NumberArrives(a, b) /\ NumberIsComing(a, b))'
  BY <1>16, <1>17, <1>18
<1>. QED BY <1>11, <1>13, <1>19 DEF MeshIInv

-----------------------------------------------------------------------------
(* A settled mesh *)

\* At first no system has a number, a participant or anything to handle.
LEMMA MeshInitAgrees ==
  ASSUME MeshInit, LinksInit({}, MeshBudgets) PROVE MeshIInv
<1>1. /\ linked = {} /\ inbox = [p \in System |-> [q \in System |-> <<>>]]
      /\ drawn \in MeshLots /\ unnumbered = {} /\ DOMAIN mesh = System
  BY DEF MeshInit, LinksInit
<1>2. \A p, q \in System : inbox[p][q] = <<>> /\ ~Linked(p, q)
  BY <1>1 DEF Linked
<1>3. ASSUME NEW p \in System
      PROVE  /\ mesh[p] \in Plugin({}) /\ Participants(mesh[p]) = {}
             /\ mesh[p].self = p /\ mesh[p].out = Nothing /\ mesh[p].ourFCMGuid = Unset
             /\ mesh[p].hostRakNetGuid = NoHost /\ mesh[p].lastPushedHost = NoHost
  <2> DEFINE list == [q \in {} |-> Unset]
             s == [self |-> p, fcm2ParticipantList |-> list, ourFCMGuid |-> Unset,
                   totalConnectionCount |-> 0, hostRakNetGuid |-> NoHost,
                   lastPushedHost |-> NoHost, out |-> Nothing]
  <2>1. mesh[p] = s
    BY DEF MeshInit
  <2>2. DOMAIN list = {} /\ list \in [{} -> Nat]
    BY DEF Unset
  <2>3. Nothing \in [System -> Seq(MeshMessage)]
    <3>1. <<>> \in Seq(MeshMessage)
      OBVIOUS
    <3>. QED BY <3>1 DEF Nothing
  <2> HIDE DEF list
  <2>4. /\ s.fcm2ParticipantList = list /\ s.self = p /\ s.out = Nothing /\ s.ourFCMGuid = Unset
        /\ s.hostRakNetGuid = NoHost /\ s.lastPushedHost = NoHost
    OBVIOUS
  <2>5. s \in Plugin({})
    BY <2>2, <2>3 DEF Plugin, Unset, NoHost
  <2> HIDE DEF s
  <2>. QED BY <2>1, <2>2, <2>4, <2>5 DEF Participants
<1>4. MeshTypeOK
  <2>1. LinksTypeOK(MeshMessage)
    <3> DEFINE Queue == Seq(MeshMessage \cup {Notice("NEW_CONNECTION"), Notice("CLOSED_CONNECTION")})
    <3>1. <<>> \in Queue
      OBVIOUS
    <3> HIDE DEF Queue
    <3>2. inbox \in [System -> [System -> Queue]]
      BY <1>1, <3>1
    <3>. QED BY <1>1, <3>2 DEF LinksTypeOK, Queue
  <2>. QED BY <1>1, <1>2, <1>3, <2>1 DEF MeshTypeOK
<1>5. ASSUME NEW p \in System PROVE OwnHostAgrees(p)
  <2>1. /\ Participants(mesh[p]) = {} /\ mesh[p].ourFCMGuid = Unset
        /\ mesh[p].hostRakNetGuid = mesh[p].lastPushedHost
    BY <1>3
  <2>. QED BY <2>1 DEF OwnHostAgrees, Number
<1>6. ASSUME NEW p \in System, NEW q \in System \ {p}
      PROVE  LossesNoticed(p, q) /\ NumbersAreTrue(p, q) /\ NumberArrives(p, q) /\ NumberIsComing(p, q)
  <2>1. inbox[p][q] = <<>> /\ ~Linked(p, q)
    BY <1>2
  <2>2. ~Participates(p, q)
    <3>1. Participants(mesh[p]) = {}
      BY <1>3
    <3>. QED BY <3>1 DEF Participates
  <2>3. Range(inbox[p][q]) = {}
    BY <2>1 DEF Range
  <2>. QED BY <2>1, <2>2, <2>3 DEF LossesNoticed, NumbersAreTrue, NumberArrives, NumberIsComing
<1>. QED BY <1>4, <1>5, <1>6 DEF MeshIInv

\* Every step keeps the invariant.
LEMMA MeshNextKeeps ==
  ASSUME MeshIInv, [MeshNext]_meshVars PROVE MeshIInv'
<1>1. ASSUME NEW p \in System, NEW q \in Senders(p),
             \/ OnNewConnection(p, q) \/ ReceiveClosedConnection(p, q)
             \/ ReceiveRequestFCMGuid(p, q) \/ ReceiveRespondConnectionCount(p, q)
             \/ ReceiveInformFCMGuid(p, q) \/ OnUpdateMinTotalConnectionCount(p, q)
      PROVE  MeshIInv'
  <2>1. q \in System
    BY DEF Senders
  <2>. QED BY <1>1, <2>1, OnNewConnectionKeeps, ReceiveClosedKeeps, ReceiveRequestKeeps,
              ReceiveRespondKeeps, ReceiveInformKeeps, OnUpdateKeeps
<1>2. ASSUME NEW p \in System, NEW q \in System, AddParticipant(p, q) PROVE MeshIInv'
  BY <1>2, AddParticipantKeeps
<1>3. ASSUME LinksChange, UNCHANGED <<mesh, drawn, unnumbered>> PROVE MeshIInv'
  BY <1>3, MeshLinksKeep
<1>4. ASSUME UNCHANGED meshVars PROVE MeshIInv'
  <2>1. mesh' = mesh /\ drawn' = drawn /\ unnumbered' = unnumbered /\ linked' = linked /\ inbox' = inbox
    BY <1>4 DEF meshVars, linkVars
  <2>2. MeshTypeOK'
    BY <2>1 DEF MeshIInv, MeshTypeOK, LinksTypeOK, Participants
  <2>3. ASSUME NEW p \in System PROVE OwnHostAgrees(p)'
    BY <2>1, OwnUnchanged DEF MeshIInv
  <2>4. ASSUME NEW a \in System, NEW b \in System \ {a}
        PROVE  (LossesNoticed(a, b) /\ NumbersAreTrue(a, b) /\ NumberArrives(a, b) /\ NumberIsComing(a, b))'
    <3>1. LossesNoticed(a, b) /\ NumbersAreTrue(a, b) /\ NumberArrives(a, b) /\ NumberIsComing(a, b)
      BY DEF MeshIInv
    <3>2. /\ (Participates(a, b)' <=> Participates(a, b)) /\ (Participates(b, a)' <=> Participates(b, a))
          /\ Number(a)' = Number(a) /\ Number(b)' = Number(b) /\ NumberListed(a, b)' = NumberListed(a, b)
          /\ inbox'[a][b] = inbox[a][b] /\ inbox'[b][a] = inbox[b][a] /\ (Linked(a, b)' <=> Linked(a, b))
      BY <2>1 DEF Participates, Participants, Number, NumberListed, Linked
    <3>. QED BY <3>1, <3>2, PairUnchanged
  <2>. QED BY <2>2, <2>3, <2>4 DEF MeshIInv
<1>. QED BY <1>1, <1>2, <1>3, <1>4 DEF MeshNext

\* The plugins of the systems of a mesh and what is under way between them agree
\* on the numbers: none is told or listed that is not the system's own, and none
\* that is missing is not on its way.
THEOREM MeshInvariant == MeshSpec => []MeshIInv
<1>1. MeshInit /\ LinksInit({}, MeshBudgets) => MeshIInv
  BY MeshInitAgrees
<1>2. MeshIInv /\ [MeshNext]_meshVars => MeshIInv'
  BY MeshNextKeeps
<1>. QED BY <1>1, <1>2, PTL DEF MeshSpec

\* What the systems of a settled mesh know of each other.
LEMMA SettledFacts ==
  ASSUME MeshIInv, NEW p \in System, Settled(p), Cardinality(Neighbours(p)) > 1,
         NEW q \in Neighbours(p), q \notin unnumbered
  PROVE  /\ mesh[q].lastPushedHost \in Neighbours(p)
         /\ Number(mesh[q].lastPushedHost) # Unset
         /\ \A r \in Neighbours(p) : Number(mesh[q].lastPushedHost) <= Number(r)
<1> DEFINE mates == Neighbours(p)
           s == mesh[q]
<1>1. mates \subseteq System /\ q \in mates
  BY DEF Neighbours
<1>2. ASSUME NEW o \in mates
      PROVE  /\ Neighbours(o) = mates /\ Participants(mesh[o]) = mates \ {o}
             /\ \A r \in System : inbox[o][r] = <<>>
  BY DEF Settled
<1>3. ASSUME NEW o \in mates, NEW r \in mates \ {o}
      PROVE  /\ Linked(o, r) /\ Participates(o, r) /\ inbox[o][r] = <<>> /\ Range(inbox[o][r]) = {}
             /\ NumberArrives(o, r) /\ NumberIsComing(o, r)
  <2>1. r \in Neighbours(o) /\ Participates(o, r) /\ inbox[o][r] = <<>>
    BY <1>1, <1>2 DEF Participates
  <2>. QED BY <1>1, <2>1 DEF MeshIInv, Neighbours, Range
<1>4. ASSUME NEW o \in mates PROVE \E r \in mates : r # o
  <2>1. mates = {o} => Cardinality(mates) = 1
    BY FS_Singleton
  <2>. QED BY <2>1
<1> HIDE DEF mates
<1>5. ASSUME NEW o \in mates PROVE Number(o) # Unset
  <2>1. PICK r \in mates \ {o} : TRUE
    BY <1>4
  <2>2. Range(inbox[r][o]) = {} /\ Range(inbox[o][r]) = {} /\ Linked(o, r) /\ Participates(o, r) /\ NumberIsComing(o, r)
    BY <1>3
  <2>. QED BY <2>2 DEF NumberIsComing, AsksForNumber, TellsCount, TellsNumber
<1>6. ASSUME NEW r \in mates \ {q} PROVE NumberListed(q, r) = Number(r)
  <2>1. NumberArrives(q, r) /\ Linked(q, r) /\ Range(inbox[q][r]) = {} /\ Participates(r, q) /\ Number(r) # Unset
    BY <1>1, <1>3, <1>5
  <2>. QED BY <2>1 DEF NumberArrives, TellsNumber
<1>7. /\ IsPlugin(s) /\ s.self = q /\ HostIsPushed(s) /\ Participants(s) = mates \ {q}
  BY <1>1, <1>2, OwnFacts
<1>8. AllListed(s) /\ Participants(s) # {}
  <2>1. AllListed(s)
    BY <1>5, <1>6, <1>7 DEF AllListed, NumberListed
  <2>. QED BY <1>1, <1>4, <1>7, <2>1
<1>9. s.lastPushedHost = CalculateHost(s)
  BY <1>7, <1>8 DEF HostIsPushed
<1>10. ASSUME NEW r \in mates PROVE NumberFor(s, r) = Number(r) /\ r \in Considered(s)
  <2>1. NumberFor(s, r) = Number(r)
    BY <1>6, <1>7 DEF NumberFor, NumberListed, Number
  <2>. QED BY <1>5, <1>7, <2>1 DEF Considered
<1>11. Considered(s) \subseteq mates
  BY <1>1, <1>7 DEF Considered
<1> DEFINE h == CalculateHost(s)
<1>12. h \in Considered(s) /\ \A r \in Considered(s) : NumberFor(s, h) <= NumberFor(s, r)
  <2> HIDE DEF s
  <2>. QED BY <1>7, HostFacts
<1> HIDE DEF h, s
<1>13. h \in mates /\ Number(h) # Unset /\ \A r \in mates : Number(h) <= Number(r)
  <2>1. h \in mates
    BY <1>11, <1>12
  <2>2. Number(h) # Unset /\ NumberFor(s, h) = Number(h)
    BY <1>5, <1>10, <2>1
  <2>. QED BY <1>10, <1>12, <2>1, <2>2
<1>. QED BY <1>9, <1>13 DEF h, s, mates

\* The systems of a fully connected mesh that has settled were told of one and the
\* same host, which is among them.
THEOREM MeshHostsAgree == MeshSpec => []HostsAgree
<1>1. ASSUME MeshIInv PROVE HostsAgree
  <2> SUFFICES ASSUME NEW p \in System, Settled(p), Cardinality(Neighbours(p)) > 1,
                      Neighbours(p) \cap unnumbered = {}
               PROVE  /\ mesh[p].lastPushedHost \in Neighbours(p)
                      /\ \A q \in Neighbours(p) : mesh[q].lastPushedHost = mesh[p].lastPushedHost
    BY DEF HostsAgree
  <2> DEFINE Host(q) == mesh[q].lastPushedHost
  <2>1. p \in Neighbours(p) /\ Neighbours(p) \subseteq System
    BY DEF Neighbours
  <2>2. ASSUME NEW q \in Neighbours(p)
        PROVE  /\ Host(q) \in Neighbours(p) /\ Number(Host(q)) # Unset
               /\ \A r \in Neighbours(p) : Number(Host(q)) <= Number(r)
    BY <1>1, SettledFacts
  <2> HIDE DEF Host
  <2>3. ASSUME NEW q \in Neighbours(p) PROVE Host(q) = Host(p)
    <3>1. /\ Number(Host(q)) <= Number(Host(p)) /\ Number(Host(p)) <= Number(Host(q))
          /\ Host(q) \in System /\ Host(p) \in System /\ Number(Host(q)) # Unset
      BY <2>1, <2>2
    <3>2. Number(Host(q)) \in Nat /\ Number(Host(p)) \in Nat
      BY <1>1, <3>1, OwnFacts, PluginFacts DEF Number
    <3>3. Number(Host(q)) = Number(Host(p))
      BY <3>1, <3>2
    <3>. QED BY <1>1, <3>1, <3>3, NumbersAreDistinct
  <2>. QED BY <2>1, <2>2, <2>3 DEF Host
<1>. QED BY <1>1, MeshInvariant, PTL

-----------------------------------------------------------------------------
(* Counts *)

\* How many of a list there are.
LEMMA CountFacts ==
  ASSUME NEW M, NEW list \in Seq(M), NEW S
  PROVE  /\ IsFiniteSet({i \in DOMAIN list : list[i] \in S})
         /\ Count(list, S) \in Nat
         /\ (\A i \in 1 .. Len(list) : list[i] \in S) => Count(list, S) = Len(list)
         /\ (\A i \in 1 .. Len(list) : list[i] \notin S) => Count(list, S) = 0
         /\ Count(list, S) > 0 => \E i \in 1 .. Len(list) : list[i] \in S
<1> DEFINE at == {i \in DOMAIN list : list[i] \in S}
           n == Len(list)
<1>1. n \in Nat /\ DOMAIN list = 1 .. n
  OBVIOUS
<1> HIDE DEF n
<1>2. IsFiniteSet(1 .. n) /\ Cardinality(1 .. n) = n
  BY <1>1, FS_Interval
<1>3. at \in SUBSET (1 .. n)
  BY <1>1
<1>4. IsFiniteSet(at) /\ Cardinality(at) \in Nat
  BY <1>2, <1>3, FS_Subset, FS_CardinalityType
<1>5. (\A i \in 1 .. n : list[i] \in S) => at = 1 .. n
  BY <1>1
<1>6. (\A i \in 1 .. n : list[i] \notin S) => at = {}
  BY <1>1
<1>7. Cardinality({}) = 0
  BY FS_EmptySet
<1>8. at # {} => \E i \in 1 .. n : list[i] \in S
  BY <1>1
<1>9. Count(list, S) = Cardinality(at)
  BY DEF Count
<1> HIDE DEF at
<1>10. Cardinality(at) > 0 => at # {}
  BY <1>7
<1>. QED BY <1>1, <1>2, <1>4, <1>5, <1>6, <1>7, <1>8, <1>9, <1>10 DEF n, at

\* Of two lists, one after the other.
LEMMA CountConcat ==
  ASSUME NEW M, NEW list \in Seq(M), NEW more \in Seq(M), NEW S
  PROVE  Count(list \o more, S) = Count(list, S) + Count(more, S)
<1> DEFINE long == list \o more
           n == Len(list)
           m == Len(more)
           here == {i \in DOMAIN list : list[i] \in S}
           there == {i \in DOMAIN more : more[i] \in S}
           moved == {i \in DOMAIN long : long[i] \in S} \ here
           f == [i \in there |-> i + n]
<1>1. /\ n \in Nat /\ m \in Nat /\ DOMAIN list = 1 .. n /\ DOMAIN more = 1 .. m
      /\ DOMAIN long = 1 .. n + m
      /\ \A i \in 1 .. n : long[i] = list[i]
  OBVIOUS
<1>2. \A i \in n + 1 .. n + m : long[i] = more[i - n]
  OBVIOUS
<1> HIDE DEF long, n, m
<1>3. \A i \in 1 .. m : i + n \in n + 1 .. n + m /\ long[i + n] = more[i]
  BY <1>1, <1>2
<1>4. {i \in DOMAIN long : long[i] \in S} = here \cup moved /\ here \cap moved = {}
  BY <1>1
<1>5. f \in Bijection(there, moved)
  <2>1. \A i \in there : f[i] = i + n /\ f[i] \in moved
    BY <1>1, <1>3
  <2>2. f \in [there -> moved]
    BY <2>1
  <2>3. \A i, j \in there : f[i] = f[j] => i = j
    BY <1>1, <2>1
  <2>4. ASSUME NEW j \in moved PROVE \E i \in there : f[i] = j
    <3>1. j \in n + 1 .. n + m /\ long[j] \in S
      BY <1>1
    <3>2. j - n \in there
      BY <1>1, <1>2, <3>1
    <3>. QED BY <1>1, <2>1, <3>1, <3>2
  <2>5. DOMAIN f = there
    OBVIOUS
  <2> HIDE DEF f, there, moved
  <2>6. IsInjective(f)
    BY <2>3, <2>5 DEF IsInjective
  <2>. QED BY <2>2, <2>4, <2>6 DEF Bijection, Injection, Surjection
<1>6. IsFiniteSet(here) /\ IsFiniteSet(there) /\ Cardinality(here) \in Nat /\ Cardinality(there) \in Nat
  BY CountFacts, FS_CardinalityType
<1> HIDE DEF here, there, moved, f
<1>7. IsFiniteSet(moved) /\ Cardinality(moved) = Cardinality(there)
  <2>1. ExistsBijection(there, moved)
    BY <1>5 DEF ExistsBijection
  <2>. QED BY <1>6, <2>1, FS_Bijection
<1>8. Cardinality(here \cup moved) = Cardinality(here) + Cardinality(there)
  <2>1. Cardinality(here \cap moved) = 0
    BY <1>4, FS_EmptySet
  <2>2. Cardinality(here \cup moved) = Cardinality(here) + Cardinality(moved) - Cardinality(here \cap moved)
    BY <1>6, <1>7, FS_Union
  <2>. QED BY <1>6, <1>7, <2>1, <2>2
<1>. QED BY <1>4, <1>8 DEF Count, here, there, long

\* Of a list of one.
LEMMA CountOne ==
  ASSUME NEW M, NEW m \in M, NEW S
  PROVE  /\ Count(<<m>>, S) = IF m \in S THEN 1 ELSE 0
         /\ Count(<<>>, S) = 0
<1> DEFINE one == <<m>>
           none == <<>>
<1>1. one \in Seq(M) /\ Len(one) = 1 /\ \A i \in 1 .. 1 : one[i] = m
  OBVIOUS
<1>2. none \in Seq(M) /\ Len(none) = 0 /\ \A i : i \notin 1 .. 0
  OBVIOUS
<1> HIDE DEF one, none
<1>3. Count(none, S) = 0
  <2>1. \A i \in 1 .. Len(none) : none[i] \notin S
    BY <1>2
  <2>2. Count(none, S) = 0
    BY <1>2, <2>1, CountFacts
  <2>. QED BY <2>2
<1>4. Count(one, S) = IF m \in S THEN 1 ELSE 0
  <2>1. CASE m \in S
    <3>1. \A i \in 1 .. Len(one) : one[i] \in S
      BY <1>1, <2>1
    <3>2. Count(one, S) = Len(one)
      BY <1>1, <3>1, CountFacts
    <3>. QED BY <1>1, <2>1, <3>2
  <2>2. CASE m \notin S
    <3>1. \A i \in 1 .. Len(one) : one[i] \notin S
      BY <1>1, <2>2
    <3>2. Count(one, S) = 0
      BY <1>1, <3>1, CountFacts
    <3>. QED BY <2>2, <3>2
  <2>. QED BY <2>1, <2>2
<1>. QED BY <1>3, <1>4 DEF one, none

\* What is counted of a queue whose first message is taken, or of which the first
\* messages are left.
LEMMA CountRest ==
  ASSUME NEW M, NEW list \in Seq(M), NEW S
  PROVE  /\ list # <<>> =>
              Count(list, S) = Count(Tail(list), S) + IF Head(list) \in S THEN 1 ELSE 0
         /\ \A n \in 0 .. Len(list) : Count(SubSeq(list, 1, n), S) <= Count(list, S)
<1>1. ASSUME list # <<>>
      PROVE  Count(list, S) = Count(Tail(list), S) + IF Head(list) \in S THEN 1 ELSE 0
  <2> DEFINE m == Head(list)
             rest == Tail(list)
             one == <<m>>
  <2>1. m \in M /\ rest \in Seq(M) /\ one \in Seq(M)
    BY <1>1
  <2>2. list = one \o rest
    BY <1>1
  <2> HIDE DEF rest, one
  <2>3. Count(list, S) = Count(one, S) + Count(rest, S)
    BY <2>1, <2>2, CountConcat
  <2> HIDE DEF m
  <2>4. Count(one, S) = IF m \in S THEN 1 ELSE 0
    BY <2>1, CountOne DEF one
  <2>5. Count(rest, S) \in Nat
    BY <2>1, CountFacts
  <2>. QED BY <2>3, <2>4, <2>5 DEF m, rest
<1>2. ASSUME NEW n \in 0 .. Len(list) PROVE Count(SubSeq(list, 1, n), S) <= Count(list, S)
  <2> DEFINE begun == SubSeq(list, 1, n)
             rest == SubSeq(list, n + 1, Len(list))
  <2>1. begun \in Seq(M) /\ rest \in Seq(M)
    OBVIOUS
  <2>2. list = begun \o rest
    <3> DEFINE length == Len(list)
    <3>1. length \in Nat /\ n \in Nat /\ n <= length /\ SubSeq(list, 1, length) = list
      BY SubSeqFull
    <3> HIDE DEF length
    <3>2. 1 \in 1 .. length + 1 /\ n \in 1 - 1 .. length /\ length \in n .. length
      BY <3>1
    <3>3. SubSeq(list, 1, n) \o SubSeq(list, n + 1, length) = SubSeq(list, 1, length)
      BY <3>2, ConcatAdjacentSubSeq DEF length
    <3>. QED BY <3>1, <3>3 DEF length
  <2> HIDE DEF begun, rest
  <2>3. Count(list, S) = Count(begun, S) + Count(rest, S)
    BY <2>1, <2>2, CountConcat
  <2>4. Count(begun, S) \in Nat /\ Count(rest, S) \in Nat
    BY <2>1, CountFacts
  <2>. QED BY <2>3, <2>4 DEF begun
<1>. QED BY <1>1, <1>2

\* A property of the numbers up to N, given by the set of those that have it,
\* holds of all if it passes from each to the next.
LEMMA InductionUpTo ==
  ASSUME NEW N \in Nat, NEW K, 0 \in K, \A n \in 1 .. N : n - 1 \in K => n \in K
  PROVE  \A n \in 0 .. N : n \in K
<1> DEFINE S == {n \in 0 .. N : n \notin K}
<1>. SUFFICES ASSUME S # {} PROVE FALSE
  OBVIOUS
<1>1. S \subseteq Nat
  OBVIOUS
<1>2. PICK x \in S : \A y \in S : x <= y
  <2> HIDE DEF S
  <2>. QED BY <1>1, LeastNumber
<1>3. x \in 1 .. N /\ x - 1 \in 0 .. N /\ x - 1 \notin S
  BY <1>2
<1>. QED BY <1>3

\* The steps of the loop that takes what concerns q off a list.
Leaves(f, list, q, n) ==
  f = [k \in 0 .. n |->
         IF k = 0 THEN <<>>
         ELSE IF list[k].remoteSystem = q THEN f[k - 1] ELSE Append(f[k - 1], list[k])]

\* The function that leaves out what concerns q is there for any length.
LEMMA LeavesExist ==
  ASSUME NEW list, NEW q, NEW N \in Nat PROVE \E f : Leaves(f, list, q, N)
<1> DEFINE K == {n \in 0 .. N : \E f : Leaves(f, list, q, n)}
           Next(s, k) == IF list[k].remoteSystem = q THEN s ELSE Append(s, list[k])
<1>1. 0 \in K
  <2> DEFINE f == [k \in 0 .. 0 |-> <<>>]
  <2>1. f = [k \in 0 .. 0 |->
               IF k = 0 THEN <<>>
               ELSE IF list[k].remoteSystem = q THEN f[k - 1] ELSE Append(f[k - 1], list[k])]
    OBVIOUS
  <2> HIDE DEF f
  <2>. QED BY <2>1 DEF Leaves
<1>2. ASSUME NEW n \in 1 .. N, n - 1 \in K PROVE n \in K
  <2>1. PICK f : Leaves(f, list, q, n - 1)
    BY <1>2
  <2> DEFINE h == [k \in 0 .. n |-> IF k < n THEN f[k] ELSE Next(f[n - 1], n)]
  <2> HIDE DEF Next
  <2>2. ASSUME NEW k \in 0 .. n
        PROVE  h[k] = IF k = 0 THEN <<>> ELSE Next(h[k - 1], k)
    <3>1. CASE k = n
      BY <3>1
    <3>2. CASE k # n
      <4>1. k \in 0 .. n - 1 /\ h[k] = f[k] /\ (k # 0 => k - 1 \in 0 .. n /\ h[k - 1] = f[k - 1])
        BY <3>2
      <4> HIDE DEF h
      <4>2. f[k] = IF k = 0 THEN <<>> ELSE Next(f[k - 1], k)
        BY <2>1, <4>1 DEF Leaves, Next
      <4>. QED BY <4>1, <4>2
    <3>. QED BY <3>1, <3>2
  <2>3. h = [k \in 0 .. n |-> h[k]]
    OBVIOUS
  <2> HIDE DEF h
  <2>4. Leaves(h, list, q, n)
    BY <2>2, <2>3 DEF Leaves, Next
  <2>. QED BY <2>4
<1> HIDE DEF K
<1>3. N \in K
  BY <1>1, <1>2, InductionUpTo
<1>. QED BY <1>3 DEF K

\* AllBut takes the last value of such a function.
LEMMA LeavesOf ==
  ASSUME NEW M, NEW list \in Seq(M), NEW q
  PROVE  \E f : Leaves(f, list, q, Len(list)) /\ AllBut(list, q) = f[Len(list)]
<1>1. \E f : Leaves(f, list, q, Len(list))
  <2>1. Len(list) \in Nat
    OBVIOUS
  <2>. QED BY <2>1, LeavesExist
<1> DEFINE left[n \in 0 .. Len(list)] ==
             IF n = 0 THEN <<>>
             ELSE IF list[n].remoteSystem = q THEN left[n - 1] ELSE Append(left[n - 1], list[n])
<1>2. AllBut(list, q) = left[Len(list)]
  BY DEF AllBut
<1>3. \E f : f = [k \in 0 .. Len(list) |->
                    IF k = 0 THEN <<>>
                    ELSE IF list[k].remoteSystem = q THEN f[k - 1] ELSE Append(f[k - 1], list[k])]
  BY <1>1, Zenon DEF Leaves
<1>4. left = [n \in 0 .. Len(list) |->
                IF n = 0 THEN <<>>
                ELSE IF list[n].remoteSystem = q THEN left[n - 1] ELSE Append(left[n - 1], list[n])]
  BY <1>3 DEF left
<1> HIDE DEF left
<1>. QED BY <1>2, <1>4 DEF Leaves

\* What is left of a list, and what is not.
LEMMA AllButFacts ==
  ASSUME NEW M, NEW list \in Seq(M), NEW q, NEW S,
         \A i \in 1 .. Len(list) : list[i] \in S <=> list[i].remoteSystem = q
  PROVE  /\ AllBut(list, q) \in Seq(M)
         /\ Range(AllBut(list, q)) \subseteq Range(list)
         /\ Len(AllBut(list, q)) + Count(list, S) = Len(list)
<1> DEFINE N == Len(list)
           left == AllBut(list, q)
<1>1. PICK f : Leaves(f, list, q, N) /\ left = f[N]
  BY LeavesOf
<1> DEFINE Good(n) == /\ f[n] \in Seq(M) /\ Range(f[n]) \subseteq Range(list)
                      /\ Len(f[n]) + Count(SubSeq(list, 1, n), S) = n
           K == {n \in 0 .. N : Good(n)}
<1> HIDE DEF left
<1>2. N \in Nat /\ DOMAIN list = 1 .. N /\ SubSeq(list, 1, N) = list
  BY SubSeqFull
<1> HIDE DEF N
<1>3. 0 \in K
  <2> DEFINE none == <<>>
  <2>1. f[0] = none /\ SubSeq(list, 1, 0) = none
    BY <1>1, <1>2, SubSeqEmpty DEF Leaves
  <2>2. none \in Seq(M) /\ Range(none) = {} /\ Len(none) = 0
    BY DEF Range
  <2> HIDE DEF none
  <2>3. \A i \in 1 .. Len(none) : none[i] \notin S
    BY <2>2
  <2>4. Count(none, S) = 0
    BY <2>2, <2>3, CountFacts
  <2>5. Good(0)
    <3>1. Count(SubSeq(list, 1, 0), S) = 0 /\ Len(f[0]) = 0
      BY <2>1, <2>2, <2>4
    <3>2. f[0] \in Seq(M) /\ Range(f[0]) \subseteq Range(list)
      BY <2>1, <2>2
    <3>. QED BY <3>1, <3>2
  <2> HIDE DEF Good
  <2>. QED BY <1>2, <2>5
<1>4. ASSUME NEW n \in 1 .. N, n - 1 \in K PROVE n \in K
  <2> DEFINE before == f[n - 1]
             m == list[n]
             start == SubSeq(list, 1, n - 1)
             begun == SubSeq(list, 1, n)
             one == <<m>>
  <2>1. f[n] = IF m.remoteSystem = q THEN before ELSE Append(before, m)
    <3>1. n \in 0 .. N /\ n # 0
      BY <1>2
    <3>2. \A k \in 0 .. N :
            f[k] = IF k = 0 THEN <<>>
                   ELSE IF list[k].remoteSystem = q THEN f[k - 1] ELSE Append(f[k - 1], list[k])
      <4> HIDE DEF Good
      <4>. QED BY <1>1 DEF Leaves
    <3>. QED BY <3>1, <3>2
  <2>2. /\ before \in Seq(M) /\ Range(before) \subseteq Range(list)
        /\ Len(before) + Count(start, S) = n - 1
    BY <1>4
  <2>3. m \in M /\ m \in Range(list) /\ (m \in S <=> m.remoteSystem = q)
    BY <1>2 DEF Range, N
  <2>4. begun = start \o one /\ start \in Seq(M)
    <3>1. 1 \in 1 .. Len(list) /\ n \in 1 .. Len(list)
      BY <1>2 DEF N
    <3>. QED BY <3>1, SubSeqRecursiveSecond
  <2> HIDE DEF before, m, start, begun
  <2>5. one \in Seq(M)
    BY <2>3
  <2>6. Count(one, S) = IF m \in S THEN 1 ELSE 0
    BY <2>3, CountOne
  <2> HIDE DEF one
  <2>7. Count(begun, S) = Count(start, S) + Count(one, S) /\ Count(start, S) \in Nat
    <3>1. Count(start \o one, S) = Count(start, S) + Count(one, S)
      BY <2>4, <2>5, CountConcat
    <3>2. Count(start, S) \in Nat
      BY <2>4, CountFacts
    <3>. QED BY <2>4, <3>1, <3>2
  <2>8. Len(before) \in Nat
    BY <2>2
  <2>9. CASE m.remoteSystem = q
    <3>1. f[n] = before /\ Len(before) + Count(begun, S) = n
      BY <1>2, <2>1, <2>2, <2>3, <2>6, <2>7, <2>8, <2>9
    <3>2. Good(n)
      BY <2>2, <3>1 DEF begun
    <3> HIDE DEF Good
    <3>. QED BY <1>2, <3>2
  <2>10. CASE m.remoteSystem # q
    <3>1. /\ f[n] = Append(before, m) /\ Append(before, m) \in Seq(M)
          /\ Len(Append(before, m)) = Len(before) + 1
      BY <2>1, <2>2, <2>3, <2>10
    <3>2. Range(Append(before, m)) \subseteq Range(list)
      <4>1. ASSUME NEW i \in DOMAIN Append(before, m) PROVE Append(before, m)[i] \in Range(list)
        <5>1. /\ DOMAIN Append(before, m) = 1 .. Len(before) + 1 /\ DOMAIN before = 1 .. Len(before)
              /\ Append(before, m)[Len(before) + 1] = m
              /\ \A j \in 1 .. Len(before) : Append(before, m)[j] = before[j]
          BY <2>2, <2>3
        <5>2. \A j \in 1 .. Len(before) : before[j] \in Range(list)
          BY <2>2, <5>1 DEF Range
        <5>. QED BY <2>3, <2>8, <5>1, <5>2
      <4>. QED BY <4>1 DEF Range
    <3>3. Len(f[n]) + Count(begun, S) = n
      BY <1>2, <2>2, <2>3, <2>6, <2>7, <2>8, <2>10, <3>1
    <3>4. Good(n)
      BY <3>1, <3>2, <3>3 DEF begun
    <3> HIDE DEF Good
    <3>. QED BY <1>2, <3>4
  <2>. QED BY <2>9, <2>10
<1> HIDE DEF K
<1>5. \A n \in 0 .. N : n \in K
  BY <1>2, <1>3, <1>4, InductionUpTo
<1>6. Good(N)
  BY <1>2, <1>5 DEF K
<1>. QED BY <1>1, <1>2, <1>6 DEF left, N

-----------------------------------------------------------------------------
(* Queues of those that authenticate each other *)

\* What a system that talks with others may have to handle of them.
AuthHandled == AuthMessage \cup {Notice("NEW_CONNECTION"), Notice("CLOSED_CONNECTION")}

\* The invariant in the form in which the proofs use it.
LEMMA AuthFacts ==
  ASSUME AuthIInv
  PROVE  /\ linked \subseteq AllPairs
         /\ inbox \in [System -> [System -> Seq(AuthHandled)]]
         /\ outgoingChallenges \in [System -> Seq(Pending)] /\ generatedNonces \in [System -> Seq(Nonce)]
         /\ nextRequestId \in [System -> Nat] /\ announced \in [System -> Seq(Announcement)]
         /\ passwords \in [System -> SUBSET Identifier]
         /\ challenges \in [System -> [left : Nat, made : Nat, lost : Nat]]
         /\ \A p \in System :
              /\ passwords[p] \subseteq DOMAIN PasswordOf[p] /\ inbox[p][p] = <<>>
              /\ \A i \in DOMAIN outgoingChallenges[p] :
                   /\ outgoingChallenges[p][i].identifier \in passwords[p]
                   /\ outgoingChallenges[p][i].remoteSystem # p
              /\ \A i \in DOMAIN generatedNonces[p] :
                   generatedNonces[p][i].remoteSystem # p /\ generatedNonces[p][i].requestId < nextRequestId[p]
  BY DEF AuthIInv, AuthTypeOK, LinksTypeOK, AuthHandled

\* What all have to handle after a step of p.
LEMMA AuthPassesFacts ==
  ASSUME AuthIInv, NEW p \in System, NEW rest \in [System -> Seq(AuthHandled)], NEW out,
         \A r \in System : out[r] \in Seq(AuthMessage), Passes(p, rest, out)
  PROVE  Arrived(p, rest, out, AuthHandled)
<1>1. inbox \in [System -> [System -> Seq(AuthHandled)]]
  BY AuthFacts
<1>2. inbox' = [q \in System |->
        IF q = p THEN rest
        ELSE [inbox[q] EXCEPT ![p] = @ \o IF Linked(q, p) THEN out[q] ELSE <<>>]]
      /\ linked' = linked
  BY DEF Passes
<1>3. ASSUME NEW q \in System \ {p}
      PROVE  /\ inbox'[q] \in [System -> Seq(AuthHandled)]
             /\ inbox'[q][p] = IF Linked(q, p) THEN inbox[q][p] \o out[q] ELSE inbox[q][p]
             /\ \A o \in System \ {p} : inbox'[q][o] = inbox[q][o]
  <2>1. inbox[q] \in [System -> Seq(AuthHandled)] /\ q \in System /\ q # p
    BY <1>1
  <2>2. inbox[q][p] \in Seq(AuthHandled) /\ inbox[q][p] \o <<>> = inbox[q][p]
    BY <2>1
  <2>3. CASE Linked(q, p)
    <3>1. inbox'[q] = [inbox[q] EXCEPT ![p] = @ \o out[q]]
      BY <1>2, <2>1, <2>3
    <3>2. inbox[q][p] \o out[q] \in Seq(AuthHandled)
      <4>1. AuthMessage \subseteq AuthHandled
        BY DEF AuthHandled
      <4>2. out[q] \in Seq(AuthHandled)
        BY <4>1
      <4>. QED BY <2>2, <4>2
    <3>. QED BY <2>1, <2>3, <3>1, <3>2
  <2>4. CASE ~Linked(q, p)
    <3>1. inbox'[q] = [inbox[q] EXCEPT ![p] = @ \o <<>>]
      BY <1>2, <2>1, <2>4
    <3>. QED BY <2>1, <2>2, <2>4, <3>1
  <2>. QED BY <2>3, <2>4
<1>4. inbox' \in [System -> [System -> Seq(AuthHandled)]] /\ inbox'[p] = rest
  <2>1. inbox'[p] = rest
    BY <1>2
  <2>2. \A q \in System : inbox'[q] \in [System -> Seq(AuthHandled)]
    BY <1>3, <2>1
  <2>3. inbox' = [q \in System |-> inbox'[q]]
    BY <1>2
  <2>. QED BY <2>1, <2>2, <2>3
<1>. QED BY <1>2, <1>3, <1>4 DEF Arrived

\* What all have to handle when p has sent at most some messages to q.
Mails(p, q, rest, sent) ==
  /\ inbox' \in [System -> [System -> Seq(AuthHandled)]] /\ linked' = linked
  /\ inbox'[p] = rest
  /\ inbox'[q][p] \in {inbox[q][p], inbox[q][p] \o sent}
  /\ \A r \in System \ {p} : \A o \in System \ {p} : inbox'[r][o] = inbox[r][o]
  /\ \A r \in System \ {p, q} : inbox'[r][p] = inbox[r][p]

\* What is passed to one system, or to none, as mail to it.
LEMMA OnlyFacts ==
  ASSUME AuthIInv, NEW p \in System, NEW q \in System \ {p}, NEW rest \in [System -> Seq(AuthHandled)]
  PROVE  /\ \A m \in AuthMessage : Passes(p, rest, Only(q, m)) => Mails(p, q, rest, <<m>>)
         /\ Passes(p, rest, Nothing) => Mails(p, q, rest, <<>>)
<1>1. inbox \in [System -> [System -> Seq(AuthHandled)]]
  BY AuthFacts
<1>2. \A r \in System : inbox[r][p] \o <<>> = inbox[r][p]
  BY <1>1
<1>3. ASSUME NEW m \in AuthMessage, Passes(p, rest, Only(q, m)) PROVE Mails(p, q, rest, <<m>>)
  <2> DEFINE out == Only(q, m)
           none == Nothing
  <2>4. none \in [System -> Seq(AuthMessage)] /\ \A r \in System : none[r] = <<>>
    BY DEF Nothing
  <2>5. out = [none EXCEPT ![q] = <<m>>] /\ <<m>> \in Seq(AuthMessage)
    BY <1>3 DEF Only
  <2> HIDE DEF none
  <2>1. /\ \A r \in System : out[r] \in Seq(AuthMessage)
        /\ out[q] = <<m>> /\ \A r \in System \ {q} : out[r] = <<>>
    BY <2>4, <2>5
  <2>2. Passes(p, rest, out)
    BY <1>3
  <2> HIDE DEF out
  <2>3. /\ inbox' \in [System -> [System -> Seq(AuthHandled)]] /\ linked' = linked
        /\ inbox'[p] = rest
        /\ \A r \in System \ {p} :
             /\ inbox'[r][p] = IF Linked(r, p) THEN inbox[r][p] \o out[r] ELSE inbox[r][p]
             /\ \A o \in System \ {p} : inbox'[r][o] = inbox[r][o]
    <3>1. Arrived(p, rest, out, AuthHandled)
      BY <2>1, <2>2, AuthPassesFacts
    <3>. QED BY <3>1 DEF Arrived
  <2>. QED BY <1>2, <2>1, <2>3 DEF Mails
<1>4. ASSUME Passes(p, rest, Nothing) PROVE Mails(p, q, rest, <<>>)
  <2> DEFINE out == Nothing
  <2>1. \A r \in System : out[r] \in Seq(AuthMessage) /\ out[r] = <<>>
    BY DEF Nothing
  <2>2. Passes(p, rest, out)
    BY <1>4
  <2> HIDE DEF out
  <2>3. /\ inbox' \in [System -> [System -> Seq(AuthHandled)]] /\ linked' = linked
        /\ inbox'[p] = rest
        /\ \A r \in System \ {p} :
             /\ inbox'[r][p] = IF Linked(r, p) THEN inbox[r][p] \o out[r] ELSE inbox[r][p]
             /\ \A o \in System \ {p} : inbox'[r][o] = inbox[r][o]
    <3>1. Arrived(p, rest, out, AuthHandled)
      BY <2>1, <2>2, AuthPassesFacts
    <3>. QED BY <3>1 DEF Arrived
  <2>. QED BY <1>2, <2>1, <2>3 DEF Mails
<1>. QED BY <1>3, <1>4

\* The next message of a system is of another, and one of those handled.
LEMMA AuthNextFacts ==
  ASSUME AuthIInv, NEW p \in System, NEW q \in System, NEW id, HasNext(p, q, id)
  PROVE  /\ q # p /\ inbox[p][q] # <<>> /\ inbox[p][q] \in Seq(AuthHandled)
         /\ Head(inbox[p][q]) \in AuthHandled /\ Head(inbox[p][q]).id = id
         /\ Head(inbox[p][q]) \in Range(inbox[p][q])
         /\ [inbox[p] EXCEPT ![q] = Tail(@)] \in [System -> Seq(AuthHandled)]
<1>1. inbox \in [System -> [System -> Seq(AuthHandled)]] /\ inbox[p][p] = <<>>
  BY AuthFacts
<1> DEFINE queue == inbox[p][q]
<1>2. queue # <<>> /\ queue \in Seq(AuthHandled) /\ Head(queue).id = id
  BY <1>1 DEF HasNext
<1> HIDE DEF queue
<1>3. Tail(queue) \in Seq(AuthHandled) /\ Head(queue) \in AuthHandled
      /\ Range(queue) = {Head(queue)} \cup Range(Tail(queue))
  BY <1>2, QueueFacts
<1>4. [inbox[p] EXCEPT ![q] = Tail(@)] \in [System -> Seq(AuthHandled)]
  BY <1>1, <1>3 DEF queue
<1>. QED BY <1>1, <1>2, <1>3, <1>4 DEF queue

\* Of which kind a message is.
LEMMA AuthKinds ==
  ASSUME NEW m \in AuthHandled
  PROVE  /\ m.id = "NONCE_REPLY" => m.requestId \in Nat
         /\ m.id = "HASHED_NONCE_AND_PASSWORD" =>
              m.requestId \in Nat /\ m.identifier \in Identifier /\ m.hash \in Nat \X Nat
         /\ m.id \in {"CHALLENGE_SUCCESS", "CHALLENGE_FAILURE"} =>
              m \in [id : {"CHALLENGE_SUCCESS", "CHALLENGE_FAILURE"}, nonce : Nat, identifier : Identifier,
                     hash : Nat \X Nat]
         /\ \A result, identifier : m \in ResultOf(result, identifier) => m.id = result
  BY DEF AuthHandled, AuthMessage, Notice, ResultOf

-----------------------------------------------------------------------------
(* What a step does to what two systems were told of each other *)

Tellings(p, told) == announced' = [announced EXCEPT ![p] = @ \o told]

Entries(told, outcome, identifier, q) == Count(told, {Told(outcome, identifier, q)})

TimesChange(p, told) ==
  \A outcome, identifier, r :
    /\ Times(p, outcome, identifier, r)' = Times(p, outcome, identifier, r) + Entries(told, outcome, identifier, r)
    /\ \A o \in System : Times(o, outcome, identifier, r) \in Nat
    /\ \A o \in System \ {p} : Times(o, outcome, identifier, r)' = Times(o, outcome, identifier, r)
    /\ Entries(told, outcome, identifier, r) \in Nat

\* What is told to p is counted for p and for nobody else.
LEMMA TimesFacts ==
  ASSUME AuthIInv, NEW p \in System, NEW told \in Seq(Announcement), Tellings(p, told)
  PROVE  TimesChange(p, told) /\ announced' \in [System -> Seq(Announcement)]
<1>1. announced \in [System -> Seq(Announcement)]
  BY AuthFacts
<1>2. /\ announced'[p] = announced[p] \o told
      /\ \A o \in System \ {p} : announced'[o] = announced[o]
  BY <1>1 DEF Tellings
<1>3. announced[p] \in Seq(Announcement)
  BY <1>1
<1>4. announced' = [announced EXCEPT ![p] = announced[p] \o told]
  BY DEF Tellings
<1>5. announced[p] \o told \in Seq(Announcement)
  BY <1>3
<1>6. announced' \in [System -> Seq(Announcement)]
  BY <1>1, <1>4, <1>5
<1>7. ASSUME NEW outcome, NEW identifier, NEW r
      PROVE  /\ Times(p, outcome, identifier, r)' =
                  Times(p, outcome, identifier, r) + Entries(told, outcome, identifier, r)
             /\ \A o \in System : Times(o, outcome, identifier, r) \in Nat
             /\ \A o \in System \ {p} : Times(o, outcome, identifier, r)' = Times(o, outcome, identifier, r)
             /\ Entries(told, outcome, identifier, r) \in Nat
  <2> DEFINE one == {Told(outcome, identifier, r)}
  <2>1. \A o : Times(o, outcome, identifier, r) = Count(announced[o], one)
        /\ Times(o, outcome, identifier, r)' = Count(announced'[o], one)
    BY DEF Times, Told
  <2>2. Entries(told, outcome, identifier, r) = Count(told, one)
    BY DEF Entries
  <2> HIDE DEF one
  <2>3. Count(announced[p] \o told, one) = Count(announced[p], one) + Count(told, one)
    BY <1>3, CountConcat
  <2>4. Count(told, one) \in Nat
    BY CountFacts
  <2>5. ASSUME NEW o \in System PROVE Count(announced[o], one) \in Nat
    <3>1. announced[o] \in Seq(Announcement)
      BY <1>1
    <3>. QED BY <3>1, CountFacts
  <2>. QED BY <1>2, <2>1, <2>2, <2>3, <2>4, <2>5
<1>. QED BY <1>6, <1>7 DEF TimesChange

\* What p takes of the results q sent it was told to it, and what it was told of
\* the challenges of q it sends to q.
Balanced(p, q, queue, sent, told, identifier) ==
  /\ Count(queue, ResultOf("CHALLENGE_SUCCESS", identifier)) + Entries(told, "CHALLENGE_SUCCESS", identifier, q)
       <= Count(inbox[p][q], ResultOf("CHALLENGE_SUCCESS", identifier))
  /\ Count(queue, ResultOf("CHALLENGE_FAILURE", identifier)) + Entries(told, "CHALLENGE_FAILURE", identifier, q)
       <= Count(inbox[p][q], ResultOf("CHALLENGE_FAILURE", identifier))
  /\ Count(sent, ResultOf("CHALLENGE_SUCCESS", identifier)) <= Entries(told, "INCOMING_SUCCESS", identifier, q)
  /\ Count(sent, ResultOf("CHALLENGE_FAILURE", identifier)) <= Entries(told, "INCOMING_FAILURE", identifier, q)
  /\ Entries(told, "INCOMING_SUCCESS", identifier, q) > 0 =>
       PasswordOf[p][identifier] = PasswordOf[q][identifier]

\* And of others it is told nothing but that its challenges timed out.
Silent(told, identifier, r) ==
  /\ Entries(told, "CHALLENGE_SUCCESS", identifier, r) = 0
  /\ Entries(told, "CHALLENGE_FAILURE", identifier, r) = 0
  /\ Entries(told, "INCOMING_SUCCESS", identifier, r) = 0
  /\ Entries(told, "INCOMING_FAILURE", identifier, r) = 0

HashIsTrue(m, p) ==
  m.id = "HASHED_NONCE_AND_PASSWORD" =>
    m.identifier \in DOMAIN PasswordOf[p] /\ m.hash = Hash(m.requestId, p, m.identifier)

StepOfAuth(p, q, rest, sent, told) ==
  /\ rest \in [System -> Seq(AuthHandled)] /\ sent \in Seq(AuthHandled) /\ told \in Seq(Announcement)
  /\ Mails(p, q, rest, sent) /\ Tellings(p, told)
  /\ \A r \in System \ {q} : rest[r] = inbox[p][r]
  /\ Range(rest[q]) \subseteq Range(inbox[p][q])
  /\ \A m \in Range(sent) : HashIsTrue(m, p)
  /\ \A identifier \in Identifier :
       /\ Balanced(p, q, rest[q], sent, told, identifier)
       /\ \A r \in System \ {q} : Silent(told, identifier, r)

PairsAgree ==
  \A p \in System : \A q \in System \ {p} :
    HashesAreTrue(p, q) /\ \A identifier \in Identifier : ResultsAreTrue(p, q, identifier)

\* A pair whose queue and announcements are the same.
LEMMA PairKeeps ==
  ASSUME NEW a, NEW b, PairsAgree, a \in System, b \in System \ {a}, inbox'[a][b] = inbox[a][b],
         \A identifier \in Identifier :
           /\ Times(a, "CHALLENGE_SUCCESS", identifier, b)' = Times(a, "CHALLENGE_SUCCESS", identifier, b)
           /\ Times(a, "CHALLENGE_FAILURE", identifier, b)' = Times(a, "CHALLENGE_FAILURE", identifier, b)
           /\ Times(b, "INCOMING_SUCCESS", identifier, a)' = Times(b, "INCOMING_SUCCESS", identifier, a)
           /\ Times(b, "INCOMING_FAILURE", identifier, a)' = Times(b, "INCOMING_FAILURE", identifier, a)
  PROVE  (HashesAreTrue(a, b) /\ \A identifier \in Identifier : ResultsAreTrue(a, b, identifier))'
<1>1. HashesAreTrue(a, b)'
  BY DEF PairsAgree, HashesAreTrue, Hash
<1>2. ASSUME NEW identifier \in Identifier PROVE ResultsAreTrue(a, b, identifier)'
  BY DEF PairsAgree, ResultsAreTrue
<1>. QED BY <1>1, <1>2

\* A handler that tells and sends as StepOfAuth says keeps what pairs agree on.
LEMMA StepOfAuthKeeps ==
  ASSUME AuthIInv, NEW p \in System, NEW q \in System \ {p}, NEW rest, NEW sent, NEW told,
         StepOfAuth(p, q, rest, sent, told)
  PROVE  PairsAgree'
<1>1. PairsAgree /\ inbox \in [System -> [System -> Seq(AuthHandled)]]
  BY AuthFacts DEF AuthIInv, PairsAgree
<1>2. Mails(p, q, rest, sent) /\ Tellings(p, told) /\ told \in Seq(Announcement) /\ sent \in Seq(AuthHandled)
  BY DEF StepOfAuth
<1>3. /\ inbox'[p][q] = rest[q] /\ \A r \in System \ {q} : inbox'[p][r] = inbox[p][r]
      /\ inbox'[q][p] \in {inbox[q][p], inbox[q][p] \o sent}
      /\ \A r \in System \ {p} : \A o \in System \ {p} : inbox'[r][o] = inbox[r][o]
      /\ \A r \in System \ {p, q} : inbox'[r][p] = inbox[r][p]
  BY <1>2 DEF StepOfAuth, Mails
<1>4. /\ \A outcome, identifier, r :
           /\ Times(p, outcome, identifier, r)' =
                Times(p, outcome, identifier, r) + Entries(told, outcome, identifier, r)
           /\ Entries(told, outcome, identifier, r) \in Nat
      /\ \A outcome, identifier, r : \A o \in System :
           Times(o, outcome, identifier, r) \in Nat
      /\ \A outcome, identifier, r : \A o \in System \ {p} :
           Times(o, outcome, identifier, r)' = Times(o, outcome, identifier, r)
  <2>1. TimesChange(p, told)
    BY <1>2, TimesFacts
  <2>. QED BY <2>1 DEF TimesChange
<1>5. \A identifier \in Identifier : \A r \in System \ {q} : Silent(told, identifier, r)
  BY DEF StepOfAuth
<1>6. ASSUME NEW a \in System, NEW b \in System \ {a}, {a, b} # {p, q}
      PROVE  (HashesAreTrue(a, b) /\ \A identifier \in Identifier : ResultsAreTrue(a, b, identifier))'
  <2>1. inbox'[a][b] = inbox[a][b]
    BY <1>3, <1>6
  <2>2. ASSUME NEW identifier \in Identifier
        PROVE  /\ Times(a, "CHALLENGE_SUCCESS", identifier, b)' = Times(a, "CHALLENGE_SUCCESS", identifier, b)
               /\ Times(a, "CHALLENGE_FAILURE", identifier, b)' = Times(a, "CHALLENGE_FAILURE", identifier, b)
               /\ Times(b, "INCOMING_SUCCESS", identifier, a)' = Times(b, "INCOMING_SUCCESS", identifier, a)
               /\ Times(b, "INCOMING_FAILURE", identifier, a)' = Times(b, "INCOMING_FAILURE", identifier, a)
    <3>1. (a = p => Silent(told, identifier, b)) /\ (b = p => Silent(told, identifier, a))
      BY <1>5, <1>6
    <3>2. CASE a = p
      BY <1>4, <3>1, <3>2 DEF Silent
    <3>3. CASE b = p
      BY <1>4, <3>1, <3>3 DEF Silent
    <3>4. CASE a # p /\ b # p
      BY <1>4, <3>4
    <3>. QED BY <3>2, <3>3, <3>4
  <2>. QED BY <1>1, <2>1, <2>2, PairKeeps
<1>7. ASSUME NEW identifier \in Identifier PROVE ResultsAreTrue(p, q, identifier)'
  <2>1. ResultsAreTrue(p, q, identifier) /\ Balanced(p, q, rest[q], sent, told, identifier)
    BY <1>1 DEF PairsAgree, StepOfAuth
  <2>2. \A result : Count(rest[q], ResultOf(result, identifier)) \in Nat
                    /\ Count(inbox[p][q], ResultOf(result, identifier)) \in Nat
    <3>1. rest[q] \in Seq(AuthHandled) /\ inbox[p][q] \in Seq(AuthHandled)
      BY <1>1 DEF StepOfAuth
    <3>. QED BY <3>1, CountFacts
  <2>3. /\ Times(q, "INCOMING_SUCCESS", identifier, p)' = Times(q, "INCOMING_SUCCESS", identifier, p)
        /\ Times(q, "INCOMING_FAILURE", identifier, p)' = Times(q, "INCOMING_FAILURE", identifier, p)
        /\ Times(q, "INCOMING_SUCCESS", identifier, p) \in Nat
        /\ Times(q, "INCOMING_FAILURE", identifier, p) \in Nat
        /\ Times(p, "CHALLENGE_SUCCESS", identifier, q) \in Nat
        /\ Times(p, "CHALLENGE_FAILURE", identifier, q) \in Nat
    BY <1>4
  <2>4. /\ Times(p, "CHALLENGE_SUCCESS", identifier, q)' =
             Times(p, "CHALLENGE_SUCCESS", identifier, q) + Entries(told, "CHALLENGE_SUCCESS", identifier, q)
        /\ Times(p, "CHALLENGE_FAILURE", identifier, q)' =
             Times(p, "CHALLENGE_FAILURE", identifier, q) + Entries(told, "CHALLENGE_FAILURE", identifier, q)
        /\ Entries(told, "CHALLENGE_SUCCESS", identifier, q) \in Nat
        /\ Entries(told, "CHALLENGE_FAILURE", identifier, q) \in Nat
    BY <1>4
  <2>5. /\ Times(p, "CHALLENGE_SUCCESS", identifier, q)' + Count(rest[q], ResultOf("CHALLENGE_SUCCESS", identifier))
             <= Times(q, "INCOMING_SUCCESS", identifier, p)'
        /\ Times(p, "CHALLENGE_FAILURE", identifier, q)' + Count(rest[q], ResultOf("CHALLENGE_FAILURE", identifier))
             <= Times(q, "INCOMING_FAILURE", identifier, p)'
    BY <2>1, <2>2, <2>3, <2>4 DEF ResultsAreTrue, Balanced
  <2>6. Times(q, "INCOMING_SUCCESS", identifier, p)' > 0 => PasswordOf[p][identifier] = PasswordOf[q][identifier]
    BY <2>1, <2>3 DEF ResultsAreTrue
  <2>. QED BY <1>3, <2>5, <2>6 DEF ResultsAreTrue, ResultOf
<1>8. ASSUME NEW identifier \in Identifier PROVE ResultsAreTrue(q, p, identifier)'
  <2>1. ResultsAreTrue(q, p, identifier) /\ Balanced(p, q, rest[q], sent, told, identifier)
    BY <1>1 DEF PairsAgree, StepOfAuth
  <2>2. ASSUME NEW result
        PROVE  /\ Count(inbox'[q][p], ResultOf(result, identifier)) <=
                    Count(inbox[q][p], ResultOf(result, identifier)) + Count(sent, ResultOf(result, identifier))
               /\ Count(inbox'[q][p], ResultOf(result, identifier)) \in Nat
               /\ Count(inbox[q][p], ResultOf(result, identifier)) \in Nat
               /\ Count(sent, ResultOf(result, identifier)) \in Nat
    <3> DEFINE those == ResultOf(result, identifier)
               had == inbox[q][p]
               has == inbox'[q][p]
    <3>1. had \in Seq(AuthHandled) /\ has \in Seq(AuthHandled) /\ has \in {had, had \o sent}
      BY <1>1, <1>2, <1>3 DEF Mails
    <3> HIDE DEF those, had, has
    <3>2. Count(had \o sent, those) = Count(had, those) + Count(sent, those)
      BY <1>2, <3>1, CountConcat
    <3>3. Count(had, those) \in Nat /\ Count(sent, those) \in Nat /\ Count(has, those) \in Nat
      BY <1>2, <3>1, CountFacts
    <3>4. Count(has, those) <= Count(had, those) + Count(sent, those)
      <4>1. CASE has = had
        BY <3>3, <4>1
      <4>2. CASE has = had \o sent
        <5>1. Count(has, those) = Count(had, those) + Count(sent, those)
          BY <3>2, <4>2
        <5>. QED BY <3>3, <5>1
      <4>. QED BY <3>1, <4>1, <4>2
    <3>. QED BY <3>3, <3>4 DEF those, had, has
  <2>3. /\ Times(q, "CHALLENGE_SUCCESS", identifier, p)' = Times(q, "CHALLENGE_SUCCESS", identifier, p)
        /\ Times(q, "CHALLENGE_FAILURE", identifier, p)' = Times(q, "CHALLENGE_FAILURE", identifier, p)
        /\ Times(q, "CHALLENGE_SUCCESS", identifier, p) \in Nat
        /\ Times(q, "CHALLENGE_FAILURE", identifier, p) \in Nat
    BY <1>4
  <2>4. /\ Count(inbox'[q][p], ResultOf("CHALLENGE_SUCCESS", identifier)) <=
             Count(inbox[q][p], ResultOf("CHALLENGE_SUCCESS", identifier))
               + Entries(told, "INCOMING_SUCCESS", identifier, q)
        /\ Count(inbox'[q][p], ResultOf("CHALLENGE_FAILURE", identifier)) <=
             Count(inbox[q][p], ResultOf("CHALLENGE_FAILURE", identifier))
               + Entries(told, "INCOMING_FAILURE", identifier, q)
    BY <1>4, <2>1, <2>2 DEF Balanced
  <2>5. /\ Times(q, "CHALLENGE_SUCCESS", identifier, p) + Count(inbox[q][p], ResultOf("CHALLENGE_SUCCESS", identifier))
             <= Times(p, "INCOMING_SUCCESS", identifier, q)
        /\ Times(q, "CHALLENGE_FAILURE", identifier, p) + Count(inbox[q][p], ResultOf("CHALLENGE_FAILURE", identifier))
             <= Times(p, "INCOMING_FAILURE", identifier, q)
    BY <2>1 DEF ResultsAreTrue
  <2>6. Times(p, "INCOMING_SUCCESS", identifier, q)' > 0 => PasswordOf[q][identifier] = PasswordOf[p][identifier]
    BY <1>4, <2>1 DEF ResultsAreTrue, Balanced
  <2>7. /\ Times(q, "CHALLENGE_SUCCESS", identifier, p)' + Count(inbox'[q][p], ResultOf("CHALLENGE_SUCCESS", identifier))
             <= Times(p, "INCOMING_SUCCESS", identifier, q)'
        /\ Times(q, "CHALLENGE_FAILURE", identifier, p)' + Count(inbox'[q][p], ResultOf("CHALLENGE_FAILURE", identifier))
             <= Times(p, "INCOMING_FAILURE", identifier, q)'
    BY <1>4, <2>2, <2>3, <2>4, <2>5
  <2>. QED BY <2>6, <2>7 DEF ResultsAreTrue, ResultOf
<1>9. HashesAreTrue(p, q)'
  <2>1. HashesAreTrue(p, q) /\ Range(inbox'[p][q]) \subseteq Range(inbox[p][q])
    BY <1>1, <1>3 DEF PairsAgree, StepOfAuth
  <2>. QED BY <2>1 DEF HashesAreTrue, Hash
<1>10. HashesAreTrue(q, p)'
  <2> DEFINE had == inbox[q][p]
             has == inbox'[q][p]
  <2>1. had \in Seq(AuthHandled) /\ has \in {had, had \o sent}
    BY <1>1, <1>3
  <2>2. \A m \in Range(had) : HashIsTrue(m, p)
    BY <1>1 DEF PairsAgree, HashesAreTrue, HashIsTrue
  <2>3. \A m \in Range(sent) : HashIsTrue(m, p)
    BY DEF StepOfAuth
  <2> HIDE DEF had, has
  <2>4. Range(had \o sent) = Range(had) \cup Range(sent)
    BY <1>2, <2>1, QueueFacts
  <2>5. \A m \in Range(has) : HashIsTrue(m, p)
    BY <2>1, <2>2, <2>3, <2>4
  <2>. QED BY <2>5 DEF HashesAreTrue, HashIsTrue, has, Hash
<1>11. ASSUME NEW a \in System, NEW b \in System \ {a}, {a, b} = {p, q}
       PROVE  (HashesAreTrue(a, b) /\ \A identifier \in Identifier : ResultsAreTrue(a, b, identifier))'
  <2>1. (a = p /\ b = q) \/ (a = q /\ b = p)
    BY <1>11
  <2>. QED BY <1>7, <1>8, <1>9, <1>10, <2>1
<1>. QED BY <1>6, <1>11 DEF PairsAgree

-----------------------------------------------------------------------------
(* Lists of challenges and nonces *)

\* The first of the places where something holds is 0 or one of them.
LEMMA FirstFacts ==
  ASSUME NEW n \in Nat, NEW S, S \subseteq 1 .. n
  PROVE  LET i == IF S # {} THEN Min(S) ELSE 0 IN i # 0 => i \in S
<1>1. S \subseteq Nat
  OBVIOUS
<1>2. S # {} => \E x \in S : \A y \in S : x <= y
  BY <1>1, LeastNumber
<1>3. S # {} => Min(S) \in S
  BY <1>2 DEF Min
<1>. QED BY <1>3

\* A list after an entry is removed from it, or the first ones are.
LEMMA ListFacts ==
  ASSUME NEW M, NEW list \in Seq(M)
  PROVE  /\ \A i \in 1 .. Len(list) :
              /\ RemoveAt(list, i) \in Seq(M) /\ Len(RemoveAt(list, i)) = Len(list) - 1
              /\ Range(RemoveAt(list, i)) \subseteq Range(list)
         /\ \A i \in 1 .. Len(list) :
              /\ SubSeq(list, i + 1, Len(list)) \in Seq(M)
              /\ Len(SubSeq(list, i + 1, Len(list))) = Len(list) - i
              /\ Range(SubSeq(list, i + 1, Len(list))) \subseteq Range(list)
         /\ \A m \in M : /\ Append(list, m) \in Seq(M) /\ Len(Append(list, m)) = Len(list) + 1
                         /\ Range(Append(list, m)) \subseteq Range(list) \cup {m}
         /\ \A i \in 1 .. Len(list), m \in M :
              /\ [list EXCEPT ![i] = m] \in Seq(M) /\ Len([list EXCEPT ![i] = m]) = Len(list)
              /\ Range([list EXCEPT ![i] = m]) \subseteq Range(list) \cup {m}
<1> DEFINE n == Len(list)
<1>1. n \in Nat /\ DOMAIN list = 1 .. n /\ \A i \in 1 .. n : list[i] \in Range(list)
  BY DEF Range
<1>2. ASSUME NEW i \in 1 .. n, NEW j \in 0 .. n
      PROVE  /\ SubSeq(list, 1, j) \in Seq(M) /\ Len(SubSeq(list, 1, j)) = j
             /\ Range(SubSeq(list, 1, j)) \subseteq Range(list)
             /\ SubSeq(list, i + 1, n) \in Seq(M) /\ Len(SubSeq(list, i + 1, n)) = n - i
             /\ Range(SubSeq(list, i + 1, n)) \subseteq Range(list)
  <2> DEFINE begun == SubSeq(list, 1, j)
             rest == SubSeq(list, i + 1, n)
  <2>1. /\ begun \in Seq(M) /\ Len(begun) = j /\ DOMAIN begun = 1 .. j
        /\ \A k \in 1 .. j : begun[k] = list[k]
    BY <1>1
  <2>2. /\ rest \in Seq(M) /\ Len(rest) = n - i /\ DOMAIN rest = 1 .. n - i
        /\ \A k \in 1 .. n - i : rest[k] = list[k + i]
    <3> DEFINE a == i + 1
    <3> HIDE DEF n
    <3>1. a \in 1 .. n + 1 /\ a \in Int /\ rest = SubSeq(list, a, n)
      BY <1>1
    <3>2. (a <= n => n - a + 1 = n - i) /\ (~(a <= n) => n - i = 0) /\ n - i = n - a + 1
      BY <1>1
    <3>3. \A k \in Int : a + k - 1 = k + i
      BY <1>1
    <3> HIDE DEF a, rest
    <3>4. /\ rest \in Seq(M) /\ Len(rest) = IF a <= n THEN n - a + 1 ELSE 0
          /\ \A k \in 1 .. n - a + 1 : rest[k] = list[a + k - 1]
      <4>1. \A k \in a .. n : list[k] \in M
        BY <1>1, <3>1
      <4>. QED BY <1>1, <3>1, <4>1, SubSeqProperties
    <3>5. Len(rest) = n - i
      BY <3>2, <3>4
    <3>6. \A k \in 1 .. n - i : rest[k] = list[k + i]
      BY <3>2, <3>3, <3>4
    <3>. QED BY <3>4, <3>5, <3>6
  <2> HIDE DEF begun, rest, n
  <2>3. Range(begun) \subseteq Range(list)
    <3>1. \A k \in 1 .. j : begun[k] \in Range(list)
      BY <1>1, <2>1
    <3>. QED BY <2>1, <3>1 DEF Range
  <2>4. Range(rest) \subseteq Range(list)
    <3>1. \A k \in 1 .. n - i : k + i \in 1 .. n
      BY <1>1
    <3>2. \A k \in 1 .. n - i : rest[k] \in Range(list)
      BY <1>1, <2>2, <3>1
    <3>. QED BY <2>2, <3>2 DEF Range
  <2>. QED BY <2>1, <2>2, <2>3, <2>4 DEF begun, rest
<1>3. ASSUME NEW i \in 1 .. n
      PROVE  /\ RemoveAt(list, i) \in Seq(M) /\ Len(RemoveAt(list, i)) = n - 1
             /\ Range(RemoveAt(list, i)) \subseteq Range(list)
  <2> DEFINE begun == SubSeq(list, 1, i - 1)
             rest == SubSeq(list, i + 1, n)
  <2>1. RemoveAt(list, i) = begun \o rest
    BY DEF RemoveAt
  <2>2. i - 1 \in 0 .. n
    BY <1>1
  <2>3. /\ begun \in Seq(M) /\ Len(begun) = i - 1 /\ Range(begun) \subseteq Range(list)
        /\ rest \in Seq(M) /\ Len(rest) = n - i /\ Range(rest) \subseteq Range(list)
    BY <1>2, <2>2
  <2> HIDE DEF begun, rest
  <2>4. begun \o rest \in Seq(M) /\ Len(begun \o rest) = Len(begun) + Len(rest)
    BY <2>3
  <2>5. Range(begun \o rest) = Range(begun) \cup Range(rest)
    BY <2>3, QueueFacts
  <2>6. Len(begun) + Len(rest) = n - 1
    BY <1>1, <2>3
  <2>. QED BY <2>1, <2>3, <2>4, <2>5, <2>6
<1>4. ASSUME NEW m \in M
      PROVE  /\ Append(list, m) \in Seq(M) /\ Len(Append(list, m)) = n + 1
             /\ Range(Append(list, m)) \subseteq Range(list) \cup {m}
  <2> DEFINE long == Append(list, m)
  <2>1. /\ long \in Seq(M) /\ Len(long) = n + 1 /\ DOMAIN long = 1 .. n + 1
        /\ long[n + 1] = m /\ \A i \in 1 .. n : long[i] = list[i]
    BY <1>1
  <2> HIDE DEF long, n
  <2>2. \A i \in 1 .. n + 1 : i \in 1 .. n \/ i = n + 1
    BY <1>1
  <2>3. \A i \in 1 .. n + 1 : long[i] \in Range(list) \cup {m}
    BY <1>1, <2>1, <2>2
  <2>4. Range(long) \subseteq Range(list) \cup {m}
    BY <2>1, <2>3 DEF Range
  <2>. QED BY <2>1, <2>4 DEF long
<1>5. ASSUME NEW i \in 1 .. n, NEW m \in M
      PROVE  /\ [list EXCEPT ![i] = m] \in Seq(M) /\ Len([list EXCEPT ![i] = m]) = n
             /\ Range([list EXCEPT ![i] = m]) \subseteq Range(list) \cup {m}
  <2> DEFINE new == [list EXCEPT ![i] = m]
  <2>1. /\ new \in Seq(M) /\ Len(new) = n /\ DOMAIN new = 1 .. n
        /\ \A j \in 1 .. n : new[j] = m \/ new[j] = list[j]
    BY <1>1
  <2> HIDE DEF new, n
  <2>2. \A j \in 1 .. n : new[j] \in Range(list) \cup {m}
    BY <1>1, <2>1
  <2>3. Range(new) \subseteq Range(list) \cup {m}
    BY <2>1, <2>2 DEF Range
  <2>. QED BY <2>1, <2>3 DEF new
<1>6. \A i \in 1 .. n : 
        /\ SubSeq(list, i + 1, n) \in Seq(M) /\ Len(SubSeq(list, i + 1, n)) = n - i
        /\ Range(SubSeq(list, i + 1, n)) \subseteq Range(list)
  <2>1. 0 \in 0 .. n
    BY <1>1
  <2>. QED BY <1>2, <2>1
<1>. QED BY <1>3, <1>4, <1>5, <1>6

-----------------------------------------------------------------------------
(* The parts of the invariant *)

BoxesOK ==
  /\ linked \subseteq AllPairs /\ inbox \in [System -> [System -> Seq(AuthHandled)]]
  /\ \A p \in System : inbox[p][p] = <<>>

IsOwn(p, c) == c.identifier \in passwords[p] /\ c.remoteSystem # p
IsMade(p, n) == n.remoteSystem # p /\ n.requestId < nextRequestId[p]

BooksOK ==
  /\ outgoingChallenges \in [System -> Seq(Pending)] /\ generatedNonces \in [System -> Seq(Nonce)]
  /\ nextRequestId \in [System -> Nat]
  /\ passwords \in [System -> SUBSET Identifier]
  /\ challenges \in [System -> [left : Nat, made : Nat, lost : Nat]]
  /\ \A p \in System :
       /\ passwords[p] \subseteq DOMAIN PasswordOf[p]
       /\ \A c \in Range(outgoingChallenges[p]) : IsOwn(p, c)
       /\ \A n \in Range(generatedNonces[p]) : IsMade(p, n)

\* The invariant, as what the messages, the books and the pairs say.
LEMMA PartsOfAuth ==
  AuthIInv <=> /\ BoxesOK /\ BooksOK /\ PairsAgree /\ announced \in [System -> Seq(Announcement)]
               /\ \A p \in System : ChallengesCounted(p)
<1>1. LinksTypeOK(AuthMessage) <=>
        linked \subseteq AllPairs /\ inbox \in [System -> [System -> Seq(AuthHandled)]]
  BY DEF LinksTypeOK, AuthHandled
<1>2. \A p : (\A c \in Range(outgoingChallenges[p]) : IsOwn(p, c)) <=>
               \A i \in DOMAIN outgoingChallenges[p] :
                 /\ outgoingChallenges[p][i].identifier \in passwords[p]
                 /\ outgoingChallenges[p][i].remoteSystem # p
  BY DEF Range, IsOwn
<1>3. \A p : (\A n \in Range(generatedNonces[p]) : IsMade(p, n)) <=>
               \A i \in DOMAIN generatedNonces[p] :
                 generatedNonces[p][i].remoteSystem # p /\ generatedNonces[p][i].requestId < nextRequestId[p]
  BY DEF Range, IsMade
<1>. QED BY <1>1, <1>2, <1>3 DEF AuthIInv, AuthTypeOK, BoxesOK, BooksOK, PairsAgree

\* It keeps the types of queues and announcements as well.
LEMMA StepOfAuthFacts ==
  ASSUME AuthIInv, NEW p \in System, NEW q \in System \ {p}, NEW rest, NEW sent, NEW told,
         StepOfAuth(p, q, rest, sent, told)
  PROVE  BoxesOK' /\ announced' \in [System -> Seq(Announcement)] /\ PairsAgree'
<1>1. announced' \in [System -> Seq(Announcement)]
  BY TimesFacts DEF StepOfAuth
<1>2. BoxesOK
  BY PartsOfAuth
<1>3. /\ inbox' \in [System -> [System -> Seq(AuthHandled)]] /\ linked' = linked
      /\ inbox'[p] = rest /\ rest[p] = inbox[p][p]
      /\ \A r \in System \ {p} : inbox'[r][r] = inbox[r][r]
  BY DEF StepOfAuth, Mails
<1>4. BoxesOK'
  <2>1. \A r \in System : inbox'[r][r] = <<>>
    BY <1>2, <1>3 DEF BoxesOK
  <2>. QED BY <1>2, <1>3, <2>1 DEF BoxesOK
<1>. QED BY <1>1, <1>4, StepOfAuthKeeps

-----------------------------------------------------------------------------
(* Steps of authentication *)

Ended == {"CHALLENGE_SUCCESS", "CHALLENGE_FAILURE", "CHALLENGE_TIMEOUT"} \X Identifier \X System

\* What the systems have noted, when p alone has changed it.
LEMMA BooksKeep ==
  ASSUME AuthIInv, NEW p \in System, passwords' = passwords,
         outgoingChallenges' \in [System -> Seq(Pending)], generatedNonces' \in [System -> Seq(Nonce)],
         nextRequestId' \in [System -> Nat], challenges' \in [System -> [left : Nat, made : Nat, lost : Nat]],
         \A o \in System \ {p} :
           /\ outgoingChallenges'[o] = outgoingChallenges[o] /\ generatedNonces'[o] = generatedNonces[o]
           /\ nextRequestId'[o] = nextRequestId[o],
         \A c \in Range(outgoingChallenges'[p]) : IsOwn(p, c),
         \A n \in Range(generatedNonces'[p]) : n.remoteSystem # p /\ n.requestId < nextRequestId'[p]
  PROVE  BooksOK'
<1>1. BooksOK
  BY PartsOfAuth
<1>2. ASSUME NEW o \in System
      PROVE  /\ passwords[o] \subseteq DOMAIN PasswordOf[o]
             /\ \A c \in Range(outgoingChallenges'[o]) : IsOwn(o, c)
             /\ \A n \in Range(generatedNonces'[o]) : n.remoteSystem # o /\ n.requestId < nextRequestId'[o]
  <2>1. CASE o = p
    BY <1>1, <2>1 DEF BooksOK
  <2>2. CASE o # p
    BY <1>1, <2>2 DEF BooksOK, IsMade
  <2>. QED BY <2>1, <2>2
<1>3. passwords' \in [System -> SUBSET Identifier]
  BY <1>1 DEF BooksOK
<1>4. \A o \in System :
        /\ passwords'[o] \subseteq DOMAIN PasswordOf[o]
        /\ \A c \in Range(outgoingChallenges'[o]) : c.identifier \in passwords'[o] /\ c.remoteSystem # o
        /\ \A n \in Range(generatedNonces'[o]) : n.remoteSystem # o /\ n.requestId < nextRequestId'[o]
  BY <1>2 DEF IsOwn
<1>. QED BY <1>3, <1>4 DEF BooksOK, IsOwn, IsMade

\* How many challenges there are, when p alone has made or ended one.
LEMMA CountedKeeps ==
  ASSUME AuthIInv, NEW p \in System, NEW told \in Seq(Announcement), Tellings(p, told),
         outgoingChallenges'[p] \in Seq(Pending), challenges'[p] \in [left : Nat, made : Nat, lost : Nat],
         \A o \in System \ {p} :
           outgoingChallenges'[o] = outgoingChallenges[o] /\ challenges'[o] = challenges[o],
         challenges'[p].made + challenges[p].lost + Len(outgoingChallenges[p]) =
           challenges[p].made + challenges'[p].lost + Len(outgoingChallenges'[p]) + Count(told, Ended)
  PROVE  \A o \in System : ChallengesCounted(o)'
<1>1. /\ announced \in [System -> Seq(Announcement)] /\ outgoingChallenges \in [System -> Seq(Pending)]
      /\ challenges \in [System -> [left : Nat, made : Nat, lost : Nat]]
      /\ \A o \in System : ChallengesCounted(o)
  BY AuthFacts DEF AuthIInv
<1>2. /\ announced'[p] = announced[p] \o told
      /\ \A o \in System \ {p} : announced'[o] = announced[o]
  BY <1>1 DEF Tellings
<1>3. \A o : /\ Outcomes(o, {"CHALLENGE_SUCCESS", "CHALLENGE_FAILURE", "CHALLENGE_TIMEOUT"})
                  = Count(announced[o], Ended)
             /\ Outcomes(o, {"CHALLENGE_SUCCESS", "CHALLENGE_FAILURE", "CHALLENGE_TIMEOUT"})'
                  = Count(announced'[o], Ended)
  BY DEF Outcomes, Ended
<1>4. announced[p] \in Seq(Announcement)
  BY <1>1
<1>5. Count(announced[p] \o told, Ended) = Count(announced[p], Ended) + Count(told, Ended)
  BY <1>4, CountConcat
<1>6. Count(announced[p], Ended) \in Nat /\ Count(told, Ended) \in Nat
  BY <1>4, CountFacts
<1>7. ASSUME NEW o \in System \ {p} PROVE ChallengesCounted(o)'
  BY <1>1, <1>2, <1>3 DEF ChallengesCounted
<1>8. ChallengesCounted(p)'
  <2>1. challenges[p].made = challenges[p].lost + Len(outgoingChallenges[p]) + Count(announced[p], Ended)
    BY <1>1, <1>3 DEF ChallengesCounted
  <2>2. /\ challenges[p].made \in Nat /\ challenges[p].lost \in Nat /\ challenges'[p].made \in Nat
        /\ challenges'[p].lost \in Nat /\ Len(outgoingChallenges[p]) \in Nat /\ Len(outgoingChallenges'[p]) \in Nat
    BY <1>1
  <2>3. challenges'[p].made = challenges'[p].lost + Len(outgoingChallenges'[p]) + Count(announced'[p], Ended)
    <3> DEFINE made == challenges[p].made
               lost == challenges[p].lost
               pending == Len(outgoingChallenges[p])
               over == Count(announced[p], Ended)
               made2 == challenges'[p].made
               lost2 == challenges'[p].lost
               pending2 == Len(outgoingChallenges'[p])
               more == Count(told, Ended)
    <3>1. made = lost + pending + over /\ made2 + lost + pending = made + lost2 + pending2 + more
      BY <2>1
    <3>2. made \in Nat /\ lost \in Nat /\ pending \in Nat /\ over \in Nat
          /\ made2 \in Nat /\ lost2 \in Nat /\ pending2 \in Nat /\ more \in Nat
      BY <1>6, <2>2
    <3>3. Count(announced'[p], Ended) = over + more
      BY <1>2, <1>5
    <3> HIDE DEF made, lost, pending, over, made2, lost2, pending2, more
    <3>4. made2 = lost2 + pending2 + (over + more)
      BY <3>1, <3>2
    <3>. QED BY <3>3, <3>4 DEF made2, lost2, pending2
  <2>. QED BY <1>3, <2>3 DEF ChallengesCounted
<1>. QED BY <1>7, <1>8

\* Nothing is told.
LEMMA NothingTold ==
  ASSUME AuthIInv, NEW p \in System, announced' = announced
  PROVE  /\ Tellings(p, <<>>) /\ <<>> \in Seq(Announcement) /\ Count(<<>>, Ended) = 0
         /\ \A outcome, identifier, r : Entries(<<>>, outcome, identifier, r) = 0
<1> DEFINE none == <<>>
<1>1. announced \in [System -> Seq(Announcement)]
  BY AuthFacts
<1>2. announced[p] \o none = announced[p] /\ none \in Seq(Announcement)
  BY <1>1
<1>3. Tellings(p, none)
  BY <1>1, <1>2 DEF Tellings
<1>4. none \in Seq({0}) /\ Len(none) = 0
  OBVIOUS
<1> HIDE DEF none
<1>5. ASSUME NEW S PROVE Count(none, S) = 0
  <2>1. \A i \in 1 .. Len(none) : none[i] \notin S
    BY <1>4
  <2>. QED BY <1>2, <1>4, <2>1, CountFacts
<1>. QED BY <1>2, <1>3, <1>5 DEF none, Entries

\* What p has left to handle, when at most the first message of q is taken.
TakesFrom(p, q, rest) ==
  /\ rest \in [System -> Seq(AuthHandled)]
  /\ \A r \in System \ {q} : rest[r] = inbox[p][r]
  /\ rest[q] = inbox[p][q] \/ (inbox[p][q] # <<>> /\ rest[q] = Tail(inbox[p][q]))

\* What is left of a queue was in it, and is counted no more often.
LEMMA TakesFacts ==
  ASSUME AuthIInv, NEW p \in System, NEW q \in System, NEW rest, TakesFrom(p, q, rest)
  PROVE  /\ Range(rest[q]) \subseteq Range(inbox[p][q])
         /\ \A S : /\ Count(rest[q], S) <= Count(inbox[p][q], S)
                   /\ Count(rest[q], S) \in Nat /\ Count(inbox[p][q], S) \in Nat
<1> DEFINE had == inbox[p][q]
           has == rest[q]
<1>1. had \in Seq(AuthHandled) /\ has \in Seq(AuthHandled)
  BY AuthFacts DEF TakesFrom
<1>2. has = had \/ (had # <<>> /\ has = Tail(had))
  BY DEF TakesFrom
<1> HIDE DEF had, has
<1>3. Range(has) \subseteq Range(had)
  <2>1. ASSUME had # <<>> PROVE Range(had) = {Head(had)} \cup Range(Tail(had))
    BY <1>1, <2>1, QueueFacts
  <2>. QED BY <1>2, <2>1
<1>4. ASSUME NEW S PROVE Count(has, S) <= Count(had, S) /\ Count(has, S) \in Nat /\ Count(had, S) \in Nat
  <2>1. Count(has, S) \in Nat /\ Count(had, S) \in Nat
    BY <1>1, CountFacts
  <2>2. CASE has = had
    BY <2>1, <2>2
  <2>3. CASE had # <<>> /\ has = Tail(had)
    <3>1. Count(had, S) = Count(has, S) + IF Head(had) \in S THEN 1 ELSE 0
      BY <1>1, <2>3, CountRest
    <3>. QED BY <2>1, <3>1
  <2>. QED BY <1>2, <2>1, <2>2, <2>3
<1>. QED BY <1>3, <1>4 DEF had, has

\* A handler that tells nothing and sends no result, and no untrue hash.
LEMMA QuietStep ==
  ASSUME AuthIInv, NEW p \in System, NEW q \in System \ {p}, NEW rest, TakesFrom(p, q, rest),
         NEW sent \in Seq(AuthHandled), Mails(p, q, rest, sent), announced' = announced,
         \A m \in Range(sent) : HashIsTrue(m, p) /\ m.id \notin {"CHALLENGE_SUCCESS", "CHALLENGE_FAILURE"}
  PROVE  StepOfAuth(p, q, rest, sent, <<>>)
<1> DEFINE told == <<>>
<1>1. /\ Tellings(p, told) /\ told \in Seq(Announcement)
      /\ \A outcome, identifier, r : Entries(told, outcome, identifier, r) = 0
  BY NothingTold
<1>2. /\ Range(rest[q]) \subseteq Range(inbox[p][q])
      /\ \A S : /\ Count(rest[q], S) <= Count(inbox[p][q], S)
                /\ Count(rest[q], S) \in Nat /\ Count(inbox[p][q], S) \in Nat
  BY TakesFacts
<1>3. ASSUME NEW result \in {"CHALLENGE_SUCCESS", "CHALLENGE_FAILURE"}, NEW identifier
      PROVE  Count(sent, ResultOf(result, identifier)) = 0
  <2> DEFINE those == ResultOf(result, identifier)
  <2>1. \A i \in 1 .. Len(sent) : sent[i] \in Range(sent)
    BY DEF Range
  <2>2. \A m \in those : m.id = result
    BY DEF ResultOf
  <2> HIDE DEF those
  <2>3. \A i \in 1 .. Len(sent) : sent[i] \notin those
    BY <2>1, <2>2
  <2>4. Count(sent, those) = 0
    BY <2>3, CountFacts
  <2>. QED BY <2>4 DEF those
<1> HIDE DEF told
<1>4. ASSUME NEW identifier
      PROVE  /\ Balanced(p, q, rest[q], sent, told, identifier)
             /\ \A r \in System \ {q} : Silent(told, identifier, r)
  BY <1>1, <1>2, <1>3 DEF Balanced, Silent
<1>5. StepOfAuth(p, q, rest, sent, told)
  BY <1>1, <1>2, <1>4 DEF StepOfAuth, TakesFrom
<1>. QED BY <1>5 DEF told

\* The invariant after a step.
LEMMA PartsAfter ==
  ASSUME BoxesOK', BooksOK', PairsAgree', announced' \in [System -> Seq(Announcement)],
         \A p \in System : ChallengesCounted(p)'
  PROVE  AuthIInv'
<1>1. LinksTypeOK(AuthMessage)' /\ \A p \in System : inbox'[p][p] = <<>>
  BY DEF LinksTypeOK, AuthHandled, BoxesOK
<1>2. ASSUME NEW p \in System
      PROVE  /\ passwords'[p] \subseteq DOMAIN PasswordOf[p]
             /\ \A i \in DOMAIN outgoingChallenges'[p] :
                  /\ outgoingChallenges'[p][i].identifier \in passwords'[p]
                  /\ outgoingChallenges'[p][i].remoteSystem # p
             /\ \A i \in DOMAIN generatedNonces'[p] :
                  /\ generatedNonces'[p][i].remoteSystem # p
                  /\ generatedNonces'[p][i].requestId < nextRequestId'[p]
  BY DEF Range, IsOwn, IsMade, BooksOK
<1>3. AuthTypeOK'
  BY <1>1, <1>2 DEF AuthTypeOK, BooksOK
<1>4. (\A p \in System : \A q \in System \ {p} :
         HashesAreTrue(p, q) /\ \A identifier \in Identifier : ResultsAreTrue(p, q, identifier))'
  BY DEF PairsAgree
<1>. QED BY <1>3, <1>4 DEF AuthIInv

\* A queue as it is, and one without its head.
LEMMA TakenFacts ==
  ASSUME AuthIInv, NEW p \in System, NEW q \in System
  PROVE  /\ TakesFrom(p, q, inbox[p])
         /\ \A id : HasNext(p, q, id) =>
              /\ TakesFrom(p, q, [inbox[p] EXCEPT ![q] = Tail(@)])
              /\ [inbox[p] EXCEPT ![q] = Tail(@)][q] = Tail(inbox[p][q])
<1>1. inbox[p] \in [System -> Seq(AuthHandled)]
  BY AuthFacts
<1>2. TakesFrom(p, q, inbox[p])
  BY <1>1 DEF TakesFrom
<1>3. ASSUME NEW id, HasNext(p, q, id)
      PROVE  /\ TakesFrom(p, q, [inbox[p] EXCEPT ![q] = Tail(@)])
             /\ [inbox[p] EXCEPT ![q] = Tail(@)][q] = Tail(inbox[p][q])
  <2> DEFINE rest == [inbox[p] EXCEPT ![q] = Tail(@)]
  <2>1. inbox[p][q] # <<>> /\ rest \in [System -> Seq(AuthHandled)]
    BY <1>3, AuthNextFacts
  <2>2. rest[q] = Tail(inbox[p][q]) /\ \A r \in System \ {q} : rest[r] = inbox[p][r]
    BY <1>1
  <2> HIDE DEF rest
  <2>3. TakesFrom(p, q, rest)
    BY <2>1, <2>2 DEF TakesFrom
  <2>. QED BY <2>2, <2>3 DEF rest
<1>. QED BY <1>2, <1>3

\* Mail of no message and of one.
LEMMA MailOf ==
  /\ <<>> \in Seq(AuthHandled) /\ Range(<<>>) = {}
  /\ \A m \in AuthMessage : <<m>> \in Seq(AuthHandled) /\ Range(<<m>>) = {m}
<1>1. <<>> \in Seq(AuthHandled) /\ Range(<<>>) = {}
  BY DEF Range
<1>2. ASSUME NEW m \in AuthMessage PROVE <<m>> \in Seq(AuthHandled) /\ Range(<<m>>) = {m}
  <2> DEFINE one == <<m>>
  <2>1. m \in AuthHandled
    BY DEF AuthHandled
  <2>2. one \in Seq(AuthHandled) /\ DOMAIN one = {1} /\ one[1] = m
    BY <2>1
  <2> HIDE DEF one
  <2>3. Range(one) = {m}
    BY <2>2 DEF Range
  <2>. QED BY <2>2, <2>3 DEF one
<1>. QED BY <1>1, <1>2

IsQuiet(m, p) ==
  m \in AuthMessage /\ HashIsTrue(m, p) /\ m.id \notin {"CHALLENGE_SUCCESS", "CHALLENGE_FAILURE"}

\* A call or handler that sends at most one message, which is no result, keeps what pairs agree on.
LEMMA PassesQuietly ==
  ASSUME AuthIInv, NEW p \in System, NEW q \in System \ {p}, NEW rest, TakesFrom(p, q, rest),
         announced' = announced,
         \/ Passes(p, rest, Nothing)
         \/ \E m : IsQuiet(m, p) /\ Passes(p, rest, Only(q, m))
  PROVE  BoxesOK' /\ announced' \in [System -> Seq(Announcement)] /\ PairsAgree'
<1>1. rest \in [System -> Seq(AuthHandled)]
  BY DEF TakesFrom
<1>2. CASE Passes(p, rest, Nothing)
  <2> DEFINE sent == <<>>
  <2>1. Mails(p, q, rest, sent)
    BY <1>1, <1>2, OnlyFacts
  <2>2. sent \in Seq(AuthHandled) /\ Range(sent) = {}
    BY MailOf
  <2> HIDE DEF sent
  <2>3. StepOfAuth(p, q, rest, sent, <<>>)
    BY <2>1, <2>2, QuietStep
  <2>. QED BY <2>3, StepOfAuthFacts
<1>3. ASSUME NEW m, IsQuiet(m, p), Passes(p, rest, Only(q, m))
      PROVE  BoxesOK' /\ announced' \in [System -> Seq(Announcement)] /\ PairsAgree'
  <2> DEFINE sent == <<m>>
  <2>1. Mails(p, q, rest, sent)
    BY <1>1, <1>3, OnlyFacts DEF IsQuiet
  <2>2. sent \in Seq(AuthHandled) /\ Range(sent) = {m}
    BY <1>3, MailOf DEF IsQuiet
  <2> HIDE DEF sent
  <2>3. \A o \in Range(sent) : HashIsTrue(o, p) /\ o.id \notin {"CHALLENGE_SUCCESS", "CHALLENGE_FAILURE"}
    BY <1>3, <2>2 DEF IsQuiet
  <2>4. StepOfAuth(p, q, rest, sent, <<>>)
    BY <2>1, <2>2, <2>3, QuietStep
  <2>. QED BY <2>4, StepOfAuthFacts
<1>. QED BY <1>2, <1>3

\* The next message is handled, and nothing is told of it.
LEMMA HandledQuietly ==
  ASSUME AuthIInv, NEW p \in System, NEW q \in System, NEW id, HasNext(p, q, id), announced' = announced,
         \/ PassesAfter(p, q, Nothing)
         \/ \E m : IsQuiet(m, p) /\ PassesAfter(p, q, Only(q, m))
  PROVE  BoxesOK' /\ announced' \in [System -> Seq(Announcement)] /\ PairsAgree'
<1> DEFINE rest == [inbox[p] EXCEPT ![q] = Tail(@)]
<1>1. TakesFrom(p, q, rest) /\ q \in System \ {p}
  BY TakenFacts, AuthNextFacts
<1>2. \/ Passes(p, rest, Nothing)
      \/ \E m : IsQuiet(m, p) /\ Passes(p, rest, Only(q, m))
  BY DEF PassesAfter
<1> HIDE DEF rest
<1>. QED BY <1>1, <1>2, PassesQuietly

\* Neither a queue nor what was told changes.
LEMMA NothingPassed ==
  ASSUME AuthIInv, linked' = linked, inbox' = inbox, announced' = announced
  PROVE  BoxesOK' /\ announced' \in [System -> Seq(Announcement)] /\ PairsAgree'
<1>1. BoxesOK /\ PairsAgree /\ announced \in [System -> Seq(Announcement)]
  BY PartsOfAuth
<1>2. BoxesOK'
  BY <1>1 DEF BoxesOK
<1>3. ASSUME NEW p \in System, NEW q \in System \ {p}
      PROVE  (HashesAreTrue(p, q) /\ \A identifier \in Identifier : ResultsAreTrue(p, q, identifier))'
  <2>1. \A outcome, identifier, r, o :
          Times(o, outcome, identifier, r)' = Times(o, outcome, identifier, r)
    BY DEF Times, Told
  <2>. QED BY <1>1, <2>1, PairKeeps
<1>. QED BY <1>1, <1>2, <1>3 DEF PairsAgree

\* A password that is added disturbs nothing.
LEMMA AddPasswordKeeps ==
  ASSUME AuthIInv, NEW p \in System, NEW identifier \in Identifier, AddPassword(p, identifier) PROVE AuthIInv'
<1>1. /\ identifier \in DOMAIN PasswordOf[p] /\ passwords' = [passwords EXCEPT ![p] = @ \cup {identifier}]
      /\ linked' = linked /\ inbox' = inbox /\ outgoingChallenges' = outgoingChallenges
      /\ generatedNonces' = generatedNonces /\ nextRequestId' = nextRequestId /\ announced' = announced
      /\ challenges' = challenges
  BY DEF AddPassword, linkVars
<1>2. BoxesOK' /\ announced' \in [System -> Seq(Announcement)] /\ PairsAgree'
  BY <1>1, NothingPassed
<1>3. BooksOK /\ \A o \in System : ChallengesCounted(o)
  BY PartsOfAuth
<1>4. passwords' \in [System -> SUBSET Identifier]
      /\ \A o \in System : passwords[o] \subseteq passwords'[o] /\ passwords'[o] \subseteq DOMAIN PasswordOf[o]
  BY <1>1, <1>3 DEF BooksOK
<1>5. ASSUME NEW o \in System
      PROVE  /\ \A c \in Range(outgoingChallenges[o]) : c.identifier \in passwords'[o] /\ c.remoteSystem # o
             /\ \A n \in Range(generatedNonces[o]) : n.remoteSystem # o /\ n.requestId < nextRequestId[o]
  BY <1>3, <1>4 DEF BooksOK, IsOwn, IsMade
<1>6. BooksOK'
  BY <1>1, <1>3, <1>4, <1>5 DEF BooksOK, IsOwn, IsMade
<1>7. \A o \in System : ChallengesCounted(o)'
  BY <1>1, <1>3 DEF ChallengesCounted, Outcomes
<1>. QED BY <1>2, <1>6, <1>7, PartsAfter

\* What a system has noted, in the form in which the proofs use it.
LEMMA NotedFacts ==
  ASSUME AuthIInv, NEW p \in System
  PROVE  /\ outgoingChallenges[p] \in Seq(Pending) /\ generatedNonces[p] \in Seq(Nonce)
         /\ Len(outgoingChallenges[p]) \in Nat
         /\ nextRequestId[p] \in Nat /\ challenges[p] \in [left : Nat, made : Nat, lost : Nat]
         /\ \A c \in Range(outgoingChallenges[p]) : IsOwn(p, c)
         /\ \A n \in Range(generatedNonces[p]) : n.remoteSystem # p /\ n.requestId < nextRequestId[p]
         /\ \A n \in Range(generatedNonces[p]) : n \in Nonce
         /\ passwords[p] \subseteq DOMAIN PasswordOf[p] /\ passwords[p] \subseteq Identifier
<1>1. BooksOK
  BY PartsOfAuth
<1>2. outgoingChallenges[p] \in Seq(Pending) /\ generatedNonces[p] \in Seq(Nonce)
      /\ nextRequestId[p] \in Nat /\ challenges[p] \in [left : Nat, made : Nat, lost : Nat]
      /\ passwords[p] \subseteq DOMAIN PasswordOf[p] /\ passwords[p] \subseteq Identifier
  BY <1>1 DEF BooksOK
<1>3. Range(generatedNonces[p]) \subseteq Nonce /\ Len(outgoingChallenges[p]) \in Nat
  BY <1>2, QueueFacts
<1>. QED BY <1>1, <1>2, <1>3 DEF BooksOK, IsMade

\* A challenge is counted as made and as pending.
LEMMA ChallengeKeeps ==
  ASSUME AuthIInv, NEW p \in System, NEW q \in System, NEW identifier \in Identifier, Challenge(p, q, identifier)
  PROVE  AuthIInv'
<1> DEFINE c == [identifier |-> identifier, remoteSystem |-> q, sentHash |-> FALSE]
           mine == outgoingChallenges[p]
           new == Append(mine, c)
<1>1. /\ challenges[p].left > 0 /\ identifier \in passwords[p] /\ p # q
      /\ challenges' = [challenges EXCEPT ![p].left = @ - 1, ![p].made = @ + 1]
      /\ outgoingChallenges' = [outgoingChallenges EXCEPT ![p] = new]
      /\ PassesUnasked(p, Only(q, [id |-> "NONCE_REQUEST"]))
      /\ passwords' = passwords /\ generatedNonces' = generatedNonces
      /\ nextRequestId' = nextRequestId /\ announced' = announced
  BY DEF Challenge
<1>2. BoxesOK' /\ announced' \in [System -> Seq(Announcement)] /\ PairsAgree'
  <2> DEFINE rest == inbox[p]
             m == [id |-> "NONCE_REQUEST"]
  <2>1. TakesFrom(p, q, rest)
    BY TakenFacts
  <2>2. Passes(p, rest, Only(q, m))
    BY <1>1 DEF PassesUnasked
  <2>3. IsQuiet(m, p)
    BY DEF IsQuiet, HashIsTrue, AuthMessage
  <2> HIDE DEF rest, m
  <2>. QED BY <1>1, <2>1, <2>2, <2>3, PassesQuietly
<1>3. c \in Pending /\ IsOwn(p, c) /\ mine \in Seq(Pending)
  BY <1>1, NotedFacts DEF Pending, IsOwn
<1> HIDE DEF c, mine, new
<1>4. /\ new \in Seq(Pending) /\ Len(new) = Len(mine) + 1 /\ Range(new) \subseteq Range(mine) \cup {c}
      /\ Len(mine) \in Nat
  BY <1>3, ListFacts DEF new
<1>5. /\ outgoingChallenges \in [System -> Seq(Pending)] /\ generatedNonces \in [System -> Seq(Nonce)]
      /\ nextRequestId \in [System -> Nat] /\ challenges \in [System -> [left : Nat, made : Nat, lost : Nat]]
  BY AuthFacts
<1>6. /\ outgoingChallenges' \in [System -> Seq(Pending)] /\ outgoingChallenges'[p] = new
      /\ \A o \in System \ {p} : outgoingChallenges'[o] = outgoingChallenges[o]
  BY <1>1, <1>4, <1>5
<1>7. /\ challenges' \in [System -> [left : Nat, made : Nat, lost : Nat]]
      /\ challenges'[p].made = challenges[p].made + 1 /\ challenges'[p].lost = challenges[p].lost
      /\ \A o \in System \ {p} : challenges'[o] = challenges[o]
  <2> DEFINE had == challenges[p]
             has == [left |-> had.left - 1, made |-> had.made + 1, lost |-> had.lost]
  <2>1. had \in [left : Nat, made : Nat, lost : Nat] /\ had.left > 0
    BY <1>1, <1>5
  <2>2. challenges' = [challenges EXCEPT ![p] = has]
    <3> DEFINE between == [challenges EXCEPT ![p].left = @ - 1]
    <3>1. /\ between[p] = [had EXCEPT !.left = had.left - 1]
          /\ between = [o \in System |-> between[o]]
          /\ \A o \in System \ {p} : between[o] = challenges[o]
      BY <1>5
    <3>2. challenges' = [between EXCEPT ![p] = [between[p] EXCEPT !.made = @ + 1]]
      BY <1>1
    <3>3. [between[p] EXCEPT !.made = @ + 1] = has
      <4> DEFINE middle == [left |-> had.left - 1, made |-> had.made, lost |-> had.lost]
      <4> HIDE DEF between, had
      <4>1. [had EXCEPT !.left = had.left - 1] = middle
        BY <2>1
      <4>2. [middle EXCEPT !.made = @ + 1] = has
        OBVIOUS
      <4> HIDE DEF middle, has
      <4>. QED BY <3>1, <4>1, <4>2
    <3> HIDE DEF between, had, has
    <3>4. [between EXCEPT ![p] = has] = [challenges EXCEPT ![p] = has]
      <4>1. challenges = [o \in System |-> challenges[o]]
        BY <1>5
      <4>2. [challenges EXCEPT ![p] = has] = [o \in System |-> IF o = p THEN has ELSE challenges[o]]
        BY <4>1
      <4>3. [between EXCEPT ![p] = has] = [o \in System |-> IF o = p THEN has ELSE between[o]]
        BY <3>1
      <4>4. \A o \in System \ {p} : between[o] = challenges[o]
        BY <3>1
      <4>. QED BY <4>2, <4>3, <4>4
    <3>. QED BY <3>2, <3>3, <3>4
  <2> HIDE DEF had
  <2>3. has \in [left : Nat, made : Nat, lost : Nat] /\ has.made = had.made + 1 /\ has.lost = had.lost
    BY <2>1
  <2> HIDE DEF has
  <2>. QED BY <1>5, <2>2, <2>3 DEF had
<1>8. BooksOK'
  <2>1. \A o \in Range(outgoingChallenges'[p]) : IsOwn(p, o)
    BY <1>3, <1>4, <1>6, NotedFacts DEF mine
  <2>2. \A n \in Range(generatedNonces'[p]) : n.remoteSystem # p /\ n.requestId < nextRequestId'[p]
    BY <1>1, NotedFacts
  <2>. QED BY <1>1, <1>5, <1>6, <1>7, <2>1, <2>2, BooksKeep
<1>9. \A o \in System : ChallengesCounted(o)'
  <2> DEFINE told == <<>>
  <2>1. Tellings(p, told) /\ told \in Seq(Announcement) /\ Count(told, Ended) = 0
    BY <1>1, NothingTold
  <2> HIDE DEF told
  <2>2. challenges[p].made \in Nat /\ challenges[p].lost \in Nat
    BY <1>5
  <2>3. challenges'[p].made + challenges[p].lost + Len(outgoingChallenges[p]) =
          challenges[p].made + challenges'[p].lost + Len(outgoingChallenges'[p]) + Count(told, Ended)
    <3> DEFINE pending == Len(mine)
               pending2 == Len(new)
               made == challenges[p].made
               lost == challenges[p].lost
    <3>1. pending \in Nat /\ made \in Nat /\ lost \in Nat /\ pending2 = pending + 1
      BY <1>4, <2>2
    <3> HIDE DEF pending, made, lost, pending2
    <3>2. made + 1 + lost + pending = made + lost + pending2 + 0
      BY <3>1
    <3>. QED BY <1>6, <1>7, <2>1, <3>2 DEF mine, pending, made, lost, pending2
  <2>4. outgoingChallenges'[p] \in Seq(Pending) /\ challenges'[p] \in [left : Nat, made : Nat, lost : Nat]
    BY <1>4, <1>6, <1>7
  <2>. QED BY <1>6, <1>7, <2>1, <2>3, <2>4, CountedKeeps
<1>. QED BY <1>2, <1>8, <1>9, PartsAfter

\* The challenges are as many, and nothing is told.
LEMMA CountUnchanged ==
  ASSUME AuthIInv, NEW p \in System, announced' = announced, challenges' = challenges,
         outgoingChallenges'[p] \in Seq(Pending), Len(outgoingChallenges'[p]) = Len(outgoingChallenges[p]),
         \A o \in System \ {p} : outgoingChallenges'[o] = outgoingChallenges[o]
  PROVE  \A o \in System : ChallengesCounted(o)'
<1> DEFINE told == <<>>
<1>1. Tellings(p, told) /\ told \in Seq(Announcement) /\ Count(told, Ended) = 0
  BY NothingTold
<1> HIDE DEF told
<1>2. challenges[p] \in [left : Nat, made : Nat, lost : Nat]
  BY NotedFacts
<1>3. challenges[p].made \in Nat /\ challenges[p].lost \in Nat /\ Len(outgoingChallenges[p]) \in Nat
  BY <1>2, NotedFacts
<1>4. challenges'[p].made + challenges[p].lost + Len(outgoingChallenges[p]) =
        challenges[p].made + challenges'[p].lost + Len(outgoingChallenges'[p]) + Count(told, Ended)
  BY <1>1, <1>3
<1>5. challenges'[p] \in [left : Nat, made : Nat, lost : Nat]
  BY <1>2
<1>. QED BY <1>1, <1>4, <1>5, CountedKeeps

\* A nonce has the number that is next, so it is below the next one.
LEMMA OnNonceRequestKeeps ==
  ASSUME AuthIInv, NEW p \in System, NEW q \in System, OnNonceRequest(p, q) PROVE AuthIInv'
<1> DEFINE n == nextRequestId[p]
           nonce == [requestId |-> n, remoteSystem |-> q]
           mine == generatedNonces[p]
           new == Append(mine, nonce)
           m == [id |-> "NONCE_REPLY", requestId |-> n]
<1>1. /\ HasNext(p, q, "NONCE_REQUEST")
      /\ generatedNonces' = [generatedNonces EXCEPT ![p] = new]
      /\ PassesAfter(p, q, Only(q, m))
      /\ nextRequestId' = [nextRequestId EXCEPT ![p] = n + 1]
      /\ passwords' = passwords /\ outgoingChallenges' = outgoingChallenges
      /\ announced' = announced /\ challenges' = challenges
  BY DEF OnNonceRequest
<1>2. n \in Nat /\ mine \in Seq(Nonce) /\ q # p
  BY <1>1, NotedFacts, AuthNextFacts
<1>3. nonce \in Nonce /\ IsQuiet(m, p)
  BY <1>2 DEF Nonce, IsQuiet, HashIsTrue, AuthMessage
<1>10. nonce.remoteSystem = q /\ nonce.requestId = n
  OBVIOUS
<1> HIDE DEF m, nonce, n, mine, new
<1>4. BoxesOK' /\ announced' \in [System -> Seq(Announcement)] /\ PairsAgree'
  BY <1>1, <1>3, HandledQuietly
<1>5. new \in Seq(Nonce) /\ Range(new) \subseteq Range(mine) \cup {nonce}
  BY <1>2, <1>3, ListFacts DEF new
<1>6. /\ outgoingChallenges \in [System -> Seq(Pending)] /\ generatedNonces \in [System -> Seq(Nonce)]
      /\ nextRequestId \in [System -> Nat] /\ challenges \in [System -> [left : Nat, made : Nat, lost : Nat]]
  BY AuthFacts
<1>7. /\ generatedNonces' \in [System -> Seq(Nonce)] /\ generatedNonces'[p] = new
      /\ \A o \in System \ {p} : generatedNonces'[o] = generatedNonces[o]
      /\ nextRequestId' \in [System -> Nat] /\ nextRequestId'[p] = n + 1
      /\ \A o \in System \ {p} : nextRequestId'[o] = nextRequestId[o]
  BY <1>1, <1>2, <1>5, <1>6
<1>8. BooksOK'
  <2>1. \A c \in Range(outgoingChallenges'[p]) : IsOwn(p, c)
    BY <1>1, NotedFacts
  <2>2. ASSUME NEW o \in Range(mine) PROVE o.remoteSystem # p /\ o.requestId < n + 1
    <3>1. o \in Nonce /\ o.remoteSystem # p /\ o.requestId < n
      BY NotedFacts DEF mine, n
    <3>. QED BY <1>2, <3>1 DEF Nonce
  <2>3. nonce.remoteSystem # p /\ nonce.requestId < n + 1
    BY <1>2, <1>10
  <2>4. \A o \in Range(generatedNonces'[p]) : o.remoteSystem # p /\ o.requestId < nextRequestId'[p]
    BY <1>5, <1>7, <2>2, <2>3
  <2>. QED BY <1>1, <1>6, <1>7, <2>1, <2>4, BooksKeep
<1>9. \A o \in System : ChallengesCounted(o)'
  BY <1>1, NotedFacts, CountUnchanged
<1>. QED BY <1>4, <1>8, <1>9, PartsAfter

\* The hash is made with a password that was added, as the challenge is for one.
LEMMA OnNonceReplyKeeps ==
  ASSUME AuthIInv, NEW p \in System, NEW q \in System, OnNonceReply(p, q) PROVE AuthIInv'
<1> DEFINE n == Head(inbox[p][q]).requestId
           mine == outgoingChallenges[p]
           those == {k \in 1 .. Len(mine) : mine[k].remoteSystem = q /\ ~mine[k].sentHash}
           i == IF those # {} THEN Min(those) ELSE 0
           hashed(k) == [id |-> "HASHED_NONCE_AND_PASSWORD", requestId |-> n,
                         identifier |-> mine[k].identifier, hash |-> Hash(n, p, mine[k].identifier)]
<1>1. /\ HasNext(p, q, "NONCE_REPLY")
      /\ IF i = 0 THEN PassesAfter(p, q, Nothing) /\ outgoingChallenges' = outgoingChallenges
         ELSE /\ outgoingChallenges' = [outgoingChallenges EXCEPT ![p][i].sentHash = TRUE]
              /\ PassesAfter(p, q, Only(q, hashed(i)))
      /\ passwords' = passwords /\ generatedNonces' = generatedNonces
      /\ nextRequestId' = nextRequestId /\ announced' = announced /\ challenges' = challenges
  BY DEF OnNonceReply, SelectInSeq
<1>2. n \in Nat /\ q # p
  <2>1. HasNext(p, q, "NONCE_REPLY")
    BY <1>1
  <2>2. q # p /\ Head(inbox[p][q]) \in AuthHandled /\ Head(inbox[p][q]).id = "NONCE_REPLY"
    BY <2>1, AuthNextFacts
  <2>. QED BY <2>2, AuthKinds
<1>3. mine \in Seq(Pending) /\ Len(mine) \in Nat /\ passwords[p] \subseteq Identifier
      /\ passwords[p] \subseteq DOMAIN PasswordOf[p] /\ \A c \in Range(mine) : IsOwn(p, c)
  BY NotedFacts
<1>4. i # 0 => i \in 1 .. Len(mine)
  <2>1. those \subseteq 1 .. Len(mine)
    OBVIOUS
  <2> HIDE DEF those
  <2>2. i # 0 => i \in those
    BY <1>3, <2>1, FirstFacts
  <2>. QED BY <2>1, <2>2
<1> HIDE DEF i, n, those
<1>5. /\ outgoingChallenges \in [System -> Seq(Pending)] /\ generatedNonces \in [System -> Seq(Nonce)]
      /\ nextRequestId \in [System -> Nat] /\ challenges \in [System -> [left : Nat, made : Nat, lost : Nat]]
  BY AuthFacts
<1>6. /\ outgoingChallenges' \in [System -> Seq(Pending)]
      /\ Len(outgoingChallenges'[p]) = Len(mine)
      /\ \A o \in System \ {p} : outgoingChallenges'[o] = outgoingChallenges[o]
      /\ \A c \in Range(outgoingChallenges'[p]) : IsOwn(p, c)
  <2>1. CASE i = 0
    BY <1>1, <1>3, <1>5, <2>1
  <2>2. CASE i # 0
    <3> DEFINE c == mine[i]
               d == [c EXCEPT !.sentHash = TRUE]
               new == [mine EXCEPT ![i] = d]
    <3>1. i \in 1 .. Len(mine) /\ c \in Pending /\ c \in Range(mine) /\ IsOwn(p, c)
      BY <1>3, <1>4, <2>2 DEF Range
    <3>2. outgoingChallenges' = [outgoingChallenges EXCEPT ![p] = new]
      BY <1>1, <2>2
    <3> HIDE DEF mine
    <3>3. d \in Pending /\ IsOwn(p, d)
      <4> HIDE DEF c
      <4>1. d = [identifier |-> c.identifier, remoteSystem |-> c.remoteSystem, sentHash |-> TRUE]
        <5>1. c = [identifier |-> c.identifier, remoteSystem |-> c.remoteSystem, sentHash |-> c.sentHash]
          BY <3>1, Zenon DEF Pending
        <5> DEFINE e == [identifier |-> c.identifier, remoteSystem |-> c.remoteSystem, sentHash |-> c.sentHash]
        <5>2. ASSUME NEW v
              PROVE  [e EXCEPT !.sentHash = v] =
                       [identifier |-> c.identifier, remoteSystem |-> c.remoteSystem, sentHash |-> v]
          OBVIOUS
        <5> HIDE DEF e
        <5>3. [e EXCEPT !.sentHash = TRUE] =
                [identifier |-> c.identifier, remoteSystem |-> c.remoteSystem, sentHash |-> TRUE]
          BY <5>2, Zenon
        <5>. QED BY <5>1, <5>3, Zenon DEF e
      <4>2. c.identifier \in Identifier /\ c.remoteSystem \in System
        BY <3>1 DEF Pending
      <4> HIDE DEF d
      <4>. QED BY <3>1, <4>1, <4>2 DEF Pending, IsOwn
    <3> HIDE DEF d, c
    <3>4. new \in Seq(Pending) /\ Len(new) = Len(mine) /\ Range(new) \subseteq Range(mine) \cup {d}
      BY <1>3, <3>1, <3>3, ListFacts
    <3> HIDE DEF new
    <3>5. /\ outgoingChallenges' \in [System -> Seq(Pending)] /\ outgoingChallenges'[p] = new
          /\ \A o \in System \ {p} : outgoingChallenges'[o] = outgoingChallenges[o]
      BY <1>5, <3>2, <3>4
    <3>. QED BY <1>3, <3>3, <3>4, <3>5
  <2>. QED BY <2>1, <2>2
<1>7. BoxesOK' /\ announced' \in [System -> Seq(Announcement)] /\ PairsAgree'
  <2>1. CASE i = 0
    BY <1>1, <2>1, HandledQuietly
  <2>2. CASE i # 0
    <3> DEFINE m == hashed(i)
    <3>1. mine[i] \in Pending /\ mine[i].identifier \in passwords[p]
      BY <1>3, <1>4, <2>2 DEF Range, IsOwn
    <3>2. mine[i].identifier \in DOMAIN PasswordOf[p] /\ mine[i].identifier \in Identifier
          /\ PasswordOf[p][mine[i].identifier] \in Nat
      BY <1>3, <3>1, ChallengeAssumption
    <3>3. IsQuiet(m, p)
      BY <1>2, <3>2 DEF IsQuiet, HashIsTrue, Hash, AuthMessage
    <3>4. PassesAfter(p, q, Only(q, m))
      BY <1>1, <2>2
    <3> HIDE DEF m
    <3>. QED BY <1>1, <3>3, <3>4, HandledQuietly
  <2>. QED BY <2>1, <2>2
<1>8. BooksOK'
  <2>1. \A o \in Range(generatedNonces'[p]) : o.remoteSystem # p /\ o.requestId < nextRequestId'[p]
    BY <1>1, NotedFacts
  <2>. QED BY <1>1, <1>5, <1>6, <2>1, BooksKeep
<1>9. \A o \in System : ChallengesCounted(o)'
  <2>1. outgoingChallenges'[p] \in Seq(Pending)
    BY <1>6
  <2>. QED BY <1>1, <1>6, <2>1, CountUnchanged
<1>. QED BY <1>7, <1>8, <1>9, PartsAfter

\* A nonce that is dropped leaves the others as they are.
LEMMA NonceTimesOutKeeps ==
  ASSUME AuthIInv, NEW p \in System, NonceTimesOut(p) PROVE AuthIInv'
<1> DEFINE mine == generatedNonces[p]
           new == Tail(mine)
<1>1. /\ mine # <<>> /\ generatedNonces' = [generatedNonces EXCEPT ![p] = new]
      /\ linked' = linked /\ inbox' = inbox /\ passwords' = passwords /\ outgoingChallenges' = outgoingChallenges
      /\ nextRequestId' = nextRequestId /\ announced' = announced /\ challenges' = challenges
  BY DEF NonceTimesOut, linkVars
<1>2. mine \in Seq(Nonce) /\ \A n \in Range(mine) : n.remoteSystem # p /\ n.requestId < nextRequestId[p]
  BY NotedFacts
<1> HIDE DEF mine
<1>3. new \in Seq(Nonce) /\ Range(new) \subseteq Range(mine)
  BY <1>1, <1>2, QueueFacts
<1>5. /\ outgoingChallenges \in [System -> Seq(Pending)] /\ generatedNonces \in [System -> Seq(Nonce)]
      /\ nextRequestId \in [System -> Nat] /\ challenges \in [System -> [left : Nat, made : Nat, lost : Nat]]
  BY AuthFacts
<1>6. /\ generatedNonces' \in [System -> Seq(Nonce)] /\ generatedNonces'[p] = new
      /\ \A o \in System \ {p} : generatedNonces'[o] = generatedNonces[o]
  BY <1>1, <1>3, <1>5
<1>7. BoxesOK' /\ announced' \in [System -> Seq(Announcement)] /\ PairsAgree'
  BY <1>1, NothingPassed
<1>8. BooksOK'
  <2>1. \A c \in Range(outgoingChallenges'[p]) : IsOwn(p, c)
    BY <1>1, NotedFacts
  <2>2. \A o \in Range(generatedNonces'[p]) : o.remoteSystem # p /\ o.requestId < nextRequestId'[p]
    BY <1>1, <1>2, <1>3, <1>6
  <2>. QED BY <1>1, <1>5, <1>6, <2>1, <2>2, BooksKeep
<1>9. \A o \in System : ChallengesCounted(o)'
  BY <1>1, NotedFacts, CountUnchanged
<1>. QED BY <1>7, <1>8, <1>9, PartsAfter

\* A new connection disturbs nothing.
LEMMA AuthOnNewConnectionKeeps ==
  ASSUME AuthIInv, NEW p \in System, NEW q \in System, AuthOnNewConnection(p, q) PROVE AuthIInv'
<1>1. /\ HasNext(p, q, "NEW_CONNECTION") /\ PassesAfter(p, q, Nothing)
      /\ passwords' = passwords /\ outgoingChallenges' = outgoingChallenges /\ generatedNonces' = generatedNonces
      /\ nextRequestId' = nextRequestId /\ announced' = announced /\ challenges' = challenges
  BY DEF AuthOnNewConnection
<1>5. /\ outgoingChallenges \in [System -> Seq(Pending)] /\ generatedNonces \in [System -> Seq(Nonce)]
      /\ nextRequestId \in [System -> Nat] /\ challenges \in [System -> [left : Nat, made : Nat, lost : Nat]]
  BY AuthFacts
<1>7. BoxesOK' /\ announced' \in [System -> Seq(Announcement)] /\ PairsAgree'
  BY <1>1, HandledQuietly
<1>8. BooksOK'
  <2>1. \A c \in Range(outgoingChallenges'[p]) : IsOwn(p, c)
    BY <1>1, NotedFacts
  <2>2. \A o \in Range(generatedNonces'[p]) : o.remoteSystem # p /\ o.requestId < nextRequestId'[p]
    BY <1>1, NotedFacts
  <2>. QED BY <1>1, <1>5, <2>1, <2>2, BooksKeep
<1>9. \A o \in System : ChallengesCounted(o)'
  BY <1>1, NotedFacts, CountUnchanged
<1>. QED BY <1>7, <1>8, <1>9, PartsAfter

\* The challenges removed are those counted as lost.
LEMMA AuthOnClosedConnectionKeeps ==
  ASSUME AuthIInv, NEW p \in System, NEW q \in System, AuthOnClosedConnection(p, q) PROVE AuthIInv'
<1> DEFINE mine == outgoingChallenges[p]
           nonces == generatedNonces[p]
           ofIt == [identifier : Identifier, remoteSystem : {q}, sentHash : BOOLEAN]
           left == AllBut(mine, q)
           kept == AllBut(nonces, q)
           had == challenges[p]
           has == [left |-> had.left, made |-> had.made, lost |-> had.lost + Count(mine, ofIt)]
<1>1. /\ HasNext(p, q, "CLOSED_CONNECTION") /\ PassesAfter(p, q, Nothing)
      /\ outgoingChallenges' = [outgoingChallenges EXCEPT ![p] = left]
      /\ generatedNonces' = [generatedNonces EXCEPT ![p] = kept]
      /\ challenges' = [challenges EXCEPT ![p].lost = @ + Count(mine, ofIt)]
      /\ passwords' = passwords /\ nextRequestId' = nextRequestId /\ announced' = announced
  BY DEF AuthOnClosedConnection
<1>2. /\ mine \in Seq(Pending) /\ nonces \in Seq(Nonce) /\ had \in [left : Nat, made : Nat, lost : Nat]
      /\ \A c \in Range(mine) : IsOwn(p, c)
      /\ \A n \in Range(nonces) : n.remoteSystem # p /\ n.requestId < nextRequestId[p]
  BY NotedFacts
<1>5. /\ outgoingChallenges \in [System -> Seq(Pending)] /\ generatedNonces \in [System -> Seq(Nonce)]
      /\ nextRequestId \in [System -> Nat] /\ challenges \in [System -> [left : Nat, made : Nat, lost : Nat]]
  BY AuthFacts
<1>3. challenges' = [challenges EXCEPT ![p] = has]
  <2>1. challenges' = [challenges EXCEPT ![p] = [had EXCEPT !.lost = had.lost + Count(mine, ofIt)]]
    BY <1>1, <1>5
  <2>2. [had EXCEPT !.lost = had.lost + Count(mine, ofIt)] = has
    <3> HIDE DEF had, mine, ofIt
    <3>. QED BY <1>2
  <2>. QED BY <2>1, <2>2
<1>4. \A c \in Pending : c \in ofIt <=> c.remoteSystem = q
  BY DEF Pending
<1> HIDE DEF mine, nonces, ofIt, had, left, kept
<1>10. /\ left \in Seq(Pending) /\ Range(left) \subseteq Range(mine)
       /\ Len(left) + Count(mine, ofIt) = Len(mine)
  <2>1. \A k \in 1 .. Len(mine) : mine[k] \in Pending
    BY <1>2
  <2>2. \A k \in 1 .. Len(mine) : mine[k] \in ofIt <=> mine[k].remoteSystem = q
    BY <1>4, <2>1
  <2>. QED BY <1>2, <2>2, AllButFacts DEF left
<1>11. kept \in Seq(Nonce) /\ Range(kept) \subseteq Range(nonces)
  <2> DEFINE those == {k \in Nonce : k.remoteSystem = q}
  <2>1. \A k \in 1 .. Len(nonces) : nonces[k] \in Nonce
    BY <1>2
  <2>2. \A k \in 1 .. Len(nonces) : nonces[k] \in those <=> nonces[k].remoteSystem = q
    BY <2>1
  <2> HIDE DEF those
  <2>. QED BY <1>2, <2>2, AllButFacts DEF kept
<1>12. Count(mine, ofIt) \in Nat /\ Len(mine) \in Nat /\ Len(left) \in Nat
  <2>1. Count(mine, ofIt) \in Nat
    BY <1>2, CountFacts
  <2>2. Len(mine) \in Nat /\ Len(left) \in Nat
    BY <1>2, <1>10
  <2>. QED BY <2>1, <2>2
<1>13. has \in [left : Nat, made : Nat, lost : Nat] /\ has.made = had.made
       /\ has.lost = had.lost + Count(mine, ofIt) /\ had.lost \in Nat /\ had.made \in Nat
  BY <1>2, <1>12
<1> HIDE DEF has
<1>6. /\ outgoingChallenges' \in [System -> Seq(Pending)] /\ outgoingChallenges'[p] = left
      /\ generatedNonces' \in [System -> Seq(Nonce)] /\ generatedNonces'[p] = kept
      /\ challenges' \in [System -> [left : Nat, made : Nat, lost : Nat]] /\ challenges'[p] = has
      /\ \A o \in System \ {p} :
           /\ outgoingChallenges'[o] = outgoingChallenges[o] /\ generatedNonces'[o] = generatedNonces[o]
           /\ challenges'[o] = challenges[o]
  BY <1>1, <1>3, <1>5, <1>10, <1>11, <1>13
<1>7. BoxesOK' /\ announced' \in [System -> Seq(Announcement)] /\ PairsAgree'
  BY <1>1, HandledQuietly
<1>8. BooksOK'
  <2>1. \A c \in Range(outgoingChallenges'[p]) : IsOwn(p, c)
    BY <1>2, <1>6, <1>10
  <2>2. \A o \in Range(generatedNonces'[p]) : o.remoteSystem # p /\ o.requestId < nextRequestId'[p]
    BY <1>1, <1>2, <1>6, <1>11
  <2>. QED BY <1>1, <1>5, <1>6, <2>1, <2>2, BooksKeep
<1>9. \A o \in System : ChallengesCounted(o)'
  <2> DEFINE told == <<>>
  <2>1. Tellings(p, told) /\ told \in Seq(Announcement) /\ Count(told, Ended) = 0
    BY <1>1, NothingTold
  <2> HIDE DEF told
  <2>2. has.made + had.lost + Len(mine) = had.made + has.lost + Len(left) + Count(told, Ended)
    <3> DEFINE made == had.made
               lost == had.lost
               number == Count(mine, ofIt)
               pending == Len(mine)
               pending2 == Len(left)
    <3>1. made \in Nat /\ lost \in Nat /\ number \in Nat /\ pending \in Nat /\ pending2 \in Nat
          /\ pending2 + number = pending
      BY <1>10, <1>12, <1>13
    <3> HIDE DEF made, lost, number, pending, pending2
    <3>2. made + lost + pending = made + (lost + number) + pending2 + 0
      BY <3>1
    <3>. QED BY <1>13, <2>1, <3>2 DEF made, lost, number, pending, pending2
  <2>3. challenges'[p].made + challenges[p].lost + Len(outgoingChallenges[p]) =
          challenges[p].made + challenges'[p].lost + Len(outgoingChallenges'[p]) + Count(told, Ended)
    BY <1>6, <2>2 DEF mine, had
  <2>4. outgoingChallenges'[p] \in Seq(Pending) /\ challenges'[p] \in [left : Nat, made : Nat, lost : Nat]
    BY <1>6, <1>10, <1>13
  <2>. QED BY <1>6, <2>1, <2>3, <2>4, CountedKeeps
<1>. QED BY <1>7, <1>8, <1>9, PartsAfter

\* The outcomes that end a challenge, and the two that pairs agree on.
Paired == {"CHALLENGE_SUCCESS", "CHALLENGE_FAILURE", "INCOMING_SUCCESS", "INCOMING_FAILURE"}

\* One outcome is told.
LEMMA OneTold ==
  ASSUME NEW outcome \in Outcome, NEW identifier \in Identifier, NEW q \in System
  PROVE  /\ <<Told(outcome, identifier, q)>> \in Seq(Announcement)
         /\ \A o, k, r : Entries(<<Told(outcome, identifier, q)>>, o, k, r) =
                           IF o = outcome /\ k = identifier /\ r = q THEN 1 ELSE 0
         /\ Count(<<Told(outcome, identifier, q)>>, Ended) =
              IF outcome \in {"CHALLENGE_SUCCESS", "CHALLENGE_FAILURE", "CHALLENGE_TIMEOUT"} THEN 1 ELSE 0
<1> DEFINE t == Told(outcome, identifier, q)
<1>1. t \in Announcement
  BY DEF Told, Announcement
<1>2. t \in Ended <=> outcome \in {"CHALLENGE_SUCCESS", "CHALLENGE_FAILURE", "CHALLENGE_TIMEOUT"}
  BY DEF Told, Ended
<1>3. \A o, k, r : t \in {Told(o, k, r)} <=> o = outcome /\ k = identifier /\ r = q
  BY DEF Told
<1> HIDE DEF t
<1>4. ASSUME NEW S PROVE Count(<<t>>, S) = IF t \in S THEN 1 ELSE 0
  BY <1>1, CountOne
<1>5. \A o, k, r : Entries(<<t>>, o, k, r) = IF o = outcome /\ k = identifier /\ r = q THEN 1 ELSE 0
  BY <1>3, <1>4 DEF Entries
<1>6. Count(<<t>>, Ended) =
        IF outcome \in {"CHALLENGE_SUCCESS", "CHALLENGE_FAILURE", "CHALLENGE_TIMEOUT"} THEN 1 ELSE 0
  BY <1>2, <1>4
<1>7. <<t>> \in Seq(Announcement)
  BY <1>1
<1>. QED BY <1>5, <1>6, <1>7 DEF t

\* Of each challenge that is too old one outcome is told.
LEMMA ChallengesTimeOutKeeps ==
  ASSUME AuthIInv, NEW p \in System, ChallengesTimeOut(p) PROVE AuthIInv'
<1> DEFINE mine == outgoingChallenges[p]
<1>1. PICK n \in DOMAIN mine :
        /\ outgoingChallenges' = [outgoingChallenges EXCEPT ![p] = SubSeq(mine, n + 1, Len(mine))]
        /\ announced' = [announced EXCEPT ![p] = @ \o
             [i \in 1 .. n |-> Told("CHALLENGE_TIMEOUT", mine[i].identifier, mine[i].remoteSystem)]]
  BY DEF ChallengesTimeOut
<1> DEFINE told == [i \in 1 .. n |-> Told("CHALLENGE_TIMEOUT", mine[i].identifier, mine[i].remoteSystem)]
           new == SubSeq(mine, n + 1, Len(mine))
<1>2. /\ linked' = linked /\ inbox' = inbox /\ passwords' = passwords /\ generatedNonces' = generatedNonces
      /\ nextRequestId' = nextRequestId /\ challenges' = challenges
      /\ outgoingChallenges' = [outgoingChallenges EXCEPT ![p] = new] /\ Tellings(p, told)
  BY <1>1 DEF ChallengesTimeOut, linkVars, Tellings
<1>3. mine \in Seq(Pending) /\ (\A c \in Range(mine) : IsOwn(p, c)) /\ Len(mine) \in Nat
  BY NotedFacts
<1>4. n \in 1 .. Len(mine) /\ n \in Nat
  BY <1>3
<1>5. ASSUME NEW i \in 1 .. n
      PROVE  /\ told[i] = Told("CHALLENGE_TIMEOUT", mine[i].identifier, mine[i].remoteSystem)
             /\ mine[i].identifier \in Identifier /\ mine[i].remoteSystem \in System
  <2>1. mine[i] \in Pending
    BY <1>3, <1>4
  <2>. QED BY <2>1 DEF Pending
<1>6. \A i \in 1 .. n : told[i] \in Announcement /\ told[i] \in Ended
  BY <1>5 DEF Told, Announcement, Ended, Outcome
<1>7. told \in Seq(Announcement) /\ Len(told) = n
  <2>1. told = [i \in 1 .. n |-> told[i]]
    OBVIOUS
  <2> HIDE DEF told
  <2>. QED BY <1>4, <1>6, <2>1
<1>8. /\ new \in Seq(Pending) /\ Len(new) = Len(mine) - n /\ Range(new) \subseteq Range(mine)
  BY <1>3, <1>4, ListFacts
<1>9. ASSUME NEW o \in Paired, NEW k, NEW r PROVE Entries(told, o, k, r) = 0
  <2> DEFINE one == {Told(o, k, r)}
  <2>1. \A i \in 1 .. n : told[i] \notin one
    BY <1>5 DEF Told, Paired
  <2> HIDE DEF one, told
  <2>2. Count(told, one) = 0
    BY <1>7, <2>1, CountFacts
  <2>. QED BY <2>2 DEF Entries, one
<1>10. Count(told, Ended) = n
  <2> HIDE DEF told
  <2>. QED BY <1>6, <1>7, CountFacts
<1> HIDE DEF mine, told, new
<1>11. TimesChange(p, told) /\ announced' \in [System -> Seq(Announcement)]
  BY <1>2, <1>7, TimesFacts
<1>12. BoxesOK /\ PairsAgree
  BY PartsOfAuth
<1>13. BoxesOK'
  BY <1>2, <1>12 DEF BoxesOK
<1>14. PairsAgree'
  <2>1. ASSUME NEW o \in System, NEW k, NEW r, NEW outcome \in Paired
        PROVE  Times(o, outcome, k, r)' = Times(o, outcome, k, r)
    <3>1. Entries(told, outcome, k, r) = 0
      BY <1>9
    <3>. QED BY <1>11, <3>1 DEF TimesChange
  <2>2. ASSUME NEW a \in System, NEW b \in System \ {a}
        PROVE  (HashesAreTrue(a, b) /\ \A identifier \in Identifier : ResultsAreTrue(a, b, identifier))'
    <3>1. \A identifier \in Identifier :
            /\ Times(a, "CHALLENGE_SUCCESS", identifier, b)' = Times(a, "CHALLENGE_SUCCESS", identifier, b)
            /\ Times(a, "CHALLENGE_FAILURE", identifier, b)' = Times(a, "CHALLENGE_FAILURE", identifier, b)
            /\ Times(b, "INCOMING_SUCCESS", identifier, a)' = Times(b, "INCOMING_SUCCESS", identifier, a)
            /\ Times(b, "INCOMING_FAILURE", identifier, a)' = Times(b, "INCOMING_FAILURE", identifier, a)
      BY <2>1 DEF Paired
    <3>. QED BY <1>2, <1>12, <3>1, PairKeeps
  <2>. QED BY <2>2 DEF PairsAgree
<1>15. /\ outgoingChallenges \in [System -> Seq(Pending)] /\ generatedNonces \in [System -> Seq(Nonce)]
       /\ nextRequestId \in [System -> Nat] /\ challenges \in [System -> [left : Nat, made : Nat, lost : Nat]]
  BY AuthFacts
<1>16. /\ outgoingChallenges' \in [System -> Seq(Pending)] /\ outgoingChallenges'[p] = new
       /\ \A o \in System \ {p} : outgoingChallenges'[o] = outgoingChallenges[o]
  BY <1>2, <1>8, <1>15
<1>17. BooksOK'
  <2>1. \A c \in Range(outgoingChallenges'[p]) : IsOwn(p, c)
    BY <1>3, <1>8, <1>16
  <2>2. \A o \in Range(generatedNonces'[p]) : o.remoteSystem # p /\ o.requestId < nextRequestId'[p]
    BY <1>2, NotedFacts
  <2>. QED BY <1>2, <1>15, <1>16, <2>1, <2>2, BooksKeep
<1>18. \A o \in System : ChallengesCounted(o)'
  <2> DEFINE made == challenges[p].made
             lost == challenges[p].lost
             pending == Len(mine)
             pending2 == Len(new)
             number == Count(told, Ended)
  <2>1. challenges'[p] \in [left : Nat, made : Nat, lost : Nat] /\ outgoingChallenges'[p] \in Seq(Pending)
    BY <1>2, <1>15, <1>16
  <2>2. made \in Nat /\ lost \in Nat /\ pending \in Nat /\ pending2 = pending - n /\ number = n /\ n \in Nat
    BY <1>3, <1>4, <1>8, <1>10, <1>15
  <2> HIDE DEF made, lost, pending, pending2, number
  <2>3. made + lost + pending = made + lost + pending2 + number
    BY <2>2
  <2>4. challenges'[p].made + challenges[p].lost + Len(outgoingChallenges[p]) =
          challenges[p].made + challenges'[p].lost + Len(outgoingChallenges'[p]) + Count(told, Ended)
    BY <1>2, <1>16, <2>3 DEF made, lost, pending, pending2, number, mine
  <2>. QED BY <1>2, <1>7, <1>16, <2>1, <2>4, CountedKeeps
<1>. QED BY <1>11, <1>13, <1>14, <1>17, <1>18, PartsAfter

\* A result that is sent.
Result(id, nonce, identifier, hash) ==
  [id |-> id, nonce |-> nonce, identifier |-> identifier, hash |-> hash]

\* A result is one for its outcome and its identifier.
LEMMA OneSent ==
  ASSUME NEW id \in {"CHALLENGE_SUCCESS", "CHALLENGE_FAILURE"}, NEW nonce \in Nat, NEW identifier \in Identifier,
         NEW hash \in Nat \X Nat
  PROVE  /\ Result(id, nonce, identifier, hash) \in AuthMessage
         /\ \A o, k : Count(<<Result(id, nonce, identifier, hash)>>, ResultOf(o, k)) =
                        IF o = id /\ k = identifier THEN 1 ELSE 0
<1> DEFINE m == Result(id, nonce, identifier, hash)
<1>1. m \in AuthMessage
  BY DEF Result, AuthMessage
<1>2. \A o, k : m \in ResultOf(o, k) <=> o = id /\ k = identifier
  BY DEF Result, ResultOf
<1> HIDE DEF m
<1>3. ASSUME NEW S PROVE Count(<<m>>, S) = IF m \in S THEN 1 ELSE 0
  BY <1>1, CountOne
<1>4. \A o, k : Count(<<m>>, ResultOf(o, k)) = IF o = id /\ k = identifier THEN 1 ELSE 0
  BY <1>2, <1>3
<1>. QED BY <1>1, <1>4 DEF m

\* A result is announced as it is sent, and a success only of equal passwords.
LEMMA OnHashedKeeps ==
  ASSUME AuthIInv, NEW p \in System, NEW q \in System, OnHashedNonceAndPassword(p, q) PROVE AuthIInv'
<1> DEFINE m == Head(inbox[p][q])
           mine == generatedNonces[p]
           those == {k \in 1 .. Len(mine) : mine[k].requestId = m.requestId /\ mine[k].remoteSystem = q}
           i == IF those # {} THEN Min(those) ELSE 0
           passed == m.identifier \in passwords[p] /\ Hash(m.requestId, p, m.identifier) = m.hash
           id == IF passed THEN "CHALLENGE_SUCCESS" ELSE "CHALLENGE_FAILURE"
           outcome == IF passed THEN "INCOMING_SUCCESS" ELSE "INCOMING_FAILURE"
           new == RemoveAt(mine, i)
           rest == [inbox[p] EXCEPT ![q] = Tail(@)]
<1>1. /\ HasNext(p, q, "HASHED_NONCE_AND_PASSWORD")
      /\ IF i = 0 THEN PassesAfter(p, q, Nothing) /\ generatedNonces' = generatedNonces /\ announced' = announced
         ELSE /\ generatedNonces' = [generatedNonces EXCEPT ![p] = new]
              /\ PassesAfter(p, q, Only(q, Result(id, m.requestId, m.identifier, m.hash)))
              /\ Tells(p, outcome, m.identifier, q)
      /\ passwords' = passwords /\ outgoingChallenges' = outgoingChallenges
      /\ nextRequestId' = nextRequestId /\ challenges' = challenges
  BY DEF OnHashedNonceAndPassword, SelectInSeq, Result
<1>2. /\ q # p /\ m \in AuthHandled /\ m.id = "HASHED_NONCE_AND_PASSWORD" /\ m \in Range(inbox[p][q])
      /\ TakesFrom(p, q, rest)
  BY <1>1, AuthNextFacts, TakenFacts
<1>3. m.requestId \in Nat /\ m.identifier \in Identifier /\ m.hash \in Nat \X Nat
  BY <1>2, AuthKinds
<1>4. /\ mine \in Seq(Nonce) /\ Len(mine) \in Nat /\ Len(outgoingChallenges[p]) \in Nat
      /\ \A n \in Range(mine) : n.remoteSystem # p /\ n.requestId < nextRequestId[p]
      /\ \A c \in Range(outgoingChallenges[p]) : IsOwn(p, c)
      /\ outgoingChallenges[p] \in Seq(Pending)
  BY NotedFacts
<1>5. i # 0 => i \in 1 .. Len(mine)
  <2>1. those \subseteq 1 .. Len(mine)
    OBVIOUS
  <2> HIDE DEF those
  <2>2. i # 0 => i \in those
    BY <1>4, <2>1, FirstFacts
  <2>. QED BY <2>1, <2>2
<1>6. passed => PasswordOf[p][m.identifier] = PasswordOf[q][m.identifier]
  <2>1. HashesAreTrue(p, q)
    BY <1>2 DEF AuthIInv
  <2>2. m.hash = Hash(m.requestId, q, m.identifier)
    BY <1>2, <2>1 DEF HashesAreTrue
  <2>. QED BY <2>2 DEF Hash
<1>7. /\ passed => id = "CHALLENGE_SUCCESS" /\ outcome = "INCOMING_SUCCESS"
      /\ ~passed => id = "CHALLENGE_FAILURE" /\ outcome = "INCOMING_FAILURE"
  OBVIOUS
<1>8. Passes(p, rest, Nothing) <=> PassesAfter(p, q, Nothing)
  BY DEF PassesAfter
<1>9. PassesAfter(p, q, Only(q, Result(id, m.requestId, m.identifier, m.hash))) =>
        Passes(p, rest, Only(q, Result(id, m.requestId, m.identifier, m.hash)))
  BY DEF PassesAfter
<1> HIDE DEF m, those, i, passed, id, outcome, rest, mine, new
<1>10. /\ outgoingChallenges \in [System -> Seq(Pending)] /\ generatedNonces \in [System -> Seq(Nonce)]
       /\ nextRequestId \in [System -> Nat] /\ challenges \in [System -> [left : Nat, made : Nat, lost : Nat]]
  BY AuthFacts
<1>11. /\ generatedNonces' \in [System -> Seq(Nonce)] /\ Range(generatedNonces'[p]) \subseteq Range(mine)
       /\ \A o \in System \ {p} : generatedNonces'[o] = generatedNonces[o]
  <2>1. CASE i = 0
    BY <1>1, <1>10, <2>1 DEF mine
  <2>2. CASE i # 0
    <3>1. new \in Seq(Nonce) /\ Range(new) \subseteq Range(mine)
      BY <1>4, <1>5, <2>2, ListFacts DEF new
    <3>. QED BY <1>1, <1>10, <2>2, <3>1
  <2>. QED BY <2>1, <2>2
<1>12. BooksOK'
  <2>1. \A c \in Range(outgoingChallenges'[p]) : IsOwn(p, c)
    BY <1>1, <1>4
  <2>2. \A o \in Range(generatedNonces'[p]) : o.remoteSystem # p /\ o.requestId < nextRequestId'[p]
    BY <1>1, <1>4, <1>11
  <2>. QED BY <1>1, <1>10, <1>11, <2>1, <2>2, BooksKeep
<1>13. CASE i = 0
  <2>1. BoxesOK' /\ announced' \in [System -> Seq(Announcement)] /\ PairsAgree'
    BY <1>1, <1>13, HandledQuietly
  <2>2. \A o \in System : ChallengesCounted(o)'
    BY <1>1, <1>4, <1>13, CountUnchanged
  <2>. QED BY <1>12, <2>1, <2>2, PartsAfter
<1>14. CASE i # 0
  <2> DEFINE r == Result(id, m.requestId, m.identifier, m.hash)
             sent == <<r>>
             told == <<Told(outcome, m.identifier, q)>>
  <2>1. id \in {"CHALLENGE_SUCCESS", "CHALLENGE_FAILURE"} /\ outcome \in Outcome
        /\ outcome \in {"INCOMING_SUCCESS", "INCOMING_FAILURE"}
    BY <1>7 DEF Outcome
  <2>2. /\ r \in AuthMessage /\ r.id = id
        /\ \A o, k : Count(sent, ResultOf(o, k)) = IF o = id /\ k = m.identifier THEN 1 ELSE 0
    <3>1. /\ r \in AuthMessage
          /\ \A o, k : Count(sent, ResultOf(o, k)) = IF o = id /\ k = m.identifier THEN 1 ELSE 0
      BY <1>3, <2>1, OneSent
    <3>2. r.id = id
      BY DEF Result
    <3>. QED BY <3>1, <3>2
  <2>3. /\ told \in Seq(Announcement) /\ Count(told, Ended) = 0
        /\ \A o, k, s : Entries(told, o, k, s) = IF o = outcome /\ k = m.identifier /\ s = q THEN 1 ELSE 0
    BY <1>3, <2>1, OneTold
  <2>4. Tellings(p, told)
    <3>1. announced \in [System -> Seq(Announcement)]
      BY AuthFacts
    <3>2. Append(announced[p], Told(outcome, m.identifier, q)) = announced[p] \o told
      <4> DEFINE t == Told(outcome, m.identifier, q)
      <4>1. t \in Announcement /\ announced[p] \in Seq(Announcement)
        BY <1>3, <2>1, <3>1 DEF Announcement, Told
      <4> HIDE DEF t
      <4>2. Append(announced[p], t) = announced[p] \o <<t>>
        BY <4>1
      <4>. QED BY <4>2 DEF t
    <3>. QED BY <1>1, <1>14, <3>2 DEF Tells, Tellings
  <2>5. Mails(p, q, rest, sent) /\ rest \in [System -> Seq(AuthHandled)]
    <3>1. rest \in [System -> Seq(AuthHandled)]
      BY <1>2 DEF TakesFrom
    <3>2. Passes(p, rest, Only(q, r))
      BY <1>1, <1>9, <1>14
    <3> HIDE DEF r
    <3>3. Mails(p, q, rest, <<r>>)
      BY <1>2, <2>2, <3>1, <3>2, OnlyFacts
    <3>. QED BY <3>1, <3>3
  <2>6. sent \in Seq(AuthHandled) /\ Range(sent) = {r}
    <3> HIDE DEF r
    <3>. QED BY <2>2, MailOf
  <2> HIDE DEF r, sent, told
  <2>7. HashIsTrue(r, p)
    BY <2>1, <2>2 DEF HashIsTrue
  <2>8. /\ Range(rest[q]) \subseteq Range(inbox[p][q])
        /\ \A S : /\ Count(rest[q], S) <= Count(inbox[p][q], S)
                  /\ Count(rest[q], S) \in Nat /\ Count(inbox[p][q], S) \in Nat
    BY <1>2, TakesFacts
  <2>9. ASSUME NEW identifier
        PROVE  /\ Balanced(p, q, rest[q], sent, told, identifier)
               /\ \A s \in System \ {q} : Silent(told, identifier, s)
    <3>1. /\ Entries(told, "CHALLENGE_SUCCESS", identifier, q) = 0
          /\ Entries(told, "CHALLENGE_FAILURE", identifier, q) = 0
      BY <2>1, <2>3
    <3>2. /\ Count(sent, ResultOf("CHALLENGE_SUCCESS", identifier)) = Entries(told, "INCOMING_SUCCESS", identifier, q)
          /\ Count(sent, ResultOf("CHALLENGE_FAILURE", identifier)) = Entries(told, "INCOMING_FAILURE", identifier, q)
      BY <1>7, <2>2, <2>3
    <3>3. Entries(told, "INCOMING_SUCCESS", identifier, q) > 0 => passed /\ identifier = m.identifier
      BY <1>7, <2>3
    <3>6. Entries(told, "INCOMING_SUCCESS", identifier, q) \in Nat
          /\ Entries(told, "INCOMING_FAILURE", identifier, q) \in Nat
      BY <2>3
    <3>4. Balanced(p, q, rest[q], sent, told, identifier)
      BY <1>6, <2>8, <3>1, <3>2, <3>3, <3>6 DEF Balanced
    <3>5. \A s \in System \ {q} : Silent(told, identifier, s)
      BY <2>3 DEF Silent
    <3>. QED BY <3>4, <3>5
  <2>10. StepOfAuth(p, q, rest, sent, told)
    BY <1>2, <2>3, <2>4, <2>5, <2>6, <2>7, <2>8, <2>9 DEF StepOfAuth, TakesFrom
  <2>11. BoxesOK' /\ announced' \in [System -> Seq(Announcement)] /\ PairsAgree'
    BY <1>2, <2>10, StepOfAuthFacts
  <2>12. \A o \in System : ChallengesCounted(o)'
    <3>1. challenges'[p] = challenges[p] /\ challenges[p] \in [left : Nat, made : Nat, lost : Nat]
      BY <1>1, NotedFacts
    <3>2. challenges'[p].made + challenges[p].lost + Len(outgoingChallenges[p]) =
            challenges[p].made + challenges'[p].lost + Len(outgoingChallenges'[p]) + Count(told, Ended)
      BY <1>1, <1>4, <2>3, <3>1
    <3>. QED BY <1>1, <1>4, <2>3, <2>4, <3>1, <3>2, CountedKeeps
  <2>. QED BY <1>12, <2>11, <2>12, PartsAfter
<1>. QED BY <1>13, <1>14

\* The result handled leaves the queue as it is told, and ends one challenge.
LEMMA OnPasswordResultKeeps ==
  ASSUME AuthIInv, NEW p \in System, NEW q \in System, OnPasswordResult(p, q) PROVE AuthIInv'
<1> DEFINE m == Head(inbox[p][q])
           mine == outgoingChallenges[p]
           those == {k \in 1 .. Len(mine) :
                       mine[k].identifier = m.identifier /\ mine[k].remoteSystem = q /\ mine[k].sentHash}
           i == IF m.identifier \in passwords[p] /\ Hash(m.nonce, p, m.identifier) = m.hash
                THEN IF those # {} THEN Min(those) ELSE 0
                ELSE 0
           new == RemoveAt(mine, i)
           rest == [inbox[p] EXCEPT ![q] = Tail(@)]
<1>1. /\ HasNext(p, q, "CHALLENGE_SUCCESS") \/ HasNext(p, q, "CHALLENGE_FAILURE")
      /\ PassesAfter(p, q, Nothing)
      /\ IF i = 0 THEN outgoingChallenges' = outgoingChallenges /\ announced' = announced
         ELSE /\ outgoingChallenges' = [outgoingChallenges EXCEPT ![p] = new]
              /\ Tells(p, m.id, m.identifier, q)
      /\ passwords' = passwords /\ generatedNonces' = generatedNonces
      /\ nextRequestId' = nextRequestId /\ challenges' = challenges
  BY DEF OnPasswordResult, SelectInSeq
<1>2. /\ q # p /\ m \in AuthHandled /\ m.id \in {"CHALLENGE_SUCCESS", "CHALLENGE_FAILURE"}
      /\ TakesFrom(p, q, rest) /\ rest[q] = Tail(inbox[p][q])
      /\ inbox[p][q] # <<>> /\ inbox[p][q] \in Seq(AuthHandled) /\ HasNext(p, q, m.id)
  <2>1. CASE HasNext(p, q, "CHALLENGE_SUCCESS")
    BY <2>1, AuthNextFacts, TakenFacts
  <2>2. CASE HasNext(p, q, "CHALLENGE_FAILURE")
    BY <2>2, AuthNextFacts, TakenFacts
  <2>. QED BY <1>1, <2>1, <2>2
<1>3. m \in [id : {"CHALLENGE_SUCCESS", "CHALLENGE_FAILURE"}, nonce : Nat, identifier : Identifier,
             hash : Nat \X Nat]
  BY <1>2, AuthKinds
<1>4. /\ mine \in Seq(Pending) /\ Len(mine) \in Nat /\ \A c \in Range(mine) : IsOwn(p, c)
  BY NotedFacts
<1>5. i # 0 => i \in 1 .. Len(mine)
  <2>1. those \subseteq 1 .. Len(mine)
    OBVIOUS
  <2> HIDE DEF those, m
  <2>2. (IF those # {} THEN Min(those) ELSE 0) # 0 => (IF those # {} THEN Min(those) ELSE 0) \in those
    BY <1>4, <2>1, FirstFacts
  <2>. QED BY <2>1, <2>2
<1>8. Passes(p, rest, Nothing)
  BY <1>1 DEF PassesAfter
<1> HIDE DEF m, those, i, rest, mine, new
<1>10. /\ outgoingChallenges \in [System -> Seq(Pending)] /\ generatedNonces \in [System -> Seq(Nonce)]
       /\ nextRequestId \in [System -> Nat] /\ challenges \in [System -> [left : Nat, made : Nat, lost : Nat]]
  BY AuthFacts
<1>11. i # 0 => /\ new \in Seq(Pending) /\ Range(new) \subseteq Range(mine) /\ Len(new) = Len(mine) - 1
                /\ outgoingChallenges' = [outgoingChallenges EXCEPT ![p] = new]
  BY <1>1, <1>4, <1>5, ListFacts DEF new
<1>12. /\ outgoingChallenges' \in [System -> Seq(Pending)] /\ Range(outgoingChallenges'[p]) \subseteq Range(mine)
       /\ \A o \in System \ {p} : outgoingChallenges'[o] = outgoingChallenges[o]
  BY <1>1, <1>10, <1>11 DEF mine
<1>13. BooksOK'
  <2>1. \A c \in Range(outgoingChallenges'[p]) : IsOwn(p, c)
    BY <1>4, <1>12
  <2>2. \A o \in Range(generatedNonces'[p]) : o.remoteSystem # p /\ o.requestId < nextRequestId'[p]
    BY <1>1, NotedFacts
  <2>. QED BY <1>1, <1>10, <1>12, <2>1, <2>2, BooksKeep
<1>14. CASE i = 0
  <2>1. BoxesOK' /\ announced' \in [System -> Seq(Announcement)] /\ PairsAgree'
    BY <1>1, <1>2, <1>14, HandledQuietly
  <2>2. outgoingChallenges'[p] \in Seq(Pending)
    BY <1>12
  <2>3. \A o \in System : ChallengesCounted(o)'
    BY <1>1, <1>14, <2>2, CountUnchanged
  <2>. QED BY <1>13, <2>1, <2>3, PartsAfter
<1>15. CASE i # 0
  <2> DEFINE sent == <<>>
             outcome == m.id
             told == <<Told(outcome, m.identifier, q)>>
  <2>1. outcome \in {"CHALLENGE_SUCCESS", "CHALLENGE_FAILURE"} /\ outcome \in Outcome /\ m.identifier \in Identifier
    BY <1>3 DEF Outcome
  <2>2. sent \in Seq(AuthHandled) /\ Range(sent) = {} /\ \A o, k : Count(sent, ResultOf(o, k)) = 0
    <3>1. ASSUME NEW S PROVE Count(<<>>, S) = 0
      BY CountOne
    <3>. QED BY <3>1, MailOf
  <2>3. /\ told \in Seq(Announcement) /\ Count(told, Ended) = 1
        /\ \A o, k, s : Entries(told, o, k, s) = IF o = outcome /\ k = m.identifier /\ s = q THEN 1 ELSE 0
    <3> HIDE DEF outcome
    <3>1. /\ told \in Seq(Announcement)
          /\ Count(told, Ended) =
               IF outcome \in {"CHALLENGE_SUCCESS", "CHALLENGE_FAILURE", "CHALLENGE_TIMEOUT"} THEN 1 ELSE 0
          /\ \A o, k, s : Entries(told, o, k, s) = IF o = outcome /\ k = m.identifier /\ s = q THEN 1 ELSE 0
      BY <2>1, OneTold
    <3>. QED BY <2>1, <3>1
  <2>4. Tellings(p, told)
    <3>1. announced \in [System -> Seq(Announcement)]
      BY AuthFacts
    <3>2. Append(announced[p], Told(outcome, m.identifier, q)) = announced[p] \o told
      <4> DEFINE t == Told(outcome, m.identifier, q)
      <4>1. t \in Announcement /\ announced[p] \in Seq(Announcement)
        BY <2>1, <3>1 DEF Announcement, Told
      <4> HIDE DEF t
      <4>2. Append(announced[p], t) = announced[p] \o <<t>>
        BY <4>1
      <4>. QED BY <4>2 DEF t
    <3>. QED BY <1>1, <1>15, <3>2 DEF Tells, Tellings
  <2>5. Mails(p, q, rest, sent) /\ rest \in [System -> Seq(AuthHandled)]
    <3>1. rest \in [System -> Seq(AuthHandled)]
      BY <1>2 DEF TakesFrom
    <3>. QED BY <1>2, <1>8, <3>1, OnlyFacts
  <2>6. \A o, k : m \in ResultOf(o, k) <=> o = outcome /\ k = m.identifier
    BY <1>3 DEF ResultOf
  <2>7. ASSUME NEW S
        PROVE  /\ Count(inbox[p][q], S) = Count(rest[q], S) + IF m \in S THEN 1 ELSE 0
               /\ Count(rest[q], S) \in Nat /\ Count(inbox[p][q], S) \in Nat
    <3> DEFINE queue == inbox[p][q]
    <3>1. queue \in Seq(AuthHandled) /\ queue # <<>> /\ m = Head(queue) /\ rest[q] = Tail(queue)
      BY <1>2 DEF m
    <3> HIDE DEF queue
    <3>2. Count(queue, S) = Count(Tail(queue), S) + IF Head(queue) \in S THEN 1 ELSE 0
      BY <3>1, CountRest
    <3>3. Tail(queue) \in Seq(AuthHandled)
      BY <3>1
    <3>4. Count(Tail(queue), S) \in Nat /\ Count(queue, S) \in Nat
      BY <3>1, <3>3, CountFacts
    <3>. QED BY <3>1, <3>2, <3>4 DEF queue
  <2> HIDE DEF sent, told, outcome
  <2>8. Range(rest[q]) \subseteq Range(inbox[p][q])
    BY <1>2, TakesFacts
  <2>9. ASSUME NEW identifier
        PROVE  /\ Balanced(p, q, rest[q], sent, told, identifier)
               /\ \A s \in System \ {q} : Silent(told, identifier, s)
    <3>1. ASSUME NEW o
          PROVE  Count(rest[q], ResultOf(o, identifier)) + Entries(told, o, identifier, q)
                   = Count(inbox[p][q], ResultOf(o, identifier))
                 /\ Count(inbox[p][q], ResultOf(o, identifier)) \in Nat
      <4> DEFINE S == ResultOf(o, identifier)
      <4>1. Entries(told, o, identifier, q) = IF m \in S THEN 1 ELSE 0
        BY <2>3, <2>6
      <4> HIDE DEF S
      <4>2. Count(rest[q], S) + Entries(told, o, identifier, q) = Count(inbox[p][q], S)
            /\ Count(inbox[p][q], S) \in Nat
        BY <2>7, <4>1
      <4>. QED BY <4>2 DEF S
    <3>2. /\ Entries(told, "INCOMING_SUCCESS", identifier, q) = 0
          /\ Entries(told, "INCOMING_FAILURE", identifier, q) = 0
      BY <2>1, <2>3
    <3>3. /\ Count(rest[q], ResultOf("CHALLENGE_SUCCESS", identifier)) + Entries(told, "CHALLENGE_SUCCESS", identifier, q)
               <= Count(inbox[p][q], ResultOf("CHALLENGE_SUCCESS", identifier))
          /\ Count(rest[q], ResultOf("CHALLENGE_FAILURE", identifier)) + Entries(told, "CHALLENGE_FAILURE", identifier, q)
               <= Count(inbox[p][q], ResultOf("CHALLENGE_FAILURE", identifier))
      BY <3>1
    <3>4. Balanced(p, q, rest[q], sent, told, identifier)
      BY <2>2, <3>2, <3>3 DEF Balanced
    <3>5. \A s \in System \ {q} : Silent(told, identifier, s)
      BY <2>3 DEF Silent
    <3>. QED BY <3>4, <3>5
  <2>10. StepOfAuth(p, q, rest, sent, told)
    BY <1>2, <2>2, <2>3, <2>4, <2>5, <2>8, <2>9 DEF StepOfAuth, TakesFrom
  <2>11. BoxesOK' /\ announced' \in [System -> Seq(Announcement)] /\ PairsAgree'
    BY <1>2, <2>10, StepOfAuthFacts
  <2>12. \A o \in System : ChallengesCounted(o)'
    <3>1. /\ challenges' = challenges /\ challenges[p] \in [left : Nat, made : Nat, lost : Nat]
          /\ outgoingChallenges'[p] = new
      BY <1>1, <1>10, <1>11, <1>15
    <3> DEFINE made == challenges[p].made
               lost == challenges[p].lost
               pending == Len(mine)
               pending2 == Len(new)
               number == Count(told, Ended)
    <3>2. made \in Nat /\ lost \in Nat /\ pending \in Nat /\ pending2 = pending - 1 /\ number = 1
      BY <1>4, <1>11, <1>15, <2>3, <3>1
    <3> HIDE DEF made, lost, pending, pending2, number
    <3>3. made + lost + pending = made + lost + pending2 + number
      BY <3>2
    <3>4. challenges'[p].made + challenges[p].lost + Len(outgoingChallenges[p]) =
            challenges[p].made + challenges'[p].lost + Len(outgoingChallenges'[p]) + Count(told, Ended)
      BY <3>1, <3>3 DEF made, lost, pending, pending2, number, mine
    <3>5. challenges'[p] \in [left : Nat, made : Nat, lost : Nat] /\ outgoingChallenges'[p] \in Seq(Pending)
      BY <1>12, <3>1
    <3>. QED BY <1>1, <1>12, <2>3, <2>4, <3>4, <3>5, CountedKeeps
  <2>. QED BY <1>13, <2>11, <2>12, PartsAfter
<1>. QED BY <1>14, <1>15

\* A queue has, of what the invariant is about, at most what it had.
Shrinks(p, q) ==
  /\ \A m \in Range(inbox'[p][q]) : m \in Range(inbox[p][q]) \/ m.id # "HASHED_NONCE_AND_PASSWORD"
  /\ \A result \in {"CHALLENGE_SUCCESS", "CHALLENGE_FAILURE"}, identifier \in Identifier :
       /\ Count(inbox'[p][q], ResultOf(result, identifier)) <= Count(inbox[p][q], ResultOf(result, identifier))
       /\ Count(inbox'[p][q], ResultOf(result, identifier)) \in Nat
       /\ Count(inbox[p][q], ResultOf(result, identifier)) \in Nat

\* A notice that is added to what is left of a queue.
LEMMA NoticeAdded ==
  ASSUME NEW queue \in Seq(AuthHandled), NEW m, m \in {Notice("NEW_CONNECTION"), Notice("CLOSED_CONNECTION")},
         NEW n \in 0 .. Len(queue), NEW long, long = SubSeq(queue, 1, n) \o <<m>>
  PROVE  /\ long \in Seq(AuthHandled)
         /\ \A o \in Range(long) : o \in Range(queue) \/ o.id # "HASHED_NONCE_AND_PASSWORD"
         /\ \A result \in {"CHALLENGE_SUCCESS", "CHALLENGE_FAILURE"}, identifier \in Identifier :
              /\ Count(long, ResultOf(result, identifier)) <= Count(queue, ResultOf(result, identifier))
              /\ Count(long, ResultOf(result, identifier)) \in Nat
              /\ Count(queue, ResultOf(result, identifier)) \in Nat
<1> DEFINE begun == SubSeq(queue, 1, n)
           one == <<m>>
<1>1. m \in AuthHandled /\ m.id \in {"NEW_CONNECTION", "CLOSED_CONNECTION"}
  BY DEF AuthHandled, Notice
<1>2. /\ begun \in Seq(AuthHandled) /\ DOMAIN begun = 1 .. n
      /\ \A i \in 1 .. n : begun[i] = queue[i] /\ i \in DOMAIN queue
  OBVIOUS
<1>3. one \in Seq(AuthHandled) /\ Range(one) = {m}
  <2>1. one \in Seq(AuthHandled) /\ DOMAIN one = {1} /\ one[1] = m
    BY <1>1
  <2> HIDE DEF one
  <2>. QED BY <2>1 DEF Range
<1>4. Range(begun) \subseteq Range(queue)
  BY <1>2 DEF Range
<1>5. \A result \in {"CHALLENGE_SUCCESS", "CHALLENGE_FAILURE"} : \A identifier : m \notin ResultOf(result, identifier)
  BY <1>1 DEF ResultOf
<1>6. \A S : Count(begun, S) <= Count(queue, S)
  BY CountRest
<1>7. \A S : Count(one, S) = IF m \in S THEN 1 ELSE 0
  BY <1>1, CountOne
<1> HIDE DEF begun, one
<1>8. long = begun \o one
  BY DEF begun, one
<1>9. long \in Seq(AuthHandled) /\ Range(long) = Range(begun) \cup Range(one)
  <2>1. begun \in Seq(AuthHandled) /\ one \in Seq(AuthHandled)
    BY <1>2, <1>3
  <2>2. begun \o one \in Seq(AuthHandled) /\ Range(begun \o one) = Range(begun) \cup Range(one)
    BY <2>1, QueueFacts
  <2>. QED BY <1>8, <2>2
<1>10. ASSUME NEW result \in {"CHALLENGE_SUCCESS", "CHALLENGE_FAILURE"}, NEW identifier \in Identifier
       PROVE  /\ Count(long, ResultOf(result, identifier)) <= Count(queue, ResultOf(result, identifier))
              /\ Count(long, ResultOf(result, identifier)) \in Nat
              /\ Count(queue, ResultOf(result, identifier)) \in Nat
  <2> DEFINE S == ResultOf(result, identifier)
  <2>1. m \notin S
    BY <1>5
  <2> HIDE DEF S
  <2>2. Count(long, S) = Count(begun, S) + Count(one, S)
    <3>1. Count(begun \o one, S) = Count(begun, S) + Count(one, S)
      BY <1>2, <1>3, CountConcat
    <3>. QED BY <1>8, <3>1
  <2>3. Count(begun, S) \in Nat /\ Count(queue, S) \in Nat
    BY <1>2, CountFacts
  <2>4. Count(one, S) = 0 /\ Count(begun, S) <= Count(queue, S)
    BY <1>6, <1>7, <2>1
  <2>5. Count(long, S) <= Count(queue, S) /\ Count(long, S) \in Nat /\ Count(queue, S) \in Nat
    BY <2>2, <2>3, <2>4
  <2>. QED BY <2>5 DEF S
<1>11. \A o \in Range(long) : o \in Range(queue) \/ o.id # "HASHED_NONCE_AND_PASSWORD"
  BY <1>1, <1>3, <1>4, <1>9
<1>. QED BY <1>9, <1>10, <1>11

\* Nothing but queues changes, and none gets more of what the invariant is about.
LEMMA ShrinkingKeeps ==
  ASSUME AuthIInv, linked' \subseteq AllPairs, inbox' \in [System -> [System -> Seq(AuthHandled)]],
         \A p \in System : inbox'[p][p] = <<>>,
         \A p \in System : \A q \in System \ {p} : Shrinks(p, q),
         UNCHANGED <<passwords, outgoingChallenges, generatedNonces, nextRequestId, announced, challenges>>
  PROVE  AuthIInv'
<1>1. BoxesOK /\ BooksOK /\ PairsAgree /\ announced \in [System -> Seq(Announcement)]
      /\ \A p \in System : ChallengesCounted(p)
  BY PartsOfAuth
<1>2. BoxesOK'
  BY DEF BoxesOK
<1>3. BooksOK' /\ announced' \in [System -> Seq(Announcement)]
  BY <1>1 DEF BooksOK, IsOwn, IsMade
<1>4. \A p \in System : ChallengesCounted(p)'
  BY <1>1 DEF ChallengesCounted, Outcomes
<1>5. ASSUME NEW o \in System, NEW outcome, NEW identifier, NEW r
      PROVE  Times(o, outcome, identifier, r)' = Times(o, outcome, identifier, r)
             /\ Times(o, outcome, identifier, r) \in Nat
  <2> DEFINE one == {Told(outcome, identifier, r)}
  <2>1. Count(announced[o], one) \in Nat
    <3>1. announced[o] \in Seq(Announcement)
      BY <1>1
    <3> HIDE DEF one
    <3>. QED BY <3>1, CountFacts
  <2>. QED BY <2>1 DEF Times, Told
<1>6. ASSUME NEW p \in System, NEW q \in System \ {p}
      PROVE  (HashesAreTrue(p, q) /\ \A identifier \in Identifier : ResultsAreTrue(p, q, identifier))'
  <2>1. Shrinks(p, q) /\ HashesAreTrue(p, q) /\ \A identifier \in Identifier : ResultsAreTrue(p, q, identifier)
    BY <1>1 DEF PairsAgree
  <2>2. HashesAreTrue(p, q)'
    BY <2>1 DEF Shrinks, HashesAreTrue, Hash
  <2>3. ASSUME NEW identifier \in Identifier PROVE ResultsAreTrue(p, q, identifier)'
    <3>1. /\ Times(p, "CHALLENGE_SUCCESS", identifier, q)' = Times(p, "CHALLENGE_SUCCESS", identifier, q)
          /\ Times(p, "CHALLENGE_FAILURE", identifier, q)' = Times(p, "CHALLENGE_FAILURE", identifier, q)
          /\ Times(q, "INCOMING_SUCCESS", identifier, p)' = Times(q, "INCOMING_SUCCESS", identifier, p)
          /\ Times(q, "INCOMING_FAILURE", identifier, p)' = Times(q, "INCOMING_FAILURE", identifier, p)
          /\ Times(p, "CHALLENGE_SUCCESS", identifier, q) \in Nat
          /\ Times(p, "CHALLENGE_FAILURE", identifier, q) \in Nat
          /\ Times(q, "INCOMING_SUCCESS", identifier, p) \in Nat
          /\ Times(q, "INCOMING_FAILURE", identifier, p) \in Nat
      BY <1>5
    <3>2. \A result \in {"CHALLENGE_SUCCESS", "CHALLENGE_FAILURE"} :
            /\ Count(inbox'[p][q], ResultOf(result, identifier)) <= Count(inbox[p][q], ResultOf(result, identifier))
            /\ Count(inbox'[p][q], ResultOf(result, identifier)) \in Nat
            /\ Count(inbox[p][q], ResultOf(result, identifier)) \in Nat
      BY <2>1 DEF Shrinks
    <3>3. ResultsAreTrue(p, q, identifier)
      BY <2>1
    <3>4. /\ Times(p, "CHALLENGE_SUCCESS", identifier, q)' + Count(inbox'[p][q], ResultOf("CHALLENGE_SUCCESS", identifier))
               <= Times(q, "INCOMING_SUCCESS", identifier, p)'
          /\ Times(p, "CHALLENGE_FAILURE", identifier, q)' + Count(inbox'[p][q], ResultOf("CHALLENGE_FAILURE", identifier))
               <= Times(q, "INCOMING_FAILURE", identifier, p)'
          /\ Times(q, "INCOMING_SUCCESS", identifier, p)' > 0 => PasswordOf[p][identifier] = PasswordOf[q][identifier]
      BY <3>1, <3>2, <3>3 DEF ResultsAreTrue
    <3>. QED BY <3>4 DEF ResultsAreTrue, ResultOf
  <2>. QED BY <2>2, <2>3
<1>7. PairsAgree'
  BY <1>6 DEF PairsAgree
<1>. QED BY <1>2, <1>3, <1>4, <1>7, PartsAfter

\* Connections made and lost: no result is added to a queue.
LEMMA AuthLinksKeep ==
  ASSUME AuthIInv, LinksChange,
         UNCHANGED <<passwords, outgoingChallenges, generatedNonces, nextRequestId, announced, challenges>>
  PROVE  AuthIInv'
<1>1. PICK a \in System, b \in System : PeersConnect(a, b) \/ PeersLoseEachOther(a, b)
  BY DEF LinksChange
<1>2. a # b
  BY <1>1, SystemAssumption DEF PeersConnect, PeersLoseEachOther
<1>3. BoxesOK
  BY PartsOfAuth
<1>4. /\ linked \subseteq AllPairs /\ inbox \in [System -> [System -> Seq(AuthHandled)]]
      /\ \A p \in System : inbox[p][p] = <<>>
      /\ Pair(a, b) \in AllPairs
  <2>1. /\ linked \subseteq AllPairs /\ inbox \in [System -> [System -> Seq(AuthHandled)]]
        /\ \A p \in System : inbox[p][p] = <<>>
    BY <1>3 DEF BoxesOK
  <2>2. Pair(a, b) \in AllPairs
    BY <1>2 DEF Pair, AllPairs
  <2>. QED BY <2>1, <2>2
<1>5. ASSUME NEW queue \in Seq(AuthHandled)
      PROVE  \A S : Count(queue, S) \in Nat
  BY CountFacts
\* The two get new queues.
<1>6. ASSUME linked' \subseteq AllPairs, NEW first, NEW second, NEW c, NEW d,
             c \in {Notice("NEW_CONNECTION"), Notice("CLOSED_CONNECTION")},
             d \in {Notice("NEW_CONNECTION"), Notice("CLOSED_CONNECTION")},
             NEW m \in 0 .. Len(inbox[a][b]), NEW n \in 0 .. Len(inbox[b][a]),
             first = SubSeq(inbox[a][b], 1, m) \o <<c>>, second = SubSeq(inbox[b][a], 1, n) \o <<d>>,
             inbox' = [inbox EXCEPT ![a][b] = first, ![b][a] = second]
      PROVE  AuthIInv'
  <2>1. /\ first \in Seq(AuthHandled) /\ second \in Seq(AuthHandled)
        /\ \A o \in Range(first) : o \in Range(inbox[a][b]) \/ o.id # "HASHED_NONCE_AND_PASSWORD"
        /\ \A o \in Range(second) : o \in Range(inbox[b][a]) \/ o.id # "HASHED_NONCE_AND_PASSWORD"
        /\ \A result \in {"CHALLENGE_SUCCESS", "CHALLENGE_FAILURE"}, identifier \in Identifier :
             /\ Count(first, ResultOf(result, identifier)) <= Count(inbox[a][b], ResultOf(result, identifier))
             /\ Count(first, ResultOf(result, identifier)) \in Nat
             /\ Count(inbox[a][b], ResultOf(result, identifier)) \in Nat
             /\ Count(second, ResultOf(result, identifier)) <= Count(inbox[b][a], ResultOf(result, identifier))
             /\ Count(second, ResultOf(result, identifier)) \in Nat
             /\ Count(inbox[b][a], ResultOf(result, identifier)) \in Nat
    <3> DEFINE one == inbox[a][b]
               other == inbox[b][a]
    <3>1. one \in Seq(AuthHandled) /\ other \in Seq(AuthHandled) /\ m \in 0 .. Len(one) /\ n \in 0 .. Len(other)
          /\ first = SubSeq(one, 1, m) \o <<c>> /\ second = SubSeq(other, 1, n) \o <<d>>
      BY <1>4, <1>6
    <3> HIDE DEF one, other
    <3>2. /\ first \in Seq(AuthHandled)
          /\ \A o \in Range(first) : o \in Range(one) \/ o.id # "HASHED_NONCE_AND_PASSWORD"
          /\ \A result \in {"CHALLENGE_SUCCESS", "CHALLENGE_FAILURE"}, identifier \in Identifier :
               /\ Count(first, ResultOf(result, identifier)) <= Count(one, ResultOf(result, identifier))
               /\ Count(first, ResultOf(result, identifier)) \in Nat
               /\ Count(one, ResultOf(result, identifier)) \in Nat
      BY <1>6, <3>1, NoticeAdded
    <3>3. /\ second \in Seq(AuthHandled)
          /\ \A o \in Range(second) : o \in Range(other) \/ o.id # "HASHED_NONCE_AND_PASSWORD"
          /\ \A result \in {"CHALLENGE_SUCCESS", "CHALLENGE_FAILURE"}, identifier \in Identifier :
               /\ Count(second, ResultOf(result, identifier)) <= Count(other, ResultOf(result, identifier))
               /\ Count(second, ResultOf(result, identifier)) \in Nat
               /\ Count(other, ResultOf(result, identifier)) \in Nat
      BY <1>6, <3>1, NoticeAdded
    <3>. QED BY <3>2, <3>3 DEF one, other
  <2>2. /\ inbox' \in [System -> [System -> Seq(AuthHandled)]]
        /\ inbox'[a][b] = first /\ inbox'[b][a] = second
        /\ \A p \in System : inbox'[p][p] = inbox[p][p]
        /\ \A p \in System : \A q \in System \ {p} :
             (p = a /\ q = b) \/ (p = b /\ q = a) \/ inbox'[p][q] = inbox[p][q]
    BY <1>2, <1>4, <1>6, <2>1
  <2>3. ASSUME NEW p \in System, NEW q \in System \ {p} PROVE Shrinks(p, q)
    <3>1. CASE p = a /\ q = b
      BY <2>1, <2>2, <3>1 DEF Shrinks
    <3>2. CASE p = b /\ q = a
      BY <2>1, <2>2, <3>2 DEF Shrinks
    <3>3. CASE inbox'[p][q] = inbox[p][q]
      <4>1. \A S : Count(inbox[p][q], S) \in Nat
        BY <1>4, <1>5
      <4>. QED BY <3>3, <4>1 DEF Shrinks
    <3>. QED BY <2>2, <3>1, <3>2, <3>3
  <2>4. \A p \in System : inbox'[p][p] = <<>>
    BY <1>4, <2>2
  <2>. QED BY <1>6, <2>2, <2>3, <2>4, ShrinkingKeeps
<1>7. CASE PeersConnect(a, b)
  <2> DEFINE c == Notice("NEW_CONNECTION")
             none == <<>>
             news == <<c>>
  <2>1. /\ inbox[a][b] = none /\ inbox[b][a] = none /\ linked' \subseteq AllPairs
        /\ inbox' = [inbox EXCEPT ![a][b] = news, ![b][a] = news]
    BY <1>4, <1>7 DEF PeersConnect, QuietBetween
  <2>2. SubSeq(none, 1, 0) = none /\ none \o news = news /\ 0 \in 0 .. Len(none)
    BY SubSeqEmpty
  <2>3. c \in {Notice("NEW_CONNECTION"), Notice("CLOSED_CONNECTION")}
    OBVIOUS
  <2>4. /\ 0 \in 0 .. Len(inbox[a][b]) /\ 0 \in 0 .. Len(inbox[b][a])
        /\ news = SubSeq(inbox[a][b], 1, 0) \o <<c>> /\ news = SubSeq(inbox[b][a], 1, 0) \o <<c>>
    <3> HIDE DEF none
    <3>. QED BY <2>1, <2>2
  <2> HIDE DEF c, none, news
  <2>. QED BY <1>6, <2>1, <2>3, <2>4
<1>8. CASE PeersLoseEachOther(a, b)
  <2>1. PICK m \in Kept(inbox[a][b]), n \in Kept(inbox[b][a]) :
          inbox' = [inbox EXCEPT ![a][b] = Cut(@, m), ![b][a] = Cut(@, n)]
    BY <1>8 DEF PeersLoseEachOther
  <2> DEFINE c == Notice("CLOSED_CONNECTION")
             first == SubSeq(inbox[a][b], 1, m) \o <<c>>
             second == SubSeq(inbox[b][a], 1, n) \o <<c>>
  <2>2. m \in 0 .. Len(inbox[a][b]) /\ n \in 0 .. Len(inbox[b][a]) /\ linked' \subseteq AllPairs
    BY <1>4, <1>8, <2>1 DEF Kept, PeersLoseEachOther
  <2>3. inbox' = [inbox EXCEPT ![a][b] = first, ![b][a] = second]
    <3>1. Cut(inbox[a][b], m) = first /\ Cut(inbox[b][a], n) = second
      BY DEF Cut
    <3> HIDE DEF first, second
    <3>2. inbox' = [inbox EXCEPT ![a][b] = Cut(inbox[a][b], m), ![b][a] = Cut(inbox[b][a], n)]
      BY <1>2, <1>4, <2>1
    <3>. QED BY <3>1, <3>2
  <2>4. c \in {Notice("NEW_CONNECTION"), Notice("CLOSED_CONNECTION")}
    OBVIOUS
  <2>5. first = SubSeq(inbox[a][b], 1, m) \o <<c>> /\ second = SubSeq(inbox[b][a], 1, n) \o <<c>>
    OBVIOUS
  <2> HIDE DEF c, first, second
  <2>. QED BY <1>6, <2>2, <2>3, <2>4, <2>5
<1>. QED BY <1>1, <1>7, <1>8

\* Nothing is under way or told at first.
LEMMA AuthInitAgrees ==
  ASSUME AuthInit, \E pairs \in SUBSET AllPairs : LinksInit(pairs, [connects : Nat, breaks : Nat])
  PROVE  AuthIInv
<1> DEFINE none == <<>>
<1>1. /\ linked \subseteq AllPairs
      /\ inbox = [p \in System |-> [q \in System |-> none]]
  BY DEF LinksInit
<1>2. PICK budget \in ChallengeBudgets :
        challenges = [p \in System |-> [left |-> budget[p], made |-> 0, lost |-> 0]]
  BY DEF AuthInit
<1>3. budget \in [System -> Nat]
  BY ChallengeAssumption
<1>4. /\ passwords = [p \in System |-> {}] /\ outgoingChallenges = [p \in System |-> none]
      /\ generatedNonces = [p \in System |-> none] /\ nextRequestId = [p \in System |-> 0]
      /\ announced = [p \in System |-> none]
  BY DEF AuthInit
<1>5. /\ none \in Seq(AuthHandled) /\ none \in Seq(Pending) /\ none \in Seq(Nonce) /\ none \in Seq(Announcement)
      /\ Len(none) = 0 /\ Range(none) = {}
  BY DEF Range
<1>6. \A S : Count(none, S) = 0
  BY CountOne
<1> HIDE DEF none
<1>7. BoxesOK
  BY <1>1, <1>5 DEF BoxesOK, none
<1>8. BooksOK
  <2>1. challenges \in [System -> [left : Nat, made : Nat, lost : Nat]]
    <3>1. \A p \in System : [left |-> budget[p], made |-> 0, lost |-> 0] \in [left : Nat, made : Nat, lost : Nat]
      BY <1>3
    <3>. QED BY <1>2, <3>1
  <2>2. passwords \in [System -> SUBSET Identifier]
    BY <1>4
  <2>3. /\ outgoingChallenges \in [System -> Seq(Pending)] /\ generatedNonces \in [System -> Seq(Nonce)]
        /\ nextRequestId \in [System -> Nat]
    BY <1>4, <1>5
  <2>4. \A p \in System : passwords[p] = {} /\ Range(outgoingChallenges[p]) = {} /\ Range(generatedNonces[p]) = {}
    BY <1>4, <1>5
  <2>. QED BY <2>1, <2>2, <2>3, <2>4 DEF BooksOK
<1>9. \A p \in System : ChallengesCounted(p)
  BY <1>2, <1>4, <1>5, <1>6 DEF ChallengesCounted, Outcomes
<1>10. PairsAgree
  <2>1. \A p, q \in System : inbox[p][q] = none
    BY <1>1
  <2>2. ASSUME NEW p \in System, NEW q \in System \ {p}
        PROVE  HashesAreTrue(p, q)
    BY <1>5, <2>1 DEF HashesAreTrue
  <2>3. ASSUME NEW p \in System, NEW q \in System \ {p}, NEW identifier \in Identifier
        PROVE  ResultsAreTrue(p, q, identifier)
    <3>1. \A o \in System : \A outcome, r : Times(o, outcome, identifier, r) = 0
      BY <1>4, <1>6 DEF Times
    <3>2. \A result : Count(inbox[p][q], ResultOf(result, identifier)) = 0
      BY <1>6, <2>1
    <3>. QED BY <3>1, <3>2 DEF ResultsAreTrue
  <2>. QED BY <2>2, <2>3 DEF PairsAgree
<1>11. announced \in [System -> Seq(Announcement)]
  BY <1>4, <1>5
<1>. QED BY <1>7, <1>8, <1>9, <1>10, <1>11, PartsOfAuth

\* Every step keeps the invariant.
LEMMA AuthNextKeeps == AuthIInv /\ [AuthNext]_authVars => AuthIInv'
<1>. SUFFICES ASSUME AuthIInv, [AuthNext]_authVars PROVE AuthIInv'
  OBVIOUS
<1>1. ASSUME NEW p \in System, NEW q \in System,
             \/ OnNonceRequest(p, q) \/ OnNonceReply(p, q) \/ OnHashedNonceAndPassword(p, q)
             \/ OnPasswordResult(p, q)
             \/ AuthOnClosedConnection(p, q) \/ AuthOnNewConnection(p, q)
      PROVE  AuthIInv'
  BY <1>1, OnNonceRequestKeeps, OnNonceReplyKeeps, OnHashedKeeps, OnPasswordResultKeeps,
     AuthOnClosedConnectionKeeps, AuthOnNewConnectionKeeps
<1>2. ASSUME NEW p \in System,
             \/ \E identifier \in Identifier : AddPassword(p, identifier)
             \/ NonceTimesOut(p) \/ ChallengesTimeOut(p)
      PROVE  AuthIInv'
  BY <1>2, AddPasswordKeeps, NonceTimesOutKeeps, ChallengesTimeOutKeeps
<1>3. ASSUME NEW p \in System, NEW q \in System, NEW identifier \in Identifier, Challenge(p, q, identifier)
      PROVE  AuthIInv'
  BY <1>3, ChallengeKeeps
<1>4. CASE LinksChange /\ UNCHANGED <<passwords, outgoingChallenges, generatedNonces, nextRequestId, announced, challenges>>
  BY <1>4, AuthLinksKeep
<1>5. CASE UNCHANGED authVars
  <2>1. /\ linked' = linked /\ inbox' = inbox /\ passwords' = passwords /\ outgoingChallenges' = outgoingChallenges
        /\ generatedNonces' = generatedNonces /\ nextRequestId' = nextRequestId /\ announced' = announced
        /\ challenges' = challenges
    BY <1>5 DEF authVars, linkVars
  <2>2. BoxesOK' /\ announced' \in [System -> Seq(Announcement)] /\ PairsAgree'
    BY <2>1, NothingPassed
  <2>3. BooksOK /\ \A p \in System : ChallengesCounted(p)
    BY PartsOfAuth
  <2>4. BooksOK' /\ \A p \in System : ChallengesCounted(p)'
    BY <2>1, <2>3 DEF BooksOK, IsOwn, IsMade, ChallengesCounted, Outcomes
  <2>. QED BY <2>2, <2>4, PartsAfter
<1>6. \A p \in System : Senders(p) \subseteq System
  BY DEF Senders
<1>. QED BY <1>1, <1>2, <1>3, <1>4, <1>5, <1>6 DEF AuthNext

\* Each challenge is accounted for, and of what is under way or was told the
\* other side was told: hashes are made with the sender's own password, and no
\* result is sent that was not announced.
THEOREM AuthInvariant == AuthSpec => []AuthIInv
<1>1. AuthInit /\ (\E pairs \in SUBSET AllPairs : LinksInit(pairs, [connects : Nat, breaks : Nat])) => AuthIInv
  BY AuthInitAgrees
<1>2. AuthIInv /\ [AuthNext]_authVars => AuthIInv'
  BY AuthNextKeeps
<1>. QED BY <1>1, <1>2, PTL DEF AuthSpec

\* A challenge that was made is pending, was lost with its connection, or has one
\* outcome; what its maker was told of it the challenged system was told as
\* often, and a success only where the two have the same password.
THEOREM AuthChallengesAgree == AuthSpec => []ChallengesAgree
<1>1. ASSUME AuthIInv PROVE ChallengesAgree
  <2>1. BooksOK /\ BoxesOK /\ PairsAgree /\ announced \in [System -> Seq(Announcement)]
        /\ \A p \in System : ChallengesCounted(p)
    BY <1>1, PartsOfAuth
  <2>2. ASSUME NEW p \in System, NEW q \in System \ {p}, NEW identifier \in Identifier
        PROVE  /\ Times(p, "CHALLENGE_SUCCESS", identifier, q) <= Times(q, "INCOMING_SUCCESS", identifier, p)
               /\ Times(p, "CHALLENGE_FAILURE", identifier, q) <= Times(q, "INCOMING_FAILURE", identifier, p)
               /\ Times(q, "INCOMING_SUCCESS", identifier, p) > 0 =>
                    PasswordOf[p][identifier] = PasswordOf[q][identifier]
    <3>1. ResultsAreTrue(p, q, identifier)
      BY <2>1 DEF PairsAgree
    <3>2. ASSUME NEW S PROVE Count(inbox[p][q], S) \in Nat
      <4>1. inbox[p][q] \in Seq(AuthHandled)
        BY <2>1 DEF BoxesOK
      <4>. QED BY <4>1, CountFacts
    <3>3. ASSUME NEW o \in System, NEW outcome, NEW r PROVE Times(o, outcome, identifier, r) \in Nat
      <4>1. announced[o] \in Seq(Announcement)
        BY <2>1
      <4> DEFINE one == {Told(outcome, identifier, r)}
      <4> HIDE DEF one
      <4>2. Count(announced[o], one) \in Nat
        BY <4>1, CountFacts
      <4>. QED BY <4>2 DEF Times, one
    <3>. QED BY <3>1, <3>2, <3>3 DEF ResultsAreTrue
  <2>3. \A p \in System :
          challenges[p].made = challenges[p].lost + Len(outgoingChallenges[p])
            + Outcomes(p, {"CHALLENGE_SUCCESS", "CHALLENGE_FAILURE", "CHALLENGE_TIMEOUT"})
    BY <2>1 DEF ChallengesCounted
  <2>. QED BY <2>2, <2>3 DEF ChallengesAgree
<1>. QED BY <1>1, AuthInvariant, PTL

=============================================================================
