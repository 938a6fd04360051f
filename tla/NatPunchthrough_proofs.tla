----------------------- MODULE NatPunchthrough_proofs -----------------------
(***************************************************************************)
(* What holds of the facilitator and its clients together, for every set   *)
(* of clients, and however often connections are lost, punches fail and    *)
(* attempts time out.                                                      *)
(***************************************************************************)
EXTENDS NatPunchthrough, NatPunchthroughServer_proofs

-----------------------------------------------------------------------------
(* Queues of messages *)

ConnectId == "ID_NAT_CONNECT_AT_TIME"
ReadyId == "ID_NAT_CLIENT_READY"
NewsId == "ID_NAT_TARGET_UNRESPONSIVE"

LEMMA EmptyQueue ==
  ASSUME NEW S
  PROVE  /\ <<>> \in Seq(S) /\ ToSet(<<>>) = {}
         /\ \A id : AtMostOne(<<>>, id)
         /\ NewsFirst(<<>>)
<1>1. <<>> \in Seq(S) /\ Len(<<>>) = 0 /\ DOMAIN <<>> = {}
  OBVIOUS
<1>. QED BY <1>1 DEF ToSet, AtMostOne, NewsFirst

\* The receiver takes the first message.
LEMMA TailQueue ==
  ASSUME NEW S, NEW q \in Seq(S), q # <<>>
  PROVE  /\ Tail(q) \in Seq(S) /\ Head(q) \in S
         /\ ToSet(q) = ToSet(Tail(q)) \cup {Head(q)}
         /\ \A id : AtMostOne(q, id) =>
              /\ AtMostOne(Tail(q), id)
              /\ Head(q).id = id => ~InQueue(Tail(q), id)
         /\ NewsFirst(q) =>
              /\ NewsFirst(Tail(q))
              /\ Head(q).id = ConnectId => ~InQueue(Tail(q), NewsId)
<1> DEFINE n == Len(q)
           t == Tail(q)
<1>1. n \in Nat /\ n # 0 /\ DOMAIN q = 1 .. n /\ Head(q) = q[1]
  BY EmptySeq
<1>2. /\ t \in Seq(S) /\ Len(t) = n - 1
      /\ \A i \in 1 .. n - 1 : t[i] = q[i + 1]
  BY <1>1, HeadTailProperties
<1>3. DOMAIN t = 1 .. n - 1
  BY <1>1, <1>2
<1>4. \A i \in 1 .. n : q[i] \in S
  BY <1>1
<1> HIDE DEF n, t
<1>5. \A i \in 1 .. n - 1 : i + 1 \in 1 .. n /\ i + 1 # 1
  BY <1>1
<1>6. ASSUME NEW k \in 1 .. n, k # 1
      PROVE  k - 1 \in 1 .. n - 1 /\ (k - 1) + 1 = k
  BY <1>1, <1>6
<1>7. 1 \in 1 .. n
  BY <1>1
<1>8. \A x : x \in ToSet(t) <=> \E i \in 1 .. n - 1 : q[i + 1] = x
  BY <1>2, <1>3 DEF ToSet
<1>9. \A x : x \in ToSet(q) <=> \E k \in 1 .. n : q[k] = x
  BY <1>1 DEF ToSet
<1>10. ToSet(q) = ToSet(t) \cup {Head(q)}
  <2>1. ASSUME NEW k \in 1 .. n, k # 1
        PROVE  \E i \in 1 .. n - 1 : q[i + 1] = q[k]
    BY <1>6, <2>1
  <2>. QED BY <1>1, <1>5, <1>7, <1>8, <1>9, <2>1
<1>11. ASSUME NEW id, AtMostOne(q, id)
       PROVE  AtMostOne(t, id) /\ (Head(q).id = id => ~InQueue(t, id))
  <2>1. \A i, j \in 1 .. n : q[i].id = id /\ q[j].id = id => i = j
    BY <1>11 DEF AtMostOne, n
  <2>2. AtMostOne(t, id)
    <3>1. ASSUME NEW i \in 1 .. n - 1, NEW j \in 1 .. n - 1, t[i].id = id, t[j].id = id
          PROVE  i = j
      <4>1. q[i + 1].id = id /\ q[j + 1].id = id
        BY <1>2, <3>1
      <4>2. i + 1 = j + 1
        BY <1>5, <2>1, <4>1
      <4>. QED BY <1>1, <4>2
    <3>. QED BY <1>2, <3>1 DEF AtMostOne
  <2>3. ASSUME NEW x \in ToSet(t), x.id = id, Head(q).id = id
        PROVE  FALSE
    <3>1. PICK i \in 1 .. n - 1 : q[i + 1] = x
      BY <1>8
    <3>. QED BY <1>1, <1>5, <1>7, <2>1, <2>3, <3>1
  <2>. QED BY <2>2, <2>3 DEF InQueue
<1>12. ASSUME NewsFirst(q)
       PROVE  NewsFirst(t) /\ (Head(q).id = ConnectId => ~InQueue(t, NewsId))
  <2>1. \A i, j \in 1 .. n : q[i].id = ConnectId /\ q[j].id = NewsId => j < i
    BY <1>12 DEF NewsFirst, n, ConnectId, NewsId
  <2>2. NewsFirst(t)
    <3>1. ASSUME NEW i \in 1 .. n - 1, NEW j \in 1 .. n - 1, t[i].id = ConnectId, t[j].id = NewsId
          PROVE  j < i
      <4>1. q[i + 1].id = ConnectId /\ q[j + 1].id = NewsId
        BY <1>2, <3>1
      <4>2. j + 1 < i + 1
        BY <1>5, <2>1, <4>1
      <4>. QED BY <1>1, <4>2
    <3>. QED BY <1>2, <3>1 DEF NewsFirst, ConnectId, NewsId
  <2>3. ASSUME NEW x \in ToSet(t), x.id = NewsId, Head(q).id = ConnectId
        PROVE  FALSE
    <3>1. PICK i \in 1 .. n - 1 : q[i + 1] = x
      BY <1>8
    <3>2. i + 1 < 1
      BY <1>1, <1>5, <1>7, <2>1, <2>3, <3>1
    <3>. QED BY <1>1, <3>2
  <2>. QED BY <2>2, <2>3 DEF InQueue
<1>13. Head(q) \in S
  BY <1>1, <1>4, <1>7
<1>. QED BY <1>2, <1>10, <1>11, <1>12, <1>13 DEF t

\* A message goes to the end of a queue.
LEMMA AppendQueue ==
  ASSUME NEW S, NEW q \in Seq(S), NEW m \in S
  PROVE  /\ Append(q, m) \in Seq(S)
         /\ ToSet(Append(q, m)) = ToSet(q) \cup {m}
         /\ \A id : AtMostOne(q, id) /\ (m.id = id => ~InQueue(q, id))
              => AtMostOne(Append(q, m), id)
         /\ NewsFirst(q) /\ (m.id = NewsId => ~InQueue(q, ConnectId))
              => NewsFirst(Append(q, m))
<1> DEFINE n == Len(q)
           t == Append(q, m)
<1>1. n \in Nat /\ DOMAIN q = 1 .. n
  OBVIOUS
<1>2. /\ t \in Seq(S) /\ Len(t) = n + 1 /\ DOMAIN t = 1 .. n + 1
      /\ \A i \in 1 .. n : t[i] = q[i]
      /\ t[n + 1] = m
  BY <1>1
<1> HIDE DEF n, t
<1>3. 1 .. n + 1 = 1 .. n \cup {n + 1}
  BY <1>1
<1>4. ToSet(t) = ToSet(q) \cup {m}
  BY <1>1, <1>2, <1>3 DEF ToSet
<1>5. \A i \in 1 .. n : q[i] \in ToSet(q)
  BY <1>1 DEF ToSet
<1>6. ASSUME NEW id, AtMostOne(q, id), m.id = id => ~InQueue(q, id)
      PROVE  AtMostOne(t, id)
  <2>1. \A i, j \in 1 .. n : q[i].id = id /\ q[j].id = id => i = j
    BY <1>6 DEF AtMostOne, n
  <2>2. m.id = id => \A i \in 1 .. n : q[i].id # id
    BY <1>5, <1>6 DEF InQueue
  <2>3. ASSUME NEW i \in 1 .. n + 1, NEW j \in 1 .. n + 1, t[i].id = id, t[j].id = id
        PROVE  i = j
    <3>1. CASE i \in 1 .. n /\ j \in 1 .. n
      BY <1>2, <2>1, <2>3, <3>1
    <3>2. CASE i = n + 1 /\ j \in 1 .. n
      BY <1>2, <2>2, <2>3, <3>2
    <3>3. CASE j = n + 1 /\ i \in 1 .. n
      BY <1>2, <2>2, <2>3, <3>3
    <3>. QED BY <1>3, <3>1, <3>2, <3>3
  <2>. QED BY <1>2, <2>3 DEF AtMostOne
<1>7. ASSUME NewsFirst(q), m.id = NewsId => ~InQueue(q, ConnectId)
      PROVE  NewsFirst(t)
  <2>1. \A i, j \in 1 .. n : q[i].id = ConnectId /\ q[j].id = NewsId => j < i
    BY <1>7 DEF NewsFirst, n, ConnectId, NewsId
  <2>2. m.id = NewsId => \A i \in 1 .. n : q[i].id # ConnectId
    BY <1>5, <1>7 DEF InQueue
  <2>3. ASSUME NEW i \in 1 .. n + 1, NEW j \in 1 .. n + 1, t[i].id = ConnectId, t[j].id = NewsId
        PROVE  j < i
    <3>1. CASE i \in 1 .. n /\ j \in 1 .. n
      BY <1>2, <2>1, <2>3, <3>1
    <3>2. CASE i = n + 1 /\ j \in 1 .. n
      BY <1>1, <3>2
    <3>3. CASE j = n + 1 /\ i \in 1 .. n
      BY <1>2, <2>2, <2>3, <3>3
    <3>4. CASE i = n + 1 /\ j = n + 1
      BY <1>2, <2>3, <3>4 DEF ConnectId, NewsId
    <3>. QED BY <1>3, <3>1, <3>2, <3>3, <3>4
  <2>. QED BY <1>2, <2>3 DEF NewsFirst, ConnectId, NewsId
<1>. QED BY <1>2, <1>4, <1>6, <1>7 DEF t

\* Several messages go to the end of a queue.
LEMMA JoinQueue ==
  ASSUME NEW S, NEW q \in Seq(S), NEW ms \in Seq(S)
  PROVE  /\ q \o ms \in Seq(S)
         /\ ToSet(q \o ms) = ToSet(q) \cup ToSet(ms)
         /\ \A id : AtMostOne(q, id) /\ AtMostOne(ms, id) /\ (InQueue(ms, id) => ~InQueue(q, id))
                   => AtMostOne(q \o ms, id)
<1> DEFINE n == Len(q)
           k == Len(ms)
           t == q \o ms
<1>1. n \in Nat /\ DOMAIN q = 1 .. n /\ k \in Nat /\ DOMAIN ms = 1 .. k
  OBVIOUS
<1>2. /\ t \in Seq(S) /\ Len(t) = n + k /\ DOMAIN t = 1 .. n + k
      /\ \A i \in 1 .. n + k : t[i] = IF i <= n THEN q[i] ELSE ms[i - n]
  BY <1>1, ConcatProperties
<1> HIDE DEF n, k, t
<1>3. ASSUME NEW i \in 1 .. n + k
      PROVE  IF i <= n THEN i \in 1 .. n ELSE i - n \in 1 .. k
  BY <1>1
<1>4. ASSUME NEW i \in 1 .. n PROVE i \in 1 .. n + k /\ i <= n
  BY <1>1
<1>5. ASSUME NEW i \in 1 .. k PROVE i + n \in 1 .. n + k /\ ~(i + n <= n) /\ (i + n) - n = i
  BY <1>1
<1>6. ToSet(t) = ToSet(q) \cup ToSet(ms)
  <2>1. \A x : x \in ToSet(t) <=> \E i \in 1 .. n + k : t[i] = x
    BY <1>2 DEF ToSet
  <2>2. \A x : x \in ToSet(q) <=> \E i \in 1 .. n : q[i] = x
    BY <1>1 DEF ToSet
  <2>3. \A x : x \in ToSet(ms) <=> \E i \in 1 .. k : ms[i] = x
    BY <1>1 DEF ToSet
  <2>4. ASSUME NEW x \in ToSet(t) PROVE x \in ToSet(q) \cup ToSet(ms)
    BY <1>2, <1>3, <2>1, <2>2, <2>3
  <2>5. ASSUME NEW x \in ToSet(q) PROVE x \in ToSet(t)
    BY <1>2, <1>4, <2>1, <2>2
  <2>6. ASSUME NEW x \in ToSet(ms) PROVE x \in ToSet(t)
    <3>1. PICK i \in 1 .. k : ms[i] = x
      BY <2>3, <2>6
    <3>2. t[i + n] = x
      BY <1>2, <1>5, <3>1
    <3>. QED BY <1>5, <2>1, <3>2
  <2>. QED BY <2>4, <2>5, <2>6
<1>7. ASSUME NEW id, AtMostOne(q, id), AtMostOne(ms, id),
             InQueue(ms, id) => ~InQueue(q, id)
      PROVE  AtMostOne(t, id)
  <2>1. \A i, j \in 1 .. n : q[i].id = id /\ q[j].id = id => i = j
    BY <1>7 DEF AtMostOne, n
  <2>2. \A i, j \in 1 .. k : ms[i].id = id /\ ms[j].id = id => i = j
    BY <1>7 DEF AtMostOne, k
  <2>3. \A i \in 1 .. n : \A j \in 1 .. k : ~(q[i].id = id /\ ms[j].id = id)
    BY <1>1, <1>7 DEF InQueue, ToSet
  <2>4. ASSUME NEW i \in 1 .. n + k, NEW j \in 1 .. n + k, t[i].id = id, t[j].id = id
        PROVE  i = j
    <3>1. CASE i <= n /\ j <= n
      BY <1>2, <1>3, <2>1, <2>4, <3>1
    <3>2. CASE i <= n /\ ~(j <= n)
      BY <1>2, <1>3, <2>3, <2>4, <3>2
    <3>3. CASE ~(i <= n) /\ j <= n
      BY <1>2, <1>3, <2>3, <2>4, <3>3
    <3>4. CASE ~(i <= n) /\ ~(j <= n)
      <4>1. i - n = j - n
        BY <1>2, <1>3, <2>2, <2>4, <3>4
      <4>. QED BY <1>1, <4>1
    <3>. QED BY <3>1, <3>2, <3>3, <3>4
  <2>. QED BY <1>2, <2>4 DEF AtMostOne
<1>. QED BY <1>2, <1>6, <1>7 DEF t

\* One message, or two.
LEMMA ShortQueue ==
  ASSUME NEW S, NEW a \in S, NEW b \in S
  PROVE  /\ <<a>> \in Seq(S) /\ ToSet(<<a>>) = {a}
         /\ \A id : AtMostOne(<<a>>, id)
         /\ <<a, b>> \in Seq(S) /\ ToSet(<<a, b>>) = {a, b}
         /\ \A id : ~(a.id = id /\ b.id = id) => AtMostOne(<<a, b>>, id)
<1>1. /\ <<a>> \in Seq(S) /\ DOMAIN <<a>> = {1} /\ Len(<<a>>) = 1 /\ <<a>>[1] = a
      /\ 1 .. 1 = {1}
  OBVIOUS
<1>2. /\ <<a, b>> \in Seq(S) /\ DOMAIN <<a, b>> = {1, 2} /\ Len(<<a, b>>) = 2
      /\ <<a, b>>[1] = a /\ <<a, b>>[2] = b /\ 1 .. 2 = {1, 2}
  OBVIOUS
<1>3. ToSet(<<a>>) = {a} /\ \A id : AtMostOne(<<a>>, id)
  BY <1>1 DEF ToSet, AtMostOne
<1>4. ToSet(<<a, b>>) = {a, b}
  BY <1>2 DEF ToSet
<1>5. ASSUME NEW id, ~(a.id = id /\ b.id = id) PROVE AtMostOne(<<a, b>>, id)
  <2> DEFINE q == <<a, b>>
  <2> HIDE DEF q
  <2>1. Len(q) = 2 /\ q[1] = a /\ q[2] = b /\ 1 .. 2 = {1, 2}
    BY <1>2 DEF q
  <2>. QED BY <1>5, <2>1 DEF q, AtMostOne
<1>. QED BY <1>1, <1>2, <1>3, <1>4, <1>5

-----------------------------------------------------------------------------
(* A step of the facilitator, as client g sees it *)

Told(g) == InQueue(toClient[g], ConnectId)
Done(g) == InQueue(toServer[g], ReadyId)

OneAttempt(g) ==
  \A c1, c2 \in DOMAIN attempts :
    InProgress(c1) /\ InProgress(c2) /\ Involves(c1, g) /\ Involves(c2, g) => c1 = c2

Sends(g, id) == \E m \in ToSet(sent') : m.to = g /\ m.id = id

\* What the step sends to g is all that is new in the queue of g, but for the
\* answer to ID_NAT_REQUEST_BOUND_ADDRESSES.
Delivers(g) ==
  /\ ToSet(toClient'[g])
       \subseteq ToSet(toClient[g]) \cup {m \in ToSet(sent') : m.to = g} \cup BoundAddresses
  /\ AtMostOne(toClient[g], ConnectId) /\ ~(Told(g) /\ Sends(g, ConnectId))
       => AtMostOne(toClient'[g], ConnectId)
  /\ NewsFirst(toClient[g]) /\ ~(Told(g) /\ Sends(g, NewsId)) => NewsFirst(toClient'[g])

\* It arrives, and nothing is lost, as long as g is connected.
Arrives(g) ==
  g \notin gone =>
    ToSet(toClient[g]) \cup {m \in ToSet(sent') : m.to = g} \subseteq ToSet(toClient'[g])

\* No step sends more than one message to a client.
OneEach ==
  \/ sent' = <<>>
  \/ \E m : sent' = <<m>>
  \/ \E m1, m2 : sent' = <<m1, m2>> /\ m1.to # m2.to

\* The turn of g passes on at most from one place to the next.
Moves(g) ==
  /\ OneAttempt(g)'
  /\ InAttempt(g)' => InAttempt(g) \/ (isReady[g] /\ ~isReady'[g])
  /\ isReady'[g] => \/ isReady[g]
                    \/ InAttempt(g) /\ ~InAttempt(g)'
                    \/ Done(g) /\ ~Done(g)'
  /\ Sends(g, ConnectId) => InAttempt(g) /\ ~InAttempt(g)' /\ ~isReady'[g]
  /\ Sends(g, NewsId) => InAttempt(g)
  /\ \A m \in ToSet(sent') : m.to = g /\ m.id = ConnectId => m.peer # g

Asked(g, r) ==
  \/ Request(r) \in ToSet(toServer[g])
  \/ \E ca \in DOMAIN attempts : attempts[ca].sender = g /\ attempts[ca].recipient = r

\* Nothing the facilitator owes g is dropped.
Keeps(g) ==
  /\ \A m \in ToSet(sent') : m.id \notin LossNews
  /\ \A r \in Guid : Asked(g, r) =>
       Asked(g, r)' \/ \E m \in ToSet(sent') : m.to = g /\ Concerns(m, r)
  /\ isReady[g] \/ InAttempt(g) \/ Done(g) =>
       isReady'[g] \/ InAttempt(g)' \/ Done(g)' \/ Sends(g, ConnectId)

LEMMA DeliverFacts ==
  ASSUME NetTypeOK, Deliver, sent' \in Seq(Message), OneEach
  PROVE  /\ toClient' \in [Guid -> Seq(Message \cup BoundAddresses)]
         /\ \A g \in Guid : Delivers(g) /\ Arrives(g)
<1> DEFINE S == Message \cup BoundAddresses
<1>1. \A g \in Guid : toClient[g] \in Seq(S)
  BY DEF NetTypeOK
<1>2. \A g \in Guid : toClient'[g] = Received(g, 2, Received(g, 1, toClient[g]))
  BY DEF Deliver
<1> DEFINE Good(g) ==
             /\ toClient'[g] \in Seq(S)
             /\ \/ /\ toClient'[g] = toClient[g]
                   /\ g \notin gone => {m \in ToSet(sent') : m.to = g} = {}
                \/ \E m \in S : /\ {x \in ToSet(sent') : x.to = g} = {m}
                                /\ toClient'[g] = Append(toClient[g], m)
<1>3. ASSUME NEW g \in Guid PROVE Good(g)
  <2>1. CASE sent' = <<>>
    <3>1. DOMAIN sent' = {} /\ ToSet(sent') = {}
      BY <2>1, EmptyQueue
    <3>2. toClient'[g] = toClient[g]
      BY <1>2, <3>1 DEF Received
    <3>. QED BY <1>1, <3>1, <3>2
  <2>2. ASSUME NEW m, sent' = <<m>> PROVE Good(g)
    <3>. m \in Message
      BY <2>2
    <3>1. DOMAIN sent' = {1} /\ sent'[1] = m /\ ToSet(sent') = {m}
      <4>1. DOMAIN sent' = {1} /\ sent'[1] = m
        BY <2>2
      <4>2. ToSet(<<m>>) = {m}
        BY ShortQueue
      <4>. QED BY <2>2, <4>1, <4>2
    <3>2. toClient'[g] = Received(g, 1, toClient[g])
      BY <1>2, <3>1 DEF Received
    <3>3. CASE m.to = g /\ g \notin gone
      <4>1. toClient'[g] = Append(toClient[g], m)
        BY <3>1, <3>2, <3>3 DEF Received
      <4>2. Append(toClient[g], m) \in Seq(S)
        BY <1>1
      <4>3. {x \in ToSet(sent') : x.to = g} = {m}
        BY <3>1, <3>3
      <4>. QED BY <4>1, <4>2, <4>3
    <3>4. CASE ~(m.to = g /\ g \notin gone)
      <4>1. toClient'[g] = toClient[g]
        BY <3>1, <3>2, <3>4 DEF Received
      <4>. QED BY <1>1, <3>1, <3>4, <4>1
    <3>. QED BY <3>3, <3>4
  <2>3. ASSUME NEW m1, NEW m2, sent' = <<m1, m2>>, m1.to # m2.to
        PROVE  Good(g)
    <3>. m1 \in Message /\ m2 \in Message
      BY <2>3
    <3>1. DOMAIN sent' = {1, 2} /\ sent'[1] = m1 /\ sent'[2] = m2 /\ ToSet(sent') = {m1, m2}
      <4>1. DOMAIN sent' = {1, 2} /\ sent'[1] = m1 /\ sent'[2] = m2
        BY <2>3
      <4>2. ToSet(<<m1, m2>>) = {m1, m2}
        BY ShortQueue
      <4>. QED BY <2>3, <4>1, <4>2
    <3>2. CASE m1.to = g /\ g \notin gone
      <4>1. toClient'[g] = Append(toClient[g], m1)
        BY <1>2, <2>3, <3>1, <3>2 DEF Received
      <4>2. Append(toClient[g], m1) \in Seq(S)
        BY <1>1
      <4>3. {x \in ToSet(sent') : x.to = g} = {m1}
        BY <2>3, <3>1, <3>2
      <4>. QED BY <4>1, <4>2, <4>3
    <3>3. CASE m2.to = g /\ g \notin gone
      <4>1. toClient'[g] = Append(toClient[g], m2)
        BY <1>2, <2>3, <3>1, <3>3 DEF Received
      <4>2. Append(toClient[g], m2) \in Seq(S)
        BY <1>1
      <4>3. {x \in ToSet(sent') : x.to = g} = {m2}
        BY <2>3, <3>1, <3>3
      <4>. QED BY <4>1, <4>2, <4>3
    <3>4. CASE ~(m1.to = g /\ g \notin gone) /\ ~(m2.to = g /\ g \notin gone)
      <4>1. toClient'[g] = toClient[g]
        BY <1>2, <3>1, <3>4 DEF Received
      <4>. QED BY <1>1, <3>1, <3>4, <4>1
    <3>. QED BY <3>2, <3>3, <3>4
  <2>. QED BY <2>1, <2>2, <2>3 DEF OneEach
<1>4. toClient' \in [Guid -> Seq(S)]
  BY <1>3 DEF Deliver
<1>5. ASSUME NEW g \in Guid PROVE Delivers(g) /\ Arrives(g)
  <2>1. CASE /\ toClient'[g] = toClient[g]
             /\ g \notin gone => {m \in ToSet(sent') : m.to = g} = {}
    BY <2>1 DEF Delivers, Arrives
  <2>2. ASSUME NEW m \in S, {x \in ToSet(sent') : x.to = g} = {m},
               toClient'[g] = Append(toClient[g], m)
        PROVE  Delivers(g) /\ Arrives(g)
    <3> DEFINE q == toClient[g]
               long == Append(q, m)
    <3>1. q \in Seq(S)
      BY <1>1
    <3> HIDE DEF q, S
    <3>2. /\ ToSet(long) = ToSet(q) \cup {m}
          /\ \A id : AtMostOne(q, id) /\ (m.id = id => ~InQueue(q, id)) => AtMostOne(long, id)
          /\ NewsFirst(q) /\ (m.id = NewsId => ~InQueue(q, ConnectId)) => NewsFirst(long)
      BY <2>2, <3>1, AppendQueue
    <3> HIDE DEF long
    <3>3. toClient'[g] = long /\ toClient[g] = q
      BY <2>2 DEF long, q
    <3>4. \A id : m.id = id => Sends(g, id)
      BY <2>2 DEF Sends
    <3>5. Delivers(g)
      <4>1. ToSet(long) \subseteq ToSet(q) \cup {x \in ToSet(sent') : x.to = g} \cup BoundAddresses
        BY <2>2, <3>2
      <4>2. AtMostOne(q, ConnectId) /\ ~(InQueue(q, ConnectId) /\ Sends(g, ConnectId))
              => AtMostOne(long, ConnectId)
        BY <3>2, <3>4
      <4>3. NewsFirst(q) /\ ~(InQueue(q, ConnectId) /\ Sends(g, NewsId)) => NewsFirst(long)
        BY <3>2, <3>4
      <4>. QED BY <3>3, <4>1, <4>2, <4>3 DEF Delivers, Told
    <3>6. Arrives(g)
      BY <2>2, <3>2, <3>3 DEF Arrives
    <3>. QED BY <3>5, <3>6
  <2>. QED BY <1>3, <2>1, <2>2
<1>. QED BY <1>4, <1>5

\* A step that moves the turn of g as Moves says keeps what is known of g.
LEMMA ServerGood ==
  ASSUME NEW g \in Guid, ClientGood(g), Moves(g), Delivers(g),
         UNCHANGED <<sp, hasPortStride, queuedOpenNat>>,
         ToSet(toServer'[g]) \subseteq ToSet(toServer[g]),
         AtMostOne(toServer'[g], ReadyId)
  PROVE  ClientGood(g)'
<1>1. Done(g)' => Done(g)
  BY DEF Done, InQueue
<1>2. \A id : InQueue(toClient'[g], id) => InQueue(toClient[g], id) \/ Sends(g, id)
                                           \/ id = "ID_NAT_RESPOND_BOUND_ADDRESSES"
  BY DEF Delivers, InQueue, Sends, BoundAddresses
<1>3. Told(g)' => Told(g) \/ Sends(g, ConnectId)
  BY <1>2 DEF Told, ConnectId
<1>4. /\ OneAttempt(g)
      /\ AtMostOne(toClient[g], ConnectId)
      /\ isReady[g] => ~InAttempt(g) /\ ~Told(g) /\ ~sp[g].active /\ ~Done(g)
      /\ InAttempt(g) => ~Told(g) /\ ~sp[g].active /\ ~Done(g)
      /\ Told(g) => ~sp[g].active /\ ~Done(g)
      /\ sp[g].active => ~Done(g)
  BY Zenon DEF ClientGood, OneTurn, OneAttempt, Told, Done, ConnectId, ReadyId
<1>5. OneAttempt(g)' /\ AtMostOne(toClient'[g], ConnectId)
  BY <1>4 DEF Moves, Delivers
<1>6. /\ isReady'[g] => ~InAttempt(g)' /\ ~Told(g)' /\ ~sp'[g].active /\ ~Done(g)'
      /\ InAttempt(g)' => ~Told(g)' /\ ~sp'[g].active /\ ~Done(g)'
      /\ Told(g)' => ~sp'[g].active /\ ~Done(g)'
      /\ sp'[g].active => ~Done(g)'
  BY <1>1, <1>3, <1>4 DEF Moves
<1>7. OneTurn(g)'
  BY <1>5, <1>6, Zenon DEF OneTurn, OneAttempt, Told, Done, ConnectId, ReadyId
<1>8. NewsBeforePunch(g)'
  <2>1. NewsFirst(toClient'[g])
    BY <1>4 DEF ClientGood, NewsBeforePunch, Moves, Delivers
  <2>2. sp'[g].active => ~InQueue(toClient'[g], NewsId)
    BY <1>2, <1>4 DEF ClientGood, NewsBeforePunch, Moves, NewsId
  <2>. QED BY <2>1, <2>2 DEF NewsBeforePunch, NewsId
<1>9. NotItself(g)'
  BY DEF ClientGood, NotItself, Delivers, Moves, ConnectId, BoundAddresses
<1>10. QueuesWhileCalculating(g)'
  BY DEF ClientGood, QueuesWhileCalculating
<1>. QED BY <1>7, <1>8, <1>9, <1>10 DEF ClientGood

\* So does one that keeps what Keeps says, while all are connected.
LEMMA ServerAttends ==
  ASSUME NEW g \in Guid, g \notin gone, NetTypeOK, AttendedTo(g),
         Delivers(g), Arrives(g), Keeps(g),
         UNCHANGED <<sp, queuedOpenNat, awaiting>>
  PROVE  AttendedTo(g)'
<1>1. \A m \in ToSet(toClient'[g]) : m.id \notin LossNews
  BY DEF AttendedTo, Delivers, Keeps, BoundAddresses, LossNews
<1>2. ASSUME NEW r \in awaiting'[g] PROVE UnderWay(g, r)'
  <2>1. r \in Guid /\ UnderWay(g, r)
    BY <1>2 DEF NetTypeOK, AttendedTo
  <2>2. CASE r \in ToSet(queuedOpenNat[g])
    BY <2>2 DEF UnderWay
  <2>3. CASE Asked(g, r)
    <3>1. CASE Asked(g, r)'
      BY <3>1 DEF Asked, UnderWay
    <3>2. CASE \E m \in ToSet(sent') : m.to = g /\ Concerns(m, r)
      BY <3>2 DEF Arrives, UnderWay
    <3>. QED BY <2>1, <2>3, <3>1, <3>2 DEF Keeps
  <2>4. CASE \E m \in ToSet(toClient[g]) : Concerns(m, r)
    BY <2>4 DEF Arrives, UnderWay
  <2>5. CASE sp[g].active /\ sp[g].weAreSender /\ sp[g].target = r
    BY <2>5 DEF UnderWay
  <2>. QED BY <2>1, <2>2, <2>3, <2>4, <2>5 DEF UnderWay, Asked
<1>3. (isReady[g] \/ Busy(g))'
  <2>1. isReady[g] \/ InAttempt(g) \/ Told(g) \/ sp[g].active \/ Done(g)
    BY Zenon DEF AttendedTo, Busy, Told, Done, ConnectId, ReadyId
  <2>2. Told(g) \/ Sends(g, ConnectId) => Told(g)'
    BY DEF Arrives, Told, InQueue, Sends
  <2>3. isReady'[g] \/ InAttempt(g)' \/ Told(g)' \/ sp'[g].active \/ Done(g)'
    BY <2>1, <2>2 DEF Keeps
  <2>. QED BY <2>3, Zenon DEF Busy, Told, Done, ConnectId, ReadyId
<1>. QED BY <1>1, <1>2, <1>3 DEF AttendedTo

-----------------------------------------------------------------------------
(* The steps of the facilitator *)

\* Attempts in progress are at most those there were.
LEMMA InProgressKept ==
  ASSUME \A ca \in DOMAIN attempts' : InProgress(ca)' =>
           /\ ca \in DOMAIN attempts /\ InProgress(ca)
           /\ attempts'[ca].sender = attempts[ca].sender
           /\ attempts'[ca].recipient = attempts[ca].recipient,
         NEW g, OneAttempt(g)
  PROVE  OneAttempt(g)' /\ (InAttempt(g)' => InAttempt(g))
BY DEF OneAttempt, InAttempt, Involves

\* An attempt in progress that ends was the only one of its ends.
LEMMA AttemptEnds ==
  ASSUME NEW ca \in DOMAIN attempts,
         attempts' = [p \in DOMAIN attempts \ {ca} |-> attempts[p]],
         NEW g, OneAttempt(g)
  PROVE  /\ OneAttempt(g)' /\ (InAttempt(g)' => InAttempt(g))
         /\ InProgress(ca) /\ Involves(ca, g) => InAttempt(g) /\ ~InAttempt(g)'
         /\ ~Involves(ca, g) /\ InAttempt(g) => InAttempt(g)'
<1>1. /\ DOMAIN attempts' = DOMAIN attempts \ {ca}
      /\ \A p \in DOMAIN attempts' : attempts'[p] = attempts[p]
  OBVIOUS
<1>2. \A p \in DOMAIN attempts' : /\ InProgress(p)' <=> InProgress(p)
                                  /\ Involves(p, g)' <=> Involves(p, g)
  BY <1>1 DEF InProgress, Involves
<1>3. OneAttempt(g)' /\ (InAttempt(g)' => InAttempt(g))
  BY <1>1, <1>2 DEF OneAttempt, InAttempt
<1>4. ASSUME InProgress(ca), Involves(ca, g) PROVE InAttempt(g) /\ ~InAttempt(g)'
  BY <1>1, <1>2, <1>4 DEF OneAttempt, InAttempt
<1>5. ASSUME ~Involves(ca, g), InAttempt(g) PROVE InAttempt(g)'
  BY <1>1, <1>2, <1>5 DEF InAttempt
<1>. QED BY <1>3, <1>4, <1>5

\* A step that sends nothing, makes nobody ready and ends no attempt.
LEMMA QuietStep ==
  ASSUME NEW g \in Guid, OneAttempt(g), sent' = <<>>,
         DOMAIN attempts' = DOMAIN attempts,
         \A ca \in DOMAIN attempts :
           /\ attempts'[ca].sender = attempts[ca].sender
           /\ attempts'[ca].recipient = attempts[ca].recipient
           /\ attempts'[ca].attemptPhase = attempts[ca].attemptPhase,
         isReady'[g] => isReady[g]
  PROVE  /\ Moves(g)
         /\ /\ isReady[g] => isReady'[g]
            /\ Done(g) => Done(g)'
            /\ \A r \in Guid : Request(r) \in ToSet(toServer[g])
                                => Request(r) \in ToSet(toServer'[g])
            => Keeps(g)
<1>1. \A ca \in DOMAIN attempts : InProgress(ca)' <=> InProgress(ca)
  BY DEF InProgress
<1>2. OneAttempt(g)' /\ (InAttempt(g)' <=> InAttempt(g))
  BY <1>1 DEF OneAttempt, InAttempt, Involves
<1>3. ToSet(sent') = {}
  BY EmptyQueue
<1>4. Moves(g)
  BY <1>2, <1>3 DEF Moves, Sends
<1>5. ASSUME isReady[g] => isReady'[g], Done(g) => Done(g)',
             \A r \in Guid : Request(r) \in ToSet(toServer[g])
                             => Request(r) \in ToSet(toServer'[g])
      PROVE  Keeps(g)
  <2>1. \A r \in Guid : Asked(g, r) => Asked(g, r)'
    BY <1>5 DEF Asked, Request
  <2>. QED BY <1>2, <1>3, <1>5, <2>1 DEF Keeps
<1>. QED BY <1>4, <1>5

\* The facilitator reads the first message of client c.
LEMMA ConsumeFacts ==
  ASSUME NetTypeOK, NEW c \in Guid, toServer[c] # <<>>, Consume(c)
  PROVE  /\ toServer' \in [Guid -> Seq(ToServerMessage)]
         /\ Head(toServer[c]) \in ToServerMessage /\ Head(toServer[c]) \in ToSet(toServer[c])
         /\ \A g \in Guid :
              /\ ToSet(toServer'[g]) \subseteq ToSet(toServer[g])
              /\ AtMostOne(toServer[g], ReadyId) => AtMostOne(toServer'[g], ReadyId)
              /\ \A x \in ToSet(toServer[g]) :
                   x \in ToSet(toServer'[g]) \/ (g = c /\ x = Head(toServer[c]))
              /\ g # c \/ Head(toServer[c]).id # ReadyId => (Done(g) => Done(g)')
         /\ Head(toServer[c]).id = ReadyId /\ AtMostOne(toServer[c], ReadyId)
              => Done(c) /\ ~Done(c)'
<1> DEFINE q == toServer[c]
<1>1. q \in Seq(ToServerMessage) /\ q # <<>>
  BY DEF NetTypeOK
<1>2. toServer' = [toServer EXCEPT ![c] = Tail(q)]
  BY DEF Consume
<1>3. toServer \in [Guid -> Seq(ToServerMessage)]
  BY DEF NetTypeOK
<1>4. /\ Tail(q) \in Seq(ToServerMessage) /\ Head(q) \in ToServerMessage
      /\ ToSet(q) = ToSet(Tail(q)) \cup {Head(q)}
      /\ AtMostOne(q, ReadyId) =>
           /\ AtMostOne(Tail(q), ReadyId)
           /\ Head(q).id = ReadyId => ~InQueue(Tail(q), ReadyId)
  BY <1>1, TailQueue
<1> DEFINE t == Tail(q)
           h == Head(q)
<1> HIDE DEF t, h
<1>5. toServer'[c] = t /\ \A g \in Guid : g # c => toServer'[g] = toServer[g]
  BY <1>2, <1>3 DEF t
<1>6. toServer' \in [Guid -> Seq(ToServerMessage)]
  BY <1>2, <1>3, <1>4
<1>7. /\ ToSet(q) = ToSet(t) \cup {h}
      /\ AtMostOne(q, ReadyId) => AtMostOne(t, ReadyId) /\ (h.id = ReadyId => ~InQueue(t, ReadyId))
  BY <1>4 DEF t, h
<1>8. ASSUME NEW g \in Guid
      PROVE  /\ ToSet(toServer'[g]) \subseteq ToSet(toServer[g])
             /\ AtMostOne(toServer[g], ReadyId) => AtMostOne(toServer'[g], ReadyId)
             /\ \A x \in ToSet(toServer[g]) : x \in ToSet(toServer'[g]) \/ (g = c /\ x = h)
             /\ g # c \/ h.id # ReadyId => (Done(g) => Done(g)')
  <2>1. CASE g = c
    BY <1>5, <1>7, <2>1 DEF Done, InQueue
  <2>2. CASE g # c
    BY <1>5, <2>2 DEF Done
  <2>. QED BY <2>1, <2>2
<1>9. h.id = ReadyId /\ AtMostOne(q, ReadyId) => Done(c) /\ ~Done(c)'
  BY <1>5, <1>7 DEF Done, InQueue
<1>. QED BY <1>4, <1>6, <1>7, <1>8, <1>9 DEF h

\* What is shown of every step of the facilitator.
Orderly ==
  /\ OneEach
  /\ OverdueIsInProgress'
  /\ \A g \in Guid : Moves(g) /\ (gone = {} /\ users = Guid /\ closing = {} => Keeps(g))

LEMMA RequestOrderly ==
  ASSUME IInv, NetTypeOK, OverdueIsInProgress, NEW c \in Guid,
         \A g \in Guid : OneAttempt(g),
         toServer[c] # <<>>, Consume(c), NEW r \in Guid, r # c,
         Head(toServer[c]) = Request(r), OnNATPunchthroughRequest(c, r)
  PROVE  Orderly
<1>1. \A g \in Guid :
        /\ \A x \in ToSet(toServer[g]) : x \in ToSet(toServer'[g]) \/ (g = c /\ x = Request(r))
        /\ Done(g) => Done(g)'
  <2> DEFINE h == Head(toServer[c])
  <2>1. /\ \A g \in Guid :
             /\ \A x \in ToSet(toServer[g]) : x \in ToSet(toServer'[g]) \/ (g = c /\ x = h)
             /\ g # c \/ h.id # ReadyId => (Done(g) => Done(g)')
        /\ h.id = ReadyId /\ AtMostOne(toServer[c], ReadyId) => Done(c) /\ ~Done(c)'
    BY ConsumeFacts
  <2>2. h = Request(r) /\ h.id # ReadyId
    BY DEF Request, ReadyId
  <2> HIDE DEF h
  <2>. QED BY <2>1, <2>2
<1>2. UNCHANGED <<users, isReady>>
  BY DEF OnNATPunchthroughRequest
<1>3. ASSUME NEW g \in Guid, NEW x \in Guid, Request(x) \in ToSet(toServer[g])
      PROVE  Request(x) \in ToSet(toServer'[g]) \/ (g = c /\ x = r)
  BY <1>1, <1>3 DEF Request
<1>4. ASSUME NEW why, why = "ID_NAT_ALREADY_IN_PROGRESS"
                       \/ (why = "ID_NAT_TARGET_NOT_CONNECTED" /\ r \notin users),
             Refuse(c, r, why)
      PROVE  Orderly
  <2> DEFINE m == [to |-> c, id |-> why, peer |-> r]
  <2>1. sent' = <<m>> /\ attempts' = attempts
    BY <1>4 DEF Refuse
  <2>2. ToSet(sent') = {m}
    BY <2>1, ShortQueue
  <2>3. m.to = c /\ m.id = why /\ m.peer = r
    OBVIOUS
  <2>4. OneEach
    BY <2>1 DEF OneEach
  <2> HIDE DEF m
  <2>5. OverdueIsInProgress'
    BY <2>1 DEF OverdueIsInProgress, InProgress
  <2>6. ASSUME NEW g \in Guid PROVE Moves(g)
    <3>1. OneAttempt(g)' /\ (InAttempt(g)' <=> InAttempt(g))
      BY <2>1 DEF OneAttempt, InAttempt, InProgress, Involves
    <3>2. ~Sends(g, ConnectId) /\ ~Sends(g, NewsId)
      BY <1>4, <2>2, <2>3 DEF Sends, ConnectId, NewsId
    <3>. QED BY <1>2, <3>1, <3>2 DEF Moves, Sends
  <2>7. ASSUME NEW g \in Guid, users = Guid PROVE Keeps(g)
    <3>1. m.id \notin LossNews
      BY <1>4, <2>3, <2>7 DEF LossNews
    <3>2. ASSUME NEW x \in Guid, Asked(g, x)
          PROVE  Asked(g, x)' \/ \E y \in ToSet(sent') : y.to = g /\ Concerns(y, x)
      <4>1. CASE Request(x) \in ToSet(toServer[g])
        <5>1. CASE Request(x) \in ToSet(toServer'[g])
          BY <5>1 DEF Asked, Request
        <5>2. CASE g = c /\ x = r
          BY <1>4, <2>2, <2>3, <5>2 DEF Concerns, Failure
        <5>. QED BY <1>3, <4>1, <5>1, <5>2
      <4>2. CASE Request(x) \notin ToSet(toServer[g])
        BY <2>1, <3>2, <4>2 DEF Asked
      <4>. QED BY <4>1, <4>2
    <3>3. InAttempt(g) => InAttempt(g)'
      BY <2>1 DEF InAttempt, InProgress, Involves
    <3>. QED BY <1>1, <1>2, <2>2, <3>1, <3>2, <3>3 DEF Keeps
  <2>. QED BY <2>4, <2>5, <2>6, <2>7 DEF Orderly
<1>5. ASSUME NEW ca \in Ptr \ DOMAIN attempts, NEW new, sent' = <<>>,
             new = [sender |-> c, recipient |-> r, sessionId |-> sessionId,
                    attemptPhase |-> "NOT_STARTED", overdue |-> FALSE],
             attempts' = [p \in DOMAIN attempts \cup {ca} |->
                            IF p = ca THEN new ELSE attempts[p]]
      PROVE  Orderly
  <2>1. /\ DOMAIN attempts' = DOMAIN attempts \cup {ca}
        /\ attempts'[ca] = new
        /\ \A p \in DOMAIN attempts : attempts'[p] = attempts[p]
    BY <1>5
  <2>2. /\ new.attemptPhase = "NOT_STARTED" /\ ~new.overdue
        /\ new.sender = c /\ new.recipient = r
    BY <1>5
  <2>3. OneEach /\ ToSet(sent') = {}
    BY <1>5, EmptyQueue DEF OneEach
  <2>4. OverdueIsInProgress'
    BY <2>1, <2>2 DEF OverdueIsInProgress, InProgress
  <2>5. ASSUME NEW g \in Guid PROVE Moves(g)
    <3>1. OneAttempt(g)' /\ (InAttempt(g)' => InAttempt(g))
      <4>1. \A p \in DOMAIN attempts' : InProgress(p)' =>
              /\ p \in DOMAIN attempts /\ InProgress(p)
              /\ attempts'[p].sender = attempts[p].sender
              /\ attempts'[p].recipient = attempts[p].recipient
        BY <2>1, <2>2 DEF InProgress
      <4>. QED BY <4>1, InProgressKept
    <3>. QED BY <1>2, <2>3, <3>1 DEF Moves, Sends
  <2>6. ASSUME NEW g \in Guid PROVE Keeps(g)
    <3>1. ASSUME NEW x \in Guid, Asked(g, x) PROVE Asked(g, x)'
      <4>1. CASE Request(x) \in ToSet(toServer[g])
        <5>1. CASE Request(x) \in ToSet(toServer'[g])
          BY <5>1 DEF Asked, Request
        <5>2. CASE g = c /\ x = r
          BY <2>1, <2>2, <5>2 DEF Asked
        <5>. QED BY <1>3, <4>1, <5>1, <5>2
      <4>2. CASE Request(x) \notin ToSet(toServer[g])
        BY <2>1, <3>1, <4>2 DEF Asked
      <4>. QED BY <4>1, <4>2
    <3>2. InAttempt(g) => InAttempt(g)'
      BY <2>1 DEF InAttempt, InProgress, Involves
    <3>. QED BY <1>1, <1>2, <2>3, <3>1, <3>2 DEF Keeps
  <2>. QED BY <2>3, <2>4, <2>5, <2>6 DEF Orderly
<1>. QED BY <1>4, <1>5 DEF OnNATPunchthroughRequest

LEMMA PortOrderly ==
  ASSUME IInv, NetTypeOK, OverdueIsInProgress, NEW c \in Guid,
         \A g \in Guid : OneAttempt(g) /\ (isReady[g] => ~InAttempt(g)),
         toServer[c] # <<>>, Consume(c), NEW s, NEW port,
         Head(toServer[c]).id = "ID_NAT_GET_MOST_RECENT_PORT",
         OnGetMostRecentPort(c, s, port)
  PROVE  Orderly
<1> DEFINE ports == [mostRecentPort EXCEPT ![c] = port]
           list == connectionAttempts[c]
<1>1. \A g \in Guid :
        /\ \A r \in Guid : Request(r) \in ToSet(toServer[g])
                          => Request(r) \in ToSet(toServer'[g])
        /\ Done(g) => Done(g)'
  <2> DEFINE h == Head(toServer[c])
  <2>1. /\ \A g \in Guid :
             /\ \A x \in ToSet(toServer[g]) : x \in ToSet(toServer'[g]) \/ (g = c /\ x = h)
             /\ g # c \/ h.id # ReadyId => (Done(g) => Done(g)')
        /\ h.id = ReadyId /\ AtMostOne(toServer[c], ReadyId) => Done(c) /\ ~Done(c)'
    BY ConsumeFacts
  <2>2. h.id # ReadyId /\ \A r \in Guid : h # Request(r)
    BY DEF Request, ReadyId
  <2> HIDE DEF h
  <2>. QED BY <2>1, <2>2
<1>2. UNCHANGED <<users, isReady>>
  BY DEF OnGetMostRecentPort
<1>3. CASE sent' = <<>> /\ UNCHANGED attempts
  <2>1. \A g \in Guid : Moves(g) /\ Keeps(g)
    BY <1>1, <1>2, <1>3, QuietStep
  <2>. QED BY <1>3, <2>1 DEF Orderly, OneEach, OverdueIsInProgress, InProgress
<1>4. ASSUME NEW ca, ca \in Answered(s, ports), sent' = ConnectAtTime(ca, ports), Delete(ca)
      PROVE  Orderly
  <2> DEFINE a == attempts[ca]
             m1 == [to |-> a.recipient, id |-> ConnectId, session |-> a.sessionId,
                    peer |-> a.sender, port |-> ports[a.sender], weAreSender |-> FALSE]
             m2 == [to |-> a.sender, id |-> ConnectId, session |-> a.sessionId,
                    peer |-> a.recipient, port |-> ports[a.recipient], weAreSender |-> TRUE]
  <2>1. /\ ca \in DOMAIN attempts /\ InProgress(ca)
        /\ attempts' = [p \in DOMAIN attempts \ {ca} |-> attempts[p]]
    BY <1>4 DEF Answered, Delete
  <2>2. sent' = <<m1, m2>>
    BY <1>4 DEF ConnectAtTime, ConnectId
  <2>3. a.sender \in Guid /\ a.recipient \in Guid /\ a.sender # a.recipient
    BY <2>1 DEF IInv, TypeOK, NoSelfAttempt, Attempt
  <2>4. ToSet(sent') = {m1, m2}
    <3> HIDE DEF m1, m2
    <3>. QED BY <2>2, ShortQueue
  <2>5. /\ m1.to = a.recipient /\ m1.id = ConnectId /\ m1.peer = a.sender
        /\ m2.to = a.sender /\ m2.id = ConnectId /\ m2.peer = a.recipient /\ m2.weAreSender
    OBVIOUS
  <2> HIDE DEF m1, m2
  <2>6. OneEach
    BY <2>2, <2>3, <2>5 DEF OneEach
  <2>7. OverdueIsInProgress'
    BY <2>1 DEF OverdueIsInProgress, InProgress
  <2>8. ASSUME NEW g \in Guid
        PROVE  /\ OneAttempt(g)' /\ (InAttempt(g)' => InAttempt(g))
               /\ Involves(ca, g) => InAttempt(g) /\ ~InAttempt(g)'
               /\ ~Involves(ca, g) /\ InAttempt(g) => InAttempt(g)'
    BY <2>1, AttemptEnds
  <2>9. \A g \in Guid : Involves(ca, g) <=> Sends(g, ConnectId)
    BY <2>4, <2>5 DEF Sends, Involves
  <2>10. \A g \in Guid : ~Sends(g, NewsId)
    BY <2>4, <2>5 DEF Sends, ConnectId, NewsId
  <2>11. ASSUME NEW g \in Guid PROVE Moves(g)
    <3>1. \A m \in ToSet(sent') : m.to = g /\ m.id = ConnectId => m.peer # g
      BY <2>3, <2>4, <2>5
    <3>. QED BY <1>2, <2>8, <2>9, <2>10, <3>1 DEF Moves
  <2>12. ASSUME NEW g \in Guid PROVE Keeps(g)
    <3>1. \A m \in ToSet(sent') : m.id \notin LossNews
      BY <2>4, <2>5 DEF LossNews, ConnectId
    <3>2. ASSUME NEW r \in Guid, Asked(g, r)
          PROVE  Asked(g, r)' \/ \E m \in ToSet(sent') : m.to = g /\ Concerns(m, r)
      <4>1. CASE Request(r) \in ToSet(toServer[g])
        <5>1. Request(r) \in ToSet(toServer'[g])
          BY <1>1, <4>1
        <5>. QED BY <5>1 DEF Asked, Request
      <4>2. ASSUME NEW p \in DOMAIN attempts, attempts[p].sender = g, attempts[p].recipient = r
            PROVE  Asked(g, r)' \/ \E m \in ToSet(sent') : m.to = g /\ Concerns(m, r)
        <5>1. CASE p = ca
          BY <2>4, <2>5, <4>2, <5>1 DEF Concerns, ConnectId
        <5>2. CASE p # ca
          BY <2>1, <4>2, <5>2 DEF Asked
        <5>. QED BY <5>1, <5>2
      <4>. QED BY <3>2, <4>1, <4>2 DEF Asked
    <3>. QED BY <1>1, <1>2, <2>8, <2>9, <3>1, <3>2 DEF Keeps
  <2>. QED BY <2>6, <2>7, <2>11, <2>12 DEF Orderly
<1>. QED
  <2> HIDE DEF ports
  <2>1. \/ \E i \in 1 .. Len(list) :
             /\ FirstIn(i, list, Answered(s, ports))
             /\ sent' = ConnectAtTime(list[i], ports)
             /\ Delete(list[i])
        \/ sent' = <<>> /\ UNCHANGED attempts
    BY DEF OnGetMostRecentPort, ports
  <2>. QED BY <1>3, <1>4, <2>1 DEF FirstIn

LEMMA ReadyOrderly ==
  ASSUME IInv, NetTypeOK, OverdueIsInProgress, NEW c \in Guid,
         \A g \in Guid : OneAttempt(g), AtMostOne(toServer[c], ReadyId),
         toServer[c] # <<>>, Consume(c), Head(toServer[c]).id = ReadyId,
         OnClientReady(c)
  PROVE  Orderly
<1>1. /\ \A g \in Guid :
           /\ \A r \in Guid : Request(r) \in ToSet(toServer[g])
                             => Request(r) \in ToSet(toServer'[g])
           /\ g # c => (Done(g) => Done(g)')
      /\ Done(c) /\ ~Done(c)'
  <2> DEFINE h == Head(toServer[c])
  <2>1. /\ \A g \in Guid :
             /\ \A x \in ToSet(toServer[g]) : x \in ToSet(toServer'[g]) \/ (g = c /\ x = h)
             /\ g # c \/ h.id # ReadyId => (Done(g) => Done(g)')
        /\ h.id = ReadyId /\ AtMostOne(toServer[c], ReadyId) => Done(c) /\ ~Done(c)'
    BY ConsumeFacts
  <2>2. h.id = ReadyId /\ \A r \in Guid : h # Request(r)
    BY DEF Request, ReadyId
  <2> HIDE DEF h
  <2>. QED BY <2>1, <2>2
<1>2. /\ UNCHANGED <<users, attempts>> /\ sent' = <<>>
      /\ isReady' = [isReady EXCEPT ![c] = TRUE]
  BY DEF OnClientReady
<1>3. isReady'[c] /\ \A g \in Guid : g # c => isReady'[g] = isReady[g]
  BY <1>2 DEF IInv, TypeOK
<1>4. ToSet(sent') = {} /\ OneEach
  BY <1>2, EmptyQueue DEF OneEach
<1>5. OverdueIsInProgress'
  BY <1>2 DEF OverdueIsInProgress, InProgress
<1>6. ASSUME NEW g \in Guid PROVE Moves(g) /\ Keeps(g)
  <2>1. OneAttempt(g)' /\ (InAttempt(g)' <=> InAttempt(g))
    BY <1>2 DEF OneAttempt, InAttempt, InProgress, Involves
  <2>2. Moves(g)
    BY <1>1, <1>3, <1>4, <2>1 DEF Moves, Sends
  <2>3. \A r \in Guid : Asked(g, r) => Asked(g, r)'
    BY <1>1, <1>2 DEF Asked, Request
  <2>4. Keeps(g)
    BY <1>1, <1>3, <1>4, <2>1, <2>3 DEF Keeps
  <2>. QED BY <2>2, <2>4
<1>. QED BY <1>4, <1>5, <1>6 DEF Orderly

LEMMA LoseOrderly ==
  ASSUME IInv, OverdueIsInProgress, \A g \in Guid : OneAttempt(g), LoseAttempt
  PROVE  Orderly
<1>1. PICK c \in closing : connectionAttempts[c] # <<>>
  BY DEF LoseAttempt
<1> DEFINE ca == Head(connectionAttempts[c])
           other == OtherUser(ca, c)
           m == [to |-> other, id |-> "ID_NAT_CONNECTION_TO_TARGET_LOST",
                 peer |-> c, session |-> attempts[ca].sessionId]
<1>2. c \in Guid /\ \A h \in closing : h = c
  BY DEF IInv, TypeOK, OneHandler
<1>3. ca \in DOMAIN attempts /\ Involves(ca, c) /\ Unlinks(ca)
  BY <1>1, LoseAttemptUnlinks
<1>4. /\ sent' = <<m>>
      /\ isReady' = [isReady EXCEPT ![other] = ReadyAfterLoss(ca, other)]
  BY <1>2 DEF LoseAttempt
<1>5. other \in Guid /\ Involves(ca, other)
  BY <1>3 DEF IInv, TypeOK, Attempt, OtherUser, Involves
<1>6. ToSet(sent') = {m}
  <2> HIDE DEF m
  <2>. QED BY <1>4, ShortQueue
<1>7. m.id = "ID_NAT_CONNECTION_TO_TARGET_LOST"
  OBVIOUS
<1> HIDE DEF ca, other, m
<1>8. attempts' = [p \in DOMAIN attempts \ {ca} |-> attempts[p]]
  BY <1>3 DEF Unlinks
<1>9. ASSUME NEW g \in Guid PROVE Moves(g)
  <2>1. /\ OneAttempt(g)' /\ (InAttempt(g)' => InAttempt(g))
        /\ InProgress(ca) /\ Involves(ca, g) => InAttempt(g) /\ ~InAttempt(g)'
    BY <1>3, <1>8, AttemptEnds
  <2>2. isReady'[g] => isReady[g] \/ (g = other /\ InProgress(ca))
    BY <1>4, <1>5 DEF IInv, TypeOK, ReadyAfterLoss
  <2>3. ~Sends(g, ConnectId) /\ ~Sends(g, NewsId)
    BY <1>6, <1>7 DEF Sends, ConnectId, NewsId
  <2>. QED BY <1>5, <2>1, <2>2, <2>3 DEF Moves, Sends
<1>10. OverdueIsInProgress'
  BY <1>8 DEF OverdueIsInProgress, InProgress
<1>. QED BY <1>4, <1>9, <1>10 DEF Orderly, OneEach

LEMMA RemoveOrderly ==
  ASSUME IInv, OverdueIsInProgress, \A g \in Guid : OneAttempt(g), RemoveUser
  PROVE  Orderly
<1>1. PICK c \in closing : isReady' = [isReady EXCEPT ![c] = FALSE]
  BY DEF RemoveUser
<1>2. sent' = <<>> /\ UNCHANGED attempts
  BY DEF RemoveUser
<1>3. ASSUME NEW g \in Guid PROVE Moves(g)
  <2>1. isReady'[g] => isReady[g]
    BY <1>1 DEF IInv, TypeOK
  <2>. QED BY <1>2, <2>1, QuietStep
<1>. QED BY <1>1, <1>2, <1>3 DEF Orderly, OneEach, OverdueIsInProgress, InProgress

LEMMA StartOrderly ==
  ASSUME IInv, OverdueIsInProgress,
         \A g \in Guid : OneAttempt(g) /\ (isReady[g] => ~InAttempt(g)),
         StartAttempt, UNCHANGED toServer
  PROVE  Orderly
<1> DEFINE u == Head(toStart)
           list == connectionAttempts[u]
           s(ca) == attempts[ca].sender
           r(ca) == attempts[ca].recipient
           ask(v, ca) == [to |-> v, id |-> "ID_NAT_GET_MOST_RECENT_PORT",
                          session |-> attempts[ca].sessionId]
<1>1. u \in Guid /\ isReady[u]
  <2>1. toStart # <<>> /\ isReady[u]
    BY DEF StartAttempt
  <2>2. toStart \in Seq(Guid)
    BY DEF IInv, TypeOK
  <2>. QED BY <2>1, <2>2
<1>2. PICK ca :
        /\ \E i \in 1 .. Len(list) :
             /\ ca = list[i]
             /\ FirstIn(i, list, {p \in DOMAIN attempts : isReady[OtherUser(p, u)]})
        /\ isReady' = Engaged(s(ca), r(ca))
        /\ attempts' = [attempts EXCEPT ![ca].attemptPhase = "GETTING_RECENT_PORTS",
                                        ![ca].overdue = FALSE]
        /\ sent' = <<ask(s(ca), ca), ask(r(ca), ca)>>
  BY DEF StartAttempt
<1> DEFINE m1 == ask(s(ca), ca)
           m2 == ask(r(ca), ca)
<1>3. ca \in DOMAIN attempts /\ isReady[OtherUser(ca, u)] /\ Involves(ca, u)
  <2>1. ca \in ToSet(list)
    <3>1. list \in Seq(Ptr)
      BY <1>1 DEF IInv, TypeOK
    <3> HIDE DEF list
    <3>. QED BY <1>2, <3>1 DEF ToSet
  <2>2. Involves(ca, u)
    BY <1>1, <2>1 DEF IInv, AttemptsLinked
  <2>. QED BY <1>2, <2>2 DEF FirstIn
<1>4. /\ s(ca) \in Guid /\ r(ca) \in Guid /\ s(ca) # r(ca)
      /\ isReady[s(ca)] /\ isReady[r(ca)]
  BY <1>1, <1>3 DEF IInv, TypeOK, Attempt, NoSelfAttempt, Involves, OtherUser
<1>5. /\ isReady' = Engaged(s(ca), r(ca)) /\ sent' = <<m1, m2>>
      /\ attempts' = [attempts EXCEPT ![ca].attemptPhase = "GETTING_RECENT_PORTS",
                                      ![ca].overdue = FALSE]
  BY <1>2
<1>6. /\ m1.to = s(ca) /\ m1.id = "ID_NAT_GET_MOST_RECENT_PORT"
      /\ m2.to = r(ca) /\ m2.id = "ID_NAT_GET_MOST_RECENT_PORT"
  OBVIOUS
<1> HIDE DEF m1, m2
<1>7. ToSet(sent') = {m1, m2}
  BY <1>5, ShortQueue
<1> HIDE DEF u, list
<1>8. /\ DOMAIN attempts' = DOMAIN attempts
      /\ \A p \in DOMAIN attempts : p # ca => attempts'[p] = attempts[p]
      /\ attempts'[ca].attemptPhase = "GETTING_RECENT_PORTS"
      /\ ~attempts'[ca].overdue
      /\ attempts'[ca].sender = s(ca) /\ attempts'[ca].recipient = r(ca)
  <2>1. attempts[ca] \in Attempt
    BY <1>3 DEF IInv, TypeOK
  <2>. QED BY <1>3, <1>5, <2>1 DEF IInv, TypeOK, Attempt
<1>9. \A g \in Guid : isReady'[g] <=> isReady[g] /\ g # s(ca) /\ g # r(ca)
  <2> HIDE DEF s, r
  <2>1. isReady' = [isReady EXCEPT ![s(ca)] = FALSE, ![r(ca)] = FALSE]
    BY <1>5 DEF Engaged
  <2>. QED BY <1>4, <2>1 DEF IInv, TypeOK
<1>10. OneEach
  BY <1>4, <1>5, <1>6 DEF OneEach
<1>11. OverdueIsInProgress'
  BY <1>8 DEF OverdueIsInProgress, InProgress
<1>12. /\ \A p \in DOMAIN attempts : \A g \in Guid : Involves(p, g)' <=> Involves(p, g)
       /\ \A p \in DOMAIN attempts : p # ca => (InProgress(p)' <=> InProgress(p))
       /\ InProgress(ca)'
  BY <1>8 DEF Involves, InProgress
<1>13. \A g \in Guid : ~Sends(g, ConnectId) /\ ~Sends(g, NewsId)
  BY <1>6, <1>7 DEF Sends, ConnectId, NewsId
<1>14. ASSUME NEW g \in Guid
       PROVE  /\ OneAttempt(g)'
              /\ Involves(ca, g) => InAttempt(g)' /\ isReady[g] /\ ~isReady'[g]
              /\ ~Involves(ca, g) => (InAttempt(g)' <=> InAttempt(g))
              /\ ~Involves(ca, g) => isReady'[g] = isReady[g]
  <2>1. CASE Involves(ca, g)
    <3>1. g = s(ca) \/ g = r(ca)
      BY <2>1 DEF Involves
    <3>2. ~InAttempt(g)
      BY <1>4, <3>1
    <3>3. OneAttempt(g)'
      BY <1>8, <1>12, <3>2 DEF OneAttempt, InAttempt
    <3>4. InAttempt(g)'
      BY <1>3, <1>8, <1>12, <2>1 DEF InAttempt
    <3>. QED BY <1>4, <1>9, <2>1, <3>1, <3>3, <3>4
  <2>2. CASE ~Involves(ca, g)
    <3>1. g # s(ca) /\ g # r(ca)
      BY <2>2 DEF Involves
    <3>2. isReady'[g] = isReady[g]
      <4> HIDE DEF s, r
      <4>1. isReady' = [isReady EXCEPT ![s(ca)] = FALSE, ![r(ca)] = FALSE]
        BY <1>5 DEF Engaged
      <4>. QED BY <3>1, <4>1 DEF IInv, TypeOK
    <3>3. OneAttempt(g)' /\ (InAttempt(g)' <=> InAttempt(g))
      BY <1>3, <1>8, <1>12, <2>2 DEF OneAttempt, InAttempt
    <3>. QED BY <2>2, <3>2, <3>3
  <2>. QED BY <2>1, <2>2
<1>15. ASSUME NEW g \in Guid PROVE Moves(g)
  <2>1. \A m \in ToSet(sent') : m.to = g => m.id # ConnectId
    BY <1>13 DEF Sends
  <2>. QED BY <1>9, <1>13, <1>14, <2>1 DEF Moves
<1>16. ASSUME NEW g \in Guid PROVE Keeps(g)
  <2>1. \A m \in ToSet(sent') : m.id \notin LossNews
    BY <1>6, <1>7 DEF LossNews
  <2>2. \A x \in Guid : Asked(g, x) => Asked(g, x)'
    BY <1>3, <1>8 DEF Asked, Request
  <2>3. Done(g) => Done(g)'
    BY DEF Done
  <2>. QED BY <1>14, <2>1, <2>2, <2>3 DEF Keeps
<1>. QED BY <1>10, <1>11, <1>15, <1>16 DEF Orderly

LEMMA VisitOrderly ==
  ASSUME IInv, OverdueIsInProgress, \A g \in Guid : OneAttempt(g),
         VisitUser, UNCHANGED toServer
  PROVE  Orderly
<1> DEFINE unresponsive(v, peer, ca) ==
             [to |-> v, id |-> NewsId, peer |-> peer, session |-> attempts[ca].sessionId]
<1>1. CASE sent' = <<>> /\ UNCHANGED <<isReady, attempts>>
  <2>1. \A g \in Guid : Moves(g) /\ Keeps(g)
    BY <1>1, QuietStep DEF Done, Request
  <2>. QED BY <1>1, <2>1 DEF Orderly, OneEach, OverdueIsInProgress, InProgress
<1>2. ASSUME NEW u \in toVisit, NEW ca, NEW r, r = attempts[ca].recipient,
             ca \in OverdueFrom(u), Delete(ca),
             isReady' = [isReady EXCEPT ![u] = TRUE, ![r] = TRUE],
             sent' = << unresponsive(u, r, ca), unresponsive(r, u, ca) >>
      PROVE  Orderly
  <2> DEFINE m1 == unresponsive(u, r, ca)
             m2 == unresponsive(r, u, ca)
  <2>1. /\ ca \in DOMAIN attempts /\ attempts[ca].sender = u /\ InProgress(ca)
        /\ attempts' = [p \in DOMAIN attempts \ {ca} |-> attempts[p]]
    BY <1>2 DEF OverdueFrom, OverdueIsInProgress, Delete
  <2>2. u \in Guid /\ r \in Guid /\ u # r
    BY <1>2, <2>1 DEF IInv, TypeOK, NoSelfAttempt, Attempt
  <2>3. /\ sent' = <<m1, m2>>
        /\ m1.to = u /\ m1.id = NewsId /\ m1.peer = r
        /\ m2.to = r /\ m2.id = NewsId /\ m2.peer = u
    BY <1>2
  <2> HIDE DEF m1, m2
  <2>4. ToSet(sent') = {m1, m2}
    BY <2>3, ShortQueue
  <2>5. OneEach
    BY <2>2, <2>3 DEF OneEach
  <2>6. OverdueIsInProgress'
    BY <2>1 DEF OverdueIsInProgress, InProgress
  <2>7. ASSUME NEW g \in Guid
        PROVE  /\ OneAttempt(g)' /\ (InAttempt(g)' => InAttempt(g))
               /\ Involves(ca, g) => InAttempt(g) /\ ~InAttempt(g)' /\ isReady'[g]
               /\ ~Involves(ca, g) => isReady'[g] = isReady[g]
               /\ ~Involves(ca, g) /\ InAttempt(g) => InAttempt(g)'
               /\ Sends(g, NewsId) => Involves(ca, g)
    <3>1. /\ OneAttempt(g)' /\ (InAttempt(g)' => InAttempt(g))
          /\ Involves(ca, g) => InAttempt(g) /\ ~InAttempt(g)'
          /\ ~Involves(ca, g) /\ InAttempt(g) => InAttempt(g)'
      BY <2>1, AttemptEnds
    <3>2. Involves(ca, g) <=> g = u \/ g = r
      BY <1>2, <2>1 DEF Involves
    <3>3. /\ g = u \/ g = r => isReady'[g]
          /\ ~(g = u \/ g = r) => isReady'[g] = isReady[g]
      BY <1>2, <2>2 DEF IInv, TypeOK
    <3>4. Sends(g, NewsId) => g = u \/ g = r
      BY <2>3, <2>4 DEF Sends
    <3>. QED BY <3>1, <3>2, <3>3, <3>4
  <2>8. ASSUME NEW g \in Guid PROVE Moves(g)
    <3>1. \A m \in ToSet(sent') : m.id # ConnectId
      BY <2>3, <2>4 DEF ConnectId, NewsId
    <3>2. ~Sends(g, ConnectId)
      BY <3>1 DEF Sends
    <3>3. isReady'[g] => isReady[g] \/ (InAttempt(g) /\ ~InAttempt(g)')
      BY <2>7
    <3>. QED BY <2>7, <3>1, <3>2, <3>3 DEF Moves
  <2>9. ASSUME NEW g \in Guid PROVE Keeps(g)
    <3>1. \A m \in ToSet(sent') : m.id \notin LossNews
      BY <2>3, <2>4 DEF LossNews, NewsId
    <3>2. ASSUME NEW x \in Guid, Asked(g, x)
          PROVE  Asked(g, x)' \/ \E m \in ToSet(sent') : m.to = g /\ Concerns(m, x)
      <4>1. CASE Request(x) \in ToSet(toServer[g])
        BY <4>1 DEF Asked, Request
      <4>2. ASSUME NEW p \in DOMAIN attempts, attempts[p].sender = g, attempts[p].recipient = x
            PROVE  Asked(g, x)' \/ \E m \in ToSet(sent') : m.to = g /\ Concerns(m, x)
        <5>1. CASE p = ca
          BY <1>2, <2>1, <2>3, <2>4, <4>2, <5>1 DEF Concerns, NewsId, Failure
        <5>2. CASE p # ca
          BY <2>1, <4>2, <5>2 DEF Asked
        <5>. QED BY <5>1, <5>2
      <4>. QED BY <3>2, <4>1, <4>2 DEF Asked
    <3>3. Done(g) => Done(g)'
      BY DEF Done
    <3>4. isReady[g] \/ InAttempt(g) => isReady'[g] \/ InAttempt(g)'
      BY <2>7
    <3>. QED BY <3>1, <3>2, <3>3, <3>4 DEF Keeps
  <2>. QED BY <2>5, <2>6, <2>8, <2>9 DEF Orderly
<1>3. \/ \E u \in toVisit : \E i \in 1 .. Len(connectionAttempts[u]) :
           LET ca == connectionAttempts[u][i]
               r == attempts[ca].recipient
           IN /\ FirstIn(i, connectionAttempts[u], OverdueFrom(u))
              /\ sent' = << unresponsive(u, r, ca), unresponsive(r, u, ca) >>
              /\ isReady' = [isReady EXCEPT ![u] = TRUE, ![r] = TRUE]
              /\ Delete(ca)
      \/ sent' = <<>> /\ UNCHANGED <<isReady, attempts>>
  BY DEF VisitUser, NewsId
<1> HIDE DEF unresponsive
<1>. QED BY <1>1, <1>2, <1>3 DEF FirstIn

\* A step that changes at most how long attempts have taken, and sends nothing.
LEMMA QuietOrderly ==
  ASSUME \A g \in Guid : OneAttempt(g), OverdueIsInProgress', sent' = <<>>,
         DOMAIN attempts' = DOMAIN attempts,
         \A ca \in DOMAIN attempts :
           /\ attempts'[ca].sender = attempts[ca].sender
           /\ attempts'[ca].recipient = attempts[ca].recipient
           /\ attempts'[ca].attemptPhase = attempts[ca].attemptPhase,
         UNCHANGED isReady, gone = {} => UNCHANGED toServer
  PROVE  Orderly
<1>1. \A g \in Guid : Moves(g) /\ (UNCHANGED toServer => Keeps(g))
  BY QuietStep DEF Done, Request
<1>. QED BY <1>1 DEF Orderly, OneEach

LEMMA TurnFacts ==
  ASSUME NEW g \in Guid, ClientGood(g)
  PROVE  /\ OneAttempt(g)
         /\ AtMostOne(toClient[g], ConnectId) /\ AtMostOne(toServer[g], ReadyId)
         /\ isReady[g] => ~InAttempt(g)
         /\ Told(g) => ~sp[g].active /\ ~Done(g)
         /\ sp[g].active => ~Done(g)
BY Zenon DEF ClientGood, OneTurn, OneAttempt, Told, Done, ConnectId, ReadyId

\* What every orderly step of the facilitator keeps.
LEMMA ServerStepInv ==
  ASSUME NetIInv, IInv', Orderly,
         toClient' \in [Guid -> Seq(Message \cup BoundAddresses)],
         \A g \in Guid : Delivers(g) /\ Arrives(g),
         toServer' \in [Guid -> Seq(ToServerMessage)],
         \A g \in Guid : /\ ToSet(toServer'[g]) \subseteq ToSet(toServer[g])
                         /\ AtMostOne(toServer[g], ReadyId) => AtMostOne(toServer'[g], ReadyId),
         UNCHANGED <<clientVars, hasPortStride, queuedOpenNat, pinged, gone>>,
         boundAddressCount' \in Sockets \cup {0},
         reportedFor' \in [Guid -> Session \cup {-1}],
         gone = {} => UNCHANGED <<users, closing>>
  PROVE  NetIInv'
<1>1. NetTypeOK'
  BY DEF NetIInv, NetTypeOK, clientVars
<1>2. \A g \in Guid : ClientGood(g)'
  <2> SUFFICES ASSUME NEW g \in Guid PROVE ClientGood(g)'
    OBVIOUS
  <2>1. ClientGood(g) /\ Moves(g) /\ Delivers(g)
    BY DEF NetIInv, Orderly
  <2>2. AtMostOne(toServer'[g], ReadyId)
    BY <2>1, TurnFacts
  <2>. QED BY <2>1, <2>2, ServerGood DEF clientVars
<1>3. ASSUME gone' = {} PROVE closing' = {} /\ users' = Guid /\ \A g \in Guid : AttendedTo(g)'
  <2>1. gone = {} /\ closing = {} /\ users = Guid /\ \A g \in Guid : AttendedTo(g)
    BY <1>3 DEF NetIInv
  <2>2. ASSUME NEW g \in Guid PROVE AttendedTo(g)'
    <3>1. Keeps(g)
      BY <2>1 DEF Orderly
    <3>. QED BY <2>1, <3>1, ServerAttends DEF NetIInv, clientVars
  <2>. QED BY <2>1, <2>2
<1>. QED BY <1>1, <1>2, <1>3 DEF NetIInv, Orderly

LEMMA ServerReceiveInv ==
  ASSUME NetIInv, NEW c \in Guid, ServerReceive(c)
  PROVE  NetIInv'
<1> DEFINE m == Head(toServer[c])
<1>1. /\ toServer[c] # <<>> /\ Consume(c) /\ Deliver
      /\ UNCHANGED <<clientVars, strideVars, gone, bounds>>
  BY Zenon DEF ServerReceive
<1>2. IInv /\ NetTypeOK /\ OverdueIsInProgress
  BY DEF NetIInv
<1>3. \A g \in Guid : /\ OneAttempt(g) /\ (isReady[g] => ~InAttempt(g))
                      /\ AtMostOne(toServer[g], ReadyId)
  BY TurnFacts DEF NetIInv
<1>4. m \in ToServerMessage /\ m \in ToSet(toServer[c])
  BY <1>1, <1>2, ConsumeFacts
<1>5. ASSUME m.id = "ID_NAT_PUNCHTHROUGH_REQUEST", OnNATPunchthroughRequest(c, m.peer),
             UNCHANGED reportedFor
      PROVE  /\ IInv' /\ Orderly /\ reportedFor' \in [Guid -> Session \cup {-1}]
             /\ UNCHANGED <<users, closing>>
  <2>1. m = Request(m.peer) /\ m.peer \in Guid
    BY <1>4, <1>5 DEF ToServerMessage, Request
  <2>2. m.peer # c
    BY <1>4, <1>5 DEF NetIInv, ClientGood, NotItself
  <2> DEFINE r == m.peer
  <2>3. r \in Guid /\ r # c /\ Head(toServer[c]) = Request(r) /\ OnNATPunchthroughRequest(c, r)
    BY <1>5, <2>1, <2>2
  <2> HIDE DEF m, r
  <2>4. IInv'
    BY <1>2, <2>3, RequestInv
  <2>5. Orderly
    BY <1>1, <1>2, <1>3, <2>3, RequestOrderly
  <2>6. UNCHANGED <<users, closing>>
    BY <2>3 DEF OnNATPunchthroughRequest
  <2>. QED BY <1>2, <1>5, <2>4, <2>5, <2>6 DEF NetTypeOK
<1>6. ASSUME m.id = "ID_NAT_GET_MOST_RECENT_PORT", OnGetMostRecentPort(c, m.session, m.port),
             reportedFor' = [reportedFor EXCEPT ![c] = m.session]
      PROVE  /\ IInv' /\ Orderly /\ reportedFor' \in [Guid -> Session \cup {-1}]
             /\ UNCHANGED <<users, closing>>
  <2>1. m.session \in Session /\ m.port \in Port
    BY <1>4, <1>6 DEF ToServerMessage
  <2>2. IInv'
    BY <1>2, <1>6, <2>1, GetMostRecentPortInv
  <2>3. Orderly
    BY <1>1, <1>2, <1>3, <1>6, PortOrderly
  <2>4. UNCHANGED <<users, closing>>
    BY <1>6 DEF OnGetMostRecentPort, pcVars
  <2>5. reportedFor' \in [Guid -> Session \cup {-1}]
    BY <1>2, <1>6, <2>1 DEF NetTypeOK
  <2>. QED BY <2>2, <2>3, <2>4, <2>5
<1>7. ASSUME m.id = "ID_NAT_CLIENT_READY", OnClientReady(c), UNCHANGED reportedFor
      PROVE  /\ IInv' /\ Orderly /\ reportedFor' \in [Guid -> Session \cup {-1}]
             /\ UNCHANGED <<users, closing>>
  <2>1. IInv'
    BY <1>2, <1>7, ClientReadyInv
  <2>2. Orderly
    BY <1>1, <1>2, <1>3, <1>7, ReadyOrderly DEF ReadyId
  <2>3. UNCHANGED <<users, closing>>
    BY <1>7 DEF OnClientReady
  <2>. QED BY <1>2, <1>7, <2>1, <2>2, <2>3 DEF NetTypeOK
<1>8. /\ IInv' /\ Orderly /\ reportedFor' \in [Guid -> Session \cup {-1}]
      /\ UNCHANGED <<users, closing>>
  BY <1>5, <1>6, <1>7, Zenon DEF ServerReceive
<1>9. sent' \in Seq(Message) /\ OneEach
  BY <1>8 DEF IInv, TypeOK, Orderly
<1>10. /\ toClient' \in [Guid -> Seq(Message \cup BoundAddresses)]
       /\ \A g \in Guid : Delivers(g) /\ Arrives(g)
  BY <1>1, <1>2, <1>9, DeliverFacts
<1>11. /\ toServer' \in [Guid -> Seq(ToServerMessage)]
       /\ \A g \in Guid : /\ ToSet(toServer'[g]) \subseteq ToSet(toServer[g])
                          /\ AtMostOne(toServer[g], ReadyId) => AtMostOne(toServer'[g], ReadyId)
  BY <1>1, <1>2, ConsumeFacts
<1>12. boundAddressCount' \in Sockets \cup {0}
  BY <1>1, <1>2 DEF strideVars, NetTypeOK
<1>. QED BY <1>1, <1>8, <1>10, <1>11, <1>12, ServerStepInv DEF strideVars

LEMMA ServerRespondsBoundAddressesInv ==
  ASSUME NetIInv, NEW c \in Guid, ServerRespondsBoundAddresses(c)
  PROVE  NetIInv'
<1> DEFINE q == toClient[c]
           m == [id |-> "ID_NAT_RESPOND_BOUND_ADDRESSES", count |-> boundAddressCount']
           long == Append(q, m)
           S == Message \cup BoundAddresses
<1>1. IInv /\ NetTypeOK /\ OverdueIsInProgress
  BY DEF NetIInv
<1>2. /\ toServer[c] # <<>> /\ Head(toServer[c]).id = "ID_NAT_REQUEST_BOUND_ADDRESSES"
      /\ boundAddressCount' \in IF boundAddressCount = 0 THEN Sockets ELSE {boundAddressCount}
      /\ sent' = <<>> /\ Consume(c)
      /\ toClient' = [toClient EXCEPT ![c] = IF c \in gone THEN @ ELSE Append(@, m)]
      /\ UNCHANGED <<users, isReady, mostRecentPort, connectionAttempts, attempts, sessionId,
                     closing, toVisit, toStart, clientVars, hasPortStride, queuedOpenNat, pinged,
                     gone, reportedFor>>
  BY DEF ServerRespondsBoundAddresses, pcVars
<1>3. boundAddressCount' \in Sockets
  BY <1>1, <1>2 DEF NetTypeOK
<1>4. m \in BoundAddresses /\ m.id # ConnectId /\ m.id # NewsId
  BY <1>3 DEF BoundAddresses, ConnectId, NewsId
<1> HIDE DEF m
<1>5. q \in Seq(S)
  BY <1>1 DEF NetTypeOK
<1>6. m \in S
  BY <1>4
<1> HIDE DEF q, S
<1>7. /\ long \in Seq(S) /\ ToSet(long) = ToSet(q) \cup {m}
      /\ AtMostOne(q, ConnectId) => AtMostOne(long, ConnectId)
      /\ NewsFirst(q) => NewsFirst(long)
  BY <1>4, <1>5, <1>6, AppendQueue
<1> HIDE DEF long
<1>8. /\ toClient'[c] = IF c \in gone THEN q ELSE long
      /\ \A g \in Guid : g # c => toClient'[g] = toClient[g]
  BY <1>1, <1>2 DEF NetTypeOK, q, long
<1>9. toClient' \in [Guid -> Seq(S)]
  <2>1. toClient \in [Guid -> Seq(S)]
    BY <1>1 DEF NetTypeOK, S
  <2>. QED BY <1>2, <1>5, <1>7, <2>1 DEF q, long
<1>10. ToSet(sent') = {}
  BY <1>2, EmptyQueue
<1>11. ASSUME NEW g \in Guid PROVE Delivers(g) /\ Arrives(g)
  <2>1. CASE g # c
    BY <1>8, <1>10, <2>1 DEF Delivers, Arrives
  <2>2. CASE g = c
    BY <1>4, <1>7, <1>8, <1>10, <2>2 DEF Delivers, Arrives, q
  <2>. QED BY <2>1, <2>2
<1>12. \A g \in Guid : OneAttempt(g)
  BY TurnFacts DEF NetIInv
<1>13. /\ \A g \in Guid :
           /\ \A r \in Guid : Request(r) \in ToSet(toServer[g])
                             => Request(r) \in ToSet(toServer'[g])
           /\ Done(g) => Done(g)'
  <2> DEFINE h == Head(toServer[c])
  <2>1. \A g \in Guid :
          /\ \A x \in ToSet(toServer[g]) : x \in ToSet(toServer'[g]) \/ (g = c /\ x = h)
          /\ g # c \/ h.id # ReadyId => (Done(g) => Done(g)')
    BY <1>1, <1>2, ConsumeFacts
  <2>2. h.id # ReadyId /\ \A r \in Guid : h # Request(r)
    BY <1>2 DEF Request, ReadyId
  <2> HIDE DEF h
  <2>. QED BY <2>1, <2>2
<1>14. Orderly
  <2>1. \A g \in Guid : Moves(g) /\ Keeps(g)
    BY <1>2, <1>12, <1>13, QuietStep
  <2>. QED BY <1>1, <1>2, <2>1 DEF Orderly, OneEach, OverdueIsInProgress, InProgress
<1>15. IInv'
  <2>1. AttemptsLinked' /\ OneAttemptPerPair' /\ NoSelfAttempt'
    BY <1>1, <1>2, LinksUnchanged
  <2>2. TypeOK'
    BY <1>1, <1>2 DEF IInv, TypeOK
  <2>3. StartsLiveUsers' /\ OneHandler' /\ ReadyPairsAreHandled'
    BY <1>1, <1>2 DEF IInv, StartsLiveUsers, OneHandler, ReadyPairsAreHandled
  <2>. QED BY <2>1, <2>2, <2>3 DEF IInv
<1>16. /\ toServer' \in [Guid -> Seq(ToServerMessage)]
       /\ \A g \in Guid : /\ ToSet(toServer'[g]) \subseteq ToSet(toServer[g])
                          /\ AtMostOne(toServer[g], ReadyId) => AtMostOne(toServer'[g], ReadyId)
  BY <1>1, <1>2, ConsumeFacts
<1>17. reportedFor' \in [Guid -> Session \cup {-1}]
  BY <1>1, <1>2 DEF NetTypeOK
<1>. QED BY <1>2, <1>3, <1>9, <1>11, <1>14, <1>15, <1>16, <1>17, ServerStepInv DEF S

\* A step of a handler, or of time, that reads no message.
LEMMA ServerOwnStepInv ==
  ASSUME NetIInv, IInv', Orderly, Deliver,
         UNCHANGED <<toServer, clientVars, strideVars, gone, reportedFor>>,
         gone = {} => UNCHANGED <<users, closing>>
  PROVE  NetIInv'
<1>1. sent' \in Seq(Message) /\ OneEach
  BY DEF IInv, TypeOK, Orderly
<1>2. NetTypeOK
  BY DEF NetIInv
<1>3. /\ toClient' \in [Guid -> Seq(Message \cup BoundAddresses)]
      /\ \A g \in Guid : Delivers(g) /\ Arrives(g)
  BY <1>1, <1>2, DeliverFacts
<1>4. /\ toServer' \in [Guid -> Seq(ToServerMessage)]
      /\ boundAddressCount' \in Sockets \cup {0}
      /\ reportedFor' \in [Guid -> Session \cup {-1}]
  BY <1>2 DEF NetTypeOK, strideVars
<1>. QED BY <1>3, <1>4, ServerStepInv DEF strideVars

LEMMA ServerContinueInv ==
  ASSUME NetIInv, ServerContinue PROVE NetIInv'
<1>1. /\ IInv /\ OverdueIsInProgress
      /\ \A g \in Guid : OneAttempt(g) /\ (isReady[g] => ~InAttempt(g))
      /\ gone = {} => closing = {}
  BY TurnFacts DEF NetIInv
<1>2. /\ Continue /\ Deliver /\ UNCHANGED toServer
      /\ UNCHANGED <<clientVars, strideVars, gone, reportedFor>>
  BY DEF ServerContinue
<1>3. IInv'
  BY <1>1, <1>2, LoseAttemptInv, RemoveUserInv, StartAttemptInv, NothingToStartInv,
     VisitUserInv DEF Continue
<1>4. ASSUME NothingToStart PROVE Orderly
  <2>1. sent' = <<>> /\ UNCHANGED <<isReady, attempts>>
    BY <1>4 DEF NothingToStart
  <2>2. OverdueIsInProgress'
    BY <1>1, <2>1 DEF OverdueIsInProgress, InProgress
  <2>. QED BY <1>1, <1>2, <2>1, <2>2, QuietOrderly
<1>5. Orderly
  BY <1>1, <1>2, <1>4, LoseOrderly, RemoveOrderly, StartOrderly, VisitOrderly DEF Continue
<1>6. gone = {} => UNCHANGED <<users, closing>>
  BY <1>1, <1>2 DEF Continue, LoseAttempt, RemoveUser, StartAttempt, NothingToStart, VisitUser
<1>. QED BY <1>2, <1>3, <1>5, <1>6, ServerOwnStepInv

LEMMA ServerUpdateInv ==
  ASSUME NetIInv, ServerUpdate PROVE NetIInv'
<1>1. IInv /\ OverdueIsInProgress /\ \A g \in Guid : OneAttempt(g)
  BY TurnFacts DEF NetIInv
<1>2. /\ Update /\ Deliver
      /\ UNCHANGED <<toServer, clientVars, strideVars, gone, reportedFor>>
  BY DEF ServerUpdate
<1>3. sent' = <<>> /\ UNCHANGED <<isReady, attempts, users, closing>>
  BY <1>2 DEF Update
<1>4. OverdueIsInProgress'
  BY <1>1, <1>3 DEF OverdueIsInProgress, InProgress
<1>5. Orderly
  BY <1>1, <1>2, <1>3, <1>4, QuietOrderly
<1>6. IInv'
  BY <1>1, <1>2, UpdateInv
<1>. QED BY <1>2, <1>3, <1>5, <1>6, ServerOwnStepInv

LEMMA TenSecondsPassInv ==
  ASSUME NetIInv, TenSecondsPass PROVE NetIInv'
<1>1. IInv /\ NetTypeOK /\ OverdueIsInProgress /\ \A g \in Guid : OneAttempt(g)
  BY TurnFacts DEF NetIInv
<1>2. PICK ca \in DOMAIN attempts : BecomesOverdue(ca)
  BY DEF TenSecondsPass
<1>3. /\ UNCHANGED <<toServer, toClient, clientVars, strideVars, gone, reportedFor>>
      /\ sent' = <<>> /\ UNCHANGED <<isReady, users, closing>>
      /\ attempts' = [attempts EXCEPT ![ca].overdue = TRUE]
      /\ InProgress(ca)
  BY <1>2 DEF TenSecondsPass, BecomesOverdue, pcVars
<1>4. /\ DOMAIN attempts' = DOMAIN attempts
      /\ \A p \in DOMAIN attempts :
           /\ attempts'[p].sender = attempts[p].sender
           /\ attempts'[p].recipient = attempts[p].recipient
           /\ attempts'[p].attemptPhase = attempts[p].attemptPhase
           /\ p # ca => attempts'[p] = attempts[p]
  <2>1. attempts[ca] \in Attempt
    BY <1>1, <1>2 DEF IInv, TypeOK
  <2>. QED BY <1>2, <1>3, <2>1 DEF IInv, TypeOK, Attempt
<1>5. OverdueIsInProgress'
  BY <1>1, <1>3, <1>4 DEF OverdueIsInProgress, InProgress
<1>6. Orderly
  BY <1>1, <1>3, <1>4, <1>5, QuietOrderly
<1>7. IInv'
  BY <1>1, <1>2, BecomesOverdueInv
<1>8. Deliver
  <2>1. DOMAIN sent' = {}
    BY <1>3
  <2>2. \A g \in Guid : Received(g, 2, Received(g, 1, toClient[g])) = toClient[g]
    BY <2>1 DEF Received
  <2>. QED BY <1>1, <1>3, <2>2 DEF Deliver, NetTypeOK
<1>. QED BY <1>3, <1>6, <1>7, <1>8, ServerOwnStepInv

LEMMA ServerNoticesLossInv ==
  ASSUME NetIInv, NEW c \in Guid, ServerNoticesLoss(c) PROVE NetIInv'
<1>1. IInv /\ NetTypeOK /\ OverdueIsInProgress /\ \A g \in Guid : OneAttempt(g)
  BY TurnFacts DEF NetIInv
<1>2. /\ c \in gone /\ OnClosedConnection(c)
      /\ toServer' = [toServer EXCEPT ![c] = <<>>]
      /\ toClient' = [toClient EXCEPT ![c] = <<>>]
      /\ UNCHANGED <<clientVars, strideVars, gone, reportedFor>>
  BY DEF ServerNoticesLoss
<1>3. sent' = <<>> /\ UNCHANGED <<isReady, attempts>>
  BY <1>2 DEF OnClosedConnection
<1>4. OverdueIsInProgress'
  BY <1>1, <1>3 DEF OverdueIsInProgress, InProgress
<1>5. Orderly
  BY <1>1, <1>2, <1>3, <1>4, QuietOrderly
<1>6. IInv'
  BY <1>1, <1>2, ClosedConnectionInv
<1>7. /\ toClient' \in [Guid -> Seq(Message \cup BoundAddresses)]
      /\ toServer' \in [Guid -> Seq(ToServerMessage)]
      /\ boundAddressCount' \in Sockets \cup {0}
      /\ reportedFor' \in [Guid -> Session \cup {-1}]
  BY <1>1, <1>2 DEF NetTypeOK, strideVars
<1>8. ASSUME NEW g \in Guid
      PROVE  /\ Delivers(g) /\ Arrives(g)
             /\ ToSet(toServer'[g]) \subseteq ToSet(toServer[g])
             /\ AtMostOne(toServer[g], ReadyId) => AtMostOne(toServer'[g], ReadyId)
  <2>1. ToSet(sent') = {}
    BY <1>3, EmptyQueue
  <2>2. CASE g # c
    <3>1. toServer'[g] = toServer[g] /\ toClient'[g] = toClient[g]
      BY <1>1, <1>2, <2>2 DEF NetTypeOK
    <3>. QED BY <2>1, <3>1 DEF Delivers, Arrives
  <2>3. CASE g = c
    <3>1. toServer'[g] = <<>> /\ toClient'[g] = <<>>
      BY <1>1, <1>2, <2>3 DEF NetTypeOK
    <3>. QED BY <1>2, <2>1, <2>3, <3>1, EmptyQueue DEF Delivers, Arrives
  <2>. QED BY <2>2, <2>3
<1>. QED BY <1>2, <1>5, <1>6, <1>7, <1>8, ServerStepInv DEF strideVars

-----------------------------------------------------------------------------
(* A step of a client *)

LEMMA ClientStepIInv ==
  ASSUME IInv, ClientStep PROVE IInv'
<1>1. /\ UNCHANGED <<users, isReady, mostRecentPort, connectionAttempts, attempts,
                     sessionId, closing, toVisit, toStart>>
      /\ sent' = <<>>
  BY DEF ClientStep, pcVars
<1>2. AttemptsLinked' /\ OneAttemptPerPair' /\ NoSelfAttempt'
  BY <1>1, LinksUnchanged
<1>3. TypeOK'
  BY <1>1 DEF IInv, TypeOK
<1>4. StartsLiveUsers' /\ OneHandler' /\ ReadyPairsAreHandled'
  BY <1>1 DEF IInv, StartsLiveUsers, OneHandler, ReadyPairsAreHandled
<1>. QED BY <1>2, <1>3, <1>4 DEF IInv

\* What a client queues for the facilitator.
LEMMA SendFacts ==
  ASSUME NetTypeOK, NEW c \in Guid, NEW ms \in Seq(ToServerMessage), Send(c, ms)
  PROVE  /\ toServer' \in [Guid -> Seq(ToServerMessage)]
         /\ \A g \in Guid : g # c => toServer'[g] = toServer[g]
         /\ ToSet(toServer'[c]) \subseteq ToSet(toServer[c]) \cup ToSet(ms)
         /\ ToSet(toServer[c]) \subseteq ToSet(toServer'[c])
         /\ c \notin gone => ToSet(ms) \subseteq ToSet(toServer'[c])
         /\ /\ AtMostOne(toServer[c], ReadyId) /\ AtMostOne(ms, ReadyId)
            /\ ~(Done(c) /\ InQueue(ms, ReadyId))
            => AtMostOne(toServer'[c], ReadyId)
<1> DEFINE q == toServer[c]
           long == q \o ms
<1>1. q \in Seq(ToServerMessage) /\ toServer \in [Guid -> Seq(ToServerMessage)]
  BY DEF NetTypeOK
<1>2. toServer' = [toServer EXCEPT ![c] = IF c \in gone THEN q ELSE long]
  BY DEF Send
<1> HIDE DEF q
<1>3. /\ long \in Seq(ToServerMessage) /\ ToSet(long) = ToSet(q) \cup ToSet(ms)
      /\ /\ AtMostOne(q, ReadyId) /\ AtMostOne(ms, ReadyId)
         /\ InQueue(ms, ReadyId) => ~InQueue(q, ReadyId)
         => AtMostOne(long, ReadyId)
  <2> DEFINE S == ToServerMessage
  <2>1. q \in Seq(S) /\ ms \in Seq(S)
    BY <1>1
  <2> HIDE DEF S
  <2>2. /\ long \in Seq(S)
        /\ ToSet(long) = ToSet(q) \cup ToSet(ms)
        /\ \A id : AtMostOne(q, id) /\ AtMostOne(ms, id) /\ (InQueue(ms, id) => ~InQueue(q, id))
                  => AtMostOne(long, id)
    BY <2>1, JoinQueue, Zenon
  <2> HIDE DEF long
  <2>3. /\ AtMostOne(q, ReadyId) /\ AtMostOne(ms, ReadyId)
        /\ InQueue(ms, ReadyId) => ~InQueue(q, ReadyId)
        => AtMostOne(long, ReadyId)
    BY <2>2, Zenon
  <2>4. long \in Seq(ToServerMessage) /\ ToSet(long) = ToSet(q) \cup ToSet(ms)
    BY <2>2 DEF S
  <2>. QED BY <2>3, <2>4
<1> HIDE DEF long
<1>4. /\ toServer'[c] = IF c \in gone THEN q ELSE long
      /\ \A g \in Guid : g # c => toServer'[g] = toServer[g]
      /\ toServer' \in [Guid -> Seq(ToServerMessage)]
  BY <1>1, <1>2, <1>3
<1>5. q = toServer[c]
  BY DEF q
<1>. QED BY <1>3, <1>4, <1>5 DEF Done

\* A client takes the first message of its queue.
LEMMA TakeFacts ==
  ASSUME NetTypeOK, NEW c \in Guid, toClient[c] # <<>>,
         toClient' = [toClient EXCEPT ![c] = Tail(@)]
  PROVE  /\ toClient' \in [Guid -> Seq(Message \cup BoundAddresses)]
         /\ \A g \in Guid : g # c => toClient'[g] = toClient[g]
         /\ Head(toClient[c]) \in Message \cup BoundAddresses
         /\ ToSet(toClient[c]) = ToSet(toClient'[c]) \cup {Head(toClient[c])}
         /\ AtMostOne(toClient[c], ConnectId) =>
              /\ AtMostOne(toClient'[c], ConnectId)
              /\ Head(toClient[c]).id = ConnectId => ~Told(c)'
         /\ NewsFirst(toClient[c]) =>
              /\ NewsFirst(toClient'[c])
              /\ Head(toClient[c]).id = ConnectId => ~InQueue(toClient'[c], NewsId)
<1> DEFINE q == toClient[c]
           t == Tail(q)
           h == Head(q)
           S == Message \cup BoundAddresses
<1>1. q \in Seq(S) /\ toClient \in [Guid -> Seq(S)] /\ q # <<>>
  BY DEF NetTypeOK
<1> HIDE DEF S
<1>2. toClient' = [toClient EXCEPT ![c] = t]
  OBVIOUS
<1> HIDE DEF q
<1>3. /\ t \in Seq(S) /\ h \in S
      /\ ToSet(q) = ToSet(t) \cup {h}
      /\ AtMostOne(q, ConnectId) =>
           AtMostOne(t, ConnectId) /\ (h.id = ConnectId => ~InQueue(t, ConnectId))
      /\ NewsFirst(q) =>
           NewsFirst(t) /\ (h.id = ConnectId => ~InQueue(t, NewsId))
  BY <1>1, TailQueue
<1> HIDE DEF t
<1>4. /\ toClient'[c] = t /\ \A g \in Guid : g # c => toClient'[g] = toClient[g]
      /\ toClient' \in [Guid -> Seq(S)]
  BY <1>1, <1>2, <1>3
<1>5. q = toClient[c] /\ h = Head(toClient[c])
  BY DEF q
<1> HIDE DEF h
<1>. QED BY <1>3, <1>4, <1>5 DEF Told, S

\* A client that neither sends nor receives, and whose punch goes on.
LEMMA OtherGood ==
  ASSUME NEW g \in Guid, ClientGood(g), ClientStep,
         toServer'[g] = toServer[g], toClient'[g] = toClient[g],
         sp'[g].active = sp[g].active, sp'[g].target = sp[g].target,
         queuedOpenNat'[g] = queuedOpenNat[g], hasPortStride'[g] = hasPortStride[g]
  PROVE  ClientGood(g)'
<1>1. UNCHANGED <<isReady, attempts>>
  BY DEF ClientStep
<1>2. InAttempt(g)' <=> InAttempt(g)
  BY <1>1 DEF InAttempt, InProgress, Involves
<1>3. OneTurn(g)'
  BY <1>1, <1>2, Zenon DEF ClientGood, OneTurn, InProgress, Involves
<1>4. NewsBeforePunch(g)' /\ NotItself(g)' /\ QueuesWhileCalculating(g)'
  BY DEF ClientGood, NewsBeforePunch, NotItself, QueuesWhileCalculating
<1>. QED BY <1>3, <1>4 DEF ClientGood

LEMMA OtherAttended ==
  ASSUME NEW g \in Guid, AttendedTo(g), ClientStep,
         toServer'[g] = toServer[g], toClient'[g] = toClient[g],
         sp'[g].active = sp[g].active, sp'[g].target = sp[g].target,
         sp'[g].weAreSender = sp[g].weAreSender,
         queuedOpenNat'[g] = queuedOpenNat[g], awaiting'[g] \subseteq awaiting[g]
  PROVE  AttendedTo(g)'
<1>1. UNCHANGED <<isReady, attempts>>
  BY DEF ClientStep
<1>2. InAttempt(g)' <=> InAttempt(g)
  BY <1>1 DEF InAttempt, InProgress, Involves
<1>3. Busy(g) => Busy(g)'
  BY <1>2 DEF Busy
<1>4. ASSUME NEW r, UnderWay(g, r) PROVE UnderWay(g, r)'
  <2>1. CASE sp[g].active /\ sp[g].weAreSender /\ sp[g].target = r
    BY <2>1 DEF UnderWay
  <2>2. CASE ~(sp[g].active /\ sp[g].weAreSender /\ sp[g].target = r)
    BY <1>1, <1>4, <2>2 DEF UnderWay, Request
  <2>. QED BY <2>1, <2>2
<1>. QED BY <1>1, <1>3, <1>4 DEF AttendedTo

\* A client that sends ms, may take a message, and passes its turn on at most:
\* from the facilitator's word to the punch, or from the punch to the ready
\* notice.
LEMMA ActorGood ==
  ASSUME NEW c \in Guid, ClientGood(c), ClientStep, NEW ms,
         ToSet(toClient'[c]) \subseteq ToSet(toClient[c]),
         AtMostOne(toClient'[c], ConnectId), NewsFirst(toClient'[c]),
         ToSet(toServer'[c]) \subseteq ToSet(toServer[c]) \cup ToSet(ms),
         ~(Done(c) /\ InQueue(ms, ReadyId)) => AtMostOne(toServer'[c], ReadyId),
         InQueue(ms, ReadyId) => sp[c].active /\ ~sp'[c].active,
         \A m \in ToSet(ms) : m.id = "ID_NAT_PUNCHTHROUGH_REQUEST" => m.peer # c,
         sp'[c].active =>
           \/ sp[c].active /\ sp'[c].target = sp[c].target
           \/ /\ Told(c) /\ ~Told(c)' /\ ~InQueue(toClient'[c], NewsId)
              /\ sp'[c].target # c,
         c \notin ToSet(queuedOpenNat'[c]),
         QueuesWhileCalculating(c)'
  PROVE  ClientGood(c)'
<1>1. UNCHANGED <<isReady, attempts>>
  BY DEF ClientStep
<1>2. (InAttempt(c)' <=> InAttempt(c)) /\ OneAttempt(c)'
  <2>1. OneAttempt(c)
    BY TurnFacts
  <2>. QED BY <1>1, <2>1 DEF InAttempt, OneAttempt, InProgress, Involves
<1>3. /\ isReady[c] => ~InAttempt(c) /\ ~Told(c) /\ ~sp[c].active /\ ~Done(c)
      /\ InAttempt(c) => ~Told(c) /\ ~sp[c].active /\ ~Done(c)
      /\ Told(c) => ~sp[c].active /\ ~Done(c)
      /\ sp[c].active => ~Done(c)
  BY Zenon DEF ClientGood, OneTurn, Told, Done, ConnectId, ReadyId
<1>4. Told(c)' => Told(c)
  BY DEF Told, InQueue
<1>5. Done(c)' => Done(c) \/ InQueue(ms, ReadyId)
  BY DEF Done, InQueue
<1>6. AtMostOne(toServer'[c], ReadyId)
  BY <1>3
<1>7. /\ isReady'[c] => ~InAttempt(c)' /\ ~Told(c)' /\ ~sp'[c].active /\ ~Done(c)'
      /\ InAttempt(c)' => ~Told(c)' /\ ~sp'[c].active /\ ~Done(c)'
      /\ Told(c)' => ~sp'[c].active /\ ~Done(c)'
      /\ sp'[c].active => ~Done(c)'
  BY <1>1, <1>2, <1>3, <1>4, <1>5
<1>8. OneTurn(c)'
  BY <1>2, <1>6, <1>7, Zenon DEF OneTurn, OneAttempt, Told, Done, ConnectId, ReadyId
<1>9. NewsBeforePunch(c)'
  <2>1. InQueue(toClient'[c], NewsId) => InQueue(toClient[c], NewsId)
    BY DEF InQueue
  <2>2. sp[c].active => ~InQueue(toClient[c], NewsId)
    BY DEF ClientGood, NewsBeforePunch, NewsId
  <2>3. sp'[c].active => ~InQueue(toClient'[c], NewsId)
    BY <2>1, <2>2
  <2>. QED BY <2>3 DEF NewsBeforePunch, NewsId
<1>10. NotItself(c)'
  BY DEF ClientGood, NotItself
<1>. QED BY <1>8, <1>9, <1>10 DEF ClientGood

LEMMA ActorAttended ==
  ASSUME NEW c \in Guid, AttendedTo(c), ClientStep,
         ToSet(toClient'[c]) \subseteq ToSet(toClient[c]),
         \A r \in awaiting'[c] : UnderWay(c, r)',
         Told(c) \/ sp[c].active \/ Done(c) => Told(c)' \/ sp'[c].active \/ Done(c)'
  PROVE  AttendedTo(c)'
<1>1. UNCHANGED <<isReady, attempts>>
  BY DEF ClientStep
<1>2. InAttempt(c)' <=> InAttempt(c)
  BY <1>1 DEF InAttempt, InProgress, Involves
<1>3. isReady[c] \/ InAttempt(c) \/ Told(c) \/ sp[c].active \/ Done(c)
  BY Zenon DEF AttendedTo, Busy, Told, Done, ConnectId, ReadyId
<1>4. isReady'[c] \/ InAttempt(c)' \/ Told(c)' \/ sp'[c].active \/ Done(c)'
  BY <1>1, <1>2, <1>3
<1>5. (isReady[c] \/ Busy(c))'
  BY <1>4, Zenon DEF Busy, Told, Done, ConnectId, ReadyId
<1>6. \A m \in ToSet(toClient'[c]) : m.id \notin LossNews
  BY DEF AttendedTo
<1>. QED BY <1>5, <1>6 DEF AttendedTo

LEMMA UnderWayKept ==
  ASSUME NEW c \in Guid, NEW r \in Guid, UnderWay(c, r), ClientStep,
         ToSet(toServer[c]) \subseteq ToSet(toServer'[c]),
         r \in ToSet(queuedOpenNat[c]) =>
           r \in ToSet(queuedOpenNat'[c]) \/ Request(r) \in ToSet(toServer'[c]),
         \A m \in ToSet(toClient[c]) : Concerns(m, r) =>
           \/ m \in ToSet(toClient'[c])
           \/ sp'[c].active /\ sp'[c].weAreSender /\ sp'[c].target = r,
         sp[c].active /\ sp[c].weAreSender /\ sp[c].target = r =>
           \/ sp'[c].active /\ sp'[c].weAreSender /\ sp'[c].target = r
           \/ Request(r) \in ToSet(toServer'[c])
  PROVE  UnderWay(c, r)'
<1>1. UNCHANGED attempts
  BY DEF ClientStep
<1>. QED BY <1>1 DEF UnderWay, Request

\* What every step of client c keeps that disturbs no other client.
LEMMA ClientStepInv ==
  ASSUME NetIInv, ClientStep, NEW c \in Guid, NetTypeOK', ClientGood(c)',
         \A g \in Guid : g # c =>
           /\ toServer'[g] = toServer[g] /\ toClient'[g] = toClient[g]
           /\ sp'[g].active = sp[g].active /\ sp'[g].target = sp[g].target
           /\ sp'[g].weAreSender = sp[g].weAreSender
           /\ queuedOpenNat'[g] = queuedOpenNat[g] /\ hasPortStride'[g] = hasPortStride[g]
           /\ awaiting'[g] = awaiting[g],
         gone' = {} => gone = {} /\ AttendedTo(c)'
  PROVE  NetIInv'
<1>1. IInv' /\ OverdueIsInProgress'
  BY ClientStepIInv DEF NetIInv, ClientStep, OverdueIsInProgress, InProgress
<1>2. \A g \in Guid : ClientGood(g)'
  <2> SUFFICES ASSUME NEW g \in Guid, g # c PROVE ClientGood(g)'
    OBVIOUS
  <2>1. ClientGood(g)
    BY DEF NetIInv
  <2>. QED BY <2>1, OtherGood
<1>3. ASSUME gone' = {} PROVE closing' = {} /\ users' = Guid /\ \A g \in Guid : AttendedTo(g)'
  <2>1. gone = {} /\ closing = {} /\ users = Guid /\ \A g \in Guid : AttendedTo(g)
    BY <1>3 DEF NetIInv
  <2>2. UNCHANGED <<closing, users>>
    BY DEF ClientStep, pcVars
  <2>3. ASSUME NEW g \in Guid, g # c PROVE AttendedTo(g)'
    BY <2>1, <2>3, OtherAttended
  <2>. QED BY <1>3, <2>1, <2>2, <2>3
<1>. QED BY <1>1, <1>2, <1>3 DEF NetIInv

\* What a client has queued, as messages.
LEMMA QueuedFacts ==
  ASSUME NetTypeOK, NEW c \in Guid
  PROVE  /\ QueuedRequests(c) \in Seq(ToServerMessage)
         /\ ToSet(QueuedRequests(c)) = {Request(r) : r \in ToSet(queuedOpenNat[c])}
         /\ ~InQueue(QueuedRequests(c), ReadyId)
         /\ AtMostOne(QueuedRequests(c), ReadyId)
         /\ ToSet(queuedOpenNat[c]) \subseteq Guid
<1> DEFINE q == queuedOpenNat[c]
           ms == [i \in DOMAIN q |-> Request(q[i])]
<1>1. q \in Seq(Guid)
  BY DEF NetTypeOK
<1> HIDE DEF q
<1>2. DOMAIN q = 1 .. Len(q) /\ Len(q) \in Nat /\ \A i \in 1 .. Len(q) : q[i] \in Guid
  BY <1>1
<1>3. \A r \in Guid : Request(r) \in ToServerMessage /\ Request(r).id # ReadyId
  BY DEF Request, ToServerMessage, ReadyId
<1>4. /\ ms \in Seq(ToServerMessage) /\ DOMAIN ms = 1 .. Len(q) /\ Len(ms) = Len(q)
      /\ \A i \in 1 .. Len(q) : ms[i] = Request(q[i])
  <2> HIDE DEF ms
  <2>1. ms = [i \in 1 .. Len(q) |-> Request(q[i])]
    BY <1>2 DEF ms
  <2>2. ms \in [1 .. Len(q) -> ToServerMessage]
    BY <1>2, <1>3, <2>1
  <2>. QED BY <1>2, <2>1, <2>2
<1> HIDE DEF ms
<1>5. ToSet(ms) = {Request(r) : r \in ToSet(q)}
  BY <1>2, <1>4 DEF ToSet
<1>6. \A m \in ToSet(ms) : m.id # ReadyId
  BY <1>2, <1>3, <1>4 DEF ToSet
<1>7. \A i \in 1 .. Len(ms) : ms[i].id # ReadyId
  BY <1>2, <1>3, <1>4
<1>8. ToSet(q) \subseteq Guid
  BY <1>2 DEF ToSet
<1>9. QueuedRequests(c) = ms /\ q = queuedOpenNat[c]
  BY DEF QueuedRequests, ms, q
<1>. QED BY <1>4, <1>5, <1>6, <1>7, <1>8, <1>9 DEF InQueue, AtMostOne

\* A message a client sends alone, or with another.
LEMMA MessageFacts ==
  ASSUME NEW r \in Guid
  PROVE  /\ Ready \in ToServerMessage /\ Request(r) \in ToServerMessage
         /\ Ready.id = ReadyId
         /\ Request(r).id = "ID_NAT_PUNCHTHROUGH_REQUEST" /\ Request(r).peer = r
         /\ Ready # Request(r)
BY DEF Ready, Request, ToServerMessage, ReadyId

\* OnPunchthroughFailure, OnPunchthroughSuccess and the failures reported by the
\* facilitator stop the punch.
LEMMA StoppedFacts ==
  ASSUME sp \in [Guid -> Ping], NEW c \in Guid, sp' = Stopped(c)
  PROVE  /\ sp' \in [Guid -> Ping]
         /\ ~sp'[c].active /\ sp'[c].target = sp[c].target
         /\ \A g \in Guid : g # c => sp'[g] = sp[g]
<1> DEFINE p == sp[c]
           stopped == [p EXCEPT !.active = FALSE, !.answered = FALSE]
<1>1. p \in Ping
  OBVIOUS
<1>2. stopped \in Ping /\ ~stopped.active /\ stopped.target = p.target
  <2> HIDE DEF p
  <2>. QED BY <1>1 DEF Ping
<1>3. sp' = [sp EXCEPT ![c] = stopped]
  BY DEF Stopped
<1> HIDE DEF stopped
<1>. QED BY <1>2, <1>3

LEMMA OpenNATInv ==
  ASSUME NetIInv, NEW c \in Guid, NEW r \in Guid, OpenNAT(c, r) PROVE NetIInv'
<1> DEFINE q == queuedOpenNat[c]
           looking == [id |-> "ID_NAT_REQUEST_BOUND_ADDRESSES"]
<1>1. NetTypeOK /\ ClientGood(c) /\ (gone = {} => AttendedTo(c))
  BY DEF NetIInv
<1>2. /\ c # r /\ c \notin gone /\ ClientStep
      /\ awaiting' = [awaiting EXCEPT ![c] = @ \cup {r}]
      /\ UNCHANGED <<toClient, sp, failed, pinged, gone>>
  BY DEF OpenNAT
<1>3. UNCHANGED <<boundAddressCount, reportedFor, attempts>>
  BY <1>2 DEF ClientStep
<1>4. PICK ms :
        /\ ms \in Seq(ToServerMessage) /\ Send(c, ms) /\ AtMostOne(ms, ReadyId)
        /\ ~InQueue(ms, ReadyId)
        /\ \A m \in ToSet(ms) : m.id = "ID_NAT_PUNCHTHROUGH_REQUEST" => m.peer # c
        /\ \/ /\ Request(r) \in ToSet(ms) /\ UNCHANGED <<hasPortStride, queuedOpenNat>>
           \/ /\ SetStride(c, "CALCULATING_PORT_STRIDE")
              /\ queuedOpenNat' = [queuedOpenNat EXCEPT ![c] = Append(@, r)]
  <2>1. ASSUME Send(c, <<Request(r)>>), UNCHANGED <<hasPortStride, queuedOpenNat>>
        PROVE  \E ms : /\ ms \in Seq(ToServerMessage) /\ Send(c, ms) /\ AtMostOne(ms, ReadyId)
                       /\ ~InQueue(ms, ReadyId)
                       /\ \A m \in ToSet(ms) : m.id = "ID_NAT_PUNCHTHROUGH_REQUEST" => m.peer # c
                       /\ Request(r) \in ToSet(ms)
    <3> DEFINE m1 == Request(r)
    <3>1. /\ m1 \in ToServerMessage /\ m1.id = "ID_NAT_PUNCHTHROUGH_REQUEST" /\ m1.peer = r
          /\ m1.id # ReadyId
      BY MessageFacts DEF ReadyId
    <3> HIDE DEF m1
    <3>2. <<m1>> \in Seq(ToServerMessage) /\ ToSet(<<m1>>) = {m1} /\ AtMostOne(<<m1>>, ReadyId)
      BY <3>1, ShortQueue
    <3>3. Send(c, <<m1>>)
      BY <2>1 DEF m1
    <3>4. ~InQueue(<<m1>>, ReadyId)
      BY <3>1, <3>2 DEF InQueue
    <3> DEFINE ms == <<m1>>
    <3>5. \A m \in ToSet(ms) : m.id = "ID_NAT_PUNCHTHROUGH_REQUEST" => m.peer # c
      BY <1>2, <3>1, <3>2
    <3>6. m1 \in ToSet(ms)
      BY <3>2
    <3> HIDE DEF ms
    <3>7. ms \in Seq(ToServerMessage) /\ Send(c, ms) /\ AtMostOne(ms, ReadyId) /\ ~InQueue(ms, ReadyId)
      BY <3>2, <3>3, <3>4 DEF ms
    <3>. QED BY <3>5, <3>6, <3>7 DEF m1
  <2>2. ASSUME NEW ms, Send(c, ms), ms = <<looking>> \/ ms = <<>>
        PROVE  /\ ms \in Seq(ToServerMessage) /\ AtMostOne(ms, ReadyId) /\ ~InQueue(ms, ReadyId)
               /\ \A m \in ToSet(ms) : m.id # "ID_NAT_PUNCHTHROUGH_REQUEST"
    <3>1. looking \in ToServerMessage /\ looking.id = "ID_NAT_REQUEST_BOUND_ADDRESSES"
      BY DEF ToServerMessage
    <3> HIDE DEF looking
    <3>2. ms \in Seq(ToServerMessage) /\ ToSet(ms) \subseteq {looking} /\ AtMostOne(ms, ReadyId)
      <4>1. CASE ms = <<looking>>
        <5>1. /\ <<looking>> \in Seq(ToServerMessage) /\ ToSet(<<looking>>) = {looking}
              /\ AtMostOne(<<looking>>, ReadyId)
          BY <3>1, ShortQueue
        <5>. QED BY <4>1, <5>1
      <4>2. CASE ms = <<>>
        <5>1. /\ <<>> \in Seq(ToServerMessage) /\ ToSet(<<>>) = {}
              /\ AtMostOne(<<>>, ReadyId)
          BY EmptyQueue
        <5>. QED BY <4>2, <5>1
      <4>. QED BY <2>2, <4>1, <4>2
    <3>. QED BY <3>1, <3>2 DEF InQueue, ReadyId
  <2>3. \/ Send(c, <<Request(r)>>) /\ UNCHANGED <<hasPortStride, queuedOpenNat>>
        \/ /\ \E ms : Send(c, ms) /\ (ms = <<looking>> \/ ms = <<>>)
           /\ SetStride(c, "CALCULATING_PORT_STRIDE")
           /\ queuedOpenNat' = [queuedOpenNat EXCEPT ![c] = Append(@, r)]
    <3>1. IF KnowsStride(c)
          THEN Send(c, <<Request(r)>>) /\ UNCHANGED <<hasPortStride, queuedOpenNat>>
          ELSE /\ Send(c, IF hasPortStride[c] = "UNKNOWN_PORT_STRIDE" THEN <<looking>> ELSE <<>>)
               /\ SetStride(c, "CALCULATING_PORT_STRIDE")
               /\ queuedOpenNat' = [queuedOpenNat EXCEPT ![c] = Append(@, r)]
      BY Zenon DEF OpenNAT
    <3> HIDE DEF looking
    <3>2. ASSUME Send(c, IF hasPortStride[c] = "UNKNOWN_PORT_STRIDE" THEN <<looking>> ELSE <<>>)
          PROVE  \E ms : Send(c, ms) /\ (ms = <<looking>> \/ ms = <<>>)
      <4>1. CASE hasPortStride[c] = "UNKNOWN_PORT_STRIDE"
        BY <3>2, <4>1, Zenon
      <4>2. CASE hasPortStride[c] # "UNKNOWN_PORT_STRIDE"
        BY <3>2, <4>2, Zenon
      <4>. QED BY <4>1, <4>2
    <3>. QED BY <3>1, <3>2, Zenon
  <2> HIDE DEF looking
  <2>. QED BY <2>1, <2>2, <2>3, Zenon
<1>5. /\ toServer' \in [Guid -> Seq(ToServerMessage)]
      /\ \A g \in Guid : g # c => toServer'[g] = toServer[g]
      /\ ToSet(toServer'[c]) \subseteq ToSet(toServer[c]) \cup ToSet(ms)
      /\ ToSet(toServer[c]) \subseteq ToSet(toServer'[c])
      /\ ToSet(ms) \subseteq ToSet(toServer'[c])
      /\ AtMostOne(toServer[c], ReadyId) => AtMostOne(toServer'[c], ReadyId)
  BY <1>1, <1>2, <1>4, SendFacts
<1>6. /\ q \in Seq(Guid) /\ Append(q, r) \in Seq(Guid)
      /\ ToSet(Append(q, r)) = ToSet(q) \cup {r}
  <2>1. q \in Seq(Guid)
    BY <1>1 DEF NetTypeOK
  <2> HIDE DEF q
  <2>. QED BY <2>1, AppendQueue
<1> DEFINE long == Append(q, r)
<1> HIDE DEF q, long
<1>7. /\ queuedOpenNat' \in [Guid -> Seq(Guid)] /\ hasPortStride' \in [Guid -> PortStride]
      /\ \A g \in Guid : g # c => queuedOpenNat'[g] = queuedOpenNat[g]
                                 /\ hasPortStride'[g] = hasPortStride[g]
      /\ ToSet(q) \subseteq ToSet(queuedOpenNat'[c])
      /\ ToSet(queuedOpenNat'[c]) \subseteq ToSet(q) \cup {r}
      /\ r \in ToSet(queuedOpenNat'[c]) \/ Request(r) \in ToSet(toServer'[c])
      /\ QueuesWhileCalculating(c)'
  <2>1. q = queuedOpenNat[c] /\ Append(queuedOpenNat[c], r) = long
    BY DEF q, long
  <2>2. /\ queuedOpenNat \in [Guid -> Seq(Guid)] /\ hasPortStride \in [Guid -> PortStride]
        /\ "CALCULATING_PORT_STRIDE" \in PortStride
    BY <1>1 DEF NetTypeOK, PortStride
  <2>3. long \in Seq(Guid) /\ ToSet(long) = ToSet(q) \cup {r}
    BY <1>6 DEF long
  <2>4. CASE Request(r) \in ToSet(ms) /\ UNCHANGED <<hasPortStride, queuedOpenNat>>
    <3>1. QueuesWhileCalculating(c)
      BY <1>1 DEF ClientGood
    <3>2. QueuesWhileCalculating(c)'
      BY <2>4, <3>1 DEF QueuesWhileCalculating
    <3>. QED BY <1>5, <2>1, <2>2, <2>4, <3>2
  <2>5. CASE /\ hasPortStride' = [hasPortStride EXCEPT ![c] = "CALCULATING_PORT_STRIDE"]
             /\ queuedOpenNat' = [queuedOpenNat EXCEPT ![c] = long]
    <3>1. queuedOpenNat'[c] = long /\ hasPortStride'[c] = "CALCULATING_PORT_STRIDE"
      BY <2>2, <2>5
    <3>2. QueuesWhileCalculating(c)'
      BY <3>1 DEF QueuesWhileCalculating
    <3>. QED BY <2>1, <2>2, <2>3, <2>5, <3>1, <3>2
  <2>. QED BY <1>4, <2>1, <2>4, <2>5 DEF SetStride
<1>8. awaiting' \in [Guid -> SUBSET Guid] /\ awaiting'[c] = awaiting[c] \cup {r}
      /\ \A g \in Guid : g # c => awaiting'[g] = awaiting[g]
  BY <1>1, <1>2 DEF NetTypeOK
<1>9. NetTypeOK'
  BY <1>1, <1>2, <1>3, <1>5, <1>7, <1>8 DEF NetTypeOK
<1>10. ClientGood(c)'
  <2>1. /\ AtMostOne(toServer[c], ReadyId) /\ AtMostOne(toClient[c], ConnectId)
        /\ NewsFirst(toClient[c]) /\ c \notin ToSet(q)
    BY <1>1, TurnFacts DEF ClientGood, NewsBeforePunch, NotItself, q
  <2>. QED BY <1>1, <1>2, <1>4, <1>5, <1>7, <2>1, ActorGood
<1>11. ASSUME gone' = {} PROVE AttendedTo(c)'
  <2>1. AttendedTo(c)
    BY <1>1, <1>2, <1>11
  <2>2. ASSUME NEW x \in awaiting'[c] PROVE UnderWay(c, x)'
    <3>1. CASE x = r
      BY <1>7, <3>1 DEF UnderWay, Request
    <3>2. CASE x # r
      <4>1. x \in Guid /\ UnderWay(c, x)
        BY <1>1, <1>8, <2>1, <2>2, <3>2 DEF AttendedTo, NetTypeOK
      <4>2. q = queuedOpenNat[c]
        BY DEF q
      <4>. QED BY <1>2, <1>5, <1>7, <4>1, <4>2, UnderWayKept
    <3>. QED BY <3>1, <3>2
  <2>3. Told(c) \/ sp[c].active \/ Done(c) => Told(c)' \/ sp'[c].active \/ Done(c)'
    BY <1>2, <1>5 DEF Told, Done, InQueue
  <2>. QED BY <1>2, <2>1, <2>2, <2>3, ActorAttended
<1>. QED BY <1>2, <1>5, <1>7, <1>8, <1>9, <1>10, <1>11, ClientStepInv

\* A client takes at most one message, and that has the identifier id.
Takes(c, id) ==
  /\ toClient' \in [Guid -> Seq(Message \cup BoundAddresses)]
  /\ \A g \in Guid : g # c => toClient'[g] = toClient[g]
  /\ ToSet(toClient'[c]) \subseteq ToSet(toClient[c])
  /\ AtMostOne(toClient'[c], ConnectId)
  /\ NewsFirst(toClient'[c])
  /\ \A x \in ToSet(toClient[c]) : x \in ToSet(toClient'[c]) \/ x.id = id

LEMMA TakesNothing ==
  ASSUME NetTypeOK, NEW c \in Guid, ClientGood(c), UNCHANGED toClient, NEW id
  PROVE  Takes(c, id)
<1>1. AtMostOne(toClient[c], ConnectId) /\ NewsFirst(toClient[c])
  BY TurnFacts DEF ClientGood, NewsBeforePunch
<1>. QED BY <1>1 DEF Takes, NetTypeOK

LEMMA TakesFirst ==
  ASSUME NetTypeOK, NEW c \in Guid, ClientGood(c), toClient[c] # <<>>,
         toClient' = [toClient EXCEPT ![c] = Tail(@)]
  PROVE  Takes(c, Head(toClient[c]).id)
<1>1. AtMostOne(toClient[c], ConnectId) /\ NewsFirst(toClient[c])
  BY TurnFacts DEF ClientGood, NewsBeforePunch
<1> DEFINE h == Head(toClient[c])
<1>2. /\ toClient' \in [Guid -> Seq(Message \cup BoundAddresses)]
      /\ \A g \in Guid : g # c => toClient'[g] = toClient[g]
      /\ ToSet(toClient[c]) = ToSet(toClient'[c]) \cup {h}
      /\ AtMostOne(toClient'[c], ConnectId) /\ NewsFirst(toClient'[c])
  BY <1>1, TakeFacts
<1> HIDE DEF h
<1>3. Takes(c, h.id)
  BY <1>2 DEF Takes
<1>. QED BY <1>3 DEF h

\* A client sends ms.
Adds(c, ms) ==
  /\ toServer' \in [Guid -> Seq(ToServerMessage)]
  /\ \A g \in Guid : g # c => toServer'[g] = toServer[g]
  /\ ToSet(toServer'[c]) \subseteq ToSet(toServer[c]) \cup ToSet(ms)
  /\ ToSet(toServer[c]) \subseteq ToSet(toServer'[c])
  /\ c \notin gone => ToSet(ms) \subseteq ToSet(toServer'[c])
  /\ ~(Done(c) /\ InQueue(ms, ReadyId)) => AtMostOne(toServer'[c], ReadyId)

LEMMA AddsSent ==
  ASSUME NetTypeOK, NEW c \in Guid, ClientGood(c), NEW ms \in Seq(ToServerMessage),
         AtMostOne(ms, ReadyId), Send(c, ms)
  PROVE  Adds(c, ms)
<1>1. AtMostOne(toServer[c], ReadyId)
  BY TurnFacts
<1>. QED BY <1>1, SendFacts DEF Adds

LEMMA AddsNothing ==
  ASSUME NetTypeOK, NEW c \in Guid, ClientGood(c), UNCHANGED toServer
  PROVE  Adds(c, <<>>)
<1>1. AtMostOne(toServer[c], ReadyId) /\ ToSet(<<>>) = {}
  BY TurnFacts, EmptyQueue
<1>. QED BY <1>1 DEF Adds, NetTypeOK

\* What a step of client c leaves alone of the others.
Spares(c) ==
  \A g \in Guid : g # c =>
    /\ sp'[g].active = sp[g].active /\ sp'[g].target = sp[g].target
    /\ sp'[g].weAreSender = sp[g].weAreSender
    /\ queuedOpenNat'[g] = queuedOpenNat[g] /\ hasPortStride'[g] = hasPortStride[g]
    /\ awaiting'[g] = awaiting[g]

LEMMA ActorInv ==
  ASSUME NetIInv, NEW c \in Guid, ClientStep, NetTypeOK', NEW ms, NEW id,
         Takes(c, id), Adds(c, ms), Spares(c),
         InQueue(ms, ReadyId) => sp[c].active /\ ~sp'[c].active,
         \A m \in ToSet(ms) : m.id = "ID_NAT_PUNCHTHROUGH_REQUEST" => m.peer # c,
         sp'[c].active =>
           \/ sp[c].active /\ sp'[c].target = sp[c].target
           \/ /\ Told(c) /\ ~Told(c)' /\ ~InQueue(toClient'[c], NewsId)
              /\ sp'[c].target # c,
         c \notin ToSet(queuedOpenNat'[c]),
         QueuesWhileCalculating(c)',
         gone' = {} =>
           /\ gone = {}
           /\ \A r \in awaiting'[c] : UnderWay(c, r)'
           /\ Told(c) \/ sp[c].active \/ Done(c) => Told(c)' \/ sp'[c].active \/ Done(c)'
  PROVE  NetIInv'
<1>1. ClientGood(c) /\ (gone = {} => AttendedTo(c))
  BY DEF NetIInv
<1>2. ClientGood(c)'
  BY <1>1, ActorGood DEF Takes, Adds
<1>3. gone' = {} => gone = {} /\ AttendedTo(c)'
  BY <1>1, ActorAttended DEF Takes
<1>. QED BY <1>2, <1>3, ClientStepInv DEF Takes, Adds, Spares

\* SendQueuedOpenNAT with ms the messages that are sent.
LEMMA FlushFacts ==
  ASSUME NetTypeOK, NEW c \in Guid, ClientGood(c), NothingQueued(c)
  PROVE  /\ queuedOpenNat' \in [Guid -> Seq(Guid)] /\ queuedOpenNat'[c] = <<>>
         /\ \A g \in Guid : g # c => queuedOpenNat'[g] = queuedOpenNat[g]
         /\ c \notin ToSet(queuedOpenNat'[c])
         /\ QueuesWhileCalculating(c)'
         /\ \A m \in ToSet(QueuedRequests(c)) :
              m.id = "ID_NAT_PUNCHTHROUGH_REQUEST" => m.peer # c
<1>1. /\ queuedOpenNat' \in [Guid -> Seq(Guid)] /\ queuedOpenNat'[c] = <<>>
      /\ \A g \in Guid : g # c => queuedOpenNat'[g] = queuedOpenNat[g]
  BY DEF NothingQueued, NetTypeOK
<1>2. c \notin ToSet(queuedOpenNat'[c])
  BY <1>1, EmptyQueue
<1>3. QueuesWhileCalculating(c)'
  BY <1>1 DEF QueuesWhileCalculating
<1>4. ASSUME NEW m \in ToSet(QueuedRequests(c)) PROVE m.peer # c
  <2>1. PICK r \in ToSet(queuedOpenNat[c]) : m = Request(r)
    BY <1>4, QueuedFacts
  <2>. QED BY <2>1 DEF Request, ClientGood, NotItself
<1>. QED BY <1>1, <1>2, <1>3, <1>4

LEMMA FlushInv ==
  ASSUME NetIInv, NEW c \in Guid, ClientStep, SendQueuedOpenNAT(c),
         NEW known \in PortStride, SetStride(c, known),
         NEW id, Takes(c, id), id = "ID_NAT_RESPOND_BOUND_ADDRESSES",
         UNCHANGED <<clientVars, gone>>, pinged' \subseteq Guid
  PROVE  NetIInv'
<1> DEFINE ms == QueuedRequests(c)
<1>1. NetTypeOK /\ ClientGood(c) /\ (gone = {} => AttendedTo(c))
  BY DEF NetIInv
<1>2. /\ ms \in Seq(ToServerMessage) /\ ToSet(ms) = {Request(r) : r \in ToSet(queuedOpenNat[c])}
      /\ ~InQueue(ms, ReadyId) /\ AtMostOne(ms, ReadyId)
  BY <1>1, QueuedFacts
<1>3. /\ queuedOpenNat' \in [Guid -> Seq(Guid)]
      /\ \A g \in Guid : g # c => queuedOpenNat'[g] = queuedOpenNat[g]
      /\ c \notin ToSet(queuedOpenNat'[c])
      /\ QueuesWhileCalculating(c)'
      /\ \A m \in ToSet(ms) : m.id = "ID_NAT_PUNCHTHROUGH_REQUEST" => m.peer # c
  BY <1>1, FlushFacts DEF SendQueuedOpenNAT
<1>4. Send(c, ms)
  BY DEF SendQueuedOpenNAT
<1> HIDE DEF ms
<1>5. Adds(c, ms)
  BY <1>1, <1>2, <1>4, AddsSent
<1>6. /\ hasPortStride' \in [Guid -> PortStride]
      /\ \A g \in Guid : g # c => hasPortStride'[g] = hasPortStride[g]
  BY <1>1 DEF SetStride, NetTypeOK
<1>7. UNCHANGED <<boundAddressCount, reportedFor, sp, failed, awaiting, gone>>
  BY DEF ClientStep, clientVars
<1>8. NetTypeOK'
  BY <1>1, <1>3, <1>5, <1>6, <1>7 DEF NetTypeOK, Adds, Takes
<1>9. ASSUME gone' = {}
      PROVE  /\ gone = {}
             /\ \A r \in awaiting'[c] : UnderWay(c, r)'
             /\ Told(c) \/ sp[c].active \/ Done(c) => Told(c)' \/ sp'[c].active \/ Done(c)'
  <2>1. c \notin gone /\ AttendedTo(c)
    BY <1>1, <1>7, <1>9
  <2>2. ASSUME NEW r \in awaiting'[c] PROVE UnderWay(c, r)'
    <3>1. r \in Guid /\ UnderWay(c, r)
      BY <1>1, <1>7, <2>1, <2>2 DEF AttendedTo, NetTypeOK
    <3>2. r \in ToSet(queuedOpenNat[c]) => Request(r) \in ToSet(toServer'[c])
      BY <1>2, <1>5, <2>1 DEF Adds
    <3>3. \A m \in ToSet(toClient[c]) : Concerns(m, r) => m \in ToSet(toClient'[c])
      BY DEF Takes, Concerns, Failure
    <3>4. ToSet(toServer[c]) \subseteq ToSet(toServer'[c])
      BY <1>5 DEF Adds
    <3>. QED BY <1>7, <3>1, <3>2, <3>3, <3>4, UnderWayKept
  <2>3. Told(c) => Told(c)'
    BY DEF Told, InQueue, Takes, ConnectId
  <2>4. Done(c) => Done(c)'
    BY <1>5 DEF Done, InQueue, Adds
  <2>. QED BY <1>7, <1>9, <2>2, <2>3, <2>4
<1>10. Spares(c)
  BY <1>3, <1>6, <1>7 DEF Spares
<1>. QED BY <1>2, <1>3, <1>5, <1>7, <1>8, <1>9, <1>10, ActorInv

LEMMA OnPongInv ==
  ASSUME NetIInv, NEW c \in Guid, OnPong(c) PROVE NetIInv'
<1>1. NetTypeOK /\ ClientGood(c)
  BY DEF NetIInv
<1>2. /\ ClientStep /\ SendQueuedOpenNAT(c) /\ SetStride(c, "HAS_PORT_STRIDE")
      /\ UNCHANGED <<clientVars, gone>> /\ UNCHANGED toClient /\ pinged' = pinged \ {c}
  BY DEF OnPong
<1>3. Takes(c, "ID_NAT_RESPOND_BOUND_ADDRESSES")
  BY <1>1, <1>2, TakesNothing
<1>4. "HAS_PORT_STRIDE" \in PortStride /\ pinged' \subseteq Guid
  BY <1>1, <1>2 DEF PortStride, NetTypeOK
<1>. QED BY <1>2, <1>3, <1>4, FlushInv

LEMMA StrideTimesOutInv ==
  ASSUME NetIInv, NEW c \in Guid, StrideTimesOut(c) PROVE NetIInv'
<1>1. NetTypeOK /\ ClientGood(c)
  BY DEF NetIInv
<1>2. /\ ClientStep /\ SendQueuedOpenNAT(c) /\ SetStride(c, "UNKNOWN_PORT_STRIDE")
      /\ UNCHANGED <<clientVars, gone>> /\ UNCHANGED toClient /\ pinged' = pinged
  BY DEF StrideTimesOut
<1>3. Takes(c, "ID_NAT_RESPOND_BOUND_ADDRESSES")
  BY <1>1, <1>2, TakesNothing
<1>4. "UNKNOWN_PORT_STRIDE" \in PortStride /\ pinged' \subseteq Guid
  BY <1>1, <1>2 DEF PortStride, NetTypeOK
<1>. QED BY <1>2, <1>3, <1>4, FlushInv

\* A client takes a message that gives it no requests to send, and may answer.
LEMMA HearsInv ==
  ASSUME NetIInv, NEW c \in Guid, ClientStep, toClient[c] # <<>>,
         toClient' = [toClient EXCEPT ![c] = Tail(@)],
         NEW ms, Adds(c, ms), UNCHANGED <<queuedOpenNat, hasPortStride, gone>>,
         \A m \in ToSet(ms) : m.id # ReadyId /\ m.id # "ID_NAT_PUNCHTHROUGH_REQUEST",
         pinged' \subseteq Guid, failed' \in [Guid -> SUBSET Guid],
         sp' \in [Guid -> Ping], \A g \in Guid : g # c => sp'[g] = sp[g],
         awaiting' \in [Guid -> SUBSET Guid],
         \A g \in Guid : g # c => awaiting'[g] = awaiting[g],
         sp'[c].active =>
           \/ sp[c].active /\ sp'[c].target = sp[c].target
           \/ /\ Told(c) /\ ~Told(c)' /\ ~InQueue(toClient'[c], NewsId)
              /\ sp'[c].target # c,
         gone = {} =>
           /\ \A r \in awaiting'[c] :
                /\ r \in awaiting[c]
                /\ \/ Concerns(Head(toClient[c]), r)
                   \/ sp[c].active /\ sp[c].weAreSender /\ sp[c].target = r
                   => sp'[c].active /\ sp'[c].weAreSender /\ sp'[c].target = r
           /\ Told(c) \/ sp[c].active => Told(c)' \/ sp'[c].active
  PROVE  NetIInv'
<1> DEFINE h == Head(toClient[c])
<1>1. NetTypeOK /\ ClientGood(c) /\ (gone = {} => AttendedTo(c))
  BY DEF NetIInv
<1>2. ToSet(toClient[c]) = ToSet(toClient'[c]) \cup {h}
  BY <1>1, TakeFacts
<1>3. Takes(c, h.id)
  BY <1>1, TakesFirst
<1>4. UNCHANGED <<boundAddressCount, reportedFor>>
  BY DEF ClientStep
<1> HIDE DEF h
<1>5. NetTypeOK'
  BY <1>1, <1>3, <1>4 DEF NetTypeOK, Adds, Takes
<1>6. Spares(c)
  BY DEF Spares
<1>7. c \notin ToSet(queuedOpenNat'[c]) /\ QueuesWhileCalculating(c)'
  BY <1>1 DEF ClientGood, NotItself, QueuesWhileCalculating
<1>8. ~InQueue(ms, ReadyId)
  BY DEF InQueue
<1>9. ASSUME gone' = {}
      PROVE  /\ gone = {}
             /\ \A r \in awaiting'[c] : UnderWay(c, r)'
             /\ Told(c) \/ sp[c].active \/ Done(c) => Told(c)' \/ sp'[c].active \/ Done(c)'
  <2>1. gone = {} /\ AttendedTo(c)
    BY <1>1, <1>9
  <2>2. ASSUME NEW r \in awaiting'[c] PROVE UnderWay(c, r)'
    <3>1. r \in Guid /\ UnderWay(c, r)
      BY <1>1, <2>1, <2>2 DEF AttendedTo, NetTypeOK
    <3>2. /\ Concerns(h, r) => sp'[c].active /\ sp'[c].weAreSender /\ sp'[c].target = r
          /\ sp[c].active /\ sp[c].weAreSender /\ sp[c].target = r
             => sp'[c].active /\ sp'[c].weAreSender /\ sp'[c].target = r
      BY <2>1, <2>2 DEF h
    <3>3. \A m \in ToSet(toClient[c]) : Concerns(m, r) =>
            \/ m \in ToSet(toClient'[c])
            \/ sp'[c].active /\ sp'[c].weAreSender /\ sp'[c].target = r
      BY <1>2, <3>2
    <3>4. ToSet(toServer[c]) \subseteq ToSet(toServer'[c])
      BY DEF Adds
    <3>. QED BY <3>1, <3>2, <3>3, <3>4, UnderWayKept
  <2>3. Done(c) => Done(c)'
    BY DEF Done, InQueue, Adds
  <2>. QED BY <2>1, <2>2, <2>3
<1>. QED BY <1>3, <1>5, <1>6, <1>7, <1>8, <1>9, ActorInv

LEMMA ClientReceiveInv ==
  ASSUME NetIInv, NEW c \in Guid, ClientReceive(c) PROVE NetIInv'
<1> DEFINE h == Head(toClient[c])
<1>1. NetTypeOK /\ ClientGood(c) /\ (gone = {} => AttendedTo(c))
  BY DEF NetIInv
<1>2. /\ c \notin gone /\ toClient[c] # <<>> /\ ClientStep /\ UNCHANGED gone
      /\ toClient' = [toClient EXCEPT ![c] = Tail(@)]
      /\ \/ /\ \/ ReceiveGetMostRecentPort(c, h)
               \/ ReceiveConnectAtTime(c, h)
               \/ ReceiveAlreadyInProgress(c, h)
               \/ ReceiveFailure(c, h)
            /\ UNCHANGED <<hasPortStride, queuedOpenNat, pinged>>
         \/ ReceiveBoundAddresses(c, h)
  BY Zenon DEF ClientReceive
<1>3. /\ h \in Message \cup BoundAddresses
      /\ ToSet(toClient[c]) = ToSet(toClient'[c]) \cup {h}
      /\ h.id = ConnectId => ~Told(c)' /\ ~InQueue(toClient'[c], NewsId)
  <2>1. AtMostOne(toClient[c], ConnectId) /\ NewsFirst(toClient[c])
    BY <1>1, TurnFacts DEF ClientGood, NewsBeforePunch
  <2>. QED BY <1>1, <1>2, <2>1, TakeFacts
<1>4. Takes(c, h.id)
  BY <1>1, <1>2, TakesFirst
<1>5. /\ sp \in [Guid -> Ping] /\ failed \in [Guid -> SUBSET Guid]
      /\ awaiting \in [Guid -> SUBSET Guid] /\ pinged \subseteq Guid
      /\ hasPortStride \in [Guid -> PortStride]
  BY <1>1 DEF NetTypeOK
<1>6. h \in ToSet(toClient[c])
  BY <1>3
<1>7. h.id # ConnectId => (Told(c) => Told(c)')
  BY <1>3 DEF Told, InQueue
<1>8. UNCHANGED toServer => Adds(c, <<>>)
  BY <1>1, AddsNothing
<1>9. \A m \in ToSet(<<>>) : m.id # ReadyId /\ m.id # "ID_NAT_PUNCHTHROUGH_REQUEST"
  BY EmptyQueue
<1>10. Told(c) => ~sp[c].active
  BY <1>1, TurnFacts
<1> HIDE DEF h
<1>11. CASE ReceiveBoundAddresses(c, h)
  <2>1. h.id = "ID_NAT_RESPOND_BOUND_ADDRESSES" /\ UNCHANGED clientVars
    BY <1>11 DEF ReceiveBoundAddresses
  <2>2. \/ /\ SetStride(c, "INCAPABLE_PORT_STRIDE") /\ SendQueuedOpenNAT(c)
           /\ pinged' \in {pinged, pinged \cup {c}}
        \/ pinged' = pinged \cup {c} /\ UNCHANGED <<hasPortStride, queuedOpenNat, toServer>>
    BY <1>11, Zenon DEF ReceiveBoundAddresses
  <2>3. CASE /\ SetStride(c, "INCAPABLE_PORT_STRIDE") /\ SendQueuedOpenNAT(c)
             /\ pinged' \in {pinged, pinged \cup {c}}
    <3>1. "INCAPABLE_PORT_STRIDE" \in PortStride /\ pinged' \subseteq Guid
      BY <1>5, <2>3 DEF PortStride
    <3>. QED BY <1>2, <1>4, <2>1, <2>3, <3>1, FlushInv
  <2>4. CASE pinged' = pinged \cup {c} /\ UNCHANGED <<hasPortStride, queuedOpenNat, toServer>>
    <3>1. UNCHANGED <<sp, failed, awaiting>> /\ pinged' \subseteq Guid
      BY <1>5, <2>1, <2>4 DEF clientVars
    <3>2. /\ h.id # ConnectId
          /\ \A r : ~Concerns(h, r)
      BY <2>1 DEF Concerns, Failure, ConnectId
    <3>3. h = Head(toClient[c])
      BY DEF h
    <3> DEFINE ms == <<>>
    <3>4. Adds(c, ms) /\ \A m \in ToSet(ms) : m.id # ReadyId /\ m.id # "ID_NAT_PUNCHTHROUGH_REQUEST"
      BY <1>8, <1>9, <2>4
    <3> HIDE DEF ms
    <3>. QED BY <1>2, <1>5, <1>7, <2>4, <3>1, <3>2, <3>3, <3>4, HearsInv
  <2>. QED BY <2>2, <2>3, <2>4
<1>12. ASSUME ReceiveGetMostRecentPort(c, h), UNCHANGED <<hasPortStride, queuedOpenNat, pinged>>
       PROVE  NetIInv'
  <2>1. PICK p \in Port :
          Send(c, <<[id |-> "ID_NAT_GET_MOST_RECENT_PORT", session |-> h.session, port |-> p]>>)
    BY <1>12 DEF ReceiveGetMostRecentPort
  <2> DEFINE m1 == [id |-> "ID_NAT_GET_MOST_RECENT_PORT", session |-> h.session, port |-> p]
             ms == <<m1>>
  <2>2. h.id = "ID_NAT_GET_MOST_RECENT_PORT" /\ UNCHANGED <<sp, failed, awaiting>>
    BY <1>12 DEF ReceiveGetMostRecentPort, clientVars
  <2>3. h.session \in Session
    BY <1>3, <2>2 DEF Message, BoundAddresses
  <2>4. m1 \in ToServerMessage /\ m1.id = "ID_NAT_GET_MOST_RECENT_PORT"
    BY <2>3 DEF ToServerMessage
  <2> HIDE DEF m1
  <2>5. ms \in Seq(ToServerMessage) /\ ToSet(ms) = {m1} /\ AtMostOne(ms, ReadyId)
    BY <2>4, ShortQueue
  <2>6. Send(c, ms)
    BY <2>1 DEF m1
  <2> HIDE DEF ms
  <2>7. Adds(c, ms)
    BY <1>1, <2>5, <2>6, AddsSent
  <2>8. \A m \in ToSet(ms) : m.id # ReadyId /\ m.id # "ID_NAT_PUNCHTHROUGH_REQUEST"
    BY <2>4, <2>5 DEF ReadyId
  <2>9. h.id # ConnectId /\ \A r : ~Concerns(h, r)
    BY <2>2 DEF Concerns, Failure, ConnectId
  <2>10. h = Head(toClient[c])
    BY DEF h
  <2>. QED BY <1>2, <1>5, <1>7, <1>12, <2>2, <2>7, <2>8, <2>9, <2>10, HearsInv
<1>13. ASSUME ReceiveConnectAtTime(c, h), UNCHANGED <<hasPortStride, queuedOpenNat, pinged>>
       PROVE  NetIInv'
  <2> DEFINE p == [active |-> TRUE, session |-> h.session, target |-> h.peer,
                   weAreSender |-> h.weAreSender, answered |-> FALSE]
  <2>1. /\ h.id = ConnectId /\ UNCHANGED <<toServer, failed, awaiting>>
        /\ sp' = [sp EXCEPT ![c] = p]
    BY <1>13, Zenon DEF ReceiveConnectAtTime, ConnectId
  <2>2. h.session \in Session /\ h.peer \in Guid /\ h.weAreSender \in BOOLEAN
    BY <1>3, <2>1 DEF Message, BoundAddresses, ConnectId
  <2>3. p \in Ping /\ p.active /\ p.target = h.peer /\ p.weAreSender = h.weAreSender
    BY <2>2 DEF Ping
  <2> HIDE DEF p
  <2>4. /\ sp' \in [Guid -> Ping] /\ sp'[c] = p
        /\ \A g \in Guid : g # c => sp'[g] = sp[g]
    BY <1>5, <2>1, <2>3
  <2>5. Told(c)
    BY <1>6, <2>1 DEF Told, InQueue
  <2>6. h.peer # c
    BY <1>1, <1>6, <2>1 DEF ClientGood, NotItself, ConnectId
  <2>7. sp'[c].active /\ sp'[c].target # c
    BY <2>3, <2>4, <2>6
  <2>8. \A r : Concerns(h, r) => sp'[c].active /\ sp'[c].weAreSender /\ sp'[c].target = r
    BY <2>1, <2>3, <2>4 DEF Concerns, Failure, ConnectId
  <2>9. ~sp[c].active
    BY <1>10, <2>5
  <2>10. h = Head(toClient[c])
    BY DEF h
  <2>11. ~Told(c)' /\ ~InQueue(toClient'[c], NewsId)
    BY <1>3, <2>1
  <2> DEFINE ms == <<>>
  <2>12. Adds(c, ms) /\ \A m \in ToSet(ms) : m.id # ReadyId /\ m.id # "ID_NAT_PUNCHTHROUGH_REQUEST"
    BY <1>8, <1>9, <2>1
  <2> HIDE DEF ms
  <2>13. /\ pinged' \subseteq Guid /\ failed' \in [Guid -> SUBSET Guid]
         /\ awaiting' \in [Guid -> SUBSET Guid] /\ UNCHANGED awaiting
         /\ UNCHANGED <<queuedOpenNat, hasPortStride>>
    BY <1>5, <1>13, <2>1
  <2>. QED BY <1>2, <2>4, <2>5, <2>7, <2>8, <2>9, <2>10, <2>11, <2>12, <2>13, HearsInv
<1>14. ASSUME NEW t \in Guid, awaiting' = [awaiting EXCEPT ![c] = @ \ {t}]
       PROVE  /\ awaiting' \in [Guid -> SUBSET Guid] /\ awaiting'[c] = awaiting[c] \ {t}
              /\ \A g \in Guid : g # c => awaiting'[g] = awaiting[g]
  BY <1>5, <1>14
<1>15. ASSUME ReceiveAlreadyInProgress(c, h), UNCHANGED <<hasPortStride, queuedOpenNat, pinged>>
       PROVE  NetIInv'
  <2>1. /\ h.id = "ID_NAT_ALREADY_IN_PROGRESS" /\ UNCHANGED <<toServer, sp, failed>>
        /\ awaiting' = [awaiting EXCEPT ![c] = @ \ {h.peer}]
    BY <1>15, Zenon DEF ReceiveAlreadyInProgress, Outcome
  <2>2. h.peer \in Guid
    BY <1>3, <2>1 DEF Message, BoundAddresses
  <2>3. /\ awaiting' \in [Guid -> SUBSET Guid] /\ awaiting'[c] = awaiting[c] \ {h.peer}
        /\ \A g \in Guid : g # c => awaiting'[g] = awaiting[g]
    BY <1>14, <2>1, <2>2
  <2>4. h.id # ConnectId /\ \A r : Concerns(h, r) => r = h.peer
    BY <2>1 DEF Concerns, Failure, ConnectId
  <2>5. h = Head(toClient[c])
    BY DEF h
  <2> DEFINE ms == <<>>
  <2>6. Adds(c, ms) /\ \A m \in ToSet(ms) : m.id # ReadyId /\ m.id # "ID_NAT_PUNCHTHROUGH_REQUEST"
    BY <1>8, <1>9, <2>1
  <2> HIDE DEF ms
  <2>7. \A r \in awaiting'[c] : r \in awaiting[c] /\ ~Concerns(h, r)
    BY <2>3, <2>4
  <2>. QED BY <1>2, <1>5, <1>7, <1>15, <2>1, <2>3, <2>4, <2>5, <2>6, <2>7, HearsInv
<1>16. ASSUME ReceiveFailure(c, h), UNCHANGED <<hasPortStride, queuedOpenNat, pinged>>
       PROVE  NetIInv'
  <2>1. /\ h.id \in LossNews \cup {NewsId} /\ UNCHANGED toServer
        /\ awaiting' = [awaiting EXCEPT ![c] = @ \ {h.peer}]
        /\ \/ /\ sp' = Stopped(c)
              /\ failed' = [failed EXCEPT ![c] = @ \ {h.peer}]
           \/ UNCHANGED <<sp, failed>>
    BY <1>16, Zenon DEF ReceiveFailure, Outcome, LossNews, NewsId, Stopped
  <2>2. h.peer \in Guid
    BY <1>3, <2>1 DEF Message, BoundAddresses, LossNews, NewsId
  <2>3. /\ awaiting' \in [Guid -> SUBSET Guid] /\ awaiting'[c] = awaiting[c] \ {h.peer}
        /\ \A g \in Guid : g # c => awaiting'[g] = awaiting[g]
    BY <1>14, <2>1, <2>2
  <2>4. h.id # ConnectId /\ \A r : Concerns(h, r) => r = h.peer
    BY <2>1 DEF Concerns, Failure, ConnectId, LossNews, NewsId
  <2>5. h = Head(toClient[c])
    BY DEF h
  <2> DEFINE ms == <<>>
  <2>6. Adds(c, ms) /\ \A m \in ToSet(ms) : m.id # ReadyId /\ m.id # "ID_NAT_PUNCHTHROUGH_REQUEST"
    BY <1>8, <1>9, <2>1
  <2> HIDE DEF ms
  <2>7. \A r \in awaiting'[c] : r \in awaiting[c] /\ ~Concerns(h, r)
    BY <2>3, <2>4
  <2>8. /\ sp' \in [Guid -> Ping] /\ failed' \in [Guid -> SUBSET Guid]
        /\ \A g \in Guid : g # c => sp'[g] = sp[g]
        /\ sp'[c].active => sp[c].active /\ sp'[c].target = sp[c].target
    <3>1. CASE sp' = Stopped(c) /\ failed' = [failed EXCEPT ![c] = @ \ {h.peer}]
      <4>1. failed' \in [Guid -> SUBSET Guid]
        BY <1>5, <3>1
      <4>. QED BY <1>5, <3>1, <4>1, StoppedFacts
    <3>2. CASE UNCHANGED <<sp, failed>>
      BY <1>5, <3>2
    <3>. QED BY <2>1, <3>1, <3>2
  <2>9. ASSUME gone = {} PROVE ~sp[c].active
    <3>1. h.id = NewsId
      BY <1>1, <1>6, <2>1, <2>9 DEF AttendedTo
    <3>. QED BY <1>1, <1>6, <3>1 DEF ClientGood, NewsBeforePunch, InQueue, NewsId
  <2>. QED BY <1>2, <1>5, <1>7, <1>16, <2>1, <2>3, <2>4, <2>5, <2>6, <2>7, <2>8, <2>9, HearsInv
<1>. QED BY <1>2, <1>11, <1>12, <1>13, <1>15, <1>16

\* A punch of client c ends, and c sends ms, with which it says that it is ready.
LEMMA PunchEndsInv ==
  ASSUME NetIInv, NEW c \in Guid, ClientStep, sp[c].active, ~sp'[c].active,
         sp' \in [Guid -> Ping],
         \A g \in Guid : g # c =>
           /\ sp'[g].active = sp[g].active /\ sp'[g].target = sp[g].target
           /\ sp'[g].weAreSender = sp[g].weAreSender,
         NEW ms \in Seq(ToServerMessage), Send(c, ms), Ready \in ToSet(ms),
         AtMostOne(ms, ReadyId),
         \A m \in ToSet(ms) : m.id = "ID_NAT_PUNCHTHROUGH_REQUEST" => m.peer # c,
         failed' \in [Guid -> SUBSET Guid], UNCHANGED <<toClient, pinged, gone>>,
         hasPortStride' \in [Guid -> PortStride], queuedOpenNat' \in [Guid -> Seq(Guid)],
         \A g \in Guid : g # c => /\ queuedOpenNat'[g] = queuedOpenNat[g]
                                 /\ hasPortStride'[g] = hasPortStride[g],
         c \notin ToSet(queuedOpenNat'[c]), QueuesWhileCalculating(c)',
         \A r \in ToSet(queuedOpenNat[c]) :
           r \in ToSet(queuedOpenNat'[c]) \/ Request(r) \in ToSet(ms),
         awaiting' \in [Guid -> SUBSET Guid],
         \A g \in Guid : g # c => awaiting'[g] = awaiting[g],
         awaiting'[c] \subseteq awaiting[c],
         sp[c].weAreSender /\ sp[c].target \in awaiting'[c] => Request(sp[c].target) \in ToSet(ms)
  PROVE  NetIInv'
<1>1. NetTypeOK /\ ClientGood(c) /\ (gone = {} => AttendedTo(c))
  BY DEF NetIInv
<1>2. Takes(c, NewsId)
  BY <1>1, TakesNothing
<1>3. Adds(c, ms)
  BY <1>1, AddsSent
<1>4. UNCHANGED <<boundAddressCount, reportedFor>>
  BY DEF ClientStep
<1>5. NetTypeOK'
  BY <1>1, <1>2, <1>3, <1>4 DEF NetTypeOK, Adds, Takes
<1>6. Spares(c)
  BY DEF Spares
<1>7. ASSUME gone' = {}
      PROVE  /\ gone = {}
             /\ \A r \in awaiting'[c] : UnderWay(c, r)'
             /\ Told(c) \/ sp[c].active \/ Done(c) => Told(c)' \/ sp'[c].active \/ Done(c)'
  <2>1. gone = {} /\ AttendedTo(c) /\ ToSet(ms) \subseteq ToSet(toServer'[c])
        /\ ToSet(toServer[c]) \subseteq ToSet(toServer'[c])
    BY <1>1, <1>3, <1>7 DEF Adds
  <2>2. ASSUME NEW r \in awaiting'[c] PROVE UnderWay(c, r)'
    <3>1. r \in Guid /\ UnderWay(c, r)
      BY <1>1, <2>1, <2>2 DEF AttendedTo, NetTypeOK
    <3>2. r \in ToSet(queuedOpenNat[c]) =>
            r \in ToSet(queuedOpenNat'[c]) \/ Request(r) \in ToSet(toServer'[c])
      BY <2>1
    <3>3. sp[c].active /\ sp[c].weAreSender /\ sp[c].target = r => Request(r) \in ToSet(toServer'[c])
      BY <2>1, <2>2
    <3>. QED BY <2>1, <3>1, <3>2, <3>3, UnderWayKept
  <2>3. Done(c)'
    BY <2>1, MessageFacts DEF Done, InQueue
  <2>. QED BY <2>1, <2>2, <2>3
<1>. QED BY <1>2, <1>3, <1>5, <1>6, <1>7, ActorInv

LEMMA EstablishUnidirectionalInv ==
  ASSUME NetIInv, NEW c \in Guid, EstablishUnidirectional(c) PROVE NetIInv'
<1>1. NetTypeOK /\ ClientGood(c) /\ (gone = {} => AttendedTo(c))
  BY DEF NetIInv
<1>2. /\ ClientStep /\ sp' = [sp EXCEPT ![c].answered = TRUE]
      /\ UNCHANGED <<toServer, toClient, failed, awaiting, hasPortStride, queuedOpenNat, pinged,
                     gone>>
  BY DEF EstablishUnidirectional
<1> DEFINE p == sp[c]
           p2 == [p EXCEPT !.answered = TRUE]
<1>3. p \in Ping /\ sp' = [sp EXCEPT ![c] = p2] /\ sp \in [Guid -> Ping]
  BY <1>1, <1>2 DEF NetTypeOK
<1>4. /\ p2 \in Ping /\ p2.active = p.active /\ p2.target = p.target
      /\ p2.weAreSender = p.weAreSender
  <2>1. p \in Ping
    BY <1>3
  <2> HIDE DEF p
  <2>. QED BY <2>1 DEF Ping
<1> HIDE DEF p2
<1>5. sp' \in [Guid -> Ping] /\ \A g \in Guid : /\ sp'[g].active = sp[g].active
                                               /\ sp'[g].target = sp[g].target
                                               /\ sp'[g].weAreSender = sp[g].weAreSender
  BY <1>3, <1>4
<1>6. UNCHANGED <<boundAddressCount, reportedFor>>
  BY <1>2 DEF ClientStep
<1>7. NetTypeOK'
  BY <1>1, <1>2, <1>5, <1>6 DEF NetTypeOK
<1>8. ClientGood(c)'
  BY <1>1, <1>2, <1>5, OtherGood
<1>9. gone' = {} => gone = {} /\ AttendedTo(c)'
  BY <1>1, <1>2, <1>5, OtherAttended
<1>. QED BY <1>2, <1>5, <1>7, <1>8, <1>9, ClientStepInv

LEMMA LoseFacilitatorInv ==
  ASSUME NetIInv, NEW c \in Guid, LoseFacilitator(c) PROVE NetIInv'
<1>1. NetTypeOK /\ \A g \in Guid : ClientGood(g)
  BY DEF NetIInv
<1>2. /\ ClientStep /\ gone' = gone \cup {c}
      /\ awaiting' = [awaiting EXCEPT ![c] = {}]
      /\ failed' = [failed EXCEPT ![c] = IF sp[c].active THEN @ \cap {sp[c].target} ELSE {}]
      /\ UNCHANGED <<toServer, toClient, sp, hasPortStride, queuedOpenNat, pinged>>
  BY DEF LoseFacilitator
<1>3. UNCHANGED <<boundAddressCount, reportedFor>>
  BY <1>2 DEF ClientStep
<1>4. awaiting' \in [Guid -> SUBSET Guid] /\ failed' \in [Guid -> SUBSET Guid]
  BY <1>1, <1>2 DEF NetTypeOK
<1>5. NetTypeOK'
  BY <1>1, <1>2, <1>3, <1>4 DEF NetTypeOK
<1>6. \A g \in Guid : ClientGood(g)'
  <2> SUFFICES ASSUME NEW g \in Guid PROVE ClientGood(g)'
    OBVIOUS
  <2>. QED BY <1>1, <1>2, OtherGood
<1>7. IInv' /\ OverdueIsInProgress'
  BY <1>2, ClientStepIInv DEF NetIInv, ClientStep, OverdueIsInProgress, InProgress
<1>8. gone' # {}
  BY <1>2
<1>. QED BY <1>5, <1>6, <1>7, <1>8 DEF NetIInv

\* g is f but for the ping v of x.
Updated(f, g, x, v) ==
  g \in [Guid -> Ping] /\ g[x] = v /\ \A y \in Guid : y # x => g[y] = f[y]

LEMMA UpdatedFacts ==
  ASSUME NEW f \in [Guid -> Ping], NEW x \in Guid, NEW v \in Ping
  PROVE  Updated(f, [f EXCEPT ![x] = v], x, v)
BY DEF Updated

\* The punch of c to t has succeeded: it ends, and t is answered if it punches too.
LEMMA SucceededFacts ==
  ASSUME sp \in [Guid -> Ping], NEW c \in Guid, NEW t \in Guid, t # c, NEW b \in BOOLEAN,
         sp' = [sp EXCEPT ![c].active = FALSE, ![c].answered = FALSE,
                          ![t].answered = @ \/ b]
  PROVE  /\ sp' \in [Guid -> Ping] /\ ~sp'[c].active
         /\ \A g \in Guid : g # c =>
              /\ sp'[g].active = sp[g].active /\ sp'[g].target = sp[g].target
              /\ sp'[g].weAreSender = sp[g].weAreSender
<1> DEFINE p == sp[c]
           q == sp[t]
           stopped == [p EXCEPT !.active = FALSE, !.answered = FALSE]
           answer == q.answered \/ b
           answered == [q EXCEPT !.answered = answer]
<1>1. p \in Ping /\ q \in Ping
  OBVIOUS
<1>2. sp' = [[sp EXCEPT ![c] = stopped] EXCEPT ![t] = answered]
  OBVIOUS
<1>3. stopped \in Ping /\ ~stopped.active
  <2> HIDE DEF p
  <2>. QED BY <1>1 DEF Ping
<1>4. answer \in BOOLEAN
  <2> HIDE DEF q
  <2>. QED BY <1>1 DEF Ping
<1>5. /\ answered \in Ping /\ answered.active = q.active /\ answered.target = q.target
      /\ answered.weAreSender = q.weAreSender
  <2> HIDE DEF q, answer
  <2>. QED BY <1>1, <1>4 DEF Ping
<1> HIDE DEF stopped, answered
<1> DEFINE first == [sp EXCEPT ![c] = stopped]
<1>6. /\ sp' \in [Guid -> Ping] /\ sp'[c] = stopped /\ sp'[t] = answered
      /\ \A g \in Guid : g # c /\ g # t => sp'[g] = sp[g]
  <2>1. first \in [Guid -> Ping] /\ first[c] = stopped /\ \A g \in Guid : g # c => first[g] = sp[g]
    BY <1>3
  <2>2. sp' = [first EXCEPT ![t] = answered]
    BY <1>2
  <2> HIDE DEF first
  <2>3. answered \in Ping
    BY <1>5
  <2>4. sp' \in [Guid -> Ping] /\ sp'[t] = answered /\ \A g \in Guid : g # t => sp'[g] = first[g]
    <3>1. Updated(first, [first EXCEPT ![t] = answered], t, answered)
      BY <2>1, <2>3, UpdatedFacts
    <3>2. Updated(first, sp', t, answered)
      BY <2>2, <3>1, Zenon
    <3>. QED BY <3>2, Zenon DEF Updated
  <2>5. sp'[c] = stopped
    BY <2>1, <2>4
  <2>. QED BY <2>1, <2>4, <2>5
<1>7. ASSUME NEW g \in Guid, g # c
      PROVE  /\ sp'[g].active = sp[g].active /\ sp'[g].target = sp[g].target
             /\ sp'[g].weAreSender = sp[g].weAreSender
  <2>1. CASE g = t
    BY <1>5, <1>6, <2>1
  <2>2. CASE g # t
    <3>1. sp'[g] = sp[g]
      BY <1>6, <1>7, <2>2
    <3>. QED BY <3>1, Zenon
  <2>. QED BY <2>1, <2>2
<1>8. ~sp'[c].active
  BY <1>3, <1>6
<1>. QED BY <1>6, <1>7, <1>8, Zenon

LEMMA EstablishBidirectionalInv ==
  ASSUME NetIInv, NEW c \in Guid, EstablishBidirectional(c) PROVE NetIInv'
<1> DEFINE t == sp[c].target
<1>1. NetTypeOK /\ ClientGood(c)
  BY DEF NetIInv
<1>2. /\ sp[c].active /\ ClientStep /\ UNCHANGED <<toClient, pinged, gone>>
      /\ failed' = [failed EXCEPT ![c] = @ \ {t}]
      /\ awaiting' = [awaiting EXCEPT ![c] = @ \ {t}]
      /\ sp' = [sp EXCEPT ![c].active = FALSE, ![c].answered = FALSE,
                          ![t].answered = @ \/ PeerPunches(c)]
      /\ \/ Send(c, <<Ready>>) /\ UNCHANGED <<hasPortStride, queuedOpenNat>>
         \/ EstimatesStride(c)
  BY Zenon DEF EstablishBidirectional, Outcome
<1>3. t \in Guid /\ t # c
  BY <1>1, <1>2 DEF NetTypeOK, Ping, ClientGood, NotItself
<1>4. /\ sp \in [Guid -> Ping] /\ hasPortStride \in [Guid -> PortStride]
      /\ queuedOpenNat \in [Guid -> Seq(Guid)]
  BY <1>1 DEF NetTypeOK
<1>5. PeerPunches(c) \in BOOLEAN
  BY <1>3, <1>4 DEF PeerPunches, Ping
<1>6. /\ sp' \in [Guid -> Ping] /\ ~sp'[c].active
      /\ \A g \in Guid : g # c =>
           /\ sp'[g].active = sp[g].active /\ sp'[g].target = sp[g].target
           /\ sp'[g].weAreSender = sp[g].weAreSender
  <2> DEFINE b == PeerPunches(c)
  <2>1. sp' = [sp EXCEPT ![c].active = FALSE, ![c].answered = FALSE, ![t].answered = @ \/ b]
    BY <1>2
  <2>2. b \in BOOLEAN
    BY <1>5
  <2> HIDE DEF b, t
  <2>. QED BY <1>3, <1>4, <2>1, <2>2, SucceededFacts
<1>7. /\ awaiting' \in [Guid -> SUBSET Guid] /\ awaiting'[c] = awaiting[c] \ {t}
      /\ \A g \in Guid : g # c => awaiting'[g] = awaiting[g]
      /\ failed' \in [Guid -> SUBSET Guid]
  BY <1>1, <1>2, <1>3 DEF NetTypeOK
<1>8. c \notin ToSet(queuedOpenNat[c]) /\ QueuesWhileCalculating(c)
  BY <1>1 DEF ClientGood, NotItself
<1> DEFINE m1 == Ready
           alone == <<m1>>
<1>9. m1 \in ToServerMessage /\ m1.id = ReadyId
  BY MessageFacts
<1> HIDE DEF m1
<1>10. alone \in Seq(ToServerMessage) /\ ToSet(alone) = {m1} /\ AtMostOne(alone, ReadyId)
  BY <1>9, ShortQueue
<1>11. <<Ready>> = alone /\ m1 = Ready
  BY DEF m1
<1> HIDE DEF alone, t
<1>12. t = sp[c].target
  BY DEF t
<1>13. CASE Send(c, <<Ready>>) /\ UNCHANGED <<hasPortStride, queuedOpenNat>>
  <2>1. Send(c, alone)
    BY <1>11, <1>13
  <2>2. \A m \in ToSet(alone) : m.id = "ID_NAT_PUNCHTHROUGH_REQUEST" => m.peer # c
    BY <1>9, <1>10 DEF ReadyId
  <2>3. QueuesWhileCalculating(c)'
    BY <1>8, <1>13 DEF QueuesWhileCalculating
  <2>4. Ready \in ToSet(alone)
    BY <1>10, <1>11
  <2>. QED BY <1>2, <1>4, <1>6, <1>7, <1>8, <1>10, <1>12, <1>13, <2>1, <2>2, <2>3, <2>4, PunchEndsInv
<1>14. CASE EstimatesStride(c)
  <2> DEFINE queued == QueuedRequests(c)
             ms == queued \o alone
  <2>1. /\ hasPortStride' = [hasPortStride EXCEPT ![c] = "HAS_PORT_STRIDE"]
        /\ NothingQueued(c) /\ Send(c, ms)
    BY <1>11, <1>14 DEF EstimatesStride, SetStride
  <2>2. /\ queued \in Seq(ToServerMessage)
        /\ ToSet(queued) = {Request(r) : r \in ToSet(queuedOpenNat[c])}
        /\ ~InQueue(queued, ReadyId) /\ AtMostOne(queued, ReadyId)
    BY <1>1, QueuedFacts
  <2>3. /\ queuedOpenNat' \in [Guid -> Seq(Guid)]
        /\ \A g \in Guid : g # c => queuedOpenNat'[g] = queuedOpenNat[g]
        /\ c \notin ToSet(queuedOpenNat'[c])
        /\ QueuesWhileCalculating(c)'
        /\ \A m \in ToSet(queued) : m.id = "ID_NAT_PUNCHTHROUGH_REQUEST" => m.peer # c
    BY <1>1, <2>1, FlushFacts
  <2> HIDE DEF queued
  <2>4. /\ ms \in Seq(ToServerMessage) /\ ToSet(ms) = ToSet(queued) \cup ToSet(alone)
        /\ AtMostOne(ms, ReadyId)
    <3> DEFINE S == ToServerMessage
    <3>1. queued \in Seq(S) /\ alone \in Seq(S)
      BY <1>10, <2>2
    <3> HIDE DEF S
    <3>2. /\ ms \in Seq(S)
          /\ ToSet(ms) = ToSet(queued) \cup ToSet(alone)
          /\ \A id : AtMostOne(queued, id) /\ AtMostOne(alone, id)
                     /\ (InQueue(alone, id) => ~InQueue(queued, id)) => AtMostOne(ms, id)
      BY <3>1, JoinQueue, Zenon
    <3> HIDE DEF ms
    <3>3. AtMostOne(ms, ReadyId)
      BY <1>10, <2>2, <3>2, Zenon
    <3>. QED BY <3>2, <3>3 DEF S
  <2> HIDE DEF ms
  <2>5. /\ hasPortStride' \in [Guid -> PortStride]
        /\ \A g \in Guid : g # c => hasPortStride'[g] = hasPortStride[g]
    BY <1>4, <2>1 DEF PortStride
  <2>6. Ready \in ToSet(ms)
    BY <1>10, <1>11, <2>4
  <2>7. \A m \in ToSet(ms) : m.id = "ID_NAT_PUNCHTHROUGH_REQUEST" => m.peer # c
    BY <1>9, <1>10, <2>3, <2>4 DEF ReadyId
  <2>8. \A r \in ToSet(queuedOpenNat[c]) : Request(r) \in ToSet(ms)
    BY <2>2, <2>4
  <2>. QED BY <1>2, <1>6, <1>7, <1>12, <2>1, <2>3, <2>4, <2>5, <2>6, <2>7, <2>8, PunchEndsInv
<1>. QED BY <1>2, <1>13, <1>14

LEMMA PunchTimesOutInv ==
  ASSUME NetIInv, NEW c \in Guid, PunchTimesOut(c) PROVE NetIInv'
<1> DEFINE t == sp[c].target
<1>1. NetTypeOK /\ ClientGood(c) /\ (gone = {} => AttendedTo(c))
  BY DEF NetIInv
<1>2. /\ sp[c].active /\ ClientStep
      /\ UNCHANGED <<toClient, hasPortStride, queuedOpenNat, pinged, gone>>
      /\ Fail(c) \/ FailWithoutFacilitator(c) \/ Retry(c)
  BY DEF PunchTimesOut
<1>3. t \in Guid /\ t # c
  BY <1>1, <1>2 DEF NetTypeOK, Ping, ClientGood, NotItself
<1>4. /\ sp \in [Guid -> Ping] /\ hasPortStride \in [Guid -> PortStride]
      /\ queuedOpenNat \in [Guid -> Seq(Guid)] /\ awaiting \in [Guid -> SUBSET Guid]
      /\ failed \in [Guid -> SUBSET Guid]
  BY <1>1 DEF NetTypeOK
<1>5. c \notin ToSet(queuedOpenNat'[c]) /\ QueuesWhileCalculating(c)'
  <2>1. c \notin ToSet(queuedOpenNat[c]) /\ QueuesWhileCalculating(c)
    BY <1>1 DEF ClientGood, NotItself
  <2>. QED BY <1>2, <2>1 DEF QueuesWhileCalculating
<1>6. ASSUME sp' = Stopped(c)
      PROVE  /\ sp' \in [Guid -> Ping] /\ ~sp'[c].active
             /\ \A g \in Guid : g # c =>
                  /\ sp'[g].active = sp[g].active /\ sp'[g].target = sp[g].target
                  /\ sp'[g].weAreSender = sp[g].weAreSender
  BY <1>4, <1>6, StoppedFacts
<1>7. ASSUME awaiting' = [awaiting EXCEPT ![c] = @ \ {t}]
      PROVE  /\ awaiting' \in [Guid -> SUBSET Guid] /\ awaiting'[c] = awaiting[c] \ {t}
             /\ \A g \in Guid : g # c => awaiting'[g] = awaiting[g]
  BY <1>4, <1>7
<1> DEFINE m1 == Ready
           m2 == Request(t)
           alone == <<m1>>
           both == <<m1, m2>>
<1>8. /\ m1 \in ToServerMessage /\ m1.id = ReadyId /\ m2 \in ToServerMessage
      /\ m2.id = "ID_NAT_PUNCHTHROUGH_REQUEST" /\ m2.peer = t /\ m2.id # ReadyId
  BY <1>3, MessageFacts DEF ReadyId
<1>9. <<Ready>> = alone /\ m1 = Ready /\ m2 = Request(t) /\ <<Ready, Request(t)>> = both
  OBVIOUS
<1> HIDE DEF m1, m2
<1>10. alone \in Seq(ToServerMessage) /\ ToSet(alone) = {m1} /\ AtMostOne(alone, ReadyId)
  BY <1>8, ShortQueue
<1>11. both \in Seq(ToServerMessage) /\ ToSet(both) = {m1, m2} /\ AtMostOne(both, ReadyId)
  <2> DEFINE S == ToServerMessage
  <2>1. m1 \in S /\ m2 \in S /\ ~(m1.id = ReadyId /\ m2.id = ReadyId)
    BY <1>8
  <2> HIDE DEF S
  <2>2. /\ both \in Seq(S) /\ ToSet(both) = {m1, m2}
        /\ \A id : ~(m1.id = id /\ m2.id = id) => AtMostOne(both, id)
    BY <2>1, ShortQueue, Zenon
  <2>3. AtMostOne(both, ReadyId)
    BY <2>1, <2>2, Zenon
  <2>. QED BY <2>2, <2>3 DEF S
<1> HIDE DEF alone, both, t
<1>12. t = sp[c].target
  BY DEF t
<1>13. /\ \A m \in ToSet(alone) : m.id = "ID_NAT_PUNCHTHROUGH_REQUEST" => m.peer # c
       /\ \A m \in ToSet(both) : m.id = "ID_NAT_PUNCHTHROUGH_REQUEST" => m.peer # c
  BY <1>3, <1>8, <1>10, <1>11 DEF ReadyId
<1>14. Ready \in ToSet(alone) /\ Ready \in ToSet(both) /\ Request(t) \in ToSet(both)
  BY <1>9, <1>10, <1>11
<1>15. CASE Fail(c)
  <2>1. /\ sp' = Stopped(c) /\ Send(c, alone)
        /\ awaiting' = [awaiting EXCEPT ![c] = @ \ {t}]
        /\ failed' = [failed EXCEPT ![c] = IF c \in Retrying THEN @ \ {t} ELSE @]
    BY <1>9, <1>12, <1>15 DEF Fail, Outcome
  <2>2. failed' \in [Guid -> SUBSET Guid]
    BY <1>4, <2>1
  <2>3. t \notin awaiting'[c]
    BY <1>7, <2>1
  <2>. QED BY <1>2, <1>4, <1>5, <1>6, <1>7, <1>10, <1>12, <1>13, <1>14, <2>1, <2>2, <2>3,
              PunchEndsInv
<1>16. CASE FailWithoutFacilitator(c)
  <2>1. /\ c \in gone /\ UNCHANGED <<sp, failed, toServer>>
        /\ awaiting' = [awaiting EXCEPT ![c] = @ \ {t}]
    BY <1>12, <1>16 DEF FailWithoutFacilitator, Outcome
  <2>2. UNCHANGED <<boundAddressCount, reportedFor>>
    BY <1>2 DEF ClientStep
  <2>3. /\ awaiting' \in [Guid -> SUBSET Guid] /\ awaiting'[c] = awaiting[c] \ {t}
        /\ \A g \in Guid : g # c => awaiting'[g] = awaiting[g]
    BY <1>7, <2>1
  <2>4. NetTypeOK'
    BY <1>1, <1>2, <2>1, <2>2, <2>3 DEF NetTypeOK
  <2>5. ClientGood(c)'
    BY <1>1, <1>2, <2>1, OtherGood
  <2>6. gone' # {}
    BY <1>2, <2>1
  <2>. QED BY <1>2, <2>1, <2>3, <2>4, <2>5, <2>6, ClientStepInv
<1>17. CASE Retry(c)
  <2>1. /\ sp' = Stopped(c) /\ UNCHANGED awaiting
        /\ failed' = [failed EXCEPT ![c] = @ \cup {t}]
        /\ Send(c, IF sp[c].weAreSender THEN both ELSE alone)
    BY <1>9, <1>12, <1>17 DEF Retry, RetryMessages
  <2>2. failed' \in [Guid -> SUBSET Guid]
    BY <1>3, <1>4, <2>1
  <2>3. CASE sp[c].weAreSender
    <3>1. Send(c, both)
      BY <2>1, <2>3, Zenon
    <3>. QED BY <1>2, <1>4, <1>5, <1>6, <1>11, <1>12, <1>13, <1>14, <2>1, <2>2, <3>1, PunchEndsInv
  <2>4. CASE ~sp[c].weAreSender
    <3>1. Send(c, alone)
      BY <2>1, <2>4, Zenon
    <3>. QED BY <1>2, <1>4, <1>5, <1>6, <1>10, <1>12, <1>13, <1>14, <2>1, <2>2, <2>4, <3>1,
                PunchEndsInv
  <2>. QED BY <2>3, <2>4
<1>. QED BY <1>2, <1>15, <1>16, <1>17

-----------------------------------------------------------------------------
(* The theorems *)

LEMMA NetInitInv == NetInit => NetIInv
<1> SUFFICES ASSUME NetInit PROVE NetIInv
  OBVIOUS
<1>1. 0 \in Session
  BY SessionIdsAssumption DEF Session
<1>2. /\ ToSet(<<>>) = {} /\ Len(<<>>) = 0
      /\ \A id : ~InQueue(<<>>, id) /\ AtMostOne(<<>>, id)
      /\ NewsFirst(<<>>)
  <2>1. ToSet(<<>>) = {} /\ Len(<<>>) = 0
    BY DEF ToSet
  <2>. QED BY <2>1 DEF InQueue, AtMostOne, NewsFirst
<1>3. DOMAIN attempts = {}
  BY DEF NetInit
<1>4. IInv
  <2>1. TypeOK
    BY <1>1 DEF NetInit, TypeOK
  <2>2. AttemptsLinked
    <3>1. \A g \in Guid : connectionAttempts[g] = <<>>
      BY DEF NetInit
    <3>2. IsInjective(<<>>)
      BY DEF IsInjective
    <3>. QED BY <1>2, <1>3, <3>1, <3>2 DEF AttemptsLinked
  <2>3. OneAttemptPerPair /\ NoSelfAttempt /\ ReadyPairsAreHandled
    BY <1>3 DEF OneAttemptPerPair, NoSelfAttempt, ReadyPairsAreHandled
  <2>4. StartsLiveUsers /\ OneHandler
    BY <1>2 DEF NetInit, StartsLiveUsers, OneHandler
  <2>. QED BY <2>1, <2>2, <2>3, <2>4 DEF IInv
<1>5. NetTypeOK
  <2>1. /\ toServer \in [Guid -> Seq(ToServerMessage)]
        /\ toClient \in [Guid -> Seq(Message \cup BoundAddresses)]
        /\ queuedOpenNat \in [Guid -> Seq(Guid)]
    BY DEF NetInit
  <2>2. sp \in [Guid -> Ping]
    BY <1>1 DEF NetInit, Ping
  <2>3. hasPortStride \in [Guid -> PortStride]
    BY DEF NetInit, PortStride
  <2>4. /\ failed \in [Guid -> SUBSET Guid] /\ awaiting \in [Guid -> SUBSET Guid]
        /\ pinged \subseteq Guid /\ boundAddressCount \in Sockets \cup {0} /\ gone \subseteq Guid
        /\ reportedFor \in [Guid -> Session \cup {-1}]
    BY DEF NetInit
  <2>. QED BY <2>1, <2>2, <2>3, <2>4 DEF NetTypeOK
<1>6. ASSUME NEW g \in Guid
      PROVE  /\ toServer[g] = <<>> /\ toClient[g] = <<>> /\ queuedOpenNat[g] = <<>>
             /\ ~sp[g].active /\ awaiting[g] = {} /\ isReady[g]
  BY DEF NetInit
<1>7. ASSUME NEW g \in Guid PROVE ClientGood(g)
  <2>1. ~InAttempt(g)
    BY <1>3 DEF InAttempt
  <2>2. OneTurn(g)
    BY <1>2, <1>3, <1>6, <2>1 DEF OneTurn
  <2>3. NewsBeforePunch(g) /\ NotItself(g) /\ QueuesWhileCalculating(g)
    BY <1>2, <1>6 DEF NewsBeforePunch, NotItself, QueuesWhileCalculating
  <2>. QED BY <2>2, <2>3 DEF ClientGood
<1>8. ASSUME NEW g \in Guid PROVE AttendedTo(g)
  BY <1>2, <1>6 DEF AttendedTo
<1>9. closing = {} /\ users = Guid
  BY DEF NetInit
<1>. QED BY <1>3, <1>4, <1>5, <1>7, <1>8, <1>9 DEF NetIInv, OverdueIsInProgress

LEMMA NetStutterInv ==
  ASSUME NetIInv, UNCHANGED allVars PROVE NetIInv'
<1>1. /\ UNCHANGED <<users, isReady, mostRecentPort, connectionAttempts, attempts, sessionId>>
      /\ UNCHANGED <<closing, toVisit, toStart, sent>>
      /\ UNCHANGED <<toServer, toClient, sp, failed, awaiting>>
      /\ UNCHANGED <<hasPortStride, queuedOpenNat, pinged, boundAddressCount, gone, reportedFor>>
  BY DEF allVars, vars, pcVars, netVars, clientVars, strideVars
<1>2. IInv'
  <2>1. AttemptsLinked' /\ OneAttemptPerPair' /\ NoSelfAttempt'
    BY <1>1, LinksUnchanged DEF NetIInv
  <2>2. TypeOK'
    BY <1>1 DEF NetIInv, IInv, TypeOK
  <2>3. StartsLiveUsers' /\ OneHandler' /\ ReadyPairsAreHandled'
    BY <1>1 DEF NetIInv, IInv, StartsLiveUsers, OneHandler, ReadyPairsAreHandled
  <2>. QED BY <2>1, <2>2, <2>3 DEF IInv
<1>3. NetTypeOK' /\ OverdueIsInProgress'
  BY <1>1 DEF NetIInv, NetTypeOK, OverdueIsInProgress, InProgress
<1>4. \A g \in Guid : InAttempt(g)' <=> InAttempt(g)
  BY <1>1 DEF InAttempt, InProgress, Involves
<1>5. ASSUME NEW g \in Guid PROVE ClientGood(g)'
  <2>1. ClientGood(g)
    BY DEF NetIInv
  <2>2. OneTurn(g)'
    BY <1>1, <1>4, <2>1, Zenon DEF ClientGood, OneTurn, InProgress, Involves
  <2>3. NewsBeforePunch(g)' /\ NotItself(g)' /\ QueuesWhileCalculating(g)'
    BY <1>1, <2>1 DEF ClientGood, NewsBeforePunch, NotItself, QueuesWhileCalculating
  <2>. QED BY <2>2, <2>3 DEF ClientGood
<1>6. ASSUME NEW g \in Guid, AttendedTo(g) PROVE AttendedTo(g)'
  <2>1. \A r : UnderWay(g, r) => UnderWay(g, r)'
    BY <1>1 DEF UnderWay, Request
  <2>2. Busy(g) => Busy(g)'
    BY <1>1, <1>4 DEF Busy
  <2>. QED BY <1>1, <1>6, <2>1, <2>2 DEF AttendedTo
<1>. QED BY <1>1, <1>2, <1>3, <1>5, <1>6 DEF NetIInv

LEMMA NetNextInv == NetIInv /\ [NetNext]_allVars => NetIInv'
<1> SUFFICES ASSUME NetIInv, [NetNext]_allVars PROVE NetIInv'
  OBVIOUS
<1>1. CASE UNCHANGED allVars
  BY <1>1, NetStutterInv
<1>2. ASSUME NEW g \in Guid, NEW r \in Guid, OpenNAT(g, r) PROVE NetIInv'
  BY <1>2, OpenNATInv
<1>3. ASSUME NEW g \in Guid,
             ServerReceive(g) \/ ServerRespondsBoundAddresses(g) \/ ServerNoticesLoss(g)
      PROVE  NetIInv'
  BY <1>3, ServerReceiveInv, ServerRespondsBoundAddressesInv, ServerNoticesLossInv
<1>4. ASSUME ServerContinue \/ ServerUpdate \/ TenSecondsPass PROVE NetIInv'
  BY <1>4, ServerContinueInv, ServerUpdateInv, TenSecondsPassInv
<1>5. ASSUME NEW g \in Guid,
             \/ ClientReceive(g) \/ EstablishUnidirectional(g) \/ EstablishBidirectional(g)
             \/ PunchTimesOut(g) \/ LoseFacilitator(g) \/ OnPong(g) \/ StrideTimesOut(g)
      PROVE  NetIInv'
  BY <1>5, ClientReceiveInv, EstablishUnidirectionalInv, EstablishBidirectionalInv,
     PunchTimesOutInv, LoseFacilitatorInv, OnPongInv, StrideTimesOutInv
<1>. QED BY <1>1, <1>2, <1>3, <1>4, <1>5, Zenon DEF NetNext

\* The turn of every client is at one place, however the steps of the
\* facilitator, of the clients and of the connections between them interleave.
THEOREM NetInvariant == NetSpec => []NetIInv
<1>. QED BY NetInitInv, NetNextInv, PTL DEF NetSpec

\* The facilitator and its clients agree: a user takes part in one attempt
\* in progress at most, OnConnectAtTime finds no punch that runs, and isReady
\* is false only while the user is busy.
THEOREM Agreement == NetSpec => []UsersAndClientsAgree
<1>1. ASSUME NetIInv PROVE UsersAndClientsAgree
  <2>1. /\ NetTypeOK /\ IInv /\ \A g \in Guid : ClientGood(g)
        /\ gone = {} => \A g \in Guid : AttendedTo(g)
    BY <1>1 DEF NetIInv
  <2>2. users \subseteq Guid
    BY <2>1 DEF IInv, TypeOK
  <2>3. OneAttemptInProgressPerUser
    <3>1. \A g \in Guid : OneAttempt(g)
      BY <2>1, TurnFacts
    <3>. QED BY <2>2, <3>1 DEF OneAttemptInProgressPerUser, OneAttempt
  <2>4. ConnectFindsIdle
    <3>1. \A g \in Guid : Told(g) => ~sp[g].active
      BY <2>1, TurnFacts
    <3>. QED BY <3>1 DEF ConnectFindsIdle, Told, ConnectId
  <2>5. NotReadyMeansBusy
    BY <2>1, <2>2 DEF NotReadyMeansBusy, AttendedTo, Busy, InAttempt
  <2>. QED BY <2>1, <2>3, <2>4, <2>5 DEF UsersAndClientsAgree
<1>. QED BY <1>1, NetInvariant, PTL

\* A client that keeps its connection gets an outcome for every OpenNAT: when
\* all has come to rest no request is left without one.
THEOREM NothingForgotten == NetSpec => []NoRequestForgottenWhileConnected
<1>1. ASSUME NetIInv PROVE NoRequestForgottenWhileConnected
  <2> SUFFICES ASSUME gone = {}, Quiet, NEW g \in Guid, NEW r \in awaiting[g] PROVE FALSE
    BY DEF NoRequestForgottenWhileConnected, NoForgottenRequest
  <2>1. /\ NetTypeOK /\ IInv /\ \A x \in Guid : ClientGood(x) /\ AttendedTo(x)
    BY <1>1 DEF NetIInv
  <2>2. /\ closing = {} /\ toStart = <<>> /\ ToSet(<<>>) = {}
        /\ \A ca \in DOMAIN attempts : ~InProgress(ca)
        /\ \A x \in Guid : /\ toServer[x] = <<>> /\ toClient[x] = <<>> /\ ~sp[x].active
                           /\ hasPortStride[x] # "CALCULATING_PORT_STRIDE"
    BY EmptyQueue DEF Quiet, Idle
  <2>3. \A x \in Guid : isReady[x]
    <3> SUFFICES ASSUME NEW x \in Guid PROVE isReady[x]
      OBVIOUS
    <3>1. ~InAttempt(x)
      BY <2>2 DEF InAttempt
    <3>2. ~Busy(x)
      BY <2>2, <3>1 DEF Busy, InQueue
    <3>. QED BY <2>1, <3>2 DEF AttendedTo
  <2>4. UnderWay(g, r)
    BY <2>1 DEF AttendedTo
  <2>5. r \notin ToSet(queuedOpenNat[g])
    <3>1. queuedOpenNat[g] = <<>>
      BY <2>1, <2>2 DEF ClientGood, QueuesWhileCalculating
    <3>. QED BY <2>2, <3>1
  <2>6. PICK ca \in DOMAIN attempts : attempts[ca].sender = g /\ attempts[ca].recipient = r
    BY <2>2, <2>4, <2>5 DEF UnderWay
  <2>7. r \in Guid
    BY <2>1 DEF NetTypeOK
  <2>. QED BY <2>1, <2>2, <2>3, <2>6, <2>7 DEF IInv, ReadyPairsAreHandled
<1>. QED BY <1>1, NetInvariant, PTL

\* A step of the composition with a handler is a step of NatPunchthroughServer;
\* all others end no attempt.
LEMMA NetAnnounces == NetIInv /\ [NetNext]_allVars => [Announces]_vars
<1> SUFFICES ASSUME NetIInv, [NetNext]_allVars, ~UNCHANGED vars PROVE Announces
  OBVIOUS
<1>1. IInv /\ NetTypeOK
  BY DEF NetIInv
<1>2. ASSUME Next PROVE Announces
  BY <1>1, <1>2, NextAnnounces
<1>3. ASSUME UNCHANGED attempts PROVE Announces
  BY <1>3 DEF Announces
<1>4. ASSUME NEW g \in Guid, ServerReceive(g) PROVE Announces
  <2> DEFINE m == Head(toServer[g])
  <2>1. m \in ToServerMessage
    BY <1>1, <1>4, ConsumeFacts DEF ServerReceive
  <2>2. \/ m.id = "ID_NAT_PUNCHTHROUGH_REQUEST" /\ OnNATPunchthroughRequest(g, m.peer)
        \/ m.id = "ID_NAT_GET_MOST_RECENT_PORT" /\ OnGetMostRecentPort(g, m.session, m.port)
        \/ OnClientReady(g)
    BY <1>4, Zenon DEF ServerReceive
  <2> HIDE DEF m
  <2>3. m.id = "ID_NAT_PUNCHTHROUGH_REQUEST" => m.peer \in Guid
    BY <2>1 DEF ToServerMessage
  <2>4. m.id = "ID_NAT_GET_MOST_RECENT_PORT" => m.session \in Session /\ m.port \in Port
    BY <2>1 DEF ToServerMessage
  <2>5. Next
    BY <2>2, <2>3, <2>4, Zenon DEF Next
  <2>. QED BY <1>2, <2>5
<1>5. ASSUME NEW g \in Guid, ServerNoticesLoss(g) PROVE Announces
  BY <1>2, <1>5, Zenon DEF ServerNoticesLoss, Next
<1>6. ASSUME NEW g \in Guid, ServerRespondsBoundAddresses(g) PROVE Announces
  BY <1>3, <1>6 DEF ServerRespondsBoundAddresses
<1>7. ASSUME ServerContinue \/ ServerUpdate \/ TenSecondsPass PROVE Announces
  BY <1>2, <1>7, Zenon DEF ServerContinue, ServerUpdate, TenSecondsPass, Next
<1>8. ASSUME ClientStep PROVE Announces
  BY <1>3, <1>8 DEF ClientStep
<1>9. ASSUME NEW g \in Guid,
             \/ \E r \in Guid : OpenNAT(g, r)
             \/ ClientReceive(g) \/ EstablishUnidirectional(g) \/ EstablishBidirectional(g)
             \/ PunchTimesOut(g) \/ LoseFacilitator(g) \/ OnPong(g) \/ StrideTimesOut(g)
      PROVE  ClientStep
  BY <1>9, Zenon DEF OpenNAT, ClientReceive, EstablishUnidirectional, EstablishBidirectional,
     PunchTimesOut, LoseFacilitator, OnPong, StrideTimesOut
<1>10. ~UNCHANGED allVars
  BY DEF allVars
<1>. QED BY <1>4, <1>5, <1>6, <1>7, <1>8, <1>9, <1>10, Zenon DEF NetNext

\* The ends of an attempt that are still connected are told when it ends, with
\* its session, whatever the clients send and whenever they are lost.
THEOREM NetEndsAnnounced == NetSpec => EndsAreAnnounced
<1>1. EndsAreAnnounced <=> [][Announces]_vars
  BY DEF EndsAreAnnounced, Announces
<1>. QED BY <1>1, NetAnnounces, NetInvariant, PTL DEF NetSpec

=============================================================================
