-------------------- MODULE NatPunchthroughServer_proofs --------------------
(***************************************************************************)
(* What holds of NatPunchthroughServer for every set of users, ports,      *)
(* addresses and session ids, and for whatever its clients send, provided  *)
(* no user asks to be connected to itself.                                 *)
(***************************************************************************)
EXTENDS NatPunchthroughServer, TLAPS, SequenceTheorems

-----------------------------------------------------------------------------
(* Lists of attempts *)

\* Taking the entry at position i out of a list without repetition leaves a
\* list without repetition of the other elements.
LEMMA RemoveAtFacts ==
  ASSUME NEW S, NEW list \in Seq(S), IsInjective(list),
         NEW i \in 1 .. Len(list)
  PROVE  /\ RemoveAt(list, i) \in Seq(S)
         /\ IsInjective(RemoveAt(list, i))
         /\ ToSet(RemoveAt(list, i)) = ToSet(list) \ {list[i]}
<1> DEFINE n == Len(list)
           short == RemoveAt(list, i)
           left == SubSeq(list, 1, i - 1)
           right == SubSeq(list, i + 1, n)
<1>1. /\ n \in Nat /\ i \in 1 .. n /\ DOMAIN list = 1 .. n
      /\ \A j \in 1 .. n : list[j] \in S
  OBVIOUS
<1>2. /\ left \in Seq(S) /\ Len(left) = i - 1
      /\ \A j \in 1 .. i - 1 : left[j] = list[j]
  BY <1>1, SubSeqProperties
<1>3. /\ right \in Seq(S) /\ Len(right) = n - i
      /\ \A j \in 1 .. n - i : right[j] = list[i + j]
  <2>1. /\ i + 1 \in Int /\ n \in Int
        /\ \A j \in i + 1 .. n : list[j] \in S
    BY <1>1
  <2>2. /\ right \in Seq(S)
        /\ Len(right) = IF i + 1 <= n THEN n - (i + 1) + 1 ELSE 0
        /\ \A j \in 1 .. n - (i + 1) + 1 : right[j] = list[i + 1 + j - 1]
    BY <2>1, SubSeqProperties
  <2>. HIDE DEF right, n
  <2>3. n - (i + 1) + 1 = n - i /\ \A j \in 1 .. n - i : i + 1 + j - 1 = i + j
    BY <1>1
  <2>4. Len(right) = n - i
    BY <1>1, <2>2
  <2>. QED BY <2>2, <2>3, <2>4
<1>4. short = left \o right
  BY DEF RemoveAt
<1> HIDE DEF left, right, short, n
<1>5. /\ short \in Seq(S) /\ Len(short) = n - 1
      /\ \A j \in 1 .. n - 1 : short[j] = IF j < i THEN list[j] ELSE list[j + 1]
  <2>1. /\ short \in Seq(S) /\ Len(short) = Len(left) + Len(right)
        /\ \A j \in 1 .. Len(left) + Len(right) :
             short[j] = IF j <= Len(left) THEN left[j] ELSE right[j - Len(left)]
    BY <1>2, <1>3, <1>4, ConcatProperties
  <2>2. Len(left) + Len(right) = n - 1
    BY <1>1, <1>2, <1>3
  <2>3. ASSUME NEW j \in 1 .. n - 1
        PROVE  short[j] = IF j < i THEN list[j] ELSE list[j + 1]
    <3>1. CASE j < i
      <4>1. j <= i - 1 /\ j \in 1 .. i - 1
        BY <1>1, <3>1
      <4>. QED BY <1>2, <2>1, <2>2, <3>1, <4>1
    <3>2. CASE ~(j < i)
      <4>1. j - (i - 1) \in 1 .. n - i /\ ~(j <= i - 1) /\ i + (j - (i - 1)) = j + 1
        BY <1>1, <3>2
      <4>2. short[j] = right[j - (i - 1)]
        BY <1>2, <2>1, <2>2, <4>1
      <4>. QED BY <1>3, <3>2, <4>1, <4>2
    <3>. QED BY <3>1, <3>2
  <2>. QED BY <2>1, <2>2, <2>3
<1>6. DOMAIN short = 1 .. n - 1
  BY <1>5
<1>7. \A j, k \in 1 .. n : list[j] = list[k] => j = k
  BY <1>1 DEF IsInjective
<1> DEFINE at(j) == IF j < i THEN j ELSE j + 1
<1>8. /\ \A j \in 1 .. n - 1 : /\ at(j) \in 1 .. n /\ at(j) # i
                              /\ short[j] = list[at(j)]
      /\ \A j, k \in 1 .. n - 1 : at(j) = at(k) => j = k
      /\ \A k \in 1 .. n : k # i => \E j \in 1 .. n - 1 : at(j) = k
  <2>1. \A j \in 1 .. n - 1 : at(j) \in 1 .. n /\ at(j) # i /\ short[j] = list[at(j)]
    BY <1>1, <1>5
  <2>2. \A j, k \in 1 .. n - 1 : at(j) = at(k) => j = k
    BY <1>1
  <2>3. ASSUME NEW k \in 1 .. n, k # i
        PROVE  \E j \in 1 .. n - 1 : at(j) = k
    <3>1. CASE k < i
      <4>1. k \in 1 .. n - 1 /\ at(k) = k
        BY <1>1, <3>1
      <4>. QED BY <4>1
    <3>2. CASE k > i
      <4>1. k - 1 \in 1 .. n - 1 /\ at(k - 1) = k
        BY <1>1, <3>2
      <4>. QED BY <4>1
    <3>. QED BY <1>1, <2>3, <3>1, <3>2
  <2>. QED BY <2>1, <2>2, <2>3
<1> HIDE DEF at
<1>9. IsInjective(short)
  BY <1>6, <1>7, <1>8 DEF IsInjective
<1>10. ToSet(short) = ToSet(list) \ {list[i]}
  <2>1. \A x : x \in ToSet(short) <=> \E j \in 1 .. n - 1 : short[j] = x
    BY <1>6 DEF ToSet
  <2>2. \A x : x \in ToSet(list) <=> \E k \in 1 .. n : list[k] = x
    BY <1>1 DEF ToSet
  <2>3. ASSUME NEW x, \E j \in 1 .. n - 1 : short[j] = x
        PROVE  x # list[i] /\ \E k \in 1 .. n : list[k] = x
    BY <1>1, <1>7, <1>8, <2>3
  <2>4. ASSUME NEW k \in 1 .. n, list[k] # list[i]
        PROVE  \E j \in 1 .. n - 1 : short[j] = list[k]
    BY <1>8, <2>4
  <2>. QED BY <2>1, <2>2, <2>3, <2>4
<1>. QED BY <1>5, <1>9, <1>10 DEF short, n

\* So does DerefConnectionAttempt, whether or not the attempt is listed.
LEMMA DerefFacts ==
  ASSUME NEW S, NEW list \in Seq(S), IsInjective(list), NEW ca
  PROVE  /\ Deref(list, ca) \in Seq(S)
         /\ IsInjective(Deref(list, ca))
         /\ ToSet(Deref(list, ca)) = ToSet(list) \ {ca}
<1>1. CASE ca \notin ToSet(list)
  BY <1>1 DEF Deref
<1>2. CASE ca \in ToSet(list)
  <2> DEFINE at == CHOOSE i \in 1 .. Len(list) : FirstIn(i, list, {ca})
  <2>1. PICK i \in 1 .. Len(list) : list[i] = ca
    BY <1>2 DEF ToSet
  <2>2. \A j, k \in 1 .. Len(list) : list[j] = list[k] => j = k
    BY DEF IsInjective
  <2>3. FirstIn(i, list, {ca})
    BY <2>1, <2>2 DEF FirstIn
  <2>4. at \in 1 .. Len(list) /\ FirstIn(at, list, {ca})
    BY <2>3
  <2>5. list[at] = ca
    BY <2>4 DEF FirstIn
  <2>6. Deref(list, ca) = RemoveAt(list, at)
    BY <1>2 DEF Deref
  <2>. QED
    <3> HIDE DEF at
    <3>. QED BY <2>4, <2>5, <2>6, RemoveAtFacts
<1>. QED BY <1>1, <1>2

\* The loop of OnClosedConnection drops the head of the list it runs over.
LEMMA TailFacts ==
  ASSUME NEW S, NEW list \in Seq(S), IsInjective(list), list # <<>>
  PROVE  /\ Tail(list) \in Seq(S)
         /\ IsInjective(Tail(list))
         /\ ToSet(Tail(list)) = ToSet(list) \ {Head(list)}
<1> DEFINE n == Len(list)
<1>1. n \in Nat /\ n # 0 /\ DOMAIN list = 1 .. n
  BY EmptySeq
<1>2. /\ Tail(list) \in Seq(S) /\ Len(Tail(list)) = n - 1
      /\ \A i \in 1 .. n - 1 : Tail(list)[i] = list[i + 1]
  BY <1>1, HeadTailProperties
<1>3. DOMAIN Tail(list) = 1 .. n - 1
  BY <1>1, <1>2
<1>4. Head(list) = list[1]
  BY <1>1
<1>5. \A j, k \in 1 .. n : list[j] = list[k] => j = k
  BY <1>1 DEF IsInjective
<1> HIDE DEF n
<1>6. IsInjective(Tail(list))
  BY <1>1, <1>2, <1>3, <1>5 DEF IsInjective
<1>7. ToSet(Tail(list)) = ToSet(list) \ {Head(list)}
  <2>1. \A x : x \in ToSet(Tail(list)) <=> \E j \in 1 .. n - 1 : list[j + 1] = x
    BY <1>2, <1>3 DEF ToSet
  <2>2. \A x : x \in ToSet(list) <=> \E k \in 1 .. n : list[k] = x
    BY <1>1 DEF ToSet
  <2>3. ASSUME NEW k \in 1 .. n, k # 1
        PROVE  k - 1 \in 1 .. n - 1 /\ (k - 1) + 1 = k
    BY <1>1, <2>3
  <2>4. \A j \in 1 .. n - 1 : j + 1 \in 1 .. n /\ j + 1 # 1
    BY <1>1
  <2>5. 1 \in 1 .. n
    BY <1>1
  <2>6. ASSUME NEW x, \E j \in 1 .. n - 1 : list[j + 1] = x
        PROVE  x # list[1] /\ \E k \in 1 .. n : list[k] = x
    BY <1>5, <2>4, <2>5, <2>6
  <2>7. ASSUME NEW x, \E k \in 1 .. n : list[k] = x, x # list[1]
        PROVE  \E j \in 1 .. n - 1 : list[j + 1] = x
    <3>1. PICK k \in 1 .. n : list[k] = x /\ k # 1
      BY <2>7
    <3>. QED BY <2>3, <3>1
  <2>. QED BY <1>4, <2>1, <2>2, <2>6, <2>7
<1>. QED BY <1>2, <1>6, <1>7

\* A new attempt goes to the end of a list.
LEMMA AppendFacts ==
  ASSUME NEW S, NEW list \in Seq(S), IsInjective(list),
         NEW e \in S, e \notin ToSet(list)
  PROVE  /\ Append(list, e) \in Seq(S)
         /\ IsInjective(Append(list, e))
         /\ ToSet(Append(list, e)) = ToSet(list) \cup {e}
<1> DEFINE n == Len(list)
<1>1. n \in Nat /\ DOMAIN list = 1 .. n
  OBVIOUS
<1>2. /\ Append(list, e) \in Seq(S) /\ DOMAIN Append(list, e) = 1 .. n + 1
      /\ \A i \in 1 .. n : Append(list, e)[i] = list[i]
      /\ Append(list, e)[n + 1] = e
  BY <1>1
<1>3. \A i \in 1 .. n : list[i] # e
  BY <1>1 DEF ToSet
<1> HIDE DEF n
<1>4. 1 .. n + 1 = 1 .. n \cup {n + 1}
  BY <1>1
<1>5. IsInjective(Append(list, e))
  BY <1>1, <1>2, <1>3, <1>4 DEF IsInjective
<1>6. ToSet(Append(list, e)) = ToSet(list) \cup {e}
  BY <1>1, <1>2, <1>4 DEF ToSet
<1>. QED BY <1>2, <1>5, <1>6

-----------------------------------------------------------------------------
(* Ending an attempt *)

\* What the handlers that end an attempt have in common: it leaves every list
\* it was in, and the heap.
Unlinks(ca) ==
  /\ connectionAttempts' \in [Guid -> Seq(Ptr)]
  /\ \A g \in Guid :
       /\ IsInjective(connectionAttempts'[g])
       /\ ToSet(connectionAttempts'[g]) = ToSet(connectionAttempts[g]) \ {ca}
  /\ attempts' = [p \in DOMAIN attempts \ {ca} |-> attempts[p]]

LEMMA DeleteUnlinks ==
  ASSUME IInv, NEW ca \in DOMAIN attempts, Delete(ca)
  PROVE  Unlinks(ca)
<1> DEFINE s == attempts[ca].sender
           r == attempts[ca].recipient
           new(g) == connectionAttempts'[g]
           old(g) == connectionAttempts[g]
<1>1. s \in Guid /\ r \in Guid /\ s # r
  BY DEF IInv, TypeOK, NoSelfAttempt, Attempt
<1>2. \A g \in Guid : old(g) \in Seq(Ptr) /\ IsInjective(old(g))
  BY DEF IInv, TypeOK, AttemptsLinked
<1>3. \A g \in Guid : new(g) = IF g \in {s, r} THEN Deref(old(g), ca) ELSE old(g)
  BY <1>1 DEF Delete, IInv, TypeOK
<1>4. DOMAIN connectionAttempts' = Guid
  BY DEF Delete, IInv, TypeOK
<1>5. ASSUME NEW g \in Guid
      PROVE  new(g) \in Seq(Ptr) /\ IsInjective(new(g)) /\ ToSet(new(g)) = ToSet(old(g)) \ {ca}
  <2>1. CASE g \in {s, r}
    BY <1>2, <1>3, <2>1, DerefFacts
  <2>2. CASE g \notin {s, r}
    <3>1. ca \notin ToSet(old(g))
      BY <2>2 DEF IInv, AttemptsLinked, Involves
    <3>. QED BY <1>2, <1>3, <2>2, <3>1
  <2>. QED BY <2>1, <2>2
<1>6. connectionAttempts' \in [Guid -> Seq(Ptr)]
  BY <1>4, <1>5 DEF Delete, IInv, TypeOK
<1>. QED BY <1>5, <1>6 DEF Unlinks, Delete

\* The loop of OnClosedConnection ends the first attempt of the user.
LEMMA LoseAttemptUnlinks ==
  ASSUME IInv, NEW g \in closing, connectionAttempts[g] # <<>>, LoseAttempt
  PROVE  LET ca == Head(connectionAttempts[g])
         IN ca \in DOMAIN attempts /\ Involves(ca, g) /\ Unlinks(ca)
<1> DEFINE ca == Head(connectionAttempts[g])
           other == OtherUser(ca, g)
           without == [connectionAttempts EXCEPT ![other] = Deref(@, ca)]
           new(h) == connectionAttempts'[h]
           old(h) == connectionAttempts[h]
<1>1. g \in Guid /\ \A h \in closing : h = g
  BY DEF IInv, TypeOK, OneHandler
<1>2. \A h \in Guid : old(h) \in Seq(Ptr) /\ IsInjective(old(h))
  BY DEF IInv, TypeOK, AttemptsLinked
<1>3. ca \in ToSet(connectionAttempts[g])
  <2>1. ca = old(g)[1] /\ 1 \in DOMAIN old(g)
    BY <1>1, <1>2, EmptySeq
  <2>. QED BY <2>1 DEF ToSet
<1>4. ca \in DOMAIN attempts /\ Involves(ca, g)
  BY <1>1, <1>3 DEF IInv, AttemptsLinked
<1>5. other \in Guid /\ other # g /\ {attempts[ca].sender, attempts[ca].recipient} = {g, other}
  BY <1>4 DEF IInv, TypeOK, NoSelfAttempt, Attempt, Involves, OtherUser
<1>6. /\ connectionAttempts' = [without EXCEPT ![g] = Tail(@)]
      /\ attempts' = [p \in DOMAIN attempts \ {ca} |-> attempts[p]]
  BY <1>1 DEF LoseAttempt
<1>7. \A h \in Guid : new(h) = IF h = g THEN Tail(old(h))
                                ELSE IF h = other THEN Deref(old(h), ca) ELSE old(h)
  BY <1>1, <1>5, <1>6 DEF IInv, TypeOK
<1>8. ASSUME NEW h \in Guid
      PROVE  new(h) \in Seq(Ptr) /\ IsInjective(new(h)) /\ ToSet(new(h)) = ToSet(old(h)) \ {ca}
  <2>1. CASE h = g
    BY <1>2, <1>7, <2>1, TailFacts
  <2>2. CASE h = other
    BY <1>2, <1>5, <1>7, <2>2, DerefFacts
  <2>3. CASE h \notin {g, other}
    <3>1. ca \notin ToSet(old(h))
      BY <1>5, <2>3 DEF IInv, AttemptsLinked, Involves
    <3>. QED BY <1>2, <1>7, <2>3, <3>1
  <2>. QED BY <2>1, <2>2, <2>3
<1>9. connectionAttempts' \in [Guid -> Seq(Ptr)]
  BY <1>6, <1>8 DEF IInv, TypeOK
<1>. QED BY <1>4, <1>6, <1>8, <1>9 DEF Unlinks

\* What is left is linked as before.
LEMMA UnlinkedIsLinked ==
  ASSUME IInv, NEW ca \in DOMAIN attempts, Unlinks(ca), users' = users
  PROVE  /\ AttemptsLinked' /\ OneAttemptPerPair' /\ NoSelfAttempt'
         /\ DOMAIN attempts' = DOMAIN attempts \ {ca}
         /\ attempts' \in [DOMAIN attempts' -> Attempt]
         /\ \A p \in DOMAIN attempts' : attempts'[p] = attempts[p]
<1>1. /\ DOMAIN attempts' = DOMAIN attempts \ {ca}
      /\ \A p \in DOMAIN attempts' : attempts'[p] = attempts[p]
      /\ attempts' \in [DOMAIN attempts' -> Attempt]
  BY DEF Unlinks, IInv, TypeOK
<1>2. \A p \in DOMAIN attempts' : attempts[p].sender \in Guid /\ attempts[p].recipient \in Guid
  BY <1>1 DEF IInv, TypeOK, Attempt
<1>3. AttemptsLinked'
  <2>1. ASSUME NEW g \in Guid
        PROVE  /\ IsInjective(connectionAttempts'[g])
               /\ \A p \in ToSet(connectionAttempts'[g]) :
                    p \in DOMAIN attempts' /\ Involves(p, g)'
    BY <1>1 DEF Unlinks, IInv, AttemptsLinked, Involves
  <2>2. ASSUME NEW p \in DOMAIN attempts',
               NEW g \in {attempts'[p].sender, attempts'[p].recipient}
        PROVE  g \in users' /\ p \in ToSet(connectionAttempts'[g])
    BY <1>1, <1>2 DEF Unlinks, IInv, AttemptsLinked
  <2>. QED BY <2>1, <2>2 DEF AttemptsLinked
<1>4. OneAttemptPerPair'
  BY <1>1 DEF IInv, OneAttemptPerPair
<1>5. NoSelfAttempt'
  BY <1>1 DEF IInv, NoSelfAttempt
<1>. QED BY <1>1, <1>3, <1>4, <1>5

\* A handler that ends an attempt and makes nobody ready.
LEMMA EndingInv ==
  ASSUME IInv, NEW ca \in DOMAIN attempts, Unlinks(ca), sent' \in Seq(Message),
         mostRecentPort' \in [Guid -> Port \cup {0}],
         UNCHANGED <<users, isReady, sessionId, closing, toVisit, toStart>>
  PROVE  IInv'
<1>1. /\ AttemptsLinked' /\ OneAttemptPerPair' /\ NoSelfAttempt'
      /\ DOMAIN attempts' = DOMAIN attempts \ {ca}
      /\ attempts' \in [DOMAIN attempts' -> Attempt]
      /\ \A p \in DOMAIN attempts' : attempts'[p] = attempts[p]
  BY UnlinkedIsLinked
<1>2. TypeOK'
  BY <1>1 DEF IInv, TypeOK, Unlinks
<1>3. StartsLiveUsers' /\ OneHandler' /\ ReadyPairsAreHandled'
  BY <1>1 DEF IInv, StartsLiveUsers, OneHandler, ReadyPairsAreHandled
<1>. QED BY <1>1, <1>2, <1>3 DEF IInv

\* A handler that begins and ends no attempt.
LEMMA LinksUnchanged ==
  ASSUME IInv, UNCHANGED <<users, connectionAttempts>>,
         DOMAIN attempts' = DOMAIN attempts,
         \A p \in DOMAIN attempts : /\ attempts'[p].sender = attempts[p].sender
                                   /\ attempts'[p].recipient = attempts[p].recipient
  PROVE  AttemptsLinked' /\ OneAttemptPerPair' /\ NoSelfAttempt'
<1>1. ASSUME NEW g \in Guid
      PROVE  /\ IsInjective(connectionAttempts'[g])
             /\ \A ca \in ToSet(connectionAttempts'[g]) :
                  ca \in DOMAIN attempts' /\ Involves(ca, g)'
  BY DEF IInv, AttemptsLinked, Involves
<1>2. ASSUME NEW ca \in DOMAIN attempts',
             NEW g \in {attempts'[ca].sender, attempts'[ca].recipient}
      PROVE  g \in users' /\ ca \in ToSet(connectionAttempts'[g])
  BY DEF IInv, AttemptsLinked
<1>3. AttemptsLinked'
  BY <1>1, <1>2 DEF AttemptsLinked
<1>4. OneAttemptPerPair' /\ NoSelfAttempt'
  BY DEF IInv, OneAttemptPerPair, NoSelfAttempt
<1>. QED BY <1>3, <1>4

\* The calls of StartPunchthroughForUser are made from the head of the list.
LEMMA StartedFacts ==
  ASSUME NEW S, NEW list \in Seq(S), list # <<>>
  PROVE  /\ Tail(list) \in Seq(S) /\ Head(list) \in S
         /\ ToSet(list) = ToSet(Tail(list)) \cup {Head(list)}
<1> DEFINE n == Len(list)
<1>1. n \in Nat /\ n # 0 /\ DOMAIN list = 1 .. n /\ Head(list) = list[1]
      /\ \A i \in 1 .. n : list[i] \in S
  BY EmptySeq
<1>2. /\ Tail(list) \in Seq(S) /\ Len(Tail(list)) = n - 1
      /\ \A i \in 1 .. n - 1 : Tail(list)[i] = list[i + 1]
  BY <1>1, HeadTailProperties
<1>3. DOMAIN Tail(list) = 1 .. n - 1
  BY <1>1, <1>2
<1> HIDE DEF n
<1>4. ASSUME NEW k \in 1 .. n, k # 1
      PROVE  k - 1 \in 1 .. n - 1 /\ (k - 1) + 1 = k
  BY <1>1, <1>4
<1>5. 1 \in 1 .. n /\ \A j \in 1 .. n - 1 : j + 1 \in 1 .. n
  BY <1>1
<1>6. \A x : x \in ToSet(Tail(list)) <=> \E j \in 1 .. n - 1 : list[j + 1] = x
  BY <1>2, <1>3 DEF ToSet
<1>7. \A x : x \in ToSet(list) <=> \E k \in 1 .. n : list[k] = x
  BY <1>1 DEF ToSet
<1>8. ASSUME NEW k \in 1 .. n
      PROVE  list[k] \in ToSet(Tail(list)) \cup {list[1]}
  BY <1>4, <1>6
<1>. QED BY <1>1, <1>2, <1>5, <1>6, <1>7, <1>8

-----------------------------------------------------------------------------
(* Every step preserves the invariant *)

LEMMA InitInv == Init => IInv
<1> SUFFICES ASSUME Init PROVE IInv
  OBVIOUS
<1>1. TypeOK
  BY SessionIdsAssumption DEF Init, TypeOK, Session
<1>2. AttemptsLinked
  BY DEF Init, AttemptsLinked, ToSet, IsInjective
<1>. QED BY <1>1, <1>2 DEF Init, IInv, OneAttemptPerPair, StartsLiveUsers,
            NoSelfAttempt, OneHandler, ReadyPairsAreHandled, ToSet

LEMMA NewConnectionInv ==
  ASSUME IInv, NEW g \in Guid, OnNewConnection(g) PROVE IInv'
<1>1. TypeOK'
  BY DEF IInv, TypeOK, OnNewConnection, Idle, pcVars
<1>2. \A ca \in DOMAIN attempts : attempts[ca].sender # g /\ attempts[ca].recipient # g
  BY DEF IInv, AttemptsLinked, OnNewConnection
<1>3. AttemptsLinked'
  BY DEF IInv, AttemptsLinked, Involves, OnNewConnection
<1>4. ReadyPairsAreHandled'
  BY <1>2 DEF IInv, TypeOK, ReadyPairsAreHandled, OnNewConnection, pcVars, Attempt
<1>5. StartsLiveUsers' /\ OneHandler'
  BY DEF IInv, StartsLiveUsers, OneHandler, OnNewConnection, pcVars
<1>6. OneAttemptPerPair' /\ NoSelfAttempt'
  BY DEF IInv, OneAttemptPerPair, NoSelfAttempt, OnNewConnection
<1>. QED BY <1>1, <1>3, <1>4, <1>5, <1>6 DEF IInv

LEMMA ClosedConnectionInv ==
  ASSUME IInv, NEW g \in Guid, OnClosedConnection(g) PROVE IInv'
<1>1. TypeOK'
  BY DEF IInv, TypeOK, OnClosedConnection, Idle
<1>2. AttemptsLinked'
  BY DEF IInv, AttemptsLinked, Involves, OnClosedConnection
<1>3. ReadyPairsAreHandled'
  BY DEF IInv, ReadyPairsAreHandled, OnClosedConnection, Idle
<1>4. StartsLiveUsers' /\ OneHandler'
  BY DEF IInv, StartsLiveUsers, OneHandler, OnClosedConnection, Idle, ToSet
<1>5. OneAttemptPerPair' /\ NoSelfAttempt'
  BY DEF IInv, OneAttemptPerPair, NoSelfAttempt, OnClosedConnection
<1>. QED BY <1>1, <1>2, <1>3, <1>4, <1>5 DEF IInv

LEMMA LoseAttemptInv ==
  ASSUME IInv, LoseAttempt PROVE IInv'
<1>1. PICK g \in closing : connectionAttempts[g] # <<>>
  BY DEF LoseAttempt
<1> DEFINE ca == Head(connectionAttempts[g])
           other == OtherUser(ca, g)
<1>2. /\ g \in Guid /\ g \in users
      /\ \A h \in closing : h = g
      /\ toVisit = {}
  BY DEF IInv, TypeOK, OneHandler
<1>3. ca \in DOMAIN attempts /\ Involves(ca, g) /\ Unlinks(ca)
  BY <1>1, LoseAttemptUnlinks
<1>4. /\ sent' = <<[to |-> other, id |-> "ID_NAT_CONNECTION_TO_TARGET_LOST",
                    peer |-> g, session |-> attempts[ca].sessionId]>>
      /\ isReady' = [isReady EXCEPT ![other] = @ \/ InProgress(ca)]
      /\ toStart' = IF InProgress(ca) THEN Append(toStart, other) ELSE toStart
      /\ UNCHANGED <<users, mostRecentPort, sessionId, closing, toVisit>>
  BY <1>2 DEF LoseAttempt, ReadyAfterLoss, FreedUp
<1>5. /\ other \in Guid /\ other \in users /\ other # g
      /\ attempts[ca].sessionId \in Session
  BY <1>3 DEF IInv, TypeOK, AttemptsLinked, NoSelfAttempt, Attempt, Involves, OtherUser
<1> HIDE DEF ca, other
<1>6. /\ AttemptsLinked' /\ OneAttemptPerPair' /\ NoSelfAttempt'
      /\ DOMAIN attempts' = DOMAIN attempts \ {ca}
      /\ attempts' \in [DOMAIN attempts' -> Attempt]
      /\ \A p \in DOMAIN attempts' : attempts'[p] = attempts[p]
  BY <1>3, <1>4, UnlinkedIsLinked
<1>7. /\ toStart' \in Seq(Guid)
      /\ ToSet(toStart') \subseteq ToSet(toStart) \cup {other}
      /\ ToSet(toStart) \subseteq ToSet(toStart')
      /\ InProgress(ca) => other \in ToSet(toStart')
  <2>1. toStart \in Seq(Guid)
    BY DEF IInv, TypeOK
  <2>2. CASE InProgress(ca)
    <3>1. toStart' = Append(toStart, other)
      BY <1>4, <2>2
    <3>2. /\ toStart' \in Seq(Guid) /\ DOMAIN toStart' = 1 .. Len(toStart) + 1
          /\ \A i \in 1 .. Len(toStart) : toStart'[i] = toStart[i]
          /\ toStart'[Len(toStart) + 1] = other
          /\ DOMAIN toStart = 1 .. Len(toStart) /\ Len(toStart) \in Nat
      BY <1>5, <2>1, <3>1
    <3>. QED BY <3>2 DEF ToSet
  <2>3. CASE ~InProgress(ca)
    BY <1>4, <2>1, <2>3
  <2>. QED BY <2>2, <2>3
<1>8. TypeOK'
  <2>1. sent' \in Seq(Message)
    BY <1>2, <1>4, <1>5 DEF Message
  <2>2. isReady' \in [Guid -> BOOLEAN]
    BY <1>4, <1>5 DEF IInv, TypeOK, InProgress
  <2>3. connectionAttempts' \in [Guid -> Seq(Ptr)]
    BY <1>3 DEF Unlinks
  <2>. QED BY <1>4, <1>6, <1>7, <2>1, <2>2, <2>3 DEF IInv, TypeOK
<1>9. StartsLiveUsers' /\ OneHandler'
  BY <1>2, <1>4, <1>5, <1>7 DEF IInv, StartsLiveUsers, OneHandler
<1>10. ReadyPairsAreHandled'
  <2> SUFFICES ASSUME NEW p \in DOMAIN attempts',
                      isReady'[attempts'[p].sender], isReady'[attempts'[p].recipient]
               PROVE  {attempts[p].sender, attempts[p].recipient}
                        \cap (ToSet(toStart') \cup closing) # {}
    BY <1>4, <1>6 DEF ReadyPairsAreHandled
  <2>1. /\ p \in DOMAIN attempts /\ attempts'[p] = attempts[p]
        /\ attempts[p].sender \in Guid /\ attempts[p].recipient \in Guid
    BY <1>6 DEF IInv, TypeOK, Attempt
  <2>2. CASE InProgress(ca) /\ (attempts[p].sender = other \/ attempts[p].recipient = other)
    BY <1>7, <2>2
  <2>3. CASE ~(InProgress(ca) /\ (attempts[p].sender = other \/ attempts[p].recipient = other))
    <3>1. isReady[attempts[p].sender] /\ isReady[attempts[p].recipient]
      BY <1>4, <1>5, <2>1, <2>3 DEF IInv, TypeOK
    <3>. QED BY <1>7, <2>1, <3>1 DEF IInv, ReadyPairsAreHandled
  <2>. QED BY <2>2, <2>3
<1>. QED BY <1>6, <1>8, <1>9, <1>10 DEF IInv

LEMMA RemoveUserInv ==
  ASSUME IInv, RemoveUser PROVE IInv'
<1>1. PICK g \in closing : connectionAttempts[g] = <<>>
  BY DEF RemoveUser
<1>2. /\ g \in Guid
      /\ \A h \in closing : h = g
      /\ toVisit = {}
  BY DEF IInv, TypeOK, OneHandler
<1>3. /\ users' = users \ {g}
      /\ isReady' = [isReady EXCEPT ![g] = FALSE]
      /\ mostRecentPort' = [mostRecentPort EXCEPT ![g] = 0]
      /\ closing' = {} /\ sent' = <<>>
      /\ UNCHANGED <<connectionAttempts, attempts, sessionId, toVisit, toStart>>
  BY <1>2 DEF RemoveUser
<1>4. \A ca \in DOMAIN attempts : attempts[ca].sender # g /\ attempts[ca].recipient # g
  BY <1>1 DEF IInv, AttemptsLinked, ToSet
<1>5. TypeOK'
  BY <1>2, <1>3 DEF IInv, TypeOK
<1>6. AttemptsLinked'
  BY <1>3, <1>4 DEF IInv, AttemptsLinked, Involves
<1>7. ReadyPairsAreHandled'
  <2> SUFFICES ASSUME NEW p \in DOMAIN attempts,
                      isReady'[attempts[p].sender], isReady'[attempts[p].recipient]
               PROVE  {attempts[p].sender, attempts[p].recipient} \cap ToSet(toStart) # {}
    BY <1>3 DEF ReadyPairsAreHandled
  <2>1. attempts[p].sender \in Guid /\ attempts[p].recipient \in Guid
    BY DEF IInv, TypeOK, Attempt
  <2>2. isReady[attempts[p].sender] /\ isReady[attempts[p].recipient]
    BY <1>3, <1>4, <2>1 DEF IInv, TypeOK
  <2>3. {attempts[p].sender, attempts[p].recipient} \cap (ToSet(toStart) \cup closing) # {}
    BY <2>2 DEF IInv, ReadyPairsAreHandled
  <2>. QED BY <1>2, <1>4, <2>3
<1>8. StartsLiveUsers' /\ OneHandler'
  BY <1>3 DEF IInv, StartsLiveUsers, OneHandler
<1>9. OneAttemptPerPair' /\ NoSelfAttempt'
  BY <1>3 DEF IInv, OneAttemptPerPair, NoSelfAttempt
<1>. QED BY <1>5, <1>6, <1>7, <1>8, <1>9 DEF IInv

LEMMA NextSessionInRange == sessionId \in Session => NextSession \in Session
  BY SessionIdsAssumption DEF Session, NextSession

LEMMA RequestInv ==
  ASSUME IInv, NEW g \in Guid, NEW r \in Guid, g # r,
         OnNATPunchthroughRequest(g, r)
  PROVE  IInv'
<1>1. /\ g \in users /\ g # r /\ sessionId' \in Session
      /\ closing = {} /\ toVisit = {} /\ toStart = <<>>
      /\ UNCHANGED <<users, isReady, mostRecentPort, closing, toVisit>>
  BY NextSessionInRange DEF OnNATPunchthroughRequest, Idle, IInv, TypeOK
<1>2. CASE \E why \in {"ID_NAT_TARGET_NOT_CONNECTED", "ID_NAT_ALREADY_IN_PROGRESS"} :
             Refuse(g, r, why)
  <2>1. TypeOK'
    BY <1>1, <1>2 DEF IInv, TypeOK, Refuse, Message
  <2>2. AttemptsLinked'
    BY <1>1, <1>2 DEF IInv, AttemptsLinked, Involves, Refuse
  <2>3. ReadyPairsAreHandled' /\ StartsLiveUsers' /\ OneHandler'
    BY <1>1, <1>2 DEF IInv, ReadyPairsAreHandled, StartsLiveUsers, OneHandler, Refuse
  <2>4. OneAttemptPerPair' /\ NoSelfAttempt'
    BY <1>2 DEF IInv, OneAttemptPerPair, NoSelfAttempt, Refuse
  <2>. QED BY <2>1, <2>2, <2>3, <2>4 DEF IInv
<1>3. ASSUME r \in users, ~HasConnectionAttemptToUser(r, g), toStart' = <<g>>, sent' = <<>>,
             NEW ca \in Ptr \ DOMAIN attempts, NEW new,
             new = [sender |-> g, recipient |-> r, sessionId |-> sessionId,
                    attemptPhase |-> "NOT_STARTED", overdue |-> FALSE],
             attempts' = [p \in DOMAIN attempts \cup {ca} |->
                            IF p = ca THEN new ELSE attempts[p]],
             connectionAttempts' =
               [[connectionAttempts EXCEPT ![g] = Append(@, ca)]
                  EXCEPT ![r] = Append(@, ca)]
      PROVE  IInv'
  <2> DEFINE old(h) == connectionAttempts[h]
             now(h) == connectionAttempts'[h]
  <2>1. /\ new \in Attempt /\ new.sender = g /\ new.recipient = r
        /\ attempts'[ca] = new
        /\ DOMAIN attempts' = DOMAIN attempts \cup {ca}
        /\ \A p \in DOMAIN attempts : p # ca /\ attempts'[p] = attempts[p]
    BY <1>3 DEF IInv, TypeOK, Attempt
  <2>2. \A h \in Guid : old(h) \in Seq(Ptr) /\ IsInjective(old(h)) /\ ca \notin ToSet(old(h))
    BY DEF IInv, TypeOK, AttemptsLinked
  <2>3. \A h \in Guid : now(h) = IF h \in {g, r} THEN Append(old(h), ca) ELSE old(h)
    BY <1>1, <1>3 DEF IInv, TypeOK
  <2>4. ASSUME NEW h \in Guid
        PROVE  /\ now(h) \in Seq(Ptr) /\ IsInjective(now(h))
               /\ ToSet(now(h)) = IF h \in {g, r} THEN ToSet(old(h)) \cup {ca} ELSE ToSet(old(h))
    <3> HIDE DEF old, now
    <3>1. CASE h \in {g, r}
      <4>1. now(h) = Append(old(h), ca)
        BY <2>3, <3>1
      <4>2. /\ Append(old(h), ca) \in Seq(Ptr) /\ IsInjective(Append(old(h), ca))
            /\ ToSet(Append(old(h), ca)) = ToSet(old(h)) \cup {ca}
        BY <2>2, AppendFacts
      <4>. QED BY <3>1, <4>1, <4>2
    <3>2. CASE h \notin {g, r}
      <4>1. now(h) = old(h)
        BY <2>3, <3>2
      <4>. QED BY <2>2, <3>2, <4>1
    <3>. QED BY <3>1, <3>2
  <2>5. connectionAttempts' \in [Guid -> Seq(Ptr)]
    BY <1>3, <2>4 DEF IInv, TypeOK
  <2>6. \A p \in DOMAIN attempts : {attempts[p].sender, attempts[p].recipient} # {g, r}
    <3> SUFFICES ASSUME NEW p \in DOMAIN attempts,
                        {attempts[p].sender, attempts[p].recipient} = {g, r}
                 PROVE  FALSE
      OBVIOUS
    <3>1. r \in {attempts[p].sender, attempts[p].recipient}
      OBVIOUS
    <3>2. p \in ToSet(connectionAttempts[r])
      BY <3>1 DEF IInv, AttemptsLinked
    <3>3. Involves(p, g)
      BY DEF Involves
    <3>. QED BY <1>3, <3>2, <3>3 DEF HasConnectionAttemptToUser
  <2> HIDE DEF old, now
  <2>7. TypeOK'
    <3>1. attempts' \in [DOMAIN attempts' -> Attempt] /\ DOMAIN attempts' \subseteq Ptr
      BY <1>3, <2>1 DEF IInv, TypeOK
    <3>2. toStart' \in Seq(Guid) /\ sent' \in Seq(Message)
      BY <1>3
    <3>. QED BY <1>1, <2>5, <3>1, <3>2 DEF IInv, TypeOK
  <2>8. AttemptsLinked'
    <3>1. ASSUME NEW h \in Guid
          PROVE  /\ IsInjective(connectionAttempts'[h])
                 /\ \A p \in ToSet(connectionAttempts'[h]) :
                      p \in DOMAIN attempts' /\ Involves(p, h)'
      <4>1. IsInjective(connectionAttempts'[h])
        BY <2>4 DEF now
      <4>2. ASSUME NEW p \in ToSet(connectionAttempts'[h])
            PROVE  p \in DOMAIN attempts' /\ Involves(p, h)'
        <5>1. CASE p = ca
          <6>1. h \in {g, r}
            BY <2>2, <2>4, <5>1 DEF now
          <6>. QED BY <2>1, <5>1, <6>1 DEF Involves
        <5>2. CASE p # ca
          <6>1. p \in ToSet(connectionAttempts[h])
            BY <2>4, <5>2 DEF old, now
          <6>2. p \in DOMAIN attempts /\ Involves(p, h)
            BY <6>1 DEF IInv, AttemptsLinked
          <6>. QED BY <2>1, <6>2 DEF Involves
        <5>. QED BY <5>1, <5>2
      <4>. QED BY <4>1, <4>2
    <3>2. ASSUME NEW p \in DOMAIN attempts',
                 NEW h \in {attempts'[p].sender, attempts'[p].recipient}
          PROVE  h \in users' /\ p \in ToSet(connectionAttempts'[h])
      <4>1. CASE p = ca
        <5>1. h \in Guid /\ h \in {g, r}
          BY <2>1, <4>1
        <5>2. ca \in ToSet(now(h))
          BY <2>4, <5>1
        <5>. QED BY <1>1, <1>3, <4>1, <5>1, <5>2 DEF now
      <4>2. CASE p # ca
        <5>1. p \in DOMAIN attempts /\ h \in {attempts[p].sender, attempts[p].recipient}
          BY <2>1, <4>2
        <5>2. h \in users /\ p \in ToSet(connectionAttempts[h]) /\ h \in Guid
          BY <5>1 DEF IInv, TypeOK, AttemptsLinked
        <5>. QED BY <1>1, <2>4, <5>2 DEF old, now
      <4>. QED BY <4>1, <4>2
    <3>. QED BY <3>1, <3>2 DEF AttemptsLinked
  <2>9. OneAttemptPerPair' /\ NoSelfAttempt'
    BY <1>1, <2>1, <2>6 DEF IInv, OneAttemptPerPair, NoSelfAttempt
  <2>10. ToSet(toStart') = {g}
    BY <1>3 DEF ToSet
  <2>11. StartsLiveUsers' /\ OneHandler'
    BY <1>1, <2>10 DEF StartsLiveUsers, OneHandler
  <2>12. ReadyPairsAreHandled'
    <3>1. ToSet(toStart) \cup closing = {}
      BY <1>1 DEF ToSet
    <3>. QED BY <1>1, <2>1, <2>10, <3>1 DEF IInv, ReadyPairsAreHandled
  <2>. QED BY <2>7, <2>8, <2>9, <2>11, <2>12 DEF IInv
<1>. QED BY <1>2, <1>3 DEF OnNATPunchthroughRequest

LEMMA ClientReadyInv ==
  ASSUME IInv, NEW g \in Guid, OnClientReady(g) PROVE IInv'
<1>1. TypeOK'
  BY DEF IInv, TypeOK, OnClientReady, Idle
<1>2. AttemptsLinked' /\ OneAttemptPerPair' /\ NoSelfAttempt'
  BY LinksUnchanged DEF OnClientReady
<1>3. ToSet(toStart') = {g} /\ ToSet(toStart) = {} /\ closing = {} /\ closing' = {}
  BY DEF OnClientReady, Idle, ToSet
<1>4. StartsLiveUsers' /\ OneHandler'
  BY <1>3 DEF StartsLiveUsers, OneHandler, OnClientReady
<1>5. ReadyPairsAreHandled'
  BY <1>3 DEF IInv, TypeOK, Attempt, ReadyPairsAreHandled, OnClientReady
<1>. QED BY <1>1, <1>2, <1>4, <1>5 DEF IInv

LEMMA GetMostRecentPortInv ==
  ASSUME IInv, NEW g \in Guid, NEW s \in Session, NEW port \in Port,
         OnGetMostRecentPort(g, s, port)
  PROVE  IInv'
<1> DEFINE ports == [mostRecentPort EXCEPT ![g] = port]
           list == connectionAttempts[g]
<1>1. /\ mostRecentPort' = ports
      /\ UNCHANGED <<users, isReady, sessionId, closing, toVisit, toStart>>
  BY DEF OnGetMostRecentPort, pcVars
<1>2. ports \in [Guid -> Port \cup {0}]
  BY DEF IInv, TypeOK
<1>3. ASSUME NEW i \in 1 .. Len(list), FirstIn(i, list, Answered(s, ports)),
             sent' = ConnectAtTime(list[i], ports), Delete(list[i])
      PROVE  IInv'
  <2> DEFINE ca == list[i]
             a == attempts[ca]
  <2>1. /\ ca \in DOMAIN attempts /\ a \in Attempt
        /\ ports[a.sender] # 0 /\ ports[a.recipient] # 0
    BY <1>3 DEF FirstIn, Answered, IInv, TypeOK
  <2>2. Unlinks(ca)
    BY <1>3, <2>1, DeleteUnlinks
  <2>3. ports[a.sender] \in Port /\ ports[a.recipient] \in Port
    BY <1>2, <2>1 DEF Attempt
  <2> DEFINE m1 == [to |-> a.recipient, id |-> "ID_NAT_CONNECT_AT_TIME",
                    session |-> a.sessionId, peer |-> a.sender,
                    port |-> ports[a.sender], weAreSender |-> FALSE]
             m2 == [to |-> a.sender, id |-> "ID_NAT_CONNECT_AT_TIME",
                    session |-> a.sessionId, peer |-> a.recipient,
                    port |-> ports[a.recipient], weAreSender |-> TRUE]
  <2>4. sent' = <<m1, m2>>
    BY <1>3 DEF ConnectAtTime
  <2> HIDE DEF ports
  <2>5. m1 \in Message /\ m2 \in Message
    BY <2>1, <2>3 DEF Message, Attempt
  <2> HIDE DEF ca, m1, m2
  <2>6. sent' \in Seq(Message)
    BY <2>4, <2>5
  <2>. QED BY <1>1, <1>2, <2>1, <2>2, <2>6, EndingInv
<1>4. ASSUME sent' = <<>>, UNCHANGED <<connectionAttempts, attempts>>
      PROVE  IInv'
  <2> HIDE DEF ports, list
  <2>1. TypeOK'
    BY <1>1, <1>2, <1>4 DEF IInv, TypeOK
  <2>2. AttemptsLinked' /\ OneAttemptPerPair' /\ NoSelfAttempt'
    BY <1>1, <1>4, LinksUnchanged
  <2>3. StartsLiveUsers' /\ OneHandler' /\ ReadyPairsAreHandled'
    BY <1>1, <1>4 DEF IInv, StartsLiveUsers, OneHandler, ReadyPairsAreHandled
  <2>. QED BY <2>1, <2>2, <2>3 DEF IInv
<1>. QED BY <1>3, <1>4 DEF OnGetMostRecentPort

LEMMA StartAttemptInv ==
  ASSUME IInv, StartAttempt PROVE IInv'
<1> DEFINE u == Head(toStart)
           list == connectionAttempts[u]
           ask(v, ca) == [to |-> v, id |-> "ID_NAT_GET_MOST_RECENT_PORT",
                          session |-> attempts[ca].sessionId]
<1>1. /\ closing = {} /\ toStart # <<>> /\ toStart' = Tail(toStart)
      /\ UNCHANGED <<users, connectionAttempts, sessionId, closing, toVisit>>
  BY DEF StartAttempt
<1>2. toStart \in Seq(Guid)
  BY DEF IInv, TypeOK
<1>3. /\ toStart' \in Seq(Guid) /\ u \in Guid
      /\ ToSet(toStart) = ToSet(toStart') \cup {u}
  BY <1>1, <1>2, StartedFacts
<1> DEFINE Starts(ca) ==
             /\ isReady' = [isReady EXCEPT ![attempts[ca].sender] = FALSE,
                                           ![attempts[ca].recipient] = FALSE]
             /\ mostRecentPort' = [mostRecentPort EXCEPT ![attempts[ca].sender] = 0,
                                                         ![attempts[ca].recipient] = 0]
             /\ attempts' = [attempts EXCEPT ![ca].attemptPhase = "GETTING_RECENT_PORTS",
                                             ![ca].overdue = FALSE]
             /\ sent' = <<ask(attempts[ca].sender, ca), ask(attempts[ca].recipient, ca)>>
<1>4. PICK ca \in DOMAIN attempts : Involves(ca, u) /\ Starts(ca)
  <2>1. PICK i \in 1 .. Len(list) : list[i] \in DOMAIN attempts /\ Starts(list[i])
    BY DEF StartAttempt, FirstIn, Engaged
  <2>2. list[i] \in ToSet(list)
    BY <1>3 DEF ToSet, IInv, TypeOK
  <2>3. Involves(list[i], u)
    BY <1>3, <2>2 DEF IInv, AttemptsLinked
  <2> HIDE DEF Starts
  <2>. QED BY <2>1, <2>3, Zenon
<1> DEFINE s == attempts[ca].sender
           r == attempts[ca].recipient
<1>5. attempts[ca] \in Attempt /\ s \in Guid /\ r \in Guid
  BY DEF IInv, TypeOK, Attempt
<1>6. /\ DOMAIN attempts' = DOMAIN attempts
      /\ \A p \in DOMAIN attempts : /\ attempts'[p].sender = attempts[p].sender
                                    /\ attempts'[p].recipient = attempts[p].recipient
      /\ attempts' \in [DOMAIN attempts' -> Attempt]
  <2>1. DOMAIN attempts' = DOMAIN attempts
    BY <1>4
  <2>2. ASSUME NEW p \in DOMAIN attempts
        PROVE  /\ attempts'[p].sender = attempts[p].sender
               /\ attempts'[p].recipient = attempts[p].recipient
               /\ attempts'[p] \in Attempt
    <3>1. attempts[p] \in Attempt
      BY DEF IInv, TypeOK
    <3>2. CASE p = ca
      BY <1>4, <3>1, <3>2 DEF Attempt
    <3>3. CASE p # ca
      BY <1>4, <3>1, <3>3
    <3>. QED BY <3>2, <3>3
  <2>. QED BY <1>4, <2>1, <2>2
<1> HIDE DEF u
<1>7. TypeOK'
  <2>1. sent' \in Seq(Message)
    <3>1. ask(s, ca) \in Message /\ ask(r, ca) \in Message
      BY <1>5 DEF Message, Attempt
    <3>. QED BY <1>4, <3>1
  <2>2. isReady' \in [Guid -> BOOLEAN]
    BY <1>4, <1>5 DEF IInv, TypeOK
  <2>3. mostRecentPort' \in [Guid -> Port \cup {0}]
    BY <1>4, <1>5 DEF IInv, TypeOK
  <2>. QED BY <1>1, <1>3, <1>6, <2>1, <2>2, <2>3 DEF IInv, TypeOK
<1>8. AttemptsLinked' /\ OneAttemptPerPair' /\ NoSelfAttempt'
  BY <1>1, <1>6, LinksUnchanged
<1>9. StartsLiveUsers' /\ OneHandler'
  BY <1>1, <1>3 DEF IInv, StartsLiveUsers, OneHandler
<1>10. ReadyPairsAreHandled'
  <2> SUFFICES ASSUME NEW p \in DOMAIN attempts,
                      isReady'[attempts[p].sender], isReady'[attempts[p].recipient]
               PROVE  {attempts[p].sender, attempts[p].recipient} \cap ToSet(toStart') # {}
    BY <1>1, <1>6 DEF ReadyPairsAreHandled
  <2>1. attempts[p].sender \in Guid /\ attempts[p].recipient \in Guid
    BY DEF IInv, TypeOK, Attempt
  <2>2. /\ isReady[attempts[p].sender] /\ isReady[attempts[p].recipient]
        /\ attempts[p].sender \notin {s, r} /\ attempts[p].recipient \notin {s, r}
    BY <1>4, <1>5, <2>1 DEF IInv, TypeOK
  <2>3. {attempts[p].sender, attempts[p].recipient} \cap ToSet(toStart) # {}
    BY <1>1, <2>2 DEF IInv, ReadyPairsAreHandled
  <2>4. u \in {s, r}
    BY <1>4 DEF Involves
  <2>. QED BY <1>3, <2>2, <2>3, <2>4
<1>. QED BY <1>7, <1>8, <1>9, <1>10 DEF IInv

LEMMA NothingToStartInv ==
  ASSUME IInv, NothingToStart PROVE IInv'
<1> DEFINE u == Head(toStart)
<1>1. /\ closing = {} /\ toStart # <<>> /\ toStart' = Tail(toStart) /\ sent' = <<>>
      /\ isReady[u] => \A ca \in ToSet(connectionAttempts[u]) : ~isReady[OtherUser(ca, u)]
      /\ UNCHANGED <<users, isReady, mostRecentPort, connectionAttempts, attempts,
                     sessionId, closing, toVisit>>
  BY DEF NothingToStart
<1>2. toStart \in Seq(Guid)
  BY DEF IInv, TypeOK
<1>3. /\ toStart' \in Seq(Guid) /\ u \in Guid
      /\ ToSet(toStart) = ToSet(toStart') \cup {u}
  BY <1>1, <1>2, StartedFacts
<1> HIDE DEF u
<1>4. TypeOK'
  BY <1>1, <1>3 DEF IInv, TypeOK
<1>5. AttemptsLinked' /\ OneAttemptPerPair' /\ NoSelfAttempt'
  BY <1>1, LinksUnchanged
<1>6. StartsLiveUsers' /\ OneHandler'
  BY <1>1, <1>3 DEF IInv, StartsLiveUsers, OneHandler
<1>7. ReadyPairsAreHandled'
  <2> SUFFICES ASSUME NEW p \in DOMAIN attempts,
                      isReady[attempts[p].sender], isReady[attempts[p].recipient]
               PROVE  {attempts[p].sender, attempts[p].recipient} \cap ToSet(toStart') # {}
    BY <1>1 DEF ReadyPairsAreHandled
  <2>1. {attempts[p].sender, attempts[p].recipient} \cap ToSet(toStart) # {}
    BY <1>1 DEF IInv, ReadyPairsAreHandled
  <2>2. u \notin {attempts[p].sender, attempts[p].recipient}
    <3> SUFFICES ASSUME u \in {attempts[p].sender, attempts[p].recipient} PROVE FALSE
      OBVIOUS
    <3>1. isReady[u] /\ isReady[OtherUser(p, u)]
      BY DEF OtherUser
    <3>2. p \in ToSet(connectionAttempts[u])
      BY DEF IInv, AttemptsLinked
    <3>. QED BY <1>1, <3>1, <3>2
  <2>. QED BY <1>3, <2>1, <2>2
<1>. QED BY <1>4, <1>5, <1>6, <1>7 DEF IInv

LEMMA BecomesOverdueInv ==
  ASSUME IInv, NEW ca \in DOMAIN attempts, BecomesOverdue(ca) PROVE IInv'
<1>1. /\ attempts' = [attempts EXCEPT ![ca].overdue = TRUE] /\ sent' = <<>>
      /\ UNCHANGED <<users, isReady, mostRecentPort, connectionAttempts, sessionId,
                     closing, toVisit, toStart>>
  BY DEF BecomesOverdue, pcVars
<1>2. /\ DOMAIN attempts' = DOMAIN attempts
      /\ \A p \in DOMAIN attempts : /\ attempts'[p].sender = attempts[p].sender
                                    /\ attempts'[p].recipient = attempts[p].recipient
      /\ attempts' \in [DOMAIN attempts' -> Attempt]
  <2>1. ASSUME NEW p \in DOMAIN attempts
        PROVE  /\ attempts'[p].sender = attempts[p].sender
               /\ attempts'[p].recipient = attempts[p].recipient
               /\ attempts'[p] \in Attempt
    <3>1. attempts[p] \in Attempt
      BY DEF IInv, TypeOK
    <3>. QED BY <1>1, <3>1 DEF Attempt
  <2>. QED BY <1>1, <2>1
<1>3. TypeOK'
  BY <1>1, <1>2 DEF IInv, TypeOK
<1>4. AttemptsLinked' /\ OneAttemptPerPair' /\ NoSelfAttempt'
  BY <1>1, <1>2, LinksUnchanged
<1>5. StartsLiveUsers' /\ OneHandler' /\ ReadyPairsAreHandled'
  BY <1>1, <1>2 DEF IInv, StartsLiveUsers, OneHandler, ReadyPairsAreHandled
<1>. QED BY <1>3, <1>4, <1>5 DEF IInv

LEMMA UpdateInv ==
  ASSUME IInv, Update PROVE IInv'
<1>1. TypeOK'
  BY DEF IInv, TypeOK, Update
<1>2. AttemptsLinked' /\ OneAttemptPerPair' /\ NoSelfAttempt'
  BY LinksUnchanged DEF Update
<1>3. StartsLiveUsers' /\ OneHandler' /\ ReadyPairsAreHandled'
  BY DEF IInv, StartsLiveUsers, OneHandler, ReadyPairsAreHandled, Update, Idle
<1>. QED BY <1>1, <1>2, <1>3 DEF IInv

LEMMA VisitUserInv ==
  ASSUME IInv, VisitUser PROVE IInv'
<1>1. /\ toStart = <<>>
      /\ UNCHANGED <<users, mostRecentPort, sessionId, closing>>
  BY DEF VisitUser
<1> DEFINE list(u) == connectionAttempts[u]
           unresponsive(v, peer, ca) ==
             [to |-> v, id |-> "ID_NAT_TARGET_UNRESPONSIVE",
              peer |-> peer, session |-> attempts[ca].sessionId]
<1>2. PICK u \in toVisit :
        /\ toVisit' = toVisit \ {u}
        /\ \/ \E i \in 1 .. Len(list(u)) :
                LET r == attempts[list(u)[i]].recipient
                IN /\ FirstIn(i, list(u), OverdueFrom(u))
                   /\ sent' = << unresponsive(u, r, list(u)[i]),
                                 unresponsive(r, u, list(u)[i]) >>
                   /\ isReady' = [isReady EXCEPT ![u] = TRUE, ![r] = TRUE]
                   /\ Delete(list(u)[i])
                   /\ toStart' = <<u, r>>
           \/ /\ sent' = <<>>
              /\ UNCHANGED <<isReady, connectionAttempts, attempts, toStart>>
  BY DEF VisitUser
<1>3. u \in Guid /\ u \in users /\ closing = {}
  BY DEF IInv, TypeOK, OneHandler
<1>4. ASSUME sent' = <<>>, UNCHANGED <<isReady, connectionAttempts, attempts, toStart>>
      PROVE  IInv'
  <2>1. TypeOK'
    BY <1>1, <1>2, <1>4 DEF IInv, TypeOK
  <2>2. AttemptsLinked' /\ OneAttemptPerPair' /\ NoSelfAttempt'
    BY <1>1, <1>4, LinksUnchanged
  <2>3. StartsLiveUsers' /\ OneHandler' /\ ReadyPairsAreHandled'
    BY <1>1, <1>3, <1>4 DEF IInv, StartsLiveUsers, OneHandler, ReadyPairsAreHandled
  <2>. QED BY <2>1, <2>2, <2>3 DEF IInv
<1>5. ASSUME NEW i \in 1 .. Len(list(u)), NEW ca, NEW r, ca = list(u)[i],
             r = attempts[ca].recipient, FirstIn(i, list(u), OverdueFrom(u)),
             sent' = <<unresponsive(u, r, ca), unresponsive(r, u, ca)>>,
             isReady' = [isReady EXCEPT ![u] = TRUE, ![r] = TRUE],
             Delete(ca), toStart' = <<u, r>>
      PROVE  IInv'
  <2>1. ca \in DOMAIN attempts /\ attempts[ca] \in Attempt /\ attempts[ca].sender = u
    BY <1>5 DEF FirstIn, OverdueFrom, IInv, TypeOK
  <2>2. r \in Guid /\ r \in users
    BY <1>5, <2>1 DEF Attempt, IInv, AttemptsLinked
  <2>3. Unlinks(ca)
    BY <1>5, <2>1, DeleteUnlinks
  <2>4. /\ AttemptsLinked' /\ OneAttemptPerPair' /\ NoSelfAttempt'
        /\ DOMAIN attempts' = DOMAIN attempts \ {ca}
        /\ attempts' \in [DOMAIN attempts' -> Attempt]
        /\ \A p \in DOMAIN attempts' : attempts'[p] = attempts[p]
    BY <1>1, <2>1, <2>3, UnlinkedIsLinked
  <2>5. sent' \in Seq(Message)
    <3>1. unresponsive(u, r, ca) \in Message /\ unresponsive(r, u, ca) \in Message
      BY <1>3, <2>1, <2>2 DEF Message, Attempt
    <3> HIDE DEF unresponsive
    <3>. QED BY <1>5, <3>1
  <2>6. toStart' \in Seq(Guid) /\ ToSet(toStart') = {u, r} /\ ToSet(toStart) = {}
    BY <1>1, <1>3, <1>5, <2>2 DEF ToSet
  <2>7. TypeOK'
    <3>1. isReady' \in [Guid -> BOOLEAN]
      BY <1>3, <1>5, <2>2 DEF IInv, TypeOK
    <3>2. connectionAttempts' \in [Guid -> Seq(Ptr)]
      BY <2>3 DEF Unlinks
    <3>. QED BY <1>1, <1>2, <2>4, <2>5, <2>6, <3>1, <3>2 DEF IInv, TypeOK
  <2>8. StartsLiveUsers' /\ OneHandler'
    BY <1>1, <1>3, <2>2, <2>6 DEF StartsLiveUsers, OneHandler
  <2>9. ReadyPairsAreHandled'
    <3> SUFFICES ASSUME NEW p \in DOMAIN attempts',
                        isReady'[attempts[p].sender], isReady'[attempts[p].recipient],
                        attempts[p].sender \notin {u, r}, attempts[p].recipient \notin {u, r}
                 PROVE  FALSE
      BY <1>1, <1>3, <2>4, <2>6 DEF ReadyPairsAreHandled
    <3>1. p \in DOMAIN attempts /\ attempts[p].sender \in Guid /\ attempts[p].recipient \in Guid
      BY <2>4 DEF IInv, TypeOK, Attempt
    <3>2. isReady[attempts[p].sender] /\ isReady[attempts[p].recipient]
      BY <1>5, <3>1 DEF IInv, TypeOK
    <3>. QED BY <1>3, <2>6, <3>1, <3>2 DEF IInv, ReadyPairsAreHandled
  <2>. QED BY <2>4, <2>7, <2>8, <2>9 DEF IInv
<1>. QED BY <1>2, <1>4, <1>5

LEMMA NextInv ==
  ASSUME ~SelfRequests, IInv, [Next]_vars PROVE IInv'
<1>1. ASSUME NEW g \in Guid, OnNewConnection(g) PROVE IInv'
  BY <1>1, NewConnectionInv
<1>2. ASSUME NEW g \in Guid, OnClosedConnection(g) PROVE IInv'
  BY <1>2, ClosedConnectionInv
<1>3. ASSUME NEW g \in Guid, OnClientReady(g) PROVE IInv'
  BY <1>3, ClientReadyInv
<1>4. ASSUME NEW g \in Guid, NEW r \in Guid, OnNATPunchthroughRequest(g, r) PROVE IInv'
  <2>1. g # r
    BY <1>4 DEF OnNATPunchthroughRequest
  <2>. QED BY <1>4, <2>1, RequestInv
<1>5. ASSUME NEW g \in Guid, NEW s \in Session, NEW p \in Port,
             OnGetMostRecentPort(g, s, p)
      PROVE  IInv'
  BY <1>5, GetMostRecentPortInv
<1>6. ASSUME NEW ca \in DOMAIN attempts, BecomesOverdue(ca) PROVE IInv'
  BY <1>6, BecomesOverdueInv
<1>7. ASSUME Continue PROVE IInv'
  BY <1>7, LoseAttemptInv, RemoveUserInv, StartAttemptInv, NothingToStartInv,
     VisitUserInv DEF Continue
<1>8. ASSUME UNCHANGED vars PROVE IInv'
  <2>1. AttemptsLinked' /\ OneAttemptPerPair' /\ NoSelfAttempt'
    BY <1>8, LinksUnchanged DEF vars
  <2>2. TypeOK'
    BY <1>8 DEF vars, IInv, TypeOK
  <2>3. StartsLiveUsers' /\ OneHandler' /\ ReadyPairsAreHandled'
    BY <1>8 DEF vars, IInv, StartsLiveUsers, OneHandler, ReadyPairsAreHandled
  <2>. QED BY <2>1, <2>2, <2>3 DEF IInv
<1>. QED BY <1>1, <1>2, <1>3, <1>4, <1>5, <1>6, <1>7, <1>8, UpdateInv DEF Next

-----------------------------------------------------------------------------
(* Theorems *)

\* The invariant all the others follow from: whatever the clients send but
\* requests to oneself, and in whatever order, every handler of
\* NatPunchthroughServer.cpp keeps the two lists of an attempt in step, and
\* starts what it makes startable.
THEOREM Invariant == ~SelfRequests => (Spec => []IInv)
<1> SUFFICES ASSUME ~SelfRequests PROVE Spec => []IInv
  OBVIOUS
<1>1. Init => IInv
  BY InitInv
<1>2. IInv /\ [Next]_vars => IInv'
  BY NextInv
<1>. QED BY <1>1, <1>2, PTL DEF Spec

\* The variables keep their types: the session id stays in its range, only
\* connected users are visited, and every message is one a client knows.
THEOREM Types == ~SelfRequests => (Spec => []TypeOK)
<1>1. IInv => TypeOK
  BY DEF IInv
<1>. QED BY <1>1, Invariant, PTL

\* No handler leaves a freed ConnectionAttempt in a list, or a live one that
\* is missing from the list of one of its ends.
THEOREM Linked == ~SelfRequests => (Spec => []AttemptsLinked)
<1>1. IInv => AttemptsLinked
  BY DEF IInv
<1>. QED BY <1>1, Invariant, PTL

\* No two attempts are ever open between the same two users.
THEOREM OnePerPair == ~SelfRequests => (Spec => []OneAttemptPerPair)
<1>1. IInv => OneAttemptPerPair
  BY DEF IInv
<1>. QED BY <1>1, Invariant, PTL

\* Between handlers no attempt waits while both its ends are ready.
THEOREM NothingWaits == ~SelfRequests => (Spec => []NoAttemptLeftWaiting)
<1>1. IInv => NoAttemptLeftWaiting
  <2> SUFFICES ASSUME IInv, Idle, NEW ca \in DOMAIN attempts,
                      isReady[attempts[ca].sender], isReady[attempts[ca].recipient]
               PROVE  FALSE
    BY DEF NoAttemptLeftWaiting
  <2>1. ToSet(toStart) \cup closing = {}
    BY DEF Idle, ToSet
  <2>. QED BY <2>1 DEF IInv, ReadyPairsAreHandled
<1>. QED BY <1>1, Invariant, PTL

\* The body of EndsAreAnnounced.
Announces ==
  \A ca \in DOMAIN attempts \ DOMAIN attempts' :
    \A g \in {attempts[ca].sender, attempts[ca].recipient} \ closing :
      \E i \in 1 .. Len(sent') : /\ sent'[i].to = g
                                /\ sent'[i].session = attempts[ca].sessionId

LEMMA NextAnnounces ==
  ASSUME IInv, [Next]_vars PROVE Announces
<1>1. ASSUME DOMAIN attempts \subseteq DOMAIN attempts' PROVE Announces
  BY <1>1 DEF Announces
<1>2. ASSUME NEW ca \in DOMAIN attempts, NEW m1, NEW m2, sent' = <<m1, m2>>,
             DOMAIN attempts \ DOMAIN attempts' \subseteq {ca},
             m1.session = attempts[ca].sessionId, m2.session = attempts[ca].sessionId,
             {attempts[ca].sender, attempts[ca].recipient} \subseteq {m1.to, m2.to}
      PROVE  Announces
  <2>1. 1 \in 1 .. Len(sent') /\ 2 \in 1 .. Len(sent') /\ sent'[1] = m1 /\ sent'[2] = m2
    BY <1>2
  <2>. QED BY <1>2, <2>1 DEF Announces
<1>3. ASSUME LoseAttempt PROVE Announces
  <2>1. PICK g \in closing : connectionAttempts[g] # <<>>
    BY <1>3 DEF LoseAttempt
  <2> DEFINE ca == Head(connectionAttempts[g])
             other == OtherUser(ca, g)
             m == [to |-> other, id |-> "ID_NAT_CONNECTION_TO_TARGET_LOST",
                   peer |-> g, session |-> attempts[ca].sessionId]
  <2>2. ca \in DOMAIN attempts /\ Involves(ca, g) /\ Unlinks(ca)
    BY <1>3, <2>1, LoseAttemptUnlinks
  <2>3. sent' = <<m>>
    BY <1>3, <2>1 DEF LoseAttempt, IInv, OneHandler
  <2>4. {attempts[ca].sender, attempts[ca].recipient} = {g, other}
    BY <2>2 DEF Involves, OtherUser
  <2>5. 1 \in 1 .. Len(sent') /\ sent'[1].to = other
        /\ sent'[1].session = attempts[ca].sessionId
    BY <2>3
  <2> HIDE DEF ca, other, m
  <2>. QED BY <2>1, <2>2, <2>4, <2>5 DEF Unlinks, Announces
<1>4. ASSUME NEW g \in Guid, NEW s \in Session, NEW port \in Port,
             OnGetMostRecentPort(g, s, port)
      PROVE  Announces
  <2> DEFINE ports == [mostRecentPort EXCEPT ![g] = port]
             list == connectionAttempts[g]
  <2>1. ASSUME NEW i \in 1 .. Len(list), FirstIn(i, list, Answered(s, ports)),
               sent' = ConnectAtTime(list[i], ports), Delete(list[i])
        PROVE  Announces
    <3> DEFINE ca == list[i]
               a == attempts[ca]
               m1 == [to |-> a.recipient, id |-> "ID_NAT_CONNECT_AT_TIME",
                      session |-> a.sessionId, peer |-> a.sender,
                      port |-> ports[a.sender], weAreSender |-> FALSE]
               m2 == [to |-> a.sender, id |-> "ID_NAT_CONNECT_AT_TIME",
                      session |-> a.sessionId, peer |-> a.recipient,
                      port |-> ports[a.recipient], weAreSender |-> TRUE]
    <3>1. ca \in DOMAIN attempts
      BY <2>1 DEF FirstIn, Answered
    <3>2. DOMAIN attempts \ DOMAIN attempts' \subseteq {ca}
      BY <2>1 DEF Delete
    <3>3. sent' = <<m1, m2>>
      BY <2>1 DEF ConnectAtTime
    <3>. QED BY <1>2, <3>1, <3>2, <3>3
  <2>2. CASE attempts' = attempts
    BY <1>1, <2>2
  <2>. QED BY <1>4, <2>1, <2>2 DEF OnGetMostRecentPort
<1>5. ASSUME VisitUser PROVE Announces
  <2> DEFINE unresponsive(v, peer, ca) ==
               [to |-> v, id |-> "ID_NAT_TARGET_UNRESPONSIVE",
                peer |-> peer, session |-> attempts[ca].sessionId]
  <2>1. ASSUME NEW u \in toVisit, NEW ca, NEW r, r = attempts[ca].recipient,
               ca \in OverdueFrom(u), Delete(ca),
               sent' = << unresponsive(u, r, ca), unresponsive(r, u, ca) >>
        PROVE  Announces
    <3>1. ca \in DOMAIN attempts /\ attempts[ca].sender = u
      BY <2>1 DEF OverdueFrom
    <3>2. DOMAIN attempts \ DOMAIN attempts' \subseteq {ca}
      BY <2>1 DEF Delete
    <3>. QED BY <1>2, <2>1, <3>1, <3>2
  <2>2. CASE attempts' = attempts
    BY <1>1, <2>2
  <2>. QED BY <1>5, <2>1, <2>2 DEF VisitUser, FirstIn
<1>6. ASSUME NEW g \in Guid, NEW r \in Guid, OnNATPunchthroughRequest(g, r)
      PROVE  Announces
  <2>1. DOMAIN attempts \subseteq DOMAIN attempts'
    BY <1>6 DEF OnNATPunchthroughRequest, Refuse
  <2>. QED BY <1>1, <2>1
<1>7. ASSUME StartAttempt PROVE Announces
  <2>1. DOMAIN attempts \subseteq DOMAIN attempts'
    BY <1>7 DEF StartAttempt
  <2>. QED BY <1>1, <2>1
<1>8. ASSUME NEW ca \in DOMAIN attempts, BecomesOverdue(ca) PROVE Announces
  BY <1>1, <1>8 DEF BecomesOverdue
<1>9. ASSUME NEW g \in Guid,
             OnNewConnection(g) \/ OnClosedConnection(g) \/ OnClientReady(g)
      PROVE  Announces
  BY <1>1, <1>9 DEF OnNewConnection, OnClosedConnection, OnClientReady
<1>10. ASSUME RemoveUser \/ NothingToStart \/ Update \/ UNCHANGED vars
       PROVE  Announces
  BY <1>1, <1>10 DEF RemoveUser, NothingToStart, Update, vars
<1>. QED BY <1>3, <1>4, <1>5, <1>6, <1>7, <1>8, <1>9, <1>10 DEF Next, Continue

\* Whichever handler ends an attempt, an endpoint that is still connected is
\* sent a message with the session of that attempt.
THEOREM EndsAnnounced == ~SelfRequests => (Spec => EndsAreAnnounced)
<1> SUFFICES ASSUME ~SelfRequests PROVE Spec => EndsAreAnnounced
  OBVIOUS
<1>1. IInv /\ [Next]_vars => [Announces]_vars
  BY NextAnnounces
<1>2. EndsAreAnnounced <=> [][Announces]_vars
  BY DEF EndsAreAnnounced, Announces
<1>. QED BY <1>1, <1>2, Invariant, PTL DEF Spec

\* The body of NotReadyOnlyWhenAsked.
Asks ==
  \A g \in users \cap users' : isReady[g] /\ ~isReady'[g] =>
    \E i \in 1 .. Len(sent') : /\ sent'[i].to = g
                              /\ sent'[i].id = "ID_NAT_GET_MOST_RECENT_PORT"

LEMMA NextAsks ==
  ASSUME IInv, [Next]_vars PROVE Asks
<1> USE DEF IInv, TypeOK
<1>1. ASSUME UNCHANGED isReady PROVE Asks
  BY <1>1 DEF Asks
<1>2. ASSUME NEW g \in Guid, OnNewConnection(g) \/ OnClientReady(g) PROVE Asks
  BY <1>2 DEF OnNewConnection, OnClientReady, Asks
<1>3. ASSUME LoseAttempt PROVE Asks
  <2>1. ASSUME NEW h \in Guid, isReady[h] PROVE isReady'[h]
    BY <1>3, <2>1 DEF LoseAttempt, ReadyAfterLoss
  <2>. QED BY <2>1 DEF Asks
<1>4. ASSUME RemoveUser PROVE Asks
  BY <1>4 DEF RemoveUser, Asks
<1>5. ASSUME StartAttempt PROVE Asks
  <2> DEFINE ask(v, ca) == [to |-> v, id |-> "ID_NAT_GET_MOST_RECENT_PORT",
                            session |-> attempts[ca].sessionId]
  <2>1. PICK ca :
          /\ isReady' = [isReady EXCEPT ![attempts[ca].sender] = FALSE,
                                        ![attempts[ca].recipient] = FALSE]
          /\ sent' = << ask(attempts[ca].sender, ca), ask(attempts[ca].recipient, ca) >>
    BY <1>5 DEF StartAttempt, Engaged
  <2>2. \A h \in Guid : isReady[h] /\ ~isReady'[h] =>
          h = attempts[ca].sender \/ h = attempts[ca].recipient
    BY <2>1
  <2>3. /\ 1 \in 1 .. Len(sent') /\ sent'[1].to = attempts[ca].sender
        /\ 2 \in 1 .. Len(sent') /\ sent'[2].to = attempts[ca].recipient
        /\ sent'[1].id = "ID_NAT_GET_MOST_RECENT_PORT"
        /\ sent'[2].id = "ID_NAT_GET_MOST_RECENT_PORT"
    BY <2>1
  <2>. QED BY <2>2, <2>3 DEF Asks
<1>6. ASSUME VisitUser PROVE Asks
  BY <1>6 DEF VisitUser, Asks
<1>7. ASSUME NEW g \in Guid, NEW s \in Session, NEW p \in Port, OnGetMostRecentPort(g, s, p)
      PROVE  Asks
  BY <1>1, <1>7 DEF OnGetMostRecentPort
<1>8. ASSUME \/ \E ca \in DOMAIN attempts : BecomesOverdue(ca)
             \/ Update \/ NothingToStart \/ UNCHANGED vars
      PROVE  Asks
  BY <1>1, <1>8 DEF BecomesOverdue, Update, NothingToStart, vars
<1>9. ASSUME NEW g \in Guid, OnClosedConnection(g) PROVE Asks
  BY <1>1, <1>9 DEF OnClosedConnection
<1>10. ASSUME NEW g \in Guid, NEW r \in Guid, OnNATPunchthroughRequest(g, r) PROVE Asks
  BY <1>1, <1>10 DEF OnNATPunchthroughRequest
<1>. QED BY <1>2, <1>3, <1>4, <1>5, <1>6, <1>7, <1>8, <1>9, <1>10 DEF Next, Continue

\* A user that stays connected loses its readiness only in the step that asks
\* it for its port.
THEOREM NotReadyIsAsked == ~SelfRequests => (Spec => NotReadyOnlyWhenAsked)
<1> SUFFICES ASSUME ~SelfRequests PROVE Spec => NotReadyOnlyWhenAsked
  OBVIOUS
<1>1. IInv /\ [Next]_vars => [Asks]_vars
  BY NextAsks
<1>2. NotReadyOnlyWhenAsked <=> [][Asks]_vars
  BY DEF NotReadyOnlyWhenAsked, Asks
<1>. QED BY <1>1, <1>2, Invariant, PTL DEF Spec

=============================================================================
