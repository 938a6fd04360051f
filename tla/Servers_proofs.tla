--------------------------- MODULE Servers_proofs ---------------------------
(***************************************************************************)
(* What holds of RelayPlugin for any number of systems, names and groups,  *)
(* and of CloudServer for any number of servers, clients and keys, in      *)
(* whichever order they come and go.  The two have no state in common:     *)
(* first the relay, then the cloud.                                        *)
(***************************************************************************)
EXTENDS Servers, TLAPS, FiniteSetTheorems, WellFoundedInduction

-----------------------------------------------------------------------------
(* Induction, without a parameter that is an operator *)

\* A set of numbers has a least one.
LEMMA LeastNumber ==
  ASSUME NEW S, S \subseteq Nat, S # {} PROVE \E x \in S : \A y \in S : x <= y
<1> DEFINE R == {ss \in Nat \X Nat : ss[1] < ss[2]}
<1>1. OpToRel(<, Nat) = R
  BY Zenon DEF OpToRel
<1>2. IsWellFoundedOn(R, Nat)
  BY <1>1, NatLessThanWellFounded
<1>3. \A x, y \in Nat : y < x => <<y, x>> \in R
  OBVIOUS
<1> HIDE DEF R
<1>4. PICK x \in S : \A y \in S : <<y, x>> \notin R
  BY <1>2, WFMin
<1>5. \A y \in S : ~(y < x) /\ y \in Nat /\ x \in Nat
  BY <1>3, <1>4
<1>. QED BY <1>5

\* So a property of the numbers up to N, given by the set of those that have it,
\* holds of all if it passes from each to the next.
LEMMA InductionUpTo ==
  ASSUME NEW N \in Nat, NEW K, 0 \in K, \A n \in 1 .. N : n - 1 \in K => n \in K
  PROVE  \A n \in 0 .. N : n \in K
<1> DEFINE S == {n \in 0 .. N : n \notin K}
<1>. SUFFICES ASSUME S # {} PROVE FALSE
  OBVIOUS
<1>1. S \subseteq Nat
  OBVIOUS
<1>2. PICK x \in S : \A y \in S : x <= y
  <2> HIDE DEF S
  <2>. QED BY <1>1, LeastNumber
<1>3. x \in 1 .. N /\ x - 1 \in 0 .. N /\ x - 1 \notin S
  BY <1>2
<1>. QED BY <1>3

-----------------------------------------------------------------------------
(* LeaveGroup *)

\* The loop leaves users of the list, each no more often than it was there.
Among(list, users) ==
  \E at \in [1 .. Len(list) -> 1 .. Len(users)] :
    /\ \A i \in 1 .. Len(list) : list[i] = users[at[i]]
    /\ \A i, j \in 1 .. Len(list) : at[i] = at[j] => i = j

\* No two entries are of g.
Once(users, g) ==
  \A i, j \in 1 .. Len(users) : users[i].guid = g /\ users[j].guid = g => i = j

LEMMA AmongItself ==
  ASSUME NEW users \in Seq(StrAndGuid) PROVE Among(users, users)
<1> DEFINE at == [i \in 1 .. Len(users) |-> i]
<1>1. /\ at \in [1 .. Len(users) -> 1 .. Len(users)]
      /\ \A i \in 1 .. Len(users) : users[i] = users[at[i]]
      /\ \A i, j \in 1 .. Len(users) : at[i] = at[j] => i = j
  OBVIOUS
<1> HIDE DEF at
<1>. QED BY <1>1 DEF Among

LEMMA AmongIsTransitive ==
  ASSUME NEW a, NEW b, NEW c, Among(a, b), Among(b, c) PROVE Among(a, c)
<1>1. PICK at \in [1 .. Len(a) -> 1 .. Len(b)] :
        /\ \A i \in 1 .. Len(a) : a[i] = b[at[i]]
        /\ \A i, j \in 1 .. Len(a) : at[i] = at[j] => i = j
  BY DEF Among
<1>2. PICK bt \in [1 .. Len(b) -> 1 .. Len(c)] :
        /\ \A i \in 1 .. Len(b) : b[i] = c[bt[i]]
        /\ \A i, j \in 1 .. Len(b) : bt[i] = bt[j] => i = j
  BY DEF Among
<1> DEFINE ct == [i \in 1 .. Len(a) |-> bt[at[i]]]
<1> DEFINE A == 1 .. Len(a)
           B == 1 .. Len(b)
           C == 1 .. Len(c)
<1>3. /\ at \in [A -> B] /\ bt \in [B -> C]
      /\ \A i \in A : a[i] = b[at[i]]
      /\ \A i \in B : b[i] = c[bt[i]]
      /\ \A i, j \in A : at[i] = at[j] => i = j
      /\ \A i, j \in B : bt[i] = bt[j] => i = j
  BY <1>1, <1>2
<1>4. ct = [i \in A |-> bt[at[i]]]
  OBVIOUS
<1> HIDE DEF A, B, C, ct
<1>5. \A i \in A : at[i] \in B /\ ct[i] = bt[at[i]] /\ ct[i] \in C
  BY <1>3, <1>4
<1>6. ct \in [A -> C]
  BY <1>3, <1>4
<1>7. \A i \in A : a[i] = c[ct[i]]
  BY <1>3, <1>5
<1>8. \A i, j \in A : ct[i] = ct[j] => i = j
  BY <1>3, <1>5
<1>. QED BY <1>6, <1>7, <1>8 DEF Among, A, C

\* So what is true of each user, and what is there once, stays so.
LEMMA AmongFacts ==
  ASSUME NEW list, NEW users, Among(list, users)
  PROVE  /\ \A i \in 1 .. Len(list) : \E j \in 1 .. Len(users) : list[i] = users[j]
         /\ \A g : Once(users, g) => Once(list, g)
<1>1. PICK at \in [1 .. Len(list) -> 1 .. Len(users)] :
        /\ \A i \in 1 .. Len(list) : list[i] = users[at[i]]
        /\ \A i, j \in 1 .. Len(list) : at[i] = at[j] => i = j
  BY DEF Among
<1>2. ASSUME NEW g, Once(users, g), NEW i \in 1 .. Len(list), NEW j \in 1 .. Len(list),
             list[i].guid = g, list[j].guid = g
      PROVE  i = j
  <2>1. /\ at[i] \in 1 .. Len(users) /\ users[at[i]].guid = g
        /\ at[j] \in 1 .. Len(users) /\ users[at[j]].guid = g
    BY <1>1, <1>2
  <2>2. at[i] = at[j]
    BY <1>2, <2>1 DEF Once
  <2>. QED BY <1>1, <2>2
<1>3. \A g : Once(users, g) => Once(list, g)
  BY Zenon, <1>2 DEF Once
<1>4. \A i \in 1 .. Len(list) : at[i] \in 1 .. Len(users)
  BY <1>1
<1>. QED BY <1>1, <1>3, <1>4

LEMMA SweptIsAmong ==
  ASSUME NEW list \in Seq(StrAndGuid), NEW n \in Nat \ {0}, NEW g
  PROVE  /\ Swept(list, n, g) \in Seq(StrAndGuid)
         /\ Among(Swept(list, n, g), list)
         /\ Len(Swept(list, n, g)) <= Len(list)
<1> DEFINE last == Len(list)
           s == [i \in 1 .. last - 1 |-> IF i = n THEN list[last] ELSE list[i]]
           at == [i \in 1 .. last - 1 |-> IF i = n THEN last ELSE i]
<1>1. last \in Nat /\ \A i \in 1 .. last : list[i] \in StrAndGuid
  OBVIOUS
<1>2. CASE n <= last /\ list[n].guid = g
  <2>1. Swept(list, n, g) = s
    BY <1>2 DEF Swept
  <2>2. last - 1 \in Nat /\ last \in 1 .. last
    BY <1>1, <1>2
  <2>3. \A i \in 1 .. last - 1 : s[i] \in StrAndGuid
    BY <1>1, <2>2
  <2>4. s \in Seq(StrAndGuid) /\ Len(s) = last - 1
    BY <2>2, <2>3
  <2>5. /\ at \in [1 .. last - 1 -> 1 .. last]
        /\ \A i \in 1 .. last - 1 : s[i] = list[at[i]]
        /\ \A i, j \in 1 .. last - 1 : at[i] = at[j] => i = j
    BY <2>2
  <2> HIDE DEF s, at
  <2>6. Among(s, list) /\ Len(s) <= last
    BY <2>2, <2>4, <2>5 DEF Among
  <2>. QED BY <2>1, <2>4, <2>6
<1>3. CASE ~(n <= last /\ list[n].guid = g)
  <2>1. Swept(list, n, g) = list
    BY <1>3 DEF Swept
  <2>. QED BY <1>1, <2>1, AmongItself
<1>. QED BY <1>2, <1>3

\* After n turns no entry of g is among the first n.
LEMMA SweptIsBehind ==
  ASSUME NEW list \in Seq(StrAndGuid), NEW n \in Nat \ {0}, NEW g, Once(list, g),
         \A i \in 1 .. Len(list) : list[i].guid = g => i > n - 1
  PROVE  LET s == Swept(list, n, g) IN \A i \in 1 .. Len(s) : s[i].guid = g => i > n
<1> DEFINE last == Len(list)
           s == [i \in 1 .. last - 1 |-> IF i = n THEN list[last] ELSE list[i]]
<1>1. last \in Nat
  OBVIOUS
<1>2. CASE n <= last /\ list[n].guid = g
  <2>1. Swept(list, n, g) = s /\ last - 1 \in Nat
    BY <1>1, <1>2 DEF Swept
  <2>2. Len(s) = last - 1
    BY <2>1
  <2>3. \A i \in 1 .. last : i # n => list[i].guid # g
    BY <1>1, <1>2 DEF Once
  <2>4. \A i \in 1 .. last - 1 : s[i].guid # g
    BY <1>1, <2>1, <2>3
  <2>. QED BY <2>1, <2>2, <2>4
<1>3. CASE ~(n <= last /\ list[n].guid = g)
  <2>1. Swept(list, n, g) = list
    BY <1>3 DEF Swept
  <2>2. \A i \in 1 .. last : list[i].guid = g => i > n
    BY <1>1, <1>3
  <2>. QED BY <2>1, <2>2
<1>. QED BY <1>2, <1>3

\* The loop ends: the function it is written with exists.
Sweeps(f, users, g, n) ==
  f = [k \in 0 .. n |-> IF k = 0 THEN users ELSE Swept(f[k - 1], k, g)]

LEMMA SweepExists ==
  ASSUME NEW users, NEW g, NEW N \in Nat PROVE \E f : Sweeps(f, users, g, N)
<1> DEFINE K == {n \in 0 .. N : \E f : Sweeps(f, users, g, n)}
<1>1. 0 \in K
  <2> DEFINE f == [k \in 0 .. 0 |-> users]
  <2>1. f = [k \in 0 .. 0 |-> IF k = 0 THEN users ELSE Swept(f[k - 1], k, g)]
    OBVIOUS
  <2> HIDE DEF f
  <2>. QED BY <2>1 DEF Sweeps
<1>2. ASSUME NEW n \in 1 .. N, n - 1 \in K PROVE n \in K
  <2>1. PICK f : Sweeps(f, users, g, n - 1)
    BY <1>2
  <2> DEFINE h == [k \in 0 .. n |-> IF k < n THEN f[k] ELSE Swept(f[n - 1], n, g)]
  <2>2. ASSUME NEW k \in 0 .. n
        PROVE  h[k] = IF k = 0 THEN users ELSE Swept(h[k - 1], k, g)
    <3>1. CASE k = n
      BY <3>1
    <3>2. CASE k # n
      <4>1. k \in 0 .. n - 1 /\ h[k] = f[k] /\ (k # 0 => k - 1 \in 0 .. n /\ h[k - 1] = f[k - 1])
        BY <3>2
      <4> HIDE DEF h
      <4>2. f[k] = IF k = 0 THEN users ELSE Swept(f[k - 1], k, g)
        BY <2>1, <4>1 DEF Sweeps
      <4>. QED BY <4>1, <4>2
    <3>. QED BY <3>1, <3>2
  <2>3. h = [k \in 0 .. n |-> h[k]]
    OBVIOUS
  <2> HIDE DEF h
  <2>4. Sweeps(h, users, g, n)
    BY <2>2, <2>3 DEF Sweeps
  <2>. QED BY <2>4
<1> HIDE DEF K
<1>3. N \in K
  BY <1>1, <1>2, InductionUpTo
<1>. QED BY <1>3 DEF K

LEMMA SweepOf ==
  ASSUME NEW users \in Seq(StrAndGuid), NEW g
  PROVE  \E f : /\ Sweeps(f, users, g, Len(users))
                /\ RemoveUserEntries(users, g) = f[Len(users)]
<1>1. \E f : Sweeps(f, users, g, Len(users))
  <2>1. Len(users) \in Nat
    OBVIOUS
  <2>. QED BY <2>1, SweepExists
<1> DEFINE sweep[n \in 0 .. Len(users)] == IF n = 0 THEN users ELSE Swept(sweep[n - 1], n, g)
<1>2. RemoveUserEntries(users, g) = sweep[Len(users)]
  BY DEF RemoveUserEntries
<1>3. \E f : f = [k \in 0 .. Len(users) |-> IF k = 0 THEN users ELSE Swept(f[k - 1], k, g)]
  BY <1>1, Zenon DEF Sweeps
<1>4. sweep = [n \in 0 .. Len(users) |-> IF n = 0 THEN users ELSE Swept(sweep[n - 1], n, g)]
  BY <1>3 DEF sweep
<1> HIDE DEF sweep
<1>. QED BY <1>2, <1>4 DEF Sweeps

\* What LeaveGroup leaves of the users of a group: those that were there, and not
\* g, if it was there once.
LEMMA RemoveUserEntriesFacts ==
  ASSUME NEW users \in Seq(StrAndGuid), NEW g
  PROVE  LET left == RemoveUserEntries(users, g)
         IN /\ left \in Seq(StrAndGuid)
            /\ Among(left, users)
            /\ Once(users, g) => \A i \in 1 .. Len(left) : left[i].guid # g
<1> DEFINE N == Len(users)
           left == RemoveUserEntries(users, g)
<1>1. PICK f : Sweeps(f, users, g, N) /\ left = f[N]
  BY SweepOf
<1> DEFINE Good(n) == /\ f[n] \in Seq(StrAndGuid) /\ Among(f[n], users) /\ Len(f[n]) <= N
                      /\ Once(users, g) => \A i \in 1 .. Len(f[n]) : f[n][i].guid = g => i > n
           K == {n \in 0 .. N : Good(n)}
<1> HIDE DEF left
<1>2. N \in Nat
  OBVIOUS
<1> HIDE DEF N
<1>3. 0 \in K
  <2>1. f[0] = users
    BY <1>1, <1>2 DEF Sweeps
  <2>. QED BY <1>2, <2>1, AmongItself DEF N
<1>4. ASSUME NEW n \in 1 .. N, n - 1 \in K PROVE n \in K
  <2> DEFINE list == f[n - 1]
  <2>1. f[n] = Swept(list, n, g)
    BY <1>1, <1>2 DEF Sweeps
  <2>2. /\ list \in Seq(StrAndGuid) /\ Among(list, users) /\ Len(list) <= N
        /\ Once(users, g) => \A i \in 1 .. Len(list) : list[i].guid = g => i > n - 1
    BY <1>4
  <2> HIDE DEF list
  <2>3. /\ f[n] \in Seq(StrAndGuid) /\ Among(f[n], list) /\ Len(f[n]) <= Len(list)
    BY <2>1, <2>2, SweptIsAmong
  <2>4. Among(f[n], users) /\ Len(f[n]) <= N
    <3>1. Len(f[n]) \in Nat /\ Len(list) \in Nat
      BY <2>2, <2>3
    <3>. QED BY <1>2, <2>2, <2>3, <3>1, AmongIsTransitive
  <2>5. Once(users, g) => \A i \in 1 .. Len(f[n]) : f[n][i].guid = g => i > n
    <3>1. Once(users, g) => Once(list, g)
      BY <2>2, AmongFacts
    <3>. QED BY <2>1, <2>2, <3>1, SweptIsBehind
  <2>. QED BY <1>2, <2>3, <2>4, <2>5
<1> HIDE DEF K, Good
<1>5. \A n \in 0 .. N : n \in K
  BY <1>2, <1>3, <1>4, InductionUpTo
<1>6. Good(N)
  BY <1>2, <1>5 DEF K
<1> USE DEF Good
<1>7. Once(users, g) => \A i \in 1 .. Len(left) : left[i].guid # g
  <2>1. Len(left) \in Nat /\ Len(left) <= N
    BY <1>1, <1>6
  <2>. QED BY <1>1, <1>2, <1>6, <2>1
<1>. QED BY <1>1, <1>6, <1>7 DEF left

-----------------------------------------------------------------------------
(* Rooms *)

\* The entries of the rooms are those of participants, as UsersAreParticipants
\* has it, for given rooms and entries.
UserIsParticipant(rooms, entries, r, i) ==
  LET u == rooms[r][i]
  IN /\ u.guid \in DOMAIN entries
     /\ entries[u.guid] = [str |-> u.str, currentRoom |-> r]
     /\ Once(rooms[r], u.guid)

UsersAgree(rooms, entries, except) ==
  \A r \in DOMAIN rooms : \A i \in 1 .. Len(rooms[r]) :
    rooms[r][i].guid \notin except => UserIsParticipant(rooms, entries, r, i)

RoomsTyped(rooms) ==
  rooms \in [DOMAIN rooms -> Seq(StrAndGuid)] /\ DOMAIN rooms \subseteq Group

LEMMA UsersAreParticipantsMeans ==
  ASSUME RoomsTyped(chatRooms)
  PROVE  UsersAreParticipants <=> UsersAgree(chatRooms, guidToStrHash, renamed)
<1>1. \A r \in DOMAIN chatRooms : DOMAIN chatRooms[r] = 1 .. Len(chatRooms[r])
  BY DEF RoomsTyped
<1>2. ASSUME NEW r \in DOMAIN chatRooms, NEW i \in 1 .. Len(chatRooms[r])
      PROVE  Once(chatRooms[r], chatRooms[r][i].guid) <=>
               \A j \in 1 .. Len(chatRooms[r]) : chatRooms[r][j].guid = chatRooms[r][i].guid => i = j
  BY DEF Once
<1>. QED BY <1>1, <1>2
         DEF UsersAreParticipants, UsersAgree, UserIsParticipant, Registered

\* When g has left its group, it is nowhere, and all others are where they were.
LEMMA LeavingKeepsUsers ==
  ASSUME RelayIInv, NEW g \in Registered
  PROVE  LET rooms == RoomsAfterLeaving(g)
         IN /\ RoomsTyped(rooms)
            /\ UsersAgree(rooms, guidToStrHash, renamed)
            /\ g \notin renamed =>
                 \A r \in DOMAIN rooms : \A i \in 1 .. Len(rooms[r]) : rooms[r][i].guid # g
<1> DEFINE room == RoomOf(g)
           users == chatRooms[room]
           left == RemoveUserEntries(users, g)
           rooms == RoomsAfterLeaving(g)
<1>1. RoomsTyped(chatRooms) /\ UsersAgree(chatRooms, guidToStrHash, renamed)
  BY UsersAreParticipantsMeans DEF RelayIInv, EntriesTyped, RelayEntriesAgree, RoomsTyped
<1>2. \A r \in DOMAIN chatRooms : \A i \in 1 .. Len(chatRooms[r]) :
        chatRooms[r][i].guid = g /\ g \notin renamed => r = room
  <2>. SUFFICES ASSUME NEW r \in DOMAIN chatRooms, NEW i \in 1 .. Len(chatRooms[r]),
                       chatRooms[r][i].guid = g, g \notin renamed
                PROVE  RoomOf(g) = r
    OBVIOUS
  <2>1. UserIsParticipant(chatRooms, guidToStrHash, r, i)
    BY <1>1 DEF UsersAgree
  <2>2. guidToStrHash[g] = [str |-> chatRooms[r][i].str, currentRoom |-> r]
    BY <2>1 DEF UserIsParticipant
  <2>. QED BY <2>2 DEF RoomOf
<1>3. CASE room \notin DOMAIN chatRooms
  <2>1. rooms = chatRooms
    BY <1>3 DEF RoomsAfterLeaving
  <2>. QED BY <1>1, <1>2, <1>3, <2>1
<1>4. CASE room \in DOMAIN chatRooms
  <2>1. users \in Seq(StrAndGuid) /\ rooms = WithUsers(chatRooms, room, left)
    BY <1>1, <1>4 DEF RoomsTyped, RoomsAfterLeaving, UsersOf
  <2>2. /\ left \in Seq(StrAndGuid) /\ Among(left, users)
        /\ Once(users, g) => \A i \in 1 .. Len(left) : left[i].guid # g
    BY <2>1, RemoveUserEntriesFacts
  <2>3. g \notin renamed => Once(users, g)
    BY <1>1, <1>4 DEF UsersAgree, UserIsParticipant, Once
  <2> HIDE DEF left, rooms
  <2>4. /\ DOMAIN rooms \subseteq DOMAIN chatRooms
        /\ rooms = [r \in DOMAIN rooms |-> IF r = room THEN left ELSE chatRooms[r]]
    <3>1. CASE left = <<>>
      BY <2>1, <3>1 DEF WithUsers, WithoutKeys
    <3>2. CASE left # <<>>
      BY <1>4, <2>1, <3>2 DEF WithUsers, WithKey
    <3>. QED BY <3>1, <3>2
  <2>5. RoomsTyped(rooms)
    BY <1>1, <2>2, <2>4 DEF RoomsTyped
  <2>6. ASSUME NEW r \in DOMAIN rooms, NEW i \in 1 .. Len(rooms[r])
        PROVE  /\ rooms[r][i].guid \notin renamed
                    => UserIsParticipant(rooms, guidToStrHash, r, i)
               /\ g \notin renamed => rooms[r][i].guid # g
    <3>1. CASE r # room
      BY <1>1, <1>2, <2>4, <2>6, <3>1 DEF UsersAgree, UserIsParticipant
    <3>2. CASE r = room
      <4>1. rooms[r] = left
        BY <2>4, <3>2
      <4>2. PICK j \in 1 .. Len(users) : left[i] = users[j]
        BY <2>2, <2>6, <4>1, AmongFacts
      <4>3. users[j].guid \notin renamed => UserIsParticipant(chatRooms, guidToStrHash, room, j)
        BY <1>1, <1>4 DEF UsersAgree
      <4>4. Once(users, users[j].guid) => Once(left, left[i].guid)
        BY <2>2, <4>2, AmongFacts
      <4>. QED BY <2>2, <2>3, <2>6, <3>2, <4>1, <4>2, <4>3, <4>4 DEF UserIsParticipant
    <3>. QED BY <3>1, <3>2
  <2>7. UsersAgree(rooms, guidToStrHash, renamed)
    BY <2>6 DEF UsersAgree
  <2>. QED BY <2>5, <2>6, <2>7 DEF rooms
<1>. QED BY <1>3, <1>4

\* The entry of a system that is in no group may change.
LEMMA OtherEntriesMayChange ==
  ASSUME NEW rooms, NEW entries, NEW new, NEW g, NEW except,
         UsersAgree(rooms, entries, except),
         g \in except
           \/ \A r \in DOMAIN rooms : \A i \in 1 .. Len(rooms[r]) : rooms[r][i].guid # g,
         \A h \in DOMAIN entries : h # g => h \in DOMAIN new /\ new[h] = entries[h]
  PROVE  UsersAgree(rooms, new, except)
BY DEF UsersAgree, UserIsParticipant

-----------------------------------------------------------------------------
(* One step *)

\* The parts of the invariant, with the rooms as UsersAgree has them.
LEMMA RelayIInvMeans ==
  RelayIInv <=> /\ EntriesTyped /\ IndicesAgree /\ ParticipantsWereConnected
                /\ UsersAgree(chatRooms, guidToStrHash, renamed)
<1>1. EntriesTyped => RoomsTyped(chatRooms)
  BY DEF EntriesTyped, RoomsTyped
<1>. QED BY <1>1, UsersAreParticipantsMeans DEF RelayIInv, RelayEntriesAgree

LEMMA RelayIInvMeansNext ==
  ASSUME EntriesTyped', IndicesAgree', ParticipantsWereConnected',
         UsersAgree(chatRooms', guidToStrHash', renamed')
  PROVE  RelayIInv'
<1>1. UsersAgree(chatRooms, guidToStrHash, renamed)'
  BY DEF UsersAgree, UserIsParticipant, Once
<1>. QED BY <1>1, RelayIInvMeans, PTL

LEMMA RemoveKeeps ==
  ASSUME RelayIInv, NEW g \in Member, RemoveParticipantOnServer(g),
         UNCHANGED <<online, renamed>>, unheard' \in {unheard, unheard \ {g}}
  PROVE  RelayIInv'
<1>1. /\ EntriesTyped /\ IndicesAgree /\ ParticipantsWereConnected
      /\ UsersAgree(chatRooms, guidToStrHash, renamed)
  BY RelayIInvMeans
<1>2. CASE g \notin Registered
  <2>1. UNCHANGED <<chatRooms, guidToStrHash, strToGuidHash>>
    BY <1>2 DEF RemoveParticipantOnServer
  <2>2. EntriesTyped' /\ IndicesAgree' /\ ParticipantsWereConnected'
    BY <1>1, <1>2, <2>1
       DEF EntriesTyped, IndicesAgree, ParticipantsWereConnected, Registered
  <2>. QED BY <1>1, <2>1, <2>2, RelayIInvMeansNext
<1>3. CASE g \in Registered
  <2> DEFINE name == guidToStrHash[g].str
  <2>1. /\ chatRooms' = RoomsAfterLeaving(g)
        /\ guidToStrHash' = WithoutKeys(guidToStrHash, {g})
        /\ strToGuidHash' = WithoutKeys(strToGuidHash, {name})
    BY <1>3 DEF RemoveParticipantOnServer
  <2>2. /\ RoomsTyped(RoomsAfterLeaving(g))
        /\ UsersAgree(RoomsAfterLeaving(g), guidToStrHash, renamed)
        /\ g \notin renamed => \A r \in DOMAIN RoomsAfterLeaving(g) :
             \A i \in 1 .. Len(RoomsAfterLeaving(g)[r]) : RoomsAfterLeaving(g)[r][i].guid # g
    BY <1>3, LeavingKeepsUsers
  <2>3. /\ DOMAIN guidToStrHash' = Registered \ {g}
        /\ \A h \in Registered \ {g} : guidToStrHash'[h] = guidToStrHash[h]
        /\ guidToStrHash' \in [DOMAIN guidToStrHash' -> StrAndGuidAndRoom]
    BY <1>1, <2>1 DEF WithoutKeys, Registered, EntriesTyped
  <2>4. /\ DOMAIN strToGuidHash' = DOMAIN strToGuidHash \ {name}
        /\ \A k \in DOMAIN strToGuidHash \ {name} : strToGuidHash'[k] = strToGuidHash[k]
        /\ strToGuidHash' \in [DOMAIN strToGuidHash' -> Member]
    BY <1>1, <2>1 DEF WithoutKeys, EntriesTyped
  <2>5. EntriesTyped'
    BY <1>1, <2>1, <2>2, <2>3, <2>4 DEF EntriesTyped, RoomsTyped, Registered
  <2>6. IndicesAgree'
    BY <1>1, <1>3, <2>3, <2>4 DEF IndicesAgree, Registered
  <2>7. ParticipantsWereConnected'
    BY <1>1, <2>3 DEF ParticipantsWereConnected, Registered
  <2>8. \A h \in DOMAIN guidToStrHash : h # g
          => h \in DOMAIN guidToStrHash' /\ guidToStrHash'[h] = guidToStrHash[h]
    BY <2>3 DEF Registered
  <2>9. UsersAgree(chatRooms', guidToStrHash', renamed')
    BY <2>1, <2>2, <2>8, OtherEntriesMayChange
  <2>. QED BY <2>5, <2>6, <2>7, <2>9, RelayIInvMeansNext
<1>. QED BY <1>2, <1>3

\* A system that is added keeps no entry in a room, but for one that was in it.
LEMMA AddKeeps ==
  ASSUME RelayIInv, NEW key \in Name, NEW g \in Member, NEW result,
         AddParticipantOnServer(key, g, result), UNCHANGED <<online, unheard, chatRooms>>
  PROVE  RelayIInv'
<1>1. /\ EntriesTyped /\ IndicesAgree /\ ParticipantsWereConnected
      /\ UsersAgree(chatRooms, guidToStrHash, renamed)
  BY RelayIInvMeans
<1>2. CASE UNCHANGED <<strToGuidHash, guidToStrHash, renamed>>
  <2>1. EntriesTyped' /\ IndicesAgree' /\ ParticipantsWereConnected'
    BY <1>1, <1>2 DEF EntriesTyped, IndicesAgree, ParticipantsWereConnected, Registered
  <2>. QED BY <1>1, <1>2, <2>1, RelayIInvMeansNext
<1>3. CASE /\ g \in online /\ key \notin DOMAIN strToGuidHash
           /\ strToGuidHash' = IndicesAfterAdding(g, key)
           /\ guidToStrHash' = WithKey(guidToStrHash, g, [str |-> key, currentRoom |-> NoGroup])
           /\ renamed' = renamed \cup (IF InGroup(g) THEN {g} ELSE {})
  <2> DEFINE new == [str |-> key, currentRoom |-> NoGroup]
             kept == {k \in DOMAIN strToGuidHash : strToGuidHash[k] # g}
  <2>1. new \in StrAndGuidAndRoom /\ new.str = key
    BY DEF StrAndGuidAndRoom
  <2> HIDE DEF new
  <2>2. /\ DOMAIN guidToStrHash' = Registered \cup {g} /\ guidToStrHash'[g] = new
        /\ \A h \in Registered : h # g => guidToStrHash'[h] = guidToStrHash[h]
        /\ guidToStrHash' \in [DOMAIN guidToStrHash' -> StrAndGuidAndRoom]
    BY <1>1, <1>3, <2>1 DEF WithKey, Registered, EntriesTyped, new
  <2>3. /\ DOMAIN strToGuidHash' = kept \cup {key} /\ strToGuidHash'[key] = g
        /\ \A k \in kept : strToGuidHash'[k] = strToGuidHash[k] /\ k # key
        /\ strToGuidHash' \in [DOMAIN strToGuidHash' -> Member]
    <3>1. CASE g \in Registered
      <4>1. kept = DOMAIN strToGuidHash \ {guidToStrHash[g].str}
        BY <1>1, <3>1 DEF IndicesAgree
      <4>. QED BY <1>1, <1>3, <3>1, <4>1
               DEF IndicesAfterAdding, WithKey, WithoutKeys, EntriesTyped
    <3>2. CASE g \notin Registered
      <4>1. kept = DOMAIN strToGuidHash
        BY <1>1, <3>2 DEF IndicesAgree
      <4>. QED BY <1>1, <1>3, <3>2, <4>1 DEF IndicesAfterAdding, WithKey, EntriesTyped
    <3>. QED BY <3>1, <3>2
  <2>4. EntriesTyped'
    BY <1>1, <2>2, <2>3 DEF EntriesTyped, Registered
  <2>5. IndicesAgree'
    BY <1>1, <2>1, <2>2, <2>3 DEF IndicesAgree, Registered
  <2>6. ParticipantsWereConnected'
    BY <1>1, <1>3, <2>2 DEF ParticipantsWereConnected, Registered
  <2>7. UsersAgree(chatRooms, guidToStrHash, renamed')
    BY <1>1, <1>3 DEF UsersAgree
  <2>8. \/ g \in renamed'
        \/ \A r \in DOMAIN chatRooms : \A i \in 1 .. Len(chatRooms[r]) : chatRooms[r][i].guid # g
    <3>. SUFFICES ASSUME g \notin renamed', NEW r \in DOMAIN chatRooms,
                         NEW i \in 1 .. Len(chatRooms[r]), chatRooms[r][i].guid = g
                  PROVE  FALSE
      OBVIOUS
    <3>1. UserIsParticipant(chatRooms, guidToStrHash, r, i)
      BY <2>7 DEF UsersAgree
    <3>2. g \in Registered /\ guidToStrHash[g] = [str |-> chatRooms[r][i].str, currentRoom |-> r]
      BY <3>1 DEF UserIsParticipant, Registered
    <3>3. RoomOf(g) = r /\ r # NoGroup
      BY <1>1, <3>2, NoGroupAssumption DEF RoomOf, EntriesTyped
    <3>. QED BY <1>3, <3>2, <3>3 DEF InGroup
  <2>9. \A h \in DOMAIN guidToStrHash : h # g
          => h \in DOMAIN guidToStrHash' /\ guidToStrHash'[h] = guidToStrHash[h]
    BY <2>2 DEF Registered
  <2>10. UsersAgree(chatRooms', guidToStrHash', renamed')
    BY <2>7, <2>8, <2>9, OtherEntriesMayChange
  <2>. QED BY <2>4, <2>5, <2>6, <2>10, RelayIInvMeansNext
<1>. QED BY <1>2, <1>3 DEF AddParticipantOnServer

\* The entry of a participant with another group.
LEMMA MovedEntry ==
  ASSUME RelayIInv, NEW g \in Registered, NEW room \in Group \cup {NoGroup},
         guidToStrHash' = [guidToStrHash EXCEPT ![g].currentRoom = room],
         UNCHANGED <<online, unheard, strToGuidHash>>
  PROVE  /\ guidToStrHash'[g] = [str |-> guidToStrHash[g].str, currentRoom |-> room]
         /\ Registered' = Registered
         /\ \A h \in Registered : h # g => guidToStrHash'[h] = guidToStrHash[h]
         /\ guidToStrHash' \in [Registered -> StrAndGuidAndRoom]
         /\ IndicesAgree' /\ ParticipantsWereConnected'
<1> DEFINE moved == [guidToStrHash[g] EXCEPT !.currentRoom = room]
<1>1. EntriesTyped /\ IndicesAgree /\ ParticipantsWereConnected
  BY RelayIInvMeans
<1>2. /\ guidToStrHash \in [Registered -> StrAndGuidAndRoom]
      /\ guidToStrHash[g] \in StrAndGuidAndRoom
      /\ guidToStrHash' = [guidToStrHash EXCEPT ![g] = moved]
  BY <1>1 DEF EntriesTyped
<1>3. /\ moved = [str |-> guidToStrHash[g].str, currentRoom |-> room]
      /\ moved \in StrAndGuidAndRoom /\ moved.str = guidToStrHash[g].str
  BY <1>2 DEF StrAndGuidAndRoom
<1> HIDE DEF moved
<1>4. /\ guidToStrHash' \in [Registered -> StrAndGuidAndRoom] /\ Registered' = Registered
      /\ guidToStrHash'[g] = moved
      /\ \A h \in Registered : h # g => guidToStrHash'[h] = guidToStrHash[h]
  BY <1>2, <1>3 DEF Registered
<1>5. IndicesAgree'
  <2>1. \A h \in Registered : guidToStrHash'[h].str = guidToStrHash[h].str
    BY <1>3, <1>4
  <2>. QED BY <1>1, <1>4, <2>1 DEF IndicesAgree
<1>6. ParticipantsWereConnected'
  BY <1>1, <1>4 DEF ParticipantsWereConnected
<1>. QED BY <1>3, <1>4, <1>5, <1>6

LEMMA AppendFacts ==
  ASSUME NEW users \in Seq(StrAndGuid), NEW new \in StrAndGuid
  PROVE  LET all == Append(users, new)
         IN /\ all \in Seq(StrAndGuid) /\ Len(all) = Len(users) + 1 /\ Len(users) \in Nat
            /\ \A i \in 1 .. Len(users) : all[i] = users[i]
            /\ all[Len(users) + 1] = new
            /\ \A i \in 1 .. Len(all) : i \in 1 .. Len(users) \/ i = Len(users) + 1
OBVIOUS

LEMMA JoinKeeps ==
  ASSUME RelayIInv, NEW g \in Registered, NEW room \in Group, JoinGroup(g, room),
         UNCHANGED <<online, unheard, strToGuidHash, renamed>>
  PROVE  RelayIInv'
<1> DEFINE left == RoomsAfterLeaving(g)
           users == IF room \in DOMAIN left THEN left[room] ELSE <<>>
           new == [str |-> guidToStrHash[g].str, guid |-> g]
           all == Append(users, new)
<1>1. /\ EntriesTyped /\ IndicesAgree /\ ParticipantsWereConnected
      /\ UsersAgree(chatRooms, guidToStrHash, renamed)
  BY RelayIInvMeans
<1>2. /\ chatRooms' = WithKey(left, room, all)
      /\ guidToStrHash' = [guidToStrHash EXCEPT ![g].currentRoom = room]
  BY Zenon DEF JoinGroup
<1>3. /\ guidToStrHash'[g] = [str |-> new.str, currentRoom |-> room]
      /\ Registered' = Registered
      /\ \A h \in Registered : h # g => guidToStrHash'[h] = guidToStrHash[h]
      /\ guidToStrHash' \in [Registered -> StrAndGuidAndRoom]
      /\ IndicesAgree' /\ ParticipantsWereConnected'
  BY <1>2, MovedEntry
<1>4. /\ RoomsTyped(left) /\ UsersAgree(left, guidToStrHash, renamed)
      /\ g \notin renamed =>
           \A r \in DOMAIN left : \A i \in 1 .. Len(left[r]) : left[r][i].guid # g
  BY LeavingKeepsUsers
<1>5. g \in Member /\ guidToStrHash[g] \in StrAndGuidAndRoom
  BY <1>1 DEF ParticipantsWereConnected, EntriesTyped
<1>6. new \in StrAndGuid /\ new.guid = g
  BY <1>5 DEF StrAndGuid, StrAndGuidAndRoom
<1> HIDE DEF left, new
<1>7. \A h \in DOMAIN guidToStrHash : h # g
        => h \in DOMAIN guidToStrHash' /\ guidToStrHash'[h] = guidToStrHash[h]
  BY <1>3 DEF Registered
<1>8. UsersAgree(left, guidToStrHash', renamed)
  BY <1>4, <1>7, OtherEntriesMayChange
<1>9. /\ users \in Seq(StrAndGuid)
      /\ room \in DOMAIN left => users = left[room]
      /\ room \notin DOMAIN left => Len(users) = 0
  BY <1>4 DEF RoomsTyped
<1> HIDE DEF users
<1>10. /\ all \in Seq(StrAndGuid) /\ Len(all) = Len(users) + 1 /\ Len(users) \in Nat
       /\ \A i \in 1 .. Len(users) : all[i] = users[i]
       /\ all[Len(users) + 1] = new
       /\ \A i \in 1 .. Len(all) : i \in 1 .. Len(users) \/ i = Len(users) + 1
  BY <1>6, <1>9, AppendFacts
<1> HIDE DEF all
<1>11. /\ DOMAIN chatRooms' = DOMAIN left \cup {room}
       /\ chatRooms' = [r \in DOMAIN left \cup {room} |-> IF r = room THEN all ELSE left[r]]
  BY <1>2 DEF WithKey
<1>12. EntriesTyped'
  <2>1. chatRooms' \in [DOMAIN chatRooms' -> Seq(StrAndGuid)] /\ DOMAIN chatRooms' \subseteq Group
    BY <1>4, <1>10, <1>11 DEF RoomsTyped
  <2>. QED BY <1>1, <1>3, <2>1 DEF EntriesTyped
<1>13. g \notin renamed => \A i \in 1 .. Len(users) : users[i].guid # g
  <2>1. CASE room \in DOMAIN left
    BY <1>4, <1>9, <2>1
  <2>2. CASE room \notin DOMAIN left
    BY <1>9, <2>2
  <2>. QED BY <2>1, <2>2
<1>14. ASSUME NEW r \in DOMAIN chatRooms', NEW i \in 1 .. Len(chatRooms'[r]),
              chatRooms'[r][i].guid \notin renamed
       PROVE  UserIsParticipant(chatRooms', guidToStrHash', r, i)
  <2>1. CASE r # room
    <3>1. r \in DOMAIN left /\ chatRooms'[r] = left[r]
      BY <1>11, <2>1
    <3>. QED BY <1>8, <1>14, <3>1 DEF UsersAgree, UserIsParticipant
  <2>2. CASE r = room
    <3>1. chatRooms'[r] = all
      BY <1>11, <2>2
    <3>2. CASE i \in 1 .. Len(users)
      <4>1. room \in DOMAIN left /\ users = left[room]
        BY <1>9, <3>2
      <4>2. UserIsParticipant(left, guidToStrHash', room, i) /\ all[i] = users[i]
        BY <1>8, <1>10, <1>14, <3>1, <3>2, <4>1 DEF UsersAgree
      <4>3. users[i].guid # g
        BY <1>10, <1>13, <1>14, <3>1, <3>2
      <4>4. Once(users, users[i].guid)
        BY <4>1, <4>2 DEF UserIsParticipant
      <4>5. Once(all, users[i].guid)
        BY <1>6, <1>10, <4>3, <4>4 DEF Once
      <4>. QED BY <2>2, <3>1, <4>1, <4>2, <4>5 DEF UserIsParticipant
    <3>3. CASE i = Len(users) + 1
      <4>1. all[i] = new /\ g \notin renamed
        BY <1>6, <1>10, <1>14, <3>1, <3>3
      <4>2. Once(all, g)
        BY <1>10, <1>13, <4>1 DEF Once
      <4>3. g \in DOMAIN guidToStrHash'
        BY <1>3 DEF Registered
      <4>. QED BY <1>3, <1>6, <2>2, <3>1, <4>1, <4>2, <4>3 DEF UserIsParticipant
    <3>. QED BY <1>10, <1>14, <3>1, <3>2, <3>3
  <2>. QED BY <2>1, <2>2
<1>15. UsersAgree(chatRooms', guidToStrHash', renamed')
  BY <1>14 DEF UsersAgree
<1>. QED BY <1>3, <1>12, <1>15, RelayIInvMeansNext

LEMMA LeaveKeeps ==
  ASSUME RelayIInv, NEW g \in Registered, chatRooms' = RoomsAfterLeaving(g),
         guidToStrHash' = [guidToStrHash EXCEPT ![g].currentRoom = NoGroup],
         UNCHANGED <<online, unheard, strToGuidHash, renamed>>
  PROVE  RelayIInv'
<1>1. /\ Registered' = Registered
      /\ \A h \in Registered : h # g => guidToStrHash'[h] = guidToStrHash[h]
      /\ guidToStrHash' \in [Registered -> StrAndGuidAndRoom]
      /\ IndicesAgree' /\ ParticipantsWereConnected'
  BY MovedEntry
<1>2. /\ RoomsTyped(RoomsAfterLeaving(g)) /\ UsersAgree(RoomsAfterLeaving(g), guidToStrHash, renamed)
      /\ g \notin renamed => \A r \in DOMAIN RoomsAfterLeaving(g) :
           \A i \in 1 .. Len(RoomsAfterLeaving(g)[r]) : RoomsAfterLeaving(g)[r][i].guid # g
  BY LeavingKeepsUsers
<1>3. \A h \in DOMAIN guidToStrHash : h # g
        => h \in DOMAIN guidToStrHash' /\ guidToStrHash'[h] = guidToStrHash[h]
  BY <1>1 DEF Registered
<1>4. UsersAgree(chatRooms', guidToStrHash', renamed')
  BY <1>2, <1>3, OtherEntriesMayChange
<1>5. EntriesTyped'
  BY <1>1, <1>2 DEF EntriesTyped, RoomsTyped, RelayIInv
<1>. QED BY <1>1, <1>4, <1>5, RelayIInvMeansNext

\* Connections come and go, and messages are relayed.
LEMMA EntriesKept ==
  ASSUME RelayIInv, UNCHANGED <<strToGuidHash, guidToStrHash, chatRooms, renamed>>,
         online' \subseteq Member, unheard' \subseteq Member,
         online \cup unheard \subseteq online' \cup unheard'
  PROVE  RelayIInv'
<1>1. /\ EntriesTyped /\ IndicesAgree /\ ParticipantsWereConnected
      /\ UsersAgree(chatRooms, guidToStrHash, renamed)
  BY RelayIInvMeans
<1>2. EntriesTyped' /\ IndicesAgree' /\ ParticipantsWereConnected'
  BY <1>1 DEF EntriesTyped, IndicesAgree, ParticipantsWereConnected, Registered
<1>. QED BY <1>1, <1>2, RelayIInvMeansNext

LEMMA RelayInductive ==
  ASSUME RelayIInv, [RelayNext]_relayVars PROVE RelayIInv'
<1>1. online \subseteq Member /\ unheard \subseteq Member
  BY DEF RelayIInv, EntriesTyped
<1>2. ASSUME NEW g \in Member,
             \/ RelayConnect(g) \/ RelayLoses(g) \/ RefuseParticipant(g) \/ OnGroupMessage(g)
             \/ \E key \in Name : OnMessageToServer(g, key)
      PROVE  RelayIInv'
  BY <1>1, <1>2, EntriesKept
     DEF RelayConnect, RelayLoses, RefuseParticipant, OnGroupMessage, OnMessageToServer
<1>3. ASSUME NEW g \in Member,
             \/ RelayClosedConnection(g) \/ OnRemoveParticipantRequest(g)
             \/ ApplicationRemoves(g)
      PROVE  RelayIInv'
  BY <1>3, RemoveKeeps
     DEF RelayClosedConnection, OnRemoveParticipantRequest, ApplicationRemoves
<1>4. ASSUME NEW g \in Member, NEW key \in Name,
             OnAddParticipantRequest(key, g) \/ ApplicationAdds(key, g)
      PROVE  RelayIInv'
  BY <1>4, AddKeeps DEF OnAddParticipantRequest, ApplicationAdds
<1>5. ASSUME NEW g \in Member, OnLeaveGroupRequest(g) PROVE RelayIInv'
  BY <1>5, LeaveKeeps DEF OnLeaveGroupRequest
<1>6. ASSUME NEW g \in Member, NEW room \in Group \cup {NoGroup}, OnJoinGroupRequest(g, room)
      PROVE  RelayIInv'
  <2>1. CASE g \in Registered /\ room # NoGroup /\ RoomOf(g) # room
    BY <1>6, <2>1, JoinKeeps DEF OnJoinGroupRequest
  <2>2. CASE ~(g \in Registered /\ room # NoGroup /\ RoomOf(g) # room)
    BY <1>1, <1>6, <2>2, EntriesKept DEF OnJoinGroupRequest
  <2>. QED BY <2>1, <2>2
<1>7. CASE UNCHANGED relayVars
  BY <1>1, <1>7, EntriesKept DEF relayVars
<1>. QED BY <1>2, <1>3, <1>4, <1>5, <1>6, <1>7 DEF RelayNext

-----------------------------------------------------------------------------
(* What systems are told *)

\* The reading of messages ends: the function it is written with exists.
Reads(f, g, old, ms, n) ==
  f = [k \in 0 .. n |-> IF k = 0 THEN old ELSE Heard(g, f[k - 1], ms[k])]

LEMMA ReadsExist ==
  ASSUME NEW g, NEW old, NEW ms, NEW N \in Nat PROVE \E f : Reads(f, g, old, ms, N)
<1> DEFINE K == {n \in 0 .. N : \E f : Reads(f, g, old, ms, n)}
<1>1. 0 \in K
  <2> DEFINE f == [k \in 0 .. 0 |-> old]
  <2>1. f = [k \in 0 .. 0 |-> IF k = 0 THEN old ELSE Heard(g, f[k - 1], ms[k])]
    OBVIOUS
  <2> HIDE DEF f
  <2>. QED BY <2>1 DEF Reads
<1>2. ASSUME NEW n \in 1 .. N, n - 1 \in K PROVE n \in K
  <2>1. PICK f : Reads(f, g, old, ms, n - 1)
    BY <1>2
  <2> DEFINE h == [k \in 0 .. n |-> IF k < n THEN f[k] ELSE Heard(g, f[n - 1], ms[n])]
  <2>2. ASSUME NEW k \in 0 .. n
        PROVE  h[k] = IF k = 0 THEN old ELSE Heard(g, h[k - 1], ms[k])
    <3>1. CASE k = n
      BY <3>1
    <3>2. CASE k # n
      <4>1. k \in 0 .. n - 1 /\ h[k] = f[k] /\ (k # 0 => k - 1 \in 0 .. n /\ h[k - 1] = f[k - 1])
        BY <3>2
      <4> HIDE DEF h
      <4>2. f[k] = IF k = 0 THEN old ELSE Heard(g, f[k - 1], ms[k])
        BY <2>1, <4>1 DEF Reads
      <4>. QED BY <4>1, <4>2
    <3>. QED BY <3>1, <3>2
  <2>3. h = [k \in 0 .. n |-> h[k]]
    OBVIOUS
  <2> HIDE DEF h
  <2>4. Reads(h, g, old, ms, n)
    BY <2>2, <2>3 DEF Reads
  <2>. QED BY <2>4
<1> HIDE DEF K
<1>3. N \in K
  BY <1>1, <1>2, InductionUpTo
<1>. QED BY <1>3 DEF K

LEMMA ReadOf ==
  ASSUME NEW g, NEW old, NEW ms, Len(ms) \in Nat
  PROVE  \E f : /\ f[0] = old
                /\ \A n \in 1 .. Len(ms) : f[n] = Heard(g, f[n - 1], ms[n])
                /\ RosterAfter(g, old, ms) = f[Len(ms)]
<1>1. \E f : Reads(f, g, old, ms, Len(ms))
  BY ReadsExist
<1> DEFINE heard[n \in 0 .. Len(ms)] == IF n = 0 THEN old ELSE Heard(g, heard[n - 1], ms[n])
<1>2. RosterAfter(g, old, ms) = heard[Len(ms)]
  BY DEF RosterAfter
<1>3. \E f : f = [k \in 0 .. Len(ms) |-> IF k = 0 THEN old ELSE Heard(g, f[k - 1], ms[k])]
  BY <1>1, Zenon DEF Reads
<1>4. heard = [n \in 0 .. Len(ms) |-> IF n = 0 THEN old ELSE Heard(g, heard[n - 1], ms[n])]
  BY <1>3 DEF heard
<1> HIDE DEF heard
<1> DEFINE N == Len(ms)
<1>5. N \in Nat
  OBVIOUS
<1> HIDE DEF N
<1>6. heard[0] = old /\ \A n \in 1 .. N : heard[n] = Heard(g, heard[n - 1], ms[n])
  BY <1>4, <1>5 DEF N
<1>. QED BY <1>2, <1>6 DEF N

\* All that is said to g by the messages is one thing.
OnlyTold(g, ms, id, name) ==
  \A i \in 1 .. Len(ms) : ms[i].to = g => ms[i].id = id /\ ms[i].str = name

Told(g, ms) == \E i \in 1 .. Len(ms) : ms[i].to = g

LEMMA ReadLeaving ==
  ASSUME NEW g, NEW old, NEW ms, Len(ms) \in Nat, NEW name,
         OnlyTold(g, ms, "RPE_USER_LEFT_ROOM", name)
  PROVE  RosterAfter(g, old, ms) = IF Told(g, ms) THEN old \ {name} ELSE old
<1>1. PICK f : /\ f[0] = old
               /\ \A n \in 1 .. Len(ms) : f[n] = Heard(g, f[n - 1], ms[n])
               /\ RosterAfter(g, old, ms) = f[Len(ms)]
  BY ReadOf
<1> DEFINE N == Len(ms)
           K == {n \in 0 .. N : f[n] = IF \E i \in 1 .. n : ms[i].to = g
                                       THEN old \ {name} ELSE old}
<1>0. N \in Nat
  OBVIOUS
<1>2. 0 \in K
  BY <1>0, <1>1
<1>3. ASSUME NEW n \in 1 .. N, n - 1 \in K PROVE n \in K
  <2>1. f[n] = Heard(g, f[n - 1], ms[n])
    BY <1>1, <1>3
  <2>2. f[n - 1] = IF \E i \in 1 .. n - 1 : ms[i].to = g THEN old \ {name} ELSE old
    BY <1>3
  <2>3. CASE ms[n].to = g
    <3>0. n \in 1 .. Len(ms) /\ ms[n].id = "RPE_USER_LEFT_ROOM" /\ ms[n].str = name
      BY <1>3, <2>3 DEF OnlyTold
    <3>1. f[n] = f[n - 1] \ {name}
      BY <2>1, <2>3, <3>0 DEF Heard
    <3>2. f[n] = old \ {name}
      BY <2>2, <3>1
    <3>3. \E i \in 1 .. n : ms[i].to = g
      BY <2>3
    <3>4. n \in 0 .. N
      OBVIOUS
    <3>. QED BY <3>2, <3>3, <3>4
  <2>4. CASE ms[n].to # g
    <3>1. f[n] = f[n - 1]
      BY <2>1, <2>4 DEF Heard
    <3>2. (\E i \in 1 .. n : ms[i].to = g) <=> (\E i \in 1 .. n - 1 : ms[i].to = g)
      BY <2>4
    <3>. QED BY <2>2, <3>1, <3>2
  <2>. QED BY <2>3, <2>4
<1> HIDE DEF K
<1>4. N \in K
  <2> HIDE DEF N
  <2>1. \A n \in 0 .. N : n \in K
    BY <1>0, <1>2, <1>3, InductionUpTo
  <2>. QED BY <1>0, <2>1
<1>. QED BY <1>1, <1>4 DEF K, Told

LEMMA ReadEntering ==
  ASSUME NEW g, NEW old, NEW ms, Len(ms) \in Nat, NEW name,
         OnlyTold(g, ms, "RPE_USER_ENTERED_ROOM", name)
  PROVE  RosterAfter(g, old, ms) = IF Told(g, ms) THEN old \cup {name} ELSE old
<1>1. PICK f : /\ f[0] = old
               /\ \A n \in 1 .. Len(ms) : f[n] = Heard(g, f[n - 1], ms[n])
               /\ RosterAfter(g, old, ms) = f[Len(ms)]
  BY ReadOf
<1> DEFINE N == Len(ms)
           K == {n \in 0 .. N : f[n] = IF \E i \in 1 .. n : ms[i].to = g
                                       THEN old \cup {name} ELSE old}
<1>0. N \in Nat
  OBVIOUS
<1>2. 0 \in K
  BY <1>0, <1>1
<1>3. ASSUME NEW n \in 1 .. N, n - 1 \in K PROVE n \in K
  <2>1. f[n] = Heard(g, f[n - 1], ms[n])
    BY <1>1, <1>3
  <2>2. f[n - 1] = IF \E i \in 1 .. n - 1 : ms[i].to = g THEN old \cup {name} ELSE old
    BY <1>3
  <2>3. CASE ms[n].to = g
    <3>0. n \in 1 .. Len(ms) /\ ms[n].id = "RPE_USER_ENTERED_ROOM" /\ ms[n].str = name
      BY <1>3, <2>3 DEF OnlyTold
    <3>1. f[n] = f[n - 1] \cup {name}
      BY <2>1, <2>3, <3>0 DEF Heard
    <3>2. f[n] = old \cup {name}
      BY <2>2, <3>1
    <3>3. \E i \in 1 .. n : ms[i].to = g
      BY <2>3
    <3>4. n \in 0 .. N
      OBVIOUS
    <3>. QED BY <3>2, <3>3, <3>4
  <2>4. CASE ms[n].to # g
    <3>1. f[n] = f[n - 1]
      BY <2>1, <2>4 DEF Heard
    <3>2. (\E i \in 1 .. n : ms[i].to = g) <=> (\E i \in 1 .. n - 1 : ms[i].to = g)
      BY <2>4
    <3>. QED BY <2>2, <3>1, <3>2
  <2>. QED BY <2>3, <2>4
<1> HIDE DEF K
<1>4. N \in K
  <2> HIDE DEF N
  <2>1. \A n \in 0 .. N : n \in K
    BY <1>0, <1>2, <1>3, InductionUpTo
  <2>. QED BY <1>0, <2>1
<1>. QED BY <1>1, <1>4 DEF K, Told

\* The answer to a request to join says all.
LEMMA ReadJoined ==
  ASSUME NEW g, NEW old, NEW ms, Len(ms) \in Nat
  PROVE  Len(ms) # 0 /\ ms[Len(ms)].to = g /\ ms[Len(ms)].id = "RPE_JOIN_GROUP_SUCCESS"
           => RosterAfter(g, old, ms) = ToSet(ms[Len(ms)].users)
<1>1. PICK f : /\ f[0] = old
               /\ \A n \in 1 .. Len(ms) : f[n] = Heard(g, f[n - 1], ms[n])
               /\ RosterAfter(g, old, ms) = f[Len(ms)]
  BY ReadOf
<1>. SUFFICES ASSUME Len(ms) # 0, ms[Len(ms)].to = g,
                    ms[Len(ms)].id = "RPE_JOIN_GROUP_SUCCESS"
             PROVE  RosterAfter(g, old, ms) = ToSet(ms[Len(ms)].users)
  OBVIOUS
<1>2. Len(ms) \in 1 .. Len(ms)
  OBVIOUS
<1>3. f[Len(ms)] = Heard(g, f[Len(ms) - 1], ms[Len(ms)])
  BY <1>1, <1>2
<1>. QED BY <1>1, <1>3 DEF Heard

\* Other messages say nothing of a group.
LEMMA ReadOther ==
  ASSUME NEW g, NEW old, NEW h, NEW id,
         id \notin {"RPE_USER_ENTERED_ROOM", "RPE_USER_LEFT_ROOM", "RPE_JOIN_GROUP_SUCCESS"}
  PROVE  /\ RosterAfter(g, old, <<>>) = old
         /\ RosterAfter(g, old, <<[to |-> h, id |-> id]>>) = old
<1>1. ASSUME NEW ms, Len(ms) \in {0, 1}, Len(ms) = 1 => ms[1] = [to |-> h, id |-> id]
      PROVE  RosterAfter(g, old, ms) = old
  <2>1. PICK f : /\ f[0] = old
                 /\ \A n \in 1 .. Len(ms) : f[n] = Heard(g, f[n - 1], ms[n])
                 /\ RosterAfter(g, old, ms) = f[Len(ms)]
    <3>1. Len(ms) \in Nat
      BY <1>1
    <3>. QED BY <3>1, ReadOf
  <2>2. CASE Len(ms) = 0
    BY <2>1, <2>2
  <2>3. CASE Len(ms) = 1
    <3>1. f[1] = Heard(g, f[0], ms[1])
      BY <2>1, <2>3
    <3>2. Heard(g, f[0], ms[1]) = f[0]
      BY <1>1, <2>3 DEF Heard
    <3>. QED BY <2>1, <2>3, <3>1, <3>2
  <2>. QED BY <1>1, <2>2, <2>3
<1>2. Len(<<>>) = 0
  OBVIOUS
<1>3. Len(<<[to |-> h, id |-> id]>>) = 1 /\ <<[to |-> h, id |-> id]>>[1] = [to |-> h, id |-> id]
  OBVIOUS
<1>. QED BY <1>1, <1>2, <1>3

-----------------------------------------------------------------------------
(* Who is left *)

LEMMA SweptKeepsOthers ==
  ASSUME NEW list \in Seq(StrAndGuid), NEW n \in Nat \ {0}, NEW g,
         NEW j \in 1 .. Len(list), list[j].guid # g
  PROVE  \E i \in 1 .. Len(Swept(list, n, g)) : Swept(list, n, g)[i] = list[j]
<1> DEFINE last == Len(list)
           s == [i \in 1 .. last - 1 |-> IF i = n THEN list[last] ELSE list[i]]
<1>1. last \in Nat
  OBVIOUS
<1>2. CASE n <= last /\ list[n].guid = g
  <2>1. Swept(list, n, g) = s /\ last - 1 \in Nat
    BY <1>1, <1>2 DEF Swept
  <2>2. Len(s) = last - 1
    BY <2>1
  <2>3. \E i \in 1 .. last - 1 : s[i] = list[j]
    <3>1. CASE j = last
      <4>1. n \in 1 .. last - 1 /\ s[n] = list[j]
        BY <1>1, <1>2, <3>1
      <4>. QED BY <4>1
    <3>2. CASE j # last
      <4>1. j \in 1 .. last - 1 /\ s[j] = list[j]
        BY <1>1, <1>2, <3>2
      <4>. QED BY <4>1
    <3>. QED BY <3>1, <3>2
  <2>. QED BY <2>1, <2>2, <2>3
<1>3. CASE ~(n <= last /\ list[n].guid = g)
  <2>1. Swept(list, n, g) = list
    BY <1>3 DEF Swept
  <2>. QED BY <2>1
<1>. QED BY <1>2, <1>3

\* LeaveGroup loses no other user.
LEMMA RemoveKeepsOthers ==
  ASSUME NEW users \in Seq(StrAndGuid), NEW g
  PROVE  LET left == RemoveUserEntries(users, g)
         IN \A j \in 1 .. Len(users) : users[j].guid # g
              => \E i \in 1 .. Len(left) : left[i] = users[j]
<1> DEFINE N == Len(users)
           left == RemoveUserEntries(users, g)
<1>1. PICK f : Sweeps(f, users, g, N) /\ left = f[N]
  BY SweepOf
<1> DEFINE Good(n) == /\ f[n] \in Seq(StrAndGuid)
                      /\ \A j \in 1 .. Len(users) : users[j].guid # g
                           => \E i \in 1 .. Len(f[n]) : f[n][i] = users[j]
           K == {n \in 0 .. N : Good(n)}
<1> HIDE DEF left
<1>2. N \in Nat
  OBVIOUS
<1> HIDE DEF N
<1>3. 0 \in K
  <2>1. f[0] = users
    BY <1>1, <1>2 DEF Sweeps
  <2>. QED BY <1>2, <2>1
<1>4. ASSUME NEW n \in 1 .. N, n - 1 \in K PROVE n \in K
  <2> DEFINE list == f[n - 1]
  <2>1. f[n] = Swept(list, n, g)
    BY <1>1, <1>2 DEF Sweeps
  <2>2. Good(n - 1)
    BY <1>4
  <2>3. list \in Seq(StrAndGuid)
    BY <2>2
  <2> HIDE DEF list
  <2>4. f[n] \in Seq(StrAndGuid)
    BY <2>1, <2>3, SweptIsAmong
  <2>5. ASSUME NEW j \in 1 .. Len(users), users[j].guid # g
        PROVE  \E i \in 1 .. Len(f[n]) : f[n][i] = users[j]
    <3>1. PICK k \in 1 .. Len(list) : list[k] = users[j]
      BY <2>2, <2>5 DEF list
    <3>2. \E i \in 1 .. Len(Swept(list, n, g)) : Swept(list, n, g)[i] = list[k]
      BY <2>3, <2>5, <3>1, SweptKeepsOthers
    <3>. QED BY <2>1, <3>1, <3>2
  <2>. QED BY <2>4, <2>5
<1> HIDE DEF K, Good
<1>5. \A n \in 0 .. N : n \in K
  BY <1>2, <1>3, <1>4, InductionUpTo
<1>6. Good(N)
  BY <1>2, <1>5 DEF K
<1>. QED BY <1>1, <1>6 DEF Good, left

-----------------------------------------------------------------------------
(* Groups as sets *)

InRoom(entries, r) == {h \in DOMAIN entries : entries[h].currentRoom = r}

NamesIn(entries, r) == {entries[h].str : h \in InRoom(entries, r)}

\* The participants that are in a group, but for those excepted, are among its users.
AreUsers(rooms, entries, except) ==
  \A h \in DOMAIN entries \ except : entries[h].currentRoom # NoGroup =>
    /\ entries[h].currentRoom \in DOMAIN rooms
    /\ \E i \in 1 .. Len(rooms[entries[h].currentRoom]) :
         rooms[entries[h].currentRoom][i].guid = h

\* What those that are connected know is who is there.
KnowNames(names, entries, connected) ==
  \A h \in DOMAIN entries \cap connected :
    entries[h].currentRoom # NoGroup => names[h] = NamesIn(entries, entries[h].currentRoom)

\* The list of users of a room is the set of its participants, each once.
LEMMA UsersAreInRoom ==
  ASSUME NEW rooms, RoomsTyped(rooms), NEW entries, UsersAgree(rooms, entries, {}),
         NEW except, AreUsers(rooms, entries, except), NEW r \in DOMAIN rooms
  PROVE  /\ DOMAIN rooms[r] = 1 .. Len(rooms[r])
         /\ \A i \in 1 .. Len(rooms[r]) :
              /\ rooms[r][i].guid \in InRoom(entries, r)
              /\ rooms[r][i].str = entries[rooms[r][i].guid].str
              /\ \A j \in 1 .. Len(rooms[r]) : rooms[r][j].guid = rooms[r][i].guid => i = j
         /\ \A h \in InRoom(entries, r) \ except :
              \E i \in 1 .. Len(rooms[r]) : rooms[r][i].guid = h
<1>1. rooms[r] \in Seq(StrAndGuid) /\ r \in Group
  BY DEF RoomsTyped
<1>2. DOMAIN rooms[r] = 1 .. Len(rooms[r])
  BY <1>1
<1>3. ASSUME NEW i \in 1 .. Len(rooms[r])
      PROVE  /\ rooms[r][i].guid \in InRoom(entries, r)
             /\ rooms[r][i].str = entries[rooms[r][i].guid].str
             /\ \A j \in 1 .. Len(rooms[r]) : rooms[r][j].guid = rooms[r][i].guid => i = j
  <2>1. UserIsParticipant(rooms, entries, r, i)
    BY DEF UsersAgree
  <2>. QED BY <2>1 DEF UserIsParticipant, InRoom, Once
<1>4. ASSUME NEW h \in InRoom(entries, r) \ except
      PROVE  \E i \in 1 .. Len(rooms[r]) : rooms[r][i].guid = h
  BY <1>1, NoGroupAssumption DEF AreUsers, InRoom
<1>. QED BY <1>2, <1>3, <1>4

LEMMA NamesOfUsers ==
  ASSUME NEW rooms, RoomsTyped(rooms), NEW entries, UsersAgree(rooms, entries, {}),
         AreUsers(rooms, entries, {}), NEW r \in DOMAIN rooms
  PROVE  {rooms[r][i].str : i \in DOMAIN rooms[r]} = NamesIn(entries, r)
<1>1. /\ DOMAIN rooms[r] = 1 .. Len(rooms[r])
      /\ \A i \in 1 .. Len(rooms[r]) :
           /\ rooms[r][i].guid \in InRoom(entries, r)
           /\ rooms[r][i].str = entries[rooms[r][i].guid].str
      /\ \A h \in InRoom(entries, r) : \E i \in 1 .. Len(rooms[r]) : rooms[r][i].guid = h
  BY UsersAreInRoom
<1>. QED BY <1>1 DEF NamesIn

\* The conjuncts of GroupsIInv, of groups as sets.
LEMMA GroupsMean ==
  ASSUME RelayIInv, renamed = {}
  PROVE  /\ ParticipantsAreUsers <=> AreUsers(chatRooms, guidToStrHash, {})
         /\ AreUsers(chatRooms, guidToStrHash, {})
              => (RostersAgree <=> KnowNames(roster, guidToStrHash, online))
<1>1. EntriesTyped /\ RoomsTyped(chatRooms) /\ UsersAgree(chatRooms, guidToStrHash, {})
  BY RelayIInvMeans DEF EntriesTyped, RoomsTyped
<1>2. \A r : r \in DOMAIN chatRooms => /\ UsersOf(r) = chatRooms[r] /\ r # NoGroup
                                       /\ DOMAIN UsersOf(r) = 1 .. Len(chatRooms[r])
  BY <1>1, NoGroupAssumption DEF UsersOf, RoomsTyped
<1>3. \A r : r \notin DOMAIN chatRooms => UsersOf(r) = <<>> /\ DOMAIN UsersOf(r) = {}
  BY DEF UsersOf
<1>4. \A g \in Registered : RoomOf(g) = guidToStrHash[g].currentRoom
  BY DEF RoomOf
<1>5. ParticipantsAreUsers <=> AreUsers(chatRooms, guidToStrHash, {})
  <2>1. ASSUME NEW g \in Registered
        PROVE  (\E i \in DOMAIN UsersOf(RoomOf(g)) : UsersOf(RoomOf(g))[i].guid = g)
               <=> /\ guidToStrHash[g].currentRoom \in DOMAIN chatRooms
                   /\ \E i \in 1 .. Len(chatRooms[guidToStrHash[g].currentRoom]) :
                        chatRooms[guidToStrHash[g].currentRoom][i].guid = g
    <3>1. PICK r : r = RoomOf(g)
      OBVIOUS
    <3>2. CASE r \in DOMAIN chatRooms
      <4>1. UsersOf(r) = chatRooms[r] /\ DOMAIN UsersOf(r) = 1 .. Len(chatRooms[r])
        BY <1>2, <3>2
      <4>. QED BY <1>4, <3>1, <3>2, <4>1
    <3>3. CASE r \notin DOMAIN chatRooms
      BY <1>3, <1>4, <3>1, <3>3
    <3>. QED BY <3>2, <3>3
  <2>. QED BY <1>4, <2>1 DEF ParticipantsAreUsers, AreUsers, Registered
<1>6. ASSUME AreUsers(chatRooms, guidToStrHash, {})
      PROVE  RostersAgree <=> KnowNames(roster, guidToStrHash, online)
  <2>1. ASSUME NEW g \in Registered
        PROVE  (UsersOf(RoomOf(g)) # <<>> /\ renamed = {}
                  => roster[g] = {UsersOf(RoomOf(g))[i].str : i \in DOMAIN UsersOf(RoomOf(g))})
               <=> (RoomOf(g) # NoGroup => roster[g] = NamesIn(guidToStrHash, RoomOf(g)))
    <3>1. PICK r : r = RoomOf(g)
      OBVIOUS
    <3>2. CASE r \in DOMAIN chatRooms
      <4>1. UsersOf(r) = chatRooms[r] /\ r # NoGroup
        BY <1>2, <3>2
      <4>2. {chatRooms[r][i].str : i \in DOMAIN chatRooms[r]} = NamesIn(guidToStrHash, r)
        BY <1>1, <1>6, <3>2, NamesOfUsers
      <4>3. r # NoGroup => chatRooms[r] # <<>>
        <5>1. \E i \in 1 .. Len(chatRooms[r]) : chatRooms[r][i].guid = g
          BY <1>4, <1>6, <3>1, <4>1 DEF AreUsers, Registered
        <5>. QED BY <5>1
      <4>4. UsersOf(RoomOf(g)) # <<>> /\ RoomOf(g) # NoGroup
        BY <3>1, <4>1, <4>3
      <4>5. {UsersOf(RoomOf(g))[i].str : i \in DOMAIN UsersOf(RoomOf(g))} = NamesIn(guidToStrHash, RoomOf(g))
        <5>1. {UsersOf(r)[i].str : i \in DOMAIN UsersOf(r)} = NamesIn(guidToStrHash, r)
          BY <4>1, <4>2
        <5>. QED BY <3>1, <5>1
      <4>. QED BY <4>4, <4>5
    <3>3. CASE r \notin DOMAIN chatRooms
      <4>1. r = NoGroup
        BY <1>4, <1>6, <3>1, <3>3 DEF AreUsers, Registered
      <4>. QED BY <1>3, <3>1, <3>3, <4>1
    <3>. QED BY <3>2, <3>3
  <2>. QED BY <1>4, <2>1 DEF RostersAgree, KnowNames, Registered
<1>. QED BY <1>5, <1>6

-----------------------------------------------------------------------------
(* Groups, one step *)

Notice == [to : Member, id : {"RPE_USER_LEFT_ROOM", "RPE_USER_ENTERED_ROOM"},
           str : Name]

LEMMA NotifyFacts ==
  ASSUME NEW users \in Seq(StrAndGuid), NEW id \in {"RPE_USER_LEFT_ROOM", "RPE_USER_ENTERED_ROOM"}, NEW str \in Name
  PROVE  LET ms == NotifyUsersInRoom(users, id, str)
         IN /\ ms \in Seq(Notice) /\ Len(ms) = Len(users) /\ Len(ms) \in Nat
            /\ \A i \in 1 .. Len(users) :
                 ms[i].to = users[i].guid /\ ms[i].id = id /\ ms[i].str = str
<1>1. \A i \in 1 .. Len(users) : users[i] \in StrAndGuid
  OBVIOUS
<1>2. \A i \in 1 .. Len(users) : [to |-> users[i].guid, id |-> id, str |-> str] \in Notice
  BY <1>1 DEF Notice, StrAndGuid
<1>. QED BY <1>2 DEF NotifyUsersInRoom

\* When g leaves its group, the others of it stay, and are told.
LEMMA LeavingTells ==
  ASSUME RelayIInv, renamed = {}, AreUsers(chatRooms, guidToStrHash, {}), NEW g \in Registered
  PROVE  LET ms == LeavingNotices(g)
             others == InRoom(guidToStrHash, RoomOf(g)) \ {g}
         IN /\ AreUsers(RoomsAfterLeaving(g), guidToStrHash, {g})
            /\ ms \in Seq(Notice) /\ Len(ms) \in Nat
            /\ \A i \in 1 .. Len(ms) :
                 /\ ms[i].id = "RPE_USER_LEFT_ROOM" /\ ms[i].str = guidToStrHash[g].str
                 /\ ms[i].to \in others /\ RoomOf(g) # NoGroup
            /\ RoomOf(g) # NoGroup => \A h \in others : Told(h, ms)
<1> DEFINE room == RoomOf(g)
           users == UsersOf(room)
           left == RemoveUserEntries(users, g)
           rooms == RoomsAfterLeaving(g)
           others == InRoom(guidToStrHash, room) \ {g}
           ms == LeavingNotices(g)
           name == guidToStrHash[g].str
<1>1. EntriesTyped /\ RoomsTyped(chatRooms) /\ UsersAgree(chatRooms, guidToStrHash, {})
  BY RelayIInvMeans DEF EntriesTyped, RoomsTyped
<1>2. /\ users \in Seq(StrAndGuid)
      /\ room \in DOMAIN chatRooms => users = chatRooms[room] /\ room # NoGroup
      /\ room \notin DOMAIN chatRooms => users = <<>>
  BY <1>1, NoGroupAssumption DEF UsersOf, RoomsTyped
<1>3. name \in Name /\ room = guidToStrHash[g].currentRoom
  BY <1>1 DEF EntriesTyped, StrAndGuidAndRoom, RoomOf
<1>4. ms = NotifyUsersInRoom(left, "RPE_USER_LEFT_ROOM", name)
  BY DEF LeavingNotices
<1>5. /\ left \in Seq(StrAndGuid) /\ Among(left, users)
      /\ Once(users, g) => \A i \in 1 .. Len(left) : left[i].guid # g
  BY <1>2, RemoveUserEntriesFacts
<1>6. \A j \in 1 .. Len(users) : users[j].guid # g => \E i \in 1 .. Len(left) : left[i] = users[j]
  BY <1>2, RemoveKeepsOthers
<1>7. \A i \in 1 .. Len(left) : \E j \in 1 .. Len(users) : left[i] = users[j]
  BY <1>5, AmongFacts
<1> HIDE DEF left, users
<1>8. /\ ms \in Seq(Notice) /\ Len(ms) = Len(left) /\ Len(ms) \in Nat
      /\ \A i \in 1 .. Len(left) :
           ms[i].to = left[i].guid /\ ms[i].id = "RPE_USER_LEFT_ROOM" /\ ms[i].str = name
  <2> HIDE DEF ms, name
  <2>1. "RPE_USER_LEFT_ROOM" \in {"RPE_USER_LEFT_ROOM", "RPE_USER_ENTERED_ROOM"}
    OBVIOUS
  <2>. QED BY <1>3, <1>4, <1>5, <2>1, NotifyFacts
<1> HIDE DEF ms
<1>11. Len(ms) = Len(left) /\ ms \in Seq(Notice) /\ Len(ms) \in Nat
  BY <1>8
<1>12. \A i \in 1 .. Len(left) :
        ms[i].to = left[i].guid /\ ms[i].id = "RPE_USER_LEFT_ROOM" /\ ms[i].str = name
  BY <1>8
<1>9. CASE room \in DOMAIN chatRooms
  <2>1. users = chatRooms[room] /\ room # NoGroup
    BY <1>2, <1>9
  <2>2. /\ \A i \in 1 .. Len(users) :
             /\ users[i].guid \in InRoom(guidToStrHash, room)
             /\ \A j \in 1 .. Len(users) : users[j].guid = users[i].guid => i = j
        /\ \A h \in InRoom(guidToStrHash, room) \ {} :
             \E i \in 1 .. Len(users) : users[i].guid = h
    BY <1>1, <1>9, <2>1, UsersAreInRoom
  <2>3. Once(users, g)
    BY <2>2 DEF Once
  <2>4. ASSUME NEW i \in 1 .. Len(left) PROVE left[i].guid \in others
    BY <1>5, <1>7, <2>2, <2>3
  <2>5. ASSUME NEW h \in others PROVE \E i \in 1 .. Len(left) : left[i].guid = h
    <3>1. PICK j \in 1 .. Len(users) : users[j].guid = h
      BY <2>2
    <3>2. PICK i \in 1 .. Len(left) : left[i] = users[j]
      BY <1>6, <3>1
    <3>. QED BY <3>1, <3>2
  <2>6. rooms = WithUsers(chatRooms, room, left)
    BY <1>9 DEF RoomsAfterLeaving, left, users
  <2>7. AreUsers(rooms, guidToStrHash, {g})
    <3>. SUFFICES ASSUME NEW h \in DOMAIN guidToStrHash \ {g},
                         NEW r, r = guidToStrHash[h].currentRoom, r # NoGroup
                  PROVE  /\ r \in DOMAIN rooms
                         /\ \E i \in 1 .. Len(rooms[r]) : rooms[r][i].guid = h
      BY DEF AreUsers
    <3>1. r \in DOMAIN chatRooms /\ \E i \in 1 .. Len(chatRooms[r]) : chatRooms[r][i].guid = h
      BY DEF AreUsers
    <3>2. CASE r = room
      <4>1. h \in others
        BY <3>2 DEF InRoom
      <4>2. PICK i \in 1 .. Len(left) : left[i].guid = h
        BY <2>5, <4>1
      <4>3. left # <<>>
        BY <4>2
      <4>4. r \in DOMAIN rooms /\ rooms[r] = left
        BY <2>6, <3>2, <4>3 DEF WithUsers, WithKey
      <4>. QED BY <4>2, <4>4
    <3>3. CASE r # room
      <4>1. r \in DOMAIN rooms /\ rooms[r] = chatRooms[r]
        BY <2>6, <3>1, <3>3 DEF WithUsers, WithKey, WithoutKeys
      <4>. QED BY <3>1, <4>1
    <3>. QED BY <3>2, <3>3
  <2>8. ASSUME NEW h \in others PROVE Told(h, ms)
    <3>1. PICK i \in 1 .. Len(left) : left[i].guid = h
      BY <2>5
    <3>2. i \in 1 .. Len(ms) /\ ms[i].to = h
      BY <1>11, <1>12, <3>1
    <3>. QED BY <3>2 DEF Told
  <2>9. \A i \in 1 .. Len(ms) : /\ ms[i].id = "RPE_USER_LEFT_ROOM" /\ ms[i].str = name
                                 /\ ms[i].to \in others /\ room # NoGroup
    BY <1>11, <1>12, <2>1, <2>4
  <2> HIDE DEF others, room, rooms, name
  <2>. QED BY <1>11, <2>7, <2>8, <2>9 DEF ms, others, room, rooms, name
<1>10. CASE room \notin DOMAIN chatRooms
  <2>1. rooms = chatRooms /\ Len(left) = 0
    <3>1. Len(users) = 0
      BY <1>2, <1>10
    <3>2. Len(left) \in Nat
      BY <1>5
    <3>3. ~(1 \in 1 .. Len(left))
      BY <1>7, <3>1
    <3>. QED BY <1>10, <3>2, <3>3 DEF RoomsAfterLeaving
  <2>2. room = NoGroup
    BY <1>3, <1>10 DEF AreUsers, Registered
  <2>3. AreUsers(rooms, guidToStrHash, {g})
    BY <2>1 DEF AreUsers
  <2>4. \A i \in 1 .. Len(ms) : FALSE
    BY <1>11, <2>1
  <2> HIDE DEF others, room, rooms, name
  <2>. QED BY <1>11, <2>2, <2>3, <2>4 DEF ms, others, room, rooms, name
<1>. QED BY <1>9, <1>10

\* Names are of one participant.
LEMMA NamesAreDistinct ==
  ASSUME RelayIInv, NEW g \in Registered, NEW h \in Registered,
         guidToStrHash[g].str = guidToStrHash[h].str
  PROVE  g = h
BY RelayIInvMeans DEF IndicesAgree

\* Then what the others know is right, when g is in no group or gone.
LEMMA LeavingIsKnown ==
  ASSUME RelayIInv, renamed = {}, AreUsers(chatRooms, guidToStrHash, {}), NEW g \in Registered,
         KnowNames(roster, guidToStrHash, online),
         NEW names, NEW entries, NEW connected, connected \subseteq online,
         \A h \in Member : h # g => names[h] = RosterAfter(h, roster[h], LeavingNotices(g)),
         DOMAIN entries \subseteq Registered, Registered \ {g} \subseteq DOMAIN entries,
         \A h \in DOMAIN entries : h # g => entries[h] = guidToStrHash[h],
         g \in DOMAIN entries => entries[g].currentRoom = NoGroup
  PROVE  KnowNames(names, entries, connected)
<1> DEFINE ms == LeavingNotices(g)
           name == guidToStrHash[g].str
<1>1. /\ ms \in Seq(Notice) /\ Len(ms) \in Nat
      /\ \A i \in 1 .. Len(ms) :
           /\ ms[i].id = "RPE_USER_LEFT_ROOM" /\ ms[i].str = name
           /\ ms[i].to \in InRoom(guidToStrHash, RoomOf(g)) \ {g} /\ RoomOf(g) # NoGroup
      /\ RoomOf(g) # NoGroup
           => \A h \in InRoom(guidToStrHash, RoomOf(g)) \ {g} : Told(h, ms)
  BY LeavingTells
<1> HIDE DEF ms
<1>2. SUFFICES ASSUME NEW h \in DOMAIN entries \cap connected,
                      NEW r, r = entries[h].currentRoom, r # NoGroup
               PROVE  names[h] = NamesIn(entries, r)
  BY DEF KnowNames
<1>3. h # g /\ h \in Registered /\ h \in online /\ h \in Member /\ entries[h] = guidToStrHash[h]
  <2>1. h # g /\ h \in Registered /\ h \in online /\ entries[h] = guidToStrHash[h]
    BY <1>2
  <2>2. online \subseteq Member
    BY RelayIInvMeans DEF EntriesTyped
  <2>. QED BY <2>1, <2>2
<1>4. names[h] = RosterAfter(h, roster[h], ms)
  BY <1>3 DEF ms
<1>5. OnlyTold(h, ms, "RPE_USER_LEFT_ROOM", name)
  BY <1>1 DEF OnlyTold
<1>6. roster[h] = NamesIn(guidToStrHash, r)
  BY <1>2, <1>3 DEF KnowNames, Registered
<1>12. Len(ms) \in Nat
  BY <1>1
<1>7. names[h] = IF Told(h, ms) THEN roster[h] \ {name} ELSE roster[h]
  <2>1. PICK old : old = roster[h]
    OBVIOUS
  <2> HIDE DEF name
  <2>2. RosterAfter(h, old, ms) = IF Told(h, ms) THEN old \ {name} ELSE old
    BY <1>5, <1>12, ReadLeaving
  <2>. QED BY <1>4, <2>1, <2>2
<1>8. InRoom(entries, r) = InRoom(guidToStrHash, r) \ {g}
  BY <1>2 DEF InRoom, Registered
<1>9. \A x \in InRoom(entries, r) : entries[x].str = guidToStrHash[x].str
  BY <1>8 DEF InRoom
<1>10. CASE r = RoomOf(g)
  <2>1. Told(h, ms) /\ g \in InRoom(guidToStrHash, r)
    BY <1>1, <1>2, <1>3, <1>10 DEF InRoom, Registered, RoomOf
  <2>2. \A x \in InRoom(guidToStrHash, r) : x # g => guidToStrHash[x].str # name
    BY NamesAreDistinct DEF InRoom, Registered
  <2>3. NamesIn(entries, r) = NamesIn(guidToStrHash, r) \ {name}
    BY <1>8, <1>9, <2>1, <2>2 DEF NamesIn
  <2>. QED BY <1>6, <1>7, <2>1, <2>3
<1>11. CASE r # RoomOf(g)
  <2>1. ~Told(h, ms)
    BY <1>1, <1>2, <1>3, <1>11 DEF InRoom, Told
  <2>2. g \notin InRoom(guidToStrHash, r)
    BY <1>11 DEF InRoom, RoomOf
  <2>3. NamesIn(entries, r) = NamesIn(guidToStrHash, r)
    BY <1>8, <1>9, <2>2 DEF NamesIn
  <2>. QED BY <1>6, <1>7, <2>1, <2>3
<1>. QED BY <1>10, <1>11

\* Notices, then notices, then one message more.
InThreeParts(a, b, c) == a \o b \o <<c>>

LEMMA ThreeParts ==
  ASSUME NEW a \in Seq(Notice), NEW b \in Seq(Notice), NEW c
  PROVE  /\ Len(InThreeParts(a, b, c)) \in Nat /\ Len(InThreeParts(a, b, c)) # 0
         /\ InThreeParts(a, b, c)[Len(InThreeParts(a, b, c))] = c
         /\ \A i \in 1 .. Len(InThreeParts(a, b, c)) :
              \/ \E j \in 1 .. Len(a) : InThreeParts(a, b, c)[i] = a[j]
              \/ \E j \in 1 .. Len(b) : InThreeParts(a, b, c)[i] = b[j]
              \/ InThreeParts(a, b, c)[i] = c
         /\ \A j \in 1 .. Len(a) :
              \E i \in 1 .. Len(InThreeParts(a, b, c)) : InThreeParts(a, b, c)[i] = a[j]
         /\ \A j \in 1 .. Len(b) :
              \E i \in 1 .. Len(InThreeParts(a, b, c)) : InThreeParts(a, b, c)[i] = b[j]
<1> DEFINE T == Notice \cup {c}
           ms == InThreeParts(a, b, c)
           m == Len(a)
           n == Len(b)
<1>1. a \in Seq(T) /\ b \in Seq(T) /\ <<c>> \in Seq(T) /\ m \in Nat /\ n \in Nat
  OBVIOUS
<1>2. /\ Len(ms) = m + n + 1
      /\ \A i \in 1 .. m : ms[i] = a[i]
      /\ \A i \in m + 1 .. m + n : ms[i] = b[i - m]
      /\ ms[m + n + 1] = c
  BY <1>1 DEF InThreeParts
<1> HIDE DEF ms
<1>3. /\ \A i \in 1 .. m : i \in 1 .. Len(ms)
      /\ \A j \in 1 .. n : m + j \in 1 .. Len(ms) /\ ms[m + j] = b[j]
  <2> HIDE DEF m, n
  <2>1. \A j \in 1 .. n : m + j \in m + 1 .. m + n /\ (m + j) - m = j
    BY <1>1
  <2>2. \A j \in 1 .. n : ms[m + j] = b[j]
    BY <1>2, <2>1
  <2>. QED BY <1>1, <1>2, <2>1, <2>2
<1>4. \A i \in 1 .. Len(ms) : \/ i \in 1 .. m
                              \/ i \in m + 1 .. m + n /\ i - m \in 1 .. n
                              \/ i = m + n + 1
  BY <1>1, <1>2
<1>5. /\ \A i \in 1 .. Len(ms) : \/ \E j \in 1 .. m : ms[i] = a[j]
                                 \/ \E j \in 1 .. n : ms[i] = b[j]
                                 \/ ms[i] = c
  BY <1>2, <1>4
<1>6. Len(ms) \in Nat /\ Len(ms) # 0 /\ ms[Len(ms)] = c
  BY <1>1, <1>2
<1>7. /\ \A j \in 1 .. m : \E i \in 1 .. Len(ms) : ms[i] = a[j]
      /\ \A j \in 1 .. n : \E i \in 1 .. Len(ms) : ms[i] = b[j]
  BY <1>2, <1>3
<1> HIDE DEF m, n
<1>. QED BY <1>5, <1>6, <1>7 DEF ms, m, n


LEMMA NowUsersAgree ==
  RelayIInv => RoomsTyped(chatRooms) /\ UsersAgree(chatRooms, guidToStrHash, renamed)
BY RelayIInvMeans DEF EntriesTyped, RoomsTyped

LEMMA NextUsersAgree ==
  ASSUME RelayIInv'
  PROVE  RoomsTyped(chatRooms') /\ UsersAgree(chatRooms', guidToStrHash', renamed')
<1>1. (RoomsTyped(chatRooms) /\ UsersAgree(chatRooms, guidToStrHash, renamed))'
  BY NowUsersAgree, PTL
<1>. QED BY <1>1 DEF RoomsTyped, UsersAgree, UserIsParticipant, Once

LEMMA JoiningIsKnown ==
  ASSUME RelayIInv, RelayIInv', renamed = {}, UNCHANGED <<online, unheard, strToGuidHash, renamed>>,
         AreUsers(chatRooms, guidToStrHash, {}), KnowNames(roster, guidToStrHash, online),
         NEW g \in Registered, NEW room \in Group, RoomOf(g) # room, JoinGroup(g, room)
  PROVE  /\ AreUsers(chatRooms', guidToStrHash', {})
         /\ KnowNames(roster', guidToStrHash', online')
<1> DEFINE left == RoomsAfterLeaving(g)
           users == IF room \in DOMAIN left THEN left[room] ELSE <<>>
           name == guidToStrHash[g].str
           new == [str |-> name, guid |-> g]
           all == Append(users, new)
           lv == IF RoomOf(g) = NoGroup THEN <<>> ELSE LeavingNotices(g)
           en == EnteringNotices(users, new)
           answer == [to |-> g, id |-> "RPE_JOIN_GROUP_SUCCESS",
                      users |-> [i \in DOMAIN all |-> all[i].str]]
           ms == lv \o en \o <<answer>>
           entries == guidToStrHash'
<1>1. /\ chatRooms' = WithKey(left, room, all)
      /\ guidToStrHash' = [guidToStrHash EXCEPT ![g].currentRoom = room]
      /\ roster' = [h \in Member |-> RosterAfter(h, roster[h], ms)]
  BY Zenon DEF JoinGroup, Tell
<1>2. EntriesTyped /\ RoomsTyped(chatRooms) /\ UsersAgree(chatRooms, guidToStrHash, {})
  BY RelayIInvMeans DEF EntriesTyped, RoomsTyped
<1>3. RoomsTyped(chatRooms') /\ UsersAgree(chatRooms', entries, {})
  BY NextUsersAgree
<1>4. /\ entries[g] = [str |-> name, currentRoom |-> room]
      /\ Registered' = Registered /\ DOMAIN entries = Registered
      /\ \A h \in Registered : h # g => entries[h] = guidToStrHash[h]
  BY <1>1, MovedEntry DEF Registered
<1>5. /\ RoomsTyped(left) /\ UsersAgree(left, guidToStrHash, {})
      /\ \A r \in DOMAIN left : \A i \in 1 .. Len(left[r]) : left[r][i].guid # g
  BY LeavingKeepsUsers
<1>6. /\ AreUsers(left, guidToStrHash, {g})
      /\ LeavingNotices(g) \in Seq(Notice) /\ Len(LeavingNotices(g)) \in Nat
      /\ \A i \in 1 .. Len(LeavingNotices(g)) :
           /\ LeavingNotices(g)[i].id = "RPE_USER_LEFT_ROOM" /\ LeavingNotices(g)[i].str = name
           /\ LeavingNotices(g)[i].to \in InRoom(guidToStrHash, RoomOf(g)) \ {g}
           /\ RoomOf(g) # NoGroup
      /\ RoomOf(g) # NoGroup =>
           \A h \in InRoom(guidToStrHash, RoomOf(g)) \ {g} : Told(h, LeavingNotices(g))
  BY LeavingTells
<1>7. name \in Name /\ g \in Member /\ new \in StrAndGuid /\ new.guid = g /\ new.str = name
  <2>1. name \in Name /\ g \in Member
    BY <1>2, RelayIInvMeans DEF EntriesTyped, StrAndGuidAndRoom, ParticipantsWereConnected
  <2>. QED BY <2>1 DEF StrAndGuid
<1>8. room # NoGroup /\ room \in Group
  BY NoGroupAssumption
<1>9. /\ lv \in Seq(Notice) /\ Len(lv) \in Nat
      /\ \A i \in 1 .. Len(lv) : /\ lv[i].id = "RPE_USER_LEFT_ROOM" /\ lv[i].str = name
                                 /\ lv[i].to \in InRoom(guidToStrHash, RoomOf(g)) \ {g}
                                 /\ RoomOf(g) # NoGroup
      /\ RoomOf(g) # NoGroup =>
           \A h \in InRoom(guidToStrHash, RoomOf(g)) \ {g} : Told(h, lv)
  <2> HIDE DEF name
  <2>1. CASE RoomOf(g) = NoGroup
    <3>1. lv = <<>>
      BY <2>1
    <3> HIDE DEF lv
    <3>. QED BY <2>1, <3>1
  <2>2. CASE RoomOf(g) # NoGroup
    <3>1. lv = LeavingNotices(g)
      BY <2>2
    <3> HIDE DEF lv
    <3>. QED BY <1>6, <3>1
  <2>. QED BY <2>1, <2>2
<1>10. /\ users \in Seq(StrAndGuid)
       /\ \A i \in 1 .. Len(users) : users[i].guid \in InRoom(guidToStrHash, room) \ {g}
       /\ \A h \in InRoom(guidToStrHash, room) \ {g} : \E i \in 1 .. Len(users) : users[i].guid = h
  <2> HIDE DEF left
  <2>1. CASE room \in DOMAIN left
    <3>1. users = left[room]
      BY <2>1
    <3>2. /\ \A i \in 1 .. Len(left[room]) : left[room][i].guid \in InRoom(guidToStrHash, room)
          /\ \A h \in InRoom(guidToStrHash, room) \ {g} :
               \E i \in 1 .. Len(left[room]) : left[room][i].guid = h
      BY <1>5, <1>6, <2>1, UsersAreInRoom DEF left
    <3>. QED BY <1>5, <2>1, <3>1, <3>2 DEF RoomsTyped
  <2>2. CASE room \notin DOMAIN left
    <3>1. users = <<>> /\ Len(users) = 0
      BY <2>2
    <3>2. InRoom(guidToStrHash, room) \ {g} = {}
      BY <1>6, <1>8, <2>2 DEF AreUsers, InRoom, left
    <3> HIDE DEF users
    <3>3. users \in Seq(StrAndGuid)
      BY <3>1
    <3>. QED BY <3>1, <3>2, <3>3
  <2>. QED BY <2>1, <2>2
<1> HIDE DEF users
<1>11. /\ en \in Seq(Notice) /\ Len(en) = Len(users) /\ Len(en) \in Nat
       /\ \A i \in 1 .. Len(users) :
            en[i].to = users[i].guid /\ en[i].id = "RPE_USER_ENTERED_ROOM" /\ en[i].str = name
  <2>1. en = NotifyUsersInRoom(users, "RPE_USER_ENTERED_ROOM", name)
    BY <1>7 DEF EnteringNotices
  <2> HIDE DEF en, name
  <2>2. "RPE_USER_ENTERED_ROOM" \in {"RPE_USER_LEFT_ROOM", "RPE_USER_ENTERED_ROOM"}
    OBVIOUS
  <2>. QED BY <1>7, <1>10, <2>1, <2>2, NotifyFacts
<1>12. /\ all \in Seq(StrAndGuid) /\ Len(all) = Len(users) + 1 /\ Len(users) \in Nat
       /\ \A i \in 1 .. Len(users) : all[i] = users[i]
       /\ all[Len(users) + 1] = new
  <2> HIDE DEF all, new
  <2>. QED BY <1>7, <1>10, AppendFacts DEF all
<1>13. answer.to = g /\ answer.id = "RPE_JOIN_GROUP_SUCCESS" /\ ToSet(answer.users) = {all[i].str : i \in DOMAIN all}
  BY DEF ToSet
<1> HIDE DEF lv, en, answer, new, all, left
<1>14. /\ Len(ms) \in Nat /\ Len(ms) # 0 /\ ms[Len(ms)] = answer
       /\ \A i \in 1 .. Len(ms) : \/ \E j \in 1 .. Len(lv) : ms[i] = lv[j]
                                  \/ \E j \in 1 .. Len(en) : ms[i] = en[j]
                                  \/ ms[i] = answer
       /\ \A j \in 1 .. Len(lv) : \E i \in 1 .. Len(ms) : ms[i] = lv[j]
       /\ \A j \in 1 .. Len(en) : \E i \in 1 .. Len(ms) : ms[i] = en[j]
  <2>1. lv \in Seq(Notice) /\ en \in Seq(Notice)
    BY <1>9, <1>11
  <2>2. ms = InThreeParts(lv, en, answer)
    BY DEF InThreeParts
  <2> HIDE DEF ms
  <2>3. PICK p : p = InThreeParts(lv, en, answer)
    OBVIOUS
  <2>4. Len(p) \in Nat /\ Len(p) # 0 /\ p[Len(p)] = answer
    BY <2>1, <2>3, ThreeParts
  <2>5. \A j \in 1 .. Len(lv) : \E i \in 1 .. Len(p) : p[i] = lv[j]
    BY <2>1, <2>3, ThreeParts
  <2>6. \A j \in 1 .. Len(en) : \E i \in 1 .. Len(p) : p[i] = en[j]
    BY <2>1, <2>3, ThreeParts
  <2>7. \A i \in 1 .. Len(p) : \/ \E j \in 1 .. Len(lv) : p[i] = lv[j]
                               \/ \E j \in 1 .. Len(en) : p[i] = en[j]
                               \/ p[i] = answer
    <3>1. \A i \in 1 .. Len(InThreeParts(lv, en, answer)) :
            \/ \E j \in 1 .. Len(lv) : InThreeParts(lv, en, answer)[i] = lv[j]
            \/ \E j \in 1 .. Len(en) : InThreeParts(lv, en, answer)[i] = en[j]
            \/ InThreeParts(lv, en, answer)[i] = answer
      BY <2>1, ThreeParts
    <3>. QED BY <2>3, <3>1, Zenon
  <2>. QED BY <2>2, <2>3, <2>4, <2>5, <2>6, <2>7
<1> HIDE DEF ms
<1>15. AreUsers(chatRooms', entries, {})
  <2>. SUFFICES ASSUME NEW h \in DOMAIN entries,
                       NEW r, r = entries[h].currentRoom, r # NoGroup
                PROVE  /\ r \in DOMAIN chatRooms'
                       /\ \E i \in 1 .. Len(chatRooms'[r]) : chatRooms'[r][i].guid = h
    BY DEF AreUsers
  <2>1. room \in DOMAIN chatRooms' /\ chatRooms'[room] = all
    BY <1>1 DEF WithKey
  <2>2. \A q \in DOMAIN left : q # room => q \in DOMAIN chatRooms' /\ chatRooms'[q] = left[q]
    BY <1>1 DEF WithKey
  <2>3. CASE h = g
    <3>1. r = room /\ Len(users) + 1 \in 1 .. Len(all) /\ all[Len(users) + 1].guid = g
      BY <1>4, <1>7, <1>12, <2>3
    <3>. QED BY <2>1, <2>3, <3>1
  <2>4. CASE h # g /\ r = room
    <3>1. h \in InRoom(guidToStrHash, room) \ {g}
      BY <1>4, <2>4 DEF InRoom, Registered
    <3>2. PICK i \in 1 .. Len(users) : users[i].guid = h
      BY <1>10, <3>1
    <3>3. i \in 1 .. Len(all) /\ all[i].guid = h
      BY <1>12, <3>2
    <3>. QED BY <2>1, <2>4, <3>3
  <2>5. CASE h # g /\ r # room
    <3>1. /\ r \in DOMAIN left
          /\ \E i \in 1 .. Len(left[r]) : left[r][i].guid = h
      BY <1>4, <1>6, <2>5 DEF AreUsers, Registered, left
    <3>. QED BY <2>2, <2>5, <3>1
  <2>. QED BY <2>3, <2>4, <2>5
<1>16. ASSUME NEW h \in DOMAIN entries \cap online', NEW r, r = entries[h].currentRoom, r # NoGroup
       PROVE  roster'[h] = NamesIn(entries, r)
  <2>1. h \in Member /\ h \in Registered /\ h \in online
    BY <1>2, <1>4, <1>16 DEF EntriesTyped
  <2>2. PICK old : old = roster[h]
    OBVIOUS
  <2>3. roster'[h] = RosterAfter(h, old, ms)
    BY <1>1, <2>1, <2>2
  <2>4. CASE h = g
    <3>1. RosterAfter(h, old, ms) = ToSet(answer.users)
      <4>1. /\ Len(ms) \in Nat
            /\ Len(ms) # 0 /\ ms[Len(ms)].to = h /\ ms[Len(ms)].id = "RPE_JOIN_GROUP_SUCCESS"
        BY <1>13, <1>14, <2>4
      <4>2. RosterAfter(h, old, ms) = ToSet(ms[Len(ms)].users)
        BY <4>1, ReadJoined
      <4>. QED BY <1>14, <4>2
    <3>2. r = room /\ room \in DOMAIN chatRooms' /\ chatRooms'[room] = all
      BY <1>1, <1>4, <1>16, <2>4 DEF WithKey
    <3>3. {chatRooms'[room][i].str : i \in DOMAIN chatRooms'[room]} = NamesIn(entries, room)
      <4>1. PICK rooms : rooms = chatRooms'
        OBVIOUS
      <4>. QED BY <1>3, <1>15, <3>2, <4>1, NamesOfUsers
    <3>. QED BY <1>13, <2>3, <3>1, <3>2, <3>3
  <2>5. CASE h # g
    <3>1. entries[h] = guidToStrHash[h] /\ r = guidToStrHash[h].currentRoom
          /\ h \in InRoom(guidToStrHash, r)
      BY <1>4, <1>16, <2>1, <2>5 DEF InRoom, Registered
    <3>2. old = NamesIn(guidToStrHash, r)
      BY <1>16, <2>1, <2>2, <3>1 DEF KnowNames, Registered
    <3>3. CASE r = room
      <4>1. OnlyTold(h, ms, "RPE_USER_ENTERED_ROOM", name)
        <5>1. \A j \in 1 .. Len(lv) : lv[j].to # h
          BY <1>9, <3>1, <3>3 DEF InRoom, RoomOf
        <5>2. \A j \in 1 .. Len(en) : en[j].id = "RPE_USER_ENTERED_ROOM" /\ en[j].str = name
          BY <1>11
        <5> HIDE DEF name
        <5>. QED BY <1>13, <1>14, <2>5, <5>1, <5>2 DEF OnlyTold
      <4>2. Told(h, ms)
        <5>1. PICK j \in 1 .. Len(users) : users[j].guid = h
          BY <1>10, <2>5, <3>1, <3>3
        <5>2. PICK i \in 1 .. Len(ms) : ms[i] = en[j]
          BY <1>11, <1>14
        <5>. QED BY <1>11, <5>1, <5>2 DEF Told
      <4>3. RosterAfter(h, old, ms) = old \cup {name}
        <5>1. RosterAfter(h, old, ms) = IF Told(h, ms) THEN old \cup {name} ELSE old
          <6> HIDE DEF name
          <6>1. Len(ms) \in Nat
            BY <1>14
          <6>. QED BY <4>1, <6>1, ReadEntering
        <5>. QED BY <4>2, <5>1
      <4>4. InRoom(entries, r) = InRoom(guidToStrHash, r) \cup {g}
        BY <1>4, <3>3 DEF InRoom, Registered
      <4>5. \A x \in InRoom(entries, r) : x # g => entries[x].str = guidToStrHash[x].str
        BY <1>4 DEF InRoom
      <4>6. g \notin InRoom(guidToStrHash, r) /\ entries[g].str = name
        BY <1>4, <3>3 DEF InRoom, RoomOf
      <4>7. NamesIn(entries, r) = NamesIn(guidToStrHash, r) \cup {name}
        BY <4>4, <4>5, <4>6 DEF NamesIn
      <4>. QED BY <2>3, <3>2, <4>3, <4>7
    <3>4. CASE r # room
      <4>1. OnlyTold(h, ms, "RPE_USER_LEFT_ROOM", name)
        <5>1. \A j \in 1 .. Len(en) : en[j].to # h
          BY <1>10, <1>11, <3>1, <3>4 DEF InRoom
        <5>. QED BY <1>9, <1>13, <1>14, <2>5, <5>1 DEF OnlyTold
      <4>2. RosterAfter(h, old, ms) = IF Told(h, ms) THEN old \ {name} ELSE old
        <5> HIDE DEF name
        <5>1. Len(ms) \in Nat
          BY <1>14
        <5>. QED BY <4>1, <5>1, ReadLeaving
      <4>3. InRoom(entries, r) = InRoom(guidToStrHash, r) \ {g}
        BY <1>4, <3>4 DEF InRoom, Registered
      <4>4. \A x \in InRoom(entries, r) : entries[x].str = guidToStrHash[x].str
        BY <1>4, <4>3 DEF InRoom
      <4>5. CASE r = RoomOf(g)
        <5>1. PICK j \in 1 .. Len(lv) : lv[j].to = h
          BY <1>9, <1>16, <2>5, <3>1, <4>5 DEF Told
        <5>2. PICK i \in 1 .. Len(ms) : ms[i] = lv[j]
          BY <1>14
        <5>3. Told(h, ms)
          BY <5>1, <5>2 DEF Told
        <5>4. g \in InRoom(guidToStrHash, r)
          BY <4>5 DEF InRoom, Registered, RoomOf
        <5>5. \A x \in InRoom(guidToStrHash, r) : x # g => guidToStrHash[x].str # name
          BY NamesAreDistinct DEF InRoom, Registered
        <5>6. NamesIn(entries, r) = NamesIn(guidToStrHash, r) \ {name}
          BY <4>3, <4>4, <5>4, <5>5 DEF NamesIn
        <5>. QED BY <2>3, <3>2, <4>2, <5>3, <5>6
      <4>6. CASE r # RoomOf(g)
        <5>1. ~Told(h, ms)
          <6>1. \A j \in 1 .. Len(lv) : lv[j].to # h
            BY <1>9, <3>1, <4>6 DEF InRoom
          <6>2. \A j \in 1 .. Len(en) : en[j].to # h
            BY <1>10, <1>11, <3>1, <3>4 DEF InRoom
          <6>. QED BY <1>13, <1>14, <2>5, <6>1, <6>2 DEF Told
        <5>2. g \notin InRoom(guidToStrHash, r)
          BY <4>6 DEF InRoom, RoomOf
        <5>3. NamesIn(entries, r) = NamesIn(guidToStrHash, r)
          BY <4>3, <4>4, <5>2 DEF NamesIn
        <5>. QED BY <2>3, <3>2, <4>2, <5>1, <5>3
      <4>. QED BY <4>5, <4>6
    <3>. QED BY <3>3, <3>4
  <2>. QED BY <2>4, <2>5
<1>. QED BY <1>15, <1>16 DEF KnowNames

\* A message to a group: the list is searched, what is found is sent.
LEMMA GroupIsReached ==
  ASSUME RelayIInv, renamed = {}, AreUsers(chatRooms, guidToStrHash, {}),
         NEW g \in Registered, RoomOf(g) # NoGroup,
         NEW to, to = Restrict(OthersInGroup(g),
                               {i \in DOMAIN OthersInGroup(g) : OthersInGroup(g)[i] \in online})
  PROVE  /\ ToSet(to) = {h \in (Registered \cap online) \ {g} : RoomOf(h) = RoomOf(g)}
         /\ IsInjective(to)
<1> DEFINE room == RoomOf(g)
           users == chatRooms[room]
           at == {i \in 1 .. Len(users) : users[i].guid # g /\ users[i].guid \in online}
<1>1. room \in DOMAIN chatRooms
  BY DEF AreUsers, RoomOf, Registered
<1>2. /\ DOMAIN users = 1 .. Len(users)
      /\ \A i \in 1 .. Len(users) :
           /\ users[i].guid \in InRoom(guidToStrHash, room)
           /\ \A j \in 1 .. Len(users) : users[j].guid = users[i].guid => i = j
      /\ \A h \in InRoom(guidToStrHash, room) \ {} : \E i \in 1 .. Len(users) : users[i].guid = h
  BY <1>1, NowUsersAgree, UsersAreInRoom
<1>3. UsersOf(room) = users
  BY <1>1 DEF UsersOf
<1> HIDE DEF users
<1>4. OthersInGroup(g) = [i \in {j \in 1 .. Len(users) : users[j].guid # g} |-> users[i].guid]
  BY <1>2, <1>3 DEF OthersInGroup
<1>5. to = [i \in at |-> users[i].guid]
  BY <1>4 DEF Restrict
<1>6. IsInjective(to)
  BY <1>2, <1>5 DEF IsInjective
<1>7. ToSet(to) = {users[i].guid : i \in at}
  BY <1>5 DEF ToSet
<1>8. \A h : h \in InRoom(guidToStrHash, room) <=> h \in Registered /\ RoomOf(h) = room
  BY DEF InRoom, Registered, RoomOf
<1>9. ASSUME NEW h PROVE (\E i \in at : users[i].guid = h)
                          <=> h \in (Registered \cap online) \ {g} /\ RoomOf(h) = room
  BY <1>2, <1>8
<1>. QED BY <1>6, <1>7, <1>9

LEMMA GroupMessageReaches ==
  ASSUME RelayIInv, renamed = {} => AreUsers(chatRooms, guidToStrHash, {}),
         NEW g \in Member, OnGroupMessage(g)
  PROVE  MessagesReachTheGroup'
<1> DEFINE to == Restrict(OthersInGroup(g),
                          {i \in DOMAIN OthersInGroup(g) : OthersInGroup(g)[i] \in online})
<1>1. /\ g \in Registered /\ relayed' = [from |-> {g}, group |-> RoomOf(g), to |-> to]
      /\ UNCHANGED <<online, guidToStrHash, renamed>>
  BY DEF OnGroupMessage, RelayTo
<1>2. CASE RoomOf(g) # NoGroup /\ renamed = {}
  <2>1. PICK t : t = to
    OBVIOUS
  <2>2. /\ ToSet(t) = {h \in (Registered \cap online) \ {g} : RoomOf(h) = RoomOf(g)}
        /\ IsInjective(t)
    BY <1>1, <1>2, <2>1, GroupIsReached
  <2> HIDE DEF to
  <2>3. /\ Registered' = Registered /\ online' = online /\ \A h : RoomOf(h)' = RoomOf(h)
        /\ relayed'.from = {g} /\ relayed'.group = RoomOf(g) /\ relayed'.to = t
    BY <1>1, <2>1 DEF Registered, RoomOf
  <2>4. /\ ToSet(relayed'.to)
             = {h \in (Registered' \cap online') \ {g} : RoomOf(h)' = relayed'.group}
        /\ IsInjective(relayed'.to)
    BY <2>2, <2>3
  <2>. QED BY <2>3, <2>4 DEF MessagesReachTheGroup, ToSet, IsInjective
<1>3. CASE ~(RoomOf(g) # NoGroup /\ renamed = {})
  <2> HIDE DEF to
  <2>1. relayed'.group = NoGroup \/ renamed' # {}
    BY <1>1, <1>3
  <2>. QED BY <2>1 DEF MessagesReachTheGroup
<1>. QED BY <1>2, <1>3

LEMMA NothingToReach ==
  ASSUME relayed'.from = {} \/ relayed'.group = NoGroup PROVE MessagesReachTheGroup'
BY DEF MessagesReachTheGroup

LEMMA MessagesReach ==
  ASSUME RelayIInv, renamed = {} => AreUsers(chatRooms, guidToStrHash, {}),
         MessagesReachTheGroup, [RelayNext]_relayVars
  PROVE  MessagesReachTheGroup'
<1>1. ASSUME relayed' = NothingRelayed PROVE MessagesReachTheGroup'
  BY <1>1, NothingToReach DEF NothingRelayed
<1>2. \A g, ms : Tell(ms) \/ TellOthers(g, ms) => relayed' = NothingRelayed
  BY DEF Tell, TellOthers
<1>3. ASSUME NEW g \in Member,
             \/ RelayConnect(g) \/ RelayLoses(g) \/ RelayClosedConnection(g)
             \/ RefuseParticipant(g) \/ OnRemoveParticipantRequest(g) \/ ApplicationRemoves(g)
             \/ OnLeaveGroupRequest(g)
      PROVE  relayed' = NothingRelayed
  BY <1>2, <1>3 DEF RelayConnect, RelayLoses, RelayClosedConnection, RefuseParticipant,
     OnRemoveParticipantRequest, ApplicationRemoves, OnLeaveGroupRequest,
     RemoveParticipantOnServer
<1>4. ASSUME NEW g \in Member, NEW key \in Name,
             OnAddParticipantRequest(key, g) \/ ApplicationAdds(key, g)
      PROVE  relayed' = NothingRelayed
  BY <1>2, <1>4 DEF OnAddParticipantRequest, ApplicationAdds
<1>5. ASSUME NEW g \in Member, NEW key \in Name, OnMessageToServer(g, key)
      PROVE  relayed'.group = NoGroup
  BY <1>5 DEF OnMessageToServer, RelayTo
<1>6. ASSUME NEW g \in Member, NEW room \in Group \cup {NoGroup}, OnJoinGroupRequest(g, room)
      PROVE  relayed' = NothingRelayed
  BY <1>2, <1>6, Zenon DEF OnJoinGroupRequest, JoinGroup
<1>7. CASE UNCHANGED relayVars
  BY <1>7 DEF relayVars, MessagesReachTheGroup, Registered, RoomOf, ToSet, IsInjective
<1>. QED BY <1>1, <1>3, <1>4, <1>5, <1>6, <1>7, GroupMessageReaches, NothingToReach DEF RelayNext

\* The groups of the next state, as sets.
GroupsKnown == renamed = {} => /\ AreUsers(chatRooms, guidToStrHash, {})
                               /\ KnowNames(roster, guidToStrHash, online)

LEMMA GroupsKnownMeans ==
  RelayIInv => (GroupsKnown <=> ParticipantsAreUsers /\ RostersAgree)
BY GroupsMean DEF GroupsKnown, ParticipantsAreUsers, RostersAgree

LEMMA GroupsKnownNext ==
  ASSUME RelayIInv', GroupsKnown' PROVE ParticipantsAreUsers' /\ RostersAgree'
BY GroupsKnownMeans, PTL

\* Where nobody's group changes, and who is connected was told nothing of a group.
LEMMA GroupsKept ==
  ASSUME GroupsKnown, UNCHANGED <<chatRooms, guidToStrHash, renamed>>,
         \A h \in Registered \cap online' : h \in online /\ roster'[h] = roster[h]
  PROVE  GroupsKnown'
BY DEF GroupsKnown, AreUsers, KnowNames, InRoom, NamesIn, Registered

LEMMA TellsNothing ==
  ASSUME RelayIInv, NEW g, NEW id,
         id \notin {"RPE_USER_ENTERED_ROOM", "RPE_USER_LEFT_ROOM", "RPE_JOIN_GROUP_SUCCESS"},
         Tell(<<[to |-> g, id |-> id]>>)
  PROVE  \A h \in Member : roster'[h] = roster[h]
<1> SUFFICES ASSUME NEW h \in Member PROVE roster'[h] = roster[h]
  OBVIOUS
<1>1. PICK old : old = roster[h]
  OBVIOUS
<1>2. RosterAfter(h, old, <<>>) = old /\ RosterAfter(h, old, <<[to |-> g, id |-> id]>>) = old
  BY ReadOther
<1>3. \A ms : Tell(ms) => roster'[h] = RosterAfter(h, old, ms)
  BY <1>1 DEF Tell
<1>. QED BY <1>1, <1>2, <1>3

LEMMA ReadNothing ==
  ASSUME NEW h, NEW old PROVE RosterAfter(h, old, <<>>) = old
<1>1. "none" \notin {"RPE_USER_ENTERED_ROOM", "RPE_USER_LEFT_ROOM", "RPE_JOIN_GROUP_SUCCESS"}
  OBVIOUS
<1>. QED BY <1>1, ReadOther

LEMMA TellsNobody ==
  ASSUME Tell(<<>>) PROVE \A h \in Member : roster'[h] = roster[h]
BY ReadNothing DEF Tell

LEMMA RemoveKnown ==
  ASSUME RelayIInv, GroupsKnown, NEW g \in Member, RemoveParticipantOnServer(g),
         UNCHANGED <<online, renamed>>
  PROVE  GroupsKnown'
<1>1. Registered \subseteq Member
  BY RelayIInvMeans DEF ParticipantsWereConnected, EntriesTyped
<1>2. CASE g \notin Registered
  <2>1. Tell(<<>>) /\ UNCHANGED <<chatRooms, guidToStrHash>>
    BY <1>2 DEF RemoveParticipantOnServer
  <2>2. \A h \in Member : roster'[h] = roster[h]
    BY <2>1, TellsNobody
  <2>. QED BY <1>1, <2>1, <2>2, GroupsKept
<1>3. CASE g \in Registered
  <2> SUFFICES ASSUME renamed' = {}
               PROVE  /\ AreUsers(chatRooms', guidToStrHash', {})
                      /\ KnowNames(roster', guidToStrHash', online')
    BY DEF GroupsKnown
  <2>1. /\ renamed = {} /\ AreUsers(chatRooms, guidToStrHash, {})
        /\ KnowNames(roster, guidToStrHash, online)
    BY DEF GroupsKnown
  <2>2. /\ chatRooms' = RoomsAfterLeaving(g)
        /\ guidToStrHash' = WithoutKeys(guidToStrHash, {g})
        /\ TellOthers(g, LeavingNotices(g))
    BY <1>3 DEF RemoveParticipantOnServer
  <2>3. /\ DOMAIN guidToStrHash' = Registered \ {g}
        /\ \A h \in Registered \ {g} : guidToStrHash'[h] = guidToStrHash[h]
    BY <2>2 DEF WithoutKeys, Registered
  <2>4. \A h \in Member : h # g => roster'[h] = RosterAfter(h, roster[h], LeavingNotices(g))
    BY <2>2 DEF TellOthers
  <2>5. AreUsers(RoomsAfterLeaving(g), guidToStrHash, {g})
    BY <1>3, <2>1, LeavingTells
  <2>6. AreUsers(chatRooms', guidToStrHash', {})
    BY <2>2, <2>3, <2>5 DEF AreUsers, Registered
  <2>7. KnowNames(roster', guidToStrHash', online')
    <3>1. PICK names, entries : names = roster' /\ entries = guidToStrHash'
      OBVIOUS
    <3>2. /\ \A h \in Member : h # g => names[h] = RosterAfter(h, roster[h], LeavingNotices(g))
          /\ DOMAIN entries \subseteq Registered /\ Registered \ {g} \subseteq DOMAIN entries
          /\ \A h \in DOMAIN entries : h # g => entries[h] = guidToStrHash[h]
          /\ g \in DOMAIN entries => entries[g].currentRoom = NoGroup
      BY <2>3, <2>4, <3>1
    <3>3. KnowNames(names, entries, online)
      BY <1>3, <2>1, <3>2, LeavingIsKnown
    <3>. QED BY <3>1, <3>3
  <2>. QED BY <2>6, <2>7
<1>. QED BY <1>2, <1>3

LEMMA LeaveKnown ==
  ASSUME RelayIInv, GroupsKnown, NEW g \in Member, OnLeaveGroupRequest(g)
  PROVE  GroupsKnown'
<1> SUFFICES ASSUME renamed' = {}
             PROVE  /\ AreUsers(chatRooms', guidToStrHash', {})
                    /\ KnowNames(roster', guidToStrHash', online')
  BY DEF GroupsKnown
<1>1. /\ g \in Registered /\ chatRooms' = RoomsAfterLeaving(g)
      /\ guidToStrHash' = [guidToStrHash EXCEPT ![g].currentRoom = NoGroup]
      /\ TellOthers(g, LeavingNotices(g))
      /\ UNCHANGED <<online, unheard, strToGuidHash, renamed>>
  BY DEF OnLeaveGroupRequest
<1>2. /\ renamed = {} /\ AreUsers(chatRooms, guidToStrHash, {})
      /\ KnowNames(roster, guidToStrHash, online)
  BY <1>1 DEF GroupsKnown
<1>3. /\ guidToStrHash'[g].currentRoom = NoGroup /\ DOMAIN guidToStrHash' = Registered
      /\ \A h \in Registered : h # g => guidToStrHash'[h] = guidToStrHash[h]
  <2>1. NoGroup \in Group \cup {NoGroup}
    OBVIOUS
  <2>2. /\ guidToStrHash'[g] = [str |-> guidToStrHash[g].str, currentRoom |-> NoGroup]
        /\ Registered' = Registered
        /\ \A h \in Registered : h # g => guidToStrHash'[h] = guidToStrHash[h]
    BY <1>1, <2>1, MovedEntry
  <2>. QED BY <2>2 DEF Registered
<1>4. \A h \in Member : h # g => roster'[h] = RosterAfter(h, roster[h], LeavingNotices(g))
  BY <1>1 DEF TellOthers
<1>5. AreUsers(RoomsAfterLeaving(g), guidToStrHash, {g})
  BY <1>1, <1>2, LeavingTells
<1>6. AreUsers(chatRooms', guidToStrHash', {})
  BY <1>1, <1>3, <1>5 DEF AreUsers, Registered
<1>7. KnowNames(roster', guidToStrHash', online')
  <2>1. PICK names, entries : names = roster' /\ entries = guidToStrHash'
    OBVIOUS
  <2>2. /\ \A h \in Member : h # g => names[h] = RosterAfter(h, roster[h], LeavingNotices(g))
        /\ DOMAIN entries \subseteq Registered /\ Registered \ {g} \subseteq DOMAIN entries
        /\ \A h \in DOMAIN entries : h # g => entries[h] = guidToStrHash[h]
        /\ g \in DOMAIN entries => entries[g].currentRoom = NoGroup
    BY <1>3, <1>4, <2>1
  <2>3. KnowNames(names, entries, online)
    BY <1>1, <1>2, <2>2, LeavingIsKnown
  <2>. QED BY <1>1, <2>1, <2>3
<1>. QED BY <1>6, <1>7

\* A system that is added is in no group.
LEMMA AddKnown ==
  ASSUME RelayIInv, GroupsKnown, NEW key \in Name, NEW g \in Member, NEW result,
         AddParticipantOnServer(key, g, result), UNCHANGED <<online, chatRooms>>,
         \A h \in Member : roster'[h] = roster[h]
  PROVE  GroupsKnown'
<1>1. Registered \subseteq Member
  BY RelayIInvMeans DEF ParticipantsWereConnected, EntriesTyped
<1>2. CASE UNCHANGED <<guidToStrHash, renamed>>
  BY <1>1, <1>2, GroupsKept
<1>3. CASE /\ guidToStrHash' = WithKey(guidToStrHash, g, [str |-> key, currentRoom |-> NoGroup])
           /\ renamed' = renamed \cup (IF InGroup(g) THEN {g} ELSE {})
  <2> SUFFICES ASSUME renamed' = {}
               PROVE  /\ AreUsers(chatRooms', guidToStrHash', {})
                      /\ KnowNames(roster', guidToStrHash', online')
    BY DEF GroupsKnown
  <2>1. renamed = {} /\ ~InGroup(g)
    BY <1>3
  <2>2. AreUsers(chatRooms, guidToStrHash, {}) /\ KnowNames(roster, guidToStrHash, online)
    BY <2>1 DEF GroupsKnown
  <2>3. /\ DOMAIN guidToStrHash' = Registered \cup {g}
        /\ guidToStrHash'[g].currentRoom = NoGroup
        /\ \A h \in Registered : h # g => guidToStrHash'[h] = guidToStrHash[h]
    BY <1>3 DEF WithKey, Registered
  <2>4. g \in Registered => guidToStrHash[g].currentRoom = NoGroup
    BY <2>1 DEF InGroup, RoomOf
  <2>5. AreUsers(chatRooms', guidToStrHash', {})
    BY <2>2, <2>3 DEF AreUsers, Registered
  <2>6. ASSUME NEW r, r # NoGroup PROVE NamesIn(guidToStrHash', r) = NamesIn(guidToStrHash, r)
    <3>1. InRoom(guidToStrHash', r) = InRoom(guidToStrHash, r)
      BY <2>3, <2>4, <2>6 DEF InRoom, Registered
    <3>2. \A h \in InRoom(guidToStrHash, r) : guidToStrHash'[h] = guidToStrHash[h]
      BY <2>3, <2>4, <2>6 DEF InRoom, Registered
    <3>. QED BY <3>1, <3>2 DEF NamesIn
  <2>7. KnowNames(roster', guidToStrHash', online')
    BY <1>1, <2>2, <2>3, <2>6 DEF KnowNames, Registered
  <2>. QED BY <2>5, <2>7
<1>. QED BY <1>2, <1>3 DEF AddParticipantOnServer

LEMMA JoinKnown ==
  ASSUME RelayIInv, RelayIInv', GroupsKnown, NEW g \in Member,
         NEW room \in Group \cup {NoGroup}, OnJoinGroupRequest(g, room)
  PROVE  GroupsKnown'
<1>1. Registered \subseteq Member
  BY RelayIInvMeans DEF ParticipantsWereConnected, EntriesTyped
<1>2. CASE g \in Registered /\ room # NoGroup /\ RoomOf(g) # room
  <2>1. JoinGroup(g, room) /\ UNCHANGED <<online, unheard, strToGuidHash, renamed>>
    BY <1>2 DEF OnJoinGroupRequest
  <2>. QED BY <1>2, <2>1, JoiningIsKnown DEF GroupsKnown
<1>3. CASE ~(g \in Registered /\ room # NoGroup /\ RoomOf(g) # room)
  <2>1. /\ Tell(<<[to |-> g, id |-> "RPE_JOIN_GROUP_FAILURE"]>>)
        /\ UNCHANGED <<chatRooms, guidToStrHash, online, renamed>>
    BY <1>3 DEF OnJoinGroupRequest
  <2>2. \A h \in Member : roster'[h] = roster[h]
    BY <2>1, TellsNothing
  <2>. QED BY <1>1, <2>1, <2>2, GroupsKept
<1>. QED BY <1>2, <1>3

LEMMA GroupsKnownInductive ==
  ASSUME RelayIInv, RelayIInv', GroupsKnown, [RelayNext]_relayVars PROVE GroupsKnown'
<1>1. Registered \subseteq Member /\ Registered \subseteq online \cup unheard
  BY RelayIInvMeans DEF ParticipantsWereConnected, EntriesTyped
<1>2. ASSUME NEW g \in Member, RelayConnect(g) \/ RefuseParticipant(g) PROVE GroupsKnown'
  <2>1. \/ Tell(<<>>)
        \/ Tell(<<[to |-> g, id |-> "RPE_ADD_CLIENT_NOT_ALLOWED"]>>)
    BY <1>2 DEF RelayConnect, RefuseParticipant
  <2>2. \A h \in Member : roster'[h] = roster[h]
    BY <2>1, TellsNothing, TellsNobody
  <2>3. /\ UNCHANGED <<chatRooms, guidToStrHash, renamed>>
        /\ Registered \cap online' \subseteq online
    BY <1>1, <1>2 DEF RelayConnect, RefuseParticipant
  <2>. QED BY <1>1, <2>2, <2>3, GroupsKept
<1>3. ASSUME NEW g \in Member, RelayLoses(g) PROVE GroupsKnown'
  <2>1. /\ online' = online \ {g} /\ UNCHANGED <<chatRooms, guidToStrHash, renamed>>
        /\ \A h \in Member : h # g => roster'[h] = RosterAfter(h, roster[h], <<>>)
    BY <1>3 DEF RelayLoses, TellOthers
  <2>2. ASSUME NEW h \in Registered \cap online' PROVE roster'[h] = roster[h]
    <3>1. PICK old : old = roster[h]
      OBVIOUS
    <3>2. RosterAfter(h, old, <<>>) = old
      BY ReadNothing
    <3>. QED BY <1>1, <2>1, <3>1, <3>2
  <2>. QED BY <2>1, <2>2, GroupsKept
<1>4. ASSUME NEW g \in Member,
             OnGroupMessage(g) \/ \E key \in Name : OnMessageToServer(g, key)
      PROVE  GroupsKnown'
  BY <1>4, GroupsKept DEF OnGroupMessage, OnMessageToServer, RelayTo
<1>5. ASSUME NEW g \in Member,
             \/ RelayClosedConnection(g) \/ OnRemoveParticipantRequest(g)
             \/ ApplicationRemoves(g)
      PROVE  GroupsKnown'
  BY <1>5, RemoveKnown
     DEF RelayClosedConnection, OnRemoveParticipantRequest, ApplicationRemoves
<1>6. ASSUME NEW g \in Member, NEW key \in Name, OnAddParticipantRequest(key, g)
      PROVE  GroupsKnown'
  <2>1. PICK result \in AddResults :
          AddParticipantOnServer(key, g, result) /\ Tell(<<[to |-> g, id |-> result]>>)
    BY <1>6 DEF OnAddParticipantRequest
  <2>2. \A h \in Member : roster'[h] = roster[h]
    BY <2>1, TellsNothing DEF AddResults
  <2>. QED BY <1>6, <2>1, <2>2, AddKnown DEF OnAddParticipantRequest
<1>7. ASSUME NEW g \in Member, NEW key \in Name, ApplicationAdds(key, g) PROVE GroupsKnown'
  <2>1. \A h \in Member : roster'[h] = roster[h]
    BY <1>7, TellsNobody DEF ApplicationAdds
  <2>. QED BY <1>7, <2>1, AddKnown DEF ApplicationAdds
<1>8. ASSUME NEW g \in Member, OnLeaveGroupRequest(g) PROVE GroupsKnown'
  BY <1>8, LeaveKnown
<1>9. ASSUME NEW g \in Member, NEW room \in Group \cup {NoGroup}, OnJoinGroupRequest(g, room)
      PROVE  GroupsKnown'
  BY <1>9, JoinKnown
<1>10. CASE UNCHANGED relayVars
  BY <1>10, GroupsKept DEF relayVars
<1>. QED BY <1>2, <1>3, <1>4, <1>5, <1>6, <1>7, <1>8, <1>9, <1>10 DEF RelayNext

-----------------------------------------------------------------------------
(* Theorems *)

\* The inductive invariant of the relay.
THEOREM Invariant == RelaySpec => []RelayIInv
<1>1. RelayInit => RelayIInv
  BY DEF RelayInit, RelayIInv, EntriesTyped, RelayEntriesAgree, IndicesAgree,
         ParticipantsWereConnected, UsersAreParticipants, Registered
<1>2. RelayIInv /\ [RelayNext]_relayVars => RelayIInv'
  BY RelayInductive
<1>. QED BY <1>1, <1>2, PTL DEF RelaySpec

\* The two hashes of RelayPlugin.cpp, the users in its rooms and the connections
\* agree, for any number of systems, names and groups: no handler, and no order
\* of handlers, leaves a pointer to an entry that has been deleted, or a user in
\* a room it has left, unless a system was added again while it was in a group.
THEOREM Entries == RelaySpec => []RelayEntriesAgree
<1>1. RelayIInv => RelayEntriesAgree
  BY DEF RelayIInv
<1>. QED BY <1>1, Invariant, PTL

\* The inductive invariant of the groups.
THEOREM GroupsInvariant == RelaySpec => []GroupsIInv
<1>1. RelayInit => GroupsIInv
  <2>1. RelayInit => RelayIInv
    BY DEF RelayInit, RelayIInv, EntriesTyped, RelayEntriesAgree, IndicesAgree,
           ParticipantsWereConnected, UsersAreParticipants, Registered
  <2>2. RelayInit => ParticipantsAreUsers /\ GroupsAreWhole
    BY DEF RelayInit, ParticipantsAreUsers, GroupsAreWhole, RostersAgree,
           MessagesReachTheGroup, NothingRelayed, Registered
  <2>. QED BY <2>1, <2>2 DEF GroupsIInv
<1>2. GroupsIInv /\ [RelayNext]_relayVars => GroupsIInv'
  <2> SUFFICES ASSUME GroupsIInv, [RelayNext]_relayVars PROVE GroupsIInv'
    OBVIOUS
  <2>1. RelayIInv /\ GroupsKnown /\ MessagesReachTheGroup
    BY GroupsKnownMeans DEF GroupsIInv, GroupsAreWhole
  <2>2. RelayIInv'
    BY <2>1, RelayInductive
  <2>3. GroupsKnown'
    BY <2>1, <2>2, GroupsKnownInductive
  <2>4. ParticipantsAreUsers' /\ RostersAgree'
    BY <2>2, <2>3, GroupsKnownNext
  <2>5. MessagesReachTheGroup'
    BY <2>1, MessagesReach DEF GroupsKnown
  <2>. QED BY <2>2, <2>4, <2>5 DEF GroupsIInv, GroupsAreWhole
<1>. QED BY <1>1, <1>2, PTL DEF RelaySpec

\* What a system is told of its group, by the answer to its own request and by
\* the notices that follow, is who is in it, and a message it sends to its group
\* reaches each other connected system of the group once and nobody else: for any
\* number of systems, names and groups, and whatever is lost or asked in between,
\* as long as no system was added again while it was in a group.
THEOREM Groups == RelaySpec => []GroupsAreWhole
<1>1. GroupsIInv => GroupsAreWhole
  BY DEF GroupsIInv
<1>. QED BY <1>1, GroupsInvariant, PTL

-----------------------------------------------------------------------------
(* What else is typed in the relay *)

\* What a message says of a group are names.
SaysNames(m) ==
  /\ m.id \in {"RPE_USER_ENTERED_ROOM", "RPE_USER_LEFT_ROOM"} => m.str \in Name
  /\ m.id = "RPE_JOIN_GROUP_SUCCESS" => ToSet(m.users) \subseteq Name

LEMMA RosterOfNames ==
  ASSUME NEW g, NEW old \in SUBSET Name, NEW ms, Len(ms) \in Nat,
         \A i \in 1 .. Len(ms) : SaysNames(ms[i])
  PROVE  RosterAfter(g, old, ms) \in SUBSET Name
<1>1. PICK f : /\ f[0] = old
               /\ \A n \in 1 .. Len(ms) : f[n] = Heard(g, f[n - 1], ms[n])
               /\ RosterAfter(g, old, ms) = f[Len(ms)]
  BY ReadOf
<1> DEFINE N == Len(ms)
           K == {n \in 0 .. N : f[n] \in SUBSET Name}
<1>2. 0 \in K
  BY <1>1
<1>3. ASSUME NEW n \in 1 .. N, n - 1 \in K PROVE n \in K
  <2>1. f[n] = Heard(g, f[n - 1], ms[n]) /\ f[n - 1] \in SUBSET Name /\ SaysNames(ms[n])
    BY <1>1, <1>3
  <2>2. Heard(g, f[n - 1], ms[n]) \in SUBSET Name
    BY <2>1 DEF Heard, SaysNames
  <2>. QED BY <2>1, <2>2
<1>4. N \in Nat
  OBVIOUS
<1> HIDE DEF K, N
<1>5. \A i \in 0 .. N : i \in K
  BY <1>2, <1>3, <1>4, InductionUpTo
<1>. QED BY <1>1, <1>4, <1>5 DEF K, N

\* A group is kept as long as it has users.
RoomsFilled(rooms) == \A r \in DOMAIN rooms : rooms[r] # <<>>

RelayTyped ==
  /\ online \cap unheard = {}
  /\ RoomsFilled(chatRooms)
  /\ relayed.from \subseteq Member /\ relayed.group \in Group \cup {NoGroup}
  /\ ToSet(relayed.to) \subseteq Member
  /\ roster \in [Member -> SUBSET Name]
  /\ renamed \subseteq Member

LEMMA RelayTypedMeans == RelayIInv /\ RelayTyped => RelayTypeOK
BY DEF RelayIInv, EntriesTyped, RelayEntriesAgree, ParticipantsWereConnected,
   RelayTyped, RoomsFilled, RelayTypeOK

LEMMA UsersTyped ==
  ASSUME NEW users \in Seq(StrAndGuid)
  PROVE  /\ DOMAIN users = 1 .. Len(users)
         /\ \A i \in DOMAIN users : users[i].guid \in Member /\ users[i].str \in Name
<1>1. \A i \in DOMAIN users : users[i] \in StrAndGuid
  OBVIOUS
<1>. QED BY <1>1 DEF StrAndGuid

\* Who is in the indices is a system with a name.
LEMMA EntryTyped ==
  ASSUME RelayIInv, NEW g \in Registered
  PROVE  g \in Member /\ guidToStrHash[g].str \in Name /\ RoomOf(g) \in Group \cup {NoGroup}
BY DEF RelayIInv, EntriesTyped, RelayEntriesAgree, ParticipantsWereConnected,
   StrAndGuidAndRoom, RoomOf

LEMMA LeavingTyped ==
  ASSUME RelayIInv, RoomsFilled(chatRooms), NEW g \in Registered
  PROVE  /\ RoomsFilled(RoomsAfterLeaving(g))
         /\ LeavingNotices(g) \in Seq(Notice)
         /\ Len(LeavingNotices(g)) \in Nat
<1> DEFINE room == RoomOf(g)
           left == RemoveUserEntries(UsersOf(room), g)
<1>1. guidToStrHash[g].str \in Name
  BY EntryTyped
<1>2. UsersOf(room) \in Seq(StrAndGuid)
  BY DEF RelayIInv, EntriesTyped, UsersOf
<1>3. left \in Seq(StrAndGuid)
  BY <1>2, RemoveUserEntriesFacts
<1>4. LeavingNotices(g) = NotifyUsersInRoom(left, "RPE_USER_LEFT_ROOM", guidToStrHash[g].str)
  BY DEF LeavingNotices
<1> HIDE DEF left
<1>5. "RPE_USER_LEFT_ROOM" \in {"RPE_USER_LEFT_ROOM", "RPE_USER_ENTERED_ROOM"}
  OBVIOUS
<1>6. LeavingNotices(g) \in Seq(Notice) /\ Len(LeavingNotices(g)) \in Nat
  <2>1. PICK str : str = guidToStrHash[g].str
    OBVIOUS
  <2>2. /\ NotifyUsersInRoom(left, "RPE_USER_LEFT_ROOM", str) \in Seq(Notice)
        /\ Len(NotifyUsersInRoom(left, "RPE_USER_LEFT_ROOM", str)) \in Nat
    BY <1>1, <1>3, <1>5, <2>1, NotifyFacts
  <2>. QED BY <1>4, <2>1, <2>2
<1>7. RoomsFilled(RoomsAfterLeaving(g))
  <2>1. CASE room \notin DOMAIN chatRooms
    BY <2>1 DEF RoomsAfterLeaving
  <2>2. CASE room \in DOMAIN chatRooms
    <3>1. RoomsAfterLeaving(g) = WithUsers(chatRooms, room, left)
      BY <2>2 DEF RoomsAfterLeaving, left
    <3>. QED BY <3>1 DEF WithUsers, WithoutKeys, WithKey, RoomsFilled
  <2>. QED BY <2>1, <2>2
<1>. QED BY <1>6, <1>7

\* What is sent of users and names keeps rosters sets of names.
LEMMA TellTyped ==
  ASSUME roster \in [Member -> SUBSET Name], NEW g, NEW ms, Len(ms) \in Nat,
         \A i \in 1 .. Len(ms) : SaysNames(ms[i]), Tell(ms) \/ TellOthers(g, ms)
  PROVE  roster' \in [Member -> SUBSET Name] /\ relayed' = NothingRelayed
<1>1. ASSUME NEW h \in Member PROVE RosterAfter(h, roster[h], ms) \in SUBSET Name
  <2>1. roster[h] \in SUBSET Name
    OBVIOUS
  <2>2. PICK old : old = roster[h]
    OBVIOUS
  <2>3. RosterAfter(h, old, ms) \in SUBSET Name
    BY <2>1, <2>2, RosterOfNames
  <2>. QED BY <2>2, <2>3
<1>. QED BY <1>1 DEF Tell, TellOthers

LEMMA NoticesSayNames ==
  ASSUME NEW ms \in Seq(Notice)
  PROVE  Len(ms) \in Nat /\ \A i \in 1 .. Len(ms) : SaysNames(ms[i])
<1>1. \A i \in 1 .. Len(ms) : ms[i] \in Notice
  OBVIOUS
<1>. QED BY <1>1 DEF Notice, SaysNames

\* Nothing, or one answer that says nothing of a group.
LEMMA AnswerSaysNames ==
  /\ Len(<<>>) \in Nat /\ \A i \in 1 .. Len(<<>>) : SaysNames(<<>>[i])
  /\ \A g, id : id \notin {"RPE_USER_ENTERED_ROOM", "RPE_USER_LEFT_ROOM", "RPE_JOIN_GROUP_SUCCESS"}
       => LET ms == <<[to |-> g, id |-> id]>>
          IN Len(ms) \in Nat /\ \A i \in 1 .. Len(ms) : SaysNames(ms[i])
<1>1. Len(<<>>) = 0
  OBVIOUS
<1>2. ASSUME NEW g, NEW id,
             id \notin {"RPE_USER_ENTERED_ROOM", "RPE_USER_LEFT_ROOM", "RPE_JOIN_GROUP_SUCCESS"}
      PROVE  LET ms == <<[to |-> g, id |-> id]>>
             IN Len(ms) \in Nat /\ \A i \in 1 .. Len(ms) : SaysNames(ms[i])
  <2> DEFINE ms == <<[to |-> g, id |-> id]>>
  <2>1. Len(ms) = 1 /\ ms[1].id = id
    OBVIOUS
  <2> HIDE DEF ms
  <2>. QED BY <1>2, <2>1 DEF SaysNames, ms
<1>. QED BY <1>1, <1>2

LEMMA NothingTyped ==
  relayed' = NothingRelayed => /\ relayed'.from \subseteq Member
                               /\ relayed'.group \in Group \cup {NoGroup}
                               /\ ToSet(relayed'.to) \subseteq Member
BY DEF NothingRelayed, ToSet

LEMMA AnswerTyped ==
  ASSUME roster \in [Member -> SUBSET Name], NEW g, NEW h, NEW id,
         id \notin {"RPE_USER_ENTERED_ROOM", "RPE_USER_LEFT_ROOM", "RPE_JOIN_GROUP_SUCCESS"},
         Tell(<<>>) \/ TellOthers(g, <<>>) \/ Tell(<<[to |-> h, id |-> id]>>)
  PROVE  roster' \in [Member -> SUBSET Name] /\ relayed' = NothingRelayed
<1>1. PICK ms : /\ Tell(ms) \/ TellOthers(g, ms)
                /\ Len(ms) \in Nat /\ \A i \in 1 .. Len(ms) : SaysNames(ms[i])
  BY AnswerSaysNames
<1>. QED BY <1>1, TellTyped

\* A system is removed, or leaves its group.
LEMMA RemoveTyped ==
  ASSUME RelayIInv, RelayTyped, NEW g \in Member, RemoveParticipantOnServer(g)
  PROVE  /\ RoomsFilled(chatRooms')
         /\ roster' \in [Member -> SUBSET Name] /\ relayed' = NothingRelayed
<1>1. CASE g \in Registered
  <2>1. chatRooms' = RoomsAfterLeaving(g) /\ TellOthers(g, LeavingNotices(g))
    BY <1>1 DEF RemoveParticipantOnServer
  <2>2. /\ RoomsFilled(RoomsAfterLeaving(g)) /\ LeavingNotices(g) \in Seq(Notice)
    BY <1>1, LeavingTyped DEF RelayTyped
  <2>3. PICK ms \in Seq(Notice) : TellOthers(g, ms)
    BY <2>1, <2>2
  <2>. QED BY <2>1, <2>2, <2>3, NoticesSayNames, TellTyped DEF RelayTyped
<1>2. CASE g \notin Registered
  <2>1. chatRooms' = chatRooms /\ Tell(<<>>)
    BY <1>2 DEF RemoveParticipantOnServer
  <2>. QED BY <2>1, ReadNothing, TellsNobody DEF RelayTyped, Tell, RoomsFilled
<1>. QED BY <1>1, <1>2

LEMMA JoinTyped ==
  ASSUME RelayIInv, RelayTyped, NEW g \in Registered, NEW room \in Group, JoinGroup(g, room)
  PROVE  /\ RoomsFilled(chatRooms')
         /\ roster' \in [Member -> SUBSET Name] /\ relayed' = NothingRelayed
<1> DEFINE left == RoomsAfterLeaving(g)
           users == IF room \in DOMAIN left THEN left[room] ELSE <<>>
           name == guidToStrHash[g].str
           new == [str |-> name, guid |-> g]
           all == Append(users, new)
           lv == IF RoomOf(g) = NoGroup THEN <<>> ELSE LeavingNotices(g)
           en == EnteringNotices(users, new)
           answer == [to |-> g, id |-> "RPE_JOIN_GROUP_SUCCESS",
                      users |-> [i \in DOMAIN all |-> all[i].str]]
           ms == lv \o en \o <<answer>>
<1>1. chatRooms' = WithKey(left, room, all) /\ Tell(ms)
  BY Zenon DEF JoinGroup
<1>2. g \in Member /\ name \in Name
  BY EntryTyped
<1>3. new \in StrAndGuid /\ new.str = name
  BY <1>2 DEF StrAndGuid
<1>4. /\ RoomsFilled(left) /\ LeavingNotices(g) \in Seq(Notice)
      /\ RoomsTyped(left)
  BY LeavingTyped, LeavingKeepsUsers DEF RelayTyped
<1> HIDE DEF left, name, new
<1>5. users \in Seq(StrAndGuid)
  BY <1>4 DEF RoomsTyped
<1> HIDE DEF users
<1>6. all \in Seq(StrAndGuid) /\ all # <<>>
  <2>1. all \in Seq(StrAndGuid) /\ Len(all) = Len(users) + 1 /\ Len(users) \in Nat
    BY <1>3, <1>5, AppendFacts
  <2> HIDE DEF all
  <2>2. Len(<<>>) = 0
    OBVIOUS
  <2>. QED BY <2>1, <2>2
<1> HIDE DEF all
<1>7. RoomsFilled(chatRooms')
  BY <1>1, <1>4, <1>6 DEF RoomsFilled, WithKey
<1>8. lv \in Seq(Notice)
  BY <1>4
<1>9. en \in Seq(Notice)
  <2>1. "RPE_USER_ENTERED_ROOM" \in {"RPE_USER_LEFT_ROOM", "RPE_USER_ENTERED_ROOM"}
    OBVIOUS
  <2>2. en = NotifyUsersInRoom(users, "RPE_USER_ENTERED_ROOM", name)
    BY <1>3 DEF EnteringNotices
  <2>. QED BY <1>2, <1>5, <2>1, <2>2, NotifyFacts
<1>10. SaysNames(answer)
  <2>1. \A i \in DOMAIN all : all[i].str \in Name
    BY <1>6, UsersTyped
  <2>2. /\ answer.id = "RPE_JOIN_GROUP_SUCCESS"
        /\ answer.users = [i \in DOMAIN all |-> all[i].str]
    OBVIOUS
  <2> HIDE DEF answer
  <2>. QED BY <2>1, <2>2 DEF SaysNames, ToSet
<1> HIDE DEF lv, en, answer
<1>11. ms = InThreeParts(lv, en, answer)
  BY DEF InThreeParts
<1> HIDE DEF ms
<1>12. Len(ms) \in Nat /\ \A i \in 1 .. Len(ms) : SaysNames(ms[i])
  <2>1. /\ \A i \in 1 .. Len(lv) : SaysNames(lv[i])
        /\ \A i \in 1 .. Len(en) : SaysNames(en[i])
    BY <1>8, <1>9, NoticesSayNames
  <2>2. /\ Len(ms) \in Nat
        /\ \A i \in 1 .. Len(ms) : \/ \E j \in 1 .. Len(lv) : ms[i] = lv[j]
                                   \/ \E j \in 1 .. Len(en) : ms[i] = en[j]
                                   \/ ms[i] = answer
    BY <1>8, <1>9, <1>11, ThreeParts
  <2>. QED BY <1>10, <2>1, <2>2
<1>. QED BY <1>1, <1>7, <1>12, TellTyped DEF RelayTyped

\* What is sent on goes to systems, from a group or none.
LEMMA RelayToTyped ==
  ASSUME RelayIInv, NEW g \in Member, NEW group \in Group \cup {NoGroup}, NEW targets,
         \A i \in DOMAIN targets : targets[i] \in Member, RelayTo(g, group, targets)
  PROVE  /\ relayed'.from \subseteq Member /\ relayed'.group \in Group \cup {NoGroup}
         /\ ToSet(relayed'.to) \subseteq Member /\ roster' = roster
BY DEF RelayTo, Restrict, ToSet

LEMMA RelayTypedInductive ==
  ASSUME RelayIInv, RelayTyped, [RelayNext]_relayVars PROVE RelayTyped'
<1> USE DEF RelayTyped
<1>1. roster \in [Member -> SUBSET Name]
  OBVIOUS
<1>2. ASSUME roster' \in [Member -> SUBSET Name], relayed' = NothingRelayed,
             online' \cap unheard' = {}, RoomsFilled(chatRooms'), renamed' \subseteq Member
      PROVE  RelayTyped'
  BY <1>2, NothingTyped DEF RoomsFilled, ToSet
<1>3. ASSUME NEW g \in Member, RelayConnect(g) \/ RelayLoses(g) PROVE RelayTyped'
  <2>1. /\ online' \cap unheard' = {} /\ UNCHANGED <<chatRooms, renamed>>
        /\ Tell(<<>>) \/ TellOthers(g, <<>>)
    BY <1>3 DEF RelayConnect, RelayLoses
  <2>2. "none" \notin {"RPE_USER_ENTERED_ROOM", "RPE_USER_LEFT_ROOM", "RPE_JOIN_GROUP_SUCCESS"}
    OBVIOUS
  <2>. QED BY <1>1, <1>2, <2>1, <2>2, AnswerTyped
<1>4. ASSUME NEW g \in Member,
             RelayClosedConnection(g) \/ OnRemoveParticipantRequest(g) \/ ApplicationRemoves(g)
      PROVE  RelayTyped'
  <2>1. /\ RemoveParticipantOnServer(g) /\ UNCHANGED <<online, renamed>>
        /\ unheard' \subseteq unheard
    BY <1>4 DEF RelayClosedConnection, OnRemoveParticipantRequest, ApplicationRemoves
  <2>. QED BY <1>2, <2>1, RemoveTyped
<1>5. ASSUME NEW g \in Member, NEW key \in Name,
             OnAddParticipantRequest(key, g) \/ ApplicationAdds(key, g)
      PROVE  RelayTyped'
  <2>1. PICK result \in AddResults :
          /\ AddParticipantOnServer(key, g, result)
          /\ Tell(<<>>) \/ Tell(<<[to |-> g, id |-> result]>>)
          /\ UNCHANGED <<online, unheard, chatRooms>>
    BY <1>5, Zenon DEF OnAddParticipantRequest, ApplicationAdds
  <2>2. result \notin {"RPE_USER_ENTERED_ROOM", "RPE_USER_LEFT_ROOM", "RPE_JOIN_GROUP_SUCCESS"}
    BY DEF AddResults
  <2>3. renamed' \subseteq Member
    BY <2>1 DEF AddParticipantOnServer
  <2>. QED BY <1>1, <1>2, <2>1, <2>2, <2>3, AnswerTyped
<1>6. ASSUME NEW g \in Member, RefuseParticipant(g) PROVE RelayTyped'
  <2>1. "RPE_ADD_CLIENT_NOT_ALLOWED" \notin
          {"RPE_USER_ENTERED_ROOM", "RPE_USER_LEFT_ROOM", "RPE_JOIN_GROUP_SUCCESS"}
    OBVIOUS
  <2>. QED BY <1>1, <1>2, <1>6, <2>1, AnswerTyped DEF RefuseParticipant
<1>7. ASSUME NEW g \in Member, NEW room \in Group \cup {NoGroup}, OnJoinGroupRequest(g, room)
      PROVE  RelayTyped'
  <2>1. UNCHANGED <<online, unheard, renamed>>
    BY <1>7 DEF OnJoinGroupRequest
  <2>2. CASE g \in Registered /\ room # NoGroup /\ RoomOf(g) # room
    <3>1. JoinGroup(g, room)
      BY <1>7, <2>2, Zenon DEF OnJoinGroupRequest
    <3>2. /\ RoomsFilled(chatRooms')
          /\ roster' \in [Member -> SUBSET Name] /\ relayed' = NothingRelayed
      BY <2>2, <3>1, JoinTyped
    <3>. QED BY <1>2, <2>1, <3>2
  <2>3. CASE ~(g \in Registered /\ room # NoGroup /\ RoomOf(g) # room)
    <3>1. Tell(<<[to |-> g, id |-> "RPE_JOIN_GROUP_FAILURE"]>>) /\ UNCHANGED chatRooms
      BY <1>7, <2>3, Zenon DEF OnJoinGroupRequest
    <3>2. "RPE_JOIN_GROUP_FAILURE" \notin
            {"RPE_USER_ENTERED_ROOM", "RPE_USER_LEFT_ROOM", "RPE_JOIN_GROUP_SUCCESS"}
      OBVIOUS
    <3>. QED BY <1>1, <1>2, <2>1, <3>1, <3>2, AnswerTyped
  <2>. QED BY <2>2, <2>3
<1>8. ASSUME NEW g \in Member, OnLeaveGroupRequest(g) PROVE RelayTyped'
  <2>1. /\ g \in Registered /\ chatRooms' = RoomsAfterLeaving(g)
        /\ TellOthers(g, LeavingNotices(g)) /\ UNCHANGED <<online, unheard, renamed>>
    BY <1>8 DEF OnLeaveGroupRequest
  <2>2. RoomsFilled(RoomsAfterLeaving(g)) /\ LeavingNotices(g) \in Seq(Notice)
    BY <2>1, LeavingTyped
  <2>3. PICK ms \in Seq(Notice) : TellOthers(g, ms)
    BY <2>1, <2>2
  <2>4. roster' \in [Member -> SUBSET Name] /\ relayed' = NothingRelayed
    BY <1>1, <2>3, NoticesSayNames, TellTyped
  <2>. QED BY <1>2, <2>1, <2>2, <2>4
<1>9. ASSUME NEW g \in Member, OnGroupMessage(g) PROVE RelayTyped'
  <2>1. /\ g \in Registered /\ RelayTo(g, RoomOf(g), OthersInGroup(g))
        /\ UNCHANGED <<online, unheard, chatRooms, renamed>>
    BY <1>9 DEF OnGroupMessage
  <2>2. UsersOf(RoomOf(g)) \in Seq(StrAndGuid) /\ RoomOf(g) \in Group \cup {NoGroup}
    BY <2>1, EntryTyped DEF RelayIInv, EntriesTyped, UsersOf
  <2>3. \A i \in DOMAIN OthersInGroup(g) : OthersInGroup(g)[i] \in Member
    <3>1. \A i \in DOMAIN UsersOf(RoomOf(g)) : UsersOf(RoomOf(g))[i].guid \in Member
      BY <2>2, UsersTyped
    <3>. QED BY <3>1 DEF OthersInGroup
  <2>4. /\ relayed'.from \subseteq Member /\ relayed'.group \in Group \cup {NoGroup}
        /\ ToSet(relayed'.to) \subseteq Member /\ roster' = roster
    BY <2>1, <2>2, <2>3, RelayToTyped
  <2>. QED BY <2>1, <2>4 DEF RoomsFilled, ToSet
<1>10. ASSUME NEW g \in Member, NEW key \in Name, OnMessageToServer(g, key) PROVE RelayTyped'
  <2>1. /\ key \in DOMAIN strToGuidHash /\ RelayTo(g, NoGroup, <<strToGuidHash[key]>>)
        /\ UNCHANGED <<online, unheard, chatRooms, renamed>>
    BY <1>10 DEF OnMessageToServer
  <2>2. strToGuidHash[key] \in Member
    BY <2>1 DEF RelayIInv, EntriesTyped
  <2>3. \A i \in DOMAIN <<strToGuidHash[key]>> : <<strToGuidHash[key]>>[i] \in Member
    BY <2>2
  <2>4. /\ relayed'.from \subseteq Member /\ relayed'.group \in Group \cup {NoGroup}
        /\ ToSet(relayed'.to) \subseteq Member /\ roster' = roster
    BY <2>1, <2>3, RelayToTyped
  <2>. QED BY <2>1, <2>4 DEF RoomsFilled, ToSet
<1>11. CASE UNCHANGED relayVars
  BY <1>11 DEF relayVars, RoomsFilled, ToSet
<1>. QED BY <1>3, <1>4, <1>5, <1>6, <1>7, <1>8, <1>9, <1>10, <1>11 DEF RelayNext

\* The indices, the groups, what is sent on and what systems know of their groups keep
\* their types (RelayPlugin), whatever is asked of the server and whoever is lost.
THEOREM RelayTypes == RelaySpec => []RelayTypeOK
<1>1. RelayInit => RelayTyped
  BY DEF RelayInit, RelayTyped, RoomsFilled, NothingRelayed, ToSet
<1>2. RelayIInv /\ RelayTyped /\ [RelayNext]_relayVars => RelayTyped'
  BY RelayTypedInductive
<1>. QED BY <1>1, <1>2, Invariant, RelayTypedMeans, PTL DEF RelaySpec

-----------------------------------------------------------------------------
(* What a loop computes *)

\* f is what a loop over the numbers up to N has after each of them.
IsLoop(f, A, N, first, step) ==
  f \in [0 .. N -> A] /\ f[0] = first /\ \A n \in 1 .. N : f[n] = step[<<f[n - 1], n>>]

\* There is one for any function from what it has, and the number, to what it has next.
LEMMA RecursionUpTo ==
  ASSUME NEW N \in Nat, NEW A, NEW first \in A, NEW step \in [A \X (1 .. N) -> A]
  PROVE  \E f : IsLoop(f, A, N, first, step)
<1> DEFINE Loop(f, n) == f \in [0 .. n -> A] /\ f[0] = first
                         /\ \A k \in 1 .. n : f[k] = step[<<f[k - 1], k>>]
           K == {n \in 0 .. N : \E f : Loop(f, n)}
<1>1. 0 \in K
  <2> DEFINE f == [k \in 0 .. 0 |-> first]
  <2>1. f \in [0 .. 0 -> A] /\ f[0] = first
    OBVIOUS
  <2>2. Loop(f, 0)
    BY <2>1
  <2> HIDE DEF Loop, f
  <2>. QED BY <2>2
<1>2. ASSUME NEW n \in 1 .. N, n - 1 \in K PROVE n \in K
  <2>1. PICK f : Loop(f, n - 1)
    BY <1>2
  <2> DEFINE h == [k \in 0 .. n |-> IF k < n THEN f[k] ELSE step[<<f[n - 1], n>>]]
  <2>2. n - 1 \in 0 .. n - 1 /\ f[n - 1] \in A
    BY <2>1
  <2>3. step[<<f[n - 1], n>>] \in A
    BY <2>2
  <2>4. h \in [0 .. n -> A] /\ h[0] = first
    BY <2>1, <2>3
  <2>5. ASSUME NEW k \in 1 .. n PROVE h[k] = step[<<h[k - 1], k>>]
    <3>1. k - 1 \in 0 .. n /\ k - 1 < n /\ h[k - 1] = f[k - 1]
      OBVIOUS
    <3>2. CASE k = n
      BY <3>1, <3>2
    <3>3. CASE k # n
      <4>1. k \in 1 .. n - 1 /\ h[k] = f[k]
        BY <3>3
      <4>. QED BY <2>1, <3>1, <4>1
    <3>. QED BY <3>2, <3>3
  <2> HIDE DEF h
  <2>6. Loop(h, n)
    BY <2>4, <2>5
  <2> HIDE DEF Loop
  <2>. QED BY <2>6
<1> HIDE DEF K
<1>3. N \in K
  BY <1>1, <1>2, InductionUpTo
<1>4. PICK f : Loop(f, N)
  BY <1>3 DEF K
<1>. QED BY <1>4 DEF IsLoop

\* The largest of some numbers up to n.
LEMMA LargestNumber ==
  ASSUME NEW n \in Nat, NEW S, S \subseteq 1 .. n, S # {} PROVE Max(S) \in S
<1> DEFINE R == {n - x : x \in S}
<1>1. /\ \A x \in S : x \in Nat /\ n - x \in R
      /\ \A y \in R : \E x \in S : y = n - x
      /\ R \subseteq Nat
  OBVIOUS
<1> HIDE DEF R
<1>2. PICK y \in R : \A z \in R : y <= z
  <2>1. R # {}
    BY <1>1
  <2>. QED BY <1>1, <2>1, LeastNumber
<1>3. PICK x \in S : y = n - x
  BY <1>1
<1>4. \A z \in S : x >= z
  <2>1. ASSUME NEW z \in S PROVE x >= z
    <3>1. n - x <= n - z /\ x \in Nat /\ z \in Nat
      BY <1>1, <1>2, <1>3
    <3>. QED BY <3>1
  <2>. QED BY <2>1
<1>. QED BY <1>4 DEF Max

\* A set in some order.
LEMMA InOrder ==
  ASSUME NEW S, IsFiniteSet(S) PROVE SetToSeq(S) \in Seq(S)
<1>1. Cardinality(S) \in Nat /\ ExistsBijection(1 .. Cardinality(S), S)
  BY FS_CardinalityType
<1>2. \E f \in [1 .. Cardinality(S) -> S] : IsInjective(f)
  BY <1>1 DEF ExistsBijection, Bijection, Injection, IsInjective
<1>3. SetToSeq(S) \in [1 .. Cardinality(S) -> S]
  BY <1>2 DEF SetToSeq
<1>. QED BY <1>1, <1>3

\* Of two lists, one after the other.
LEMMA JoinedFacts ==
  ASSUME NEW M, NEW q \in Seq(M), NEW r \in Seq(M)
  PROVE  /\ q \o r \in Seq(M) /\ Len(q) \in Nat /\ Len(r) \in Nat
         /\ DOMAIN q = 1 .. Len(q) /\ DOMAIN r = 1 .. Len(r)
         /\ DOMAIN (q \o r) = 1 .. Len(q) + Len(r)
         /\ \A i \in 1 .. Len(q) : (q \o r)[i] = q[i]
         /\ \A i \in 1 .. Len(r) : Len(q) + i \in 1 .. Len(q) + Len(r) /\ (q \o r)[Len(q) + i] = r[i]
         /\ \A i \in 1 .. Len(q) + Len(r) : i \in 1 .. Len(q) \/ i - Len(q) \in 1 .. Len(r)
         /\ <<>> \o q = q /\ q \o <<>> = q
OBVIOUS

\* The first of a queue, and the rest.
LEMMA RestFacts ==
  ASSUME NEW M, NEW q \in Seq(M), q # <<>>
  PROVE  /\ Head(q) = q[1] /\ Head(q) \in M /\ Tail(q) \in Seq(M) /\ Len(q) \in Nat \ {0}
         /\ DOMAIN q = 1 .. Len(q) /\ DOMAIN Tail(q) = 1 .. Len(q) - 1
         /\ \A i \in 1 .. Len(q) - 1 : Tail(q)[i] = q[i + 1]
OBVIOUS

\* A queue that tells of a key still does with more messages that do not unsay it,
\* or that unsay nothing after what they say of it.
LEMMA MoreArrives ==
  ASSUME NEW M, NEW q \in Seq(M), NEW r \in Seq(M), NEW kind, NEW k, NEW b, NEW c,
         Arrives(q, kind, k, b), b => c, \A i \in 1 .. Len(r) : ~Unsays(r[i], kind, k)
  PROVE  Arrives(q \o r, kind, k, c)
<1> DEFINE long == q \o r
           S(m) == Says(m, kind, k)
           U(m) == Unsays(m, kind, k)
<1>1. /\ Len(q) \in Nat /\ Len(r) \in Nat /\ DOMAIN q = 1 .. Len(q)
      /\ DOMAIN long = 1 .. Len(q) + Len(r) /\ \A i \in 1 .. Len(q) : long[i] = q[i]
      /\ \A i \in 1 .. Len(r) : long[Len(q) + i] = r[i]
      /\ \A i \in 1 .. Len(q) + Len(r) : i \in 1 .. Len(q) \/ i - Len(q) \in 1 .. Len(r)
  BY JoinedFacts
<1>2. /\ \A i \in DOMAIN q : U(q[i]) => \E j \in DOMAIN q : j > i /\ S(q[j])
      /\ b \/ \E i \in DOMAIN q : S(q[i])
  BY DEF Arrives
<1>3. \A i \in 1 .. Len(r) : ~U(r[i])
  OBVIOUS
<1> HIDE DEF long, S, U
<1>4. ASSUME NEW i \in DOMAIN long, U(long[i]) PROVE \E j \in DOMAIN long : j > i /\ S(long[j])
  <2>1. i \in DOMAIN q /\ long[i] = q[i]
    <3>1. CASE i \in 1 .. Len(q)
      BY <1>1, <3>1
    <3>2. CASE i \notin 1 .. Len(q)
      <4>1. i - Len(q) \in 1 .. Len(r) /\ Len(q) + (i - Len(q)) = i
        BY <1>1, <1>4, <3>2
      <4>. QED BY <1>1, <1>3, <1>4, <4>1
    <3>. QED BY <3>1, <3>2
  <2>2. PICK j \in DOMAIN q : j > i /\ S(q[j])
    BY <1>2, <1>4, <2>1
  <2>3. j \in DOMAIN long /\ long[j] = q[j]
    BY <1>1
  <2>. QED BY <2>2, <2>3
<1>5. c \/ \E i \in DOMAIN long : S(long[i])
  <2>1. CASE b
    BY <2>1
  <2>2. CASE ~b
    <3>1. PICK i \in DOMAIN q : S(q[i])
      BY <1>2, <2>2
    <3>2. i \in DOMAIN long /\ long[i] = q[i]
      BY <1>1
    <3>. QED BY <3>1, <3>2
  <2>. QED BY <2>1, <2>2
<1>. QED BY <1>4, <1>5 DEF Arrives, long, S, U

\* What is said, and not unsaid after, leaves the receiver with the belief.
LEMMA SaidArrives ==
  ASSUME NEW M, NEW q \in Seq(M), NEW r \in Seq(M), NEW kind, NEW k, NEW b,
         NEW n \in 1 .. Len(r), Says(r[n], kind, k),
         \A i \in 1 .. Len(r) : i >= n => ~Unsays(r[i], kind, k)
  PROVE  Arrives(q \o r, kind, k, b)
<1> DEFINE long == q \o r
           S(m) == Says(m, kind, k)
           U(m) == Unsays(m, kind, k)
<1>1. /\ Len(q) \in Nat /\ Len(r) \in Nat /\ DOMAIN q = 1 .. Len(q)
      /\ DOMAIN long = 1 .. Len(q) + Len(r) /\ \A i \in 1 .. Len(q) : long[i] = q[i]
      /\ \A i \in 1 .. Len(r) : long[Len(q) + i] = r[i]
      /\ \A i \in 1 .. Len(q) + Len(r) : i \in 1 .. Len(q) \/ i - Len(q) \in 1 .. Len(r)
  BY JoinedFacts
<1>2. S(r[n]) /\ \A i \in 1 .. Len(r) : i >= n => ~U(r[i])
  OBVIOUS
<1> HIDE DEF long, S, U
<1>3. Len(q) + n \in DOMAIN long /\ S(long[Len(q) + n])
  BY <1>1, <1>2
<1>4. ASSUME NEW i \in DOMAIN long, U(long[i]) PROVE Len(q) + n > i
  <2>1. CASE i \in 1 .. Len(q)
    BY <1>1, <2>1
  <2>2. CASE i \notin 1 .. Len(q)
    <3>1. i - Len(q) \in 1 .. Len(r) /\ Len(q) + (i - Len(q)) = i
      BY <1>1, <1>4, <2>2
    <3>2. ~(i - Len(q) >= n)
      BY <1>1, <1>2, <1>4, <3>1
    <3>. QED BY <1>1, <3>1, <3>2
  <2>. QED BY <2>1, <2>2
<1>. QED BY <1>3, <1>4 DEF Arrives, long, S, U

\* A message is handled: its receiver believes what it says.
LEMMA RestArrives ==
  ASSUME NEW M, NEW q \in Seq(M), q # <<>>, NEW kind, NEW k, NEW b, NEW c,
         Arrives(q, kind, k, b), Says(Head(q), kind, k) => c,
         b /\ ~Unsays(Head(q), kind, k) => c
  PROVE  Arrives(Tail(q), kind, k, c)
<1> DEFINE short == Tail(q)
           S(m) == Says(m, kind, k)
           U(m) == Unsays(m, kind, k)
<1>1. /\ Head(q) = q[1] /\ Len(q) \in Nat \ {0} /\ DOMAIN q = 1 .. Len(q)
      /\ DOMAIN short = 1 .. Len(q) - 1 /\ \A i \in 1 .. Len(q) - 1 : short[i] = q[i + 1]
  BY RestFacts
<1>2. /\ \A i \in DOMAIN q : U(q[i]) => \E j \in DOMAIN q : j > i /\ S(q[j])
      /\ b \/ \E i \in DOMAIN q : S(q[i])
      /\ S(q[1]) => c
      /\ b /\ ~U(q[1]) => c
  BY <1>1 DEF Arrives
<1> HIDE DEF short, S, U
<1>3. ASSUME NEW j \in DOMAIN q, S(q[j]), j > 1
      PROVE  j - 1 \in DOMAIN short /\ S(short[j - 1])
  <2>1. j - 1 \in 1 .. Len(q) - 1 /\ (j - 1) + 1 = j
    BY <1>1, <1>3
  <2>. QED BY <1>1, <1>3, <2>1
<1>4. ASSUME NEW i \in DOMAIN short, U(short[i]) PROVE \E j \in DOMAIN short : j > i /\ S(short[j])
  <2>1. i + 1 \in DOMAIN q /\ U(q[i + 1]) /\ i \in Nat
    BY <1>1, <1>4
  <2>2. PICK j \in DOMAIN q : j > i + 1 /\ S(q[j])
    BY <1>2, <2>1
  <2>3. j \in Nat /\ j > 1 /\ j - 1 > i
    BY <1>1, <1>4, <2>2
  <2>. QED BY <1>3, <2>2, <2>3
<1>5. c \/ \E i \in DOMAIN short : S(short[i])
  <2>1. CASE ~c
    <3>1. \E j \in DOMAIN q : j > 1 /\ S(q[j])
      <4>1. CASE U(q[1])
        <5>1. 1 \in DOMAIN q
          BY <1>1
        <5>. QED BY <1>2, <4>1, <5>1
      <4>2. CASE ~U(q[1])
        <5>1. PICK j \in DOMAIN q : S(q[j])
          BY <1>2, <2>1, <4>2
        <5>2. j # 1
          BY <1>2, <2>1, <5>1
        <5>. QED BY <1>1, <5>1, <5>2
      <4>. QED BY <4>1, <4>2
    <3>. QED BY <1>3, <3>1
  <2>. QED BY <2>1
<1>. QED BY <1>4, <1>5 DEF Arrives, short, S, U

-----------------------------------------------------------------------------
(* What is sent *)

Outgoing == [CloudMachine -> Seq(CloudMessage)]

\* The assumption on the constants, in the form the proofs cite.
LEMMA CloudFacts ==
  /\ IsFiniteSet(CloudUser) /\ IsFiniteSet(CloudKey)
  /\ \A c \in CloudUser : ServerOf[c] \in CloudMachine
  /\ MaxPosts \in Nat /\ MaxGets \in Nat /\ MaxDepartures \in Nat
BY CloudAssumption

\* Of one message to some servers: what each is sent.
LEMMA SendToFacts ==
  ASSUME NEW s, NEW receivers, NEW ms \in Seq(CloudMessage)
  PROVE  /\ SendTo(s, receivers, ms) \in Outgoing
         /\ \A t \in CloudMachine : SendTo(s, receivers, ms)[t] = IF t \in receivers THEN ms ELSE <<>>
BY DEF SendTo, Outgoing

\* Of two messages or groups of them, one after the other.
LEMMA BothFacts ==
  ASSUME NEW f \in Outgoing, NEW g \in Outgoing
  PROVE  /\ Both(f, g) \in Outgoing
         /\ \A t \in CloudMachine : Both(f, g)[t] = f[t] \o g[t]
         /\ \A t \in CloudMachine : f[t] = <<>> => Both(f, g)[t] = g[t]
         /\ \A t \in CloudMachine : g[t] = <<>> => Both(f, g)[t] = f[t]
<1>1. \A t \in CloudMachine : f[t] \in Seq(CloudMessage) /\ g[t] \in Seq(CloudMessage)
  BY DEF Outgoing
<1>2. \A t \in CloudMachine : /\ f[t] \o g[t] \in Seq(CloudMessage)
                              /\ f[t] = <<>> => f[t] \o g[t] = g[t]
                              /\ g[t] = <<>> => f[t] \o g[t] = f[t]
  BY <1>1, JoinedFacts
<1>. QED BY <1>2 DEF Both, Outgoing

\* Messages of each type.
LEMMA MessagesOf ==
  ASSUME NEW k \in CloudKey
  PROVE  /\ \A type \in {"ADD_UPLOADED_KEY", "ADD_SUBSCRIBED_KEY", "REMOVE_UPLOADED_KEY",
                         "REMOVE_SUBSCRIBED_KEY"} : <<[type |-> type, key |-> k]>> \in Seq(CloudMessage)
         /\ \A u \in CloudUser, v \in 0 .. MaxPosts :
              <<[type |-> "DATA_CHANGED", key |-> k, from |-> u, data |-> v]>> \in Seq(CloudMessage)
         /\ \A id \in 0 .. MaxGets - 1 :
              <<[type |-> "PROCESS_GET_REQUEST", key |-> k, requestId |-> id]>> \in Seq(CloudMessage)
         /\ \A id \in 0 .. MaxGets - 1, rows \in Rows :
              [type |-> "PROCESS_GET_RESPONSE", requestId |-> id, key |-> k, rows |-> rows] \in CloudMessage
         /\ <<>> \in Seq(CloudMessage)
<1>1. \A type \in {"ADD_UPLOADED_KEY", "ADD_SUBSCRIBED_KEY", "REMOVE_UPLOADED_KEY",
                   "REMOVE_SUBSCRIBED_KEY"} : [type |-> type, key |-> k] \in CloudMessage
  BY DEF CloudMessage
<1>2. \A u \in CloudUser, v \in 0 .. MaxPosts :
        [type |-> "DATA_CHANGED", key |-> k, from |-> u, data |-> v] \in CloudMessage
  BY DEF CloudMessage
<1>3. \A id \in 0 .. MaxGets - 1 : [type |-> "PROCESS_GET_REQUEST", key |-> k, requestId |-> id] \in CloudMessage
  BY DEF CloudMessage
<1>4. \A id \in 0 .. MaxGets - 1, rows \in Rows :
        [type |-> "PROCESS_GET_RESPONSE", requestId |-> id, key |-> k, rows |-> rows] \in CloudMessage
  BY DEF CloudMessage
<1>5. \A m \in CloudMessage : <<m>> \in Seq(CloudMessage)
  OBVIOUS
<1> HIDE DEF CloudMessage
<1>6. <<>> \in Seq(CloudMessage)
  OBVIOUS
<1>. QED BY <1>1, <1>2, <1>3, <1>4, <1>5, <1>6

\* What is under way is typed, and nothing is on a lost connection.
WiresOK ==
  /\ wire \in [CloudMachine -> [CloudMachine -> Seq(CloudMessage)]]
  /\ \A s \in CloudMachine : wire[s][s] = <<>>
  /\ \A s, t \in CloudMachine : Apart(s, t) => wire[s][t] = <<>>

\* Server s sends f to those it is connected with.
Sends(s, f) ==
  /\ f \in Outgoing
  /\ \A r, t \in CloudMachine :
       wire'[r][t] = IF r = s /\ ~Apart(s, t) THEN wire[r][t] \o f[t] ELSE wire[r][t]

\* What is sent is under way to those that are connected.
LEMMA SendAllFacts ==
  ASSUME WiresOK, NEW s \in CloudMachine, NEW f \in Outgoing, f[s] = <<>>, SendAll(s, f),
         unnoticed' = unnoticed
  PROVE  WiresOK' /\ Sends(s, f)
<1>1. \A r, t \in CloudMachine : wire[r][t] \in Seq(CloudMessage)
  BY DEF WiresOK
<1>2. \A t \in CloudMachine : f[t] \in Seq(CloudMessage)
  BY DEF Outgoing
<1>3. \A t \in CloudMachine : wire[s][t] \o f[t] \in Seq(CloudMessage)
  BY <1>1, <1>2, JoinedFacts
<1> DEFINE row == [t \in CloudMachine |->
                     IF <<s, t>> \in unnoticed \/ <<t, s>> \in unnoticed THEN wire[s][t]
                     ELSE wire[s][t] \o f[t]]
<1>4. row \in [CloudMachine -> Seq(CloudMessage)]
  BY <1>1, <1>3
<1>5. /\ wire' = [wire EXCEPT ![s] = row]
      /\ wire \in [CloudMachine -> [CloudMachine -> Seq(CloudMessage)]]
  <2>1. wire' = [wire EXCEPT ![s] = [t \in CloudMachine |->
                   IF <<s, t>> \in unnoticed \/ <<t, s>> \in unnoticed THEN wire[s][t]
                   ELSE wire[s][t] \o f[t]]]
    BY DEF SendAll
  <2>. QED BY <2>1 DEF WiresOK
<1>6. \A t \in CloudMachine : row[t] = IF Apart(s, t) THEN wire[s][t] ELSE wire[s][t] \o f[t]
  BY DEF Apart
<1> HIDE DEF row
<1>7. /\ wire' \in [CloudMachine -> [CloudMachine -> Seq(CloudMessage)]]
      /\ \A r \in CloudMachine : wire'[r] = IF r = s THEN row ELSE wire[r]
  BY <1>4, <1>5
<1>8. \A r, t \in CloudMachine :
        wire'[r][t] = IF r = s /\ ~Apart(s, t) THEN wire[r][t] \o f[t] ELSE wire[r][t]
  BY <1>6, <1>7
<1>9. \A r, t \in CloudMachine : Apart(r, t)' <=> Apart(r, t)
  BY DEF Apart
<1>10. wire[s][s] \o f[s] = <<>>
  <2>1. wire[s][s] = <<>>
    BY DEF WiresOK
  <2>2. <<>> \in Seq(CloudMessage) /\ <<>> \o <<>> = <<>>
    OBVIOUS
  <2>. QED BY <2>1, <2>2
<1>11. \A r \in CloudMachine : wire'[r][r] = <<>>
  BY <1>8, <1>10 DEF WiresOK
<1>12. \A r, t \in CloudMachine : Apart(r, t)' => wire'[r][t] = <<>>
  BY <1>8, <1>9 DEF WiresOK
<1>. QED BY <1>7, <1>8, <1>11, <1>12 DEF WiresOK, Sends

\* The beliefs that messages under way are to leave.
AllTold == \A s, t \in CloudMachine : KeysAreTold(s, t)

\* What s sends tells of each key with more data or subscribers than before, and
\* takes nothing back of the others.
TellsOfKeys(s, f) ==
  \A k \in CloudKey, kind \in Kind : CountIn(dataRepository'[s][k], kind) > 0 =>
    \/ /\ CountIn(dataRepository[s][k], kind) > 0
       /\ \A t \in Known(s) : \A i \in 1 .. Len(f[t]) : ~Unsays(f[t][i], kind, k)
    \/ \A t \in Known(s) : \E n \in 1 .. Len(f[t]) :
         Says(f[t][n], kind, k) /\ \A i \in 1 .. Len(f[t]) : i >= n => ~Unsays(f[t][i], kind, k)

\* Who keeps what it knows of others, believes what it did.
LEMMA BeliefsStay ==
  ASSUME remoteServers' = remoteServers
  PROVE  /\ \A s : Known(s)' = Known(s)
         /\ \A s, t, kind, k : Believed(s, t, kind, k)' <=> Believed(s, t, kind, k)
BY DEF Known, Believed, GetServersWithUploadedKeys, SubscribedServers

\* A server that says as much of its keys as it notes leaves each other told.
LEMMA SendsTell ==
  ASSUME WiresOK, AllTold, NEW s \in CloudMachine, NEW f, Sends(s, f), unnoticed' = unnoticed,
         remoteServers' = remoteServers, Known(s) \subseteq CloudMachine,
         \A r \in CloudMachine \ {s} : dataRepository'[r] = dataRepository[r],
         TellsOfKeys(s, f)
  PROVE  AllTold'
<1>1. SUFFICES ASSUME NEW t \in CloudMachine, NEW r \in CloudMachine, t \in Known(r), ~Apart(t, r),
                      NEW k \in CloudKey, NEW kind \in Kind,
                      CountIn(dataRepository'[r][k], kind) > 0
               PROVE  Arrives(wire'[r][t], kind, k, r \in Known(t) => Believed(t, r, kind, k))
  <2>1. \A a, b : Apart(a, b)' <=> Apart(a, b)
    BY DEF Apart
  <2>2. \A a : Known(a)' = Known(a)
    BY BeliefsStay
  <2>3. \A a, b, kind, k : Believed(a, b, kind, k)' <=> Believed(a, b, kind, k)
    BY BeliefsStay
  <2>4. ASSUME NEW t \in CloudMachine, NEW r \in CloudMachine PROVE KeysAreTold(t, r)'
    <3>1. \A kind, k : (r \in Known(t) => Believed(t, r, kind, k))' <=> (r \in Known(t) => Believed(t, r, kind, k))
      BY <2>2, <2>3
    <3>2. ASSUME (t \in Known(r))', ~Apart(t, r)', NEW k \in CloudKey, NEW kind \in Kind,
                 CountIn(dataRepository[r][k], kind)' > 0
          PROVE  Arrives(wire[r][t], kind, k, r \in Known(t) => Believed(t, r, kind, k))'
      <4>1. t \in Known(r) /\ ~Apart(t, r)
        BY <2>1, <2>2, <3>2
      <4>2. CountIn(dataRepository'[r][k], kind) > 0
        BY <3>2 DEF CountIn
      <4>3. Arrives(wire'[r][t], kind, k, r \in Known(t) => Believed(t, r, kind, k))
        BY <1>1, <4>1, <4>2
      <4>. QED BY <3>1, <4>3 DEF Arrives, Says, Unsays
    <3>. QED BY <3>2 DEF KeysAreTold
  <2>. QED BY <2>4 DEF AllTold
<1>2. Apart(t, r) <=> Apart(r, t)
  BY DEF Apart
<1>3. wire[r][t] \in Seq(CloudMessage)
  BY DEF WiresOK
<1> DEFINE b == r \in Known(t) => Believed(t, r, kind, k)
<1>4. CountIn(dataRepository[r][k], kind) > 0 => Arrives(wire[r][t], kind, k, b)
  BY <1>1 DEF AllTold, KeysAreTold
<1> HIDE DEF b
<1>5. CASE r # s
  <2>1. wire'[r][t] = wire[r][t] /\ dataRepository'[r] = dataRepository[r]
    BY <1>5 DEF Sends
  <2>. QED BY <1>1, <1>4, <2>1 DEF b
<1>6. CASE r = s
  <2>1. wire'[r][t] = wire[r][t] \o f[t] /\ f[t] \in Seq(CloudMessage)
    BY <1>1, <1>2, <1>6 DEF Sends, Outgoing
  <2>2. CASE /\ CountIn(dataRepository[r][k], kind) > 0
             /\ \A i \in 1 .. Len(f[t]) : ~Unsays(f[t][i], kind, k)
    <3>1. Arrives(wire[r][t] \o f[t], kind, k, b)
      BY <1>3, <1>4, <2>1, <2>2, MoreArrives
    <3>. QED BY <2>1, <3>1 DEF b
  <2>3. ASSUME NEW n \in 1 .. Len(f[t]), Says(f[t][n], kind, k),
               \A i \in 1 .. Len(f[t]) : i >= n => ~Unsays(f[t][i], kind, k)
        PROVE  Arrives(wire'[r][t], kind, k, r \in Known(t) => Believed(t, r, kind, k))
    <3>1. Arrives(wire[r][t] \o f[t], kind, k, b)
      BY <1>3, <2>1, <2>3, SaidArrives
    <3>. QED BY <2>1, <3>1 DEF b
  <2>4. t \in Known(s)
    BY <1>1, <1>6
  <2>. QED BY <1>1, <1>6, <2>2, <2>3, <2>4 DEF TellsOfKeys
<1>. QED BY <1>5, <1>6

-----------------------------------------------------------------------------
(* Queries that wait *)

WaitsOK == QueriesWaitForAnswers /\ \A s \in CloudMachine : RequestsWait(s)

\* The queries of one list are queries of the other, and wait for no more servers.
Remains(short, long) ==
  \E at \in [1 .. Len(short) -> 1 .. Len(long)] :
    /\ \A i \in 1 .. Len(short) : /\ short[i].requestId = long[at[i]].requestId
                                  /\ short[i].waiting \subseteq long[at[i]].waiting
    /\ \A i, j \in 1 .. Len(short) : at[i] = at[j] => i = j

\* A list is what remains of itself.
LEMMA RemainsItself ==
  ASSUME NEW list, Len(list) \in Nat PROVE Remains(list, list)
<1> DEFINE at == [i \in 1 .. Len(list) |-> i]
<1>1. /\ at \in [1 .. Len(list) -> 1 .. Len(list)] /\ \A i \in 1 .. Len(list) : at[i] = i
  OBVIOUS
<1> HIDE DEF at
<1>. QED BY <1>1 DEF Remains

\* What has no answer yet keeps its place among the queries.
LEMMA IncompleteFacts ==
  ASSUME NEW M, NEW list \in Seq(M)
  PROVE  /\ Incomplete(list) \in Seq(M)
         /\ \E at \in [1 .. Len(Incomplete(list)) -> 1 .. Len(list)] :
              /\ \A i \in 1 .. Len(Incomplete(list)) : Incomplete(list)[i] = list[at[i]]
              /\ \A i, j \in 1 .. Len(Incomplete(list)) : at[i] = at[j] => i = j
<1> DEFINE N == Len(list)
           step == [x \in Seq(M) \X (1 .. N) |->
                      IF list[x[2]].waiting = {} THEN x[1] ELSE Append(x[1], list[x[2]])]
<1>1. N \in Nat /\ \A n \in 1 .. N : list[n] \in M
  OBVIOUS
<1>2. step \in [Seq(M) \X (1 .. N) -> Seq(M)]
  <2>1. ASSUME NEW x \in Seq(M) \X (1 .. N)
        PROVE  (IF list[x[2]].waiting = {} THEN x[1] ELSE Append(x[1], list[x[2]])) \in Seq(M)
    <3>1. x[1] \in Seq(M) /\ list[x[2]] \in M
      BY <1>1
    <3>. QED BY <3>1
  <2>. QED BY <2>1
<1>3. <<>> \in Seq(M)
  OBVIOUS
<1>4. \A y \in Seq(M), n \in 1 .. N :
        step[<<y, n>>] = IF list[n].waiting = {} THEN y ELSE Append(y, list[n])
  OBVIOUS
<1> HIDE DEF step
<1>5. PICK f \in [0 .. N -> Seq(M)] : f[0] = <<>> /\ \A n \in 1 .. N : f[n] = step[<<f[n - 1], n>>]
  <2> DEFINE A == Seq(M)
             none == <<>>
  <2>1. none \in A /\ step \in [A \X (1 .. N) -> A] /\ N \in Nat
    BY <1>1, <1>2, <1>3
  <2> HIDE DEF N, A, none
  <2>2. PICK f : IsLoop(f, A, N, none, step)
    BY <2>1, RecursionUpTo
  <2>. QED BY <2>2 DEF IsLoop, A, none
<1>6. \A n \in 0 .. N :
        f[n] = IF n = 0 THEN <<>>
               ELSE IF list[n].waiting = {} THEN f[n - 1] ELSE Append(f[n - 1], list[n])
  <2>1. ASSUME NEW n \in 1 .. N
        PROVE  f[n] = IF list[n].waiting = {} THEN f[n - 1] ELSE Append(f[n - 1], list[n])
    <3>1. n - 1 \in 0 .. N
      BY <1>1
    <3>2. f[n - 1] \in Seq(M)
      BY <3>1
    <3>. QED BY <1>4, <1>5, <3>2
  <2>2. \A n \in 0 .. N : n = 0 \/ n \in 1 .. N
    BY <1>1
  <2> HIDE DEF N
  <2>. QED BY <1>5, <2>1, <2>2
<1> DEFINE kept[n \in 0 .. Len(list)] ==
             IF n = 0 THEN <<>>
             ELSE IF list[n].waiting = {} THEN kept[n - 1] ELSE Append(kept[n - 1], list[n])
<1>7. \E h : h = [n \in 0 .. Len(list) |->
                    IF n = 0 THEN <<>>
                    ELSE IF list[n].waiting = {} THEN h[n - 1] ELSE Append(h[n - 1], list[n])]
  <2>1. f = [n \in 0 .. Len(list) |->
               IF n = 0 THEN <<>>
               ELSE IF list[n].waiting = {} THEN f[n - 1] ELSE Append(f[n - 1], list[n])]
    BY <1>6
  <2>. QED BY <2>1, Zenon
<1>8. kept = [n \in 0 .. Len(list) |->
                IF n = 0 THEN <<>>
                ELSE IF list[n].waiting = {} THEN kept[n - 1] ELSE Append(kept[n - 1], list[n])]
  BY <1>7 DEF kept
<1>9. Incomplete(list) = kept[N]
  BY DEF Incomplete
<1> HIDE DEF kept
<1>10. \A n \in 0 .. N :
         kept[n] = IF n = 0 THEN <<>>
                   ELSE IF list[n].waiting = {} THEN kept[n - 1] ELSE Append(kept[n - 1], list[n])
  BY <1>8
<1> DEFINE Good(n) == /\ kept[n] \in Seq(M)
                      /\ \E at \in [1 .. Len(kept[n]) -> 1 .. n] :
                           /\ \A i \in 1 .. Len(kept[n]) : kept[n][i] = list[at[i]]
                           /\ \A i, j \in 1 .. Len(kept[n]) : at[i] = at[j] => i = j
           K == {n \in 0 .. N : Good(n)}
<1> HIDE DEF N
<1>11. 0 \in K
  <2>1. kept[0] = <<>>
    BY <1>1, <1>10
  <2>2. Good(0)
    <3> DEFINE empty == 1 .. Len(kept[0])
               at == [i \in empty |-> i]
    <3>1. empty = {} /\ kept[0] \in Seq(M)
      BY <2>1
    <3> HIDE DEF empty
    <3>2. at \in [empty -> 1 .. 0]
      BY <3>1
    <3>3. \E a \in [empty -> 1 .. 0] :
            /\ \A i \in empty : kept[0][i] = list[a[i]]
            /\ \A i, j \in empty : a[i] = a[j] => i = j
      BY <3>1, <3>2
    <3>. QED BY <3>1, <3>3 DEF empty
  <2> HIDE DEF Good
  <2>. QED BY <1>1, <2>2
<1>12. ASSUME NEW n \in 1 .. N, n - 1 \in K PROVE n \in K
  <2> DEFINE before == kept[n - 1]
             m == list[n]
  <2>1. before \in Seq(M)
    BY <1>12
  <2>2. PICK at \in [1 .. Len(before) -> 1 .. n - 1] :
          /\ \A i \in 1 .. Len(before) : before[i] = list[at[i]]
          /\ \A i, j \in 1 .. Len(before) : at[i] = at[j] => i = j
    BY <1>12
  <2>3. n \in 0 .. N /\ n # 0 /\ m \in M
    BY <1>1
  <2>4. kept[n] = IF m.waiting = {} THEN before ELSE Append(before, m)
    BY <1>10, <2>3
  <2> HIDE DEF before, m
  <2>5. Len(before) \in Nat
    BY <2>1
  <2>6. CASE m.waiting = {}
    <3>1. kept[n] = before /\ at \in [1 .. Len(before) -> 1 .. n]
      BY <1>1, <2>2, <2>4, <2>6
    <3>2. Good(n)
      BY <2>1, <2>2, <3>1
    <3> HIDE DEF Good
    <3>. QED BY <2>3, <3>2
  <2>7. CASE m.waiting # {}
    <3> DEFINE long == Append(before, m)
               bt == [i \in 1 .. Len(before) + 1 |-> IF i = Len(before) + 1 THEN n ELSE at[i]]
    <3>1. /\ long \in Seq(M) /\ Len(long) = Len(before) + 1 /\ long[Len(before) + 1] = m
          /\ \A i \in 1 .. Len(before) : long[i] = before[i]
      BY <2>1, <2>3
    <3>2. \A i \in 1 .. Len(before) + 1 : i = Len(before) + 1 \/ i \in 1 .. Len(before)
      BY <2>5
    <3>3. /\ bt \in [1 .. Len(before) + 1 -> 1 .. n] /\ bt[Len(before) + 1] = n
          /\ \A i \in 1 .. Len(before) : bt[i] = at[i] /\ at[i] # n /\ i # Len(before) + 1
      BY <2>2, <2>3, <2>5, <3>2
    <3> HIDE DEF long, bt
    <3>4. \A i \in 1 .. Len(before) + 1 : long[i] = list[bt[i]]
      BY <2>2, <3>1, <3>2, <3>3 DEF m
    <3>5. \A i, j \in 1 .. Len(before) + 1 : bt[i] = bt[j] => i = j
      BY <2>2, <3>2, <3>3
    <3>6. kept[n] = long
      BY <2>4, <2>7 DEF long
    <3>7. Good(n)
      BY <3>1, <3>3, <3>4, <3>5, <3>6
    <3> HIDE DEF Good
    <3>. QED BY <2>3, <3>7
  <2>. QED BY <2>6, <2>7
<1> HIDE DEF K
<1>13. N \in K
  <2>1. \A n \in 1 .. N : n - 1 \in K => n \in K
    BY <1>12
  <2>2. N \in Nat /\ N \in 0 .. N
    BY <1>1
  <2>. QED BY <1>11, <2>1, <2>2, InductionUpTo
<1> DEFINE Drawn(k, n) == /\ k \in Seq(M)
                          /\ \E at \in [1 .. Len(k) -> 1 .. n] :
                               /\ \A i \in 1 .. Len(k) : k[i] = list[at[i]]
                               /\ \A i, j \in 1 .. Len(k) : at[i] = at[j] => i = j
<1>14. Good(N)
  <2> HIDE DEF Good, N
  <2>. QED BY <1>13 DEF K
<1>15. Drawn(kept[N], N)
  BY <1>14, Zenon
<1> HIDE DEF Good, Drawn
<1>16. Drawn(Incomplete(list), Len(list))
  BY <1>9, <1>15 DEF N
<1>. QED BY <1>16, Zenon DEF Drawn

\* Queries wait for answers if each of them, in the new lists, does.
LEMMA WaitsAre ==
  ASSUME getRequests' \in [CloudMachine -> Seq(GetRequest)],
         \A s \in CloudMachine :
           /\ RequestsWait(s)'
           /\ \A i \in 1 .. Len(getRequests'[s]) : \A t, id :
                /\ t \in getRequests'[s][i].waiting /\ id = getRequests'[s][i].requestId
                /\ id \notin stranded'
                => WillEnd(s, t, id)'
  PROVE  WaitsOK'
<1>1. ASSUME NEW s \in CloudMachine PROVE DOMAIN getRequests'[s] = 1 .. Len(getRequests'[s])
  BY <1>1
<1>2. QueriesWaitForAnswers'
  <2>1. SUFFICES ASSUME NEW s \in CloudMachine, NEW i \in DOMAIN getRequests'[s],
                        getRequests'[s][i].requestId \notin stranded',
                        NEW t, t \in getRequests'[s][i].waiting
                 PROVE  WillEnd(s, t, getRequests[s][i].requestId)'
    BY Zenon DEF QueriesWaitForAnswers
  <2>2. ASSUME NEW id, id = getRequests'[s][i].requestId PROVE WillEnd(s, t, id)'
    BY <1>1, <2>1, <2>2
  <2>. QED BY <2>2 DEF WillEnd
<1>. QED BY <1>2 DEF WaitsOK

\* Queries still wait for servers that will answer.
LEMMA WaitsStay ==
  ASSUME WaitsOK, getRequests \in [CloudMachine -> Seq(GetRequest)],
         getRequests' \in [CloudMachine -> Seq(GetRequest)],
         stranded \subseteq stranded', nextGetRequestId' = nextGetRequestId,
         \A s \in CloudMachine : Remains(getRequests'[s], getRequests[s]),
         \A s \in CloudMachine : \A i \in 1 .. Len(getRequests'[s]) : \A t, id :
           /\ t \in getRequests'[s][i].waiting /\ id = getRequests'[s][i].requestId
           /\ id \notin stranded' /\ t \in Known(s) /\ WillEnd(s, t, id)
           => t \in Known(s)' /\ WillEnd(s, t, id)'
  PROVE  WaitsOK'
<1>1. SUFFICES ASSUME NEW s \in CloudMachine
               PROVE  /\ RequestsWait(s)'
                      /\ \A i \in 1 .. Len(getRequests'[s]) : \A t, id :
                           /\ t \in getRequests'[s][i].waiting /\ id = getRequests'[s][i].requestId
                           /\ id \notin stranded'
                           => WillEnd(s, t, id)'
  BY WaitsAre
<1> DEFINE short == getRequests'[s]
           long == getRequests[s]
<1>2. PICK at \in [1 .. Len(short) -> 1 .. Len(long)] :
        /\ \A i \in 1 .. Len(short) : /\ short[i].requestId = long[at[i]].requestId
                                      /\ short[i].waiting \subseteq long[at[i]].waiting
        /\ \A i, j \in 1 .. Len(short) : at[i] = at[j] => i = j
  BY DEF Remains
<1>3. /\ DOMAIN long = 1 .. Len(long) /\ DOMAIN short = 1 .. Len(short)
      /\ \A i, j \in 1 .. Len(long) : long[i].requestId = long[j].requestId => i = j
      /\ \A i \in 1 .. Len(long) :
           /\ long[i].requestId < nextGetRequestId
           /\ long[i].requestId \notin stranded =>
                /\ long[i].waiting \subseteq Known(s)
                /\ \A t \in long[i].waiting : WillEnd(s, t, long[i].requestId)
  <2>1. DOMAIN long = 1 .. Len(long) /\ DOMAIN short = 1 .. Len(short)
    OBVIOUS
  <2>. QED BY <2>1 DEF WaitsOK, RequestsWait, QueriesWaitForAnswers
<1>4. ASSUME NEW i \in 1 .. Len(short), NEW id, id = short[i].requestId, id \notin stranded',
             NEW t, t \in short[i].waiting
      PROVE  t \in Known(s)' /\ WillEnd(s, t, id)'
  <2>1. /\ at[i] \in 1 .. Len(long) /\ long[at[i]].requestId \notin stranded /\ t \in long[at[i]].waiting
        /\ long[at[i]].requestId = short[i].requestId
    BY <1>2, <1>4
  <2>2. t \in Known(s) /\ WillEnd(s, t, id)
    BY <1>3, <1>4, <2>1
  <2>. QED BY <1>4, <2>2
<1>5. RequestsWait(s)'
  <2> HIDE DEF short, long
  <2>1. ASSUME NEW i \in 1 .. Len(short), NEW j \in 1 .. Len(short), short[i].requestId = short[j].requestId
        PROVE  i = j
    <3>1. /\ at[i] \in 1 .. Len(long) /\ at[j] \in 1 .. Len(long)
          /\ long[at[i]].requestId = long[at[j]].requestId
      BY <1>2, <2>1
    <3>. QED BY <1>2, <1>3, <3>1
  <2>2. \A i \in 1 .. Len(short) : short[i].requestId < nextGetRequestId'
    BY <1>2, <1>3
  <2>3. \A i \in 1 .. Len(short) : short[i].requestId \notin stranded' => short[i].waiting \subseteq Known(s)'
    BY <1>4
  <2>. QED BY <1>3, <2>1, <2>2, <2>3 DEF RequestsWait, short
<1>. QED BY <1>4, <1>5

\* Nothing under way is lost as a server sends.
LEMMA SendsWait ==
  ASSUME WiresOK, NEW s \in CloudMachine, NEW f, Sends(s, f), unnoticed' = unnoticed
  PROVE  \A r, t \in CloudMachine : \A id : WillEnd(r, t, id) => WillEnd(r, t, id)'
<1>1. ASSUME NEW r \in CloudMachine, NEW t \in CloudMachine, NEW type, NEW id,
             \E j \in DOMAIN wire[r][t] : IsFor(wire[r][t][j], type, id)
      PROVE  \E j \in DOMAIN wire'[r][t] : IsFor(wire'[r][t][j], type, id)
  <2>1. wire[r][t] \in Seq(CloudMessage) /\ f[t] \in Seq(CloudMessage)
    BY DEF WiresOK, Sends, Outgoing
  <2>2. wire'[r][t] = wire[r][t] \/ wire'[r][t] = wire[r][t] \o f[t]
    BY DEF Sends
  <2>3. PICK j \in DOMAIN wire[r][t] : IsFor(wire[r][t][j], type, id)
    BY <1>1
  <2>4. j \in DOMAIN (wire[r][t] \o f[t]) /\ (wire[r][t] \o f[t])[j] = wire[r][t][j]
    <3> DEFINE q == wire[r][t]
               g == f[t]
    <3>1. j \in DOMAIN q /\ q \in Seq(CloudMessage) /\ g \in Seq(CloudMessage)
      BY <2>1
    <3> HIDE DEF q, g
    <3>2. j \in DOMAIN (q \o g) /\ (q \o g)[j] = q[j]
      BY <3>1, JoinedFacts
    <3>. QED BY <3>2 DEF q, g
  <2>. QED BY <2>2, <2>3, <2>4
<1>2. ASSUME NEW r \in CloudMachine, NEW t \in CloudMachine, NEW id, WillEnd(r, t, id)
      PROVE  WillEnd(r, t, id)'
  <2>1. CASE \E j \in DOMAIN wire[r][t] : IsFor(wire[r][t][j], "PROCESS_GET_REQUEST", id)
    <3>1. \E j \in DOMAIN wire'[r][t] : IsFor(wire'[r][t][j], "PROCESS_GET_REQUEST", id)
      BY <1>1, <2>1
    <3>. QED BY <3>1 DEF WillEnd, IsFor
  <2>2. CASE \E j \in DOMAIN wire[t][r] : IsFor(wire[t][r][j], "PROCESS_GET_RESPONSE", id)
    <3>1. \E j \in DOMAIN wire'[t][r] : IsFor(wire'[t][r][j], "PROCESS_GET_RESPONSE", id)
      BY <1>1, <2>2
    <3>. QED BY <3>1 DEF WillEnd, IsFor
  <2>3. CASE <<r, t>> \in unnoticed
    BY <2>3 DEF WillEnd
  <2>. QED BY <1>2, <2>1, <2>2, <2>3 DEF WillEnd
<1>. QED BY <1>2

-----------------------------------------------------------------------------
(* What is handled *)

\* Server s takes the next message of t, and answers it.
Takes(s, t, reply) ==
  /\ s # t /\ ~Apart(s, t) /\ wire[t][s] # <<>> /\ reply \in Seq(CloudMessage)
  /\ \A r, u \in CloudMachine :
       wire'[r][u] = IF r = t /\ u = s THEN Tail(wire[t][s])
                     ELSE IF r = s /\ u = t THEN wire[s][t] \o reply ELSE wire[r][u]

\* The next message is taken, and is a message; an answer goes to its sender.
LEMMA TakesFacts ==
  ASSUME WiresOK, NEW s \in CloudMachine, NEW t \in CloudMachine, wire[t][s] # <<>>,
         unnoticed' = unnoticed
  PROVE  /\ Head(wire[t][s]) \in CloudMessage
         /\ wire' = [wire EXCEPT ![t][s] = Tail(@)] => WiresOK' /\ Takes(s, t, <<>>)
         /\ \A m \in CloudMessage :
              wire' = [wire EXCEPT ![t][s] = Tail(@), ![s][t] = Append(@, m)] => WiresOK' /\ Takes(s, t, <<m>>)
<1>1. s # t /\ ~Apart(s, t) /\ ~Apart(t, s)
  BY DEF WiresOK, Apart
<1> DEFINE q == wire[t][s]
           back == wire[s][t]
<1>2. q \in Seq(CloudMessage) /\ q # <<>> /\ back \in Seq(CloudMessage)
  BY DEF WiresOK
<1> HIDE DEF q, back
<1>3. /\ Head(q) \in CloudMessage /\ Tail(q) \in Seq(CloudMessage) /\ back \o <<>> = back
      /\ \A m \in CloudMessage : /\ Append(back, m) = back \o <<m>> /\ <<m>> \in Seq(CloudMessage)
                                 /\ Append(back, m) \in Seq(CloudMessage)
      /\ <<>> \in Seq(CloudMessage)
  <2>1. Head(q) \in CloudMessage /\ Tail(q) \in Seq(CloudMessage) /\ <<>> \in Seq(CloudMessage)
    BY <1>2
  <2>2. back \o <<>> = back
    BY <1>2, <2>1, JoinedFacts
  <2>3. ASSUME NEW m \in CloudMessage
        PROVE  /\ Append(back, m) = back \o <<m>> /\ <<m>> \in Seq(CloudMessage)
               /\ Append(back, m) \in Seq(CloudMessage)
    BY <1>2
  <2>. QED BY <2>1, <2>2, <2>3
<1>4. wire \in [CloudMachine -> [CloudMachine -> Seq(CloudMessage)]]
  BY DEF WiresOK
<1>5. \A r, u \in CloudMachine : Apart(r, u)' <=> Apart(r, u)
  BY DEF Apart
<1>6. ASSUME NEW reply \in Seq(CloudMessage),
             wire' \in [CloudMachine -> [CloudMachine -> Seq(CloudMessage)]],
             \A r, u \in CloudMachine :
               wire'[r][u] = IF r = t /\ u = s THEN Tail(q)
                             ELSE IF r = s /\ u = t THEN back \o reply ELSE wire[r][u]
      PROVE  WiresOK' /\ Takes(s, t, reply)
  <2>1. \A r \in CloudMachine : wire'[r][r] = <<>>
    BY <1>1, <1>6 DEF WiresOK
  <2>2. ASSUME NEW r \in CloudMachine, NEW u \in CloudMachine, Apart(r, u)' PROVE wire'[r][u] = <<>>
    <3>1. Apart(r, u)
      BY <1>5, <2>2
    <3>2. wire[r][u] = <<>>
      BY <3>1 DEF WiresOK
    <3>3. ~(r = t /\ u = s) /\ ~(r = s /\ u = t)
      BY <1>1, <3>1
    <3>. QED BY <1>6, <3>2, <3>3
  <2>3. WiresOK'
    BY <1>6, <2>1, <2>2 DEF WiresOK
  <2>4. Takes(s, t, reply)
    BY <1>1, <1>2, <1>6 DEF Takes, q, back
  <2>. QED BY <2>3, <2>4
<1>7. ASSUME wire' = [wire EXCEPT ![t][s] = Tail(@)] PROVE WiresOK' /\ Takes(s, t, <<>>)
  <2> DEFINE none == <<>>
  <2>1. wire' = [wire EXCEPT ![t] = [wire[t] EXCEPT ![s] = Tail(q)]]
    BY <1>7 DEF q
  <2>2. wire[t] \in [CloudMachine -> Seq(CloudMessage)]
    BY <1>4
  <2>3. [wire[t] EXCEPT ![s] = Tail(q)] \in [CloudMachine -> Seq(CloudMessage)]
    BY <1>3, <2>2
  <2>4. wire' \in [CloudMachine -> [CloudMachine -> Seq(CloudMessage)]]
    BY <1>4, <2>1, <2>3
  <2>5. \A r, u \in CloudMachine : wire'[r][u] = IF r = t /\ u = s THEN Tail(q) ELSE wire[r][u]
    BY <1>4, <2>1, <2>2
  <2>6. none \in Seq(CloudMessage) /\ back \o none = back
    BY <1>3
  <2> HIDE DEF none
  <2>7. \A r, u \in CloudMachine :
          wire'[r][u] = IF r = t /\ u = s THEN Tail(q)
                        ELSE IF r = s /\ u = t THEN back \o none ELSE wire[r][u]
    BY <1>1, <2>5, <2>6 DEF back
  <2>8. WiresOK' /\ Takes(s, t, none)
    BY <1>6, <2>4, <2>6, <2>7
  <2>. QED BY <2>8 DEF none
<1>8. ASSUME NEW m \in CloudMessage,
             wire' = [wire EXCEPT ![t][s] = Tail(@), ![s][t] = Append(@, m)]
      PROVE  WiresOK' /\ Takes(s, t, <<m>>)
  <2> DEFINE one == <<m>>
             long == Append(back, m)
             short == Tail(q)
  <2>1. long = back \o one /\ one \in Seq(CloudMessage) /\ long \in Seq(CloudMessage) /\ short \in Seq(CloudMessage)
    BY <1>3
  <2>2. wire' = [wire EXCEPT ![t][s] = short, ![s][t] = long]
    BY <1>1, <1>4, <1>8 DEF q, back
  <2> HIDE DEF one, long, short
  <2> DEFINE w == [wire EXCEPT ![t][s] = short]
  <2>3. /\ w \in [CloudMachine -> [CloudMachine -> Seq(CloudMessage)]]
        /\ \A r, u \in CloudMachine : w[r][u] = IF r = t /\ u = s THEN short ELSE wire[r][u]
    BY <1>4, <2>1
  <2>4. wire' = [w EXCEPT ![s][t] = long]
    BY <2>2
  <2> HIDE DEF w
  <2>5. /\ wire' \in [CloudMachine -> [CloudMachine -> Seq(CloudMessage)]]
        /\ \A r, u \in CloudMachine : wire'[r][u] = IF r = s /\ u = t THEN long ELSE w[r][u]
    BY <2>1, <2>3, <2>4
  <2>6. \A r, u \in CloudMachine :
          wire'[r][u] = IF r = t /\ u = s THEN short
                        ELSE IF r = s /\ u = t THEN back \o one ELSE wire[r][u]
    <3>1. ASSUME NEW r \in CloudMachine, NEW u \in CloudMachine
          PROVE  wire'[r][u] = IF r = t /\ u = s THEN short ELSE IF r = s /\ u = t THEN long ELSE wire[r][u]
      <4>1. w[r][u] = IF r = t /\ u = s THEN short ELSE wire[r][u]
        BY <2>3
      <4>2. wire'[r][u] = IF r = s /\ u = t THEN long ELSE w[r][u]
        BY <2>5
      <4>. QED BY <1>1, <4>1, <4>2
    <3>2. long = back \o one
      BY <2>1
    <3>. QED BY <3>1, <3>2
  <2>7. WiresOK' /\ Takes(s, t, one)
    BY <1>6, <2>1, <2>5, <2>6 DEF short
  <2>. QED BY <2>7 DEF one
<1>. QED BY <1>3, <1>7, <1>8 DEF q

\* The receiver believes what it was told, and of the rest what it believed.
LEMMA TakesTell ==
  ASSUME WiresOK, AllTold, NEW s \in CloudMachine, NEW t \in CloudMachine, NEW reply, Takes(s, t, reply),
         unnoticed' = unnoticed, dataRepository' = dataRepository,
         \A r \in CloudMachine : Known(r)' = Known(r),
         \A r, u \in CloudMachine, kind \in Kind, k \in CloudKey :
           r # s \/ u # t => (Believed(r, u, kind, k)' <=> Believed(r, u, kind, k)),
         \A kind \in Kind, k \in CloudKey :
           /\ \A i \in 1 .. Len(reply) : ~Unsays(reply[i], kind, k)
           /\ t \in Known(s) =>
                /\ Says(Head(wire[t][s]), kind, k) => Believed(s, t, kind, k)'
                /\ Believed(s, t, kind, k) /\ ~Unsays(Head(wire[t][s]), kind, k) => Believed(s, t, kind, k)'
  PROVE  AllTold'
<1>1. ASSUME NEW u \in CloudMachine, NEW r \in CloudMachine, u \in Known(r), ~Apart(u, r),
             NEW k \in CloudKey, NEW kind \in Kind, CountIn(dataRepository[r][k], kind) > 0
      PROVE  Arrives(wire'[r][u], kind, k, r \in Known(u) => Believed(u, r, kind, k)')
  <2> DEFINE q == wire[r][u]
             b == r \in Known(u) => Believed(u, r, kind, k)
             c == r \in Known(u) => Believed(u, r, kind, k)'
  <2>1. q \in Seq(CloudMessage) /\ Arrives(q, kind, k, b)
    BY <1>1 DEF WiresOK, AllTold, KeysAreTold
  <2>2. r # t \/ u # s => (b <=> c)
    BY <1>1
  <2>3. CASE r = t /\ u = s
    <3>1. Says(Head(q), kind, k) => c
      BY <2>3
    <3>2. b /\ ~Unsays(Head(q), kind, k) => c
      BY <2>3
    <3>3. q # <<>> /\ wire'[r][u] = Tail(q)
      BY <2>3 DEF Takes
    <3> HIDE DEF q, b, c
    <3>4. Arrives(Tail(q), kind, k, c)
      BY <2>1, <3>1, <3>2, <3>3, RestArrives
    <3>. QED BY <3>3, <3>4 DEF c
  <2>4. CASE r = s /\ u = t
    <3>1. s # t /\ wire'[r][u] = q \o reply /\ reply \in Seq(CloudMessage)
      BY <2>4 DEF Takes
    <3>2. b => c
      BY <2>2, <2>4, <3>1
    <3>3. \A i \in 1 .. Len(reply) : ~Unsays(reply[i], kind, k)
      OBVIOUS
    <3> HIDE DEF q, b, c
    <3>4. Arrives(q \o reply, kind, k, c)
      BY <2>1, <3>1, <3>2, <3>3, MoreArrives
    <3>. QED BY <3>1, <3>4 DEF c
  <2>5. CASE ~(r = t /\ u = s) /\ ~(r = s /\ u = t)
    <3>1. wire'[r][u] = q
      BY <2>5 DEF Takes
    <3>2. b <=> c
      BY <2>2, <2>5
    <3> HIDE DEF q, b, c
    <3>3. Arrives(q, kind, k, c)
      BY <2>1, <3>2 DEF Arrives
    <3>. QED BY <3>1, <3>3 DEF c
  <2>. QED BY <2>3, <2>4, <2>5
<1>2. ASSUME NEW u \in CloudMachine, NEW r \in CloudMachine PROVE KeysAreTold(u, r)'
  <2>1. \A kind \in Kind, k \in CloudKey :
          (r \in Known(u) => Believed(u, r, kind, k))' <=> (r \in Known(u) => Believed(u, r, kind, k)')
    BY <1>2
  <2>2. ASSUME (u \in Known(r))', ~Apart(u, r)', NEW k \in CloudKey, NEW kind \in Kind,
               CountIn(dataRepository[r][k], kind)' > 0
        PROVE  Arrives(wire[r][u], kind, k, r \in Known(u) => Believed(u, r, kind, k))'
    <3>1. u \in Known(r) /\ ~Apart(u, r)
      BY <2>2 DEF Apart
    <3>2. CountIn(dataRepository[r][k], kind) > 0
      BY <2>2 DEF CountIn
    <3>3. Arrives(wire'[r][u], kind, k, r \in Known(u) => Believed(u, r, kind, k)')
      BY <1>1, <3>1, <3>2
    <3>. QED BY <2>1, <3>3 DEF Arrives, Says, Unsays
  <2>. QED BY <2>2 DEF KeysAreTold
<1>. QED BY <1>2 DEF AllTold

\* Of queries and answers under way only the one handled is not any more.
LEMMA TakesWait ==
  ASSUME WiresOK, NEW s \in CloudMachine, NEW t \in CloudMachine, NEW reply, Takes(s, t, reply),
         unnoticed' = unnoticed, NEW r \in CloudMachine, NEW u \in CloudMachine, NEW id, WillEnd(r, u, id)
  PROVE  \/ WillEnd(r, u, id)'
         \/ r = t /\ u = s /\ IsFor(Head(wire[t][s]), "PROCESS_GET_REQUEST", id)
         \/ r = s /\ u = t /\ IsFor(Head(wire[t][s]), "PROCESS_GET_RESPONSE", id)
<1>1. ASSUME NEW a \in CloudMachine, NEW b \in CloudMachine, NEW type,
             NEW j \in DOMAIN wire[a][b], IsFor(wire[a][b][j], type, id)
      PROVE  \/ \E i \in DOMAIN wire'[a][b] : IsFor(wire'[a][b][i], type, id)
             \/ a = t /\ b = s /\ IsFor(Head(wire[t][s]), type, id)
  <2> DEFINE q == wire[a][b]
  <2>1. q \in Seq(CloudMessage) /\ j \in DOMAIN q /\ IsFor(q[j], type, id)
    BY <1>1 DEF WiresOK
  <2>2. CASE a = t /\ b = s
    <3>1. q # <<>> /\ wire'[a][b] = Tail(q) /\ q = wire[t][s]
      BY <2>2 DEF Takes
    <3> HIDE DEF q
    <3>2. /\ Head(q) = q[1] /\ Len(q) \in Nat \ {0} /\ DOMAIN q = 1 .. Len(q)
          /\ DOMAIN Tail(q) = 1 .. Len(q) - 1 /\ \A i \in 1 .. Len(q) - 1 : Tail(q)[i] = q[i + 1]
      BY <2>1, <3>1, RestFacts
    <3>3. CASE j = 1
      BY <2>1, <2>2, <3>1, <3>2, <3>3
    <3>4. CASE j # 1
      <4>1. j - 1 \in 1 .. Len(q) - 1 /\ (j - 1) + 1 = j
        BY <2>1, <3>2, <3>4
      <4>2. j - 1 \in DOMAIN Tail(q) /\ Tail(q)[j - 1] = q[j]
        BY <3>2, <4>1
      <4>. QED BY <2>1, <3>1, <4>2
    <3>. QED BY <3>3, <3>4
  <2>3. CASE ~(a = t /\ b = s)
    <3>1. reply \in Seq(CloudMessage) /\ (wire'[a][b] = q \/ wire'[a][b] = q \o reply)
      BY <2>3 DEF Takes
    <3> HIDE DEF q
    <3>2. j \in DOMAIN (q \o reply) /\ (q \o reply)[j] = q[j]
      BY <2>1, <3>1, JoinedFacts
    <3>. QED BY <2>1, <3>1, <3>2
  <2>. QED BY <2>2, <2>3
<1>2. CASE \E j \in DOMAIN wire[r][u] : IsFor(wire[r][u][j], "PROCESS_GET_REQUEST", id)
  BY <1>1, <1>2 DEF WillEnd
<1>3. CASE \E j \in DOMAIN wire[u][r] : IsFor(wire[u][r][j], "PROCESS_GET_RESPONSE", id)
  BY <1>1, <1>3 DEF WillEnd
<1>4. CASE <<r, u>> \in unnoticed
  BY <1>4 DEF WillEnd
<1>. QED BY <1>2, <1>3, <1>4 DEF WillEnd

-----------------------------------------------------------------------------
(* What a server notes of a key *)

DataOf(l) == {u \in CloudUser : l.keyData[u] # 0}

\* A list whose counts are right, with p posts and g queries so far.
ListFits(l, p, g) ==
  /\ l \in CloudDataList
  /\ l.subscriberCount = Cardinality(l.nonSpecificSubscribers)
  /\ l.uploaderCount >= Cardinality(DataOf(l))
  /\ l.uploaderCount <= p /\ l.subscriberCount <= g

\* So counts are not 0 as long as there is what they count.
LEMMA FitFacts ==
  ASSUME NEW p \in 0 .. MaxPosts, NEW g \in 0 .. MaxGets, NEW l, ListFits(l, p, g)
  PROVE  /\ l.uploaderCount \in Nat /\ l.subscriberCount \in Nat
         /\ l.keyData \in [CloudUser -> 0 .. MaxPosts] /\ l.nonSpecificSubscribers \subseteq CloudUser
         /\ IsFiniteSet(l.nonSpecificSubscribers) /\ IsFiniteSet(DataOf(l))
         /\ Cardinality(DataOf(l)) \in Nat
         /\ l.nonSpecificSubscribers # {} => l.subscriberCount > 0
         /\ DataOf(l) # {} => l.uploaderCount > 0
<1>1. /\ l.uploaderCount \in 0 .. MaxPosts /\ l.subscriberCount \in 0 .. MaxGets
      /\ l.keyData \in [CloudUser -> 0 .. MaxPosts] /\ l.nonSpecificSubscribers \subseteq CloudUser
  BY DEF ListFits, CloudDataList, Rows
<1>2. IsFiniteSet(l.nonSpecificSubscribers) /\ IsFiniteSet(DataOf(l))
  <2>1. DataOf(l) \subseteq CloudUser
    BY DEF DataOf
  <2>. QED BY <1>1, <2>1, CloudFacts, FS_Subset
<1>3. /\ Cardinality(DataOf(l)) \in Nat /\ (Cardinality(DataOf(l)) = 0 <=> DataOf(l) = {})
      /\ Cardinality(l.nonSpecificSubscribers) \in Nat
      /\ (Cardinality(l.nonSpecificSubscribers) = 0 <=> l.nonSpecificSubscribers = {})
  BY <1>2, FS_CardinalityType, FS_EmptySet
<1>. QED BY <1>1, <1>2, <1>3 DEF ListFits

\* Of an empty list, and of no list.
LEMMA NewListFits ==
  ASSUME NEW p \in 0 .. MaxPosts, NEW g \in 0 .. MaxGets
  PROVE  /\ ListFits(NewList, p, g) /\ NewList # NoList /\ NoList \notin CloudDataList
         /\ NoList.keyData = NoRows /\ NoList.nonSpecificSubscribers = {}
         /\ NewList.keyData = NoRows /\ NewList.nonSpecificSubscribers = {}
         /\ NewList.uploaderCount = 0 /\ NewList.subscriberCount = 0
         /\ NoList.uploaderCount = -1 /\ NoList.subscriberCount = -1
         /\ \A u \in CloudUser : NoRows[u] = 0
         /\ NoRows \in Rows
<1>1. /\ NoList.keyData = NoRows /\ NoList.nonSpecificSubscribers = {}
      /\ NewList.keyData = NoRows /\ NewList.nonSpecificSubscribers = {}
      /\ NewList.uploaderCount = 0 /\ NewList.subscriberCount = 0
      /\ NoList.uploaderCount = -1 /\ NoList.subscriberCount = -1
  BY DEF NoList, NewList
<1>2. /\ \A u \in CloudUser : NoRows[u] = 0
      /\ NoRows \in Rows
  BY CloudFacts DEF NoRows, Rows
<1>3. NewList # NoList
  BY <1>1
<1>4. NoList \notin CloudDataList
  <2>1. \A l \in CloudDataList : l.uploaderCount # -1
    BY CloudFacts DEF CloudDataList
  <2>. QED BY <1>1, <2>1
<1>5. DataOf(NewList) = {}
  BY <1>1, <1>2 DEF DataOf
<1>6. NewList \in CloudDataList
  BY <1>2, CloudFacts DEF NewList, CloudDataList
<1>7. Cardinality({}) = 0
  BY FS_EmptySet
<1>. QED BY <1>1, <1>2, <1>3, <1>4, <1>5, <1>6, <1>7 DEF ListFits

\* A list with data of one client more, or newer.
LEMMA PostFits ==
  ASSUME NEW p \in 0 .. MaxPosts, NEW g \in 0 .. MaxGets, NEW l, ListFits(l, p, g), p < MaxPosts,
         NEW c \in CloudUser
  PROVE  LET posted == WithData(l, c, p + 1)
         IN /\ ListFits(posted, p + 1, g)
            /\ posted.keyData = [l.keyData EXCEPT ![c] = p + 1]
            /\ posted.uploaderCount = l.uploaderCount + 1 /\ posted.subscriberCount = l.subscriberCount
            /\ posted.nonSpecificSubscribers = l.nonSpecificSubscribers
<1> DEFINE posted == WithData(l, c, p + 1)
           rows == [l.keyData EXCEPT ![c] = p + 1]
<1>1. /\ l.uploaderCount \in Nat /\ l.keyData \in [CloudUser -> 0 .. MaxPosts]
      /\ IsFiniteSet(DataOf(l)) /\ Cardinality(DataOf(l)) \in Nat
  BY FitFacts
<1>2. /\ l.uploaderCount >= Cardinality(DataOf(l)) /\ l.uploaderCount <= p /\ l \in CloudDataList
      /\ l.subscriberCount = Cardinality(l.nonSpecificSubscribers) /\ l.subscriberCount <= g
  BY DEF ListFits
<1>3. p + 1 \in 0 .. MaxPosts /\ p + 1 # 0 /\ l.uploaderCount + 1 \in 0 .. MaxPosts
  BY <1>1, <1>2, CloudFacts
<1>4. rows \in [CloudUser -> 0 .. MaxPosts]
  BY <1>1, <1>3
<1>5. /\ posted \in CloudDataList /\ posted.keyData = rows
      /\ posted.uploaderCount = l.uploaderCount + 1 /\ posted.subscriberCount = l.subscriberCount
      /\ posted.nonSpecificSubscribers = l.nonSpecificSubscribers
  <2>1. posted = [l EXCEPT !.uploaderCount = l.uploaderCount + 1, !.keyData = rows]
    BY <1>2 DEF CloudDataList, WithData
  <2> DEFINE n == l.uploaderCount + 1
  <2>2. n \in 0 .. MaxPosts
    BY <1>3
  <2>3. posted = [l EXCEPT !.uploaderCount = n, !.keyData = rows]
    BY <2>1
  <2> HIDE DEF posted, rows, n
  <2>4. posted \in CloudDataList /\ posted.keyData = rows /\ posted.uploaderCount = n
        /\ posted.subscriberCount = l.subscriberCount
        /\ posted.nonSpecificSubscribers = l.nonSpecificSubscribers
    BY <1>2, <1>4, <2>2, <2>3 DEF CloudDataList, Rows
  <2>. QED BY <2>4 DEF n
<1>6. DataOf(posted) = DataOf(l) \cup {c}
  BY <1>1, <1>3, <1>5 DEF DataOf
<1> DEFINE S == DataOf(l)
<1>7. Cardinality(S \cup {c}) <= Cardinality(S) + 1 /\ Cardinality(S \cup {c}) \in Nat
  <2>1. IsFiniteSet(S) /\ Cardinality(S) \in Nat
    BY <1>1
  <2> HIDE DEF S
  <2>2. Cardinality(S \cup {c}) = IF c \in S THEN Cardinality(S) ELSE Cardinality(S) + 1
    BY <2>1, FS_AddElement
  <2>. QED BY <2>1, <2>2
<1>8. Cardinality(DataOf(posted)) <= Cardinality(DataOf(l)) + 1 /\ Cardinality(DataOf(posted)) \in Nat
  BY <1>6, <1>7
<1> HIDE DEF posted
<1>9. ListFits(posted, p + 1, g)
  BY <1>1, <1>2, <1>3, <1>5, <1>8 DEF ListFits
<1>. QED BY <1>5, <1>9 DEF posted

\* A list without the data of a client that had some: the count is one less, and
\* was of the past as well.
LEMMA ReleaseFits ==
  ASSUME NEW p \in 0 .. MaxPosts, NEW g \in 0 .. MaxGets, NEW l, ListFits(l, p, g),
         NEW c \in CloudUser, l.keyData[c] # 0
  PROVE  LET left == WithoutData(l, c)
         IN /\ ListFits(left, p, g)
            /\ left.keyData = [l.keyData EXCEPT ![c] = 0]
            /\ left.uploaderCount <= l.uploaderCount /\ left.subscriberCount = l.subscriberCount
            /\ left.nonSpecificSubscribers = l.nonSpecificSubscribers
<1> DEFINE left == WithoutData(l, c)
           rows == [l.keyData EXCEPT ![c] = 0]
<1>1. /\ l.uploaderCount \in Nat /\ l.keyData \in [CloudUser -> 0 .. MaxPosts]
      /\ IsFiniteSet(DataOf(l)) /\ Cardinality(DataOf(l)) \in Nat
  BY FitFacts
<1>2. /\ l.uploaderCount >= Cardinality(DataOf(l)) /\ l.uploaderCount <= p /\ l \in CloudDataList
      /\ l.subscriberCount = Cardinality(l.nonSpecificSubscribers) /\ l.subscriberCount <= g
  BY DEF ListFits
<1>3. c \in DataOf(l)
  BY DEF DataOf
<1>4. l.uploaderCount - 1 \in 0 .. MaxPosts /\ l.uploaderCount > 0
  BY <1>1, <1>2, <1>3, FitFacts, CloudFacts
<1>5. rows \in [CloudUser -> 0 .. MaxPosts]
  BY <1>1, CloudFacts
<1>6. /\ left \in CloudDataList /\ left.keyData = rows
      /\ left.uploaderCount = l.uploaderCount - 1 /\ left.subscriberCount = l.subscriberCount
      /\ left.nonSpecificSubscribers = l.nonSpecificSubscribers
  BY <1>2, <1>4, <1>5 DEF CloudDataList, Rows, WithoutData
<1>7. DataOf(left) = DataOf(l) \ {c}
  BY <1>1, <1>6 DEF DataOf
<1>8. Cardinality(DataOf(left)) = Cardinality(DataOf(l)) - 1
  BY <1>1, <1>3, <1>7, FS_RemoveElement
<1> HIDE DEF left
<1>9. ListFits(left, p, g)
  BY <1>1, <1>2, <1>6, <1>8 DEF ListFits
<1>. QED BY <1>1, <1>6, <1>9 DEF left

\* A list without one of its subscribers.
LEMMA UnsubscribeFits ==
  ASSUME NEW p \in 0 .. MaxPosts, NEW g \in 0 .. MaxGets, NEW l, ListFits(l, p, g),
         NEW c \in CloudUser, c \in l.nonSpecificSubscribers
  PROVE  LET left == WithoutSubscriber(l, c)
         IN /\ ListFits(left, p, g) /\ left.keyData = l.keyData
            /\ left.uploaderCount = l.uploaderCount /\ left.subscriberCount = l.subscriberCount - 1
            /\ left.nonSpecificSubscribers = l.nonSpecificSubscribers \ {c}
<1> DEFINE left == WithoutSubscriber(l, c)
           S == l.nonSpecificSubscribers
<1>1. /\ l.subscriberCount \in Nat /\ S \subseteq CloudUser /\ IsFiniteSet(S) /\ l.subscriberCount > 0
  BY FitFacts
<1>2. /\ l.uploaderCount >= Cardinality(DataOf(l)) /\ l.uploaderCount <= p /\ l \in CloudDataList
      /\ l.subscriberCount = Cardinality(S) /\ l.subscriberCount <= g
  BY DEF ListFits
<1>3. l.subscriberCount - 1 \in 0 .. MaxGets
  BY <1>1, <1>2, CloudFacts
<1>4. /\ left \in CloudDataList /\ left.keyData = l.keyData
      /\ left.uploaderCount = l.uploaderCount /\ left.subscriberCount = l.subscriberCount - 1
      /\ left.nonSpecificSubscribers = S \ {c}
  BY <1>1, <1>2, <1>3 DEF CloudDataList, WithoutSubscriber
<1>5. DataOf(left) = DataOf(l)
  BY <1>4 DEF DataOf
<1>6. Cardinality(S \ {c}) = Cardinality(S) - 1
  BY <1>1, FS_RemoveElement
<1> HIDE DEF left
<1>7. ListFits(left, p, g)
  BY <1>1, <1>2, <1>4, <1>5, <1>6 DEF ListFits
<1>. QED BY <1>4, <1>7 DEF left

\* A list with a subscriber more.
LEMMA SubscribeFits ==
  ASSUME NEW p \in 0 .. MaxPosts, NEW g \in 0 .. MaxGets, NEW l, ListFits(l, p, g), g < MaxGets,
         NEW c \in CloudUser, c \notin l.nonSpecificSubscribers
  PROVE  LET list == WithSubscriber(l, c)
         IN /\ ListFits(list, p, g + 1) /\ list.keyData = l.keyData
            /\ list.uploaderCount = l.uploaderCount /\ list.subscriberCount = l.subscriberCount + 1
            /\ list.nonSpecificSubscribers = l.nonSpecificSubscribers \cup {c}
<1> DEFINE list == WithSubscriber(l, c)
           S == l.nonSpecificSubscribers
<1>1. /\ l.subscriberCount \in Nat /\ S \subseteq CloudUser /\ IsFiniteSet(S)
  BY FitFacts
<1>2. /\ l.uploaderCount >= Cardinality(DataOf(l)) /\ l.uploaderCount <= p /\ l \in CloudDataList
      /\ l.subscriberCount = Cardinality(S) /\ l.subscriberCount <= g
  BY DEF ListFits
<1>3. l.subscriberCount + 1 \in 0 .. MaxGets
  BY <1>1, <1>2, CloudFacts
<1>4. /\ list \in CloudDataList /\ list.keyData = l.keyData
      /\ list.uploaderCount = l.uploaderCount /\ list.subscriberCount = l.subscriberCount + 1
      /\ list.nonSpecificSubscribers = S \cup {c}
  BY <1>1, <1>2, <1>3 DEF CloudDataList, WithSubscriber
<1>5. DataOf(list) = DataOf(l)
  BY <1>4 DEF DataOf
<1>6. Cardinality(S \cup {c}) = Cardinality(S) + 1
  BY <1>1, FS_AddElement
<1> HIDE DEF list
<1>7. ListFits(list, p, g + 1)
  BY <1>1, <1>2, <1>4, <1>5, <1>6 DEF ListFits
<1>. QED BY <1>4, <1>7 DEF list

\* What servers note of keys, and of clients.
NotesOK ==
  /\ dataRepository \in [CloudMachine -> [CloudKey -> CloudDataList \cup {NoList}]]
  /\ uploadedKeys \in [CloudUser -> SUBSET CloudKey]
  /\ subscribedKeys \in [CloudUser -> SUBSET CloudKey]
  /\ nextGetRequestId \in 0 .. MaxGets /\ posts \in 0 .. MaxPosts
  /\ \A s \in CloudMachine, k \in CloudKey : KeyNoted(s, k)

\* The list of a key fits the posts and queries so far, and so does the one that
\* is made if there is none.
LEMMA ListNoted ==
  ASSUME NotesOK, NEW s \in CloudMachine, NEW k \in CloudKey
  PROVE  /\ dataRepository[s][k] # NoList => ListFits(dataRepository[s][k], posts, nextGetRequestId)
         /\ ListFits(ListOf(s, k), posts, nextGetRequestId)
         /\ ListOf(s, k) # NoList
         /\ ListOf(s, k).keyData = dataRepository[s][k].keyData
         /\ ListOf(s, k).nonSpecificSubscribers = dataRepository[s][k].nonSpecificSubscribers
         /\ \A kind \in Kind : CountIn(ListOf(s, k), kind) > 0 => CountIn(dataRepository[s][k], kind) > 0
<1> DEFINE l == dataRepository[s][k]
<1>1. posts \in 0 .. MaxPosts /\ nextGetRequestId \in 0 .. MaxGets
  BY DEF NotesOK
<1>2. l \in CloudDataList \cup {NoList}
  BY DEF NotesOK
<1>3. KeyNoted(s, k)
  BY DEF NotesOK
<1>4. l # NoList => ListFits(l, posts, nextGetRequestId)
  BY <1>2, <1>3 DEF KeyNoted, ListFits, DataOf
<1>5. ListOf(s, k) = IF l = NoList THEN NewList ELSE l
  BY DEF ListOf
<1> HIDE DEF l
<1>6. CASE l = NoList
  <2>1. ListOf(s, k) = NewList
    BY <1>5, <1>6
  <2>2. \A kind \in Kind : ~(CountIn(NewList, kind) > 0)
    BY NewListFits, <1>1 DEF CountIn, Kind
  <2>. QED BY <1>1, <1>4, <1>6, <2>1, <2>2, NewListFits DEF l
<1>7. CASE l # NoList
  BY <1>4, <1>5, <1>7 DEF l
<1>. QED BY <1>6, <1>7

\* A list that is dropped has nothing in it.
LEMMA KeptFacts ==
  ASSUME NEW p \in 0 .. MaxPosts, NEW g \in 0 .. MaxGets, NEW l, ListFits(l, p, g)
  PROVE  /\ KeptList(l) # NoList => ListFits(KeptList(l), p, g)
         /\ KeptList(l) # NoList => KeptList(l) = l
         /\ KeptList(l).keyData = l.keyData
         /\ KeptList(l).nonSpecificSubscribers = l.nonSpecificSubscribers
         /\ \A kind \in Kind : CountIn(KeptList(l), kind) > 0 => CountIn(l, kind) > 0
<1>1. CASE IsUnused(l)
  <2>1. KeptList(l) = NoList /\ l.keyData = NoRows /\ l.nonSpecificSubscribers = {}
    BY <1>1 DEF KeptList, IsUnused
  <2>2. \A kind \in Kind : ~(CountIn(NoList, kind) > 0)
    BY NewListFits, CloudFacts DEF CountIn, Kind
  <2>. QED BY <2>1, <2>2, NewListFits
<1>2. CASE ~IsUnused(l)
  BY <1>2 DEF KeptList
<1>. QED BY <1>1, <1>2

\* A list that fits the numbers of posts and of queries fits any greater ones.
LEMMA FitsLater ==
  ASSUME NEW p \in 0 .. MaxPosts, NEW g \in 0 .. MaxGets, NEW q \in 0 .. MaxPosts, NEW h \in 0 .. MaxGets,
         p <= q, g <= h, NEW l, ListFits(l, p, g)
  PROVE  ListFits(l, q, h)
<1>1. l.uploaderCount \in Nat /\ l.subscriberCount \in Nat
  BY FitFacts
<1>. QED BY <1>1 DEF ListFits

\* Notes of one server change, for its own clients and in its own lists.
LEMMA NotesKeep ==
  ASSUME NotesOK, NEW s \in CloudMachine,
         posts' \in posts .. MaxPosts, nextGetRequestId' \in nextGetRequestId .. MaxGets,
         dataRepository' \in [CloudMachine -> [CloudKey -> CloudDataList \cup {NoList}]],
         \A r \in CloudMachine \ {s} : dataRepository'[r] = dataRepository[r],
         \A k \in CloudKey :
           dataRepository'[s][k] = NoList \/ ListFits(dataRepository'[s][k], posts', nextGetRequestId'),
         uploadedKeys' \in [CloudUser -> SUBSET CloudKey],
         subscribedKeys' \in [CloudUser -> SUBSET CloudKey],
         \A u \in CloudUser, k \in CloudKey :
           /\ k \in uploadedKeys'[u] <=>
                IF ServerOf[u] = s THEN dataRepository'[s][k].keyData[u] # 0 ELSE k \in uploadedKeys[u]
           /\ k \in subscribedKeys'[u] <=>
                IF ServerOf[u] = s THEN u \in dataRepository'[s][k].nonSpecificSubscribers
                ELSE k \in subscribedKeys[u]
  PROVE  NotesOK'
<1>1. posts \in 0 .. MaxPosts /\ nextGetRequestId \in 0 .. MaxGets
  BY DEF NotesOK
<1>2. posts' \in 0 .. MaxPosts /\ nextGetRequestId' \in 0 .. MaxGets
      /\ posts <= posts' /\ nextGetRequestId <= nextGetRequestId'
  BY <1>1, CloudFacts
<1>6. ASSUME NEW r \in CloudMachine, NEW k \in CloudKey PROVE KeyNoted(r, k)'
  <2> DEFINE l == dataRepository'[r][k]
  <2>1. l = NoList \/ ListFits(l, posts', nextGetRequestId')
    <3>1. CASE r = s
      BY <3>1
    <3>2. CASE r # s
      <4>1. l = dataRepository[r][k]
        BY <3>2
      <4>. QED BY <1>1, <1>2, <4>1, ListNoted, FitsLater
    <3>. QED BY <3>1, <3>2
  <2>2. ASSUME NEW u \in CloudUser, ServerOf[u] = r
        PROVE  /\ k \in uploadedKeys'[u] <=> l.keyData[u] # 0
               /\ k \in subscribedKeys'[u] <=> u \in l.nonSpecificSubscribers
    <3>1. CASE r = s
      BY <2>2, <3>1
    <3>2. CASE r # s
      <4>1. l = dataRepository[r][k]
        BY <3>2
      <4>2. KeyNoted(r, k)
        BY DEF NotesOK
      <4> HIDE DEF l
      <4>. QED BY <2>2, <3>2, <4>1, <4>2 DEF KeyNoted
    <3>. QED BY <3>1, <3>2
  <2> HIDE DEF l
  <2>3. l # NoList =>
          /\ l.subscriberCount = Cardinality(l.nonSpecificSubscribers)
          /\ l.uploaderCount >= Cardinality({u \in CloudUser : l.keyData[u] # 0})
          /\ l.uploaderCount <= posts' /\ l.subscriberCount <= nextGetRequestId'
    BY <2>1 DEF ListFits, DataOf
  <2>. QED BY <2>2, <2>3 DEF KeyNoted, l
<1>. QED BY <1>2, <1>6 DEF NotesOK

-----------------------------------------------------------------------------
(* The parts of the invariant *)

KnownOK ==
  /\ DOMAIN remoteServers = CloudMachine
  /\ \A s \in CloudMachine : /\ Known(s) \subseteq CloudMachine \ {s}
                             /\ remoteServers[s] \in [Known(s) -> RemoteServer]
  /\ unnoticed \subseteq CloudMachine \X CloudMachine
  /\ \A s, t \in CloudMachine : <<s, t>> \in unnoticed /\ s \in Known(t) => <<t, s>> \in unnoticed

ViewsOK ==
  /\ attached \subseteq CloudUser
  /\ getRequests \in [CloudMachine -> Seq(GetRequest)]
  /\ departures \in 0 .. MaxDepartures
  /\ view \in [CloudUser -> [CloudKey -> Rows]]
  /\ missed \subseteq CloudUser \X CloudKey \X {"between", "apart"}

PartsOK == NotesOK /\ KnownOK /\ ViewsOK /\ WiresOK /\ AllTold /\ WaitsOK

\* The invariant is its parts.
LEMMA CloudParts == CloudIInv <=> PartsOK
<1>1. ASSUME CloudIInv PROVE PartsOK
  <2>1. NotesOK /\ ViewsOK
    BY <1>1 DEF CloudIInv, CloudTypeOK, NotesOK, ViewsOK
  <2>2. KnownOK
    BY <1>1 DEF CloudIInv, CloudTypeOK, KnownOK, LossForgets
  <2>3. WiresOK
    BY <1>1 DEF CloudIInv, CloudTypeOK, WiresOK, LossForgets
  <2>4. AllTold /\ WaitsOK
    BY <1>1 DEF CloudIInv, AllTold, WaitsOK
  <2>. QED BY <2>1, <2>2, <2>3, <2>4 DEF PartsOK
<1>2. ASSUME PartsOK PROVE CloudIInv
  <2>1. CloudTypeOK
    BY <1>2 DEF PartsOK, CloudTypeOK, NotesOK, ViewsOK, KnownOK, WiresOK
  <2>2. \A s \in CloudMachine, k \in CloudKey : KeyNoted(s, k)
    BY <1>2 DEF PartsOK, NotesOK
  <2>3. \A s, t \in CloudMachine : LossForgets(s, t)
    BY <1>2 DEF PartsOK, KnownOK, WiresOK, LossForgets
  <2>4. \A s \in CloudMachine : wire[s][s] = <<>>
    BY <1>2 DEF PartsOK, WiresOK
  <2>. QED BY <1>2, <2>1, <2>2, <2>3, <2>4 DEF PartsOK, CloudIInv, AllTold, WaitsOK
<1>. QED BY <1>1, <1>2

\* Who is passed by is a client with a subscription.
LEMMA PassedByFacts ==
  ASSUME NEW s, NEW k \in CloudKey
  PROVE  PassedBy(s, k) \subseteq CloudUser \X CloudKey \X {"between", "apart"}
BY DEF PassedBy

\* What clients are told of a change are rows of data.
LEMMA NotifyViewFacts ==
  ASSUME view \in [CloudUser -> [CloudKey -> Rows]], NEW receivers, NEW k \in CloudKey,
         NEW u \in CloudUser, NEW v \in 0 .. MaxPosts,
         NotifyClientSubscribersOfDataChange(receivers, k, u, v)
  PROVE  view' \in [CloudUser -> [CloudKey -> Rows]]
<1>1. \A c \in CloudUser : view[c] \in [CloudKey -> Rows] /\ view[c][k] \in [CloudUser -> 0 .. MaxPosts]
  BY DEF Rows
<1>2. \A c \in CloudUser : [view[c][k] EXCEPT ![u] = v] \in Rows
  BY <1>1 DEF Rows
<1>3. \A c \in CloudUser : [view[c] EXCEPT ![k][u] = v] \in [CloudKey -> Rows]
  BY <1>1, <1>2
<1>. QED BY <1>1, <1>3 DEF NotifyClientSubscribersOfDataChange

\* What a server may send without a word of it being forgotten.
LEMMA SendsKeep ==
  ASSUME PartsOK, NEW s \in CloudMachine, NEW f \in Outgoing, f[s] = <<>>, SendAll(s, f),
         unnoticed' = unnoticed, remoteServers' = remoteServers, getRequests' = getRequests,
         nextGetRequestId' = nextGetRequestId, stranded' = stranded,
         \A r \in CloudMachine \ {s} : dataRepository'[r] = dataRepository[r],
         TellsOfKeys(s, f)
  PROVE  KnownOK' /\ WiresOK' /\ AllTold' /\ WaitsOK'
<1>1. WiresOK /\ AllTold /\ WaitsOK /\ KnownOK /\ getRequests \in [CloudMachine -> Seq(GetRequest)]
  BY DEF PartsOK, ViewsOK
<1>2. KnownOK'
  BY <1>1 DEF KnownOK, Known
<1>3. WiresOK' /\ Sends(s, f)
  BY <1>1, SendAllFacts
<1>4. AllTold'
  <2>1. Known(s) \subseteq CloudMachine
    BY <1>1 DEF KnownOK
  <2>. QED BY <1>1, <1>3, <2>1, SendsTell
<1>5. WaitsOK'
  <2>1. \A r, t \in CloudMachine : \A id : WillEnd(r, t, id) => WillEnd(r, t, id)'
    BY <1>1, <1>3, SendsWait
  <2>2. \A r \in CloudMachine : Remains(getRequests'[r], getRequests[r])
    <3>1. \A r \in CloudMachine : Len(getRequests[r]) \in Nat
      BY <1>1
    <3>. QED BY <3>1, RemainsItself
  <2>3. \A r \in CloudMachine : Known(r)' = Known(r) /\ Known(r) \subseteq CloudMachine
    BY <1>1 DEF Known, KnownOK
  <2>. QED BY <1>1, <2>1, <2>2, <2>3, WaitsStay
<1>. QED BY <1>2, <1>3, <1>4, <1>5

\* Notes and words for a key, and nothing of the others.
LEMMA KeyTells ==
  ASSUME PartsOK, NEW s \in CloudMachine, NEW k \in CloudKey, NEW f,
         \A j \in CloudKey \ {k} : dataRepository'[s][j] = dataRepository[s][j],
         \A j \in CloudKey \ {k}, kind \in Kind : \A t \in Known(s) : \A i \in 1 .. Len(f[t]) :
           ~Unsays(f[t][i], kind, j),
         \A kind \in Kind : CountIn(dataRepository'[s][k], kind) > 0 =>
           \/ /\ CountIn(dataRepository[s][k], kind) > 0
              /\ \A t \in Known(s) : \A i \in 1 .. Len(f[t]) : ~Unsays(f[t][i], kind, k)
           \/ \A t \in Known(s) : \E n \in 1 .. Len(f[t]) :
                Says(f[t][n], kind, k) /\ \A i \in 1 .. Len(f[t]) : i >= n => ~Unsays(f[t][i], kind, k)
  PROVE  TellsOfKeys(s, f)
<1>1. ASSUME NEW j \in CloudKey, NEW kind \in Kind, CountIn(dataRepository'[s][j], kind) > 0
      PROVE  \/ /\ CountIn(dataRepository[s][j], kind) > 0
                /\ \A t \in Known(s) : \A i \in 1 .. Len(f[t]) : ~Unsays(f[t][i], kind, j)
             \/ \A t \in Known(s) : \E n \in 1 .. Len(f[t]) :
                  Says(f[t][n], kind, j) /\ \A i \in 1 .. Len(f[t]) : i >= n => ~Unsays(f[t][i], kind, j)
  <2>1. CASE j = k
    BY <1>1, <2>1
  <2>2. CASE j # k
    BY <1>1, <2>2
  <2>. QED BY <2>1, <2>2
<1>. QED BY <1>1 DEF TellsOfKeys

-----------------------------------------------------------------------------
(* What clients do *)

\* What a message about key k says of key j.
LEMMA WordsFacts ==
  ASSUME NEW k \in CloudKey, NEW j \in CloudKey, NEW kind \in Kind
  PROVE  /\ \A type \in {"ADD_UPLOADED_KEY", "ADD_SUBSCRIBED_KEY"} :
              ~Unsays([type |-> type, key |-> k], kind, j)
         /\ \A u, v : ~Unsays([type |-> "DATA_CHANGED", key |-> k, from |-> u, data |-> v], kind, j)
         /\ \A id : ~Unsays([type |-> "PROCESS_GET_REQUEST", key |-> k, requestId |-> id], kind, j)
         /\ Unsays([type |-> "REMOVE_UPLOADED_KEY", key |-> k], kind, j) => kind = "uploaded" /\ j = k
         /\ Unsays([type |-> "REMOVE_SUBSCRIBED_KEY", key |-> k], kind, j) => kind = "subscribed" /\ j = k
         /\ Says([type |-> "ADD_UPLOADED_KEY", key |-> k], "uploaded", k)
         /\ Says([type |-> "ADD_SUBSCRIBED_KEY", key |-> k], "subscribed", k)
<1>1. RemoveOf(kind) = IF kind = "uploaded" THEN "REMOVE_UPLOADED_KEY" ELSE "REMOVE_SUBSCRIBED_KEY"
  BY DEF RemoveOf
<1>2. AddOf("uploaded") = "ADD_UPLOADED_KEY" /\ AddOf("subscribed") = "ADD_SUBSCRIBED_KEY"
  BY DEF AddOf
<1>3. kind \in {"uploaded", "subscribed"}
  BY DEF Kind
<1>. QED BY <1>1, <1>2, <1>3 DEF Says, Unsays

\* At most one message of each of two kinds.
LEMMA TwoSent ==
  ASSUME NEW a \in CloudMessage, NEW b \in CloudMessage, NEW f \in Outgoing, NEW g \in Outgoing,
         NEW t \in CloudMachine, f[t] \in {<<>>, <<a>>}, g[t] \in {<<>>, <<b>>}
  PROVE  LET both == Both(f, g)[t]
         IN /\ Len(both) \in Nat /\ \A i \in 1 .. Len(both) : both[i] \in {a, b}
            /\ f[t] = <<a>> => 1 \in 1 .. Len(both) /\ both[1] = a
            /\ f[t] = <<>> => \A i \in 1 .. Len(both) : both[i] = b
            /\ g[t] = <<>> => \A i \in 1 .. Len(both) : both[i] = a
            /\ g[t] = <<b>> => Len(both) \in 1 .. Len(both) /\ both[Len(both)] = b
<1>1. Both(f, g)[t] = f[t] \o g[t]
  BY BothFacts
<1>2. \A p \in {<<>>, <<a>>}, q \in {<<>>, <<b>>} :
        /\ Len(p \o q) \in Nat /\ \A i \in 1 .. Len(p \o q) : (p \o q)[i] \in {a, b}
        /\ p = <<a>> => 1 \in 1 .. Len(p \o q) /\ (p \o q)[1] = a
        /\ p = <<>> => \A i \in 1 .. Len(p \o q) : (p \o q)[i] = b
        /\ q = <<>> => \A i \in 1 .. Len(p \o q) : (p \o q)[i] = a
        /\ q = <<b>> => Len(p \o q) \in 1 .. Len(p \o q) /\ (p \o q)[Len(p \o q)] = b
  <2> SUFFICES ASSUME NEW p \in {<<>>, <<a>>}, NEW q \in {<<>>, <<b>>}
               PROVE  /\ Len(p \o q) \in Nat /\ \A i \in 1 .. Len(p \o q) : (p \o q)[i] \in {a, b}
                      /\ p = <<a>> => 1 \in 1 .. Len(p \o q) /\ (p \o q)[1] = a
                      /\ p = <<>> => \A i \in 1 .. Len(p \o q) : (p \o q)[i] = b
                      /\ q = <<>> => \A i \in 1 .. Len(p \o q) : (p \o q)[i] = a
                      /\ q = <<b>> => Len(p \o q) \in 1 .. Len(p \o q) /\ (p \o q)[Len(p \o q)] = b
    OBVIOUS
  <2>1. /\ p \in Seq(CloudMessage) /\ q \in Seq(CloudMessage)
        /\ (p = <<>> => Len(p) = 0) /\ (p = <<a>> => Len(p) = 1 /\ p[1] = a)
        /\ (q = <<>> => Len(q) = 0) /\ (q = <<b>> => Len(q) = 1 /\ q[1] = b)
        /\ <<>> # <<a>> /\ <<>> # <<b>>
    <3>1. <<>> \in Seq(CloudMessage) /\ <<a>> \in Seq(CloudMessage) /\ <<b>> \in Seq(CloudMessage)
      OBVIOUS
    <3>2. Len(<<>>) = 0
      OBVIOUS
    <3>3. Len(<<a>>) = 1 /\ <<a>>[1] = a
      OBVIOUS
    <3>4. Len(<<b>>) = 1 /\ <<b>>[1] = b
      OBVIOUS
    <3>5. <<>> # <<a>> /\ <<>> # <<b>>
      BY <3>2, <3>3, <3>4
    <3>6. CASE p = <<>> 
      BY <3>1, <3>2, <3>4, <3>5, <3>6
    <3>7. CASE p = <<a>>
      BY <3>1, <3>2, <3>3, <3>4, <3>5, <3>7
    <3>. QED BY <3>6, <3>7
  <2>2. Len(p \o q) = Len(p) + Len(q)
    BY <2>1
  <2>3. /\ \A i \in 1 .. Len(p) : (p \o q)[i] = p[i]
        /\ \A i \in 1 .. Len(q) : (p \o q)[Len(p) + i] = q[i]
        /\ \A i \in 1 .. Len(p) + Len(q) : i \in 1 .. Len(p) \/ i - Len(p) \in 1 .. Len(q)
    BY <2>1, JoinedFacts
  <2>4. CASE p = <<>> /\ q = <<>>
    BY <2>1, <2>2, <2>4
  <2>5. CASE p = <<a>> /\ q = <<>>
    BY <2>1, <2>2, <2>3, <2>5
  <2>6. CASE p = <<>> /\ q = <<b>>
    BY <2>1, <2>2, <2>3, <2>6
  <2>7. CASE p = <<a>> /\ q = <<b>>
    BY <2>1, <2>2, <2>3, <2>7
  <2>. QED BY <2>4, <2>5, <2>6, <2>7
<1>. QED BY <1>1, <1>2

\* Client c changes what its server s notes of key k to list l.
KeyChanges(c, s, k, l) ==
  /\ s = ServerOf[c] /\ dataRepository' = [dataRepository EXCEPT ![s][k] = l]
  /\ posts' \in posts .. MaxPosts /\ nextGetRequestId' \in nextGetRequestId .. MaxGets
  /\ l = NoList \/ ListFits(l, posts', nextGetRequestId')
  /\ \A u \in CloudUser \ {c} :
       /\ l.keyData[u] # 0 <=> dataRepository[s][k].keyData[u] # 0
       /\ u \in l.nonSpecificSubscribers <=> u \in dataRepository[s][k].nonSpecificSubscribers
  /\ uploadedKeys' \in [CloudUser -> SUBSET CloudKey]
  /\ subscribedKeys' \in [CloudUser -> SUBSET CloudKey]
  /\ \A u \in CloudUser, j \in CloudKey : u # c \/ j # k =>
       (j \in uploadedKeys'[u] <=> j \in uploadedKeys[u])
       /\ (j \in subscribedKeys'[u] <=> j \in subscribedKeys[u])
  /\ k \in uploadedKeys'[c] <=> l.keyData[c] # 0
  /\ k \in subscribedKeys'[c] <=> c \in l.nonSpecificSubscribers

\* Notes by client and by key still agree.
LEMMA KeyNotes ==
  ASSUME PartsOK, NEW c \in CloudUser, NEW s, NEW k \in CloudKey, NEW l, KeyChanges(c, s, k, l)
  PROVE  /\ NotesOK' /\ s \in CloudMachine
         /\ \A r \in CloudMachine \ {s} : dataRepository'[r] = dataRepository[r]
         /\ dataRepository'[s][k] = l
         /\ \A j \in CloudKey \ {k} : dataRepository'[s][j] = dataRepository[s][j]
<1>1. s \in CloudMachine
  BY CloudFacts DEF KeyChanges
<1>2. /\ dataRepository' \in [CloudMachine -> [CloudKey -> CloudDataList \cup {NoList}]]
      /\ \A r \in CloudMachine \ {s} : dataRepository'[r] = dataRepository[r]
      /\ dataRepository'[s][k] = l
      /\ \A j \in CloudKey \ {k} : dataRepository'[s][j] = dataRepository[s][j]
  <2>1. l \in CloudDataList \cup {NoList}
    BY DEF ListFits, KeyChanges
  <2>2. /\ dataRepository \in [CloudMachine -> [CloudKey -> CloudDataList \cup {NoList}]]
        /\ dataRepository[s] \in [CloudKey -> CloudDataList \cup {NoList}]
    BY <1>1 DEF PartsOK, NotesOK
  <2>. QED BY <1>1, <2>1, <2>2 DEF KeyChanges
<1>3. NotesOK
  BY DEF PartsOK
<1>4. posts \in 0 .. MaxPosts /\ nextGetRequestId \in 0 .. MaxGets
      /\ posts' \in 0 .. MaxPosts /\ nextGetRequestId' \in 0 .. MaxGets
      /\ posts <= posts' /\ nextGetRequestId <= nextGetRequestId'
  BY <1>3, CloudFacts DEF NotesOK, KeyChanges
<1>5. ASSUME NEW j \in CloudKey PROVE dataRepository'[s][j] = NoList \/ ListFits(dataRepository'[s][j], posts', nextGetRequestId')
  <2>1. CASE j = k
    BY <1>2, <2>1 DEF KeyChanges
  <2>2. CASE j # k
    <3>1. dataRepository'[s][j] = dataRepository[s][j]
      BY <1>2, <2>2
    <3>2. dataRepository'[s][j] = NoList \/ ListFits(dataRepository'[s][j], posts, nextGetRequestId)
      BY <1>1, <1>3, <3>1, ListNoted
    <3>. QED BY <1>4, <3>2, FitsLater
  <2>. QED BY <2>1, <2>2
<1>6. ASSUME NEW u \in CloudUser, NEW j \in CloudKey
      PROVE  /\ j \in uploadedKeys'[u] <=>
                  IF ServerOf[u] = s THEN dataRepository'[s][j].keyData[u] # 0 ELSE j \in uploadedKeys[u]
             /\ j \in subscribedKeys'[u] <=>
                  IF ServerOf[u] = s THEN u \in dataRepository'[s][j].nonSpecificSubscribers ELSE j \in subscribedKeys[u]
  <2>1. CASE ServerOf[u] # s
    BY <1>6, <2>1 DEF KeyChanges
  <2>2. CASE ServerOf[u] = s /\ j # k
    <3>1. dataRepository'[s][j] = dataRepository[s][j]
      BY <1>2, <2>2
    <3>2. KeyNoted(s, j)
      BY <1>1, <1>3 DEF NotesOK
    <3>. QED BY <2>2, <3>1, <3>2 DEF KeyNoted, KeyChanges
  <2>3. CASE ServerOf[u] = s /\ j = k /\ u # c
    <3>1. KeyNoted(s, k)
      BY <1>1, <1>3 DEF NotesOK
    <3>2. /\ k \in uploadedKeys[u] <=> dataRepository[s][k].keyData[u] # 0
          /\ k \in subscribedKeys[u] <=> u \in dataRepository[s][k].nonSpecificSubscribers
      BY <2>3, <3>1 DEF KeyNoted
    <3>. QED BY <1>2, <2>3, <3>2 DEF KeyChanges
  <2>4. CASE u = c /\ j = k
    BY <1>2, <2>4 DEF KeyChanges
  <2>. QED BY <2>1, <2>2, <2>3, <2>4
<1>7. NotesOK'
  BY <1>1, <1>2, <1>3, <1>5, <1>6, NotesKeep DEF KeyChanges
<1>. QED BY <1>1, <1>2, <1>7

\* A post notes the data, and the server says so to the others if it had none.
LEMMA OnPostRequestKeeps ==
  ASSUME PartsOK, NEW c \in CloudUser, NEW k \in CloudKey, OnPostRequest(c, k)
  PROVE  PartsOK'
<1> DEFINE s == ServerOf[c]
           l == ListOf(s, k)
           posted == WithData(l, c, posts + 1)
           a == [type |-> "ADD_UPLOADED_KEY", key |-> k]
           b == [type |-> "DATA_CHANGED", key |-> k, from |-> c, data |-> posts + 1]
           add == IF l.uploaderCount > 0 THEN SendTo(s, {}, <<>>) ELSE SendTo(s, Known(s), <<a>>)
           change == NotifyServerSubscribersOfDataChange(s, k, c, posts + 1)
           f == Both(add, change)
<1>1. /\ c \in attached /\ posts < MaxPosts /\ posts' = posts + 1
      /\ uploadedKeys' = [uploadedKeys EXCEPT ![c] = @ \cup {k}]
      /\ dataRepository' = [dataRepository EXCEPT ![s][k] = posted]
      /\ SendAll(s, f)
      /\ NotifyClientSubscribersOfDataChange(l.nonSpecificSubscribers, k, c, posts + 1)
      /\ missed' = missed \cup PassedBy(s, k)
      /\ UNCHANGED <<attached, subscribedKeys, remoteServers, getRequests, nextGetRequestId,
                     unnoticed, departures, stranded>>
  BY DEF OnPostRequest
<1>2. /\ posts \in 0 .. MaxPosts /\ nextGetRequestId \in 0 .. MaxGets /\ posts + 1 \in 0 .. MaxPosts
      /\ posts + 1 # 0
  BY <1>1, CloudFacts DEF PartsOK, NotesOK
<1>3. /\ s \in CloudMachine /\ Known(s) \subseteq CloudMachine \ {s}
      /\ SubscribedServers(s, k) \subseteq Known(s)
  BY CloudFacts DEF PartsOK, KnownOK, SubscribedServers
<1>4. /\ ListFits(l, posts, nextGetRequestId)
      /\ l.keyData = dataRepository[s][k].keyData
      /\ l.nonSpecificSubscribers = dataRepository[s][k].nonSpecificSubscribers
      /\ \A kind \in Kind : CountIn(l, kind) > 0 => CountIn(dataRepository[s][k], kind) > 0
  BY <1>3, ListNoted DEF PartsOK
<1> HIDE DEF l
<1>5. /\ ListFits(posted, posts + 1, nextGetRequestId)
      /\ posted.keyData = [l.keyData EXCEPT ![c] = posts + 1]
      /\ posted.uploaderCount = l.uploaderCount + 1 /\ posted.subscriberCount = l.subscriberCount
      /\ posted.nonSpecificSubscribers = l.nonSpecificSubscribers
  <2>1. posts \in 0 .. MaxPosts /\ nextGetRequestId \in 0 .. MaxGets /\ posts < MaxPosts
    BY <1>1, <1>2
  <2>2. ListFits(l, posts, nextGetRequestId)
    BY <1>4
  <2>. QED BY <2>1, <2>2, PostFits
<1> HIDE DEF posted, s, f, a, b, add, change
<1>6. /\ l.keyData \in [CloudUser -> 0 .. MaxPosts] /\ l.uploaderCount \in Nat
  <2>1. ListFits(l, posts, nextGetRequestId)
    BY <1>4
  <2>. QED BY <1>2, <2>1, FitFacts
<1>7. /\ NotesOK'
      /\ \A r \in CloudMachine \ {s} : dataRepository'[r] = dataRepository[r]
      /\ dataRepository'[s][k] = posted
      /\ \A j \in CloudKey \ {k} : dataRepository'[s][j] = dataRepository[s][j]
  <2>1. /\ uploadedKeys \in [CloudUser -> SUBSET CloudKey] /\ subscribedKeys \in [CloudUser -> SUBSET CloudKey]
        /\ KeyNoted(s, k)
    BY <1>3 DEF PartsOK, NotesOK
  <2>2. \A u \in CloudUser \ {c} :
           /\ posted.keyData[u] # 0 <=> dataRepository[s][k].keyData[u] # 0
           /\ u \in posted.nonSpecificSubscribers <=> u \in dataRepository[s][k].nonSpecificSubscribers
    BY <1>4, <1>5, <1>6
  <2>3. posted.keyData[c] # 0
    BY <1>2, <1>5, <1>6
  <2>4. c \in posted.nonSpecificSubscribers <=> k \in subscribedKeys[c]
    BY <1>4, <1>5, <2>1 DEF KeyNoted, s
  <2>5. /\ uploadedKeys' \in [CloudUser -> SUBSET CloudKey] /\ k \in uploadedKeys'[c]
        /\ subscribedKeys' = subscribedKeys
        /\ \A u \in CloudUser, j \in CloudKey : u # c \/ j # k => (j \in uploadedKeys'[u] <=> j \in uploadedKeys[u])
    BY <1>1, <2>1
  <2>6. posts' \in posts .. MaxPosts /\ nextGetRequestId' \in nextGetRequestId .. MaxGets
        /\ posts' = posts + 1 /\ nextGetRequestId' = nextGetRequestId
    BY <1>1, <1>2
  <2>7. s = ServerOf[c]
    BY DEF s
  <2>8. ListFits(posted, posts', nextGetRequestId')
    BY <1>5, <2>6
  <2>9. dataRepository' = [dataRepository EXCEPT ![s][k] = posted]
    BY <1>1
  <2>10. \A u \in CloudUser, j \in CloudKey : u # c \/ j # k =>
           (j \in uploadedKeys'[u] <=> j \in uploadedKeys[u])
           /\ (j \in subscribedKeys'[u] <=> j \in subscribedKeys[u])
    BY <2>5
  <2>11. /\ k \in uploadedKeys'[c] <=> posted.keyData[c] # 0
         /\ k \in subscribedKeys'[c] <=> c \in posted.nonSpecificSubscribers
         /\ uploadedKeys' \in [CloudUser -> SUBSET CloudKey]
         /\ subscribedKeys' \in [CloudUser -> SUBSET CloudKey]
    BY <2>1, <2>3, <2>4, <2>5
  <2>12. KeyChanges(c, s, k, posted)
    BY <2>2, <2>6, <2>7, <2>8, <2>9, <2>10, <2>11 DEF KeyChanges
  <2>. QED BY <2>12, KeyNotes
<1>8. /\ a \in CloudMessage /\ b \in CloudMessage /\ <<a>> \in Seq(CloudMessage)
      /\ <<b>> \in Seq(CloudMessage) /\ <<>> \in Seq(CloudMessage)
  <2>1. a \in CloudMessage
    BY DEF CloudMessage, a
  <2>2. b \in CloudMessage
    BY <1>2 DEF CloudMessage, b
  <2>. QED BY <2>1, <2>2
<1>9. /\ add \in Outgoing /\ change \in Outgoing
      /\ \A t \in CloudMachine : /\ add[t] = IF ~(l.uploaderCount > 0) /\ t \in Known(s) THEN <<a>> ELSE <<>>
                                 /\ change[t] \in {<<>>, <<b>>}
                                 /\ t \notin Known(s) => change[t] = <<>>
  <2>1. l.uploaderCount > 0 => add \in Outgoing /\ \A t \in CloudMachine : add[t] = <<>>
    BY <1>8 DEF add, SendTo, Outgoing
  <2>2. ~(l.uploaderCount > 0) =>
          add \in Outgoing /\ \A t \in CloudMachine : add[t] = IF t \in Known(s) THEN <<a>> ELSE <<>>
    BY <1>8 DEF add, SendTo, Outgoing
  <2>3. change \in Outgoing /\ \A t \in CloudMachine : change[t] = IF t \in SubscribedServers(s, k) THEN <<b>> ELSE <<>>
    <3>1. change = SendTo(s, SubscribedServers(s, k), <<b>>)
      BY DEF change, b, NotifyServerSubscribersOfDataChange
    <3>. QED BY <1>8, <3>1 DEF SendTo, Outgoing
  <2>4. \A t \in CloudMachine : change[t] \in {<<>>, <<b>>} /\ (t \notin Known(s) => change[t] = <<>>)
    BY <1>3, <2>3
  <2>5. add \in Outgoing /\ \A t \in CloudMachine : add[t] = IF ~(l.uploaderCount > 0) /\ t \in Known(s) THEN <<a>> ELSE <<>>
    BY <2>1, <2>2
  <2>. QED BY <2>3, <2>4, <2>5
<1>10. f \in Outgoing /\ f[s] = <<>>
  BY <1>3, <1>9, BothFacts DEF f
<1>11. \A t \in CloudMachine :
         /\ \A i \in 1 .. Len(f[t]) : f[t][i] \in {a, b}
         /\ add[t] = <<a>> => 1 \in 1 .. Len(f[t]) /\ f[t][1] = a
  BY <1>8, <1>9, TwoSent DEF f
<1>12. \A j \in CloudKey, kind \in Kind : ~Unsays(a, kind, j) /\ ~Unsays(b, kind, j)
  BY WordsFacts DEF a, b
<1>13. Says(a, "uploaded", k)
  BY WordsFacts DEF Kind, a
<1>14. TellsOfKeys(s, f)
  <2>1. \A j \in CloudKey, kind \in Kind : \A t \in Known(s) : \A i \in 1 .. Len(f[t]) :
           ~Unsays(f[t][i], kind, j)
    BY <1>3, <1>11, <1>12
  <2>2. ASSUME NEW kind \in Kind, CountIn(dataRepository'[s][k], kind) > 0
        PROVE  \/ /\ CountIn(dataRepository[s][k], kind) > 0
                  /\ \A t \in Known(s) : \A i \in 1 .. Len(f[t]) : ~Unsays(f[t][i], kind, k)
               \/ \A t \in Known(s) : \E n \in 1 .. Len(f[t]) :
                    Says(f[t][n], kind, k) /\ \A i \in 1 .. Len(f[t]) : i >= n => ~Unsays(f[t][i], kind, k)
    <3>1. CASE CountIn(l, kind) > 0
      BY <1>4, <2>1, <3>1
    <3>2. CASE ~(CountIn(l, kind) > 0)
      <4>1. kind = "uploaded" /\ ~(l.uploaderCount > 0)
        BY <1>5, <1>7, <2>2, <3>2 DEF CountIn, Kind
      <4>2. \A t \in Known(s) : 1 \in 1 .. Len(f[t]) /\ Says(f[t][1], kind, k)
        BY <1>3, <1>9, <1>11, <1>13, <4>1
      <4>. QED BY <2>1, <4>2
    <3>. QED BY <3>1, <3>2
  <2>. QED BY <1>3, <1>7, <2>1, <2>2, KeyTells
<1>15. KnownOK' /\ WiresOK' /\ AllTold' /\ WaitsOK'
  BY <1>1, <1>3, <1>7, <1>10, <1>14, SendsKeep
<1>16. ViewsOK'
  <2>1. view' \in [CloudUser -> [CloudKey -> Rows]]
    BY <1>1, <1>2, NotifyViewFacts DEF PartsOK, ViewsOK
  <2>2. PassedBy(s, k) \subseteq CloudUser \X CloudKey \X {"between", "apart"}
    BY PassedByFacts
  <2>. QED BY <1>1, <2>1, <2>2 DEF PartsOK, ViewsOK
<1>. QED BY <1>7, <1>15, <1>16 DEF PartsOK

\* A release: other servers are told that there are no data only when there are none.
LEMMA OnReleaseRequestKeeps ==
  ASSUME PartsOK, NEW c \in CloudUser, NEW k \in CloudKey, OnReleaseRequest(c, k)
  PROVE  PartsOK'
<1> DEFINE s == ServerOf[c]
           l == dataRepository[s][k]
           left == WithoutData(l, c)
           kept == KeptList(left)
           a == [type |-> "DATA_CHANGED", key |-> k, from |-> c, data |-> 0]
           b == [type |-> "REMOVE_UPLOADED_KEY", key |-> k]
           change == NotifyServerSubscribersOfDataChange(s, k, c, 0)
           remove == RemoveUploadedKeyFromServers(s, k, left)
           f == Both(change, remove)
<1>1. /\ departures < MaxDepartures /\ k \in uploadedKeys[c] /\ departures' = departures + 1
      /\ uploadedKeys' = [uploadedKeys EXCEPT ![c] = @ \ {k}]
      /\ dataRepository' = [dataRepository EXCEPT ![s][k] = kept]
      /\ SendAll(s, f)
      /\ NotifyClientSubscribersOfDataChange(left.nonSpecificSubscribers, k, c, 0)
      /\ missed' = missed \cup PassedBy(s, k)
      /\ UNCHANGED <<attached, subscribedKeys, remoteServers, getRequests, nextGetRequestId,
                     unnoticed, posts, stranded>>
  BY DEF OnReleaseRequest
<1>2. posts \in 0 .. MaxPosts /\ nextGetRequestId \in 0 .. MaxGets /\ 0 \in 0 .. MaxPosts
  BY CloudFacts DEF PartsOK, NotesOK
<1>3. /\ s \in CloudMachine /\ Known(s) \subseteq CloudMachine \ {s}
      /\ SubscribedServers(s, k) \subseteq Known(s)
  BY CloudFacts DEF PartsOK, KnownOK, SubscribedServers
<1>4. ListFits(l, posts, nextGetRequestId) /\ l.keyData[c] # 0
  <2>1. l.keyData[c] # 0
    BY <1>1, <1>3 DEF PartsOK, NotesOK, KeyNoted
  <2>2. l # NoList
    BY <1>2, <2>1, NewListFits
  <2>. QED BY <1>3, <2>1, <2>2, ListNoted DEF PartsOK
<1> HIDE DEF l, left, kept, s, f, a, b, change, remove
<1>5. /\ ListFits(left, posts, nextGetRequestId)
      /\ left.keyData = [l.keyData EXCEPT ![c] = 0]
      /\ left.uploaderCount <= l.uploaderCount /\ left.subscriberCount = l.subscriberCount
      /\ left.nonSpecificSubscribers = l.nonSpecificSubscribers
  BY <1>2, <1>4, ReleaseFits DEF left
<1>6. /\ l.keyData \in [CloudUser -> 0 .. MaxPosts] /\ l.uploaderCount \in Nat /\ left.uploaderCount \in Nat
      /\ l.subscriberCount \in Nat
  BY <1>2, <1>4, <1>5, FitFacts
<1>7. /\ kept # NoList => ListFits(kept, posts, nextGetRequestId)
      /\ kept.keyData = left.keyData /\ kept.nonSpecificSubscribers = left.nonSpecificSubscribers
      /\ \A kind \in Kind : CountIn(kept, kind) > 0 => CountIn(left, kind) > 0
  BY <1>2, <1>5, KeptFacts DEF kept
<1>8. /\ NotesOK'
      /\ \A r \in CloudMachine \ {s} : dataRepository'[r] = dataRepository[r]
      /\ dataRepository'[s][k] = kept
      /\ \A j \in CloudKey \ {k} : dataRepository'[s][j] = dataRepository[s][j]
  <2>1. /\ uploadedKeys \in [CloudUser -> SUBSET CloudKey] /\ subscribedKeys \in [CloudUser -> SUBSET CloudKey]
        /\ KeyNoted(s, k)
    BY <1>3 DEF PartsOK, NotesOK
  <2>2. \A u \in CloudUser \ {c} :
           /\ kept.keyData[u] # 0 <=> dataRepository[s][k].keyData[u] # 0
           /\ u \in kept.nonSpecificSubscribers <=> u \in dataRepository[s][k].nonSpecificSubscribers
    BY <1>5, <1>6, <1>7 DEF l
  <2>3. kept.keyData[c] = 0
    BY <1>5, <1>6, <1>7
  <2>4. c \in kept.nonSpecificSubscribers <=> k \in subscribedKeys[c]
    BY <1>5, <1>7, <2>1 DEF KeyNoted, s, l
  <2>5. /\ uploadedKeys' \in [CloudUser -> SUBSET CloudKey] /\ k \notin uploadedKeys'[c]
        /\ subscribedKeys' = subscribedKeys
        /\ \A u \in CloudUser, j \in CloudKey : u # c \/ j # k => (j \in uploadedKeys'[u] <=> j \in uploadedKeys[u])
    BY <1>1, <2>1
  <2>6. /\ posts' \in posts .. MaxPosts /\ nextGetRequestId' \in nextGetRequestId .. MaxGets
        /\ posts' = posts /\ nextGetRequestId' = nextGetRequestId
    BY <1>1, <1>2, CloudFacts
  <2>7. s = ServerOf[c] /\ dataRepository' = [dataRepository EXCEPT ![s][k] = kept]
    BY <1>1 DEF s
  <2>8. kept = NoList \/ ListFits(kept, posts', nextGetRequestId')
    BY <1>7, <2>6
  <2>9. KeyChanges(c, s, k, kept)
    BY <2>1, <2>2, <2>3, <2>4, <2>5, <2>6, <2>7, <2>8 DEF KeyChanges
  <2>. QED BY <2>9, KeyNotes
<1>9. /\ a \in CloudMessage /\ b \in CloudMessage /\ <<a>> \in Seq(CloudMessage)
      /\ <<b>> \in Seq(CloudMessage) /\ <<>> \in Seq(CloudMessage)
  <2>1. a \in CloudMessage
    BY <1>2 DEF CloudMessage, a
  <2>2. b \in CloudMessage
    BY DEF CloudMessage, b
  <2>. QED BY <2>1, <2>2
<1>10. /\ change \in Outgoing /\ remove \in Outgoing
       /\ \A t \in CloudMachine : /\ change[t] \in {<<>>, <<a>>} /\ remove[t] \in {<<>>, <<b>>}
                                  /\ t \notin Known(s) => change[t] = <<>> /\ remove[t] = <<>>
                                  /\ left.uploaderCount > 0 => remove[t] = <<>>
  <2>1. change = SendTo(s, SubscribedServers(s, k), <<a>>)
    BY DEF change, a, NotifyServerSubscribersOfDataChange
  <2>2. remove = SendTo(s, IF left.uploaderCount = 0 THEN Known(s) ELSE {}, <<b>>)
    BY DEF remove, b, RemoveUploadedKeyFromServers
  <2>3. change \in Outgoing /\ \A t \in CloudMachine : change[t] = IF t \in SubscribedServers(s, k) THEN <<a>> ELSE <<>>
    BY <1>9, <2>1 DEF SendTo, Outgoing
  <2>4. remove \in Outgoing /\ \A t \in CloudMachine :
          remove[t] = IF t \in Known(s) /\ left.uploaderCount = 0 THEN <<b>> ELSE <<>>
    BY <1>9, <2>2 DEF SendTo, Outgoing
  <2>5. \A t \in CloudMachine : change[t] \in {<<>>, <<a>>} /\ (t \notin Known(s) => change[t] = <<>>)
    BY <1>3, <2>3
  <2>6. \A t \in CloudMachine : remove[t] \in {<<>>, <<b>>} /\ (t \notin Known(s) => remove[t] = <<>>)
    BY <2>4
  <2>7. left.uploaderCount > 0 => left.uploaderCount # 0
    BY <1>6
  <2>8. \A t \in CloudMachine : left.uploaderCount > 0 => remove[t] = <<>>
    BY <2>4, <2>7
  <2>. QED BY <2>3, <2>4, <2>5, <2>6, <2>8
<1>11. f \in Outgoing /\ f[s] = <<>>
  BY <1>3, <1>10, BothFacts DEF f
<1>12. \A t \in CloudMachine :
         /\ \A i \in 1 .. Len(f[t]) : f[t][i] \in {a, b}
         /\ remove[t] = <<>> => \A i \in 1 .. Len(f[t]) : f[t][i] = a
  BY <1>9, <1>10, TwoSent DEF f
<1>13. \A j \in CloudKey, kind \in Kind :
         ~Unsays(a, kind, j) /\ (Unsays(b, kind, j) => kind = "uploaded" /\ j = k)
  BY WordsFacts DEF a, b
<1>14. TellsOfKeys(s, f)
  <2>1. \A j \in CloudKey \ {k}, kind \in Kind : \A t \in Known(s) : \A i \in 1 .. Len(f[t]) :
           ~Unsays(f[t][i], kind, j)
    BY <1>3, <1>12, <1>13
  <2>2. ASSUME NEW kind \in Kind, CountIn(dataRepository'[s][k], kind) > 0
        PROVE  /\ CountIn(dataRepository[s][k], kind) > 0
               /\ \A t \in Known(s) : \A i \in 1 .. Len(f[t]) : ~Unsays(f[t][i], kind, k)
    <3>1. CountIn(left, kind) > 0
      BY <1>7, <1>8, <2>2
    <3>2. CASE kind = "uploaded"
      <4>1. left.uploaderCount > 0 /\ l.uploaderCount > 0
        BY <1>5, <1>6, <3>1, <3>2 DEF CountIn
      <4>2. \A t \in Known(s) : \A i \in 1 .. Len(f[t]) : f[t][i] = a
        BY <1>3, <1>10, <1>12, <4>1
      <4>. QED BY <1>13, <3>2, <4>1, <4>2 DEF CountIn, l
    <3>3. CASE kind # "uploaded"
      <4>1. l.subscriberCount > 0
        BY <1>5, <3>1, <3>3 DEF CountIn
      <4>2. \A t \in Known(s) : \A i \in 1 .. Len(f[t]) : ~Unsays(f[t][i], kind, k)
        BY <1>3, <1>12, <1>13, <3>3
      <4>. QED BY <3>3, <4>1, <4>2 DEF CountIn, l
    <3>. QED BY <3>2, <3>3
  <2>. QED BY <1>3, <1>8, <2>1, <2>2, KeyTells
<1>15. KnownOK' /\ WiresOK' /\ AllTold' /\ WaitsOK'
  BY <1>1, <1>3, <1>8, <1>11, <1>14, SendsKeep
<1>16. ViewsOK'
  <2>1. view' \in [CloudUser -> [CloudKey -> Rows]]
    BY <1>1, <1>2, NotifyViewFacts DEF PartsOK, ViewsOK
  <2>2. PassedBy(s, k) \subseteq CloudUser \X CloudKey \X {"between", "apart"}
    BY PassedByFacts
  <2>3. departures' \in 0 .. MaxDepartures
    BY <1>1, CloudFacts DEF PartsOK, ViewsOK
  <2>. QED BY <1>1, <2>1, <2>2, <2>3 DEF PartsOK, ViewsOK
<1>. QED BY <1>8, <1>15, <1>16 DEF PartsOK

\* An unsubscription: other servers are told when it was the last.
LEMMA OnUnsubscribeRequestKeeps ==
  ASSUME PartsOK, NEW c \in CloudUser, NEW k \in CloudKey, OnUnsubscribeRequest(c, k)
  PROVE  PartsOK'
<1> DEFINE s == ServerOf[c]
           l == dataRepository[s][k]
           left == WithoutSubscriber(l, c)
           kept == KeptList(left)
           b == [type |-> "REMOVE_SUBSCRIBED_KEY", key |-> k]
           f == RemoveSubscribedKeyFromServers(s, k, left)
<1>1. /\ departures < MaxDepartures /\ k \in subscribedKeys[c] /\ departures' = departures + 1
      /\ l # NoList
      /\ subscribedKeys' = [subscribedKeys EXCEPT ![c] = @ \ {k}]
      /\ dataRepository' = [dataRepository EXCEPT ![s][k] = kept]
      /\ SendAll(s, f)
      /\ UNCHANGED <<attached, uploadedKeys, remoteServers, getRequests, nextGetRequestId,
                     unnoticed, posts, view, missed, stranded>>
  BY DEF OnUnsubscribeRequest
<1>2. posts \in 0 .. MaxPosts /\ nextGetRequestId \in 0 .. MaxGets
  BY DEF PartsOK, NotesOK
<1>3. s \in CloudMachine /\ Known(s) \subseteq CloudMachine \ {s}
  BY CloudFacts DEF PartsOK, KnownOK
<1>4. ListFits(l, posts, nextGetRequestId) /\ c \in l.nonSpecificSubscribers
  <2>1. c \in l.nonSpecificSubscribers
    BY <1>1, <1>3 DEF PartsOK, NotesOK, KeyNoted
  <2>. QED BY <1>1, <1>3, <2>1, ListNoted DEF PartsOK
<1> HIDE DEF l, left, kept, s, f, b
<1>5. /\ ListFits(left, posts, nextGetRequestId)
      /\ left.keyData = l.keyData
      /\ left.uploaderCount = l.uploaderCount /\ left.subscriberCount = l.subscriberCount - 1
      /\ left.nonSpecificSubscribers = l.nonSpecificSubscribers \ {c}
  BY <1>2, <1>4, UnsubscribeFits DEF left
<1>6. /\ l.uploaderCount \in Nat /\ l.subscriberCount \in Nat /\ left.subscriberCount \in Nat
  BY <1>2, <1>4, <1>5, FitFacts
<1>7. /\ kept # NoList => ListFits(kept, posts, nextGetRequestId)
      /\ kept.keyData = left.keyData /\ kept.nonSpecificSubscribers = left.nonSpecificSubscribers
      /\ \A kind \in Kind : CountIn(kept, kind) > 0 => CountIn(left, kind) > 0
  BY <1>2, <1>5, KeptFacts DEF kept
<1>8. /\ NotesOK'
      /\ \A r \in CloudMachine \ {s} : dataRepository'[r] = dataRepository[r]
      /\ dataRepository'[s][k] = kept
      /\ \A j \in CloudKey \ {k} : dataRepository'[s][j] = dataRepository[s][j]
  <2>1. /\ uploadedKeys \in [CloudUser -> SUBSET CloudKey] /\ subscribedKeys \in [CloudUser -> SUBSET CloudKey]
        /\ KeyNoted(s, k)
    BY <1>3 DEF PartsOK, NotesOK
  <2>2. \A u \in CloudUser \ {c} :
           /\ kept.keyData[u] # 0 <=> dataRepository[s][k].keyData[u] # 0
           /\ u \in kept.nonSpecificSubscribers <=> u \in dataRepository[s][k].nonSpecificSubscribers
    BY <1>5, <1>6, <1>7 DEF l
  <2>3. c \notin kept.nonSpecificSubscribers
    BY <1>5, <1>7
  <2>4. kept.keyData[c] # 0 <=> k \in uploadedKeys[c]
    BY <1>5, <1>7, <2>1 DEF KeyNoted, s, l
  <2>5. /\ subscribedKeys' \in [CloudUser -> SUBSET CloudKey] /\ k \notin subscribedKeys'[c]
        /\ uploadedKeys' = uploadedKeys
        /\ \A u \in CloudUser, j \in CloudKey : u # c \/ j # k => (j \in subscribedKeys'[u] <=> j \in subscribedKeys[u])
    BY <1>1, <2>1
  <2>6. /\ posts' \in posts .. MaxPosts /\ nextGetRequestId' \in nextGetRequestId .. MaxGets
        /\ posts' = posts /\ nextGetRequestId' = nextGetRequestId
    BY <1>1, <1>2, CloudFacts
  <2>7. s = ServerOf[c] /\ dataRepository' = [dataRepository EXCEPT ![s][k] = kept]
    BY <1>1 DEF s
  <2>8. kept = NoList \/ ListFits(kept, posts', nextGetRequestId')
    BY <1>7, <2>6
  <2>9. KeyChanges(c, s, k, kept)
    BY <2>1, <2>2, <2>3, <2>4, <2>5, <2>6, <2>7, <2>8 DEF KeyChanges
  <2>. QED BY <2>9, KeyNotes
<1>9. b \in CloudMessage /\ <<b>> \in Seq(CloudMessage) /\ <<>> \in Seq(CloudMessage)
  <2>1. b \in CloudMessage
    BY DEF CloudMessage, b
  <2>. QED BY <2>1
<1>10. /\ f \in Outgoing
       /\ \A t \in CloudMachine : f[t] = IF t \in Known(s) /\ left.subscriberCount = 0 THEN <<b>> ELSE <<>>
  <2>1. f = SendTo(s, IF left.subscriberCount = 0 THEN Known(s) ELSE {}, <<b>>)
    BY DEF f, b, RemoveSubscribedKeyFromServers
  <2>. QED BY <1>9, <2>1 DEF SendTo, Outgoing
<1>11. f[s] = <<>>
  BY <1>3, <1>10
<1>12. \A t \in CloudMachine : /\ \A i \in 1 .. Len(f[t]) : f[t][i] = b
                               /\ left.subscriberCount # 0 => ~\E i \in 1 .. Len(f[t]) : TRUE
  <2>1. /\ \A i \in 1 .. Len(<<b>>) : <<b>>[i] = b
        /\ \A i \in 1 .. Len(<<>>) : FALSE
    OBVIOUS
  <2>2. \A t \in CloudMachine : f[t] = <<b>> \/ f[t] = <<>>
    BY <1>10
  <2>. QED BY <1>10, <2>1, <2>2
<1>13. \A j \in CloudKey, kind \in Kind : Unsays(b, kind, j) => kind = "subscribed" /\ j = k
  BY WordsFacts DEF b
<1>14. TellsOfKeys(s, f)
  <2>1. \A j \in CloudKey \ {k}, kind \in Kind : \A t \in Known(s) : \A i \in 1 .. Len(f[t]) :
           ~Unsays(f[t][i], kind, j)
    BY <1>3, <1>12, <1>13
  <2>2. ASSUME NEW kind \in Kind, CountIn(dataRepository'[s][k], kind) > 0
        PROVE  /\ CountIn(dataRepository[s][k], kind) > 0
               /\ \A t \in Known(s) : \A i \in 1 .. Len(f[t]) : ~Unsays(f[t][i], kind, k)
    <3>1. CountIn(left, kind) > 0
      BY <1>7, <1>8, <2>2
    <3>2. CASE kind = "uploaded"
      <4>1. l.uploaderCount > 0
        BY <1>5, <3>1, <3>2 DEF CountIn
      <4>2. \A t \in Known(s) : \A i \in 1 .. Len(f[t]) : ~Unsays(f[t][i], kind, k)
        BY <1>3, <1>12, <1>13, <3>2
      <4>. QED BY <3>2, <4>1, <4>2 DEF CountIn, l
    <3>3. CASE kind # "uploaded"
      <4>1. left.subscriberCount > 0 /\ l.subscriberCount > 0
        BY <1>5, <1>6, <3>1, <3>3 DEF CountIn
      <4>2. \A t \in Known(s) : \A i \in 1 .. Len(f[t]) : ~Unsays(f[t][i], kind, k)
        BY <1>3, <1>6, <1>12, <4>1
      <4>. QED BY <3>3, <4>1, <4>2 DEF CountIn, l
    <3>. QED BY <3>2, <3>3
  <2>. QED BY <1>3, <1>8, <2>1, <2>2, KeyTells
<1>15. KnownOK' /\ WiresOK' /\ AllTold' /\ WaitsOK'
  BY <1>1, <1>3, <1>8, <1>10, <1>11, <1>14, SendsKeep
<1>16. ViewsOK'
  <2>1. departures' \in 0 .. MaxDepartures
    BY <1>1, CloudFacts DEF PartsOK, ViewsOK
  <2>. QED BY <1>1, <2>1 DEF PartsOK, ViewsOK
<1>. QED BY <1>8, <1>15, <1>16 DEF PartsOK

\* A sequence with one more in front.
LEMMA PutFirst ==
  ASSUME NEW M, NEW q \in M, NEW long \in Seq(M)
  PROVE  /\ <<q>> \o long \in Seq(M) /\ Len(<<q>> \o long) = Len(long) + 1
         /\ (<<q>> \o long)[1] = q
         /\ \A i \in 2 .. Len(long) + 1 : i - 1 \in 1 .. Len(long) /\ (<<q>> \o long)[i] = long[i - 1]
<1>1. <<q>> \in Seq(M) /\ Len(<<q>>) = 1 /\ <<q>>[1] = q /\ Len(long) \in Nat
  OBVIOUS
<1>2. PICK one : one = <<q>>
  OBVIOUS
<1>3. one \in Seq(M) /\ Len(one) = 1 /\ one[1] = q
  BY <1>1, <1>2
<1>4. /\ \A i \in 1 .. Len(one) : (one \o long)[i] = one[i]
      /\ \A i \in 1 .. Len(long) : (one \o long)[Len(one) + i] = long[i]
  <2>1. one \in Seq(M)
    BY <1>3
  <2>. QED BY <2>1, JoinedFacts
<1>5. one \o long \in Seq(M) /\ Len(one \o long) = 1 + Len(long)
  <2>1. one \in Seq(M)
    BY <1>3
  <2>2. one \o long \in Seq(M) /\ Len(one \o long) = Len(one) + Len(long)
    BY <2>1
  <2>. QED BY <1>3, <2>2
<1>6. (one \o long)[1] = q
  BY <1>3, <1>4
<1>7. ASSUME NEW i \in 2 .. Len(long) + 1
      PROVE  i - 1 \in 1 .. Len(long) /\ (one \o long)[i] = long[i - 1]
  <2>1. i - 1 \in 1 .. Len(long) /\ 1 + (i - 1) = i
    BY <1>1
  <2>2. (one \o long)[1 + (i - 1)] = long[i - 1]
    BY <1>3, <1>4, <2>1
  <2>. QED BY <2>1, <2>2
<1>. QED BY <1>1, <1>2, <1>5, <1>6, <1>7

\* A query of c for k, put first in the list of its server s, to the servers asked.
NewQuery(c, s, k, asked) ==
  [requestId |-> nextGetRequestId, key |-> k, requestingClient |-> c, waiting |-> asked, rows |-> NoRows]

\* The list of s with the query, if another server is asked.
Queried(c, s, k, asked) ==
  getRequests' = IF asked = {} THEN getRequests
                 ELSE [getRequests EXCEPT ![s] = <<NewQuery(c, s, k, asked)>> \o @]

\* A query that asks other servers is in front of those that wait, under a new number.
LEMMA QueriedFacts ==
  ASSUME PartsOK, NEW c \in CloudUser, NEW s \in CloudMachine, NEW k \in CloudKey,
         NEW asked, asked \subseteq Known(s), nextGetRequestId < MaxGets, Queried(c, s, k, asked)
  PROVE  /\ getRequests' \in [CloudMachine -> Seq(GetRequest)]
         /\ \A r \in CloudMachine \ {s} : getRequests'[r] = getRequests[r]
         /\ asked = {} => getRequests'[s] = getRequests[s]
         /\ asked # {} =>
              /\ Len(getRequests'[s]) = Len(getRequests[s]) + 1
              /\ getRequests'[s][1] = NewQuery(c, s, k, asked)
              /\ \A i \in 2 .. Len(getRequests[s]) + 1 :
                   i - 1 \in 1 .. Len(getRequests[s]) /\ getRequests'[s][i] = getRequests[s][i - 1]
<1>1. getRequests \in [CloudMachine -> Seq(GetRequest)]
  BY DEF PartsOK, ViewsOK
<1> DEFINE q == NewQuery(c, s, k, asked)
           long == getRequests[s]
<1>2. q \in GetRequest
  <2>1. /\ nextGetRequestId \in 0 .. MaxGets - 1 /\ NoRows \in Rows
    BY CloudFacts DEF PartsOK, NotesOK, NoRows, Rows
  <2>2. asked \subseteq CloudMachine
    BY DEF PartsOK, KnownOK
  <2>. QED BY <2>1, <2>2 DEF GetRequest, NewQuery
<1>3. long \in Seq(GetRequest)
  BY <1>1
<1>4. asked # {} => getRequests' = [getRequests EXCEPT ![s] = <<q>> \o long]
  BY DEF Queried
<1>5. asked = {} => getRequests' = getRequests
  BY DEF Queried
<1> HIDE DEF q, long
<1> DEFINE more == <<q>> \o long
<1>8. /\ more \in Seq(GetRequest) /\ Len(more) = Len(long) + 1 /\ more[1] = q
      /\ \A i \in 2 .. Len(long) + 1 : i - 1 \in 1 .. Len(long) /\ more[i] = long[i - 1]
  BY <1>2, <1>3, PutFirst
<1>9. asked # {} => getRequests' = [getRequests EXCEPT ![s] = more]
  BY <1>4
<1> HIDE DEF more
<1>10. asked # {} => /\ getRequests' \in [CloudMachine -> Seq(GetRequest)] /\ getRequests'[s] = more
                     /\ \A r \in CloudMachine \ {s} : getRequests'[r] = getRequests[r]
  BY <1>1, <1>8, <1>9
<1>. QED BY <1>1, <1>5, <1>8, <1>10 DEF q, long

\* A new query waits for the servers that it is sent to.
LEMMA QueryWaits ==
  ASSUME PartsOK, NEW c \in CloudUser, NEW s \in CloudMachine, NEW k \in CloudKey,
         NEW asked, asked \subseteq Known(s), nextGetRequestId < MaxGets, Queried(c, s, k, asked),
         NEW f, Sends(s, f), unnoticed' = unnoticed, remoteServers' = remoteServers,
         nextGetRequestId' = nextGetRequestId + 1, stranded' = stranded,
         \A t \in asked : \E j \in 1 .. Len(f[t]) : IsFor(f[t][j], "PROCESS_GET_REQUEST", nextGetRequestId)
  PROVE  WaitsOK'
<1>1. /\ getRequests' \in [CloudMachine -> Seq(GetRequest)]
      /\ getRequests \in [CloudMachine -> Seq(GetRequest)]
      /\ \A r \in CloudMachine \ {s} : getRequests'[r] = getRequests[r]
  BY QueriedFacts DEF PartsOK, ViewsOK
<1>2. WiresOK /\ WaitsOK /\ KnownOK /\ nextGetRequestId \in Nat
  BY CloudFacts DEF PartsOK, NotesOK
<1>3. \A r, t \in CloudMachine : \A id : WillEnd(r, t, id) => WillEnd(r, t, id)'
  BY <1>2, SendsWait
<1>4. \A r \in CloudMachine : Known(r)' = Known(r) /\ Known(r) \subseteq CloudMachine
  BY <1>2 DEF Known, KnownOK
<1>5. ASSUME NEW r \in CloudMachine
      PROVE  /\ DOMAIN getRequests[r] = 1 .. Len(getRequests[r])
             /\ \A i, j \in 1 .. Len(getRequests[r]) :
                  getRequests[r][i].requestId = getRequests[r][j].requestId => i = j
             /\ \A i \in 1 .. Len(getRequests[r]) :
                  /\ getRequests[r][i].requestId < nextGetRequestId
                  /\ getRequests[r][i].requestId \in Nat
                  /\ getRequests[r][i].requestId \notin stranded =>
                       getRequests[r][i].waiting \subseteq Known(r)
             /\ \A i \in 1 .. Len(getRequests[r]) : \A t, id :
                  /\ getRequests[r][i].requestId \notin stranded
                  /\ t \in getRequests[r][i].waiting /\ id = getRequests[r][i].requestId
                  => WillEnd(r, t, id)'
  <2>1. DOMAIN getRequests[r] = 1 .. Len(getRequests[r])
    BY <1>1
  <2>2. \A i \in 1 .. Len(getRequests[r]) : getRequests[r][i] \in GetRequest
    BY <1>1
  <2>3. \A i \in 1 .. Len(getRequests[r]) : getRequests[r][i].requestId \in Nat
    BY <2>2, CloudFacts DEF GetRequest
  <2>4. RequestsWait(r)
    BY <1>2 DEF WaitsOK
  <2>5. ASSUME NEW i \in 1 .. Len(getRequests[r]), getRequests[r][i].requestId \notin stranded,
               NEW t, t \in getRequests[r][i].waiting, NEW id, id = getRequests[r][i].requestId
        PROVE  WillEnd(r, t, id)'
    <3>1. WillEnd(r, t, id)
      BY <1>2, <2>1, <2>5 DEF WaitsOK, QueriesWaitForAnswers
    <3>2. t \in CloudMachine
      BY <1>4, <2>1, <2>4, <2>5 DEF RequestsWait
    <3>. QED BY <1>3, <3>1, <3>2
  <2>. QED BY <2>1, <2>3, <2>4, <2>5 DEF RequestsWait
<1>6. ASSUME NEW t \in asked, NEW id, id = nextGetRequestId PROVE WillEnd(s, t, id)'
  <2>1. t \in CloudMachine /\ t \in Known(s)
    BY <1>4
  <2>2. CASE Apart(s, t)
    <3>1. <<s, t>> \in unnoticed
      BY <1>2, <2>1, <2>2 DEF Apart, KnownOK
    <3>. QED BY <3>1 DEF WillEnd
  <2>3. CASE ~Apart(s, t)
    <3>1. /\ wire'[s][t] = wire[s][t] \o f[t] /\ wire[s][t] \in Seq(CloudMessage)
          /\ f[t] \in Seq(CloudMessage)
      BY <1>2, <2>1, <2>3 DEF Sends, Outgoing, WiresOK
    <3>2. PICK j \in 1 .. Len(f[t]) : IsFor(f[t][j], "PROCESS_GET_REQUEST", nextGetRequestId)
      OBVIOUS
    <3> DEFINE q == wire[s][t]
               g == f[t]
    <3>3. q \in Seq(CloudMessage) /\ g \in Seq(CloudMessage) /\ j \in 1 .. Len(g)
      BY <3>1
    <3> HIDE DEF q, g
    <3>4. Len(q) + j \in DOMAIN (q \o g) /\ (q \o g)[Len(q) + j] = g[j]
      BY <3>3, JoinedFacts
    <3>5. \E i \in DOMAIN wire'[s][t] : IsFor(wire'[s][t][i], "PROCESS_GET_REQUEST", id)
      BY <1>6, <3>1, <3>2, <3>4 DEF q, g
    <3>. QED BY <3>5 DEF WillEnd, IsFor
  <2>. QED BY <2>2, <2>3
<1>7. ASSUME NEW r \in CloudMachine
      PROVE  /\ RequestsWait(r)'
             /\ \A i \in 1 .. Len(getRequests'[r]) : \A t, id :
                  /\ t \in getRequests'[r][i].waiting /\ id = getRequests'[r][i].requestId
                  /\ id \notin stranded'
                  => WillEnd(r, t, id)'
  <2> DEFINE long == getRequests[r]
             new == getRequests'[r]
  <2>1. /\ DOMAIN new = 1 .. Len(new) /\ Len(long) \in Nat /\ Len(new) \in Nat
        /\ nextGetRequestId' = nextGetRequestId + 1
        /\ stranded' = stranded /\ Known(r)' = Known(r)
    BY <1>1, <1>4
  <2>2. /\ \A i, j \in 1 .. Len(long) : long[i].requestId = long[j].requestId => i = j
        /\ \A i \in 1 .. Len(long) :
             /\ long[i].requestId < nextGetRequestId /\ long[i].requestId \in Nat
             /\ long[i].requestId \notin stranded => long[i].waiting \subseteq Known(r)
        /\ \A i \in 1 .. Len(long) : \A t, id :
             /\ long[i].requestId \notin stranded
             /\ t \in long[i].waiting /\ id = long[i].requestId
             => WillEnd(r, t, id)'
    BY <1>5
  <2>3. CASE new = long
    <3> HIDE DEF long, new
    <3>1. RequestsWait(r)'
      <4>1. \A i \in 1 .. Len(new) : new[i].requestId < nextGetRequestId'
        BY <1>2, <2>1, <2>2, <2>3
      <4>. QED BY <2>1, <2>2, <2>3, <4>1 DEF RequestsWait, new
    <3>. QED BY <2>1, <2>2, <2>3, <3>1 DEF new
  <2>4. CASE r = s /\ asked # {}
    <3> DEFINE q == NewQuery(c, s, k, asked)
    <3>1. /\ Len(new) = Len(long) + 1 /\ new[1] = q
          /\ \A i \in 2 .. Len(long) + 1 : i - 1 \in 1 .. Len(long) /\ new[i] = long[i - 1]
      BY <2>4, QueriedFacts
    <3>2. q.requestId = nextGetRequestId /\ q.waiting = asked
      BY DEF NewQuery
    <3> HIDE DEF long, new, q
    <3>3. \A i \in 1 .. Len(new) : i = 1 \/ i \in 2 .. Len(long) + 1
      BY <2>1, <3>1
    <3>4. ASSUME NEW i \in 1 .. Len(new)
          PROVE  /\ new[i].requestId < nextGetRequestId'
                 /\ new[i].requestId \notin stranded' => new[i].waiting \subseteq Known(r)'
                 /\ \A t, id : /\ t \in new[i].waiting /\ id = new[i].requestId
                               /\ id \notin stranded'
                               => WillEnd(r, t, id)'
      <4>1. CASE i = 1
        <5>1. new[i].requestId = nextGetRequestId /\ new[i].waiting = asked
          BY <3>1, <3>2, <4>1
        <5>2. new[i].requestId < nextGetRequestId'
          BY <1>2, <2>1, <5>1
        <5>3. asked \subseteq Known(r)'
          BY <2>1, <2>4
        <5>. QED BY <1>6, <2>4, <5>1, <5>2, <5>3
      <4>2. CASE i \in 2 .. Len(long) + 1
        <5>1. i - 1 \in 1 .. Len(long) /\ new[i] = long[i - 1]
          BY <3>1, <4>2
        <5>2. new[i].requestId < nextGetRequestId'
          BY <1>2, <2>1, <2>2, <5>1
        <5>3. new[i].requestId \notin stranded' => new[i].waiting \subseteq Known(r)'
          BY <2>1, <2>2, <5>1
        <5>4. \A t, id : /\ t \in new[i].waiting /\ id = new[i].requestId
                        /\ id \notin stranded'
                        => WillEnd(r, t, id)'
          BY <2>1, <2>2, <5>1
        <5>. QED BY <5>2, <5>3, <5>4
      <4>. QED BY <3>3, <4>1, <4>2
    <3>5. ASSUME NEW i \in 1 .. Len(new), NEW j \in 1 .. Len(new), new[i].requestId = new[j].requestId
          PROVE  i = j
      <4>1. \A x \in 2 .. Len(long) + 1 : x - 1 \in 1 .. Len(long) /\ new[x].requestId = long[x - 1].requestId
        BY <3>1
      <4>2. \A x \in 2 .. Len(long) + 1 : new[x].requestId # nextGetRequestId
        <5>1. \A x \in 1 .. Len(long) : long[x].requestId # nextGetRequestId
          BY <1>2, <2>2
        <5>. QED BY <4>1, <5>1
      <4>3. new[1].requestId = nextGetRequestId
        BY <3>1, <3>2
      <4>4. CASE i = 1 \/ j = 1
        BY <3>3, <3>5, <4>2, <4>3, <4>4
      <4>5. CASE i \in 2 .. Len(long) + 1 /\ j \in 2 .. Len(long) + 1
        <5>1. i - 1 = j - 1
          BY <2>2, <3>5, <4>1, <4>5
        <5>. QED BY <4>5, <5>1
      <4>. QED BY <3>3, <4>4, <4>5
    <3>6. RequestsWait(r)'
      BY <2>1, <3>4, <3>5 DEF RequestsWait, new
    <3>. QED BY <3>4, <3>6 DEF new
  <2>5. r # s \/ asked = {} => new = long
    BY <1>1, QueriedFacts
  <2>. QED BY <2>3, <2>4, <2>5
<1>. QED BY <1>1, <1>7, WaitsAre

\* What is sent in two parts: the messages of both, and the last of the second.
LEMMA BothElements ==
  ASSUME NEW f \in Outgoing, NEW g \in Outgoing, NEW t \in CloudMachine
  PROVE  LET both == Both(f, g)[t]
         IN /\ Len(both) \in Nat
            /\ \A i \in 1 .. Len(both) : \/ \E j \in 1 .. Len(f[t]) : both[i] = f[t][j]
                                         \/ \E j \in 1 .. Len(g[t]) : both[i] = g[t][j]
            /\ \A j \in 1 .. Len(f[t]) : \E i \in 1 .. Len(both) : both[i] = f[t][j]
            /\ Len(g[t]) \in 1 .. Len(g[t]) =>
                 Len(both) \in 1 .. Len(both) /\ both[Len(both)] = g[t][Len(g[t])]
<1> DEFINE p == f[t]
           q == g[t]
           both == Both(f, g)[t]
<1>1. p \in Seq(CloudMessage) /\ q \in Seq(CloudMessage) /\ both = p \o q
  BY BothFacts DEF Outgoing
<1> HIDE DEF p, q, both
<1>2. /\ Len(p) \in Nat /\ Len(q) \in Nat
      /\ \A i \in 1 .. Len(p) : (p \o q)[i] = p[i]
      /\ \A i \in 1 .. Len(q) : Len(p) + i \in 1 .. Len(p) + Len(q) /\ (p \o q)[Len(p) + i] = q[i]
      /\ \A i \in 1 .. Len(p) + Len(q) : i \in 1 .. Len(p) \/ i - Len(p) \in 1 .. Len(q)
  BY <1>1, JoinedFacts
<1>3. Len(p \o q) = Len(p) + Len(q)
  BY <1>1
<1>4. ASSUME NEW i \in 1 .. Len(both)
      PROVE  \/ \E j \in 1 .. Len(p) : both[i] = p[j]
             \/ \E j \in 1 .. Len(q) : both[i] = q[j]
  <2>1. CASE i \in 1 .. Len(p)
    BY <1>1, <1>2, <2>1
  <2>2. CASE i - Len(p) \in 1 .. Len(q)
    <3>1. Len(p) + (i - Len(p)) = i
      BY <1>2
    <3>2. both[Len(p) + (i - Len(p))] = q[i - Len(p)]
      BY <1>1, <1>2, <2>2
    <3>. QED BY <2>2, <3>1, <3>2
  <2>. QED BY <1>1, <1>2, <1>3, <2>1, <2>2
<1>5. \A j \in 1 .. Len(p) : j \in 1 .. Len(both) /\ both[j] = p[j]
  BY <1>1, <1>2, <1>3
<1>6. Len(q) \in 1 .. Len(q) => Len(both) \in 1 .. Len(both) /\ both[Len(both)] = q[Len(q)]
  BY <1>1, <1>2, <1>3
<1>7. Len(both) \in Nat
  BY <1>1, <1>2, <1>3
<1>. QED BY <1>4, <1>5, <1>6, <1>7 DEF p, q, both

\* How a subscription changes the list of its key, and what is sent of it: nothing
\* if there were others, else last that the key has subscribers.
LEMMA SubscribeFacts ==
  ASSUME PartsOK, NEW c \in CloudUser, NEW s, s = ServerOf[c], NEW k \in CloudKey,
         nextGetRequestId < MaxGets
  PROVE  LET list == Subscribe(c, k).list
             sent == Subscribe(c, k).sent
             l == dataRepository[s][k]
         IN /\ ListFits(list, posts, nextGetRequestId + 1)
            /\ list.keyData = l.keyData
            /\ list.nonSpecificSubscribers = l.nonSpecificSubscribers \cup {c}
            /\ CountIn(list, "uploaded") > 0 => CountIn(l, "uploaded") > 0
            /\ sent \in Outgoing /\ \A t \in CloudMachine : t \notin Known(s) => sent[t] = <<>>
            /\ \A t \in CloudMachine : \A i \in 1 .. Len(sent[t]) :
                 sent[t][i].type \in {"REMOVE_SUBSCRIBED_KEY", "ADD_SUBSCRIBED_KEY"} /\ sent[t][i].key = k
            /\ \/ CountIn(l, "subscribed") > 0 /\ \A t \in CloudMachine : sent[t] = <<>>
               \/ \A t \in Known(s) : /\ Len(sent[t]) \in 1 .. Len(sent[t])
                                      /\ sent[t][Len(sent[t])] = [type |-> "ADD_SUBSCRIBED_KEY", key |-> k]
<1> DEFINE again == k \in subscribedKeys[c]
           l == dataRepository[s][k]
           old == IF again THEN WithoutSubscriber(l, c) ELSE ListOf(s, k)
           kept == IF again /\ IsUnused(old) THEN NewList ELSE old
           a == [type |-> "REMOVE_SUBSCRIBED_KEY", key |-> k]
           b == [type |-> "ADD_SUBSCRIBED_KEY", key |-> k]
           remove == IF again THEN RemoveSubscribedKeyFromServers(s, k, old) ELSE SendTo(s, {}, <<>>)
           add == SendTo(s, IF kept.subscriberCount = 0 THEN Known(s) ELSE {}, <<b>>)
           list == WithSubscriber(kept, c)
           sent == Both(remove, add)
<1>1. Subscribe(c, k).list = list /\ Subscribe(c, k).sent = sent
  BY DEF Subscribe
<1>2. /\ posts \in 0 .. MaxPosts /\ nextGetRequestId \in 0 .. MaxGets
      /\ nextGetRequestId + 1 \in 0 .. MaxGets
  BY CloudFacts DEF PartsOK, NotesOK
<1>3. s \in CloudMachine /\ Known(s) \subseteq CloudMachine \ {s}
  BY CloudFacts DEF PartsOK, KnownOK
<1>4. /\ again <=> c \in l.nonSpecificSubscribers
      /\ l # NoList => ListFits(l, posts, nextGetRequestId)
      /\ ListFits(ListOf(s, k), posts, nextGetRequestId)
      /\ ListOf(s, k).keyData = l.keyData
      /\ ListOf(s, k).nonSpecificSubscribers = l.nonSpecificSubscribers
      /\ \A kind \in Kind : CountIn(ListOf(s, k), kind) > 0 => CountIn(l, kind) > 0
  <2>1. NotesOK
    BY DEF PartsOK
  <2>2. again <=> c \in l.nonSpecificSubscribers
    BY <1>3, <2>1 DEF NotesOK, KeyNoted
  <2>. QED BY <1>3, <2>1, <2>2, ListNoted
<1> HIDE DEF list, sent, remove, add, a, b, kept, old, l
<1>5. /\ ListFits(old, posts, nextGetRequestId)
      /\ old.keyData = l.keyData /\ old.nonSpecificSubscribers = l.nonSpecificSubscribers \ {c}
      /\ CountIn(old, "uploaded") > 0 => CountIn(l, "uploaded") > 0
      /\ again => CountIn(l, "subscribed") > 0
      /\ ~again /\ CountIn(old, "subscribed") > 0 => CountIn(l, "subscribed") > 0
  <2>1. CASE again
    <3>1. c \in l.nonSpecificSubscribers
      BY <1>4, <2>1
    <3>2. l # NoList
      BY <1>2, <3>1, NewListFits
    <3>3. ListFits(l, posts, nextGetRequestId)
      BY <1>4, <3>2
    <3>4. old = WithoutSubscriber(l, c)
      BY <2>1 DEF old
    <3>5. /\ ListFits(old, posts, nextGetRequestId) /\ old.keyData = l.keyData
          /\ old.uploaderCount = l.uploaderCount
          /\ old.nonSpecificSubscribers = l.nonSpecificSubscribers \ {c}
      BY <1>2, <3>1, <3>3, <3>4, UnsubscribeFits
    <3>6. l.subscriberCount > 0
      BY <1>2, <3>1, <3>3, FitFacts
    <3>. QED BY <2>1, <3>5, <3>6 DEF CountIn
  <2>2. CASE ~again
    <3>1. old = ListOf(s, k)
      BY <2>2 DEF old
    <3>2. l.nonSpecificSubscribers \ {c} = l.nonSpecificSubscribers
      BY <1>4, <2>2
    <3>. QED BY <1>4, <2>2, <3>1, <3>2 DEF Kind
  <2>. QED BY <2>1, <2>2
<1>6. /\ ListFits(kept, posts, nextGetRequestId)
      /\ kept.keyData = old.keyData /\ kept.nonSpecificSubscribers = old.nonSpecificSubscribers
      /\ CountIn(kept, "uploaded") > 0 => CountIn(old, "uploaded") > 0
      /\ kept.subscriberCount \in Nat
      /\ kept.subscriberCount # 0 => kept = old
  <2>1. CASE again /\ IsUnused(old)
    <3>1. kept = NewList
      BY <2>1 DEF kept
    <3>2. old.keyData = NoRows /\ old.nonSpecificSubscribers = {}
      BY <2>1 DEF IsUnused
    <3>3. ~(CountIn(NewList, "uploaded") > 0)
      BY <1>2, NewListFits DEF CountIn
    <3>4. NewList.subscriberCount = 0 /\ ListFits(NewList, posts, nextGetRequestId)
          /\ NewList.keyData = NoRows /\ NewList.nonSpecificSubscribers = {}
      BY <1>2, NewListFits
    <3>. QED BY <3>1, <3>2, <3>3, <3>4
  <2>2. CASE ~(again /\ IsUnused(old))
    <3>1. kept = old
      BY <2>2 DEF kept
    <3>2. old.subscriberCount \in Nat
      BY <1>2, <1>5, FitFacts
    <3>. QED BY <1>5, <3>1, <3>2
  <2>. QED BY <2>1, <2>2
<1>7. /\ ListFits(list, posts, nextGetRequestId + 1)
      /\ list.keyData = l.keyData
      /\ list.nonSpecificSubscribers = l.nonSpecificSubscribers \cup {c}
      /\ CountIn(list, "uploaded") > 0 => CountIn(l, "uploaded") > 0
  <2>1. /\ ListFits(list, posts, nextGetRequestId + 1) /\ list.keyData = kept.keyData
        /\ list.uploaderCount = kept.uploaderCount
        /\ list.nonSpecificSubscribers = kept.nonSpecificSubscribers \cup {c}
    <3>1. c \notin kept.nonSpecificSubscribers
      BY <1>5, <1>6
    <3>2. list = WithSubscriber(kept, c) /\ ListFits(kept, posts, nextGetRequestId)
      BY <1>6 DEF list
    <3>. QED BY <1>2, <3>1, <3>2, SubscribeFits
  <2>2. (l.nonSpecificSubscribers \ {c}) \cup {c} = l.nonSpecificSubscribers \cup {c}
    OBVIOUS
  <2>3. CountIn(list, "uploaded") = CountIn(kept, "uploaded")
    BY <2>1 DEF CountIn
  <2>. QED BY <1>5, <1>6, <2>1, <2>2, <2>3
<1>8. /\ a \in CloudMessage /\ b \in CloudMessage /\ <<a>> \in Seq(CloudMessage)
      /\ <<b>> \in Seq(CloudMessage) /\ <<>> \in Seq(CloudMessage)
      /\ a.type = "REMOVE_SUBSCRIBED_KEY" /\ b.type = "ADD_SUBSCRIBED_KEY" /\ a.key = k /\ b.key = k
  <2>1. a \in CloudMessage /\ b \in CloudMessage
    BY DEF CloudMessage, a, b
  <2>2. /\ a.type = "REMOVE_SUBSCRIBED_KEY" /\ b.type = "ADD_SUBSCRIBED_KEY" /\ a.key = k /\ b.key = k
    BY DEF a, b
  <2>. QED BY <2>1, <2>2
<1>9. /\ remove \in Outgoing
      /\ \A t \in CloudMachine :
           remove[t] = IF again /\ old.subscriberCount = 0 /\ t \in Known(s) THEN <<a>> ELSE <<>>
  <2>1. CASE again
    <3>1. remove = SendTo(s, IF old.subscriberCount = 0 THEN Known(s) ELSE {}, <<a>>)
      BY <2>1 DEF remove, a, RemoveSubscribedKeyFromServers
    <3>. QED BY <1>8, <2>1, <3>1 DEF SendTo, Outgoing
  <2>2. CASE ~again
    <3>1. remove = SendTo(s, {}, <<>>)
      BY <2>2 DEF remove
    <3>. QED BY <1>8, <2>2, <3>1 DEF SendTo, Outgoing
  <2>. QED BY <2>1, <2>2
<1>10. /\ add \in Outgoing
       /\ \A t \in CloudMachine :
            add[t] = IF kept.subscriberCount = 0 /\ t \in Known(s) THEN <<b>> ELSE <<>>
  BY <1>8 DEF add, SendTo, Outgoing
<1>11. sent \in Outgoing /\ \A t \in CloudMachine : t \notin Known(s) => sent[t] = <<>>
  BY <1>9, <1>10, BothFacts DEF sent
<1>12. \A t \in CloudMachine : remove[t] \in {<<>>, <<a>>} /\ add[t] \in {<<>>, <<b>>}
  BY <1>9, <1>10
<1>13. \A t \in CloudMachine :
         /\ \A i \in 1 .. Len(sent[t]) : sent[t][i] \in {a, b}
         /\ add[t] = <<b>> => Len(sent[t]) \in 1 .. Len(sent[t]) /\ sent[t][Len(sent[t])] = b
  BY <1>8, <1>9, <1>10, <1>12, TwoSent DEF sent
<1>14. \A t \in CloudMachine : \A i \in 1 .. Len(sent[t]) :
         sent[t][i].type \in {"REMOVE_SUBSCRIBED_KEY", "ADD_SUBSCRIBED_KEY"} /\ sent[t][i].key = k
  <2>1. \A m \in {a, b} : m.type \in {"REMOVE_SUBSCRIBED_KEY", "ADD_SUBSCRIBED_KEY"} /\ m.key = k
    BY <1>8
  <2>. QED BY <1>13, <2>1
<1>15. \/ CountIn(l, "subscribed") > 0 /\ \A t \in CloudMachine : sent[t] = <<>>
       \/ \A t \in Known(s) : Len(sent[t]) \in 1 .. Len(sent[t]) /\ sent[t][Len(sent[t])] = b
  <2>1. CASE kept.subscriberCount = 0
    <3>1. \A t \in Known(s) : t \in CloudMachine /\ add[t] = <<b>>
      BY <1>3, <1>10, <2>1
    <3>. QED BY <1>13, <3>1
  <2>2. CASE kept.subscriberCount # 0
    <3>1. kept = old
      BY <1>6, <2>2
    <3>2. \A t \in CloudMachine : remove[t] = <<>> /\ add[t] = <<>>
      BY <1>9, <1>10, <2>2, <3>1
    <3>3. \A t \in CloudMachine : sent[t] = <<>>
      BY <1>9, <1>10, <3>2, BothFacts DEF sent
    <3>4. CountIn(old, "subscribed") > 0
      BY <1>6, <2>2, <3>1 DEF CountIn
    <3>. QED BY <1>5, <3>3, <3>4
  <2>. QED BY <2>1, <2>2
<1>. QED BY <1>1, <1>7, <1>11, <1>14, <1>15 DEF l, b

\* The message of a query, to the servers asked.
GetMessage(k) == [type |-> "PROCESS_GET_REQUEST", key |-> k, requestId |-> nextGetRequestId]
Asking(s, k, asked) == SendTo(s, asked, <<GetMessage(k)>>)

\* What is sent of a query.
LEMMA AskedFacts ==
  ASSUME PartsOK, NEW s \in CloudMachine, NEW k \in CloudKey, nextGetRequestId < MaxGets,
         NEW asked, asked \subseteq Known(s)
  PROVE  /\ GetMessage(k) \in CloudMessage /\ Asking(s, k, asked) \in Outgoing
         /\ \A t \in CloudMachine : \A i \in 1 .. Len(Asking(s, k, asked)[t]) :
              Asking(s, k, asked)[t][i] = GetMessage(k)
         /\ \A t \in asked : \E j \in 1 .. Len(Asking(s, k, asked)[t]) :
              Asking(s, k, asked)[t][j] = GetMessage(k)
         /\ Asking(s, k, asked)[s] = <<>>
         /\ IsFor(GetMessage(k), "PROCESS_GET_REQUEST", nextGetRequestId)
         /\ \A j \in CloudKey, kind \in Kind : ~Unsays(GetMessage(k), kind, j)
<1> DEFINE m == GetMessage(k)
           f == Asking(s, k, asked)
<1>1. m \in CloudMessage
  <2>1. nextGetRequestId \in 0 .. MaxGets - 1
    BY CloudFacts DEF PartsOK, NotesOK
  <2>. QED BY <2>1 DEF CloudMessage, GetMessage
<1>2. IsFor(m, "PROCESS_GET_REQUEST", nextGetRequestId)
  BY DEF IsFor, GetMessage
<1>3. \A j \in CloudKey, kind \in Kind : ~Unsays(m, kind, j)
  BY WordsFacts DEF GetMessage
<1>4. asked \subseteq CloudMachine \ {s}
  BY DEF PartsOK, KnownOK
<1> HIDE DEF m
<1>5. <<m>> \in Seq(CloudMessage) /\ <<>> \in Seq(CloudMessage)
  BY <1>1
<1>6. f \in Outgoing /\ \A t \in CloudMachine : f[t] = IF t \in asked THEN <<m>> ELSE <<>>
  BY <1>5 DEF SendTo, Outgoing, Asking, m
<1> HIDE DEF f
<1>7. /\ 1 \in 1 .. Len(<<m>>) /\ <<m>>[1] = m
      /\ \A i \in 1 .. Len(<<m>>) : <<m>>[i] = m
      /\ \A i \in 1 .. Len(<<>>) : FALSE
  OBVIOUS
<1>8. \A t \in CloudMachine : \A i \in 1 .. Len(f[t]) : f[t][i] = m
  <2>1. \A t \in CloudMachine : f[t] = <<m>> \/ f[t] = <<>>
    BY <1>6
  <2>. QED BY <1>7, <2>1
<1>9. \A t \in asked : \E j \in 1 .. Len(f[t]) : f[t][j] = m
  <2>1. \A t \in asked : f[t] = <<m>>
    BY <1>4, <1>6
  <2>. QED BY <1>7, <2>1
<1>10. f[s] = <<>>
  BY <1>4, <1>6
<1>. QED BY <1>1, <1>2, <1>3, <1>6, <1>8, <1>9, <1>10 DEF f, m

\* A query asks the servers that are known to have data, and subscribes.
LEMMA OnGetRequestKeeps ==
  ASSUME PartsOK, NEW c \in CloudUser, NEW k \in CloudKey, NEW subscribeToResults \in BOOLEAN,
         OnGetRequest(c, k, subscribeToResults)
  PROVE  PartsOK'
<1> DEFINE s == ServerOf[c]
           ask == GetServersWithUploadedKeys(s, k)
           m == GetMessage(k)
           asked == Asking(s, k, ask)
           list == Subscribe(c, k).list
           sent == Subscribe(c, k).sent
           l == dataRepository[s][k]
           both == Both(asked, sent)
<1>1. /\ c \in attached /\ nextGetRequestId < MaxGets /\ nextGetRequestId' = nextGetRequestId + 1
      /\ Queried(c, s, k, ask)
      /\ IF ask = {} THEN view' = Transmit(view, c, k, NoRows) ELSE UNCHANGED view
      /\ UNCHANGED <<attached, uploadedKeys, remoteServers, unnoticed, posts, departures, stranded>>
  BY DEF OnGetRequest, Queried, NewQuery
<1>2. \/ /\ subscribedKeys' = [subscribedKeys EXCEPT ![c] = @ \cup {k}]
         /\ dataRepository' = [dataRepository EXCEPT ![s][k] = list]
         /\ SendAll(s, both)
         /\ missed' = {x \in missed : x[1] # c \/ x[2] # k} \cup PassedByPosts(s, c, k)
                \cup IF \A t \in CloudMachine \ {s} : t \in Known(s) /\ s \in Known(t)
                     THEN {} ELSE {<<c, k, "apart">>}
      \/ SendAll(s, asked) /\ UNCHANGED <<subscribedKeys, dataRepository, missed>>
  BY DEF OnGetRequest, GetMessage, Asking
<1>3. /\ posts \in 0 .. MaxPosts /\ nextGetRequestId \in 0 .. MaxGets
      /\ nextGetRequestId + 1 \in 0 .. MaxGets
  BY <1>1, CloudFacts DEF PartsOK, NotesOK
<1>4. /\ s \in CloudMachine /\ Known(s) \subseteq CloudMachine \ {s} /\ ask \subseteq Known(s)
  BY CloudFacts DEF PartsOK, KnownOK, GetServersWithUploadedKeys
<1> HIDE DEF s, ask, m, asked, list, sent, l, both
<1>5. /\ m \in CloudMessage /\ asked \in Outgoing
      /\ \A t \in CloudMachine : \A i \in 1 .. Len(asked[t]) : asked[t][i] = m
      /\ \A t \in ask : \E j \in 1 .. Len(asked[t]) : asked[t][j] = m
      /\ asked[s] = <<>>
      /\ IsFor(m, "PROCESS_GET_REQUEST", nextGetRequestId)
      /\ \A j \in CloudKey, kind \in Kind : ~Unsays(m, kind, j)
  <2>1. nextGetRequestId < MaxGets /\ s \in CloudMachine /\ ask \subseteq Known(s)
    BY <1>1, <1>4
  <2>. QED BY <2>1, AskedFacts DEF m, asked
<1>6. /\ PartsOK => WiresOK /\ AllTold /\ KnownOK
      /\ KnownOK' /\ getRequests' \in [CloudMachine -> Seq(GetRequest)]
  <2>1. KnownOK'
    BY <1>1 DEF PartsOK, KnownOK, Known
  <2>2. getRequests' \in [CloudMachine -> Seq(GetRequest)]
    BY <1>1, <1>4, QueriedFacts
  <2>. QED BY <2>1, <2>2 DEF PartsOK
<1>7. ASSUME NEW f \in Outgoing, f[s] = <<>>, SendAll(s, f), TellsOfKeys(s, f),
             \A r \in CloudMachine \ {s} : dataRepository'[r] = dataRepository[r],
             \A t \in CloudMachine : \A j \in 1 .. Len(asked[t]) : \E i \in 1 .. Len(f[t]) : f[t][i] = asked[t][j]
      PROVE  WiresOK' /\ AllTold' /\ WaitsOK'
  <2>1. WiresOK' /\ Sends(s, f)
    BY <1>1, <1>4, <1>6, <1>7, SendAllFacts
  <2>2. AllTold'
    <3>1. Known(s) \subseteq CloudMachine
      BY <1>4
    <3>. QED BY <1>1, <1>4, <1>6, <1>7, <2>1, <3>1, SendsTell
  <2>3. \A t \in ask : \E j \in 1 .. Len(f[t]) : IsFor(f[t][j], "PROCESS_GET_REQUEST", nextGetRequestId)
    BY <1>4, <1>5, <1>7
  <2>4. WaitsOK'
    BY <1>1, <1>4, <2>1, <2>3, QueryWaits
  <2>. QED BY <2>1, <2>2, <2>4
<1>8. view' \in [CloudUser -> [CloudKey -> Rows]]
  <2>1. view \in [CloudUser -> [CloudKey -> Rows]]
    BY DEF PartsOK, ViewsOK
  <2>2. Merged(RowsOf(ServerOf[c], k), NoRows) \in Rows
    <3>1. NoRows \in Rows
      BY <1>3, NewListFits
    <3>2. RowsOf(ServerOf[c], k) \in Rows
      <4>1. dataRepository[s][k] \in CloudDataList \cup {NoList}
        BY <1>4 DEF PartsOK, NotesOK
      <4>2. dataRepository[s][k].keyData \in Rows
        BY <3>1, <4>1, <1>3, NewListFits DEF CloudDataList
      <4>. QED BY <3>1, <4>2 DEF RowsOf, s
    <3>. QED BY <3>1, <3>2 DEF Merged, Rows
  <2> DEFINE rows == Merged(RowsOf(ServerOf[c], k), NoRows)
  <2> HIDE DEF rows
  <2>3. [view EXCEPT ![c][k] = rows] \in [CloudUser -> [CloudKey -> Rows]]
    BY <2>1, <2>2 DEF rows
  <2>4. view' = view \/ view' = [view EXCEPT ![c][k] = rows]
    BY <1>1 DEF Transmit, rows
  <2>. QED BY <2>1, <2>3, <2>4
<1>9. CASE SendAll(s, asked) /\ UNCHANGED <<subscribedKeys, dataRepository, missed>>
  <2>1. TellsOfKeys(s, asked)
    BY <1>4, <1>5, <1>9 DEF TellsOfKeys
  <2>2. WiresOK' /\ AllTold' /\ WaitsOK'
    BY <1>5, <1>7, <1>9, <2>1
  <2>3. NotesOK'
    <3>1. NotesOK
      BY DEF PartsOK
    <3>2. ASSUME NEW r \in CloudMachine, NEW j \in CloudKey PROVE KeyNoted(r, j)'
      <4>1. KeyNoted(r, j) /\ dataRepository[r][j] \in CloudDataList \cup {NoList}
        BY <3>1 DEF NotesOK
      <4>2. dataRepository[r][j] # NoList => dataRepository[r][j].subscriberCount \in Nat
        BY <4>1, <1>3, CloudFacts DEF CloudDataList
      <4>. QED BY <1>1, <1>3, <1>9, <4>1, <4>2 DEF KeyNoted
    <3>. QED BY <1>1, <1>3, <1>9, <3>1, <3>2 DEF NotesOK
  <2>4. ViewsOK'
    BY <1>1, <1>6, <1>8, <1>9 DEF PartsOK, ViewsOK
  <2>. QED BY <1>6, <2>2, <2>3, <2>4 DEF PartsOK
<1>10. CASE /\ subscribedKeys' = [subscribedKeys EXCEPT ![c] = @ \cup {k}]
            /\ dataRepository' = [dataRepository EXCEPT ![s][k] = list]
            /\ SendAll(s, both)
            /\ missed' = {x \in missed : x[1] # c \/ x[2] # k} \cup PassedByPosts(s, c, k)
                  \cup IF \A t \in CloudMachine \ {s} : t \in Known(s) /\ s \in Known(t)
                       THEN {} ELSE {<<c, k, "apart">>}
  <2>1. /\ ListFits(list, posts, nextGetRequestId + 1)
        /\ list.keyData = l.keyData
        /\ list.nonSpecificSubscribers = l.nonSpecificSubscribers \cup {c}
        /\ CountIn(list, "uploaded") > 0 => CountIn(l, "uploaded") > 0
        /\ sent \in Outgoing /\ \A t \in CloudMachine : t \notin Known(s) => sent[t] = <<>>
        /\ \A t \in CloudMachine : \A i \in 1 .. Len(sent[t]) :
             sent[t][i].type \in {"REMOVE_SUBSCRIBED_KEY", "ADD_SUBSCRIBED_KEY"} /\ sent[t][i].key = k
        /\ \/ CountIn(l, "subscribed") > 0 /\ \A t \in CloudMachine : sent[t] = <<>>
           \/ \A t \in Known(s) : /\ Len(sent[t]) \in 1 .. Len(sent[t])
                                  /\ sent[t][Len(sent[t])] = [type |-> "ADD_SUBSCRIBED_KEY", key |-> k]
    <3>1. s = ServerOf[c]
      BY DEF s
    <3>. QED BY <1>1, <3>1, SubscribeFacts DEF l, list, sent
  <2>2. /\ NotesOK'
        /\ \A r \in CloudMachine \ {s} : dataRepository'[r] = dataRepository[r]
        /\ dataRepository'[s][k] = list
        /\ \A j \in CloudKey \ {k} : dataRepository'[s][j] = dataRepository[s][j]
    <3>1. /\ uploadedKeys \in [CloudUser -> SUBSET CloudKey] /\ subscribedKeys \in [CloudUser -> SUBSET CloudKey]
          /\ KeyNoted(s, k)
      BY <1>4 DEF PartsOK, NotesOK
    <3>2. \A u \in CloudUser \ {c} :
             /\ list.keyData[u] # 0 <=> dataRepository[s][k].keyData[u] # 0
             /\ u \in list.nonSpecificSubscribers <=> u \in dataRepository[s][k].nonSpecificSubscribers
      BY <2>1 DEF l
    <3>3. c \in list.nonSpecificSubscribers
      BY <2>1
    <3>4. list.keyData[c] # 0 <=> k \in uploadedKeys[c]
      BY <2>1, <3>1 DEF KeyNoted, s, l
    <3>5. /\ subscribedKeys' \in [CloudUser -> SUBSET CloudKey] /\ k \in subscribedKeys'[c]
          /\ uploadedKeys' = uploadedKeys
          /\ \A u \in CloudUser, j \in CloudKey : u # c \/ j # k => (j \in subscribedKeys'[u] <=> j \in subscribedKeys[u])
      BY <1>1, <1>10, <3>1
    <3>6. /\ posts' \in posts .. MaxPosts /\ nextGetRequestId' \in nextGetRequestId .. MaxGets
          /\ posts' = posts /\ nextGetRequestId' = nextGetRequestId + 1
      BY <1>1, <1>3, CloudFacts
    <3>7. s = ServerOf[c] /\ dataRepository' = [dataRepository EXCEPT ![s][k] = list]
      BY <1>10 DEF s
    <3>8. list = NoList \/ ListFits(list, posts', nextGetRequestId')
      BY <2>1, <3>6
    <3>9. KeyChanges(c, s, k, list)
      BY <3>1, <3>2, <3>3, <3>4, <3>5, <3>6, <3>7, <3>8 DEF KeyChanges
    <3>. QED BY <3>9, KeyNotes
  <2>3. both \in Outgoing /\ both[s] = <<>>
    <3>1. asked \in Outgoing /\ sent \in Outgoing /\ s \in CloudMachine /\ asked[s] = <<>> /\ sent[s] = <<>>
      <4>1. s \notin Known(s)
        BY <1>4
      <4>. QED BY <1>4, <1>5, <2>1, <4>1
    <3>2. Both(asked, sent) \in Outgoing /\ Both(asked, sent)[s] = sent[s]
      BY <3>1, BothFacts
    <3>. QED BY <3>1, <3>2 DEF both
  <2>4. \A t \in CloudMachine :
          /\ \A i \in 1 .. Len(both[t]) : \/ \E j \in 1 .. Len(asked[t]) : both[t][i] = asked[t][j]
                                          \/ \E j \in 1 .. Len(sent[t]) : both[t][i] = sent[t][j]
          /\ \A j \in 1 .. Len(asked[t]) : \E i \in 1 .. Len(both[t]) : both[t][i] = asked[t][j]
          /\ Len(both[t]) \in Nat
          /\ Len(sent[t]) \in 1 .. Len(sent[t]) =>
               Len(both[t]) \in 1 .. Len(both[t]) /\ both[t][Len(both[t])] = sent[t][Len(sent[t])]
    <3>1. asked \in Outgoing /\ sent \in Outgoing
      BY <1>5, <2>1
    <3>. QED BY <3>1, BothElements, Zenon DEF both
  <2>5. ASSUME NEW t \in CloudMachine, NEW i \in 1 .. Len(sent[t]), NEW j \in CloudKey, NEW kind \in Kind,
               Unsays(sent[t][i], kind, j)
        PROVE  kind = "subscribed" /\ j = k
    <3>1. /\ sent[t][i].type \in {"REMOVE_SUBSCRIBED_KEY", "ADD_SUBSCRIBED_KEY"} /\ sent[t][i].key = k
      BY <2>1
    <3>. QED BY <2>5, <3>1 DEF Unsays, RemoveOf, Kind
  <2>6. ASSUME NEW t \in CloudMachine, NEW i \in 1 .. Len(both[t]), NEW j \in CloudKey, NEW kind \in Kind,
               Unsays(both[t][i], kind, j)
        PROVE  kind = "subscribed" /\ j = k /\ \E n \in 1 .. Len(sent[t]) : both[t][i] = sent[t][n]
    <3>1. CASE \E n \in 1 .. Len(asked[t]) : both[t][i] = asked[t][n]
      BY <1>5, <2>6, <3>1
    <3>2. CASE \E n \in 1 .. Len(sent[t]) : both[t][i] = sent[t][n]
      BY <2>5, <2>6, <3>2
    <3>. QED BY <2>4, <3>1, <3>2
  <2>7. ASSUME NEW kind \in Kind, CountIn(dataRepository'[s][k], kind) > 0
        PROVE  \/ /\ CountIn(dataRepository[s][k], kind) > 0
                  /\ \A t \in Known(s) : \A i \in 1 .. Len(both[t]) : ~Unsays(both[t][i], kind, k)
               \/ \A t \in Known(s) : \E n \in 1 .. Len(both[t]) :
                    Says(both[t][n], kind, k)
                    /\ \A i \in 1 .. Len(both[t]) : i >= n => ~Unsays(both[t][i], kind, k)
    <3>1. CASE kind = "uploaded"
      <4>1. CountIn(l, kind) > 0
        BY <2>1, <2>2, <2>7, <3>1
      <4>2. \A t \in Known(s) : \A i \in 1 .. Len(both[t]) : ~Unsays(both[t][i], kind, k)
        BY <1>4, <2>6, <3>1
      <4>. QED BY <4>1, <4>2 DEF l
    <3>2. CASE kind = "subscribed"
      <4>1. CASE CountIn(l, "subscribed") > 0 /\ \A t \in CloudMachine : sent[t] = <<>>
        <5>1. \A t \in CloudMachine : ~\E n \in 1 .. Len(sent[t]) : TRUE
          BY <4>1
        <5>2. \A t \in Known(s) : \A i \in 1 .. Len(both[t]) : ~Unsays(both[t][i], kind, k)
          BY <1>4, <2>6, <5>1
        <5>. QED BY <3>2, <4>1, <5>2 DEF l
      <4>2. CASE \A t \in Known(s) : /\ Len(sent[t]) \in 1 .. Len(sent[t])
                                     /\ sent[t][Len(sent[t])] = [type |-> "ADD_SUBSCRIBED_KEY", key |-> k]
        <5>1. ASSUME NEW t \in Known(s)
              PROVE  \E n \in 1 .. Len(both[t]) :
                       Says(both[t][n], kind, k)
                       /\ \A i \in 1 .. Len(both[t]) : i >= n => ~Unsays(both[t][i], kind, k)
          <6>1. /\ t \in CloudMachine /\ Len(both[t]) \in 1 .. Len(both[t]) /\ Len(both[t]) \in Nat
                /\ both[t][Len(both[t])] = [type |-> "ADD_SUBSCRIBED_KEY", key |-> k]
            BY <1>4, <2>4, <4>2
          <6>2. Says(both[t][Len(both[t])], kind, k) /\ ~Unsays(both[t][Len(both[t])], kind, k)
            BY <3>2, <6>1, WordsFacts
          <6>3. \A i \in 1 .. Len(both[t]) : i >= Len(both[t]) => i = Len(both[t])
            BY <6>1
          <6>. QED BY <6>1, <6>2, <6>3
        <5>. QED BY <5>1
      <4>. QED BY <2>1, <4>1, <4>2
    <3>. QED BY <3>1, <3>2 DEF Kind
  <2>8. TellsOfKeys(s, both)
    <3>1. \A j \in CloudKey \ {k}, kind \in Kind : \A t \in Known(s) : \A i \in 1 .. Len(both[t]) :
             ~Unsays(both[t][i], kind, j)
      BY <1>4, <2>6
    <3>. QED BY <1>4, <2>2, <2>7, <3>1, KeyTells
  <2>9. WiresOK' /\ AllTold' /\ WaitsOK'
    BY <1>7, <1>10, <2>2, <2>3, <2>4, <2>8
  <2>10. missed' \subseteq CloudUser \X CloudKey \X {"between", "apart"}
    <3>1. PassedByPosts(s, c, k) \subseteq CloudUser \X CloudKey \X {"between", "apart"}
      BY DEF PassedByPosts
    <3>. QED BY <1>10, <3>1 DEF PartsOK, ViewsOK
  <2>11. ViewsOK'
    BY <1>1, <1>6, <1>8, <2>10 DEF PartsOK, ViewsOK
  <2>. QED BY <1>6, <2>2, <2>9, <2>11 DEF PartsOK
<1>. QED BY <1>2, <1>9, <1>10

-----------------------------------------------------------------------------
(* What servers do with messages *)

LearnTypes == {"ADD_UPLOADED_AND_SUBSCRIBED_KEYS", "ADD_UPLOADED_KEY", "ADD_SUBSCRIBED_KEY",
               "REMOVE_UPLOADED_KEY", "REMOVE_SUBSCRIBED_KEY"}

\* What messages are made of.
LEMMA MessageFacts ==
  ASSUME NEW m \in CloudMessage
  PROVE  /\ m.type \in LearnTypes \cup {"DATA_CHANGED", "PROCESS_GET_REQUEST", "PROCESS_GET_RESPONSE"}
         /\ m.type = "ADD_UPLOADED_AND_SUBSCRIBED_KEYS" =>
              m.uploaded \subseteq CloudKey /\ m.subscribed \subseteq CloudKey
         /\ m.type # "ADD_UPLOADED_AND_SUBSCRIBED_KEYS" => m.key \in CloudKey
         /\ m.type = "DATA_CHANGED" => m.from \in CloudUser /\ m.data \in 0 .. MaxPosts
         /\ m.type = "PROCESS_GET_REQUEST" => m.requestId \in 0 .. MaxGets - 1
         /\ m.type = "PROCESS_GET_RESPONSE" => m.requestId \in 0 .. MaxGets - 1 /\ m.rows \in Rows
<1>1. \/ m \in [type : {"ADD_UPLOADED_AND_SUBSCRIBED_KEYS"}, uploaded : SUBSET CloudKey,
                subscribed : SUBSET CloudKey]
      \/ m \in [type : {"ADD_UPLOADED_KEY", "ADD_SUBSCRIBED_KEY", "REMOVE_UPLOADED_KEY",
                        "REMOVE_SUBSCRIBED_KEY"}, key : CloudKey]
      \/ m \in [type : {"DATA_CHANGED"}, key : CloudKey, from : CloudUser, data : 0 .. MaxPosts]
      \/ m \in [type : {"PROCESS_GET_REQUEST"}, key : CloudKey, requestId : 0 .. MaxGets - 1]
      \/ m \in [type : {"PROCESS_GET_RESPONSE"}, requestId : 0 .. MaxGets - 1, key : CloudKey, rows : Rows]
  BY DEF CloudMessage
<1>. QED BY <1>1 DEF LearnTypes

\* What a server knows of another, about a key.
BelievedIn(r, kind, k) ==
  \/ ~r.gotSubscribedAndUploadedKeys
  \/ k \in IF kind = "uploaded" THEN r.uploadedKeys ELSE r.subscribedKeys

\* What a server believes of another is in what it notes of it.
LEMMA BelievedFacts ==
  ASSUME NEW s, NEW t, NEW kind \in Kind, NEW k
  PROVE  Believed(s, t, kind, k) <=> t \in Known(s) /\ BelievedIn(remoteServers[s][t], kind, k)
BY DEF Believed, BelievedIn, GetServersWithUploadedKeys, SubscribedServers

\* A server believes what it is told, and what it is not told otherwise.
LEMMA LearnedFacts ==
  ASSUME NEW r \in RemoteServer, NEW m \in CloudMessage, m.type \in LearnTypes
  PROVE  /\ Learned(r, m) \in RemoteServer
         /\ \A kind \in Kind, k \in CloudKey :
              /\ Says(m, kind, k) => BelievedIn(Learned(r, m), kind, k)
              /\ BelievedIn(r, kind, k) /\ ~Unsays(m, kind, k) => BelievedIn(Learned(r, m), kind, k)
<1>1. /\ r.gotSubscribedAndUploadedKeys \in BOOLEAN /\ r.uploadedKeys \subseteq CloudKey
      /\ r.subscribedKeys \subseteq CloudKey
  BY DEF RemoteServer
<1>2. Kind = {"uploaded", "subscribed"}
  BY DEF Kind
<1>3. CASE m.type = "ADD_UPLOADED_AND_SUBSCRIBED_KEYS"
  <2>1. Learned(r, m) = [gotSubscribedAndUploadedKeys |-> TRUE, uploadedKeys |-> r.uploadedKeys \cup m.uploaded,
                         subscribedKeys |-> r.subscribedKeys \cup m.subscribed]
    BY <1>3 DEF Learned
  <2>2. m.uploaded \subseteq CloudKey /\ m.subscribed \subseteq CloudKey
    BY <1>3, MessageFacts
  <2>3. Learned(r, m) \in RemoteServer
    BY <1>1, <2>1, <2>2 DEF RemoteServer
  <2>. QED BY <1>1, <1>2, <1>3, <2>1, <2>3 DEF Says, Unsays, KeysIn, AddOf, RemoveOf, BelievedIn
<1>4. CASE m.type = "ADD_UPLOADED_KEY"
  <2>1. Learned(r, m) = [r EXCEPT !.uploadedKeys = @ \cup {m.key}] /\ m.key \in CloudKey
    BY <1>4, MessageFacts DEF Learned
  <2>. QED BY <1>1, <1>2, <1>4, <2>1 DEF RemoteServer, Says, Unsays, KeysIn, AddOf, RemoveOf, BelievedIn
<1>5. CASE m.type = "ADD_SUBSCRIBED_KEY"
  <2>1. Learned(r, m) = [r EXCEPT !.subscribedKeys = @ \cup {m.key}] /\ m.key \in CloudKey
    BY <1>5, MessageFacts DEF Learned
  <2>. QED BY <1>1, <1>2, <1>5, <2>1 DEF RemoteServer, Says, Unsays, KeysIn, AddOf, RemoveOf, BelievedIn
<1>6. CASE m.type = "REMOVE_UPLOADED_KEY"
  <2>1. Learned(r, m) = [r EXCEPT !.uploadedKeys = @ \ {m.key}] /\ m.key \in CloudKey
    BY <1>6, MessageFacts DEF Learned
  <2>. QED BY <1>1, <1>2, <1>6, <2>1 DEF RemoteServer, Says, Unsays, KeysIn, AddOf, RemoveOf, BelievedIn
<1>7. CASE m.type = "REMOVE_SUBSCRIBED_KEY"
  <2>1. Learned(r, m) = [r EXCEPT !.subscribedKeys = @ \ {m.key}] /\ m.key \in CloudKey
    BY <1>7, MessageFacts DEF Learned
  <2>. QED BY <1>1, <1>2, <1>7, <2>1 DEF RemoteServer, Says, Unsays, KeysIn, AddOf, RemoveOf, BelievedIn
<1>. QED BY <1>3, <1>4, <1>5, <1>6, <1>7 DEF LearnTypes

\* Messages of queries and of data say nothing of who has data.
LEMMA OthersSayNothing ==
  ASSUME NEW m, m.type \notin LearnTypes, NEW kind \in Kind, NEW k
  PROVE  ~Says(m, kind, k) /\ ~Unsays(m, kind, k)
BY DEF LearnTypes, Says, Unsays, AddOf, RemoveOf, Kind

\* Notes do not change by themselves.
LEMMA NotesUnchanged ==
  ASSUME NotesOK,
         UNCHANGED <<dataRepository, uploadedKeys, subscribedKeys, nextGetRequestId, posts>>
  PROVE  NotesOK'
<1>1. ASSUME NEW r \in CloudMachine, NEW j \in CloudKey PROVE KeyNoted(r, j)'
  BY DEF NotesOK, KeyNoted
<1>. QED BY <1>1 DEF NotesOK

\* A message that says nothing of who has data is taken, and answered.
LEMMA TakesKeep ==
  ASSUME PartsOK, NEW s \in CloudMachine, NEW t \in CloudMachine, NEW reply, Takes(s, t, reply),
         unnoticed' = unnoticed, dataRepository' = dataRepository, remoteServers' = remoteServers,
         Head(wire[t][s]).type \notin LearnTypes, \A i \in 1 .. Len(reply) : reply[i].type \notin LearnTypes
  PROVE  KnownOK' /\ AllTold'
<1>1. WiresOK /\ AllTold /\ KnownOK
  BY DEF PartsOK
<1>2. \A r : Known(r)' = Known(r)
  BY DEF Known
<1>3. \A r, u, kind, k : Believed(r, u, kind, k)' <=> Believed(r, u, kind, k)
  BY BeliefsStay
<1>4. \A kind \in Kind, k \in CloudKey :
           /\ \A i \in 1 .. Len(reply) : ~Unsays(reply[i], kind, k)
           /\ ~Says(Head(wire[t][s]), kind, k)
  BY OthersSayNothing
<1>5. AllTold'
  BY <1>1, <1>2, <1>3, <1>4, TakesTell
<1>6. KnownOK'
  BY <1>1 DEF KnownOK, Known
<1>. QED BY <1>5, <1>6

\* The part of the invariant that messages of other servers can change.
Unchanged ==
  UNCHANGED <<attached, dataRepository, uploadedKeys, subscribedKeys, nextGetRequestId,
              unnoticed, posts, departures, missed>>

\* Queries that lose no message go on waiting for it, or for its answer.
LEMMA TakenWaits ==
  ASSUME PartsOK, NEW s \in CloudMachine, NEW t \in CloudMachine, NEW reply, Takes(s, t, reply),
         unnoticed' = unnoticed, nextGetRequestId' = nextGetRequestId,
         \A r \in CloudMachine : Known(r)' = Known(r),
         stranded \subseteq stranded',
         getRequests' \in [CloudMachine -> Seq(GetRequest)],
         \A r \in CloudMachine : Remains(getRequests'[r], getRequests[r]),
         \A id : IsFor(Head(wire[t][s]), "PROCESS_GET_REQUEST", id) =>
           id \in stranded' \/ \E j \in 1 .. Len(reply) : IsFor(reply[j], "PROCESS_GET_RESPONSE", id),
         \A id : IsFor(Head(wire[t][s]), "PROCESS_GET_RESPONSE", id) =>
           \/ id \in stranded'
           \/ \A i \in 1 .. Len(getRequests'[s]) :
                getRequests'[s][i].requestId = id => t \notin getRequests'[s][i].waiting
  PROVE  WaitsOK'
<1>1. WiresOK /\ WaitsOK /\ getRequests \in [CloudMachine -> Seq(GetRequest)] /\ KnownOK
  BY DEF PartsOK, ViewsOK
<1>2. ASSUME NEW r \in CloudMachine, NEW i \in 1 .. Len(getRequests'[r]), NEW u, NEW id,
             u \in getRequests'[r][i].waiting, id = getRequests'[r][i].requestId,
             id \notin stranded', u \in Known(r), WillEnd(r, u, id)
      PROVE  u \in Known(r)' /\ WillEnd(r, u, id)'
  <2>1. u \in CloudMachine /\ u \in Known(r)'
    BY <1>1, <1>2 DEF KnownOK
  <2>2. \/ WillEnd(r, u, id)'
        \/ r = t /\ u = s /\ IsFor(Head(wire[t][s]), "PROCESS_GET_REQUEST", id)
        \/ r = s /\ u = t /\ IsFor(Head(wire[t][s]), "PROCESS_GET_RESPONSE", id)
    BY <1>1, <1>2, <2>1, TakesWait
  <2>3. CASE r = t /\ u = s /\ IsFor(Head(wire[t][s]), "PROCESS_GET_REQUEST", id)
    <3>1. PICK j \in 1 .. Len(reply) : IsFor(reply[j], "PROCESS_GET_RESPONSE", id)
      BY <1>2, <2>3
    <3>2. wire'[s][t] = wire[s][t] \o reply /\ wire[s][t] \in Seq(CloudMessage) /\ reply \in Seq(CloudMessage)
      BY <1>1 DEF Takes, WiresOK
    <3> DEFINE q == wire[s][t]
    <3>3. q \in Seq(CloudMessage)
      BY <3>2
    <3> HIDE DEF q
    <3>4. Len(q) + j \in DOMAIN (q \o reply) /\ (q \o reply)[Len(q) + j] = reply[j]
      BY <3>2, <3>3, JoinedFacts
    <3>5. \E i2 \in DOMAIN wire'[s][t] : IsFor(wire'[s][t][i2], "PROCESS_GET_RESPONSE", id)
      BY <3>1, <3>2, <3>4 DEF q
    <3>. QED BY <2>1, <2>3, <3>5 DEF WillEnd, IsFor
  <2>4. CASE r = s /\ u = t /\ IsFor(Head(wire[t][s]), "PROCESS_GET_RESPONSE", id)
    BY <1>2, <2>4
  <2>. QED BY <2>1, <2>2, <2>3, <2>4
<1>. QED BY <1>1, <1>2, WaitsStay

\* The query of another server is answered: the answer takes the place of the question.
LEMMA OnServerToServerGetRequestKeeps ==
  ASSUME PartsOK, NEW s \in CloudMachine, NEW t \in CloudMachine, wire[t][s] # <<>>,
         OnServerToServerGetRequest(s, t, Head(wire[t][s])), Unchanged
  PROVE  PartsOK'
<1> DEFINE m == Head(wire[t][s])
           answer == [type |-> "PROCESS_GET_RESPONSE", requestId |-> m.requestId, key |-> m.key,
                      rows |-> RowsOf(s, m.key)]
<1>1. /\ m.type = "PROCESS_GET_REQUEST"
      /\ \/ /\ t \in Known(s) /\ wire' = [wire EXCEPT ![t][s] = Tail(@), ![s][t] = Append(@, answer)]
            /\ stranded' = stranded
         \/ /\ wire' = [wire EXCEPT ![t][s] = Tail(@)] /\ stranded' = stranded \cup {m.requestId}
      /\ UNCHANGED <<getRequests, view, remoteServers>>
  BY DEF OnServerToServerGetRequest
<1>2. /\ NotesOK /\ ViewsOK /\ WiresOK /\ unnoticed' = unnoticed /\ dataRepository' = dataRepository
      /\ nextGetRequestId' = nextGetRequestId
  BY DEF PartsOK, Unchanged
<1>3. m \in CloudMessage
  BY <1>2, TakesFacts
<1> HIDE DEF m, answer
<1>4. answer \in CloudMessage
  <2>1. m.key \in CloudKey /\ m.requestId \in 0 .. MaxGets - 1
    BY <1>1, <1>3, MessageFacts
  <2>2. RowsOf(s, m.key) \in Rows
    <3>1. posts \in 0 .. MaxPosts /\ nextGetRequestId \in 0 .. MaxGets
      BY <1>2 DEF NotesOK
    <3>2. NoRows \in Rows /\ NoList.keyData = NoRows
      BY <3>1, NewListFits
    <3>3. dataRepository[s][m.key].keyData \in Rows
      BY <1>2, <2>1, <3>2 DEF NotesOK, CloudDataList
    <3>. QED BY <3>2, <3>3 DEF RowsOf
  <2>. QED BY <2>1, <2>2, MessagesOf DEF answer
<1>5. PICK reply : /\ Takes(s, t, reply) /\ WiresOK'
                   /\ \A i \in 1 .. Len(reply) : reply[i].type \notin LearnTypes
                   /\ \/ stranded' = stranded \cup {m.requestId}
                      \/ /\ stranded' = stranded
                         /\ \E j \in 1 .. Len(reply) : IsFor(reply[j], "PROCESS_GET_RESPONSE", m.requestId)
  <2>1. CASE wire' = [wire EXCEPT ![t][s] = Tail(@), ![s][t] = Append(@, answer)] /\ stranded' = stranded
    <3>1. WiresOK' /\ Takes(s, t, <<answer>>)
      BY <1>2, <1>4, <2>1, TakesFacts
    <3>2. /\ answer.type \notin LearnTypes /\ IsFor(answer, "PROCESS_GET_RESPONSE", m.requestId)
      BY DEF answer, LearnTypes, IsFor
    <3>3. /\ 1 \in 1 .. Len(<<answer>>) /\ <<answer>>[1] = answer
          /\ \A i \in 1 .. Len(<<answer>>) : <<answer>>[i] = answer
      OBVIOUS
    <3>. QED BY <2>1, <3>1, <3>2, <3>3
  <2>2. CASE wire' = [wire EXCEPT ![t][s] = Tail(@)] /\ stranded' = stranded \cup {m.requestId}
    <3>1. WiresOK' /\ Takes(s, t, <<>>)
      BY <1>2, <2>2, TakesFacts
    <3>2. \A i \in 1 .. Len(<<>>) : FALSE
      OBVIOUS
    <3>. QED BY <2>2, <3>1, <3>2
  <2>. QED BY <1>1, <2>1, <2>2
<1>6. KnownOK' /\ AllTold'
  <2>1. Head(wire[t][s]).type \notin LearnTypes
    BY <1>1 DEF LearnTypes, m
  <2>. QED BY <1>1, <1>2, <1>5, <2>1, TakesKeep
<1>7. WaitsOK'
  <2>1. \A id : IsFor(Head(wire[t][s]), "PROCESS_GET_REQUEST", id) =>
          id \in stranded' \/ \E j \in 1 .. Len(reply) : IsFor(reply[j], "PROCESS_GET_RESPONSE", id)
    BY <1>5 DEF IsFor, m
  <2>2. \A id : ~IsFor(Head(wire[t][s]), "PROCESS_GET_RESPONSE", id)
    BY <1>1 DEF IsFor, m
  <2>3. \A r \in CloudMachine : Remains(getRequests'[r], getRequests[r])
    <3>1. \A r \in CloudMachine : Len(getRequests[r]) \in Nat
      BY <1>2 DEF ViewsOK
    <3>. QED BY <1>1, <3>1, RemainsItself
  <2>4. /\ getRequests' \in [CloudMachine -> Seq(GetRequest)] /\ stranded \subseteq stranded'
        /\ \A r \in CloudMachine : Known(r)' = Known(r)
    BY <1>1, <1>2, <1>5 DEF ViewsOK, Known
  <2>. QED BY <1>2, <1>5, <2>1, <2>2, <2>3, <2>4, TakenWaits
<1>8. NotesOK'
  BY <1>2, NotesUnchanged DEF Unchanged
<1>9. ViewsOK'
  BY <1>1, <1>2 DEF ViewsOK, Unchanged
<1>. QED BY <1>5, <1>6, <1>7, <1>8, <1>9 DEF PartsOK

\* What a server takes without an answer and without losing a query.
LEMMA TakesOnly ==
  ASSUME PartsOK, NEW s \in CloudMachine, NEW t \in CloudMachine, wire[t][s] # <<>>,
         wire' = [wire EXCEPT ![t][s] = Tail(@)], Unchanged, UNCHANGED <<getRequests, stranded>>,
         Head(wire[t][s]).type \in LearnTypes \cup {"DATA_CHANGED"},
         \A r \in CloudMachine : Known(r)' = Known(r)
  PROVE  NotesOK' /\ WiresOK' /\ Takes(s, t, <<>>) /\ WaitsOK'
<1>1. /\ NotesOK /\ ViewsOK /\ WiresOK /\ unnoticed' = unnoticed
      /\ nextGetRequestId' = nextGetRequestId
  BY DEF PartsOK, Unchanged
<1>2. WiresOK' /\ Takes(s, t, <<>>)
  BY <1>1, TakesFacts
<1>3. NotesOK'
  BY <1>1, NotesUnchanged DEF Unchanged
<1>4. WaitsOK'
  <2>1. \A id : /\ ~IsFor(Head(wire[t][s]), "PROCESS_GET_REQUEST", id)
                /\ ~IsFor(Head(wire[t][s]), "PROCESS_GET_RESPONSE", id)
    BY DEF IsFor, LearnTypes
  <2>2. \A r \in CloudMachine : Remains(getRequests'[r], getRequests[r])
    <3>1. \A r \in CloudMachine : Len(getRequests[r]) \in Nat
      BY <1>1 DEF ViewsOK
    <3>. QED BY <3>1, RemainsItself
  <2>3. getRequests' \in [CloudMachine -> Seq(GetRequest)] /\ stranded \subseteq stranded'
    BY <1>1 DEF ViewsOK
  <2>. QED BY <1>1, <1>2, <2>1, <2>2, <2>3, TakenWaits
<1>. QED BY <1>2, <1>3, <1>4

\* What another server says of its keys is believed.
LEMMA LearnKeeps ==
  ASSUME PartsOK, NEW s \in CloudMachine, NEW t \in CloudMachine, wire[t][s] # <<>>,
         Learn(s, t, Head(wire[t][s])), Unchanged
  PROVE  PartsOK'
<1> DEFINE m == Head(wire[t][s])
<1>1. /\ m.type \in LearnTypes
      /\ remoteServers' = IF t \in Known(s)
                          THEN [remoteServers EXCEPT ![s][t] = Learned(@, m)] ELSE remoteServers
      /\ wire' = [wire EXCEPT ![t][s] = Tail(@)]
      /\ UNCHANGED <<getRequests, view, stranded>>
  BY DEF Learn, LearnTypes
<1>2. /\ KnownOK /\ ViewsOK /\ WiresOK /\ AllTold /\ unnoticed' = unnoticed /\ dataRepository' = dataRepository
  BY DEF PartsOK, Unchanged
<1>3. m \in CloudMessage
  BY <1>2, TakesFacts
<1> DEFINE new == Learned(remoteServers[s][t], m)
<1> HIDE DEF m
<1>4. /\ t \in Known(s) => remoteServers[s][t] \in RemoteServer
      /\ \A r \in CloudMachine : remoteServers[r] \in [Known(r) -> RemoteServer]
      /\ DOMAIN remoteServers = CloudMachine
      /\ \A r \in CloudMachine : DOMAIN remoteServers[r] = Known(r)
  BY <1>2 DEF KnownOK, Known
<1>5. t \in Known(s) =>
        /\ new \in RemoteServer
        /\ \A kind \in Kind, k \in CloudKey :
             /\ Says(m, kind, k) => BelievedIn(new, kind, k)
             /\ BelievedIn(remoteServers[s][t], kind, k) /\ ~Unsays(m, kind, k) => BelievedIn(new, kind, k)
  BY <1>1, <1>3, <1>4, LearnedFacts
<1> HIDE DEF new
<1>6. /\ DOMAIN remoteServers' = CloudMachine
      /\ \A r \in CloudMachine : /\ Known(r)' = Known(r)
                                 /\ remoteServers'[r] \in [Known(r) -> RemoteServer]
      /\ \A r \in CloudMachine : \A u \in Known(r) :
           remoteServers'[r][u] = IF r = s /\ u = t THEN new ELSE remoteServers[r][u]
  <2>1. CASE t \in Known(s)
    <3>1. remoteServers' = [remoteServers EXCEPT ![s][t] = new]
      BY <1>1, <2>1 DEF new
    <3> DEFINE row == [remoteServers[s] EXCEPT ![t] = new]
    <3>2. remoteServers' = [remoteServers EXCEPT ![s] = row]
      BY <1>4, <3>1
    <3>3. /\ row \in [Known(s) -> RemoteServer] /\ row[t] = new
          /\ \A u \in Known(s) \ {t} : row[u] = remoteServers[s][u]
      BY <1>4, <1>5, <2>1
    <3> HIDE DEF row
    <3>4. /\ DOMAIN remoteServers' = CloudMachine /\ remoteServers'[s] = row
          /\ \A r \in CloudMachine \ {s} : remoteServers'[r] = remoteServers[r]
      BY <1>4, <3>2
    <3>5. \A r \in CloudMachine : remoteServers'[r] \in [Known(r) -> RemoteServer]
      BY <1>4, <3>3, <3>4
    <3>6. \A r \in CloudMachine : DOMAIN remoteServers'[r] = Known(r)
      BY <3>5
    <3>7. \A r \in CloudMachine : Known(r)' = Known(r)
      BY <3>6 DEF Known
    <3>. QED BY <3>3, <3>4, <3>5, <3>7
  <2>2. CASE t \notin Known(s)
    <3>1. remoteServers' = remoteServers
      BY <1>1, <2>2
    <3>. QED BY <1>4, <2>2, <3>1 DEF Known
  <2>. QED BY <2>1, <2>2
<1>7. NotesOK' /\ WiresOK' /\ Takes(s, t, <<>>) /\ WaitsOK'
  <2>1. Head(wire[t][s]).type \in LearnTypes
    BY <1>1 DEF m
  <2>. QED BY <1>1, <1>6, <2>1, TakesOnly
<1>8. KnownOK'
  <2>1. \A r \in CloudMachine : Known(r)' \subseteq CloudMachine \ {r}
    BY <1>2, <1>6 DEF KnownOK
  <2>2. \A r \in CloudMachine : (remoteServers[r] \in [Known(r) -> RemoteServer])'
    BY <1>6
  <2>. QED BY <1>2, <1>6, <2>1, <2>2 DEF KnownOK
<1>9. AllTold'
  <2>1. ASSUME NEW r \in CloudMachine, NEW u \in CloudMachine, NEW kind \in Kind, NEW k \in CloudKey
        PROVE  Believed(r, u, kind, k)' <=> u \in Known(r) /\ BelievedIn(remoteServers'[r][u], kind, k)
    <3>1. Believed(r, u, kind, k)' <=> u \in Known(r)' /\ BelievedIn(remoteServers[r][u], kind, k)'
      BY <2>1 DEF Believed, BelievedIn, GetServersWithUploadedKeys, SubscribedServers, Known
    <3>. QED BY <1>6, <3>1 DEF BelievedIn
  <2>2. \A r, u \in CloudMachine, kind \in Kind, k \in CloudKey :
          r # s \/ u # t => (Believed(r, u, kind, k)' <=> Believed(r, u, kind, k))
    BY <1>6, <2>1, BelievedFacts
  <2>3. \A kind \in Kind, k \in CloudKey :
          t \in Known(s) =>
            /\ Says(m, kind, k) => Believed(s, t, kind, k)'
            /\ Believed(s, t, kind, k) /\ ~Unsays(m, kind, k) => Believed(s, t, kind, k)'
    BY <1>5, <1>6, <2>1, BelievedFacts
  <2>4. \A kind \in Kind, k \in CloudKey : \A i \in 1 .. Len(<<>>) : ~Unsays(<<>>[i], kind, k)
    OBVIOUS
  <2>5. \A r \in CloudMachine : Known(r)' = Known(r)
    BY <1>6
  <2>. QED BY <1>2, <1>7, <2>2, <2>3, <2>4, <2>5, TakesTell DEF m
<1>10. ViewsOK'
  BY <1>1, <1>2 DEF ViewsOK, Unchanged
<1>. QED BY <1>7, <1>8, <1>9, <1>10 DEF PartsOK

\* The change at another server reaches the clients, and no note.
LEMMA OnServerDataChangedKeeps ==
  ASSUME PartsOK, NEW s \in CloudMachine, NEW t \in CloudMachine, wire[t][s] # <<>>,
         OnServerDataChanged(s, t, Head(wire[t][s])), Unchanged
  PROVE  PartsOK'
<1> DEFINE m == Head(wire[t][s])
<1>1. /\ m.type = "DATA_CHANGED"
      /\ \/ NotifyClientSubscribersOfDataChange(dataRepository[s][m.key].nonSpecificSubscribers,
                                                m.key, m.from, m.data)
         \/ view' = view
      /\ wire' = [wire EXCEPT ![t][s] = Tail(@)]
      /\ UNCHANGED <<getRequests, remoteServers, stranded>>
  BY DEF OnServerDataChanged
<1>2. /\ ViewsOK /\ WiresOK /\ unnoticed' = unnoticed /\ dataRepository' = dataRepository
  BY DEF PartsOK, Unchanged
<1>3. m \in CloudMessage
  BY <1>2, TakesFacts
<1> HIDE DEF m
<1>4. m.key \in CloudKey /\ m.from \in CloudUser /\ m.data \in 0 .. MaxPosts
  BY <1>1, <1>3, MessageFacts
<1>5. view' \in [CloudUser -> [CloudKey -> Rows]]
  BY <1>1, <1>2, <1>4, NotifyViewFacts DEF ViewsOK
<1>6. Head(wire[t][s]).type = "DATA_CHANGED"
  BY <1>1 DEF m
<1>7. NotesOK' /\ WiresOK' /\ Takes(s, t, <<>>) /\ WaitsOK'
  <2>1. \A r \in CloudMachine : Known(r)' = Known(r)
    BY <1>1 DEF Known
  <2>. QED BY <1>1, <1>6, <2>1, TakesOnly
<1>8. KnownOK' /\ AllTold'
  <2>1. Head(wire[t][s]).type \notin LearnTypes /\ \A i \in 1 .. Len(<<>>) : <<>>[i].type \notin LearnTypes
    BY <1>6 DEF LearnTypes
  <2>. QED BY <1>1, <1>2, <1>7, <2>1, TakesKeep
<1>9. ViewsOK'
  BY <1>1, <1>2, <1>5 DEF ViewsOK, Unchanged
<1>. QED BY <1>7, <1>8, <1>9 DEF PartsOK

\* Rows of two servers together are rows.
LEMMA MergedFacts ==
  ASSUME NEW r1 \in Rows, NEW r2 \in Rows PROVE Merged(r1, r2) \in Rows
BY DEF Merged, Rows

\* What a server has of a key are rows.
LEMMA RowsOfFacts ==
  ASSUME PartsOK, NEW s \in CloudMachine, NEW k \in CloudKey PROVE RowsOf(s, k) \in Rows
<1>1. posts \in 0 .. MaxPosts /\ nextGetRequestId \in 0 .. MaxGets
  BY DEF PartsOK, NotesOK
<1>2. NoRows \in Rows /\ NoList.keyData = NoRows
  BY <1>1, NewListFits
<1>3. dataRepository[s][k].keyData \in Rows
  BY <1>2 DEF PartsOK, NotesOK, CloudDataList
<1>. QED BY <1>2, <1>3 DEF RowsOf

\* Of several queries the last one is one of them.
LEMMA LastFacts ==
  ASSUME NEW list \in Seq(GetRequest), NEW S, S \subseteq 1 .. Len(list), S # {}
  PROVE  list[Max(S)] \in GetRequest
<1>1. Len(list) \in Nat
  OBVIOUS
<1> DEFINE m == Max(S)
<1>2. m \in S
  BY <1>1, LargestNumber
<1> HIDE DEF m
<1>3. \A i \in 1 .. Len(list) : list[i] \in GetRequest
  OBVIOUS
<1>4. list[m] \in GetRequest
  BY <1>2, <1>3
<1>. QED BY <1>4 DEF m

\* Clients are given data.
LEMMA TransmittedFacts ==
  ASSUME PartsOK, NEW list \in Seq(GetRequest)
  PROVE  Transmitted(list) \in [CloudUser -> [CloudKey -> Rows]]
<1>1. ASSUME NEW c \in CloudUser, NEW k \in CloudKey, NEW answered,
             answered = {i \in DOMAIN list :
                           list[i].waiting = {} /\ list[i].requestingClient = c /\ list[i].key = k}
      PROVE  (IF c \notin attached \/ answered = {} THEN view[c][k]
              ELSE Merged(RowsOf(ServerOf[c], k), list[Max(answered)].rows)) \in Rows
  <2>1. view[c][k] \in Rows
    BY DEF PartsOK, ViewsOK
  <2>2. CASE answered = {}
    BY <2>1, <2>2
  <2>3. CASE answered # {}
    <3>1. answered \subseteq 1 .. Len(list)
      BY <1>1
    <3>3. list[Max(answered)] \in GetRequest
      BY <2>3, <3>1, LastFacts
    <3>4. list[Max(answered)].rows \in Rows
      BY <3>3 DEF GetRequest
    <3>5. RowsOf(ServerOf[c], k) \in Rows
      BY CloudFacts, RowsOfFacts
    <3>. QED BY <2>1, <3>4, <3>5, MergedFacts
  <2>. QED BY <2>2, <2>3
<1>2. \A c \in CloudUser, k \in CloudKey :
        LET answered == {i \in DOMAIN list :
                           list[i].waiting = {} /\ list[i].requestingClient = c /\ list[i].key = k}
        IN (IF c \notin attached \/ answered = {} THEN view[c][k]
            ELSE Merged(RowsOf(ServerOf[c], k), list[Max(answered)].rows)) \in Rows
  BY <1>1
<1> DEFINE Given(c, k) ==
             LET answered == {i \in DOMAIN list :
                                list[i].waiting = {} /\ list[i].requestingClient = c /\ list[i].key = k}
             IN IF c \notin attached \/ answered = {} THEN view[c][k]
                ELSE Merged(RowsOf(ServerOf[c], k), list[Max(answered)].rows)
<1>3. Transmitted(list) = [c \in CloudUser |-> [k \in CloudKey |-> Given(c, k)]]
  BY DEF Transmitted
<1>4. \A c \in CloudUser, k \in CloudKey : Given(c, k) \in Rows
  BY <1>2
<1> HIDE DEF Given
<1>. QED BY <1>3, <1>4

\* An answer is added to one query.
LEMMA WithResponseFacts ==
  ASSUME NEW list \in Seq(GetRequest), NEW i \in 1 .. Len(list), NEW t, NEW rows \in Rows
  PROVE  /\ WithResponse(list, i, t, rows) \in Seq(GetRequest)
         /\ Len(WithResponse(list, i, t, rows)) = Len(list)
         /\ \A j \in 1 .. Len(list) :
              /\ WithResponse(list, i, t, rows)[j].requestId = list[j].requestId
              /\ WithResponse(list, i, t, rows)[j].waiting \subseteq list[j].waiting
         /\ t \notin WithResponse(list, i, t, rows)[i].waiting
<1> DEFINE r == list[i]
           new == [r EXCEPT !.waiting = @ \ {t}, !.rows = Merged(@, rows)]
           with == [list EXCEPT ![i] = new]
<1>1. r \in GetRequest
  OBVIOUS
<1>2. /\ r.requestId \in 0 .. MaxGets - 1 /\ r.key \in CloudKey /\ r.requestingClient \in CloudUser
      /\ r.waiting \subseteq CloudMachine /\ r.rows \in Rows
  BY <1>1 DEF GetRequest
<1>3. Merged(r.rows, rows) \in Rows
  BY <1>2, MergedFacts
<1>4. /\ new \in GetRequest /\ new.requestId = r.requestId /\ new.waiting = r.waiting \ {t}
  BY <1>1, <1>2, <1>3 DEF GetRequest
<1>5. WithResponse(list, i, t, rows) = with
  BY <1>1 DEF WithResponse, GetRequest
<1> HIDE DEF new
<1>6. /\ with \in Seq(GetRequest) /\ Len(with) = Len(list) /\ with[i] = new
      /\ \A j \in 1 .. Len(list) : j # i => with[j] = list[j]
  BY <1>4
<1> HIDE DEF with
<1>7. \A j \in 1 .. Len(list) : with[j].requestId = list[j].requestId /\ with[j].waiting \subseteq list[j].waiting
  BY <1>4, <1>6
<1>. QED BY <1>4, <1>5, <1>6, <1>7

\* What is complete is no more among the queries.
LEMMA IncompleteRemains ==
  ASSUME NEW long \in Seq(GetRequest), NEW list \in Seq(GetRequest), Len(list) = Len(long),
         \A j \in 1 .. Len(long) : list[j].requestId = long[j].requestId /\ list[j].waiting \subseteq long[j].waiting
  PROVE  /\ Incomplete(list) \in Seq(GetRequest) /\ Remains(Incomplete(list), long)
         /\ \A i \in 1 .. Len(Incomplete(list)) : \E j \in 1 .. Len(list) : Incomplete(list)[i] = list[j]
<1> DEFINE short == Incomplete(list)
<1>1. short \in Seq(GetRequest)
  BY IncompleteFacts
<1>2. PICK at \in [1 .. Len(short) -> 1 .. Len(list)] :
        /\ \A i \in 1 .. Len(short) : short[i] = list[at[i]]
        /\ \A i, j \in 1 .. Len(short) : at[i] = at[j] => i = j
  BY IncompleteFacts
<1> HIDE DEF short
<1>3. at \in [1 .. Len(short) -> 1 .. Len(long)]
  BY <1>2
<1>4. \A i \in 1 .. Len(short) : /\ at[i] \in 1 .. Len(list) /\ short[i].requestId = long[at[i]].requestId
                                 /\ short[i].waiting \subseteq long[at[i]].waiting
  BY <1>2, <1>3
<1>5. Remains(short, long)
  BY <1>2, <1>3, <1>4 DEF Remains
<1>. QED BY <1>1, <1>2, <1>4, <1>5 DEF short

\* A query that is found has the number looked for.
LEMMA FoundFacts ==
  ASSUME NEW list \in Seq(GetRequest), NEW id, NEW i \in FoundRequest(list, id)
  PROVE  i \in 1 .. Len(list) /\ list[i].requestId = id
<1>1. Probed(list) \subseteq DOMAIN list
  BY Zenon DEF Probed
<1>. QED BY <1>1 DEF FoundRequest

\* An answer: the query that it is for waits for one server less.
LEMMA OnServerToServerGetResponseKeeps ==
  ASSUME PartsOK, NEW s \in CloudMachine, NEW t \in CloudMachine, wire[t][s] # <<>>,
         OnServerToServerGetResponse(s, t, Head(wire[t][s])), Unchanged
  PROVE  PartsOK'
<1> DEFINE m == Head(wire[t][s])
           long == getRequests[s]
           found == FoundRequest(long, m.requestId)
           i == CHOOSE j \in found : TRUE
           list == WithResponse(long, i, t, m.rows)
<1>1. /\ m.type = "PROCESS_GET_RESPONSE"
      /\ \/ /\ found # {} /\ t \in long[i].waiting
            /\ view' = Transmitted(list)
            /\ getRequests' = [getRequests EXCEPT ![s] = Incomplete(list)]
            /\ stranded' = stranded
         \/ stranded' = stranded \cup {m.requestId} /\ UNCHANGED <<view, getRequests>>
      /\ wire' = [wire EXCEPT ![t][s] = Tail(@)]
      /\ UNCHANGED remoteServers
  BY DEF OnServerToServerGetResponse
<1>2. /\ NotesOK /\ ViewsOK /\ WiresOK /\ WaitsOK /\ unnoticed' = unnoticed /\ dataRepository' = dataRepository
      /\ nextGetRequestId' = nextGetRequestId
      /\ getRequests \in [CloudMachine -> Seq(GetRequest)]
  BY DEF PartsOK, Unchanged, ViewsOK
<1>3. m \in CloudMessage
  BY <1>2, TakesFacts
<1> HIDE DEF m
<1>4. m.rows \in Rows
  BY <1>1, <1>3, MessageFacts
<1>5. long \in Seq(GetRequest)
  BY <1>2
<1>6. found # {} => i \in 1 .. Len(long) /\ long[i].requestId = m.requestId
  <2>1. found # {} => i \in found
    OBVIOUS
  <2> HIDE DEF i
  <2>. QED BY <1>5, <2>1, FoundFacts
<1> HIDE DEF i, found, long
<1>7. found # {} =>
        /\ list \in Seq(GetRequest) /\ Len(list) = Len(long)
        /\ \A j \in 1 .. Len(long) : list[j].requestId = long[j].requestId /\ list[j].waiting \subseteq long[j].waiting
        /\ t \notin list[i].waiting
  BY <1>4, <1>5, <1>6, WithResponseFacts
<1> HIDE DEF list
<1>8. found # {} =>
        /\ Incomplete(list) \in Seq(GetRequest) /\ Remains(Incomplete(list), long)
        /\ \A n \in 1 .. Len(Incomplete(list)) : \E j \in 1 .. Len(list) : Incomplete(list)[n] = list[j]
        /\ Transmitted(list) \in [CloudUser -> [CloudKey -> Rows]]
  <2>1. SUFFICES ASSUME found # {} 
        PROVE /\ Incomplete(list) \in Seq(GetRequest) /\ Remains(Incomplete(list), long)
              /\ \A n \in 1 .. Len(Incomplete(list)) : \E j \in 1 .. Len(list) : Incomplete(list)[n] = list[j]
              /\ Transmitted(list) \in [CloudUser -> [CloudKey -> Rows]]
    OBVIOUS
  <2>2. /\ list \in Seq(GetRequest) /\ Len(list) = Len(long)
        /\ \A j \in 1 .. Len(long) : list[j].requestId = long[j].requestId /\ list[j].waiting \subseteq long[j].waiting
    BY <1>7, <2>1
  <2>3. Transmitted(list) \in [CloudUser -> [CloudKey -> Rows]]
    BY <2>2, TransmittedFacts
  <2>. QED BY <1>5, <2>2, <2>3, IncompleteRemains
<1>9. WiresOK' /\ Takes(s, t, <<>>)
  BY <1>1, <1>2, TakesFacts
<1>10. KnownOK' /\ AllTold'
  <2>1. Head(wire[t][s]).type \notin LearnTypes /\ \A n \in 1 .. Len(<<>>) : <<>>[n].type \notin LearnTypes
    BY <1>1 DEF LearnTypes, m
  <2>. QED BY <1>1, <1>2, <1>9, <2>1, TakesKeep
<1>11. \A r \in CloudMachine : Remains(getRequests[r], getRequests[r])
  <2>1. \A r \in CloudMachine : Len(getRequests[r]) \in Nat
    BY <1>2
  <2>. QED BY <2>1, RemainsItself
<1>12. \A r \in CloudMachine : Known(r)' = Known(r)
  BY <1>1 DEF Known
<1>13. \A id : /\ ~IsFor(Head(wire[t][s]), "PROCESS_GET_REQUEST", id)
               /\ IsFor(Head(wire[t][s]), "PROCESS_GET_RESPONSE", id) => id = m.requestId
  BY <1>1 DEF IsFor, m
<1>14. /\ WaitsOK' /\ getRequests' \in [CloudMachine -> Seq(GetRequest)]
       /\ view' \in [CloudUser -> [CloudKey -> Rows]]
  <2>1. CASE /\ found # {} /\ t \in long[i].waiting
             /\ view' = Transmitted(list)
             /\ getRequests' = [getRequests EXCEPT ![s] = Incomplete(list)]
             /\ stranded' = stranded
    <3>1. /\ getRequests' \in [CloudMachine -> Seq(GetRequest)] /\ getRequests'[s] = Incomplete(list)
          /\ \A r \in CloudMachine \ {s} : getRequests'[r] = getRequests[r]
      BY <1>2, <1>8, <2>1
    <3>2. \A r \in CloudMachine : Remains(getRequests'[r], getRequests[r])
      BY <1>8, <1>11, <2>1, <3>1 DEF long
    <3>3. \A n \in 1 .. Len(getRequests'[s]) :
            getRequests'[s][n].requestId = m.requestId => t \notin getRequests'[s][n].waiting
      <4>1. SUFFICES ASSUME NEW n \in 1 .. Len(Incomplete(list)), Incomplete(list)[n].requestId = m.requestId
                     PROVE  t \notin Incomplete(list)[n].waiting
        BY <3>1
      <4>2. PICK j \in 1 .. Len(list) : Incomplete(list)[n] = list[j]
        BY <1>8, <2>1
      <4>3. j \in DOMAIN long /\ i \in DOMAIN long /\ long[j].requestId = long[i].requestId
        BY <1>5, <1>6, <1>7, <2>1, <4>1, <4>2
      <4>4. j = i
        BY <1>2, <4>3 DEF WaitsOK, RequestsWait, long
      <4>. QED BY <1>7, <2>1, <4>2, <4>4
    <3>4. WaitsOK'
      BY <1>2, <1>9, <1>12, <1>13, <2>1, <3>1, <3>2, <3>3, TakenWaits
    <3>. QED BY <1>8, <2>1, <3>1, <3>4
  <2>2. CASE stranded' = stranded \cup {m.requestId} /\ UNCHANGED <<view, getRequests>>
    <3>1. WaitsOK'
      BY <1>2, <1>9, <1>11, <1>12, <1>13, <2>2, TakenWaits
    <3>. QED BY <1>2, <2>2, <3>1 DEF ViewsOK
  <2>. QED BY <1>1, <2>1, <2>2
<1>15. NotesOK'
  BY <1>2, NotesUnchanged DEF Unchanged
<1>16. ViewsOK'
  BY <1>2, <1>14 DEF ViewsOK, Unchanged
<1>. QED BY <1>9, <1>10, <1>14, <1>15, <1>16 DEF PartsOK

\* Whatever message of another server is handled.
LEMMA OnServerToServerCommandKeeps ==
  ASSUME PartsOK, NEW s \in CloudMachine, NEW t \in CloudMachine, OnServerToServerCommand(s, t)
  PROVE  PartsOK'
<1>1. /\ wire[t][s] # <<>> /\ Unchanged
      /\ \/ OnServerToServerGetRequest(s, t, Head(wire[t][s]))
         \/ OnServerToServerGetResponse(s, t, Head(wire[t][s]))
         \/ Learn(s, t, Head(wire[t][s])) \/ OnServerDataChanged(s, t, Head(wire[t][s]))
  BY DEF OnServerToServerCommand, Unchanged
<1>. QED BY <1>1, OnServerToServerGetRequestKeeps, OnServerToServerGetResponseKeeps, LearnKeeps,
            OnServerDataChangedKeeps

-----------------------------------------------------------------------------
(* What connects servers and what parts them *)

\* It is enough that of each key with data or subscribers a message is right.
LEMMA ToldAre ==
  ASSUME \A t, r \in CloudMachine, k \in CloudKey, kind \in Kind :
           t \in Known(r)' /\ ~Apart(t, r)' /\ CountIn(dataRepository'[r][k], kind) > 0 =>
             \A b : (b <=> (r \in Known(t)' => Believed(t, r, kind, k)')) => Arrives(wire'[r][t], kind, k, b)
  PROVE  AllTold'
<1>1. ASSUME NEW t \in CloudMachine, NEW r \in CloudMachine PROVE KeysAreTold(t, r)'
  <2>1. ASSUME (t \in Known(r))', ~Apart(t, r)', NEW k \in CloudKey, NEW kind \in Kind,
               CountIn(dataRepository[r][k], kind)' > 0
        PROVE  Arrives(wire[r][t], kind, k, r \in Known(t) => Believed(t, r, kind, k))'
    <3>1. CountIn(dataRepository'[r][k], kind) > 0
      BY <2>1 DEF CountIn
    <3> DEFINE b == r \in Known(t)' => Believed(t, r, kind, k)'
    <3>2. Arrives(wire'[r][t], kind, k, b)
      BY <2>1, <3>1
    <3>. QED BY <3>2 DEF Arrives, Says, Unsays
  <2>. QED BY <2>1 DEF KeysAreTold
<1>. QED BY <1>1 DEF AllTold

\* Beliefs that are given up or are about lost connections do not matter.
LEMMA ForgottenTell ==
  ASSUME AllTold, dataRepository' = dataRepository,
         \A t, r \in CloudMachine : r \in Known(t)' =>
           r \in Known(t) /\ remoteServers'[t][r] = remoteServers[t][r],
         \A t, r \in CloudMachine : t \in Known(r)' /\ ~Apart(t, r)' =>
           ~Apart(t, r) /\ wire'[r][t] = wire[r][t]
  PROVE  AllTold'
<1>1. ASSUME NEW t \in CloudMachine, NEW r \in CloudMachine, NEW k \in CloudKey, NEW kind \in Kind,
             t \in Known(r)', ~Apart(t, r)', CountIn(dataRepository'[r][k], kind) > 0,
             NEW b, b <=> (r \in Known(t)' => Believed(t, r, kind, k)')
      PROVE  Arrives(wire'[r][t], kind, k, b)
  <2> DEFINE a == r \in Known(t) => Believed(t, r, kind, k)
  <2>1. t \in Known(r) /\ ~Apart(t, r) /\ wire'[r][t] = wire[r][t]
    BY <1>1
  <2>2. Arrives(wire[r][t], kind, k, a)
    BY <1>1, <2>1 DEF AllTold, KeysAreTold
  <2>3. a => b
    <3>1. ASSUME r \in Known(t)', Believed(t, r, kind, k) PROVE Believed(t, r, kind, k)'
      <4>1. remoteServers'[t][r] = remoteServers[t][r]
        BY <3>1
      <4>. QED BY <3>1, <4>1 DEF Believed, GetServersWithUploadedKeys, SubscribedServers
    <3>. QED BY <1>1, <3>1
  <2> HIDE DEF a
  <2>. QED BY <2>1, <2>2, <2>3 DEF Arrives
<1>. QED BY <1>1, ToldAre

\* A server that is added is sent everything, and believed to have everything.
LEMMA AddedFacts ==
  ASSUME KnownOK, NEW s \in CloudMachine, NEW t \in CloudMachine, s # t, t \notin Known(s),
         remoteServers' = [remoteServers EXCEPT ![s] =
           [x \in DOMAIN @ \cup {t} |-> IF x = t THEN NewServer ELSE @[x]]]
  PROVE  /\ DOMAIN remoteServers' = CloudMachine
         /\ Known(s)' = Known(s) \cup {t} /\ \A r \in CloudMachine \ {s} : Known(r)' = Known(r)
         /\ remoteServers'[s][t] = NewServer
         /\ \A r \in CloudMachine : \A u \in Known(r) : remoteServers'[r][u] = remoteServers[r][u]
         /\ \A r \in CloudMachine : remoteServers'[r] \in [Known(r)' -> RemoteServer]
<1> DEFINE new == [x \in Known(s) \cup {t} |-> IF x = t THEN NewServer ELSE remoteServers[s][x]]
<1>1. DOMAIN remoteServers = CloudMachine
  BY DEF KnownOK
<1>2. remoteServers' = [remoteServers EXCEPT ![s] = new]
  BY <1>1 DEF Known
<1>3. DOMAIN new = Known(s) \cup {t} /\ new[t] = NewServer /\ \A x \in Known(s) : new[x] = remoteServers[s][x]
  OBVIOUS
<1> HIDE DEF new
<1>4. /\ DOMAIN remoteServers' = CloudMachine /\ remoteServers'[s] = new
      /\ \A r \in CloudMachine \ {s} : remoteServers'[r] = remoteServers[r]
  BY <1>1, <1>2
<1>5. Known(s)' = Known(s) \cup {t} /\ \A r \in CloudMachine \ {s} : Known(r)' = Known(r)
  BY <1>3, <1>4 DEF Known
<1>6. remoteServers'[s] \in [Known(s)' -> RemoteServer]
  <2>1. remoteServers[s] \in [Known(s) -> RemoteServer] /\ NewServer \in RemoteServer
    BY DEF KnownOK, NewServer, RemoteServer
  <2>2. new \in [Known(s) \cup {t} -> RemoteServer]
    BY <2>1 DEF new
  <2>. QED BY <1>4, <1>5, <2>2
<1>7. \A r \in CloudMachine \ {s} : remoteServers'[r] \in [Known(r)' -> RemoteServer]
  BY <1>4, <1>5 DEF KnownOK
<1>. QED BY <1>3, <1>4, <1>5, <1>6, <1>7

\* A server that is added is told of every key with data or subscribers at once.
LEMMA AddServerKeeps ==
  ASSUME PartsOK, NEW s \in CloudMachine, NEW t \in CloudMachine, AddServer(s, t)
  PROVE  PartsOK'
<1> DEFINE uploaded == {k \in CloudKey : dataRepository[s][k] # NoList}
           subscribed == {k \in uploaded : dataRepository[s][k].subscriberCount > 0}
           m == [type |-> "ADD_UPLOADED_AND_SUBSCRIBED_KEYS", uploaded |-> uploaded, subscribed |-> subscribed]
           f == SendTo(s, IF uploaded = {} THEN {} ELSE {t}, <<m>>)
<1>1. /\ s # t /\ t \notin Known(s) /\ <<s, t>> \notin unnoticed /\ <<t, s>> \notin unnoticed
      /\ remoteServers' = [remoteServers EXCEPT ![s] =
           [x \in DOMAIN @ \cup {t} |-> IF x = t THEN NewServer ELSE @[x]]]
      /\ SendAll(s, f)
      /\ missed' = missed \cup AllSubscriptions
      /\ UNCHANGED <<attached, dataRepository, uploadedKeys, subscribedKeys, getRequests,
                     nextGetRequestId, unnoticed, posts, departures, view, stranded>>
  BY DEF AddServer
<1>2. m \in CloudMessage
  BY DEF CloudMessage
<1>3. /\ uploaded \subseteq CloudKey
      /\ \A k \in CloudKey : dataRepository[s][k] # NoList => k \in uploaded
      /\ \A k \in uploaded : dataRepository[s][k].subscriberCount > 0 => k \in subscribed
      /\ m.type = "ADD_UPLOADED_AND_SUBSCRIBED_KEYS" /\ m.uploaded = uploaded /\ m.subscribed = subscribed
  OBVIOUS
<1> HIDE DEF uploaded, subscribed, m
<1>4. /\ f \in Outgoing /\ \A r \in CloudMachine :
           f[r] = IF r = t /\ uploaded # {} THEN <<m>> ELSE <<>>
  BY <1>2 DEF SendTo, Outgoing
<1> HIDE DEF f
<1>5. /\ NotesOK /\ KnownOK /\ ViewsOK /\ WiresOK /\ AllTold /\ WaitsOK
      /\ posts \in 0 .. MaxPosts /\ nextGetRequestId \in 0 .. MaxGets
  BY DEF PartsOK, NotesOK
<1>6. WiresOK' /\ Sends(s, f)
  BY <1>1, <1>4, <1>5, SendAllFacts
<1>7. /\ DOMAIN remoteServers' = CloudMachine
      /\ Known(s)' = Known(s) \cup {t} /\ \A r \in CloudMachine \ {s} : Known(r)' = Known(r)
      /\ remoteServers'[s][t] = NewServer
      /\ \A r \in CloudMachine : \A u \in Known(r) : remoteServers'[r][u] = remoteServers[r][u]
      /\ \A r \in CloudMachine : remoteServers'[r] \in [Known(r)' -> RemoteServer]
  BY <1>1, <1>5, AddedFacts
<1>8. NotesOK'
  BY <1>1, <1>5, NotesUnchanged
<1>9. KnownOK'
  <2>1. \A r \in CloudMachine : Known(r)' \subseteq CloudMachine \ {r}
    BY <1>1, <1>5, <1>7 DEF KnownOK
  <2>2. \A r, u \in CloudMachine : <<r, u>> \in unnoticed' /\ r \in Known(u)' => <<u, r>> \in unnoticed'
    <3>1. ASSUME NEW r \in CloudMachine, NEW u \in CloudMachine, <<r, u>> \in unnoticed', r \in Known(u)'
          PROVE  <<u, r>> \in unnoticed'
      <4>1. unnoticed' = unnoticed /\ <<t, s>> \notin unnoticed
        BY <1>1
      <4>2. ~(r = t /\ u = s)
        BY <3>1, <4>1
      <4>3. r \in Known(u)
        BY <1>7, <3>1, <4>2
      <4>. QED BY <1>5, <3>1, <4>1, <4>3 DEF KnownOK
    <3>. QED BY <3>1
  <2>3. unnoticed' \subseteq CloudMachine \X CloudMachine
    BY <1>1, <1>5 DEF KnownOK
  <2>. QED BY <1>7, <2>1, <2>2, <2>3 DEF KnownOK
<1>10. ViewsOK'
  <2>1. AllSubscriptions \subseteq CloudUser \X CloudKey \X {"between", "apart"}
    BY DEF AllSubscriptions
  <2>. QED BY <1>1, <1>5, <2>1 DEF ViewsOK
<1>11. WaitsOK'
  <2>1. \A r, u \in CloudMachine : \A id : WillEnd(r, u, id) => WillEnd(r, u, id)'
    BY <1>1, <1>5, <1>6, SendsWait
  <2>2. \A r \in CloudMachine : Remains(getRequests'[r], getRequests[r])
    <3>1. \A r \in CloudMachine : Len(getRequests[r]) \in Nat
      BY <1>5 DEF ViewsOK
    <3>. QED BY <1>1, <3>1, RemainsItself
  <2>3. \A r \in CloudMachine : Known(r) \subseteq Known(r)' /\ Known(r) \subseteq CloudMachine
    BY <1>5, <1>7 DEF KnownOK
  <2>4. /\ getRequests \in [CloudMachine -> Seq(GetRequest)] /\ getRequests' \in [CloudMachine -> Seq(GetRequest)]
        /\ stranded \subseteq stranded' /\ nextGetRequestId' = nextGetRequestId
    BY <1>1, <1>5 DEF ViewsOK
  <2>5. \A r \in CloudMachine : \A i \in 1 .. Len(getRequests'[r]) : \A u, id :
          /\ u \in getRequests'[r][i].waiting /\ id = getRequests'[r][i].requestId
          /\ id \notin stranded' /\ u \in Known(r) /\ WillEnd(r, u, id)
          => u \in Known(r)' /\ WillEnd(r, u, id)'
    BY <2>1, <2>3
  <2>. QED BY <1>5, <2>2, <2>4, <2>5, WaitsStay
<1>12. \A r, u \in CloudMachine, kind \in Kind, k \in CloudKey :
         (u \in Known(r) => Believed(r, u, kind, k)) => (u \in Known(r)' => Believed(r, u, kind, k)')
  <2>1. ASSUME NEW r \in CloudMachine, NEW u \in CloudMachine, NEW kind \in Kind, NEW k \in CloudKey,
               u \in Known(r) => Believed(r, u, kind, k), u \in Known(r)'
        PROVE  Believed(r, u, kind, k)'
    <3>1. CASE u \in Known(r)
      <4>1. remoteServers'[r][u] = remoteServers[r][u]
        BY <1>7, <3>1
      <4>. QED BY <2>1, <3>1, <4>1 DEF Believed, GetServersWithUploadedKeys, SubscribedServers
    <3>2. CASE u \notin Known(r)
      <4>1. r = s /\ u = t
        BY <1>7, <2>1, <3>2
      <4>2. ~remoteServers'[r][u].gotSubscribedAndUploadedKeys
        BY <1>7, <4>1 DEF NewServer
      <4>. QED BY <2>1, <4>2 DEF Believed, GetServersWithUploadedKeys, SubscribedServers
    <3>. QED BY <3>1, <3>2
  <2>. QED BY <2>1
<1>13. AllTold'
  <2>1. ASSUME NEW u \in CloudMachine, NEW r \in CloudMachine, NEW k \in CloudKey, NEW kind \in Kind,
               u \in Known(r)', ~Apart(u, r)', CountIn(dataRepository'[r][k], kind) > 0,
               NEW b, b <=> (r \in Known(u)' => Believed(u, r, kind, k)')
        PROVE  Arrives(wire'[r][u], kind, k, b)
    <3> DEFINE a == r \in Known(u) => Believed(u, r, kind, k)
    <3>1. a => b
      BY <1>12, <2>1
    <3>2. ~Apart(u, r) /\ ~Apart(r, u) /\ CountIn(dataRepository[r][k], kind) > 0
      BY <1>1, <2>1 DEF Apart
    <3>3. wire[r][u] \in Seq(CloudMessage) /\ f[u] \in Seq(CloudMessage)
      BY <1>4, <1>5 DEF WiresOK, Outgoing
    <3>4. CASE u \in Known(r)
      <4>1. Arrives(wire[r][u], kind, k, a)
        BY <2>1, <3>2, <3>4, <1>5 DEF AllTold, KeysAreTold
      <4>2. wire'[r][u] = wire[r][u]
        <5>1. CASE r # s
          BY <1>6, <5>1 DEF Sends
        <5>2. CASE r = s
          <6>1. f[u] = <<>>
            BY <1>1, <1>4, <3>4, <5>2
          <6>2. wire'[r][u] = wire[r][u] \o <<>>
            BY <1>6, <3>2, <5>2, <6>1 DEF Sends
          <6>. QED BY <3>3, <6>2
        <5>. QED BY <5>1, <5>2
      <4> HIDE DEF a
      <4>. QED BY <3>1, <4>1, <4>2 DEF Arrives
    <3>5. CASE u \notin Known(r)
      <4>1. r = s /\ u = t
        BY <1>7, <2>1, <3>5
      <4>2. dataRepository[s][k] # NoList /\ k \in uploaded
        <5>1. NoList.uploaderCount = -1 /\ NoList.subscriberCount = -1
          BY DEF NoList
        <5>2. dataRepository[s][k] # NoList
          BY <3>2, <4>1, <5>1 DEF CountIn
        <5>. QED BY <1>3, <5>2
      <4>3. f[u] = <<m>> /\ uploaded # {}
        BY <1>4, <4>1, <4>2
      <4>4. Says(m, kind, k) /\ ~Unsays(m, kind, k)
        <5>1. k \in KeysIn(m, kind)
          BY <1>3, <3>2, <4>1, <4>2 DEF KeysIn, CountIn
        <5>. QED BY <1>3, <5>1 DEF Says, Unsays, RemoveOf
      <4>5. wire'[r][u] = wire[r][u] \o f[u]
        BY <1>6, <3>2, <4>1 DEF Sends
      <4> DEFINE g == f[u]
      <4>6. g \in Seq(CloudMessage) /\ 1 \in 1 .. Len(g) /\ g[1] = m /\ \A i \in 1 .. Len(g) : g[i] = m
        BY <3>3, <4>3
      <4> HIDE DEF g
      <4>7. Says(g[1], kind, k) /\ \A i \in 1 .. Len(g) : i >= 1 => ~Unsays(g[i], kind, k)
        BY <4>4, <4>6
      <4>8. Arrives(wire[r][u] \o g, kind, k, b)
        BY <3>3, <4>6, <4>7, SaidArrives
      <4>. QED BY <4>5, <4>8 DEF g
    <3>. QED BY <3>4, <3>5
  <2>. QED BY <2>1, ToldAre
<1>. QED BY <1>6, <1>8, <1>9, <1>10, <1>11, <1>13 DEF PartsOK

\* A server that is forgotten is not known, and the others are known as before.
LEMMA ForgetFacts ==
  ASSUME KnownOK, NEW s \in CloudMachine, NEW t, Forget(s, t)
  PROVE  /\ DOMAIN remoteServers' = CloudMachine
         /\ Known(s)' = Known(s) \ {t} /\ \A r \in CloudMachine \ {s} : Known(r)' = Known(r)
         /\ \A r, u \in CloudMachine : u \in Known(r)' =>
              u \in Known(r) /\ remoteServers'[r][u] = remoteServers[r][u]
         /\ \A r \in CloudMachine : remoteServers'[r] \in [Known(r)' -> RemoteServer]
<1> DEFINE new == [x \in Known(s) \ {t} |-> remoteServers[s][x]]
<1>1. DOMAIN remoteServers = CloudMachine
  BY DEF KnownOK
<1>2. remoteServers' = [remoteServers EXCEPT ![s] = new]
  BY <1>1 DEF Forget, Known
<1>3. DOMAIN new = Known(s) \ {t} /\ \A x \in Known(s) \ {t} : new[x] = remoteServers[s][x]
  OBVIOUS
<1>4. new \in [Known(s) \ {t} -> RemoteServer]
  BY DEF KnownOK
<1> HIDE DEF new
<1>5. /\ DOMAIN remoteServers' = CloudMachine /\ remoteServers'[s] = new
      /\ \A r \in CloudMachine \ {s} : remoteServers'[r] = remoteServers[r]
  BY <1>1, <1>2
<1>6. Known(s)' = Known(s) \ {t} /\ \A r \in CloudMachine \ {s} : Known(r)' = Known(r)
  BY <1>3, <1>5 DEF Known
<1>7. \A r, u \in CloudMachine : u \in Known(r)' => u \in Known(r) /\ remoteServers'[r][u] = remoteServers[r][u]
  BY <1>3, <1>5, <1>6
<1>8. remoteServers'[s] \in [Known(s)' -> RemoteServer]
  BY <1>4, <1>5, <1>6
<1>9. \A r \in CloudMachine \ {s} : remoteServers'[r] \in [Known(r)' -> RemoteServer]
  BY <1>5, <1>6 DEF KnownOK
<1>. QED BY <1>5, <1>6, <1>7, <1>8, <1>9

\* Subscriptions that a loss may pass by are subscriptions.
LEMMA AllSubscriptionsFacts ==
  AllSubscriptions \subseteq CloudUser \X CloudKey \X {"between", "apart"}
BY DEF AllSubscriptions

\* All queries remain as they are.
LEMMA AllRemain ==
  ASSUME ViewsOK, getRequests' = getRequests
  PROVE  \A r \in CloudMachine : Remains(getRequests'[r], getRequests[r])
<1>1. \A r \in CloudMachine : Len(getRequests[r]) \in Nat
  BY DEF ViewsOK
<1>. QED BY <1>1, RemainsItself

\* A server that is removed: its queries are stranded, by name.
LEMMA RemoveServerKeeps ==
  ASSUME PartsOK, NEW s \in CloudMachine, NEW t \in CloudMachine, RemoveServer(s, t)
  PROVE  PartsOK'
<1> DEFINE gone == {getRequests[s][i].requestId : i \in {j \in DOMAIN getRequests[s] : t \in getRequests[s][j].waiting}}
<1>1. /\ departures < MaxDepartures /\ departures' = departures + 1
      /\ Forget(s, t)
      /\ stranded' = stranded \cup gone
      /\ missed' = missed \cup AllSubscriptions
      /\ UNCHANGED <<attached, dataRepository, uploadedKeys, subscribedKeys, getRequests,
                     nextGetRequestId, wire, unnoticed, posts, view>>
  BY DEF RemoveServer
<1>2. \A i \in DOMAIN getRequests[s] : t \in getRequests[s][i].waiting => getRequests[s][i].requestId \in gone
  OBVIOUS
<1> HIDE DEF gone
<1>3. NotesOK /\ KnownOK /\ ViewsOK /\ WiresOK /\ AllTold /\ WaitsOK
  BY DEF PartsOK
<1>4. /\ DOMAIN remoteServers' = CloudMachine
      /\ Known(s)' = Known(s) \ {t} /\ \A r \in CloudMachine \ {s} : Known(r)' = Known(r)
      /\ \A r, u \in CloudMachine : u \in Known(r)' =>
           u \in Known(r) /\ remoteServers'[r][u] = remoteServers[r][u]
      /\ \A r \in CloudMachine : remoteServers'[r] \in [Known(r)' -> RemoteServer]
  BY <1>1, <1>3, ForgetFacts
<1>5. NotesOK'
  BY <1>1, <1>3, NotesUnchanged
<1>6. KnownOK'
  <2>1. \A r \in CloudMachine : Known(r)' \subseteq CloudMachine \ {r} /\ Known(r)' \subseteq Known(r)
    BY <1>3, <1>4 DEF KnownOK
  <2>2. unnoticed' \subseteq CloudMachine \X CloudMachine
    BY <1>1, <1>3 DEF KnownOK
  <2>3. \A r, u \in CloudMachine : <<r, u>> \in unnoticed' /\ r \in Known(u)' => <<u, r>> \in unnoticed'
    BY <1>1, <1>3, <2>1 DEF KnownOK
  <2>. QED BY <1>4, <2>1, <2>2, <2>3 DEF KnownOK
<1>7. ViewsOK'
  <2>1. departures' \in 0 .. MaxDepartures
    BY <1>1, <1>3, CloudFacts DEF ViewsOK
  <2>. QED BY <1>1, <1>3, <2>1, AllSubscriptionsFacts DEF ViewsOK
<1>8. WiresOK'
  BY <1>1, <1>3 DEF WiresOK, Apart
<1>9. AllTold'
  <2>1. \A u, r \in CloudMachine : u \in Known(r)' /\ ~Apart(u, r)' => ~Apart(u, r) /\ wire'[r][u] = wire[r][u]
    BY <1>1 DEF Apart
  <2>. QED BY <1>1, <1>3, <1>4, <2>1, ForgottenTell
<1>10. WaitsOK'
  <2>1. ASSUME NEW r \in CloudMachine, NEW i \in 1 .. Len(getRequests'[r]), NEW u, NEW id,
               u \in getRequests'[r][i].waiting, id = getRequests'[r][i].requestId,
               id \notin stranded', u \in Known(r), WillEnd(r, u, id)
        PROVE  u \in Known(r)' /\ WillEnd(r, u, id)'
    <3>1. WillEnd(r, u, id)'
      BY <1>1, <2>1 DEF WillEnd
    <3>2. i \in DOMAIN getRequests[r]
      BY <1>1, <1>3, <2>1 DEF ViewsOK
    <3>3. ~(r = s /\ u = t)
      BY <1>1, <1>2, <2>1, <3>2
    <3>. QED BY <1>4, <2>1, <3>1, <3>3
  <2>2. /\ getRequests \in [CloudMachine -> Seq(GetRequest)] /\ getRequests' \in [CloudMachine -> Seq(GetRequest)]
        /\ stranded \subseteq stranded' /\ nextGetRequestId' = nextGetRequestId
        /\ \A r \in CloudMachine : Remains(getRequests'[r], getRequests[r])
    BY <1>1, <1>3, AllRemain DEF ViewsOK
  <2>3. \A r \in CloudMachine : \A i \in 1 .. Len(getRequests'[r]) : \A u, id :
          /\ u \in getRequests'[r][i].waiting /\ id = getRequests'[r][i].requestId
          /\ id \notin stranded' /\ u \in Known(r) /\ WillEnd(r, u, id)
          => u \in Known(r)' /\ WillEnd(r, u, id)'
    BY <2>1
  <2>. QED BY <1>3, <2>2, <2>3, WaitsStay
<1>. QED BY <1>5, <1>6, <1>7, <1>8, <1>9, <1>10 DEF PartsOK

\* Two servers lose their connection with all that is under way on it.
LEMMA LoseServerConnectionKeeps ==
  ASSUME PartsOK, NEW s \in CloudMachine, NEW t \in CloudMachine, LoseServerConnection(s, t)
  PROVE  PartsOK'
<1> DEFINE Lost(r, u) == (r = s /\ u = t) \/ (r = t /\ u = s)
<1>1. /\ s # t /\ departures < MaxDepartures
      /\ departures' = departures + 1
      /\ unnoticed' = unnoticed \cup {<<s, t>>, <<t, s>>}
      /\ wire' = [wire EXCEPT ![s][t] = <<>>, ![t][s] = <<>>]
      /\ missed' = missed \cup AllSubscriptions
      /\ UNCHANGED <<attached, dataRepository, uploadedKeys, subscribedKeys, remoteServers,
                     getRequests, nextGetRequestId, posts, view, stranded>>
  BY DEF LoseServerConnection
<1>2. NotesOK /\ KnownOK /\ ViewsOK /\ WiresOK /\ AllTold /\ WaitsOK
  BY DEF PartsOK
<1>3. /\ wire' \in [CloudMachine -> [CloudMachine -> Seq(CloudMessage)]]
      /\ \A r, u \in CloudMachine :
           wire'[r][u] = IF Lost(r, u) THEN <<>> ELSE wire[r][u]
  <2>1. wire \in [CloudMachine -> [CloudMachine -> Seq(CloudMessage)]] /\ <<>> \in Seq(CloudMessage)
    BY <1>2 DEF WiresOK
  <2> DEFINE none == <<>>
             w == [wire EXCEPT ![s][t] = none]
  <2>2. none \in Seq(CloudMessage)
    BY <2>1
  <2>3. wire' = [w EXCEPT ![t][s] = none]
    BY <1>1
  <2> HIDE DEF none
  <2>4. /\ w \in [CloudMachine -> [CloudMachine -> Seq(CloudMessage)]]
        /\ \A r, u \in CloudMachine : w[r][u] = IF r = s /\ u = t THEN none ELSE wire[r][u]
    BY <2>1, <2>2
  <2> HIDE DEF w
  <2>5. /\ wire' \in [CloudMachine -> [CloudMachine -> Seq(CloudMessage)]]
        /\ \A r, u \in CloudMachine : wire'[r][u] = IF r = t /\ u = s THEN none ELSE w[r][u]
    BY <2>2, <2>3, <2>4
  <2>6. ASSUME NEW r \in CloudMachine, NEW u \in CloudMachine
        PROVE  wire'[r][u] = IF Lost(r, u) THEN none ELSE wire[r][u]
    <3>1. w[r][u] = IF r = s /\ u = t THEN none ELSE wire[r][u]
      BY <2>4
    <3>2. wire'[r][u] = IF r = t /\ u = s THEN none ELSE w[r][u]
      BY <2>5
    <3>3. CASE r = t /\ u = s
      BY <3>2, <3>3
    <3>4. CASE r = s /\ u = t
      BY <1>1, <3>1, <3>2, <3>4
    <3>5. CASE ~(r = s /\ u = t) /\ ~(r = t /\ u = s)
      BY <3>1, <3>2, <3>5
    <3>. QED BY <3>3, <3>4, <3>5 DEF Lost
  <2>. QED BY <2>5, <2>6 DEF none
<1>4. /\ \A r, u \in CloudMachine : Apart(r, u)' <=> Apart(r, u) \/ Lost(r, u)
      /\ \A r : Known(r)' = Known(r)
  <2>1. ASSUME NEW r \in CloudMachine, NEW u \in CloudMachine
        PROVE  Apart(r, u)' <=> Apart(r, u) \/ Lost(r, u)
    <3>1. <<r, u>> \in unnoticed' <=> <<r, u>> \in unnoticed \/ Lost(r, u)
      BY <1>1 DEF Lost
    <3>2. <<u, r>> \in unnoticed' <=> <<u, r>> \in unnoticed \/ Lost(r, u)
      BY <1>1 DEF Lost
    <3>. QED BY <3>1, <3>2 DEF Apart
  <2>2. \A r : Known(r)' = Known(r)
    BY <1>1 DEF Known
  <2>. QED BY <2>1, <2>2
<1>5. NotesOK'
  BY <1>1, <1>2, NotesUnchanged
<1>11. \A r, u \in CloudMachine : Lost(r, u) <=> Lost(u, r)
  BY DEF Lost
<1>12. \A r \in CloudMachine : ~Lost(r, r)
  BY <1>1 DEF Lost
<1> HIDE DEF Lost
<1>6. KnownOK'
  <2>1. unnoticed' \subseteq CloudMachine \X CloudMachine
    BY <1>1, <1>2 DEF KnownOK
  <2>2. \A r, u \in CloudMachine : <<r, u>> \in unnoticed' /\ r \in Known(u)' => <<u, r>> \in unnoticed'
    <3>1. \A r, u \in CloudMachine : <<r, u>> \in unnoticed' <=> <<r, u>> \in unnoticed \/ Lost(r, u)
      BY <1>1 DEF Lost
    <3>. QED BY <1>2, <1>4, <1>11, <3>1 DEF KnownOK
  <2>. QED BY <1>1, <1>2, <1>4, <2>1, <2>2 DEF KnownOK
<1>7. ViewsOK'
  <2>1. departures' \in 0 .. MaxDepartures
    BY <1>1, <1>2, CloudFacts DEF ViewsOK
  <2>. QED BY <1>1, <1>2, <2>1, AllSubscriptionsFacts DEF ViewsOK
<1>8. WiresOK'
  <2>1. \A r \in CloudMachine : wire'[r][r] = <<>>
    BY <1>2, <1>3, <1>12 DEF WiresOK
  <2>2. \A r, u \in CloudMachine : Apart(r, u)' => wire'[r][u] = <<>>
    BY <1>2, <1>3, <1>4 DEF WiresOK
  <2>. QED BY <1>3, <2>1, <2>2 DEF WiresOK
<1>9. AllTold'
  <2>1. \A u, r \in CloudMachine : u \in Known(r)' /\ ~Apart(u, r)' => ~Apart(u, r) /\ wire'[r][u] = wire[r][u]
    BY <1>3, <1>4, <1>11
  <2>2. \A u, r \in CloudMachine : r \in Known(u)' => r \in Known(u) /\ remoteServers'[u][r] = remoteServers[u][r]
    BY <1>1, <1>4
  <2>. QED BY <1>1, <1>2, <2>1, <2>2, ForgottenTell
<1>10. WaitsOK'
  <2>1. ASSUME NEW r \in CloudMachine, NEW u \in CloudMachine, NEW id, WillEnd(r, u, id)
        PROVE  WillEnd(r, u, id)'
    <3>1. CASE Lost(r, u)
      <4>1. <<r, u>> \in unnoticed'
        BY <1>1, <3>1 DEF Lost
      <4>. QED BY <4>1 DEF WillEnd
    <3>2. CASE ~Lost(r, u)
      <4>1. wire'[r][u] = wire[r][u] /\ wire'[u][r] = wire[u][r] /\ unnoticed \subseteq unnoticed'
        BY <1>1, <1>3, <1>11, <3>2
      <4>2. CASE \E j \in DOMAIN wire[r][u] : IsFor(wire[r][u][j], "PROCESS_GET_REQUEST", id)
        BY <4>1, <4>2 DEF WillEnd, IsFor
      <4>3. CASE \E j \in DOMAIN wire[u][r] : IsFor(wire[u][r][j], "PROCESS_GET_RESPONSE", id)
        BY <4>1, <4>3 DEF WillEnd, IsFor
      <4>4. CASE <<r, u>> \in unnoticed
        BY <4>1, <4>4 DEF WillEnd
      <4>. QED BY <2>1, <4>2, <4>3, <4>4 DEF WillEnd
    <3>. QED BY <3>1, <3>2
  <2>2. /\ getRequests \in [CloudMachine -> Seq(GetRequest)] /\ getRequests' \in [CloudMachine -> Seq(GetRequest)]
        /\ stranded \subseteq stranded' /\ nextGetRequestId' = nextGetRequestId
        /\ \A r \in CloudMachine : Remains(getRequests'[r], getRequests[r])
    BY <1>1, <1>2, AllRemain DEF ViewsOK
  <2>3. \A r \in CloudMachine : Known(r) \subseteq CloudMachine
    BY <1>2 DEF KnownOK
  <2>4. \A r \in CloudMachine : \A i \in 1 .. Len(getRequests'[r]) : \A u, id :
          /\ u \in getRequests'[r][i].waiting /\ id = getRequests'[r][i].requestId
          /\ id \notin stranded' /\ u \in Known(r) /\ WillEnd(r, u, id)
          => u \in Known(r)' /\ WillEnd(r, u, id)'
    BY <1>4, <2>1, <2>3
  <2>. QED BY <1>2, <2>2, <2>4, WaitsStay
<1>. QED BY <1>5, <1>6, <1>7, <1>8, <1>9, <1>10 DEF PartsOK

\* A client connects.
LEMMA AttachKeeps ==
  ASSUME PartsOK, NEW c \in CloudUser, Attach(c) PROVE PartsOK'
<1>1. /\ attached' = attached \cup {c}
      /\ view' = [view EXCEPT ![c] = [k \in CloudKey |-> NoRows]]
      /\ UNCHANGED <<dataRepository, uploadedKeys, subscribedKeys, remoteServers, getRequests,
                     nextGetRequestId, wire, unnoticed, posts, departures, missed, stranded>>
  BY DEF Attach
<1>2. NotesOK /\ KnownOK /\ ViewsOK /\ WiresOK /\ AllTold /\ WaitsOK
  BY DEF PartsOK
<1>3. NotesOK'
  BY <1>1, <1>2, NotesUnchanged
<1>4. KnownOK'
  BY <1>1, <1>2 DEF KnownOK, Known
<1>5. ViewsOK'
  <2>1. NoRows \in Rows
    BY CloudFacts DEF NoRows, Rows
  <2>. QED BY <1>1, <1>2, <2>1 DEF ViewsOK
<1>6. WiresOK'
  BY <1>1, <1>2 DEF WiresOK, Apart
<1>7. AllTold'
  <2>1. /\ \A u, r \in CloudMachine : r \in Known(u)' => r \in Known(u) /\ remoteServers'[u][r] = remoteServers[u][r]
        /\ \A u, r \in CloudMachine : u \in Known(r)' /\ ~Apart(u, r)' => ~Apart(u, r) /\ wire'[r][u] = wire[r][u]
    BY <1>1 DEF Known, Apart
  <2>. QED BY <1>1, <1>2, <2>1, ForgottenTell
<1>8. WaitsOK'
  BY <1>1, <1>2 DEF WaitsOK, RequestsWait, QueriesWaitForAnswers, WillEnd, Known
<1>. QED BY <1>3, <1>4, <1>5, <1>6, <1>7, <1>8 DEF PartsOK

\* No query waits for a server that is gone.
LEMMA WithoutServerFacts ==
  ASSUME NEW list \in Seq(GetRequest), NEW t
  PROVE  /\ WithoutServer(list, t) \in Seq(GetRequest)
         /\ Len(WithoutServer(list, t)) = Len(list)
         /\ \A j \in 1 .. Len(list) :
              /\ WithoutServer(list, t)[j].requestId = list[j].requestId
              /\ WithoutServer(list, t)[j].waiting = list[j].waiting \ {t}
<1> DEFINE rows(r) == [u \in CloudUser |-> IF ServerOf[u] = t THEN 0 ELSE r.rows[u]]
           new(r) == [r EXCEPT !.waiting = @ \ {t}, !.rows = rows(r)]
           n == Len(list)
<1>1. ASSUME NEW r \in GetRequest
      PROVE  new(r) \in GetRequest /\ new(r).requestId = r.requestId /\ new(r).waiting = r.waiting \ {t}
  <2>1. /\ r.requestId \in 0 .. MaxGets - 1 /\ r.key \in CloudKey /\ r.requestingClient \in CloudUser
        /\ r.waiting \subseteq CloudMachine /\ r.rows \in Rows
    BY DEF GetRequest
  <2>2. rows(r) \in Rows
    BY <2>1, CloudFacts DEF Rows
  <2> HIDE DEF rows
  <2>. QED BY <2>1, <2>2 DEF GetRequest
<1>2. n \in Nat /\ list \in [1 .. n -> GetRequest] /\ DOMAIN list = 1 .. n
  OBVIOUS
<1>3. WithoutServer(list, t) = [i \in 1 .. n |-> new(list[i])]
  BY <1>2 DEF WithoutServer
<1> HIDE DEF new, n
<1>4. [i \in 1 .. n |-> new(list[i])] \in [1 .. n -> GetRequest]
  BY <1>1, <1>2
<1> DEFINE without == [i \in 1 .. n |-> new(list[i])]
<1>5. without \in Seq(GetRequest) /\ Len(without) = n
  BY <1>2, <1>4
<1>6. \A j \in 1 .. n : without[j].requestId = list[j].requestId /\ without[j].waiting = list[j].waiting \ {t}
  BY <1>1, <1>2
<1>. QED BY <1>3, <1>5, <1>6 DEF n

\* The loss of a server is noticed: it is forgotten, and no query waits for it.
LEMMA ServerClosedKeeps ==
  ASSUME PartsOK, NEW s \in CloudMachine, NEW t \in CloudMachine, ServerClosed(s, t)
  PROVE  PartsOK'
<1> DEFINE long == getRequests[s]
           list == WithoutServer(long, t)
<1>1. /\ <<s, t>> \in unnoticed
      /\ unnoticed' = unnoticed \ {<<s, t>>}
      /\ \/ /\ view' = Transmitted(list)
            /\ getRequests' = [getRequests EXCEPT ![s] = Incomplete(list)]
         \/ t \notin Known(s) /\ UNCHANGED <<view, getRequests>>
      /\ Forget(s, t)
      /\ UNCHANGED <<attached, dataRepository, uploadedKeys, subscribedKeys, nextGetRequestId,
                     wire, posts, departures, missed, stranded>>
  BY DEF ServerClosed
<1>2. NotesOK /\ KnownOK /\ ViewsOK /\ WiresOK /\ AllTold /\ WaitsOK
  BY DEF PartsOK
<1>3. /\ DOMAIN remoteServers' = CloudMachine
      /\ Known(s)' = Known(s) \ {t} /\ \A r \in CloudMachine \ {s} : Known(r)' = Known(r)
      /\ \A r, u \in CloudMachine : u \in Known(r)' =>
           u \in Known(r) /\ remoteServers'[r][u] = remoteServers[r][u]
      /\ \A r \in CloudMachine : remoteServers'[r] \in [Known(r)' -> RemoteServer]
  BY <1>1, <1>2, ForgetFacts
<1>4. long \in Seq(GetRequest)
  BY <1>2 DEF ViewsOK
<1> HIDE DEF long
<1>5. /\ list \in Seq(GetRequest) /\ Len(list) = Len(long)
      /\ \A j \in 1 .. Len(long) : list[j].requestId = long[j].requestId /\ list[j].waiting = long[j].waiting \ {t}
  BY <1>4, WithoutServerFacts
<1> HIDE DEF list
<1>6. /\ Incomplete(list) \in Seq(GetRequest) /\ Remains(Incomplete(list), long)
      /\ \A i \in 1 .. Len(Incomplete(list)) : t \notin Incomplete(list)[i].waiting
      /\ Transmitted(list) \in [CloudUser -> [CloudKey -> Rows]]
  <2>1. \A j \in 1 .. Len(long) : list[j].requestId = long[j].requestId /\ list[j].waiting \subseteq long[j].waiting
    BY <1>5
  <2>2. /\ Incomplete(list) \in Seq(GetRequest) /\ Remains(Incomplete(list), long)
        /\ \A i \in 1 .. Len(Incomplete(list)) : \E j \in 1 .. Len(list) : Incomplete(list)[i] = list[j]
    BY <1>4, <1>5, <2>1, IncompleteRemains
  <2>3. \A j \in 1 .. Len(list) : t \notin list[j].waiting
    BY <1>5
  <2>4. Transmitted(list) \in [CloudUser -> [CloudKey -> Rows]]
    BY <1>5, TransmittedFacts
  <2>. QED BY <2>2, <2>3, <2>4
<1>7. /\ getRequests' \in [CloudMachine -> Seq(GetRequest)] /\ view' \in [CloudUser -> [CloudKey -> Rows]]
      /\ \A r \in CloudMachine : Remains(getRequests'[r], getRequests[r])
      /\ t \in Known(s) => \A i \in 1 .. Len(getRequests'[s]) : t \notin getRequests'[s][i].waiting
  <2>0. \A r \in CloudMachine : Remains(getRequests[r], getRequests[r])
    <3>1. \A r \in CloudMachine : Len(getRequests[r]) \in Nat
      BY <1>2 DEF ViewsOK
    <3>. QED BY <3>1, RemainsItself
  <2>1. CASE view' = Transmitted(list) /\ getRequests' = [getRequests EXCEPT ![s] = Incomplete(list)]
    <3>1. /\ getRequests' \in [CloudMachine -> Seq(GetRequest)] /\ getRequests'[s] = Incomplete(list)
          /\ \A r \in CloudMachine \ {s} : getRequests'[r] = getRequests[r]
      BY <1>2, <1>6, <2>1 DEF ViewsOK
    <3>2. \A r \in CloudMachine : Remains(getRequests'[r], getRequests[r])
      BY <1>6, <2>0, <3>1 DEF long
    <3>. QED BY <1>6, <2>1, <3>1, <3>2
  <2>2. CASE t \notin Known(s) /\ UNCHANGED <<view, getRequests>>
    BY <1>2, <2>0, <2>2 DEF ViewsOK
  <2>. QED BY <1>1, <2>1, <2>2
<1>8. NotesOK'
  BY <1>1, <1>2, NotesUnchanged
<1>9. \A r, u \in CloudMachine : <<r, u>> \in unnoticed' <=> <<r, u>> \in unnoticed /\ ~(r = s /\ u = t)
  BY <1>1
<1>10. KnownOK'
  <2>1. \A r \in CloudMachine : Known(r)' \subseteq CloudMachine \ {r} /\ Known(r)' \subseteq Known(r)
    BY <1>2, <1>3 DEF KnownOK
  <2>2. unnoticed' \subseteq CloudMachine \X CloudMachine
    BY <1>1, <1>2 DEF KnownOK
  <2>3. ASSUME NEW r \in CloudMachine, NEW u \in CloudMachine, <<r, u>> \in unnoticed', r \in Known(u)'
        PROVE  <<u, r>> \in unnoticed'
    <3>1. <<u, r>> \in unnoticed
      BY <1>2, <1>9, <2>1, <2>3 DEF KnownOK
    <3>2. ~(u = s /\ r = t)
      BY <1>3, <2>3
    <3>. QED BY <1>9, <3>1, <3>2
  <2>. QED BY <1>3, <2>1, <2>2, <2>3 DEF KnownOK
<1>11. ViewsOK'
  BY <1>1, <1>2, <1>7 DEF ViewsOK
<1>12. WiresOK'
  <2>1. \A r, u \in CloudMachine : Apart(r, u)' => Apart(r, u)
    BY <1>1 DEF Apart
  <2>. QED BY <1>1, <1>2, <2>1 DEF WiresOK
<1>13. AllTold'
  <2>1. ASSUME NEW u \in CloudMachine, NEW r \in CloudMachine, u \in Known(r)', ~Apart(u, r)'
        PROVE  ~Apart(u, r) /\ wire'[r][u] = wire[r][u]
    <3>1. u \in Known(r) /\ ~(r = s /\ u = t)
      BY <1>3, <2>1
    <3>2. <<u, r>> \notin unnoticed' /\ <<r, u>> \notin unnoticed'
      BY <2>1 DEF Apart
    <3>3. <<r, u>> \notin unnoticed
      BY <1>9, <3>1, <3>2
    <3>4. <<u, r>> \notin unnoticed
      BY <1>2, <3>1, <3>3 DEF KnownOK
    <3>. QED BY <1>1, <3>3, <3>4 DEF Apart
  <2>. QED BY <1>1, <1>2, <1>3, <2>1, ForgottenTell
<1>14. WaitsOK'
  <2>1. ASSUME NEW r \in CloudMachine, NEW i \in 1 .. Len(getRequests'[r]), NEW u, NEW id,
               u \in getRequests'[r][i].waiting, u \in Known(r), WillEnd(r, u, id)
        PROVE  u \in Known(r)' /\ WillEnd(r, u, id)'
    <3>1. ~(r = s /\ u = t)
      BY <1>7, <2>1
    <3>2. u \in CloudMachine
      BY <1>2, <2>1 DEF KnownOK
    <3>3. CASE <<r, u>> \in unnoticed
      <4>1. <<r, u>> \in unnoticed'
        BY <1>9, <3>1, <3>2, <3>3
      <4>. QED BY <1>3, <2>1, <3>1, <4>1 DEF WillEnd
    <3>4. CASE <<r, u>> \notin unnoticed
      BY <1>1, <1>3, <2>1, <3>1, <3>4 DEF WillEnd
    <3>. QED BY <3>3, <3>4
  <2>2. /\ getRequests \in [CloudMachine -> Seq(GetRequest)]
        /\ stranded \subseteq stranded' /\ nextGetRequestId' = nextGetRequestId
    BY <1>1, <1>2 DEF ViewsOK
  <2>3. \A r \in CloudMachine : \A i \in 1 .. Len(getRequests'[r]) : \A u, id :
          /\ u \in getRequests'[r][i].waiting /\ id = getRequests'[r][i].requestId
          /\ id \notin stranded' /\ u \in Known(r) /\ WillEnd(r, u, id)
          => u \in Known(r)' /\ WillEnd(r, u, id)'
    BY <2>1
  <2>. QED BY <1>2, <1>7, <2>2, <2>3, WaitsStay
<1>. QED BY <1>8, <1>10, <1>11, <1>12, <1>13, <1>14 DEF PartsOK

-----------------------------------------------------------------------------
(* A client is lost *)

\* What is left of a list without a client, and no more is counted in it.
LEMMA WithoutClientFacts ==
  ASSUME NEW p \in 0 .. MaxPosts, NEW g \in 0 .. MaxGets, NEW l, l = NoList \/ ListFits(l, p, g),
         NEW c \in CloudUser, NEW k,
         k \in uploadedKeys[c] <=> l.keyData[c] # 0, k \in subscribedKeys[c] <=> c \in l.nonSpecificSubscribers
  PROVE  LET left == WithoutClient(l, c, k)
         IN /\ left = NoList \/ ListFits(left, p, g)
            /\ \A u \in CloudUser : left.keyData[u] # 0 <=> u # c /\ l.keyData[u] # 0
            /\ \A u \in CloudUser : u \in left.nonSpecificSubscribers <=> u # c /\ u \in l.nonSpecificSubscribers
            /\ \A kind \in Kind : CountIn(left, kind) > 0 => CountIn(l, kind) > 0
            /\ k \in uploadedKeys[c] /\ CountIn(left, "uploaded") > 0 =>
                 WithoutData(l, c).uploaderCount # 0 /\ ~IsUnused(WithoutData(l, c))
<1> DEFINE without == WithoutData(l, c)
           kept == IF k \in uploadedKeys[c] THEN KeptList(without) ELSE l
           left == WithoutClient(l, c, k)
<1>1. /\ NoList.uploaderCount = -1 /\ NoList.subscriberCount = -1
      /\ NoList.keyData = NoRows /\ NoList.nonSpecificSubscribers = {}
      /\ \A u \in CloudUser : NoRows[u] = 0
  BY NewListFits
<1>2. l # NoList => l.keyData \in [CloudUser -> 0 .. MaxPosts] /\ l.uploaderCount \in Nat
                    /\ l.subscriberCount \in Nat
  BY FitFacts
<1> HIDE DEF without
<1>3. k \in uploadedKeys[c] =>
        /\ ListFits(without, p, g)
        /\ without.keyData = [l.keyData EXCEPT ![c] = 0]
        /\ without.uploaderCount <= l.uploaderCount /\ without.subscriberCount = l.subscriberCount
        /\ without.nonSpecificSubscribers = l.nonSpecificSubscribers
        /\ without.uploaderCount \in Nat
  <2>1. SUFFICES ASSUME k \in uploadedKeys[c]
                 PROVE  /\ ListFits(without, p, g)
                        /\ without.keyData = [l.keyData EXCEPT ![c] = 0]
                        /\ without.uploaderCount <= l.uploaderCount /\ without.subscriberCount = l.subscriberCount
                        /\ without.nonSpecificSubscribers = l.nonSpecificSubscribers
                        /\ without.uploaderCount \in Nat
    OBVIOUS
  <2>2. l.keyData[c] # 0 /\ ListFits(l, p, g)
    BY <1>1, <2>1
  <2>3. /\ ListFits(without, p, g)
        /\ without.keyData = [l.keyData EXCEPT ![c] = 0]
        /\ without.uploaderCount <= l.uploaderCount /\ without.subscriberCount = l.subscriberCount
        /\ without.nonSpecificSubscribers = l.nonSpecificSubscribers
    BY <2>2, ReleaseFits DEF without
  <2>. QED BY <2>3, FitFacts
<1>4. k \in uploadedKeys[c] =>
        /\ KeptList(without) # NoList => ListFits(KeptList(without), p, g) /\ KeptList(without) = without
        /\ KeptList(without).keyData = without.keyData
        /\ KeptList(without).nonSpecificSubscribers = without.nonSpecificSubscribers
        /\ KeptList(without) # NoList => ~IsUnused(without)
  <2>1. k \in uploadedKeys[c] =>
          /\ KeptList(without) # NoList => ListFits(KeptList(without), p, g)
          /\ KeptList(without) # NoList => KeptList(without) = without
          /\ KeptList(without).keyData = without.keyData
          /\ KeptList(without).nonSpecificSubscribers = without.nonSpecificSubscribers
    BY <1>3, KeptFacts
  <2>2. KeptList(without) # NoList => ~IsUnused(without)
    BY DEF KeptList
  <2>. QED BY <2>1, <2>2
<1>5. left = IF k \in subscribedKeys[c] /\ kept # NoList THEN WithoutSubscriber(kept, c) ELSE kept
  BY DEF WithoutClient, without
<1> DEFINE m == KeptList(without)
<1>6. k \in uploadedKeys[c] => kept = m
  OBVIOUS
<1>7. k \notin uploadedKeys[c] => kept = l
  OBVIOUS
<1> HIDE DEF m, kept, left
<1>8. /\ kept # NoList => ListFits(kept, p, g)
      /\ kept # NoList => kept.uploaderCount <= l.uploaderCount /\ kept.subscriberCount = l.subscriberCount /\ l # NoList
      /\ \A u \in CloudUser : kept.keyData[u] # 0 <=> u # c /\ l.keyData[u] # 0
      /\ kept.nonSpecificSubscribers = l.nonSpecificSubscribers
      /\ k \in uploadedKeys[c] /\ kept # NoList => kept = without /\ ~IsUnused(without)
  <2>1. CASE k \in uploadedKeys[c]
    <3>1. l # NoList
      BY <1>1, <2>1
    <3>2. /\ m # NoList => ListFits(m, p, g) /\ m = without /\ ~IsUnused(without)
          /\ m.keyData = [l.keyData EXCEPT ![c] = 0] /\ m.nonSpecificSubscribers = l.nonSpecificSubscribers
      BY <1>3, <1>4, <2>1 DEF m
    <3>3. \A u \in CloudUser : m.keyData[u] # 0 <=> u # c /\ l.keyData[u] # 0
      BY <1>2, <3>1, <3>2
    <3>. QED BY <1>3, <1>6, <2>1, <3>1, <3>2, <3>3
  <2>2. CASE k \notin uploadedKeys[c]
    <3>1. l # NoList => l.uploaderCount <= l.uploaderCount
      BY <1>2
    <3>. QED BY <1>7, <2>2, <3>1
  <2>. QED BY <2>1, <2>2
<1>9. kept = NoList => c \notin l.nonSpecificSubscribers
  BY <1>1, <1>8
<1>10. CASE k \in subscribedKeys[c] /\ kept # NoList
  <2>1. /\ ListFits(left, p, g) /\ left.keyData = kept.keyData
        /\ left.uploaderCount = kept.uploaderCount /\ left.subscriberCount = kept.subscriberCount - 1
        /\ left.nonSpecificSubscribers = kept.nonSpecificSubscribers \ {c}
    <3>1. ListFits(kept, p, g) /\ c \in kept.nonSpecificSubscribers
      BY <1>8, <1>10
    <3>2. left = WithoutSubscriber(kept, c)
      BY <1>5, <1>10
    <3>. QED BY <3>1, <3>2, UnsubscribeFits
  <2>2. kept.uploaderCount \in Nat /\ kept.subscriberCount \in Nat
    BY <1>8, <1>10, FitFacts
  <2>3. \A kind \in Kind : CountIn(left, kind) > 0 => CountIn(l, kind) > 0
    BY <1>2, <1>8, <1>10, <2>1, <2>2 DEF CountIn
  <2>4. k \in uploadedKeys[c] /\ CountIn(left, "uploaded") > 0 => without.uploaderCount # 0 /\ ~IsUnused(without)
    BY <1>8, <1>10, <2>1, <2>2 DEF CountIn
  <2>. QED BY <1>8, <2>1, <2>3, <2>4 DEF left, without
<1>11. CASE ~(k \in subscribedKeys[c] /\ kept # NoList)
  <2>1. left = kept
    BY <1>5, <1>11
  <2>2. c \notin l.nonSpecificSubscribers
    BY <1>9, <1>11
  <2>3. CASE kept = NoList
    <3>1. \A kind \in Kind : ~(CountIn(left, kind) > 0)
      BY <1>1, <2>1, <2>3 DEF CountIn
    <3>2. ~(CountIn(left, "uploaded") > 0)
      BY <3>1 DEF Kind
    <3>. QED BY <1>8, <2>1, <2>2, <2>3, <3>1, <3>2 DEF left
  <2>4. CASE kept # NoList
    <3>1. kept.uploaderCount \in Nat /\ kept.subscriberCount \in Nat
      BY <1>8, <2>4, FitFacts
    <3>2. \A kind \in Kind : CountIn(left, kind) > 0 => CountIn(l, kind) > 0
      BY <1>2, <1>8, <2>1, <2>4, <3>1 DEF CountIn
    <3>3. k \in uploadedKeys[c] /\ CountIn(left, "uploaded") > 0 => without.uploaderCount # 0 /\ ~IsUnused(without)
      BY <1>8, <2>1, <2>4, <3>1 DEF CountIn
    <3>. QED BY <1>8, <2>1, <2>2, <2>4, <3>2, <3>3 DEF left, without
  <2>. QED BY <2>3, <2>4
<1>. QED BY <1>10, <1>11

\* What server s may send as long as only the given keys are no longer uploaded.
Quieting(s, keys) ==
  {f \in Outgoing :
     /\ f[s] = <<>>
     /\ \A t \in CloudMachine : \A i \in 1 .. Len(f[t]) : \A kind \in Kind, j \in CloudKey :
          Unsays(f[t][i], kind, j) => kind = "uploaded" /\ j \in keys}

\* Two groups of messages that say no more than that some keys are no longer uploaded.
LEMMA QuietingBoth ==
  ASSUME NEW s \in CloudMachine, NEW keys, NEW f \in Quieting(s, keys), NEW g \in Quieting(s, keys)
  PROVE  Both(f, g) \in Quieting(s, keys)
<1>1. f \in Outgoing /\ g \in Outgoing /\ f[s] = <<>> /\ g[s] = <<>>
  BY DEF Quieting
<1> DEFINE h == Both(f, g)
<1>2. h \in Outgoing /\ h[s] = <<>>
  BY <1>1, BothFacts
<1>3. ASSUME NEW t \in CloudMachine, NEW i \in 1 .. Len(h[t]), NEW kind \in Kind, NEW j \in CloudKey,
             Unsays(h[t][i], kind, j)
      PROVE  kind = "uploaded" /\ j \in keys
  <2>1. \/ \E n \in 1 .. Len(f[t]) : h[t][i] = f[t][n]
        \/ \E n \in 1 .. Len(g[t]) : h[t][i] = g[t][n]
    BY <1>1, BothElements
  <2> HIDE DEF h
  <2>. QED BY <1>3, <2>1 DEF Quieting
<1> HIDE DEF h
<1>4. h \in Quieting(s, keys)
  BY <1>2, <1>3 DEF Quieting
<1>. QED BY <1>4 DEF h

\* The same of one message.
LEMMA QuietingOne ==
  ASSUME NEW s \in CloudMachine, NEW keys, NEW receivers, s \notin receivers, NEW m \in CloudMessage,
         receivers # {} => \A kind \in Kind, j \in CloudKey : Unsays(m, kind, j) => kind = "uploaded" /\ j \in keys
  PROVE  SendTo(s, receivers, <<m>>) \in Quieting(s, keys)
<1> DEFINE f == SendTo(s, receivers, <<m>>)
           one == <<m>>
<1>1. one \in Seq(CloudMessage) /\ <<>> \in Seq(CloudMessage) /\ \A i \in 1 .. Len(one) : one[i] = m
  OBVIOUS
<1> HIDE DEF one
<1>2. f \in Outgoing /\ \A t \in CloudMachine : f[t] = IF t \in receivers THEN one ELSE <<>>
  BY <1>1 DEF SendTo, Outgoing, one
<1> HIDE DEF f
<1>3. f[s] = <<>>
  BY <1>2
<1>4. ASSUME NEW t \in CloudMachine, NEW i \in 1 .. Len(f[t]), NEW kind \in Kind, NEW j \in CloudKey,
             Unsays(f[t][i], kind, j)
      PROVE  kind = "uploaded" /\ j \in keys
  <2>1. t \in receivers
    <3>1. \A n \in 1 .. Len(<<>>) : FALSE
      OBVIOUS
    <3>. QED BY <1>2, <1>4, <3>1
  <2>2. f[t][i] = m
    BY <1>1, <1>2, <1>4, <2>1
  <2>. QED BY <1>4, <2>1, <2>2
<1>. QED BY <1>2, <1>3, <1>4 DEF Quieting, f

\* What is sent of one key says at most that it is no longer uploaded.
LEMMA ToldOfKeyFacts ==
  ASSUME PartsOK, NEW s \in CloudMachine, NEW c \in CloudUser, NEW k \in CloudKey, NEW keys,
         WithoutData(dataRepository[s][k], c).uploaderCount = 0 \/ IsUnused(WithoutData(dataRepository[s][k], c))
           => k \in keys
  PROVE  ToldOfKey(s, c, k) \in Quieting(s, keys)
<1> DEFINE l == WithoutData(dataRepository[s][k], c)
           a == [type |-> "DATA_CHANGED", key |-> k, from |-> c, data |-> 0]
           b == [type |-> "REMOVE_UPLOADED_KEY", key |-> k]
           change == NotifyServerSubscribersOfDataChange(s, k, c, 0)
           remove == RemoveUploadedKeyFromServers(s, k, l)
           again == SendTo(s, IF IsUnused(l) THEN Known(s) ELSE {}, <<b>>)
<1>1. s \notin Known(s) /\ s \notin SubscribedServers(s, k)
  BY DEF PartsOK, KnownOK, SubscribedServers
<1>2. a \in CloudMessage /\ b \in CloudMessage
  <2>1. 0 \in 0 .. MaxPosts
    BY CloudFacts
  <2>. QED BY <2>1 DEF CloudMessage
<1>3. \A kind \in Kind, j \in CloudKey :
        ~Unsays(a, kind, j) /\ (Unsays(b, kind, j) => kind = "uploaded" /\ j = k)
  BY WordsFacts
<1>4. ToldOfKey(s, c, k) = Both(Both(change, remove), again)
  BY DEF ToldOfKey
<1>5. change = SendTo(s, SubscribedServers(s, k), <<a>>)
  BY DEF NotifyServerSubscribersOfDataChange
<1>6. remove = SendTo(s, IF l.uploaderCount = 0 THEN Known(s) ELSE {}, <<b>>)
  BY DEF RemoveUploadedKeyFromServers
<1> HIDE DEF l, a, b, change, remove
<1>7. change \in Quieting(s, keys)
  BY <1>1, <1>2, <1>3, <1>5, QuietingOne
<1>8. remove \in Quieting(s, keys)
  <2> DEFINE receivers == IF l.uploaderCount = 0 THEN Known(s) ELSE {}
  <2>1. /\ s \notin receivers
        /\ receivers # {} => \A kind \in Kind, j \in CloudKey : Unsays(b, kind, j) => kind = "uploaded" /\ j \in keys
    BY <1>1, <1>3 DEF l
  <2>2. remove = SendTo(s, receivers, <<b>>)
    BY <1>6
  <2> HIDE DEF receivers
  <2>. QED BY <1>2, <2>1, <2>2, QuietingOne
<1>9. again \in Quieting(s, keys)
  <2> DEFINE receivers == IF IsUnused(l) THEN Known(s) ELSE {}
  <2>1. /\ s \notin receivers
        /\ receivers # {} => \A kind \in Kind, j \in CloudKey : Unsays(b, kind, j) => kind = "uploaded" /\ j \in keys
    BY <1>1, <1>3 DEF l
  <2>2. again = SendTo(s, receivers, <<b>>)
    OBVIOUS
  <2> HIDE DEF receivers, again
  <2>. QED BY <1>2, <2>1, <2>2, QuietingOne
<1> HIDE DEF again
<1>. QED BY <1>4, <1>7, <1>8, <1>9, QuietingBoth

\* And so of all keys.
LEMMA ToldOfLossFacts ==
  ASSUME NEW s \in CloudMachine, NEW c, NEW keys, NEW list \in Seq(CloudKey),
         \A n \in 1 .. Len(list) : ToldOfKey(s, c, list[n]) \in Quieting(s, keys)
  PROVE  ToldOfLoss(s, c, list) \in Quieting(s, keys)
<1> DEFINE Q == Quieting(s, keys)
           N == Len(list)
           first == SendTo(s, {}, <<>>)
           T == [n \in 1 .. N |-> ToldOfKey(s, c, list[n])]
           step == [x \in Q \X (1 .. N) |-> Both(x[1], T[x[2]])]
           told[n \in 0 .. Len(list)] == IF n = 0 THEN SendTo(s, {}, <<>>) ELSE Both(told[n - 1], ToldOfKey(s, c, list[n]))
<1>1. N \in Nat /\ T \in [1 .. N -> Q]
  OBVIOUS
<1>2. first \in Q
  <2>1. first \in Outgoing /\ \A t \in CloudMachine : first[t] = <<>>
    BY DEF SendTo, Outgoing
  <2>2. \A n \in 1 .. Len(<<>>) : FALSE
    OBVIOUS
  <2> HIDE DEF first
  <2>. QED BY <2>1, <2>2 DEF Quieting
<1>3. ToldOfLoss(s, c, list) = told[N]
  BY DEF ToldOfLoss
<1>4. \A n \in 1 .. N : T[n] = ToldOfKey(s, c, list[n])
  OBVIOUS
<1> HIDE DEF T, Q
<1>5. \A x \in Q, y \in Q : Both(x, y) \in Q
  BY QuietingBoth DEF Q
<1>6. step \in [Q \X (1 .. N) -> Q] /\ \A y \in Q, n \in 1 .. N : step[<<y, n>>] = Both(y, T[n])
  <2>1. \A x \in Q \X (1 .. N) : x[1] \in Q /\ T[x[2]] \in Q
    BY <1>1
  <2>2. \A x \in Q \X (1 .. N) : Both(x[1], T[x[2]]) \in Q
    BY <1>5, <2>1
  <2>. QED BY <2>2
<1> HIDE DEF step, first, N
<1>7. PICK f : IsLoop(f, Q, N, first, step)
  BY <1>1, <1>2, <1>6, RecursionUpTo
<1>8. f \in [0 .. N -> Q] /\ f[0] = first /\ \A n \in 1 .. N : f[n] = step[<<f[n - 1], n>>]
  BY <1>7 DEF IsLoop
<1>9. \A n \in 0 .. N : f[n] = IF n = 0 THEN first ELSE Both(f[n - 1], ToldOfKey(s, c, list[n]))
  <2>1. ASSUME NEW n \in 1 .. N PROVE f[n] = Both(f[n - 1], ToldOfKey(s, c, list[n]))
    <3>1. n - 1 \in 0 .. N
      BY <1>1
    <3>2. f[n - 1] \in Q
      BY <1>8, <3>1
    <3>. QED BY <1>4, <1>6, <1>8, <3>2
  <2>2. \A n \in 0 .. N : n = 0 \/ n \in 1 .. N
    BY <1>1
  <2>. QED BY <1>8, <2>1, <2>2
<1>10. \E h : h = [n \in 0 .. Len(list) |->
                     IF n = 0 THEN SendTo(s, {}, <<>>) ELSE Both(h[n - 1], ToldOfKey(s, c, list[n]))]
  <2>1. f = [n \in 0 .. Len(list) |->
               IF n = 0 THEN SendTo(s, {}, <<>>) ELSE Both(f[n - 1], ToldOfKey(s, c, list[n]))]
    BY <1>8, <1>9 DEF first, N
  <2>. QED BY <2>1, Zenon
<1>11. told = [n \in 0 .. Len(list) |->
                 IF n = 0 THEN SendTo(s, {}, <<>>) ELSE Both(told[n - 1], ToldOfKey(s, c, list[n]))]
  BY <1>10 DEF told
<1> HIDE DEF told
<1>12. \A n \in 0 .. N : told[n] = IF n = 0 THEN first ELSE Both(told[n - 1], ToldOfKey(s, c, list[n]))
  BY <1>11 DEF first, N
<1> DEFINE K == {n \in 0 .. N : told[n] \in Q}
<1>13. 0 \in K
  BY <1>1, <1>2, <1>12
<1>14. ASSUME NEW n \in 1 .. N, n - 1 \in K PROVE n \in K
  <2>1. n \in 0 .. N /\ n # 0 /\ told[n - 1] \in Q
    BY <1>1, <1>14
  <2>2. told[n] = Both(told[n - 1], ToldOfKey(s, c, list[n]))
    BY <1>12, <2>1
  <2>3. ToldOfKey(s, c, list[n]) \in Q
    BY DEF Q, N
  <2>. QED BY <1>5, <2>1, <2>2, <2>3
<1>15. N \in K
  <2>1. \A n \in 1 .. N : n - 1 \in K => n \in K
    BY <1>14
  <2>2. N \in Nat /\ N \in 0 .. N
    BY <1>1
  <2> HIDE DEF K
  <2>. QED BY <1>13, <2>1, <2>2, InductionUpTo
<1>. QED BY <1>3, <1>15 DEF Q

\* A client is lost: its data, its subscriptions, and what other servers are told.
LEMMA ClientClosedKeeps ==
  ASSUME PartsOK, NEW c \in CloudUser, ClientClosed(c) PROVE PartsOK'
<1> DEFINE s == ServerOf[c]
           left(k) == WithoutClient(dataRepository[s][k], c, k)
           f == ToldOfLoss(s, c, SetToSeq(uploadedKeys[c]))
           gone == UNION {PassedBy(s, k) : k \in uploadedKeys[c]}
           seen(d, k) == IF d \in attached \ {c} /\ k \in uploadedKeys[c]
                            /\ d \in dataRepository[s][k].nonSpecificSubscribers
                         THEN [view[d][k] EXCEPT ![c] = 0] ELSE view[d][k]
<1>1. /\ departures < MaxDepartures /\ departures' = departures + 1
      /\ attached' = attached \ {c}
      /\ dataRepository' = [dataRepository EXCEPT ![s] = [k \in CloudKey |-> left(k)]]
      /\ SendAll(s, f)
      /\ view' = [d \in CloudUser |-> [k \in CloudKey |-> seen(d, k)]]
      /\ uploadedKeys' = [uploadedKeys EXCEPT ![c] = {}]
      /\ subscribedKeys' = [subscribedKeys EXCEPT ![c] = {}]
      /\ missed' = {x \in missed : x[1] # c} \cup gone
      /\ UNCHANGED <<remoteServers, getRequests, nextGetRequestId, unnoticed, posts, stranded>>
  BY DEF ClientClosed
<1>2. /\ NotesOK /\ KnownOK /\ ViewsOK /\ WiresOK /\ AllTold /\ WaitsOK
      /\ posts \in 0 .. MaxPosts /\ nextGetRequestId \in 0 .. MaxGets
      /\ uploadedKeys \in [CloudUser -> SUBSET CloudKey] /\ subscribedKeys \in [CloudUser -> SUBSET CloudKey]
  BY DEF PartsOK, NotesOK
<1>3. s \in CloudMachine
  BY CloudFacts
<1>4. ViewsOK'
  <2>1. gone \subseteq CloudUser \X CloudKey \X {"between", "apart"}
    <3>1. \A k \in uploadedKeys[c] : PassedBy(s, k) \subseteq CloudUser \X CloudKey \X {"between", "apart"}
      BY <1>2, PassedByFacts
    <3>. QED BY <3>1
  <2>2. \A d \in CloudUser, k \in CloudKey : seen(d, k) \in Rows
    <3>1. \A d \in CloudUser, k \in CloudKey : view[d][k] \in [CloudUser -> 0 .. MaxPosts]
      BY <1>2 DEF ViewsOK, Rows
    <3>. QED BY <3>1, CloudFacts DEF Rows
  <2>3. departures' \in 0 .. MaxDepartures
    BY <1>1, <1>2, CloudFacts DEF ViewsOK
  <2> HIDE DEF gone, seen
  <2>. QED BY <1>1, <1>2, <2>1, <2>2, <2>3 DEF ViewsOK
<1> HIDE DEF s, left, f, gone, seen
<1>5. ASSUME NEW k \in CloudKey
      PROVE  /\ left(k) = NoList \/ ListFits(left(k), posts, nextGetRequestId)
             /\ \A u \in CloudUser : left(k).keyData[u] # 0 <=> u # c /\ dataRepository[s][k].keyData[u] # 0
             /\ \A u \in CloudUser : u \in left(k).nonSpecificSubscribers
                                     <=> u # c /\ u \in dataRepository[s][k].nonSpecificSubscribers
             /\ \A kind \in Kind : CountIn(left(k), kind) > 0 => CountIn(dataRepository[s][k], kind) > 0
             /\ k \in uploadedKeys[c] /\ CountIn(left(k), "uploaded") > 0 =>
                  /\ WithoutData(dataRepository[s][k], c).uploaderCount # 0
                  /\ ~IsUnused(WithoutData(dataRepository[s][k], c))
  <2> DEFINE l == dataRepository[s][k]
  <2>1. l = NoList \/ ListFits(l, posts, nextGetRequestId)
    BY <1>2, <1>3, ListNoted
  <2>2. k \in uploadedKeys[c] <=> l.keyData[c] # 0
    BY <1>2, <1>3 DEF NotesOK, KeyNoted, s
  <2>3. k \in subscribedKeys[c] <=> c \in l.nonSpecificSubscribers
    BY <1>2, <1>3 DEF NotesOK, KeyNoted, s
  <2>4. left(k) = WithoutClient(l, c, k)
    BY DEF left
  <2> HIDE DEF l
  <2>5. /\ left(k) = NoList \/ ListFits(left(k), posts, nextGetRequestId)
        /\ \A u \in CloudUser : left(k).keyData[u] # 0 <=> u # c /\ l.keyData[u] # 0
        /\ \A u \in CloudUser : u \in left(k).nonSpecificSubscribers <=> u # c /\ u \in l.nonSpecificSubscribers
        /\ \A kind \in Kind : CountIn(left(k), kind) > 0 => CountIn(l, kind) > 0
        /\ k \in uploadedKeys[c] /\ CountIn(left(k), "uploaded") > 0 =>
             WithoutData(l, c).uploaderCount # 0 /\ ~IsUnused(WithoutData(l, c))
    BY <1>2, <2>1, <2>2, <2>3, <2>4, WithoutClientFacts
  <2>. QED BY <2>5 DEF l
<1>6. /\ \A r \in CloudMachine \ {s} : dataRepository'[r] = dataRepository[r]
      /\ \A k \in CloudKey : dataRepository'[s][k] = left(k)
      /\ dataRepository' \in [CloudMachine -> [CloudKey -> CloudDataList \cup {NoList}]]
  <2>1. \A k \in CloudKey : left(k) \in CloudDataList \cup {NoList}
    BY <1>5 DEF ListFits
  <2>2. dataRepository \in [CloudMachine -> [CloudKey -> CloudDataList \cup {NoList}]]
    BY <1>2 DEF NotesOK
  <2> DEFINE new == [k \in CloudKey |-> left(k)]
  <2>3. new \in [CloudKey -> CloudDataList \cup {NoList}] /\ \A k \in CloudKey : new[k] = left(k)
    BY <2>1
  <2>4. dataRepository' = [dataRepository EXCEPT ![s] = new]
    BY <1>1
  <2> HIDE DEF new
  <2>. QED BY <1>3, <2>2, <2>3, <2>4
<1>7. NotesOK'
  <2>1. /\ posts' \in posts .. MaxPosts /\ nextGetRequestId' \in nextGetRequestId .. MaxGets
        /\ posts' = posts /\ nextGetRequestId' = nextGetRequestId
    BY <1>1, <1>2, CloudFacts
  <2>2. /\ uploadedKeys' \in [CloudUser -> SUBSET CloudKey] /\ subscribedKeys' \in [CloudUser -> SUBSET CloudKey]
        /\ uploadedKeys'[c] = {} /\ subscribedKeys'[c] = {}
        /\ \A u \in CloudUser \ {c} : uploadedKeys'[u] = uploadedKeys[u] /\ subscribedKeys'[u] = subscribedKeys[u]
    BY <1>1, <1>2
  <2>3. ASSUME NEW u \in CloudUser, NEW k \in CloudKey
        PROVE  /\ k \in uploadedKeys'[u] <=>
                    IF ServerOf[u] = s THEN dataRepository'[s][k].keyData[u] # 0 ELSE k \in uploadedKeys[u]
               /\ k \in subscribedKeys'[u] <=>
                    IF ServerOf[u] = s THEN u \in dataRepository'[s][k].nonSpecificSubscribers
                    ELSE k \in subscribedKeys[u]
    <3>1. /\ dataRepository'[s][k].keyData[u] # 0 <=> u # c /\ dataRepository[s][k].keyData[u] # 0
          /\ u \in dataRepository'[s][k].nonSpecificSubscribers
             <=> u # c /\ u \in dataRepository[s][k].nonSpecificSubscribers
      BY <1>5, <1>6
    <3>2. ServerOf[u] = s =>
            /\ k \in uploadedKeys[u] <=> dataRepository[s][k].keyData[u] # 0
            /\ k \in subscribedKeys[u] <=> u \in dataRepository[s][k].nonSpecificSubscribers
      BY <1>2, <1>3 DEF NotesOK, KeyNoted
    <3>3. CASE u = c
      BY <2>2, <3>1, <3>3 DEF s
    <3>4. CASE u # c
      BY <2>2, <3>1, <3>2, <3>4
    <3>. QED BY <3>3, <3>4
  <2>4. \A k \in CloudKey : dataRepository'[s][k] = NoList \/ ListFits(dataRepository'[s][k], posts', nextGetRequestId')
    BY <1>5, <1>6, <2>1
  <2>. QED BY <1>2, <1>3, <1>6, <2>1, <2>2, <2>3, <2>4, NotesKeep
<1> DEFINE quiet == {k \in uploadedKeys[c] :
                       \/ WithoutData(dataRepository[s][k], c).uploaderCount = 0
                       \/ IsUnused(WithoutData(dataRepository[s][k], c))}
<1>8. f \in Quieting(s, quiet)
  <2> DEFINE S == uploadedKeys[c]
             list == SetToSeq(S)
  <2>1. S \subseteq CloudKey /\ IsFiniteSet(S)
    <3>1. S \subseteq CloudKey
      BY <1>2
    <3>. QED BY <3>1, CloudFacts, FS_Subset
  <2>2. \A k \in S : ToldOfKey(s, c, k) \in Quieting(s, quiet)
    <3>1. SUFFICES ASSUME NEW k \in S PROVE ToldOfKey(s, c, k) \in Quieting(s, quiet)
      OBVIOUS
    <3>2. /\ k \in CloudKey
          /\ WithoutData(dataRepository[s][k], c).uploaderCount = 0 \/ IsUnused(WithoutData(dataRepository[s][k], c))
               => k \in quiet
      BY <2>1, <3>1
    <3> HIDE DEF quiet, S
    <3>. QED BY <1>3, <3>2, ToldOfKeyFacts
  <2> HIDE DEF quiet, S
  <2>3. list \in Seq(S)
    BY <2>1, InOrder
  <2>4. f = ToldOfLoss(s, c, list)
    BY DEF f, S
  <2> HIDE DEF list
  <2>5. list \in Seq(CloudKey) /\ \A n \in 1 .. Len(list) : list[n] \in S
    BY <2>1, <2>3
  <2>. QED BY <1>3, <2>2, <2>4, <2>5, ToldOfLossFacts
<1>9. \A k \in CloudKey : k \in quiet => ~(CountIn(dataRepository'[s][k], "uploaded") > 0)
  BY <1>5, <1>6
<1> HIDE DEF quiet
<1>10. /\ f \in Outgoing /\ f[s] = <<>>
       /\ \A t \in CloudMachine : \A i \in 1 .. Len(f[t]) : \A kind \in Kind, j \in CloudKey :
            Unsays(f[t][i], kind, j) => kind = "uploaded" /\ j \in quiet
  BY <1>8 DEF Quieting
<1>11. TellsOfKeys(s, f)
  <2>1. ASSUME NEW k \in CloudKey, NEW kind \in Kind, CountIn(dataRepository'[s][k], kind) > 0
        PROVE  /\ CountIn(dataRepository[s][k], kind) > 0
               /\ \A t \in Known(s) : \A i \in 1 .. Len(f[t]) : ~Unsays(f[t][i], kind, k)
    <3>1. CountIn(dataRepository[s][k], kind) > 0
      BY <1>5, <1>6, <2>1
    <3>2. Known(s) \subseteq CloudMachine
      BY <1>2, <1>3 DEF KnownOK
    <3>3. ~(kind = "uploaded" /\ k \in quiet)
      BY <1>9, <2>1
    <3>. QED BY <1>10, <3>1, <3>2, <3>3
  <2>. QED BY <2>1 DEF TellsOfKeys
<1>12. KnownOK' /\ WiresOK' /\ AllTold' /\ WaitsOK'
  BY <1>1, <1>3, <1>6, <1>10, <1>11, SendsKeep
<1>. QED BY <1>4, <1>7, <1>12 DEF PartsOK

-----------------------------------------------------------------------------
(* The theorems *)

\* Nothing is known, noted or under way at first.
LEMMA CloudInitHolds == CloudInit => PartsOK
<1> SUFFICES ASSUME CloudInit PROVE PartsOK
  OBVIOUS
<1>1. /\ 0 \in 0 .. MaxPosts /\ 0 \in 0 .. MaxGets /\ 0 \in 0 .. MaxDepartures
      /\ NoList.keyData = NoRows /\ NoList.nonSpecificSubscribers = {}
      /\ NoList.uploaderCount = -1 /\ NoList.subscriberCount = -1
      /\ \A u \in CloudUser : NoRows[u] = 0
      /\ NoRows \in Rows
  <2>1. 0 \in 0 .. MaxPosts /\ 0 \in 0 .. MaxGets /\ 0 \in 0 .. MaxDepartures
    BY CloudFacts
  <2>. QED BY <2>1, NewListFits
<1>2. NotesOK
  <2>1. \A s \in CloudMachine, k \in CloudKey : KeyNoted(s, k)
    BY <1>1 DEF KeyNoted, CloudInit
  <2>2. dataRepository \in [CloudMachine -> [CloudKey -> CloudDataList \cup {NoList}]]
    BY DEF CloudInit
  <2>. QED BY <1>1, <2>1, <2>2 DEF NotesOK, CloudInit
<1>3. \A s \in CloudMachine : Known(s) = {} /\ remoteServers[s] \in [{} -> RemoteServer]
  BY DEF CloudInit, Known
<1>4. KnownOK
  BY <1>3 DEF KnownOK, CloudInit
<1>5. ViewsOK
  BY <1>1 DEF ViewsOK, CloudInit
<1>6. WiresOK
  BY DEF WiresOK, CloudInit
<1>7. AllTold
  BY <1>3 DEF AllTold, KeysAreTold
<1>8. WaitsOK
  BY DEF WaitsOK, RequestsWait, QueriesWaitForAnswers, CloudInit
<1>. QED BY <1>2, <1>4, <1>5, <1>6, <1>7, <1>8 DEF PartsOK

\* Every step keeps the invariant.
LEMMA CloudNextKeeps == PartsOK /\ [CloudNext]_cloudVars => PartsOK'
<1> SUFFICES ASSUME PartsOK, [CloudNext]_cloudVars PROVE PartsOK'
  OBVIOUS
<1>1. CASE UNCHANGED cloudVars
  <2>1. UNCHANGED <<attached, dataRepository, uploadedKeys, subscribedKeys, remoteServers,
                    getRequests, nextGetRequestId, wire, unnoticed, posts, departures, view, missed, stranded>>
    BY <1>1 DEF cloudVars
  <2>2. /\ NotesOK /\ KnownOK /\ ViewsOK /\ WiresOK /\ AllTold /\ WaitsOK
    BY DEF PartsOK
  <2>3. NotesOK'
    BY <2>1, <2>2, NotesUnchanged
  <2>4. KnownOK' /\ ViewsOK' /\ WiresOK'
    BY <2>1, <2>2 DEF KnownOK, Known, ViewsOK, WiresOK, Apart
  <2>5. AllTold'
    <3>1. /\ \A u, r \in CloudMachine : r \in Known(u)' => r \in Known(u) /\ remoteServers'[u][r] = remoteServers[u][r]
          /\ \A u, r \in CloudMachine : u \in Known(r)' /\ ~Apart(u, r)' => ~Apart(u, r) /\ wire'[r][u] = wire[r][u]
      BY <2>1 DEF Known, Apart
    <3>. QED BY <2>1, <2>2, <3>1, ForgottenTell
  <2>6. WaitsOK'
    BY <2>1, <2>2 DEF WaitsOK, RequestsWait, QueriesWaitForAnswers, WillEnd, Known
  <2>. QED BY <2>3, <2>4, <2>5, <2>6 DEF PartsOK
<1>2. ASSUME NEW c \in CloudUser, NEW k \in CloudKey,
             \/ OnPostRequest(c, k) \/ OnReleaseRequest(c, k) \/ OnUnsubscribeRequest(c, k)
             \/ \E subscribeToResults \in BOOLEAN : OnGetRequest(c, k, subscribeToResults)
      PROVE  PartsOK'
  BY <1>2, OnPostRequestKeeps, OnReleaseRequestKeeps, OnUnsubscribeRequestKeeps, OnGetRequestKeeps
<1>3. ASSUME NEW s \in CloudMachine, NEW t \in CloudMachine,
             \/ OnServerToServerCommand(s, t) \/ AddServer(s, t) \/ RemoveServer(s, t)
             \/ LoseServerConnection(s, t) \/ ServerClosed(s, t)
      PROVE  PartsOK'
  BY <1>3, OnServerToServerCommandKeeps, AddServerKeeps, RemoveServerKeeps, LoseServerConnectionKeeps,
     ServerClosedKeeps
<1>4. ASSUME NEW c \in CloudUser, Attach(c) \/ ClientClosed(c) PROVE PartsOK'
  BY <1>4, AttachKeeps, ClientClosedKeeps
<1>. QED BY <1>1, <1>2, <1>3, <1>4 DEF CloudNext

\* Two servers that know each other, with nothing under way, believe of each other
\* what is so.
LEMMA NotesFollow == PartsOK => NotesAgree
<1> SUFFICES ASSUME PartsOK PROVE NotesAgree
  OBVIOUS
<1>1. /\ NotesOK /\ AllTold /\ posts \in 0 .. MaxPosts /\ nextGetRequestId \in 0 .. MaxGets
  BY DEF PartsOK, NotesOK
<1>2. ListsAgree
  <2>1. ASSUME NEW c \in CloudUser, NEW k \in CloudKey, NEW l, l = dataRepository[ServerOf[c]][k]
        PROVE  /\ k \in uploadedKeys[c] <=> l # NoList /\ l.keyData[c] # 0
               /\ k \in subscribedKeys[c] <=> c \in l.nonSpecificSubscribers
               /\ l # NoList => /\ l.subscriberCount = Cardinality(l.nonSpecificSubscribers)
                                /\ l.uploaderCount >= Cardinality({u \in CloudUser : l.keyData[u] # 0})
    <3>1. ServerOf[c] \in CloudMachine
      BY CloudFacts
    <3>2. KeyNoted(ServerOf[c], k)
      BY <1>1, <3>1 DEF NotesOK
    <3>3. l = NoList => l.keyData[c] = 0
      BY <1>1, NewListFits
    <3>. QED BY <2>1, <3>2, <3>3 DEF KeyNoted
  <2>. QED BY <2>1 DEF ListsAgree
<1>3. ASSUME NEW s \in CloudMachine, NEW t \in CloudMachine, Mutual(s, t), Quiet(s, t),
             NEW k \in CloudKey, NEW kind \in Kind, CountIn(dataRepository[t][k], kind) > 0
      PROVE  Believed(s, t, kind, k)
  <2>1. s \in Known(t) /\ t \in Known(s) /\ wire[t][s] = <<>> /\ <<s, t>> \notin unnoticed
    BY <1>3 DEF Mutual, Quiet
  <2>2. ~Apart(s, t)
    BY <2>1 DEF PartsOK, KnownOK, Apart
  <2> DEFINE b == t \in Known(s) => Believed(s, t, kind, k)
  <2>3. Arrives(wire[t][s], kind, k, b)
    BY <1>1, <1>3, <2>1, <2>2 DEF AllTold, KeysAreTold
  <2> HIDE DEF b
  <2>4. b
    <3>1. \A i \in DOMAIN <<>> : FALSE
      OBVIOUS
    <3>. QED BY <2>1, <2>3, <3>1 DEF Arrives
  <2>. QED BY <2>1, <2>4 DEF b
<1>4. ServersWithDataAreAsked
  <2>1. ASSUME NEW s \in CloudMachine, NEW t \in CloudMachine, Mutual(s, t), Quiet(s, t),
               NEW k \in CloudKey, RowsOf(t, k) # NoRows
        PROVE  t \in GetServersWithUploadedKeys(s, k)
    <3>1. CountIn(dataRepository[t][k], "uploaded") > 0
      BY <2>1 DEF RowsOf, CountIn
    <3>2. Believed(s, t, "uploaded", k)
      BY <1>3, <2>1, <3>1 DEF Kind
    <3>. QED BY <3>2 DEF Believed
  <2>. QED BY <2>1 DEF ServersWithDataAreAsked
<1>5. ServersWithSubscribersAreTold
  <2>1. ASSUME NEW s \in CloudMachine, NEW t \in CloudMachine, Mutual(s, t), Quiet(s, t),
               NEW k \in CloudKey, dataRepository[t][k].nonSpecificSubscribers # {}
        PROVE  t \in SubscribedServers(s, k)
    <3> DEFINE l == dataRepository[t][k]
    <3>1. l # NoList
      BY <1>1, <2>1, NewListFits
    <3>2. ListFits(l, posts, nextGetRequestId)
      BY <1>1, <3>1, ListNoted
    <3> HIDE DEF l
    <3>3. l.nonSpecificSubscribers # {} => l.subscriberCount > 0
      BY <1>1, <3>2, FitFacts
    <3>4. CountIn(dataRepository[t][k], "subscribed") > 0
      BY <2>1, <3>3 DEF CountIn, l
    <3>5. Believed(s, t, "subscribed", k)
      BY <1>3, <2>1, <3>4 DEF Kind
    <3>. QED BY <3>5 DEF Believed
  <2>. QED BY <2>1 DEF ServersWithSubscribersAreTold
<1>. QED BY <1>2, <1>4, <1>5 DEF NotesAgree

\* The invariant of the cloud.
THEOREM CloudInvariant == CloudSpec => []CloudIInv
<1>1. CloudInit => CloudIInv
  BY CloudInitHolds, CloudParts
<1>2. CloudIInv /\ [CloudNext]_cloudVars => CloudIInv'
  <2>1. SUFFICES ASSUME PartsOK, [CloudNext]_cloudVars PROVE CloudIInv'
    BY CloudParts
  <2>2. PartsOK'
    BY <2>1, CloudNextKeeps
  <2>3. (CloudIInv <=> PartsOK)'
    BY CloudParts, PTL
  <2>. QED BY <2>2, <2>3
<1>. QED BY <1>1, <1>2, PTL DEF CloudSpec

\* What a server notes of its clients and by key are the same, its counts are never
\* behind the facts, and two servers that know each other and have nothing under way
\* would ask and tell each other of every key with data or subscribers
\* (AddUploadedKey, SendUploadedAndSubscribedKeysToServers, RemoveUploadedKeyFromServers
\* and the notes they leave): in whatever order posts, releases, subscriptions,
\* departures of clients and losses of servers come.
THEOREM CloudNotesAgree == CloudSpec => []NotesAgree
<1>1. CloudIInv => NotesAgree
  BY CloudParts, NotesFollow
<1>. QED BY <1>1, CloudInvariant, PTL

\* A query waits only for servers whose answer is under way or to come, or whose loss
\* is about to be noticed (ProcessAndTransmitGetRequest, OnServerToServerGetResponse,
\* OnClosedConnection), unless it is one of those that were stranded.
THEOREM CloudQueriesWait == CloudSpec => []QueriesWaitForAnswers
<1>1. CloudIInv => QueriesWaitForAnswers
  BY DEF CloudIInv
<1>. QED BY <1>1, CloudInvariant, PTL

\* The relay and the cloud server keep their state within its types side by side.
THEOREM ServersTypes == RelaySpec /\ CloudSpec => []ServersTypeOK
<1>1. CloudIInv => CloudTypeOK
  BY DEF CloudIInv
<1>2. RelayTypeOK /\ CloudTypeOK => ServersTypeOK
  BY DEF ServersTypeOK
<1>. QED BY <1>1, <1>2, RelayTypes, CloudInvariant, PTL

=============================================================================
