------------------------ MODULE UDPForwarder_proofs ------------------------
(***************************************************************************)
(* What holds of UDPForwarder for every limit on the entries, every set of *)
(* addresses and sockets, and every interleaving of the two threads.       *)
(***************************************************************************)
EXTENDS UDPForwarder, TLAPS, FiniteSetTheorems

-----------------------------------------------------------------------------
(* Sockets *)

\* The sockets that entries use are no more than the entries.
LEMMA UsedSockets ==
  ASSUME NEW E, IsFiniteSet(E)
  PROVE  /\ IsFiniteSet({e.socket : e \in E})
         /\ Cardinality({e.socket : e \in E}) <= Cardinality(E)
<1> DEFINE T == {e.socket : e \in E}
           f == [e \in E |-> e.socket]
<1>1. f \in Surjection(E, T)
  BY DEF Surjection
<1>. QED BY <1>1, FS_Surjection

\* There are more sockets than entries, so bind finds one that is free.
LEMMA FreeSocketFacts ==
  ASSUME IsFiniteSet(entries), Cardinality(entries) <= maxForwardEntries + 1
  PROVE  FreeSocket \in Socket /\ \A e \in entries : e.socket # FreeSocket
<1> DEFINE used == {e.socket : e \in entries}
           free == Socket \ used
<1>1. free # {}
  <2>1. IsFiniteSet(used) /\ Cardinality(used) <= Cardinality(entries)
    BY UsedSockets
  <2>2. Socket \subseteq used => Cardinality(Socket) <= Cardinality(used)
    BY <2>1, FS_Subset
  <2>3. /\ Cardinality(used) \in Nat /\ Cardinality(entries) \in Nat
        /\ Cardinality(Socket) \in Nat /\ maxForwardEntries \in Nat
        /\ Cardinality(Socket) > maxForwardEntries + 1
    BY <2>1, FS_CardinalityType, SocketAssumption, LimitAssumption
  <2> HIDE DEF used
  <2>. QED BY <2>1, <2>2, <2>3
<1>2. free \subseteq Nat
  BY SocketAssumption
<1>3. PICK s \in free : \A t \in free : ~(<<t, s>> \in OpToRel(<, Nat))
  <2> HIDE DEF free
  <2>. QED BY <1>1, <1>2, NatLessThanWellFounded, WFMin
<1>4. \A t \in free : ~(t < s)
  BY <1>2, <1>3 DEF OpToRel
<1>5. \E x \in Socket :
        /\ \A e \in entries : e.socket # x
        /\ \A t \in Socket : t < x => \E e \in entries : e.socket = t
  BY <1>4
<1>. QED BY <1>5 DEF FreeSocket

-----------------------------------------------------------------------------
(* Entries *)

\* What the invariant says of the entries.
GoodEntries ==
  /\ entries \subseteq ForwardEntry
  /\ IsFiniteSet(entries)
  /\ AtMostOneMore
  /\ OneEntryPerPair
  /\ EndsAreDistinct
  /\ ConfirmedByItsHost
  /\ SocketsAreDistinct

\* The parts of it that are about pairs of entries, and about each.
LEMMA SubsetKeepsGood ==
  ASSUME GoodEntries, entries' \subseteq entries
  PROVE  GoodEntries'
<1>1. IsFiniteSet(entries') /\ Cardinality(entries') <= Cardinality(entries)
  BY FS_Subset DEF GoodEntries
<1>2. AtMostOneMore'
  <2>1. /\ Cardinality(entries') \in Nat /\ Cardinality(entries) \in Nat
        /\ maxForwardEntries \in Nat
    BY <1>1, FS_CardinalityType, LimitAssumption DEF GoodEntries
  <2>. QED BY <1>1, <2>1 DEF GoodEntries, AtMostOneMore
<1>. QED BY <1>1, <1>2
         DEF GoodEntries, OneEntryPerPair, EndsAreDistinct, ConfirmedByItsHost,
             SocketsAreDistinct, Forwards

\* Nothing but the marks of entries changes when the time is read.
LEMMA IdleKeepsGood ==
  ASSUME GoodEntries, NEW late \in SUBSET entries,
         entries' = {[e EXCEPT !.idle = e \in late] : e \in entries}
  PROVE  GoodEntries'
<1> DEFINE mark(e) == [e EXCEPT !.idle = e \in late]
           f == [e \in entries |-> mark(e)]
<1>1. ASSUME NEW e \in entries
      PROVE  /\ mark(e) \in ForwardEntry
             /\ mark(e).addr1Unconfirmed = e.addr1Unconfirmed
             /\ mark(e).addr2Unconfirmed = e.addr2Unconfirmed
             /\ mark(e).addr1Confirmed = e.addr1Confirmed
             /\ mark(e).addr2Confirmed = e.addr2Confirmed
             /\ mark(e).socket = e.socket
  <2>1. e \in ForwardEntry /\ (e \in late) \in BOOLEAN
    BY DEF GoodEntries
  <2>. QED BY <2>1 DEF ForwardEntry
<1>2. f \in Surjection(entries, entries')
  BY DEF Surjection
<1>3. IsFiniteSet(entries') /\ Cardinality(entries') <= Cardinality(entries)
  BY <1>2, FS_Surjection DEF GoodEntries
<1>4. AtMostOneMore'
  <2>1. /\ Cardinality(entries') \in Nat /\ Cardinality(entries) \in Nat
        /\ maxForwardEntries \in Nat
    BY <1>3, FS_CardinalityType, LimitAssumption DEF GoodEntries
  <2>. QED BY <1>3, <2>1 DEF GoodEntries, AtMostOneMore
<1>5. \A x \in entries' : \E e \in entries : x = mark(e)
  OBVIOUS
<1> HIDE DEF mark
<1>6. entries' \subseteq ForwardEntry
  BY <1>1, <1>5
<1>7. OneEntryPerPair'
  BY <1>1, <1>5 DEF GoodEntries, OneEntryPerPair, Forwards
<1>8. EndsAreDistinct' /\ ConfirmedByItsHost' /\ SocketsAreDistinct'
  BY <1>1, <1>5 DEF GoodEntries, EndsAreDistinct, ConfirmedByItsHost, SocketsAreDistinct
<1>. QED BY <1>3, <1>4, <1>6, <1>7, <1>8 DEF GoodEntries

\* A start command adds an entry for a pair that has none.
LEMMA StartKeepsGood ==
  ASSUME GoodEntries, WithinLimit, NEW p \in Pair, \A e \in entries : ~Forwards(e, p),
         entries' = entries \cup {NewEntry(p, FreeSocket)}
  PROVE  GoodEntries'
<1> DEFINE new == NewEntry(p, FreeSocket)
<1>1. FreeSocket \in Socket /\ \A e \in entries : e.socket # FreeSocket
  <2>1. Cardinality(entries) \in Nat /\ maxForwardEntries \in Nat
    BY FS_CardinalityType, LimitAssumption DEF GoodEntries
  <2>. QED BY <2>1, FreeSocketFacts DEF GoodEntries, WithinLimit
<1>2. p[1] \in Address /\ p[2] \in Address
  BY PairAssumption
<1>3. /\ new \in ForwardEntry
      /\ new.addr1Unconfirmed = p[1] /\ new.addr2Unconfirmed = p[2]
      /\ new.addr1Confirmed = NoAddress /\ new.addr2Confirmed = NoAddress
      /\ new.socket = FreeSocket
  BY <1>1, <1>2 DEF NewEntry, ForwardEntry
<1> HIDE DEF new
<1>4. IsFiniteSet(entries') /\ AtMostOneMore'
  <2>1. /\ IsFiniteSet(entries')
        /\ \/ Cardinality(entries') = Cardinality(entries)
           \/ Cardinality(entries') = Cardinality(entries) + 1
    BY FS_AddElement DEF GoodEntries, new
  <2>2. Cardinality(entries) \in Nat /\ maxForwardEntries \in Nat
    BY FS_CardinalityType, LimitAssumption DEF GoodEntries
  <2>. QED BY <2>1, <2>2 DEF AtMostOneMore, WithinLimit
<1>5. OneEntryPerPair'
  BY <1>3 DEF GoodEntries, OneEntryPerPair, Forwards, new
<1>6. EndsAreDistinct' /\ ConfirmedByItsHost' /\ SocketsAreDistinct'
  BY <1>1, <1>3
     DEF GoodEntries, EndsAreDistinct, ConfirmedByItsHost, SocketsAreDistinct, new
<1>. QED BY <1>3, <1>4, <1>5, <1>6 DEF GoodEntries, new

\* A datagram that is read changes, at most, the confirmed address of the end
\* it comes from, which is not the other end's.
LEMMA ConfirmFacts ==
  ASSUME NEW e \in ForwardEntry, NEW from \in Address, NEW n \in FromEnd(e, from),
         e.addr1Confirmed # NoAddress => e.addr1Confirmed # e.addr2Confirmed,
         e.addr1Confirmed # NoAddress => e.addr1Confirmed.host = e.addr1Unconfirmed.host,
         e.addr2Confirmed # NoAddress => e.addr2Confirmed.host = e.addr2Unconfirmed.host
  PROVE  LET new == Confirm(e, n, from)
         IN /\ new \in ForwardEntry
            /\ new.addr1Unconfirmed = e.addr1Unconfirmed
            /\ new.addr2Unconfirmed = e.addr2Unconfirmed
            /\ new.socket = e.socket
            /\ new.addr1Confirmed # NoAddress => new.addr1Confirmed # new.addr2Confirmed
            /\ new.addr1Confirmed # NoAddress
                 => new.addr1Confirmed.host = e.addr1Unconfirmed.host
            /\ new.addr2Confirmed # NoAddress
                 => new.addr2Confirmed.host = e.addr2Unconfirmed.host
<1> DEFINE new == Confirm(e, n, from)
<1>1. from # NoAddress
  BY NoAddressAssumption
<1>2. CASE n = 1 /\ e.addr1Confirmed = NoAddress
  <2>1. e.addr2Confirmed # from /\ from.host = e.addr1Unconfirmed.host
    BY <1>1, <1>2 DEF FromEnd
  <2>2. /\ new \in ForwardEntry
        /\ new.addr1Unconfirmed = e.addr1Unconfirmed
        /\ new.addr2Unconfirmed = e.addr2Unconfirmed
        /\ new.addr2Confirmed = e.addr2Confirmed
        /\ new.addr1Confirmed = from
        /\ new.socket = e.socket
    BY <1>2 DEF Confirm, ForwardEntry
  <2> HIDE DEF new
  <2>. QED BY <2>1, <2>2 DEF new
<1>3. CASE n # 1 /\ e.addr2Confirmed = NoAddress
  <2>1. e.addr1Confirmed # from /\ from.host = e.addr2Unconfirmed.host
    BY <1>1, <1>3 DEF FromEnd
  <2>2. /\ new \in ForwardEntry
        /\ new.addr1Unconfirmed = e.addr1Unconfirmed
        /\ new.addr2Unconfirmed = e.addr2Unconfirmed
        /\ new.addr1Confirmed = e.addr1Confirmed
        /\ new.addr2Confirmed = from
        /\ new.socket = e.socket
    <3>1. new = [e EXCEPT !.addr2Confirmed = from, !.idle = FALSE]
      BY <1>3, Zenon DEF Confirm
    <3>. QED BY <3>1 DEF ForwardEntry
  <2> HIDE DEF new
  <2>. QED BY <2>1, <2>2 DEF new
<1>4. CASE \/ n = 1 /\ e.addr1Confirmed # NoAddress
           \/ n # 1 /\ e.addr2Confirmed # NoAddress
  <2>1. /\ new \in ForwardEntry
        /\ new.addr1Unconfirmed = e.addr1Unconfirmed
        /\ new.addr2Unconfirmed = e.addr2Unconfirmed
        /\ new.addr1Confirmed = e.addr1Confirmed
        /\ new.addr2Confirmed = e.addr2Confirmed
        /\ new.socket = e.socket
    <3>1. CASE n = 1
      <4>1. new = [e EXCEPT !.addr1Confirmed = e.addr1Confirmed, !.idle = FALSE]
        BY <1>4, <3>1, Zenon DEF Confirm
      <4>. QED BY <4>1 DEF ForwardEntry
    <3>2. CASE n # 1
      <4>1. new = [e EXCEPT !.addr2Confirmed = e.addr2Confirmed, !.idle = FALSE]
        BY <1>4, <3>2, Zenon DEF Confirm
      <4>. QED BY <4>1 DEF ForwardEntry
    <3>. QED BY <3>1, <3>2
  <2> HIDE DEF new
  <2>. QED BY <2>1 DEF new
<1>. QED BY <1>2, <1>3, <1>4

LEMMA ReceiveKeepsGood ==
  ASSUME GoodEntries, NEW e \in entries, NEW from \in Address, NEW n \in FromEnd(e, from),
         entries' = (entries \ {e}) \cup {Confirm(e, n, from)}
  PROVE  GoodEntries'
<1> DEFINE new == Confirm(e, n, from)
<1>1. /\ new \in ForwardEntry
      /\ new.addr1Unconfirmed = e.addr1Unconfirmed
      /\ new.addr2Unconfirmed = e.addr2Unconfirmed
      /\ new.socket = e.socket
      /\ new.addr1Confirmed # NoAddress => new.addr1Confirmed # new.addr2Confirmed
      /\ new.addr1Confirmed # NoAddress => new.addr1Confirmed.host = e.addr1Unconfirmed.host
      /\ new.addr2Confirmed # NoAddress => new.addr2Confirmed.host = e.addr2Unconfirmed.host
  BY ConfirmFacts DEF GoodEntries, EndsAreDistinct, ConfirmedByItsHost
<1> HIDE DEF new
<1>2. entries' = (entries \ {e}) \cup {new}
  BY DEF new
<1>3. IsFiniteSet(entries') /\ AtMostOneMore'
  <2> DEFINE others == entries \ {e}
  <2>1. IsFiniteSet(others) /\ Cardinality(others) = Cardinality(entries) - 1
    BY FS_RemoveElement DEF GoodEntries
  <2>2. entries' = others \cup {new}
    BY <1>2
  <2> HIDE DEF others
  <2>3. /\ IsFiniteSet(entries')
        /\ \/ Cardinality(entries') = Cardinality(others)
           \/ Cardinality(entries') = Cardinality(others) + 1
    BY <2>1, <2>2, FS_AddElement
  <2>4. Cardinality(entries) \in Nat /\ maxForwardEntries \in Nat
    BY FS_CardinalityType, LimitAssumption DEF GoodEntries
  <2>. QED BY <2>1, <2>3, <2>4 DEF GoodEntries, AtMostOneMore
<1>4. OneEntryPerPair'
  BY <1>1, <1>2 DEF GoodEntries, OneEntryPerPair, Forwards
<1>5. EndsAreDistinct' /\ ConfirmedByItsHost' /\ SocketsAreDistinct'
  BY <1>1, <1>2 DEF GoodEntries, EndsAreDistinct, ConfirmedByItsHost, SocketsAreDistinct
<1>. QED BY <1>1, <1>2, <1>3, <1>4, <1>5 DEF GoodEntries

-----------------------------------------------------------------------------
(* One step *)

LEMMA GoodInvariant ==
  ASSUME IInv PROVE GoodEntries
BY DEF IInv, TypeOK, EntriesKept, GoodEntries

\* The queues of commands and of results.
LEMMA QueueFacts ==
  ASSUME NEW S, NEW q \in Seq(S)
  PROVE  /\ \A x \in S : Append(q, x) \in Seq(S) /\ Len(Append(q, x)) = Len(q) + 1
         /\ Len(q) \in Nat
         /\ q = <<>> <=> Len(q) = 0
         /\ q # <<>> => Head(q) \in S /\ Tail(q) \in Seq(S) /\ Len(Tail(q)) = Len(q) - 1
OBVIOUS

\* Every step of the forwarding thread, and the removal of all entries by
\* Shutdown, keeps the entries good.
LEMMA NextGood ==
  ASSUME IInv, Next PROVE GoodEntries'
<1>1. GoodEntries
  BY GoodInvariant
<1>2. ASSUME UNCHANGED entries PROVE GoodEntries'
  BY <1>1, <1>2, SubsetKeepsGood
<1>3. ASSUME entries' \subseteq entries PROVE GoodEntries'
  BY <1>1, <1>3, SubsetKeepsGood
<1>4. CASE Calls
  BY <1>2, <1>4 DEF Calls, Startup, Shutdown, StartForwarding, StopForwarding, threadVars
<1>5. CASE Returns
  BY <1>2, <1>3, <1>5
     DEF Returns, StartupReturns, ShutdownReturns, StartForwardingReturns, threadVars
<1>6. CASE UpdateBegins
  BY <1>1, <1>6, IdleKeepsGood DEF UpdateBegins
<1>7. CASE StartOne
  <2>1. Head(input) \in Pair
    BY <1>7, QueueFacts DEF StartOne, IInv, TypeOK
  <2>. QED BY <1>1, <1>2, <1>7, <2>1, StartKeepsGood DEF StartOne
<1>8. CASE StopOne \/ NoMoreStops
  BY <1>2, <1>3, <1>8 DEF StopOne, NoMoreStops
<1>9. ASSUME NEW e \in entries, RecvFrom(e) PROVE GoodEntries'
  BY <1>1, <1>2, <1>9, ReceiveKeepsGood DEF RecvFrom
<1>10. CASE ThreadBegins \/ ThreadEnds \/ NoMoreStarts \/ UpdateEnds
  BY <1>2, <1>10 DEF ThreadBegins, ThreadEnds, NoMoreStarts, UpdateEnds
<1>. QED BY <1>4, <1>5, <1>6, <1>7, <1>8, <1>9, <1>10 DEF Next, ForwardingThread

\* The queues hold commands and results, one result for the call that waits.
Queues ==
  /\ input \in Seq(Pair)
  /\ output \in Seq(Output)
  /\ stops \in Seq(Pair)
  /\ OneResultPerCall

LEMMA NextQueues ==
  ASSUME IInv, Next PROVE Queues'
<1>1. /\ input \in Seq(Pair) /\ output \in Seq(Output) /\ stops \in Seq(Pair)
      /\ Len(input) + Len(output) = IF call = "StartForwarding" THEN 1 ELSE 0
      /\ Len(input) \in Nat /\ Len(output) \in Nat
  BY DEF IInv, TypeOK, OneResultPerCall
<1>2. ASSUME UNCHANGED <<input, output, stops>>,
             call = "StartForwarding" <=> call' = "StartForwarding"
      PROVE  Queues'
  BY <1>1, <1>2 DEF Queues, OneResultPerCall
<1>3. CASE Startup \/ Shutdown \/ StartupReturns \/ ShutdownReturns
  BY <1>2, <1>3
     DEF Startup, Shutdown, StartupReturns, ShutdownReturns, NoCall, sharedVars
<1>4. ASSUME NEW p \in Pair, StartForwarding(p) PROVE Queues'
  <2>1. input' \in Seq(Pair) /\ Len(input') = Len(input) + 1
    BY <1>1, <1>4, QueueFacts DEF StartForwarding
  <2>. QED BY <1>1, <1>4, <2>1 DEF StartForwarding, NoCall, Queues, OneResultPerCall
<1>5. ASSUME NEW p \in Pair, StopForwarding(p) PROVE Queues'
  <2>1. stops' \in Seq(Pair)
    BY <1>1, <1>5, QueueFacts DEF StopForwarding
  <2>. QED BY <1>1, <1>5, <2>1 DEF StopForwarding, Queues, OneResultPerCall
<1>6. CASE StartForwardingReturns
  <2>1. output' \in Seq(Output) /\ Len(output') = Len(output) - 1 /\ Len(output) # 0
    BY <1>1, <1>6, QueueFacts DEF StartForwardingReturns
  <2>. QED BY <1>1, <1>6, <2>1 DEF StartForwardingReturns, Queues, OneResultPerCall
<1>7. CASE StartOne
  <2>1. /\ Head(input) \in Pair /\ Tail(input) \in Seq(Pair)
        /\ Len(Tail(input)) = Len(input) - 1
    BY <1>1, <1>7, QueueFacts DEF StartOne
  <2>2. \E result \in Result, port \in Socket \cup {0} : PushResult(Head(input), result, port)
    <3>1. WithinLimit => FreeSocket \in Socket
      <4>1. IsFiniteSet(entries) /\ Cardinality(entries) <= maxForwardEntries + 1
        BY DEF IInv, AtMostOneMore
      <4>. QED BY <4>1, FreeSocketFacts
    <3>2. \A e \in entries : e.socket \in Socket
      BY DEF IInv, TypeOK, ForwardEntry
    <3>. QED BY <1>7, <3>1, <3>2 DEF StartOne, Result
  <2>3. PICK result \in Result, port \in Socket \cup {0} :
          PushResult(Head(input), result, port)
    BY <2>2
  <2> DEFINE out == [pair |-> Head(input), result |-> result, port |-> port]
  <2>4. out \in Output /\ output' = Append(output, out)
    BY <2>1, <2>3 DEF Output, PushResult
  <2> HIDE DEF out
  <2>5. output' \in Seq(Output) /\ Len(output') = Len(output) + 1
    BY <1>1, <2>4, QueueFacts
  <2>. QED BY <1>1, <1>7, <2>1, <2>5 DEF StartOne, Queues, OneResultPerCall
<1>8. CASE StopOne
  <2>1. stops' \in Seq(Pair)
    BY <1>1, <1>8, QueueFacts DEF StopOne
  <2>. QED BY <1>1, <1>8, <2>1 DEF StopOne, Queues, OneResultPerCall
<1>9. ASSUME \/ ThreadBegins \/ ThreadEnds \/ UpdateBegins \/ NoMoreStarts \/ NoMoreStops
             \/ UpdateEnds \/ \E e \in entries : RecvFrom(e)
      PROVE  Queues'
  BY <1>2, <1>9 DEF ThreadBegins, ThreadEnds, UpdateBegins, NoMoreStarts, NoMoreStops,
                    UpdateEnds, RecvFrom, sharedVars
<1>. QED BY <1>3, <1>4, <1>5, <1>6, <1>7, <1>8, <1>9
         DEF Next, Calls, Returns, ForwardingThread

\* Where the two threads are.
Control ==
  /\ isRunning \in BOOLEAN /\ threadRunning \in BOOLEAN
  /\ thread \in {"none", "created", "loop", "starts", "stops", "receive"}
  /\ call \in {"none", "Startup", "Shutdown", "StartForwarding"}
  /\ toRead \subseteq Socket
  /\ ThreadsAgree
  /\ ClosedAfterShutdown

LEMMA NextControl ==
  ASSUME IInv, Next PROVE Control'
<1>. USE DEF Control, ThreadsAgree, ClosedAfterShutdown, NoCall
<1>1. Control /\ \A e \in entries : e.socket \in Socket
  BY DEF IInv, TypeOK, EntriesKept, ForwardEntry
<1>2. CASE Calls
  <2>1. CASE Startup
    BY <1>1, <2>1 DEF Startup
  <2>2. CASE Shutdown
    BY <1>1, <2>2 DEF Shutdown, threadVars
  <2>3. ASSUME NEW p \in Pair, StartForwarding(p) \/ StopForwarding(p) PROVE Control'
    <3>1. /\ UNCHANGED <<isRunning, threadRunning, thread, entries, toRead>>
          /\ \/ isRunning /\ call' = "StartForwarding"
             \/ UNCHANGED call
          /\ call = "none"
      BY <2>3 DEF StartForwarding, StopForwarding, threadVars
    <3>. QED BY <1>1, <3>1
  <2>. QED BY <1>2, <2>1, <2>2, <2>3 DEF Calls
<1>3. CASE Returns
  BY <1>1, <1>3 DEF Returns, StartupReturns, ShutdownReturns, StartForwardingReturns,
                    sharedVars, threadVars
<1>4. CASE ThreadBegins \/ ThreadEnds
  <2>1. CASE ThreadBegins
    BY <1>1, <2>1 DEF ThreadBegins
  <2>2. CASE ThreadEnds
    <3>1. /\ thread = "loop" /\ thread' = "none" /\ ~isRunning /\ threadRunning' = FALSE
          /\ UNCHANGED <<isRunning, call, entries, toRead>>
      BY <2>2 DEF ThreadEnds
    <3>2. call = "Shutdown"
      BY <1>1, <3>1
    <3>. QED BY <1>1, <3>1, <3>2
  <2>. QED BY <1>4, <2>1, <2>2
<1>5. CASE UpdateBegins
  <2>1. /\ thread = "loop" /\ isRunning /\ thread' = "starts"
        /\ UNCHANGED <<isRunning, threadRunning, call, toRead>>
    BY <1>5 DEF UpdateBegins, sharedVars
  <2>. QED BY <1>1, <2>1
<1>6. CASE StartOne \/ StopOne \/ NoMoreStarts
  <2>1. /\ thread \in {"starts", "stops"} /\ thread' \in {"starts", "stops"}
        /\ UNCHANGED <<isRunning, threadRunning, call, toRead>>
    BY <1>6 DEF StartOne, StopOne, NoMoreStarts, sharedVars
  <2>. QED BY <1>1, <2>1
<1>7. CASE NoMoreStops
  <2>1. toRead' \subseteq Socket
    BY <1>1, <1>7 DEF NoMoreStops
  <2>. QED BY <1>1, <1>7, <2>1 DEF NoMoreStops, sharedVars
<1>8. CASE UpdateEnds \/ \E e \in entries : RecvFrom(e)
  BY <1>1, <1>8 DEF RecvFrom, UpdateEnds, sharedVars
<1>. QED BY <1>2, <1>3, <1>4, <1>5, <1>6, <1>7, <1>8 DEF Next, ForwardingThread

LEMMA InitInv ==
  ASSUME Init PROVE IInv
<1>1. IsFiniteSet(entries) /\ Cardinality(entries) = 0
  BY FS_EmptySet DEF Init
<1>2. AtMostOneMore
  BY <1>1, LimitAssumption DEF AtMostOneMore
<1>3. TypeOK
  <2>1. <<>> \in Seq(Pair) /\ <<>> \in Seq(Output)
    OBVIOUS
  <2>. QED BY <2>1 DEF Init, TypeOK
<1>4. /\ OneEntryPerPair /\ ClosedAfterShutdown /\ EndsAreDistinct
      /\ ConfirmedByItsHost /\ SocketsAreDistinct /\ ThreadsAgree
  BY DEF Init, OneEntryPerPair, ClosedAfterShutdown, EndsAreDistinct, ConfirmedByItsHost,
         SocketsAreDistinct, ThreadsAgree
<1>5. OneResultPerCall
  BY DEF Init, OneResultPerCall
<1>. QED BY <1>1, <1>2, <1>3, <1>4, <1>5 DEF IInv, EntriesKept

LEMMA NextInv ==
  ASSUME IInv, [Next]_vars PROVE IInv'
<1>1. CASE Next
  <2>1. GoodEntries' /\ Queues' /\ Control'
    BY <1>1, NextGood, NextQueues, NextControl
  <2>. QED BY <2>1 DEF GoodEntries, Queues, Control, IInv, TypeOK, EntriesKept
<1>2. CASE UNCHANGED vars
  BY <1>2 DEF vars, sharedVars, threadVars, IInv, TypeOK, EntriesKept, OneEntryPerPair,
              AtMostOneMore, ClosedAfterShutdown, NoCall, EndsAreDistinct, ConfirmedByItsHost,
              SocketsAreDistinct, ThreadsAgree, OneResultPerCall, Forwards
<1>. QED BY <1>1, <1>2

-----------------------------------------------------------------------------
(* Theorems *)

\* The invariant all the others follow from: wherever the caller's thread and
\* the forwarding thread of UDPForwarder.cpp are, every access of one of them
\* to what they share keeps it.
THEOREM Invariant == Spec => []IInv
<1>1. Init => IInv
  BY InitInv
<1>2. IInv /\ [Next]_vars => IInv'
  BY NextInv
<1>. QED BY <1>1, <1>2, PTL DEF Spec

\* The variables keep their types: above all, whatever has been bound, a
\* socket that bind returns is one, and results carry it to the caller.
THEOREM Types == Spec => []TypeOK
<1>1. IInv => TypeOK
  BY DEF IInv
<1>. QED BY <1>1, Invariant, PTL

\* Two ends have at most one entry, the entries stay within one of the limit
\* that line 422 compares them with, and none is left when Shutdown returns,
\* though commands reach the forwarding thread whenever it looks for them.
THEOREM Entries == Spec => []EntriesKept
<1>1. IInv => EntriesKept
  BY DEF IInv
<1>. QED BY <1>1, Invariant, PTL

\* StartForwarding polls for a result without looking whose it is; it is the
\* one of its own command, since no other can be there.
THEOREM ResultIsOwn == Spec => []OneResultPerCall
<1>1. IInv => OneResultPerCall
  BY DEF IInv
<1>. QED BY <1>1, Invariant, PTL

\* RecvFrom forwards what one end sends to the other end, and nothing that
\* comes from elsewhere, whoever has sent before and from whichever port.
THEOREM Forwarding == Spec => []ForwardsBetweenEnds
<1>1. IInv => ForwardsBetweenEnds
  <2>. SUFFICES ASSUME IInv PROVE ForwardsBetweenEnds
    OBVIOUS
  <2>1. ConfirmedByItsHost /\ EndsAreDistinct
    BY DEF IInv
  <2>2. ForwardedToOtherEnd
    <3>. SUFFICES ASSUME NEW e \in entries,
                         e.addr1Unconfirmed.host # e.addr2Unconfirmed.host,
                         NEW from \in Address, NEW n \in FromEnd(e, from)
                  PROVE  ForwardTarget(e, n) =
                           LET other == IF from.host = e.addr1Unconfirmed.host
                                        THEN <<e.addr2Unconfirmed, e.addr2Confirmed>>
                                        ELSE <<e.addr1Unconfirmed, e.addr1Confirmed>>
                           IN IF other[2] # NoAddress THEN other[2] ELSE other[1]
      BY DEF ForwardedToOtherEnd
    <3>1. from # NoAddress
      BY NoAddressAssumption
    <3>2. \/ n = 1 /\ from.host = e.addr1Unconfirmed.host
          \/ n = 2 /\ from.host = e.addr2Unconfirmed.host
      BY <2>1, <3>1 DEF FromEnd, ConfirmedByItsHost
    <3>. QED BY <3>2 DEF ForwardTarget, EndAddress
  <2>3. StrangersAreDropped
    BY <2>1 DEF StrangersAreDropped, FromEnd, ConfirmedByItsHost
  <2>. QED BY <2>1, <2>2, <2>3 DEF ForwardsBetweenEnds
<1>. QED BY <1>1, Invariant, PTL

=============================================================================
