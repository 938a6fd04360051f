-------------------------- MODULE ReliabilityLayer --------------------------
(***************************************************************************)
(* Messages from one system to another, Source/ReliabilityLayer.cpp: the   *)
(* sender numbers, splits, sends and sends again, the receiver drops       *)
(* duplicates, puts parts together, orders, and acknowledges datagrams.    *)
(*                                                                         *)
(* Datagrams are lost, repeated and overtaken: they stay in the network,   *)
(* and any is received at any time or never.  Any message that waits for   *)
(* an acknowledgement may be due to be sent again, so that NAKs, which     *)
(* only make it due earlier, and the congestion window are left out.       *)
(* There are one priority and one ordering channel.                        *)
(***************************************************************************)
EXTENDS Integers, Sequences, SequencesExt, FiniteSetsExt

CONSTANTS
  NumberRange,           \* message, datagram and ordering numbers are modulo this
  ResendBufferLength,    \* RESEND_BUFFER_ARRAY_LENGTH
  DatagramArrayLength,   \* DATAGRAM_MESSAGE_ID_ARRAY_LENGTH
  SequenceWeight,        \* the weight of one ordering index in the ordering heap
  Scenario,              \* what is sent, after how many messages
  MaxCopies,             \* bound: copies of a datagram that arrive
  MaxPerDatagram,        \* bound: packets in one datagram
  MaxDatagrams           \* bound: datagrams with messages

Sequenced == {"RELIABLE_SEQUENCED", "UNRELIABLE_SEQUENCED"}
Ordered == {"RELIABLE_ORDERED", "RELIABLE_ORDERED_WITH_ACK_RECEIPT"}
WithReceipt == {"RELIABLE_WITH_ACK_RECEIPT", "RELIABLE_ORDERED_WITH_ACK_RECEIPT"}
Reliable == WithReceipt \cup {"RELIABLE", "RELIABLE_ORDERED", "RELIABLE_SEQUENCED"}
PacketReliability ==
  Reliable \cup {"UNRELIABLE", "UNRELIABLE_SEQUENCED", "UNRELIABLE_WITH_ACK_RECEIPT"}

\* The bounds keep every number that is used, however old, within half of the range.
ASSUME ReliabilityAssumption ==
  /\ {NumberRange, ResendBufferLength, DatagramArrayLength, SequenceWeight} \subseteq Nat \ {0}
  /\ MaxCopies \in Nat /\ MaxDatagrams \in 0 .. NumberRange
  /\ \A s \in Scenario :
       /\ s.first \in 0 .. NumberRange - 1
       /\ s.script \in Seq([reliability : PacketReliability, parts : 1 .. 2])
       /\ 2 * Len(s.script) <= (NumberRange - 1) \div 2

VARIABLES
  scenario,          \* one of Scenario
  sent,              \* the messages passed to Send
  outgoingPacketBuffer, sendReliableMessageNumberIndex,
  resendBuffer, resendList,              \* message numbers of the linked list
  datagramHistory, datagramHistoryPopCount,
  unreliableWithAckReceiptHistory,
  receipts,          \* ID_SND_RECEIPT_ACKED and ID_SND_RECEIPT_LOSS, by message
  datagrams,         \* datagrams with messages in the network
  acks,              \* acknowledged datagrams, of which the sender may learn
  receiver           \* what the other system keeps, see Receiver

reliabilityVars == <<scenario, sent, outgoingPacketBuffer, sendReliableMessageNumberIndex,
                     resendBuffer, resendList, datagramHistory, datagramHistoryPopCount,
                     unreliableWithAckReceiptHistory, receipts, datagrams, acks, receiver>>

Wrap(n) == n % NumberRange
NoNumber == NumberRange - 1    \* reliableMessageNumber of a new InternalPacket

SentMessage == [reliability : PacketReliability, parts : 1 .. 2,
                orderingIndex : 0 .. NumberRange - 1, sequencingIndex : 0 .. NumberRange - 1]
InternalPacket == [id : Nat, part : Nat, number : 0 .. NumberRange - 1]
NoPacket == [id |-> 0, part |-> 0, number |-> NoNumber]
Slot(number) == number % ResendBufferLength

-----------------------------------------------------------------------------
(* The sender *)

\* A message that is split is made reliable.
Upgraded(reliability, parts) ==
  CASE parts > 1 /\ reliability = "UNRELIABLE" -> "RELIABLE"
    [] parts > 1 /\ reliability = "UNRELIABLE_WITH_ACK_RECEIPT" -> "RELIABLE_WITH_ACK_RECEIPT"
    [] parts > 1 /\ reliability = "UNRELIABLE_SEQUENCED" -> "RELIABLE_SEQUENCED"
    [] OTHER -> reliability

OrderedBefore(n) == Cardinality({i \in 1 .. n : sent[i].reliability \in Ordered})
SequencedSince(n) ==
  Cardinality({i \in 1 .. n : /\ sent[i].reliability \in Sequenced
                              /\ \A j \in i .. n : sent[j].reliability \notin Ordered})

\* orderedWriteIndex and sequencedWriteIndex are what has been sent before.
Send ==
  LET id == Len(sent) + 1
      next == scenario.script[id]
  IN /\ id <= Len(scenario.script)
     /\ sent' = Append(sent, [reliability |-> Upgraded(next.reliability, next.parts),
                              parts |-> next.parts,
                              orderingIndex |-> Wrap(scenario.first + OrderedBefore(id - 1)),
                              sequencingIndex |-> Wrap(SequencedSince(id - 1))])
     /\ outgoingPacketBuffer' = outgoingPacketBuffer \o
          [p \in 1 .. next.parts |-> [id |-> id, part |-> p, number |-> NoNumber]]
     /\ UNCHANGED <<scenario, sendReliableMessageNumberIndex, resendBuffer, resendList,
                    datagramHistory, datagramHistoryPopCount, unreliableWithAckReceiptHistory,
                    receipts, datagrams, acks, receiver>>

NextDatagram == Wrap(scenario.first + Cardinality(datagrams))
\* Mutant: the buffer is never full.
NeverFull(buffer, number) == FALSE

ResendBufferOverflow(buffer, number) == buffer[Slot(number)] # NoPacket

\* AddFirstToDatagramHistory and AddSubsequentToDatagramHistory: the oldest of
\* DATAGRAM_MESSAGE_ID_ARRAY_LENGTH + 1 datagrams is forgotten.
IntoHistory(packets) ==
  LET full == Len(datagramHistory) > DatagramArrayLength
      numbers == {packets[i].number : i \in {j \in DOMAIN packets :
                    sent[packets[j].id].reliability \notin {"UNRELIABLE", "UNRELIABLE_SEQUENCED"}}}
  IN /\ datagramHistory' = Append(IF full THEN Tail(datagramHistory) ELSE datagramHistory, numbers)
     /\ datagramHistoryPopCount' = IF full THEN Wrap(datagramHistoryPopCount + 1)
                                   ELSE datagramHistoryPopCount

SendDatagram(packets) ==
  /\ Cardinality(datagrams) < MaxDatagrams
  /\ datagrams' = datagrams \cup {[number |-> NextDatagram, packets |-> packets, copies |-> MaxCopies]}
  /\ IntoHistory(packets)
  /\ UNCHANGED <<scenario, sent, receipts, acks, receiver>>

\* A packet that is sent for the first time; a reliable one is given its number
\* and its place in the resend buffer.
PushPacket(s, p) ==
  LET numbered == [p EXCEPT !.number = s.next]
      fits == s.fits /\ ~ResendBufferOverflow(s.buffer, s.next)
  IN IF sent[p.id].reliability \in Reliable
     THEN [buffer |-> [s.buffer EXCEPT ![Slot(s.next)] = numbered], next |-> Wrap(s.next + 1),
           list |-> Append(s.list, s.next), packets |-> Append(s.packets, numbered), fits |-> fits]
     ELSE [s EXCEPT !.packets = Append(@, p), !.fits = fits]

\* What comes of the first n of the packets that have not been sent.
Pushed(n) ==
  LET pushed[i \in 0 .. n] ==
        IF i = 0 THEN [buffer |-> resendBuffer, next |-> sendReliableMessageNumberIndex,
                       list |-> resendList, packets |-> <<>>, fits |-> TRUE]
        ELSE PushPacket(pushed[i - 1], outgoingPacketBuffer[i])
  IN pushed[n]

\* Update: a datagram of the first n packets that have not been sent.
SendPackets(n) ==
  LET s == Pushed(n)
  IN /\ n <= Len(outgoingPacketBuffer) /\ s.fits
     /\ outgoingPacketBuffer' = SubSeq(outgoingPacketBuffer, n + 1, Len(outgoingPacketBuffer))
     /\ resendBuffer' = s.buffer /\ resendList' = s.list
     /\ sendReliableMessageNumberIndex' = s.next
     /\ unreliableWithAckReceiptHistory' = unreliableWithAckReceiptHistory \cup
          {<<NextDatagram, s.packets[i].id>> : i \in {j \in 1 .. n :
             sent[s.packets[j].id].reliability = "UNRELIABLE_WITH_ACK_RECEIPT"}}
     /\ SendDatagram(s.packets)

\* Update: a datagram of the first n packets of the resend list, which are due
\* and go to its end.
ResendPackets(n) ==
  LET due == SubSeq(resendList, 1, n)
  IN /\ n <= Len(resendList)
     /\ resendList' = SubSeq(resendList, n + 1, Len(resendList)) \o due
     /\ SendDatagram([i \in 1 .. n |-> resendBuffer[Slot(due[i])]])
     /\ UNCHANGED <<outgoingPacketBuffer, sendReliableMessageNumberIndex, resendBuffer,
                    unreliableWithAckReceiptHistory>>

LessThan(a, b) == a # b /\ Wrap(b - a) < (NumberRange - 1) \div 2

\* Mutant: datagrams that were forgotten are not counted.
MessageNumbersByPlace(d) ==
  IF Wrap(d - scenario.first) >= Len(datagramHistory) THEN {}
  ELSE datagramHistory[Wrap(d - scenario.first) + 1]

\* GetMessageNumberNodeByDatagramIndex
MessageNumbers(d) ==
  LET offset == Wrap(d - datagramHistoryPopCount)
  IN IF LessThan(d, datagramHistoryPopCount) \/ offset >= Len(datagramHistory) THEN {}
     ELSE datagramHistory[offset + 1]

\* A list without some numbers.
RemoveFromList(list, gone) ==
  LET left[i \in 0 .. Len(list)] ==
        IF i = 0 THEN <<>>
        ELSE IF list[i] \in gone THEN left[i - 1] ELSE Append(left[i - 1], list[i])
  IN left[Len(list)]

IsInResendBuffer(number) == resendBuffer[Slot(number)] # NoPacket /\ resendBuffer[Slot(number)].number = number

\* An acknowledgement of datagram d, which is refused for the largest number of
\* the range: its messages leave the resend buffer
\* (RemovePacketFromResendListAndDeleteOlderReliableSequenced), and those that
\* ask for it are reported, a message that was split with its last part.
OnAck(d) ==
  LET acked == {n \in MessageNumbers(d) : IsInResendBuffer(n)}
      lastOf(id) == \E n \in acked : LET p == resendBuffer[Slot(n)]
                                     IN p.id = id /\ p.part = sent[id].parts
      reported == {id \in DOMAIN sent : \/ sent[id].reliability \in WithReceipt /\ lastOf(id)
                                        \/ <<d, id>> \in unreliableWithAckReceiptHistory}
  IN /\ d \in acks /\ d # NumberRange - 1
     /\ receipts' = [id \in DOMAIN receipts |->
                       IF id \in reported THEN Append(receipts[id], "ACKED") ELSE receipts[id]]
     /\ unreliableWithAckReceiptHistory' = {x \in unreliableWithAckReceiptHistory : x[1] # d}
     /\ resendBuffer' = [i \in DOMAIN resendBuffer |->
                           IF \E n \in acked : Slot(n) = i THEN NoPacket ELSE resendBuffer[i]]
     /\ resendList' = RemoveFromList(resendList, acked)
     /\ datagramHistory' = IF MessageNumbers(d) = {} THEN datagramHistory
                           ELSE [datagramHistory EXCEPT ![Wrap(d - datagramHistoryPopCount) + 1] = {}]
     /\ UNCHANGED <<scenario, sent, outgoingPacketBuffer, sendReliableMessageNumberIndex,
                    datagramHistoryPopCount, datagrams, acks, receiver>>

\* Update: an unreliable message whose acknowledgement has not come in time.
ReportLoss(x) ==
  /\ x \in unreliableWithAckReceiptHistory
  /\ unreliableWithAckReceiptHistory' = unreliableWithAckReceiptHistory \ {x}
  /\ receipts' = [receipts EXCEPT ![x[2]] = Append(@, "LOSS")]
  /\ UNCHANGED <<scenario, sent, outgoingPacketBuffer, sendReliableMessageNumberIndex,
                 resendBuffer, resendList, datagramHistory, datagramHistoryPopCount,
                 datagrams, acks, receiver>>

-----------------------------------------------------------------------------
(* The receiver *)

Receiver ==
  [receivedPacketsBaseIndex : 0 .. NumberRange - 1, hasReceivedPacketQueue : Seq(BOOLEAN),
   splitPackets : SUBSET (Nat \X Nat),          \* splitPacketChannelList
   orderedReadIndex : 0 .. NumberRange - 1, highestSequencedReadIndex : 0 .. NumberRange - 1,
   heapIndexOffset : 0 .. NumberRange - 1, orderingHeap : Seq([weight : Nat, id : Nat]),
   outputQueue : Seq(Nat),
   accepted : SUBSET (Nat \X Nat)]              \* packets that were not duplicates

HoleCount(r, p) == Wrap(p.number - r.receivedPacketsBaseIndex)

IsDuplicate(r, p) ==
  LET hole == HoleCount(r, p)
  IN \/ hole > (NumberRange - 1) \div 2
     \/ hole # 0 /\ hole < Len(r.hasReceivedPacketQueue) /\ ~r.hasReceivedPacketQueue[hole + 1]

\* TRUE stands for a number that has not been received.
Holes(r, p) ==
  LET hole == HoleCount(r, p)
      queue == r.hasReceivedPacketQueue
  IN IF hole < Len(queue) THEN [queue EXCEPT ![hole + 1] = FALSE]
     ELSE queue \o [i \in 1 .. hole - Len(queue) |-> TRUE] \o <<FALSE>>

\* The numbers up to the first hole leave the queue.
NoteNumber(r, p) ==
  LET queue == Holes(r, p)
      received == Cardinality({i \in DOMAIN queue : \A j \in 1 .. i : ~queue[j]})
  IN [r EXCEPT !.hasReceivedPacketQueue = SubSeq(queue, received + 1, Len(queue)),
               !.receivedPacketsBaseIndex = Wrap(@ + received)]

IsOlderOrderedPacket(new, waiting) ==
  LET half == (NumberRange - 1) \div 2
  IN IF waiting > half THEN new >= waiting - half + 1 /\ new < waiting
     ELSE new >= Wrap(waiting - (half + 1)) \/ new < waiting

Output(r, id) == [r EXCEPT !.outputQueue = Append(@, id)]

\* What is first on the heap, if that is e and its turn has come.
PopFirst(r, e) ==
  IF r.orderingHeap = <<>> \/ r.orderingHeap[1] # e \/ sent[e.id].orderingIndex # r.orderedReadIndex
  THEN r
  ELSE LET popped == [Output(r, e.id) EXCEPT !.orderingHeap = Tail(@)]
       IN IF sent[e.id].reliability \in Sequenced
          THEN [popped EXCEPT !.highestSequencedReadIndex = sent[e.id].sequencingIndex]
          ELSE [popped EXCEPT !.orderedReadIndex = Wrap(@ + 1)]

\* Return off heap until order lost.
PopHeap(r) ==
  LET popped[i \in 0 .. Len(r.orderingHeap)] ==
        IF i = 0 THEN r ELSE PopFirst(popped[i - 1], r.orderingHeap[i])
  IN popped[Len(r.orderingHeap)]

PushHeap(r0, id) ==
  LET r == IF r0.orderingHeap = <<>> THEN [r0 EXCEPT !.heapIndexOffset = r0.orderedReadIndex] ELSE r0
      weight == Wrap(sent[id].orderingIndex - r.heapIndexOffset) * SequenceWeight
                + IF sent[id].reliability \in Sequenced THEN sent[id].sequencingIndex
                  ELSE SequenceWeight - 1
      before == Cardinality({i \in DOMAIN r.orderingHeap : r.orderingHeap[i].weight <= weight})
  IN [r EXCEPT !.orderingHeap = InsertAt(@, before + 1, [weight |-> weight, id |-> id])]

\* Mutant: a later message is not held back.
DeliverAtOnce(r, id) ==
  IF sent[id].reliability \in Sequenced \cup Ordered
     /\ IsOlderOrderedPacket(sent[id].orderingIndex, r.orderedReadIndex) THEN r
  ELSE Output(r, id)

\* A whole message.
Deliver(r, id) ==
  LET m == sent[id]
  IN IF m.reliability \notin Sequenced \cup Ordered THEN Output(r, id)
     ELSE IF m.orderingIndex # r.orderedReadIndex
     THEN IF IsOlderOrderedPacket(m.orderingIndex, r.orderedReadIndex) THEN r ELSE PushHeap(r, id)
     ELSE IF m.reliability \in Ordered
     THEN PopHeap([Output(r, id) EXCEPT !.orderedReadIndex = Wrap(@ + 1), !.highestSequencedReadIndex = 0])
     ELSE IF IsOlderOrderedPacket(m.sequencingIndex, r.highestSequencedReadIndex) THEN r
     ELSE [Output(r, id) EXCEPT !.highestSequencedReadIndex = Wrap(m.sequencingIndex + 1)]

\* InsertIntoSplitPacketList and BuildPacketFromSplitPacketList.
Assemble(r, p) ==
  LET parts == {x \in r.splitPackets : x[1] = p.id} \cup {<<p.id, p.part>>}
  IN IF Cardinality(parts) = sent[p.id].parts
     THEN Deliver([r EXCEPT !.splitPackets = @ \ parts], p.id)
     ELSE [r EXCEPT !.splitPackets = @ \cup parts]

ReceivePacket(r, p) ==
  LET reliable == sent[p.id].reliability \in Reliable
      noted == IF reliable THEN NoteNumber(r, p) ELSE r
      accepted == [noted EXCEPT !.accepted = @ \cup {<<p.id, p.part>>}]
  IN IF reliable /\ IsDuplicate(r, p) THEN r
     ELSE IF sent[p.id].parts > 1 THEN Assemble(accepted, p) ELSE Deliver(accepted, p.id)

ReceivedFrom(d) ==
  LET received[i \in 0 .. Len(d.packets)] ==
        IF i = 0 THEN receiver ELSE ReceivePacket(received[i - 1], d.packets[i])
  IN received[Len(d.packets)]

\* HandleSocketReceiveFromConnectedPlayer: a copy of datagram d arrives.
ReceiveDatagram(d) ==
  /\ d \in datagrams /\ d.copies > 0
  /\ datagrams' = (datagrams \ {d}) \cup {[d EXCEPT !.copies = @ - 1]}
  /\ acks' = acks \cup {d.number}
  /\ receiver' = ReceivedFrom(d)
  /\ UNCHANGED <<scenario, sent, outgoingPacketBuffer, sendReliableMessageNumberIndex,
                 resendBuffer, resendList, datagramHistory, datagramHistoryPopCount,
                 unreliableWithAckReceiptHistory, receipts>>

-----------------------------------------------------------------------------
(* Specification *)

\* Both systems after scenario.first messages and datagrams.
ReliabilityInit ==
  /\ scenario \in Scenario
  /\ sent = <<>> /\ outgoingPacketBuffer = <<>> /\ resendList = <<>> /\ datagramHistory = <<>>
  /\ sendReliableMessageNumberIndex = scenario.first
  /\ datagramHistoryPopCount = scenario.first
  /\ resendBuffer = [i \in 0 .. ResendBufferLength - 1 |-> NoPacket]
  /\ unreliableWithAckReceiptHistory = {} /\ datagrams = {} /\ acks = {}
  /\ receipts = [i \in DOMAIN scenario.script |-> <<>>]
  /\ receiver = [receivedPacketsBaseIndex |-> scenario.first, hasReceivedPacketQueue |-> <<>>,
                 splitPackets |-> {}, orderedReadIndex |-> scenario.first,
                 highestSequencedReadIndex |-> 0, heapIndexOffset |-> 0, orderingHeap |-> <<>>,
                 outputQueue |-> <<>>, accepted |-> {}]

ReliabilityNext ==
  \/ Send
  \/ \E n \in 1 .. MaxPerDatagram : SendPackets(n) \/ ResendPackets(n)
  \/ \E d \in acks : OnAck(d)
  \/ \E x \in unreliableWithAckReceiptHistory : ReportLoss(x)
  \/ \E d \in datagrams : ReceiveDatagram(d)

ReliabilitySpec == ReliabilityInit /\ [][ReliabilityNext]_reliabilityVars

-----------------------------------------------------------------------------
(* Properties *)

IdsOf(kinds) == {i \in DOMAIN sent : sent[i].reliability \in kinds}
Delivered == ToSet(receiver.outputQueue)

ReliabilityTypeOK ==
  /\ sent \in Seq(SentMessage) /\ receiver \in Receiver
  /\ resendBuffer \in [0 .. ResendBufferLength - 1 -> InternalPacket]
  /\ sendReliableMessageNumberIndex \in 0 .. NumberRange - 1
  /\ unreliableWithAckReceiptHistory \subseteq (0 .. NumberRange - 1) \X DOMAIN sent
  /\ acks \subseteq {d.number : d \in datagrams}
  /\ \A id \in DOMAIN receipts : receipts[id] \in Seq({"ACKED", "LOSS"})

\* What ValidateResendList, commented out, would compare: the list from which
\* messages are sent again holds each message of the resend buffer once.
ResendListOK ==
  /\ \A i, j \in DOMAIN resendList : resendList[i] = resendList[j] => i = j
  /\ ToSet(resendList) = {resendBuffer[i].number : i \in {j \in DOMAIN resendBuffer : resendBuffer[j] # NoPacket}}

\* A reliable message, each of its parts, waits to be sent, is kept to be sent
\* again, or has been received.
ReliableOnesKept ==
  \A id \in IdsOf(Reliable) : \A part \in 1 .. sent[id].parts :
    \/ <<id, part>> \in receiver.accepted
    \/ \E i \in DOMAIN outgoingPacketBuffer :
         outgoingPacketBuffer[i].id = id /\ outgoingPacketBuffer[i].part = part
    \/ \E i \in DOMAIN resendBuffer : resendBuffer[i].id = id /\ resendBuffer[i].part = part

\* No message is lost between the queue, the two lists and the other system.
NoMessageForgotten == ResendListOK /\ ReliableOnesKept

\* "This message is reliable and will arrive in the order you sent it"
\* (PacketPriority.h): what has been delivered of the ordered messages is what
\* was sent first of them, each once.
OrderedAsSent ==
  LET ordered(id) == sent[id].reliability \in Ordered
      out == SelectSeq(receiver.outputQueue, ordered)
      all == SelectSeq([i \in DOMAIN sent |-> i], ordered)
  IN IsPrefix(out, all)

\* "Sequenced and ordered messages sent on the same channel will arrive in the
\* order sent" (PacketPriority.h), and reliable ones arrive once.
ChannelInOrder ==
  LET out == receiver.outputQueue
  IN \A i, j \in DOMAIN out : i < j /\ {out[i], out[j]} \subseteq IdsOf(Sequenced \cup Ordered) =>
       \/ out[i] < out[j]
       \/ out[i] = out[j] /\ sent[out[i]].reliability = "UNRELIABLE_SEQUENCED"

\* Every reliable message that is not sequenced is delivered once, or held back
\* with a reason: a missing part, or an ordered message before it.
HeldBackForAReason ==
  \A id \in IdsOf(Reliable \ {"RELIABLE_SEQUENCED"}) :
    /\ Cardinality({i \in DOMAIN receiver.outputQueue : receiver.outputQueue[i] = id}) <= 1
    /\ \/ id \in Delivered
       \/ \E part \in 1 .. sent[id].parts : <<id, part>> \notin receiver.accepted
       \/ id \in IdsOf(Ordered) /\ \E i \in IdsOf(Ordered) : i < id /\ i \notin Delivered

\* What the application gets is what was sent, in the order its kind promises,
\* and nothing that could be delivered is held back.
DeliveredInOrder == OrderedAsSent /\ ChannelInOrder /\ HeldBackForAReason

\* One receipt for a message, and of a message that is not split
\* ID_SND_RECEIPT_ACKED only when it has arrived.
ReceiptsTrue ==
  \A id \in DOMAIN receipts :
    /\ Len(receipts[id]) <= 1
    /\ receipts[id] = <<"ACKED">> /\ sent[id].parts = 1 => <<id, 1>> \in receiver.accepted

\* "Out or order messages will be dropped" (PacketPriority.h), and no others: a
\* sequenced message that has arrived is delivered or held back, unless a later
\* message of the channel has been delivered.
OnlyOldOnesDropped ==
  \A id \in IdsOf(Sequenced) :
    (\A part \in 1 .. sent[id].parts : <<id, part>> \in receiver.accepted) =>
      \/ id \in Delivered
      \/ \E i \in DOMAIN receiver.orderingHeap : receiver.orderingHeap[i].id = id
      \/ \E later \in Delivered \cap IdsOf(Sequenced \cup Ordered) : later > id

-----------------------------------------------------------------------------
(* The inductive invariant: what NoMessageForgotten and ReceiptsTrue rest on. *)

\* Numbers counted from the first that is used.
Offset(number) == Wrap(number - scenario.first)
Numbered == Offset(sendReliableMessageNumberIndex)

\* The packets that have been sent, and what tells one from another.
Packets == UNION {ToSet(d.packets) : d \in datagrams}
Key(p) == <<p.id, p.part>>
IsReliable(p) == sent[p.id].reliability \in Reliable
IsPart(p) == p \in InternalPacket /\ p.id \in DOMAIN sent /\ p.part \in 1 .. sent[p.id].parts

MessagesAreScripted ==
  /\ scenario \in Scenario
  /\ sent \in Seq(SentMessage) /\ Len(sent) <= Len(scenario.script)
  /\ \A id \in DOMAIN sent :
       LET said == scenario.script[id]
       IN sent[id].parts = said.parts /\ sent[id].reliability = Upgraded(said.reliability, said.parts)
  /\ receipts \in [DOMAIN scenario.script -> Seq({"ACKED", "LOSS"})]

\* What waits has not been sent, and there are numbers left for it.
QueueIsNew ==
  /\ outgoingPacketBuffer \in Seq(InternalPacket)
  /\ sendReliableMessageNumberIndex \in 0 .. NumberRange - 1
  /\ Numbered + Len(outgoingPacketBuffer) <= 2 * Len(sent)
  /\ \A i \in DOMAIN outgoingPacketBuffer :
       /\ IsPart(outgoingPacketBuffer[i]) /\ outgoingPacketBuffer[i].number = NoNumber
       /\ \A p \in Packets : Key(p) # Key(outgoingPacketBuffer[i])
       /\ \A j \in DOMAIN outgoingPacketBuffer :
            Key(outgoingPacketBuffer[j]) = Key(outgoingPacketBuffer[i]) => i = j

\* A reliable part has one number, and a number one part.
PacketsAreNumbered ==
  /\ \A p \in Packets :
       /\ IsPart(p)
       /\ IF IsReliable(p) THEN Offset(p.number) < Numbered ELSE p.number = NoNumber
  /\ \A p, q \in Packets :
       IsReliable(p) /\ IsReliable(q) /\ (p.number = q.number \/ Key(p) = Key(q)) => p = q

DatagramsAreNumbered ==
  /\ IsFiniteSet(datagrams) /\ Cardinality(datagrams) <= MaxDatagrams
  /\ datagrams \subseteq [number : 0 .. NumberRange - 1, packets : Seq(InternalPacket), copies : Nat]
  /\ \A d \in datagrams : Offset(d.number) < Cardinality(datagrams)
  /\ \A d, e \in datagrams : d.number = e.number => d = e

\* What is kept to be sent again was sent, and is on the list.
BufferIsOfPackets ==
  /\ resendBuffer \in [0 .. ResendBufferLength - 1 -> InternalPacket]
  /\ \A i \in DOMAIN resendBuffer : resendBuffer[i] # NoPacket =>
       /\ resendBuffer[i] \in Packets /\ IsReliable(resendBuffer[i])
       /\ Slot(resendBuffer[i].number) = i
  /\ resendList \in Seq(0 .. NumberRange - 1)
  /\ \A i \in DOMAIN resendList : IsInResendBuffer(resendList[i])
  /\ ResendListOK

\* An acknowledgement finds numbers of its own datagram only.
HistoryIsOfDatagrams ==
  /\ datagramHistory \in Seq(SUBSET (0 .. NumberRange - 1))
  /\ datagramHistoryPopCount \in 0 .. NumberRange - 1
  /\ Offset(datagramHistoryPopCount) + Len(datagramHistory) = Cardinality(datagrams)
  /\ \A i \in DOMAIN datagramHistory : \A d \in datagrams :
       Offset(d.number) = Offset(datagramHistoryPopCount) + i - 1 =>
         \A n \in datagramHistory[i] : \E p \in ToSet(d.packets) :
           /\ p.number = n
           /\ sent[p.id].reliability \notin {"UNRELIABLE", "UNRELIABLE_SEQUENCED"}

\* The number counts as received.
Noted(r, number) ==
  LET base == Offset(r.receivedPacketsBaseIndex)
      queue == r.hasReceivedPacketQueue
  IN \/ Offset(number) < base
     \/ Offset(number) < base + Len(queue) /\ ~queue[Offset(number) - base + 1]

\* What is taken for a duplicate, or acknowledged, has been received.
NotedIsAccepted ==
  /\ receiver \in Receiver
  /\ receiver.orderingHeap \in Seq([weight : Nat, id : DOMAIN sent])
  /\ Offset(receiver.receivedPacketsBaseIndex) + Len(receiver.hasReceivedPacketQueue) <= Numbered
  /\ \A p \in Packets : IsReliable(p) /\ Noted(receiver, p.number) => Key(p) \in receiver.accepted
  /\ acks \subseteq {d.number : d \in datagrams}
  /\ \A d \in datagrams : d.number \in acks =>
       \A p \in ToSet(d.packets) : Key(p) \in receiver.accepted

\* A message that may yet have a receipt has had none.
ReceiptsAreDue ==
  /\ \A x \in unreliableWithAckReceiptHistory :
       /\ x[2] \in DOMAIN sent /\ sent[x[2]].reliability = "UNRELIABLE_WITH_ACK_RECEIPT"
       /\ receipts[x[2]] = <<>>
       /\ \E d \in datagrams : \E p \in ToSet(d.packets) : x = <<d.number, p.id>>
       /\ \A y \in unreliableWithAckReceiptHistory : x[2] = y[2] => x = y
  /\ \A id \in DOMAIN receipts : id \notin DOMAIN sent => receipts[id] = <<>>
  /\ \A p \in ToSet(outgoingPacketBuffer) \cup {resendBuffer[i] : i \in DOMAIN resendBuffer} :
       p # NoPacket /\ p.part = sent[p.id].parts => receipts[p.id] = <<>>

ReliabilityIInv ==
  /\ MessagesAreScripted /\ QueueIsNew /\ PacketsAreNumbered /\ DatagramsAreNumbered
  /\ BufferIsOfPackets /\ HistoryIsOfDatagrams /\ NotedIsAccepted
  /\ ReceiptsAreDue /\ ReceiptsTrue /\ ReliableOnesKept

\* A message that asks for a receipt without being reliable keeps NoNumber, which
\* its acknowledgement removes from the resend buffer: no reliable message has
\* that number where this is the case.
NoNumberIsUnused ==
  \A s \in Scenario : \A i \in DOMAIN s.script :
    s.script[i].reliability = "UNRELIABLE_WITH_ACK_RECEIPT" => s.first + 2 * Len(s.script) < NumberRange

=============================================================================
