---------------------------- MODULE UDPForwarder ----------------------------
(***************************************************************************)
(* The forwarding of datagrams, Source/UDPForwarder.cpp.                   *)
(*                                                                         *)
(* Two threads.  The caller's, that of the UDPProxyServer plugin, starts   *)
(* and stops the system and its forwardings; the forwarding thread owns    *)
(* the entries and runs UpdateUDPForwarder in a loop.  They share two      *)
(* command queues, one list of results and two counters.  StartForwarding  *)
(* polls until its result is there; StopForwarding leaves a command and    *)
(* returns, whether the thread runs or not.                                *)
(*                                                                         *)
(* A step of the forwarding thread is what it does between two accesses    *)
(* to what is shared.  The plugin makes one call at a time, so at most one *)
(* start command is queued and inputId, which matches results with calls,  *)
(* is left out.                                                            *)
(***************************************************************************)
EXTENDS Integers, Sequences, SequencesExt, FiniteSets

CONSTANTS
  Host, Port,          \* what addresses are made of
  NoAddress,           \* UNASSIGNED_SYSTEM_ADDRESS
  Pair,                \* <<source, destination>> of the calls
  Socket,              \* the ports the system may give to a socket
  maxForwardEntries,   \* what SetMaxForwardEntries has set
  MaxStops             \* bound: stop commands queued at a time

Address == [host : Host, port : Port]

ASSUME NoAddressAssumption == NoAddress \notin Address
ASSUME PairAssumption == Pair \subseteq Address \X Address
ASSUME LimitAssumption == maxForwardEntries \in Nat \ {0}
ASSUME SocketAssumption ==
  IsFiniteSet(Socket) /\ Socket \subseteq Nat /\ Cardinality(Socket) > maxForwardEntries + 1

VARIABLES
  isRunning,       \* the counter Startup and Shutdown set
  threadRunning,   \* the counter the forwarding thread sets
  thread,          \* where the forwarding thread is
  input,           \* startForwardingInput
  output,          \* startForwardingOutput
  stops,           \* stopForwardingCommands
  entries,         \* forwardListNotUpdated
  toRead,          \* sockets this update has still to read from
  call             \* the call of the caller that is in progress

sharedVars == <<isRunning, threadRunning, input, output, stops>>
threadVars == <<thread, entries, toRead>>
vars == <<sharedVars, call, threadVars>>

Result == {"UDPFORWARDER_SUCCESS", "UDPFORWARDER_NO_SOCKETS",
           "UDPFORWARDER_FORWARDING_ALREADY_EXISTS", "UDPFORWARDER_BIND_FAILED"}

\* What the thread pushes; the caller copies the port on success only.
Output == [pair : Pair, result : Result, port : Socket \cup {0}]

ForwardEntry ==
  [addr1Unconfirmed : Address, addr2Unconfirmed : Address,
   addr1Confirmed : Address \cup {NoAddress},
   addr2Confirmed : Address \cup {NoAddress},
   socket : Socket,
   idle : BOOLEAN]       \* timeoutOnNoDataMS had passed when curTime was read

-----------------------------------------------------------------------------
(* Helpers *)

\* Entry e forwards between the two addresses of p.
Forwards(e, p) ==
  \/ e.addr1Unconfirmed = p[1] /\ e.addr2Unconfirmed = p[2]
  \/ e.addr1Unconfirmed = p[2] /\ e.addr2Unconfirmed = p[1]

\* Mutant: the socket is not stored.
EntryWithoutSocket(p, s) ==
  [addr1Unconfirmed |-> p[1], addr2Unconfirmed |-> p[2],
   addr1Confirmed |-> NoAddress, addr2Confirmed |-> NoAddress,
   idle |-> FALSE]

NewEntry(p, s) ==
  [addr1Unconfirmed |-> p[1], addr2Unconfirmed |-> p[2],
   addr1Confirmed |-> NoAddress, addr2Confirmed |-> NoAddress,
   socket |-> s, idle |-> FALSE]

\* The socket bind gets.  Which of the free ones it is makes no difference.
FreeSocket ==
  CHOOSE s \in Socket :
    /\ \A e \in entries : e.socket # s
    /\ \A t \in Socket : t < s => \E e \in entries : e.socket = t

-----------------------------------------------------------------------------
(* The caller's thread *)

NoCall == call = "none"

\* Startup: a second call does nothing.  If the thread cannot be created, the
\* counter stays set.
Startup ==
  /\ NoCall
  /\ ~isRunning
  /\ isRunning' = TRUE
  /\ \/ thread' = "created" /\ call' = "Startup"
     \/ UNCHANGED <<thread, call>>
  /\ UNCHANGED <<threadRunning, input, output, stops, entries, toRead>>

StartupReturns ==
  /\ call = "Startup"
  /\ threadRunning
  /\ call' = "none"
  /\ UNCHANGED <<sharedVars, threadVars>>

Shutdown ==
  /\ NoCall
  /\ isRunning
  /\ isRunning' = FALSE
  /\ call' = "Shutdown"
  /\ UNCHANGED <<threadRunning, input, output, stops, threadVars>>

\* Mutant: the entries are not cleared.
ShutdownKeepsEntries ==
  /\ call = "Shutdown"
  /\ ~threadRunning
  /\ call' = "none"
  /\ UNCHANGED <<entries, sharedVars, thread, toRead>>

\* The entries are deleted, and with them their sockets; commands that are
\* queued stay queued.
ShutdownReturns ==
  /\ call = "Shutdown"
  /\ ~threadRunning
  /\ entries' = {}
  /\ call' = "none"
  /\ UNCHANGED <<sharedVars, thread, toRead>>

\* A call with invalid parameters, or before Startup, returns at once and
\* changes nothing.
StartForwarding(p) ==
  /\ NoCall
  /\ isRunning
  /\ input' = Append(input, p)
  /\ call' = "StartForwarding"
  /\ UNCHANGED <<isRunning, threadRunning, output, stops, threadVars>>

StartForwardingReturns ==
  /\ call = "StartForwarding"
  /\ output # <<>>
  /\ output' = Tail(output)
  /\ call' = "none"
  /\ UNCHANGED <<isRunning, threadRunning, input, stops, threadVars>>

StopForwarding(p) ==
  /\ NoCall
  /\ Len(stops) < MaxStops
  /\ stops' = Append(stops, p)
  /\ UNCHANGED <<isRunning, threadRunning, input, output, call, threadVars>>

-----------------------------------------------------------------------------
(* The forwarding thread *)

ThreadBegins ==
  /\ thread = "created"
  /\ threadRunning' = TRUE
  /\ thread' = "loop"
  /\ UNCHANGED <<isRunning, input, output, stops, call, entries, toRead>>

ThreadEnds ==
  /\ thread = "loop"
  /\ ~isRunning
  /\ threadRunning' = FALSE
  /\ thread' = "none"
  /\ UNCHANGED <<isRunning, input, output, stops, call, entries, toRead>>

\* UpdateUDPForwarder reads the time: late are the entries that have
\* forwarded nothing for too long.
UpdateBegins ==
  /\ thread = "loop"
  /\ isRunning
  /\ \E late \in SUBSET entries :
       entries' = {[e EXCEPT !.idle = e \in late] : e \in entries}
  /\ thread' = "starts"
  /\ UNCHANGED <<sharedVars, call, toRead>>

PushResult(p, result, port) ==
  output' = Append(output, [pair |-> p, result |-> result, port |-> port])

\* Line 422: the entries are compared before one is inserted.
WithinLimit == Cardinality(entries) <= maxForwardEntries

\* Mutant: a command that finds the limit reached gets no result.
StartOneQuietly ==
  /\ thread = "starts"
  /\ input # <<>>
  /\ LET p == Head(input)
     IN \/ ~WithinLimit /\ UNCHANGED <<entries, output>>
        \/ /\ WithinLimit
           /\ entries' = entries \cup {NewEntry(p, FreeSocket)}
           /\ PushResult(p, "UDPFORWARDER_SUCCESS", FreeSocket)
  /\ input' = Tail(input)
  /\ UNCHANGED <<isRunning, threadRunning, stops, call, thread, toRead>>

\* A start command: the entry exists, or is made if a socket can be bound.
StartOne ==
  /\ thread = "starts"
  /\ input # <<>>
  /\ LET p == Head(input)
     IN \/ /\ ~WithinLimit
           /\ PushResult(p, "UDPFORWARDER_NO_SOCKETS", 0)
           /\ UNCHANGED entries
        \/ /\ WithinLimit
           /\ \E e \in entries :
                /\ Forwards(e, p)
                /\ PushResult(p, "UDPFORWARDER_FORWARDING_ALREADY_EXISTS", e.socket)
           /\ UNCHANGED entries
        \/ /\ WithinLimit
           /\ \A e \in entries : ~Forwards(e, p)
           /\ \/ /\ entries' = entries \cup {NewEntry(p, FreeSocket)}
                 /\ PushResult(p, "UDPFORWARDER_SUCCESS", FreeSocket)
              \/ /\ PushResult(p, "UDPFORWARDER_BIND_FAILED", 0)
                 /\ UNCHANGED entries
  /\ input' = Tail(input)
  /\ UNCHANGED <<isRunning, threadRunning, stops, call, thread, toRead>>

NoMoreStarts ==
  /\ thread = "starts"
  /\ input = <<>>
  /\ thread' = "stops"
  /\ UNCHANGED <<sharedVars, call, entries, toRead>>

\* Mutant: the entry is looked for by the addresses it has confirmed.
StopOneConfirmed ==
  /\ thread = "stops"
  /\ stops # <<>>
  /\ entries' = {e \in entries : <<e.addr1Confirmed, e.addr2Confirmed>> # Head(stops)}
  /\ stops' = Tail(stops)
  /\ UNCHANGED <<isRunning, threadRunning, input, output, call, thread, toRead>>

\* A stop command: the first entry that forwards between the two is removed.
StopOne ==
  /\ thread = "stops"
  /\ stops # <<>>
  /\ \/ \E e \in entries : Forwards(e, Head(stops)) /\ entries' = entries \ {e}
     \/ (\A e \in entries : ~Forwards(e, Head(stops))) /\ UNCHANGED entries
  /\ stops' = Tail(stops)
  /\ UNCHANGED <<isRunning, threadRunning, input, output, call, thread, toRead>>

\* No stop command is left: the entries that time out are removed, and the
\* sockets of the others are read.
NoMoreStops ==
  /\ thread = "stops"
  /\ stops = <<>>
  /\ entries' = {e \in entries : ~e.idle}
  /\ toRead' = {e.socket : e \in entries'}
  /\ thread' = "receive"
  /\ UNCHANGED <<sharedVars, call>>

\* Mutant: an end that has sent is not recognised before the other is tried.
FromUnconfirmedEnd(e, from) ==
  IF e.addr1Confirmed = NoAddress /\ e.addr1Unconfirmed.host = from.host THEN {1}
  ELSE IF e.addr2Confirmed = NoAddress /\ e.addr2Unconfirmed.host = from.host THEN {2}
  ELSE {n \in 1 .. 2 : from = IF n = 1 THEN e.addr1Confirmed ELSE e.addr2Confirmed}

\* The end of e a datagram from that address comes from.  An end that has not
\* sent before is known by its host.
FromEnd(e, from) ==
  LET confirmed1 == e.addr1Confirmed # NoAddress
      confirmed2 == e.addr2Confirmed # NoAddress
  IN IF \/ e.addr1Confirmed = from
        \/ /\ e.addr2Confirmed # from
           /\ ~confirmed1 /\ e.addr1Unconfirmed.host = from.host
     THEN {1}
     ELSE IF \/ e.addr2Confirmed = from
             \/ ~confirmed2 /\ e.addr2Unconfirmed.host = from.host
          THEN {2}
          ELSE {}

\* Where datagrams for an end go to.
EndAddress(e, n) ==
  IF n = 1
  THEN IF e.addr1Confirmed # NoAddress THEN e.addr1Confirmed ELSE e.addr1Unconfirmed
  ELSE IF e.addr2Confirmed # NoAddress THEN e.addr2Confirmed ELSE e.addr2Unconfirmed

\* Where a datagram that comes from end n is sent.
ForwardTarget(e, n) == EndAddress(e, 3 - n)

Confirm(e, n, from) ==
  IF n = 1
  THEN [e EXCEPT !.addr1Confirmed = IF @ = NoAddress THEN from ELSE @, !.idle = FALSE]
  ELSE [e EXCEPT !.addr2Confirmed = IF @ = NoAddress THEN from ELSE @, !.idle = FALSE]

\* RecvFrom: at most one datagram is read from each socket.
RecvFrom(e) ==
  /\ thread = "receive"
  /\ e.socket \in toRead
  /\ \/ UNCHANGED entries           \* there is none, or a stranger's
     \/ \E from \in Address : \E n \in FromEnd(e, from) :
          entries' = (entries \ {e}) \cup {Confirm(e, n, from)}
  /\ toRead' = toRead \ {e.socket}
  /\ UNCHANGED <<sharedVars, call, thread>>

UpdateEnds ==
  /\ thread = "receive"
  /\ toRead = {}
  /\ thread' = "loop"
  /\ UNCHANGED <<sharedVars, call, entries, toRead>>

-----------------------------------------------------------------------------
(* Specification *)

Init ==
  /\ isRunning = FALSE
  /\ threadRunning = FALSE
  /\ thread = "none"
  /\ input = <<>> /\ output = <<>> /\ stops = <<>>
  /\ entries = {}
  /\ toRead = {}
  /\ call = "none"

Calls ==
  \/ Startup \/ Shutdown
  \/ \E p \in Pair : StartForwarding(p) \/ StopForwarding(p)

Returns == StartupReturns \/ ShutdownReturns \/ StartForwardingReturns

ForwardingThread ==
  \/ ThreadBegins \/ ThreadEnds
  \/ UpdateBegins \/ StartOne \/ NoMoreStarts \/ StopOne \/ NoMoreStops
  \/ \E e \in entries : RecvFrom(e)
  \/ UpdateEnds

Next == Calls \/ Returns \/ ForwardingThread

Spec == Init /\ [][Next]_vars

\* Both threads are scheduled.  Nobody has to call, and the plugin, which makes
\* a call per message it receives, does not refill a queue for ever before the
\* forwarding thread has emptied it.
FairSpec ==
  /\ Spec
  /\ WF_vars(Returns) /\ WF_vars(ForwardingThread)
  /\ SF_vars(NoMoreStarts) /\ SF_vars(NoMoreStops)

-----------------------------------------------------------------------------
(* Properties *)

TypeOK ==
  /\ isRunning \in BOOLEAN /\ threadRunning \in BOOLEAN
  /\ thread \in {"none", "created", "loop", "starts", "stops", "receive"}
  /\ input \in Seq(Pair)
  /\ output \in Seq(Output)
  /\ stops \in Seq(Pair)
  /\ entries \subseteq ForwardEntry
  /\ toRead \subseteq Socket
  /\ call \in {"none", "Startup", "Shutdown", "StartForwarding"}

\* The two ends of a forwarding have one entry, however often and in whichever
\* direction it was asked for, so one stop command ends it.
OneEntryPerPair ==
  \A e, f \in entries : Forwards(e, <<f.addr1Unconfirmed, f.addr2Unconfirmed>>) => e = f

\* There are never more entries than "the maximum number of simultaneous
\* forwarding entries" (SetMaxForwardEntries).  The code allows one more: it
\* compares before it inserts.
LimitKept == Cardinality(entries) <= maxForwardEntries

\* "Stops the system, and frees all sockets": once Shutdown has returned no
\* entry is left, and none comes back before the next Startup.
ClosedAfterShutdown == ~isRunning /\ NoCall => entries = {} /\ thread = "none"

\* What the forwarding thread holds is what the caller has asked for: one entry
\* for a pair, and none when the thread is gone.
EntriesKept == OneEntryPerPair /\ ClosedAfterShutdown

\* An address is never taken for both ends of an entry, not even when the two
\* ends share a host and are told apart by their ports only.
EndsAreDistinct ==
  \A e \in entries : e.addr1Confirmed # NoAddress => e.addr1Confirmed # e.addr2Confirmed

\* A datagram that is forwarded next, whoever sends it, goes from one end to
\* the other, when the two have different hosts: to the address the other end
\* has sent from, if it has.
ForwardedToOtherEnd ==
  \A e \in entries : e.addr1Unconfirmed.host # e.addr2Unconfirmed.host =>
    \A from \in Address : \A n \in FromEnd(e, from) :
      LET to == ForwardTarget(e, n)
          other == IF from.host = e.addr1Unconfirmed.host
                   THEN <<e.addr2Unconfirmed, e.addr2Confirmed>>
                   ELSE <<e.addr1Unconfirmed, e.addr1Confirmed>>
      IN to = IF other[2] # NoAddress THEN other[2] ELSE other[1]

\* An end that has sent is known by its whole address from then on: what comes
\* from another port of its host is not forwarded, unless the host is the other
\* end's as well.
StrangersAreDropped ==
  \A e \in entries : e.addr1Unconfirmed.host # e.addr2Unconfirmed.host =>
    \A from \in Address \ {e.addr1Confirmed, e.addr2Confirmed} :
      \/ e.addr1Confirmed # NoAddress /\ from.host = e.addr1Confirmed.host
      \/ e.addr2Confirmed # NoAddress /\ from.host = e.addr2Confirmed.host
      => FromEnd(e, from) = {}

\* What comes from one end goes to the other end and nowhere else, and what
\* comes from elsewhere goes nowhere, whoever sends first and in which order.
ForwardsBetweenEnds == EndsAreDistinct /\ ForwardedToOtherEnd /\ StrangersAreDropped

\* Startup did not get a thread.  Its assertion is gone in a release build.
NoThread == isRunning /\ thread = "none"

\* Every call returns: the caller never polls for a counter or for a result
\* that does not come, unless there is no thread.
CallsReturn == ~NoCall ~> (NoCall \/ NoThread)

\* A forwarding that is to be stopped is stopped, though the command may be
\* overtaken by start commands and outlive the thread.
StopsTakeEffect ==
  \A p \in Pair : (\E i \in 1 .. Len(stops) : stops[i] = p) ~>
                    (\A e \in entries : ~Forwards(e, p))

-----------------------------------------------------------------------------
(* The inductive invariant: what the properties above rest on. *)

\* The caller and the forwarding thread agree on where the other one is: the
\* counters tell each what the other does.
ThreadsAgree ==
  /\ threadRunning <=> thread \in {"loop", "starts", "stops", "receive"}
  /\ thread = "created" => call = "Startup"
  /\ call \in {"Startup", "StartForwarding"} => isRunning
  /\ call = "Shutdown" => ~isRunning

\* A start command is queued, or its result is there, while its call waits for
\* it, and at no other time: no call can take the result of another.
OneResultPerCall ==
  Len(input) + Len(output) = IF call = "StartForwarding" THEN 1 ELSE 0

\* An end is confirmed by its own host.
ConfirmedByItsHost ==
  \A e \in entries :
    /\ e.addr1Confirmed # NoAddress => e.addr1Confirmed.host = e.addr1Unconfirmed.host
    /\ e.addr2Confirmed # NoAddress => e.addr2Confirmed.host = e.addr2Unconfirmed.host

\* The entries are counted before one is inserted, so there may be one more than
\* the limit.  There are more sockets than that: bind finds a free one.
AtMostOneMore == Cardinality(entries) <= maxForwardEntries + 1

\* No two entries read from the same socket.
SocketsAreDistinct == \A e, f \in entries : e.socket = f.socket => e = f

IInv ==
  /\ TypeOK
  /\ IsFiniteSet(entries)
  /\ ThreadsAgree
  /\ OneResultPerCall
  /\ EntriesKept
  /\ AtMostOneMore
  /\ EndsAreDistinct
  /\ ConfirmedByItsHost
  /\ SocketsAreDistinct

=============================================================================
