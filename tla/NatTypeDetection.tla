-------------------------- MODULE NatTypeDetection --------------------------
(***************************************************************************)
(* The detection of the type of a client's NAT,                            *)
(* Source/NatTypeDetectionServer.cpp and NatTypeDetectionClient.cpp.       *)
(*                                                                         *)
(* The server sends datagrams from addresses the client has not sent to,   *)
(* the friendlier test first, each twice; the first that arrives decides.  *)
(* Requests and results go over the connection as RELIABLE messages, which *)
(* arrive once each and in any order.  Datagrams are lost, late and        *)
(* repeated.  Times are left open: the pause before the next test may have *)
(* passed whenever Update looks.                                           *)
(***************************************************************************)
EXTENDS Integers

CONSTANTS
  Client,         \* the clients
  NatKind,          \* types of NAT they may have
  MaxDetections   \* bound: detections a client starts

VARIABLES
  natType,               \* by client, the type of its NAT
  link,                  \* by client, the sides that take it for connected
  detection,             \* by client, the number of the running detection, 0 if none
  started,               \* by client, how many it has started
  undisturbed,           \* clients that had told all when they started theirs
  c2Received,            \* clients whose socket c2 has buffered a datagram
  natDetectionAttempts,  \* by client, the attempt the server keeps
  testRequests,              \* reliable messages to the server
  answers,               \* reliable messages to the clients
  probes,                \* datagrams under way, either direction
  results                \* by client, the types OnCompletion has reported

natTypeVars == <<natType, link, detection, started, undisturbed, c2Received,
                 natDetectionAttempts, testRequests, answers, probes, results>>

NatTypes == <<"NONE", "FULL_CONE", "ADDRESS_RESTRICTED", "PORT_RESTRICTED", "SYMMETRIC">>
ASSUME DetectionAssumption ==
  NatKind \subseteq {NatTypes[i] : i \in 1 .. 5} /\ MaxDetections \in Nat

Rank(t) == CHOOSE i \in 1 .. 5 : NatTypes[i] = t

NoDetectionAttempt == [detectionState |-> -1, c2Port |-> 0]
DetectionAttempt == [detectionState : 0 .. 8, c2Port : 1 .. MaxDetections]
InList(c) == natDetectionAttempts[c] # NoDetectionAttempt

\* The port of c2 is new with each detection and stands for its number.
DetectionRequest(c) == [from : {c}, isRequest : {TRUE}, c2Port : 1 .. MaxDetections]
DetectionDone(c) == [from : {c}, isRequest : {FALSE}, c2Port : 1 .. MaxDetections]
DetectionResult(c) == [to : {c}, result : {"PORT_RESTRICTED", "SYMMETRIC"}, c2Port : 1 .. MaxDetections]
PortTest(c) == [to : {c}, try : {7, 8}, c2Port : 1 .. MaxDetections]

ProbeTo(c) == [to : {c}, type : {"NONE", "FULL_CONE", "ADDRESS_RESTRICTED"},
             c2Port : 1 .. MaxDetections]
ToS3P4(c) == [from : {c}, same : BOOLEAN]

-----------------------------------------------------------------------------
(* Which datagrams pass *)

\* What the NAT of c lets through: s4p5 to a port never used; s2p3, an address
\* never sent to; s1p2, a port never sent to.
Passes(c, type) ==
  CASE type = "NONE" -> natType[c] = "NONE"
    [] type = "FULL_CONE" -> Rank(natType[c]) <= 2
    [] OTHER -> Rank(natType[c]) <= 3

-----------------------------------------------------------------------------
(* Client *)

\* "We must already be connected to the server".
DetectNATType(c) ==
  /\ "client" \in link[c]
  /\ detection[c] = 0 /\ started[c] < MaxDetections
  /\ started' = [started EXCEPT ![c] = @ + 1]
  /\ detection' = [detection EXCEPT ![c] = started'[c]]
  /\ undisturbed' = IF testRequests \cap DetectionDone(c) = {} /\ answers \cap DetectionResult(c) = {} /\ ~InList(c)
                    THEN undisturbed \cup {c} ELSE undisturbed \ {c}
  /\ testRequests' = IF link[c] = {"client", "server"}
                 THEN testRequests \cup {[from |-> c, isRequest |-> TRUE, c2Port |-> started'[c]]}
                 ELSE testRequests
  /\ UNCHANGED <<natType, link, c2Received, natDetectionAttempts, answers, probes, results>>

\* Mutant: what c2 has buffered is kept.
StopWithBuffer(c) ==
  /\ detection' = [detection EXCEPT ![c] = 0]
  /\ UNCHANGED c2Received

StopDetection(c) ==
  /\ detection' = [detection EXCEPT ![c] = 0]
  /\ c2Received' = c2Received \ {c}

OnCompletion(c, result) ==
  /\ results' = [results EXCEPT ![c] = @ \cup {result}]
  /\ testRequests' = IF result \notin {"PORT_RESTRICTED", "SYMMETRIC"} /\ link[c] = {"client", "server"}
                 THEN testRequests \cup {[from |-> c, isRequest |-> FALSE, c2Port |-> detection[c]]}
                 ELSE testRequests
  /\ StopDetection(c)

\* The thread of c2 buffers what arrives while the socket is there.
OnRNS2Recv(c) ==
  /\ detection[c] # 0
  /\ [to |-> c, type |-> "NONE", c2Port |-> detection[c]] \in probes
  /\ Passes(c, "NONE")
  /\ c2Received' = c2Received \cup {c}
  /\ UNCHANGED <<natType, link, detection, started, undisturbed,
                 natDetectionAttempts, testRequests, answers, probes, results>>

ClientUpdate(c) ==
  /\ detection[c] # 0 /\ c \in c2Received
  /\ OnCompletion(c, "NONE")
  /\ UNCHANGED <<natType, link, started, undisturbed, natDetectionAttempts, answers, probes>>

\* A datagram to c1, from this detection or an earlier one, while one is running.
OnNatTypeDetect(c, type) ==
  /\ detection[c] # 0
  /\ \E d \in probes : d \in ProbeTo(c) /\ d.type = type
  /\ Passes(c, type)
  /\ OnCompletion(c, type)
  /\ UNCHANGED <<natType, link, started, undisturbed, natDetectionAttempts, answers, probes>>

\* Outside a detection the result is the application's, and not looked at.
OnDetectionResult(c, m) ==
  /\ m \in answers \cap DetectionResult(c)
  /\ "client" \in link[c]
  /\ answers' = answers \ {m}
  /\ IF detection[c] # 0 THEN OnCompletion(c, m.result)
     ELSE UNCHANGED <<detection, c2Received, testRequests, results>>
  /\ UNCHANGED <<natType, link, started, undisturbed, natDetectionAttempts, probes>>

OnTestPortRestricted(c, m) ==
  /\ m \in answers \cap PortTest(c)
  /\ "client" \in link[c]
  /\ answers' = answers \ {m}
  /\ probes' = IF detection[c] # 0
               THEN probes \cup {[from |-> c, same |-> natType[c] # "SYMMETRIC"]}
               ELSE probes
  /\ UNCHANGED <<natType, link, detection, started, undisturbed, c2Received,
                 natDetectionAttempts, testRequests, results>>

ClientLoses(c) ==
  /\ link[c] \in {{"client"}, {"client", "server"}}
  /\ link' = [link EXCEPT ![c] = @ \ {"client"}]
  /\ answers' = {m \in answers : m.to # c}
  /\ StopDetection(c)
  /\ UNCHANGED <<natType, started, undisturbed, natDetectionAttempts, testRequests, probes, results>>

-----------------------------------------------------------------------------
(* Server *)

WithoutAttempt(c) == [natDetectionAttempts EXCEPT ![c] = NoDetectionAttempt]

NatAnswer(c, m) == answers' = IF link[c] = {"client", "server"} THEN answers \cup {m} ELSE answers

OnDetectionRequest(c, m) ==
  /\ m \in testRequests \cap (DetectionRequest(c) \cup DetectionDone(c))
  /\ "server" \in link[c]
  /\ testRequests' = testRequests \ {m}
  /\ natDetectionAttempts' =
       IF ~m.isRequest THEN WithoutAttempt(c)
       ELSE IF InList(c) THEN natDetectionAttempts
       ELSE [natDetectionAttempts EXCEPT ![c] = [detectionState |-> 0, c2Port |-> m.c2Port]]
  /\ UNCHANGED <<natType, link, detection, started, undisturbed, c2Received,
                 answers, probes, results>>

EndWithResult(c, result) ==
  /\ natDetectionAttempts' = WithoutAttempt(c)
  /\ NatAnswer(c, [to |-> c, result |-> result, c2Port |-> natDetectionAttempts[c].c2Port])

\* The pause of an attempt has passed: the next test, or after the last one the
\* conclusion that the NAT is symmetric.
NextTest(c) ==
  LET state == natDetectionAttempts[c].detectionState + 1
      port == natDetectionAttempts[c].c2Port
      send(type) == probes' = probes \cup {[to |-> c, type |-> type, c2Port |-> port]}
      next == natDetectionAttempts' = [natDetectionAttempts EXCEPT ![c].detectionState = state]
  IN /\ InList(c)
     /\ \/ state \in {1, 2} /\ next /\ send("NONE") /\ UNCHANGED answers
        \/ state \in {3, 4} /\ next /\ send("FULL_CONE") /\ UNCHANGED answers
        \/ state \in {5, 6} /\ next /\ send("ADDRESS_RESTRICTED") /\ UNCHANGED answers
        \/ /\ state \in {7, 8} /\ next
           /\ NatAnswer(c, [to |-> c, try |-> state, c2Port |-> port])
           /\ UNCHANGED probes
        \/ state = 9 /\ EndWithResult(c, "SYMMETRIC") /\ UNCHANGED probes
     /\ UNCHANGED <<natType, link, detection, started, undisturbed, c2Received,
                    testRequests, results>>

\* Mutant: the address the datagram came from is taken for the one that is known.
Conclusion(d) == "PORT_RESTRICTED"

ConclusionOf(d) == IF d.same THEN "PORT_RESTRICTED" ELSE "SYMMETRIC"

\* Update, on a datagram to s3p4.
ReadS3P4(c, d) ==
  /\ d \in probes \cap ToS3P4(c)
  /\ IF InList(c)
     THEN EndWithResult(c, ConclusionOf(d))
     ELSE UNCHANGED <<natDetectionAttempts, answers>>
  /\ UNCHANGED <<natType, link, detection, started, undisturbed, c2Received,
                 testRequests, probes, results>>

ServerLoses(c) ==
  /\ "server" \in link[c]
  /\ link' = [link EXCEPT ![c] = @ \ {"server"}]
  /\ natDetectionAttempts' = WithoutAttempt(c)
  /\ testRequests' = {m \in testRequests : m.from # c}
  /\ UNCHANGED <<natType, detection, started, undisturbed, c2Received, answers, probes, results>>

NatReconnect(c) ==
  /\ link[c] = {} /\ started[c] < MaxDetections
  /\ link' = [link EXCEPT ![c] = {"client", "server"}]
  /\ UNCHANGED <<natType, detection, started, undisturbed, c2Received,
                 natDetectionAttempts, testRequests, answers, probes, results>>

-----------------------------------------------------------------------------
(* Specification *)

NatTypeInit ==
  /\ natType \in [Client -> NatKind]
  /\ link = [c \in Client |-> {"client", "server"}]
  /\ detection = [c \in Client |-> 0] /\ started = [c \in Client |-> 0]
  /\ undisturbed = {} /\ c2Received = {}
  /\ natDetectionAttempts = [c \in Client |-> NoDetectionAttempt]
  /\ testRequests = {} /\ answers = {} /\ probes = {}
  /\ results = [c \in Client |-> {}]

NatTypeStep(c) ==
  \/ DetectNATType(c) \/ OnRNS2Recv(c) \/ ClientUpdate(c)
  \/ \E t \in {"FULL_CONE", "ADDRESS_RESTRICTED"} : OnNatTypeDetect(c, t)
  \/ \E m \in answers : OnDetectionResult(c, m) \/ OnTestPortRestricted(c, m)
  \/ \E m \in testRequests : OnDetectionRequest(c, m)
  \/ \E d \in probes : ReadS3P4(c, d)
  \/ NextTest(c)
  \/ ClientLoses(c) \/ ServerLoses(c) \/ NatReconnect(c)

NatTypeNext == \E c \in Client : NatTypeStep(c)

\* Both programs keep calling Update and Receive, the pause of an attempt passes,
\* reliable messages arrive, and a side whose peer has gone notices.  Nothing is
\* assumed of datagrams.
NatTypeFairness ==
  \A c \in Client :
    /\ WF_natTypeVars(NextTest(c))
    /\ WF_natTypeVars(\E m \in testRequests : OnDetectionRequest(c, m))
    /\ WF_natTypeVars(\E m \in answers : OnDetectionResult(c, m))
    /\ WF_natTypeVars(link[c] = {"client"} /\ ClientLoses(c))

NatTypeSpec == NatTypeInit /\ [][NatTypeNext]_natTypeVars /\ NatTypeFairness

-----------------------------------------------------------------------------
(* Properties *)

NatTypeOK ==
  /\ natType \in [Client -> NatKind]
  /\ link \in [Client -> SUBSET {"client", "server"}]
  /\ detection \in [Client -> 0 .. MaxDetections]
  /\ started \in [Client -> 0 .. MaxDetections]
  /\ undisturbed \subseteq Client /\ c2Received \subseteq {c \in Client : detection[c] # 0}
  /\ natDetectionAttempts \in [Client -> DetectionAttempt \cup {NoDetectionAttempt}]
  /\ testRequests \subseteq UNION {DetectionRequest(c) \cup DetectionDone(c) : c \in Client}
  /\ answers \subseteq UNION {DetectionResult(c) \cup PortTest(c) : c \in Client}
  /\ probes \subseteq UNION {ProbeTo(c) \cup ToS3P4(c) : c \in Client}
  /\ results \in [Client -> SUBSET {NatTypes[i] : i \in 1 .. 5}]

\* A client is never told that its NAT is friendlier than it is, whatever is
\* lost, late or repeated, and whichever detection a message belongs to: it
\* would try connections that cannot work.
NeverTooFriendly ==
  \A c \in Client : \A t \in results[c] : Rank(t) >= Rank(natType[c])

\* The server and the client never both wait: while a client waits for its
\* result its request, its attempt or its result is somewhere.  It is so for a
\* detection that was started after everything of the one before had arrived;
\* the "done" of an earlier detection may overtake the next request otherwise,
\* and takes the attempt away.
NoDetectionForgotten ==
  \A c \in Client :
    detection[c] # 0 /\ c \in undisturbed /\ link[c] = {"client", "server"} =>
      \/ InList(c)
      \/ testRequests \cap DetectionRequest(c) # {}
      \/ answers \cap DetectionResult(c) # {}

\* The client sets itself no time limit; each such detection ends nevertheless,
\* with a result or a lost connection, even when no datagram arrives.
DetectionsEnd ==
  \A c \in Client : detection[c] # 0 /\ c \in undisturbed ~> detection[c] = 0

-----------------------------------------------------------------------------
(* The inductive invariant: what NeverTooFriendly rests on.  A result, or what *)
(* leads to one, is true of the NAT, wherever it waits and for how long.       *)

ResultsOnTheirWay ==
  /\ \A c \in Client : \A m \in answers \cap DetectionResult(c) :
       m.result = "PORT_RESTRICTED" => natType[c] # "SYMMETRIC"
  /\ \A c \in Client : \A d \in probes \cap ToS3P4(c) : d.same => natType[c] # "SYMMETRIC"
  /\ \A c \in c2Received : natType[c] = "NONE"

NatTypeIInv == NatTypeOK /\ ResultsOnTheirWay /\ NeverTooFriendly

=============================================================================
