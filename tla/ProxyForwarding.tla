-------------------------- MODULE ProxyForwarding --------------------------
(***************************************************************************)
(* What the coordinator of UDP proxies promises, without how it does it    *)
(* (Source/UDPProxyCommon.h, the comment on the algorithm): a request for  *)
(* a proxy between two systems tries servers that are online, each at most *)
(* once, until one forwards, and the system that made it is told how it    *)
(* ended.                                                                  *)
(***************************************************************************)
CONSTANTS
  Client, Server,
  NoServer       \* no server has been tried yet

VARIABLES
  online,        \* the servers that can be tried
  request,       \* the requests that are known, by pair of systems
  told           \* <<system, pair>> of the answers the last step has given

vars == <<online, request, told>>

Pair == Client \X Client

Known(p) == p \in DOMAIN request
Listed(p) == Known(p) \/ Known(<<p[2], p[1]>>)

\* Only the request of p changes.
Only(p) ==
  /\ DOMAIN request' = DOMAIN request \cup {p}
  /\ \A q \in DOMAIN request \ {p} : request'[q] = request[q]

Remove(S) == request' = [q \in DOMAIN request \ S |-> request[q]]

-----------------------------------------------------------------------------

Init ==
  /\ online = {}
  /\ request = [p \in {} |-> <<>>]
  /\ told = {}

\* Server v comes online.
Join(v) ==
  /\ online' = online \cup {v}
  /\ told' = {}
  /\ UNCHANGED request

\* System a leaves, and takes the requests it has made with it.
Leave(a) ==
  /\ online' = online \ {a}
  /\ Remove({p \in DOMAIN request : request[p].by = a})
  /\ told' = {}

\* A request is refused: the pair is served already, or cannot be.
Refuse(c, p) ==
  /\ told' = {<<c, p>>}
  /\ UNCHANGED <<online, request>>

\* A request is accepted, unless the pair is being served.  A server may be
\* tried at once.
Accept(p) ==
  /\ told' = {}
  /\ ~Listed(p)
  /\ Only(p)
  /\ request'[p] \in [by : Client, at : online \cup {NoServer},
                      untried : SUBSET online, forwarded : {FALSE}]
  /\ request'[p].at \notin request'[p].untried
  /\ UNCHANGED online

\* The next server is tried.  Others may be given up untried.
Try(p) ==
  /\ told' = {}
  /\ Known(p)
  /\ Only(p)
  /\ request'[p].at \in request[p].untried \cap online
  /\ request'[p].untried \subseteq request[p].untried \ {request'[p].at}
  /\ request'[p] = [request[p] EXCEPT !.at = request'[p].at,
                                     !.untried = request'[p].untried]
  /\ UNCHANGED online

\* A server forwards, and the system that made the request is told.
Succeed(p) ==
  /\ Known(p)
  /\ told' = {<<request[p].by, p>>}
  /\ request' = [request EXCEPT ![p].forwarded = TRUE]
  /\ UNCHANGED online

\* A request fails, and the system that made it is told.
Fail(p) ==
  /\ Known(p)
  /\ Remove({p})
  /\ told' = {<<request[p].by, p>>}
  /\ UNCHANGED online

\* A request that has succeeded is forgotten.
Forget(p) ==
  /\ Known(p)
  /\ request[p].forwarded
  /\ Remove({p})
  /\ told' = {}
  /\ UNCHANGED online

Pause == told' = {} /\ UNCHANGED <<online, request>>

Next ==
  \/ \E v \in Server : Join(v)
  \/ \E a \in Client \cup Server : Leave(a)
  \/ \E c \in Client, p \in Pair : Refuse(c, p)
  \/ \E p \in Pair : Accept(p) \/ Try(p) \/ Succeed(p) \/ Fail(p) \/ Forget(p)
  \/ Pause

Spec == Init /\ [][Next]_vars

=============================================================================
