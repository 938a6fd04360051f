------------------------------ MODULE PeerLinks ------------------------------
(***************************************************************************)
(* What plugins that talk peer to peer see of RakPeer: between two systems *)
(* that are connected their messages arrive in the order they were sent    *)
(* (RELIABLE_ORDERED on one channel), after the notice of the connection   *)
(* and, up to some message, before the notice of its loss.  A call of a    *)
(* plugin's handler is one step, and so is a call of the application.      *)
(***************************************************************************)
EXTENDS Naturals, Sequences, FiniteSets

CONSTANT System   \* numbers of the systems, in the order they were started

VARIABLES
  linked,     \* pairs of systems that are connected
  inbox,      \* inbox[p][q]: what p has to handle of q, the notices of RakPeer included
  linksLeft   \* how often systems may still connect and lose each other

linkVars == <<linked, inbox, linksLeft>>

ASSUME SystemAssumption == System \subseteq Nat \ {0} /\ IsFiniteSet(System)

Pair(p, q) == {p, q}
Linked(p, q) == Pair(p, q) \in linked
AllPairs == {Pair(p, q) : p, q \in System} \ {Pair(p, p) : p \in System}

\* Notices are messages that RakPeer makes for the plugins.
Notice(id) == [id |-> id]

Senders(p) == {q \in System : inbox[p][q] # <<>>}

HasNext(p, q, id) == inbox[p][q] # <<>> /\ Head(inbox[p][q]).id = id

\* What a system sends to each other in one step.
Nothing == [r \in System |-> <<>>]
Only(q, m) == [Nothing EXCEPT ![q] = <<m>>]

\* System p is left with rest of what it had to handle, and sends out[r] to r.
Passes(p, rest, out) ==
  /\ inbox' = [r \in System |->
       IF r = p THEN rest
       ELSE [inbox[r] EXCEPT ![p] = @ \o IF Linked(r, p) THEN out[r] ELSE <<>>]]
  /\ UNCHANGED <<linked, linksLeft>>

\* It has handled the next message of q, or was called by its application.
PassesAfter(p, q, out) == Passes(p, [inbox[p] EXCEPT ![q] = Tail(@)], out)
PassesUnasked(p, out) == Passes(p, inbox[p], out)

QuietBetween(p, q) == inbox[p][q] = <<>> /\ inbox[q][p] = <<>>

\* Both ends have heard of everything that was before.
PeersConnect(p, q) ==
  /\ p < q /\ ~Linked(p, q) /\ QuietBetween(p, q)
  /\ linksLeft.connects > 0
  /\ linked' = linked \cup {Pair(p, q)}
  /\ inbox' = [inbox EXCEPT ![p][q] = <<Notice("NEW_CONNECTION")>>,
                            ![q][p] = <<Notice("NEW_CONNECTION")>>]
  /\ linksLeft' = [linksLeft EXCEPT !.connects = @ - 1]

\* Of what is under way each end gets what came first.
Cut(queue, n) == SubSeq(queue, 1, n) \o <<Notice("CLOSED_CONNECTION")>>

Kept(queue) ==
  {n \in 0 .. Len(queue) : \A i \in DOMAIN queue : queue[i].id = "NEW_CONNECTION" => i <= n}

PeersLoseEachOther(p, q) ==
  /\ p < q /\ Linked(p, q) /\ linksLeft.breaks > 0
  /\ linked' = linked \ {Pair(p, q)}
  /\ \E m \in Kept(inbox[p][q]), n \in Kept(inbox[q][p]) :
       inbox' = [inbox EXCEPT ![p][q] = Cut(@, m), ![q][p] = Cut(@, n)]
  /\ linksLeft' = [linksLeft EXCEPT !.breaks = @ - 1]

LinksChange ==
  \E p, q \in System : PeersConnect(p, q) \/ PeersLoseEachOther(p, q)

LinksInit(pairs, budgets) ==
  /\ linked = pairs
  /\ inbox = [p \in System |-> [q \in System |-> <<>>]]
  /\ linksLeft \in budgets

LinksTypeOK(message) ==
  /\ linked \subseteq AllPairs
  /\ inbox \in [System -> [System ->
       Seq(message \cup {Notice("NEW_CONNECTION"), Notice("CLOSED_CONNECTION")})]]

=============================================================================
