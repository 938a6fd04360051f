------------------------ MODULE TwoWayAuthentication ------------------------
(***************************************************************************)
(* TwoWayAuthentication: a system challenges another to agree with it on a *)
(* password without sending it.  The challenged one makes a nonce, the     *)
(* challenger hashes the nonce with its password, the challenged one       *)
(* compares that with its own hash and tells the result.  Nonces and       *)
(* challenges time out, at any time that suits the other side least.       *)
(***************************************************************************)
EXTENDS PeerLinks, SequencesExt

CONSTANTS
  Identifier,
  PasswordOf,       \* PasswordOf[p]: of the identifiers whose passwords p's application adds
  ChallengeBudgets  \* how many challenges each system makes, as functions

ASSUME ChallengeAssumption ==
  /\ \A p \in System : \A identifier \in DOMAIN PasswordOf[p] :
       identifier \in Identifier /\ PasswordOf[p][identifier] \in Nat
  /\ ChallengeBudgets \subseteq [System -> Nat]

VARIABLES
  passwords,          \* identifiers of the passwords each system has added
  outgoingChallenges, \* of each system, in order
  generatedNonces,    \* of each system, in order
  nextRequestId,
  announced,          \* what the application of each system was told, in order
  challenges          \* of each system, how many it made, may yet make, and lost with a connection

authVars == <<linkVars, passwords, outgoingChallenges, generatedNonces, nextRequestId,
              announced, challenges>>

AuthMessage ==
  [id : {"NONCE_REQUEST"}]
    \cup [id : {"NONCE_REPLY"}, requestId : Nat]
    \cup [id : {"HASHED_NONCE_AND_PASSWORD"}, requestId : Nat, identifier : Identifier,
          hash : Nat \X Nat]
    \cup [id : {"CHALLENGE_SUCCESS", "CHALLENGE_FAILURE"}, nonce : Nat, identifier : Identifier,
          hash : Nat \X Nat]

\* The nonce is a fresh random number, as the requestId is a fresh number: one
\* stands for both.
Hash(nonce, p, identifier) == <<nonce, PasswordOf[p][identifier]>>

Outcome ==
  {"INCOMING_SUCCESS", "INCOMING_FAILURE", "CHALLENGE_SUCCESS", "CHALLENGE_FAILURE", "CHALLENGE_TIMEOUT"}

Pending == [identifier : Identifier, remoteSystem : System, sentHash : BOOLEAN]
Nonce == [requestId : Nat, remoteSystem : System]
Announcement == Outcome \X Identifier \X System

Count(list, set) == Cardinality({i \in DOMAIN list : list[i] \in set})

\* The application of p is told of an outcome.
Told(outcome, identifier, q) == <<outcome, identifier, q>>
Tells(p, outcome, identifier, q) ==
  announced' = [announced EXCEPT ![p] = Append(@, Told(outcome, identifier, q))]

\* What is left of a list when what concerns q is removed.
AllBut(list, q) ==
  LET left[n \in 0 .. Len(list)] ==
        IF n = 0 THEN <<>>
        ELSE IF list[n].remoteSystem = q THEN left[n - 1] ELSE Append(left[n - 1], list[n])
  IN left[Len(list)]

-----------------------------------------------------------------------------
(* Calls and handlers *)

\* An identifier that is in use keeps its password.
AddPassword(p, identifier) ==
  /\ identifier \in DOMAIN PasswordOf[p] \ passwords[p]
  /\ passwords' = [passwords EXCEPT ![p] = @ \cup {identifier}]
  /\ UNCHANGED <<linkVars, outgoingChallenges, generatedNonces, nextRequestId, announced, challenges>>

Challenge(p, q, identifier) ==
  /\ challenges[p].left > 0 /\ identifier \in passwords[p] /\ p # q
  /\ challenges' = [challenges EXCEPT ![p].left = @ - 1, ![p].made = @ + 1]
  /\ outgoingChallenges' = [outgoingChallenges EXCEPT ![p] =
       Append(@, [identifier |-> identifier, remoteSystem |-> q, sentHash |-> FALSE])]
  /\ PassesUnasked(p, Only(q, [id |-> "NONCE_REQUEST"]))
  /\ UNCHANGED <<passwords, generatedNonces, nextRequestId, announced>>

OnNonceRequest(p, q) ==
  /\ HasNext(p, q, "NONCE_REQUEST")
  /\ LET n == nextRequestId[p]
     IN /\ generatedNonces' = [generatedNonces EXCEPT ![p] =
             Append(@, [requestId |-> n, remoteSystem |-> q])]
        /\ PassesAfter(p, q, Only(q, [id |-> "NONCE_REPLY", requestId |-> n]))
  /\ nextRequestId' = [nextRequestId EXCEPT ![p] = @ + 1]
  /\ UNCHANGED <<passwords, outgoingChallenges, announced, challenges>>

\* The reply is taken for that to the first challenge without one.
OnNonceReply(p, q) ==
  /\ HasNext(p, q, "NONCE_REPLY")
  /\ LET n == Head(inbox[p][q]).requestId
         mine == outgoingChallenges[p]
         i == SelectInSeq(mine, LAMBDA c : c.remoteSystem = q /\ ~c.sentHash)
     IN IF i = 0 THEN PassesAfter(p, q, Nothing) /\ UNCHANGED outgoingChallenges
        ELSE /\ outgoingChallenges' = [outgoingChallenges EXCEPT ![p][i].sentHash = TRUE]
             /\ PassesAfter(p, q, Only(q, [id |-> "HASHED_NONCE_AND_PASSWORD", requestId |-> n,
                  identifier |-> mine[i].identifier, hash |-> Hash(n, p, mine[i].identifier)]))
  /\ UNCHANGED <<passwords, generatedNonces, nextRequestId, announced, challenges>>

\* A nonce is used once.
OnHashedNonceAndPassword(p, q) ==
  /\ HasNext(p, q, "HASHED_NONCE_AND_PASSWORD")
  /\ LET m == Head(inbox[p][q])
         i == SelectInSeq(generatedNonces[p],
                          LAMBDA n : n.requestId = m.requestId /\ n.remoteSystem = q)
         passed == m.identifier \in passwords[p] /\ Hash(m.requestId, p, m.identifier) = m.hash
     IN IF i = 0 THEN PassesAfter(p, q, Nothing) /\ UNCHANGED <<generatedNonces, announced>>
        ELSE /\ generatedNonces' = [generatedNonces EXCEPT ![p] = RemoveAt(@, i)]
             /\ PassesAfter(p, q, Only(q,
                  [id |-> IF passed THEN "CHALLENGE_SUCCESS" ELSE "CHALLENGE_FAILURE",
                   nonce |-> m.requestId, identifier |-> m.identifier, hash |-> m.hash]))
             /\ Tells(p, IF passed THEN "INCOMING_SUCCESS" ELSE "INCOMING_FAILURE", m.identifier, q)
  /\ UNCHANGED <<passwords, outgoingChallenges, nextRequestId, challenges>>

\* Mutant: the result is told, and the challenge kept until it times out.
KeepChallenge(p, q) ==
  /\ HasNext(p, q, "CHALLENGE_SUCCESS") \/ HasNext(p, q, "CHALLENGE_FAILURE")
  /\ LET m == Head(inbox[p][q])
     IN IF \E i \in DOMAIN outgoingChallenges[p] :
             /\ outgoingChallenges[p][i] =
                  [identifier |-> m.identifier, remoteSystem |-> q, sentHash |-> TRUE]
             /\ Hash(m.nonce, p, m.identifier) = m.hash
        THEN Tells(p, m.id, m.identifier, q)
        ELSE UNCHANGED announced
  /\ PassesAfter(p, q, Nothing)
  /\ UNCHANGED <<passwords, outgoingChallenges, generatedNonces, nextRequestId, challenges>>

\* The result is taken for that of the first challenge for the identifier whose
\* hash was sent, if the hash it repeats is one's own.
OnPasswordResult(p, q) ==
  /\ HasNext(p, q, "CHALLENGE_SUCCESS") \/ HasNext(p, q, "CHALLENGE_FAILURE")
  /\ LET m == Head(inbox[p][q])
         i == IF m.identifier \in passwords[p] /\ Hash(m.nonce, p, m.identifier) = m.hash
              THEN SelectInSeq(outgoingChallenges[p], LAMBDA c :
                     c.identifier = m.identifier /\ c.remoteSystem = q /\ c.sentHash)
              ELSE 0
     IN IF i = 0 THEN UNCHANGED <<outgoingChallenges, announced>>
        ELSE /\ outgoingChallenges' = [outgoingChallenges EXCEPT ![p] = RemoveAt(@, i)]
             /\ Tells(p, m.id, m.identifier, q)
  /\ PassesAfter(p, q, Nothing)
  /\ UNCHANGED <<passwords, generatedNonces, nextRequestId, challenges>>

\* Update: the oldest nonce after five seconds.
NonceTimesOut(p) ==
  /\ generatedNonces[p] # <<>>
  /\ generatedNonces' = [generatedNonces EXCEPT ![p] = Tail(@)]
  /\ UNCHANGED <<linkVars, passwords, outgoingChallenges, nextRequestId, announced, challenges>>

\* Update: the challenges of more than three seconds ago.
ChallengesTimeOut(p) ==
  /\ \E n \in DOMAIN outgoingChallenges[p] :
       LET mine == outgoingChallenges[p]
       IN /\ outgoingChallenges' = [outgoingChallenges EXCEPT ![p] = SubSeq(mine, n + 1, Len(mine))]
          /\ announced' = [announced EXCEPT ![p] = @ \o
               [i \in 1 .. n |-> Told("CHALLENGE_TIMEOUT", mine[i].identifier, mine[i].remoteSystem)]]
  /\ UNCHANGED <<linkVars, passwords, generatedNonces, nextRequestId, challenges>>

\* Nothing is told of a challenge whose connection is lost.
AuthOnClosedConnection(p, q) ==
  /\ HasNext(p, q, "CLOSED_CONNECTION")
  /\ outgoingChallenges' = [outgoingChallenges EXCEPT ![p] = AllBut(@, q)]
  /\ generatedNonces' = [generatedNonces EXCEPT ![p] = AllBut(@, q)]
  /\ challenges' = [challenges EXCEPT ![p].lost = @ +
       Count(outgoingChallenges[p], [identifier : Identifier, remoteSystem : {q}, sentHash : BOOLEAN])]
  /\ PassesAfter(p, q, Nothing)
  /\ UNCHANGED <<passwords, nextRequestId, announced>>

AuthOnNewConnection(p, q) ==
  /\ HasNext(p, q, "NEW_CONNECTION") /\ PassesAfter(p, q, Nothing)
  /\ UNCHANGED <<passwords, outgoingChallenges, generatedNonces, nextRequestId, announced, challenges>>

AuthInit ==
  /\ passwords = [p \in System |-> {}]
  /\ outgoingChallenges = [p \in System |-> <<>>]
  /\ generatedNonces = [p \in System |-> <<>>]
  /\ nextRequestId = [p \in System |-> 0]
  /\ announced = [p \in System |-> <<>>]
  /\ \E budget \in ChallengeBudgets :
       challenges = [p \in System |-> [left |-> budget[p], made |-> 0, lost |-> 0]]

AuthNext ==
  \/ \E p \in System :
       \/ \E identifier \in Identifier : AddPassword(p, identifier)
       \/ NonceTimesOut(p) \/ ChallengesTimeOut(p)
  \/ \E p, q \in System, identifier \in Identifier : Challenge(p, q, identifier)
  \/ \E p \in System : \E q \in Senders(p) :
       \/ OnNonceRequest(p, q) \/ OnNonceReply(p, q) \/ OnHashedNonceAndPassword(p, q)
       \/ OnPasswordResult(p, q)
       \/ AuthOnClosedConnection(p, q) \/ AuthOnNewConnection(p, q)
  \/ LinksChange /\ UNCHANGED <<passwords, outgoingChallenges, generatedNonces, nextRequestId, announced, challenges>>

AuthSpec ==
  /\ AuthInit
  /\ \E pairs \in SUBSET AllPairs : LinksInit(pairs, [connects : Nat, breaks : Nat])
  /\ [][AuthNext]_authVars

-----------------------------------------------------------------------------
(* Properties *)

\* Challenges and nonces are for other systems, passwords are those that were added.
AuthTypeOK ==
  /\ LinksTypeOK(AuthMessage)
  /\ outgoingChallenges \in [System -> Seq(Pending)] /\ generatedNonces \in [System -> Seq(Nonce)]
  /\ nextRequestId \in [System -> Nat] /\ announced \in [System -> Seq(Announcement)]
  /\ passwords \in [System -> SUBSET Identifier]
  /\ challenges \in [System -> [left : Nat, made : Nat, lost : Nat]]
  /\ \A p \in System :
       /\ passwords[p] \subseteq DOMAIN PasswordOf[p]
       /\ inbox[p][p] = <<>>
       /\ \A i \in DOMAIN outgoingChallenges[p] :
            /\ outgoingChallenges[p][i].identifier \in passwords[p]
            /\ outgoingChallenges[p][i].remoteSystem # p
       /\ \A i \in DOMAIN generatedNonces[p] :
            generatedNonces[p][i].remoteSystem # p /\ generatedNonces[p][i].requestId < nextRequestId[p]

Outcomes(p, kinds) == Count(announced[p], kinds \X Identifier \X System)

Times(p, outcome, identifier, q) == Count(announced[p], {Told(outcome, identifier, q)})

\* A challenge that was made is pending, went with its connection, or one outcome
\* was told of it.  Of a success the challenged system was told as well, and of a
\* failure, as often for each identifier; a challenge succeeds only with the same
\* password; and only the time limit tells the two apart.
ChallengesAgree ==
  /\ \A p \in System :
       challenges[p].made = challenges[p].lost + Len(outgoingChallenges[p])
         + Outcomes(p, {"CHALLENGE_SUCCESS", "CHALLENGE_FAILURE", "CHALLENGE_TIMEOUT"})
  /\ \A p \in System : \A q \in System \ {p}, identifier \in Identifier :
       /\ Times(p, "CHALLENGE_SUCCESS", identifier, q) <= Times(q, "INCOMING_SUCCESS", identifier, p)
       /\ Times(p, "CHALLENGE_FAILURE", identifier, q) <= Times(q, "INCOMING_FAILURE", identifier, p)
       /\ Times(q, "INCOMING_SUCCESS", identifier, p) > 0 =>
            PasswordOf[p][identifier] = PasswordOf[q][identifier]

-----------------------------------------------------------------------------
(* Invariant *)

ResultOf(result, identifier) ==
  [id : {result}, nonce : Nat, identifier : {identifier}, hash : Nat \X Nat]

\* A hash is made with the password its sender has for the identifier.
HashesAreTrue(p, q) ==
  \A m \in Range(inbox[p][q]) :
    m.id = "HASHED_NONCE_AND_PASSWORD" =>
      m.identifier \in DOMAIN PasswordOf[q] /\ m.hash = Hash(m.requestId, q, m.identifier)

\* What is under way to the challenger or was told to it, the challenged system was told.
ResultsAreTrue(p, q, identifier) ==
  /\ Times(p, "CHALLENGE_SUCCESS", identifier, q)
       + Count(inbox[p][q], ResultOf("CHALLENGE_SUCCESS", identifier))
       <= Times(q, "INCOMING_SUCCESS", identifier, p)
  /\ Times(p, "CHALLENGE_FAILURE", identifier, q)
       + Count(inbox[p][q], ResultOf("CHALLENGE_FAILURE", identifier))
       <= Times(q, "INCOMING_FAILURE", identifier, p)
  /\ Times(q, "INCOMING_SUCCESS", identifier, p) > 0 =>
       PasswordOf[p][identifier] = PasswordOf[q][identifier]

ChallengesCounted(p) ==
  challenges[p].made = challenges[p].lost + Len(outgoingChallenges[p])
    + Outcomes(p, {"CHALLENGE_SUCCESS", "CHALLENGE_FAILURE", "CHALLENGE_TIMEOUT"})

AuthIInv ==
  /\ AuthTypeOK
  /\ \A p \in System : ChallengesCounted(p)
  /\ \A p \in System : \A q \in System \ {p} :
       HashesAreTrue(p, q) /\ \A identifier \in Identifier : ResultsAreTrue(p, q, identifier)

=============================================================================
