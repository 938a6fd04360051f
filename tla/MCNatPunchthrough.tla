------------------------- MODULE MCNatPunchthrough -------------------------
(* NatPunchthrough on a small instance, for TLC. *)
EXTENDS NatPunchthrough

MCGuid == 1 .. 3
MCPort == {5}
MCNone == {}

\* All clients know their port stride, or one has yet to find it.
MCAllKnow == {{}}
MCProbing == {{}, {1}}
Symmetry == Permutations(Ptr)

\* No step reads the messages the step before it has sent.
View == <<users, isReady, mostRecentPort, connectionAttempts, attempts,
          sessionId, pcVars, netVars>>

=============================================================================
