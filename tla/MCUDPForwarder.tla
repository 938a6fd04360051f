--------------------------- MODULE MCUDPForwarder ---------------------------
(***************************************************************************)
(* UDPForwarder on small instances, for TLC.                               *)
(***************************************************************************)
EXTENDS UDPForwarder

At(h, p) == [host |-> h, port |-> p]

\* Two pairs of ends with hosts of their own, one of them in both directions,
\* and one pair behind a single host.
MCPairs == {<<At("a", 1), At("b", 1)>>, <<At("b", 1), At("a", 1)>>,
            <<At("a", 1), At("a", 2)>>, <<At("b", 1), At("c", 1)>>}

=============================================================================
