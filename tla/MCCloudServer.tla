--------------------------- MODULE MCCloudServer ---------------------------
(***************************************************************************)
(* CloudServer on a small instance, for TLC.                               *)
(***************************************************************************)
EXTENDS CloudServer

\* A client on each server.
MCServerOf == [c \in CloudUser |-> IF c = "a" THEN "s1" ELSE "s2"]

=============================================================================
