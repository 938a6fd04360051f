------------------------------ MODULE Servers ------------------------------
(***************************************************************************)
(* The relay and the cloud server side by side.  The plugins share no      *)
(* state: each can be attached to a RakPeer without the other.             *)
(***************************************************************************)
EXTENDS RelayPlugin, CloudServer

\* The relay and the cloud server keep their state within its types.
ServersTypeOK == RelayTypeOK /\ CloudTypeOK

=============================================================================
