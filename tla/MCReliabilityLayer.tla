------------------------ MODULE MCReliabilityLayer ------------------------
(***************************************************************************)
(* ReliabilityLayer on a small instance, for TLC.                          *)
(***************************************************************************)
EXTENDS ReliabilityLayer

Of(reliability, parts) == [reliability |-> reliability, parts |-> parts]

\* Sequenced messages after the first and after the second ordered message.
MCSequenced ==
  {[first |-> 0, script |-> <<Of("RELIABLE_ORDERED", 1), Of("RELIABLE_SEQUENCED", 1),
                              Of("RELIABLE_SEQUENCED", 1), Of("RELIABLE_ORDERED", 1),
                              Of("RELIABLE_SEQUENCED", 1)>>]}

\* A reliable message whose number is the largest, and a message that asks for a
\* receipt without being reliable.
MCReceipt ==
  {[first |-> NumberRange - 2, script |-> <<Of("RELIABLE", 1), Of("RELIABLE", 1),
                                            Of("UNRELIABLE_WITH_ACK_RECEIPT", 1)>>]}

=============================================================================
