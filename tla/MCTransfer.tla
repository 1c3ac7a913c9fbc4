----------------------------- MODULE MCTransfer -----------------------------
(* Data transfer over an unreliable network: one stream is longer than the  *)
(* window, and the other makes acknowledgements ride on data packets.       *)
EXTENDS StcpProofs

SmallISN == [active |-> 0, passive |-> 2]
BothWays == [active |-> 3, passive |-> 1]
=============================================================================
