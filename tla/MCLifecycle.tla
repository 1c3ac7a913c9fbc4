---------------------------- MODULE MCLifecycle ----------------------------
(* A whole connection: handshake, data in both directions, close from      *)
(* either side or both at once.                                            *)
EXTENDS Stcp

SmallISN == [active |-> 0, passive |-> 2]
FewBytes == [active |-> 2, passive |-> 1]
OneByte == [active |-> 1, passive |-> 0]
=============================================================================
