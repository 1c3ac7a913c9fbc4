----------------------------- MODULE ByteStream -----------------------------
(***************************************************************************)
(* What mysock.h promises about the two directions of a connection: each   *)
(* direction is a queue of bytes.  Bytes come out in the order they went   *)
(* in, none missing, none twice, and all of them come out in the end       *)
(* unless the sending transport layer has given the connection up.         *)
(***************************************************************************)
EXTENDS Integers, Sequences

CONSTANTS
    Side,        \* the two ends of the connection
    Other(_)     \* the end at the other side

VARIABLES
    offered,     \* bytes each end has been given to send
    got,         \* bytes each end has received, in order
    gaveUp       \* the ends whose transport layer has stopped sending

streamVars == <<offered, got, gaveUp>>

StreamInit ==
    /\ offered = [s \in Side |-> 0]
    /\ got = [s \in Side |-> <<>>]
    /\ gaveUp = [s \in Side |-> FALSE]

(* The application at s offers more bytes. *)
Offer(s) ==
    /\ offered'[s] > offered[s]
    /\ offered' = [offered EXCEPT ![s] = offered'[s]]
    /\ UNCHANGED <<got, gaveUp>>

(* The next n bytes of the other side's stream reach s. *)
Deliver(s) ==
    /\ \E n \in 1 .. offered[Other(s)] - Len(got[s]) :
         got' = [got EXCEPT ![s] =
                     @ \o [i \in 1 .. n |-> Len(got[s]) + i]]
    /\ UNCHANGED <<offered, gaveUp>>

GiveUp(s) ==
    /\ ~gaveUp[s]
    /\ gaveUp' = [gaveUp EXCEPT ![s] = TRUE]
    /\ UNCHANGED <<offered, got>>

StreamNext == \E s \in Side : Offer(s) \/ Deliver(s) \/ GiveUp(s)

StreamSafety == StreamInit /\ [][StreamNext]_streamVars

(* An end that has not been given up by its sender gets what was offered.  *)
StreamSpec ==
    /\ StreamSafety
    /\ \A s \in Side :
         WF_streamVars(Deliver(s) /\ ~gaveUp[Other(s)])
=============================================================================
