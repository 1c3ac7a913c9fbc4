------------------------------- MODULE Stcp -------------------------------
(***************************************************************************)
(* The STCP transport layer (stcp/transport.c) at both ends of a           *)
(* connection, over the network layer of stcp/network.c, which drops,      *)
(* duplicates and reorders packets unless the socket is reliable.          *)
(*                                                                         *)
(* One endpoint is opened with myconnect() ("active"), the other comes out *)
(* of a listening socket ("passive").  Each runs transport_init() and then *)
(* control_loop() in a thread of its own; every iteration of a loop is one *)
(* action here, except the retransmission loop, which takes one step per   *)
(* packet.  Payloads are abstracted to positions: byte k of a stream is    *)
(* the k-th byte the writer passed to mywrite().                           *)
(***************************************************************************)
EXTENDS Integers, Sequences

CONSTANTS
    WINLEN,       \* window, in bytes (3072 in the code)
    MAXLEN,       \* largest payload of a packet (536 in the code)
    MAXRETRY,     \* a packet found with more retries ends the loop (6)
    ISN,          \* initial sequence number of each endpoint
    MaxBytes,     \* bound: bytes each application writes
    MaxFaults,    \* bound: packets the network mistreats; 0 = is_reliable
    Closers,      \* the endpoints whose application calls myclose()
    EagerTimers,  \* a timer may expire while packets are still under way
    LongRto,      \* rto.tv_sec, the field behind recv_indicator, may be >= 1
    Refusable     \* the network may refuse the active endpoint's SYN

Endpoint == {"active", "passive"}

Peer(e) == IF e = "active" THEN "passive" ELSE "active"

CState == {"ESTABLISHED", "SYN_SENT", "SYN_RECEIVED", "FIN_WAIT1",
           "FIN_WAIT2", "CLOSE_WAIT", "LAST_ACK", "CLOSING", "CLOSED"}

(* Where the transport thread is: in the handshake of transport_init(), in *)
(* control_loop(), returned, or dead with the process.                     *)
Phase == {"handshake", "running", "exited", "crashed"}

ASSUME SizesAssumption ==
    /\ WINLEN \in Nat \ {0}
    /\ MAXLEN \in Nat \ {0}
    /\ MAXRETRY \in Nat
    /\ MaxFaults \in Nat
    /\ ISN \in [Endpoint -> Nat]
    /\ MaxBytes \in [Endpoint -> Nat]

ASSUME SwitchesAssumption ==
    /\ Closers \subseteq Endpoint
    /\ EagerTimers \in BOOLEAN
    /\ LongRto \in BOOLEAN
    /\ Refusable \in BOOLEAN

VARIABLES
    phase,     \* where each transport thread is
    cstate,    \* connection_state
    sendUnack, sendNext, sendWind, recvNext,
    recvBuf,   \* recv_buffer and recv_indicator: the byte held, or NoByte
    unackd,    \* unackd_packets
    resend,    \* next packet of the retransmission loop, 0 outside it
    chan,      \* packets on their way to each endpoint
    copyBuf,   \* the network layer's copy_buffer (a sequence of at most one)
    faults,    \* packets mistreated so far
    written,   \* bytes the application has passed to mywrite()
    taken,     \* bytes stcp_app_recv() has handed to the transport layer
    closed,    \* the application has called myclose()
    closeReq,  \* close_requested
    input,     \* bytes myread() can return
    eof        \* an end-of-file mark has been queued behind them

connVars == <<phase, cstate>>
sendVars == <<sendUnack, sendNext, sendWind, unackd, resend>>
recvVars == <<recvNext, recvBuf>>
netVars  == <<chan, copyBuf, faults>>
outVars  == <<written, taken, closed, closeReq>>
inVars   == <<input, eof>>
vars     == <<connVars, sendVars, recvVars, netVars, outVars, inVars>>

NoByte == 0
(* What strchr() runs into when it leaves recv_indicator. *)
Junk == -1

Slot == 0 .. WINLEN - 1
EmptyBuf == [i \in Slot |-> NoByte]

---------------------------------------------------------------------------
(* Packets.  lo and len say which bytes of the stream a packet carries.    *)

Segment == [flags : SUBSET {"SYN", "ACK", "FIN"}, seq : Nat, ack : Nat,
            lo : Nat, len : Nat]

(* Mutant: acknowledges the byte after the one expected. *)
AckTooFar(flags, seq, ack, lo, len) ==
    [flags |-> flags, seq |-> seq, ack |-> ack + 1, lo |-> lo, len |-> len]

(* make_stcp_packet(); every header advertises WINLEN. *)
MakePacket(flags, seq, ack, lo, len) ==
    [flags |-> flags, seq |-> seq, ack |-> ack, lo |-> lo, len |-> len]

Header(flags, seq, ack) == MakePacket(flags, seq, ack, 0, 0)

(* packet_t: the record kept for retransmission, and packet_t_create(). *)
PacketRecord == [seg : Segment, retry : Nat]

PacketT(m) == [seg |-> m, retry |-> 0]

(* Mutant: forgets that the payload counts. *)
AckedByStart(list, una) ==
    { k \in 0 .. Len(list) :
        /\ \A j \in 1 .. k : una >= list[j].seg.seq
        /\ k < Len(list) => una < list[k + 1].seg.seq }

(* How many records packet_t_remove() pops: it stops at the first that is  *)
(* not wholly acknowledged.  The result is a set of one number.            *)
AckedCount(list, una) ==
    { k \in 0 .. Len(list) :
        /\ \A j \in 1 .. k : una >= list[j].seg.seq + list[j].seg.len
        /\ k < Len(list) =>
             una < list[k + 1].seg.seq + list[k + 1].seg.len }

---------------------------------------------------------------------------
(* _network_send(): e sends m, c being the channels once e has taken the   *)
(* packet it is answering.  Case 3 with no stored packet sends m as usual. *)
Transmit(e, m, c) ==
    LET to == Peer(e) IN
    \/ /\ chan' = [c EXCEPT ![to] = Append(@, m)]
       /\ UNCHANGED <<copyBuf, faults>>
    \/ /\ faults < MaxFaults
       /\ faults' = faults + 1
       /\ \/ /\ chan' = c
             /\ UNCHANGED copyBuf
          \/ /\ chan' = [c EXCEPT ![to] = Append(Append(@, m), m)]
             /\ UNCHANGED copyBuf
          \/ /\ chan' = c
             /\ copyBuf' = [copyBuf EXCEPT ![e] = <<m>>]
          \/ /\ copyBuf[e] # <<>>
             /\ chan' = [c EXCEPT ![to] = Append(@, copyBuf[e][1])]
             /\ UNCHANGED copyBuf

NoTransmit(c) == chan' = c /\ UNCHANGED <<copyBuf, faults>>

(* _network_recv(): the oldest packet leaves the receive queue. *)
Dequeued(e) == [chan EXCEPT ![e] = Tail(@)]

---------------------------------------------------------------------------
(* recv_packet() *)

(* Mutants: the payload of an old packet is not skipped; and it is copied  *)
(* from one byte too far.                                                  *)
FillFromStart(buf, m, next) ==
    [i \in Slot |->
        LET b == IF m.seq < next THEN i ELSE next + i - m.seq IN
        IF b >= 0 /\ b < m.len THEN m.lo + b + 1 ELSE buf[i]]

FillShifted(buf, m, next) ==
    [i \in Slot |->
        LET b == next + i - m.seq IN
        IF b >= 0 /\ b < m.len THEN m.lo + b + 2 ELSE buf[i]]

(* The receive buffer with m's payload, cut to the window, copied in. *)
Fill(buf, m, next) ==
    [i \in Slot |->
        LET b == next + i - m.seq IN
        IF b >= 0 /\ b < m.len THEN m.lo + b + 1 ELSE buf[i]]

(* strchr(recv_indicator, '\0') - recv_indicator.  The array has no        *)
(* terminator of its own: when it is full the search goes on into          *)
(* rto.tv_sec, whose low byte ends it at once if it is zero.               *)
StrChr(buf) ==
    { n \in 0 .. WINLEN : /\ \A i \in 0 .. n - 1 : buf[i] # NoByte
                          /\ n < WINLEN => buf[n] = NoByte }
    \union (IF LongRto /\ \A i \in Slot : buf[i] # NoByte
            THEN {WINLEN + 1} ELSE {})

OldData == -2
BeyondWindow == -1

(* Mutant: the next packet counts as old. *)
NextIsOld(m, next) == m.seq <= next

IsOld(m, next) == m.seq < next /\ m.seq + m.len <= next
IsBeyond(m, next) == m.len > 0 /\ m.seq - next > WINLEN

AckOf(m, una) == IF "ACK" \in m.flags /\ una <= m.ack THEN m.ack ELSE una

(* The results recv_packet() can have for packet m at endpoint e. *)
RecvPacket(e, m) ==
    IF IsBeyond(m, recvNext[e])
    THEN {[size |-> BeyondWindow, next |-> recvNext[e], una |-> sendUnack[e],
           list |-> unackd[e], buf |-> recvBuf[e], wind |-> sendWind[e]]}
    ELSE LET buf == Fill(recvBuf[e], m, recvNext[e])
             una == AckOf(m, sendUnack[e])
         IN  { [size |-> CASE m.len = 0 -> 0
                           [] m.len > 0 /\ IsOld(m, recvNext[e]) -> OldData
                           [] OTHER -> n,
                next |-> CASE "SYN" \in m.flags -> m.seq + 1
                           [] "SYN" \notin m.flags /\ m.len > 0 ->
                                recvNext[e] + n
                           [] OTHER -> recvNext[e],
                una  |-> una,
                list |-> SubSeq(unackd[e], k + 1, Len(unackd[e])),
                buf  |-> buf,
                wind |-> WINLEN] :
               n \in StrChr(buf), k \in AckedCount(unackd[e], una) }

(* What recv_packet() leaves in the context of e. *)
Accept(e, r) ==
    /\ sendUnack' = [sendUnack EXCEPT ![e] = r.una]
    /\ sendWind' = [sendWind EXCEPT ![e] = r.wind]
    /\ unackd' = [unackd EXCEPT ![e] = r.list]

---------------------------------------------------------------------------
(* transport_init(): the handshake.  Its loops read the head of            *)
(* unackd_packets for a timeout, but on a timeout they only go round.      *)

Connect(e) ==
    LET syn == Header({"SYN"}, ISN[e], 0) IN
    /\ e = "active"
    /\ phase[e] = "handshake"
    /\ cstate[e] = "CLOSED"
    /\ unackd' = [unackd EXCEPT ![e] = Append(@, PacketT(syn))]
    /\ sendUnack' = [sendUnack EXCEPT ![e] = ISN[e]]
    /\ sendNext' = [sendNext EXCEPT ![e] = ISN[e] + 1]
    /\ cstate' = [cstate EXCEPT ![e] = "SYN_SENT"]
    /\ Transmit(e, syn, chan)
    /\ UNCHANGED <<phase, sendWind, resend, recvVars, outVars, inVars>>

(* stcp_network_send() fails: the application is told, and control_loop()  *)
(* is entered in state CLOSED.                                             *)
ConnectRefused(e) ==
    /\ Refusable
    /\ e = "active"
    /\ phase[e] = "handshake"
    /\ cstate[e] = "CLOSED"
    /\ unackd' = [unackd EXCEPT ![e] =
                      Append(@, PacketT(Header({"SYN"}, ISN[e], 0)))]
    /\ sendUnack' = [sendUnack EXCEPT ![e] = ISN[e]]
    /\ sendNext' = [sendNext EXCEPT ![e] = ISN[e]]
    /\ phase' = [phase EXCEPT ![e] = "running"]
    /\ UNCHANGED <<cstate, sendWind, resend, recvVars, netVars, outVars,
                   inVars>>

SynSent(e) ==
    /\ phase[e] = "handshake"
    /\ cstate[e] = "SYN_SENT"
    /\ unackd[e] # <<>>
    /\ chan[e] # <<>>
    /\ LET m == Head(chan[e]) IN
       \E r \in RecvPacket(e, m) :
          /\ Accept(e, r)
          /\ recvNext' = [recvNext EXCEPT ![e] = r.next]
          /\ recvBuf' = [recvBuf EXCEPT ![e] = r.buf]
          /\ IF r.size >= 0 /\ {"SYN", "ACK"} \subseteq m.flags
                /\ m.ack = sendNext[e]
             THEN /\ Transmit(e, Header({"ACK"}, sendNext[e], r.next),
                              Dequeued(e))
                  /\ cstate' = [cstate EXCEPT ![e] = "ESTABLISHED"]
                  /\ phase' = [phase EXCEPT ![e] = "running"]
             ELSE NoTransmit(Dequeued(e)) /\ UNCHANGED connVars
    /\ UNCHANGED <<sendNext, resend, outVars, inVars>>

(* The first loop of the passive side; the SYN-ACK is recorded twice. *)
AwaitSyn(e) ==
    /\ e = "passive"
    /\ phase[e] = "handshake"
    /\ cstate[e] = "CLOSED"
    /\ chan[e] # <<>>
    /\ LET m == Head(chan[e]) IN
       \E r \in RecvPacket(e, m) :
          LET synack == Header({"SYN", "ACK"}, r.una, r.next) IN
          /\ recvNext' = [recvNext EXCEPT ![e] = r.next]
          /\ recvBuf' = [recvBuf EXCEPT ![e] = r.buf]
          /\ sendWind' = [sendWind EXCEPT ![e] = r.wind]
          /\ IF r.size >= 0 /\ m.flags = {"SYN"}
             THEN /\ sendUnack' = [sendUnack EXCEPT ![e] = r.una]
                  /\ sendNext' = [sendNext EXCEPT ![e] = @ + 1]
                  /\ unackd' = [unackd EXCEPT ![e] =
                         r.list \o <<PacketT(synack), PacketT(synack)>>]
                  /\ cstate' = [cstate EXCEPT ![e] = "SYN_RECEIVED"]
                  /\ Transmit(e, synack, Dequeued(e))
             ELSE \* the top of the loop sets both numbers again
                  /\ unackd' = [unackd EXCEPT ![e] = r.list]
                  /\ NoTransmit(Dequeued(e))
                  /\ UNCHANGED <<sendUnack, sendNext, cstate>>
    /\ UNCHANGED <<phase, resend, outVars, inVars>>

SynReceived(e) ==
    /\ phase[e] = "handshake"
    /\ cstate[e] = "SYN_RECEIVED"
    /\ unackd[e] # <<>>
    /\ chan[e] # <<>>
    /\ LET m == Head(chan[e]) IN
       \E r \in RecvPacket(e, m) :
          /\ Accept(e, r)
          /\ recvNext' = [recvNext EXCEPT ![e] = r.next]
          /\ recvBuf' = [recvBuf EXCEPT ![e] = r.buf]
          /\ IF r.size >= 0 /\ "ACK" \in m.flags /\ m.ack = sendNext[e]
             THEN /\ cstate' = [cstate EXCEPT ![e] = "ESTABLISHED"]
                  /\ phase' = [phase EXCEPT ![e] = "running"]
             ELSE UNCHANGED connVars
          /\ NoTransmit(Dequeued(e))
    /\ UNCHANGED <<sendNext, resend, outVars, inVars>>

---------------------------------------------------------------------------
(* control_loop() *)

(* Mutant: no timer for a last byte. *)
TimerForTwo(e) == sendUnack[e] + 1 < sendNext[e]

(* A retransmission timer is set for the head of unackd_packets. *)
TimerSet(e) == sendUnack[e] < sendNext[e]

(* The loop is at its top, and gets past the reading of the head. *)
AtTop(e) ==
    /\ phase[e] = "running"
    /\ resend[e] = 0
    /\ TimerSet(e) => unackd[e] # <<>>

(* list_get_at() of an empty list is NULL; its start_time is read.  Both   *)
(* handshake loops read it unconditionally.                                *)
NullHead(e) ==
    /\ unackd[e] = <<>>
    /\ \/ phase[e] = "running" /\ resend[e] = 0 /\ TimerSet(e)
       \/ phase[e] = "handshake" /\ cstate[e] \in {"SYN_SENT", "SYN_RECEIVED"}

Crash(e) ==
    /\ NullHead(e)
    /\ phase' = [phase EXCEPT ![e] = "crashed"]
    /\ UNCHANGED <<cstate, sendVars, recvVars, netVars, outVars, inVars>>

(* transport_thread_func() queues an end-of-file once the loop is left. *)
Exit(e) ==
    /\ phase' = [phase EXCEPT ![e] = "exited"]
    /\ eof' = [eof EXCEPT ![e] = TRUE]

(* Mutant: packets in flight do not count. *)
WholeWindow(e) == sendWind[e]

OpenWindow(e) == sendWind[e] - (sendNext[e] - sendUnack[e])

(* APP_DATA.  stcp_app_recv() returns at most one mywrite() buffer, so any *)
(* number of the bytes waiting up to the limit.                            *)
AppData(e) ==
    /\ AtTop(e)
    /\ \E n \in 1 .. MAXLEN :
         LET m == MakePacket({"ACK"}, sendNext[e], recvNext[e], taken[e], n)
         IN  /\ n <= OpenWindow(e)
             /\ n <= written[e] - taken[e]
             /\ taken' = [taken EXCEPT ![e] = @ + n]
             /\ sendNext' = [sendNext EXCEPT ![e] = @ + n]
             /\ unackd' = [unackd EXCEPT ![e] = Append(@, PacketT(m))]
             /\ Transmit(e, m, chan)
    /\ UNCHANGED <<connVars, sendUnack, sendWind, resend, recvVars, written,
                   closed, closeReq, inVars>>

(* Mutants: FIN_WAIT2 ends with any ACK; FIN_WAIT2 ignores the FIN. *)
ImpatientAfterAck(s) == CASE s = "FIN_WAIT1" -> "FIN_WAIT2"
                          [] s \in {"LAST_ACK", "CLOSING", "FIN_WAIT2"} -> "CLOSED"
                          [] OTHER -> s

DeafAfterFin(s) == CASE s = "ESTABLISHED" -> "CLOSE_WAIT"
                     [] s = "FIN_WAIT1" -> "CLOSING"
                     [] OTHER -> s

(* Connection teardown on an ACK and on a FIN. *)
AfterAck(s) == CASE s = "FIN_WAIT1" -> "FIN_WAIT2"
                 [] s \in {"LAST_ACK", "CLOSING"} -> "CLOSED"
                 [] OTHER -> s

AfterFin(s) == CASE s = "ESTABLISHED" -> "CLOSE_WAIT"
                 [] s = "FIN_WAIT1" -> "CLOSING"
                 [] s = "FIN_WAIT2" -> "CLOSED"
                 [] OTHER -> s

(* The bytes handed to stcp_app_send() and the window slid over them. *)
Delivered(buf, n) == [i \in 1 .. n |-> IF i <= WINLEN THEN buf[i - 1] ELSE Junk]

(* Mutant: recv_indicator is not cleared behind the bytes moved. *)
SlideUncleared(buf, n) ==
    [i \in Slot |-> IF i + n < WINLEN THEN buf[i + n] ELSE buf[i]]

Slide(buf, n) ==
    [i \in Slot |-> IF i + n < WINLEN THEN buf[i + n] ELSE NoByte]

(* NETWORK_DATA, once recv_packet() has returned r for packet m.  A packet *)
(* carries data or FIN, never both, so at most one acknowledgement is      *)
(* sent.  Sliding by WINLEN + 1 is a memcpy() of size -1 and kills the     *)
(* process.                                                                *)
HandlePacket(e, m, r) ==
    LET acked == IF "ACK" \in m.flags THEN AfterAck(cstate[e]) ELSE cstate[e]
        left  == acked = "CLOSED" /\ cstate[e] # "CLOSED"
        fin   == "FIN" \in m.flags /\ ~left
        state == IF fin THEN AfterFin(acked) ELSE acked
        next  == IF fin THEN r.next + 1 ELSE r.next
        over  == state = "CLOSED" /\ cstate[e] # "CLOSED"
    IN
    /\ Accept(e, r)
    /\ recvNext' = [recvNext EXCEPT ![e] = next]
    /\ recvBuf' = [recvBuf EXCEPT ![e] =
           IF r.size > 0 THEN Slide(r.buf, r.size) ELSE r.buf]
    /\ input' = [input EXCEPT ![e] =
           IF r.size > 0 /\ ~eof[e] THEN @ \o Delivered(r.buf, r.size) ELSE @]
    /\ IF r.size > 0 \/ r.size = OldData \/ fin
       THEN Transmit(e, Header({"ACK"}, sendNext[e], next), Dequeued(e))
       ELSE NoTransmit(Dequeued(e))
    /\ cstate' = [cstate EXCEPT ![e] = state]
    /\ phase' = [phase EXCEPT ![e] =
           IF r.size > WINLEN THEN "crashed" ELSE IF over THEN "exited" ELSE @]
    /\ eof' = [eof EXCEPT ![e] =
           @ \/ over \/ (fin /\ acked \in {"ESTABLISHED", "FIN_WAIT1"})]

NetworkData(e) ==
    /\ AtTop(e)
    /\ chan[e] # <<>>
    /\ \E r \in RecvPacket(e, Head(chan[e])) :
          HandlePacket(e, Head(chan[e]), r)
    /\ UNCHANGED <<sendNext, resend, outVars>>

(* APP_CLOSE_REQUESTED, delivered once and only when no application data   *)
(* is waiting.                                                             *)
AppCloseRequested(e) ==
    LET fin == Header({"FIN"}, sendNext[e], recvNext[e]) IN
    /\ AtTop(e)
    /\ closeReq[e]
    /\ written[e] = taken[e]
    /\ closeReq' = [closeReq EXCEPT ![e] = FALSE]
    /\ \/ /\ cstate[e] = "ESTABLISHED"
          /\ cstate' = [cstate EXCEPT ![e] = "FIN_WAIT1"]
          /\ sendUnack' = [sendUnack EXCEPT ![e] = @ + 1]
          /\ unackd' = [unackd EXCEPT ![e] = Append(@, PacketT(fin))]
          /\ Transmit(e, fin, chan)
          /\ UNCHANGED sendNext
       \/ /\ cstate[e] = "CLOSE_WAIT"
          /\ cstate' = [cstate EXCEPT ![e] = "LAST_ACK"]
          /\ sendNext' = [sendNext EXCEPT ![e] = @ + 1]
          /\ unackd' = [unackd EXCEPT ![e] = Append(@, PacketT(fin))]
          /\ Transmit(e, fin, chan)
          /\ UNCHANGED sendUnack
       \/ /\ cstate[e] \notin {"ESTABLISHED", "CLOSE_WAIT"}
          /\ UNCHANGED <<cstate, sendUnack, sendNext, unackd, netVars>>
    /\ UNCHANGED <<phase, sendWind, resend, recvVars, written, taken, closed,
                   inVars>>

(* Mutant: sending goes on from the packet that is resent. *)
ResendGoesBack(e, i) ==
    LET p    == [seg   |-> [unackd[e][i].seg EXCEPT !.ack = recvNext[e]],
                 retry |-> unackd[e][i].retry + 1]
        list == [unackd[e] EXCEPT ![i] = p]
        last == i = Len(unackd[e])
        giveup == \E j \in 1 .. Len(list) : list[j].retry > MAXRETRY + 1
    IN
    /\ unackd' = [unackd EXCEPT ![e] = list]
    /\ Transmit(e, p.seg, chan)
    /\ resend' = [resend EXCEPT ![e] = IF last THEN 0 ELSE i + 1]
    /\ IF last /\ giveup THEN Exit(e) ELSE UNCHANGED <<phase, eof>>
    /\ sendNext' = [sendNext EXCEPT ![e] = p.seg.seq]
    /\ UNCHANGED <<cstate, sendUnack, sendWind, recvVars, outVars,
                   input>>

(* One turn of the retransmission loop, on packet i of unackd_packets.     *)
(* The loop runs to its end even when some packet has had its retries.     *)
ResendPacket(e, i) ==
    LET p    == [seg   |-> [unackd[e][i].seg EXCEPT !.ack = recvNext[e]],
                 retry |-> unackd[e][i].retry + 1]
        list == [unackd[e] EXCEPT ![i] = p]
        last == i = Len(unackd[e])
        giveup == \E j \in 1 .. Len(list) : list[j].retry > MAXRETRY + 1
    IN
    /\ unackd' = [unackd EXCEPT ![e] = list]
    /\ Transmit(e, p.seg, chan)
    /\ resend' = [resend EXCEPT ![e] = IF last THEN 0 ELSE i + 1]
    /\ IF last /\ giveup THEN Exit(e) ELSE UNCHANGED <<phase, eof>>
    /\ UNCHANGED <<cstate, sendUnack, sendNext, sendWind, recvVars, outVars,
                   input>>

(* TIMEOUT: stcp_wait_for_event() returned 0.  It would not have with a    *)
(* packet queued or a close request to deliver; the packets in chan may    *)
(* still be on their way, unless every round trip is shorter than the RTO. *)
Quiet == \A e \in Endpoint : chan[e] = <<>> /\ resend[e] = 0

Timeout(e) ==
    /\ AtTop(e)
    /\ TimerSet(e)
    /\ ~(closeReq[e] /\ written[e] = taken[e])
    /\ EagerTimers \/ Quiet
    /\ ResendPacket(e, 1)

ResendNext(e) ==
    /\ phase[e] = "running"
    /\ resend[e] > 0
    /\ ResendPacket(e, resend[e])

---------------------------------------------------------------------------
(* The application.  It is blocked until the handshake is over. *)

Mywrite(e) ==
    /\ phase[e] # "handshake"
    /\ cstate[e] # "CLOSED" \/ phase[e] = "exited"
    /\ ~closed[e]
    /\ \E n \in 1 .. MaxBytes[e] :
         /\ written[e] + n <= MaxBytes[e]
         /\ written' = [written EXCEPT ![e] = @ + n]
    /\ UNCHANGED <<connVars, sendVars, recvVars, netVars, taken, closed,
                   closeReq, inVars>>

Myclose(e) ==
    /\ e \in Closers
    /\ phase[e] \in {"running", "exited"}
    /\ ~closed[e]
    /\ closed' = [closed EXCEPT ![e] = TRUE]
    /\ closeReq' = [closeReq EXCEPT ![e] = TRUE]
    /\ UNCHANGED <<connVars, sendVars, recvVars, netVars, written, taken,
                   inVars>>

---------------------------------------------------------------------------
Handshake(e) == \/ Connect(e)
                \/ ConnectRefused(e)
                \/ SynSent(e)
                \/ AwaitSyn(e)
                \/ SynReceived(e)

Transfer(e) == \/ AppData(e)
               \/ NetworkData(e)
               \/ Timeout(e)
               \/ ResendNext(e)

Next == \E e \in Endpoint : \/ Handshake(e)
                            \/ Transfer(e)
                            \/ AppCloseRequested(e)
                            \/ Crash(e)
                            \/ Mywrite(e)
                            \/ Myclose(e)

(* calloc() of the context, and generate_initial_seq_num().  The top of    *)
(* the passive side's first loop sets both send numbers.                   *)
Init ==
    /\ phase = [e \in Endpoint |-> "handshake"]
    /\ cstate = [e \in Endpoint |-> "CLOSED"]
    /\ sendUnack = [e \in Endpoint |-> ISN[e]]
    /\ sendNext = [e \in Endpoint |-> ISN[e]]
    /\ sendWind = [e \in Endpoint |-> 0]
    /\ recvNext = [e \in Endpoint |-> 0]
    /\ recvBuf = [e \in Endpoint |-> EmptyBuf]
    /\ unackd = [e \in Endpoint |-> <<>>]
    /\ resend = [e \in Endpoint |-> 0]
    /\ chan = [e \in Endpoint |-> <<>>]
    /\ copyBuf = [e \in Endpoint |-> <<>>]
    /\ faults = 0
    /\ written = [e \in Endpoint |-> 0]
    /\ taken = [e \in Endpoint |-> 0]
    /\ closed = [e \in Endpoint |-> FALSE]
    /\ closeReq = [e \in Endpoint |-> FALSE]
    /\ input = [e \in Endpoint |-> <<>>]
    /\ eof = [e \in Endpoint |-> FALSE]

(* The transport threads run; nobody makes the applications write or close.*)
Fairness ==
    \A e \in Endpoint : /\ WF_vars(Connect(e) \/ ConnectRefused(e))
                        /\ WF_vars(SynSent(e) \/ AwaitSyn(e) \/ SynReceived(e))
                        /\ WF_vars(AppData(e))
                        /\ WF_vars(NetworkData(e))
                        /\ WF_vars(AppCloseRequested(e))
                        /\ WF_vars(Timeout(e))
                        /\ WF_vars(ResendNext(e))

Spec == Init /\ [][Next]_vars /\ Fairness

---------------------------------------------------------------------------
(* Data transfer alone: the state both ends are in after a handshake in    *)
(* which nothing was lost, and no application closes.                      *)
TransferInit ==
    /\ phase = [e \in Endpoint |-> "running"]
    /\ cstate = [e \in Endpoint |-> "ESTABLISHED"]
    /\ sendUnack = [e \in Endpoint |-> ISN[e] + 1]
    /\ sendNext = [e \in Endpoint |-> ISN[e] + 1]
    /\ sendWind = [e \in Endpoint |-> WINLEN]
    /\ recvNext = [e \in Endpoint |-> ISN[Peer(e)] + 1]
    /\ recvBuf = [e \in Endpoint |-> EmptyBuf]
    /\ unackd = [e \in Endpoint |-> <<>>]
    /\ resend = [e \in Endpoint |-> 0]
    /\ chan = [e \in Endpoint |-> <<>>]
    /\ copyBuf = [e \in Endpoint |-> <<>>]
    /\ faults = 0
    /\ written = [e \in Endpoint |-> 0]
    /\ taken = [e \in Endpoint |-> 0]
    /\ closed = [e \in Endpoint |-> FALSE]
    /\ closeReq = [e \in Endpoint |-> FALSE]
    /\ input = [e \in Endpoint |-> <<>>]
    /\ eof = [e \in Endpoint |-> FALSE]

TransferNext == \E e \in Endpoint : Transfer(e) \/ Mywrite(e)

TransferSafety == TransferInit /\ [][TransferNext]_vars

TransferFairness ==
    \A e \in Endpoint : /\ WF_vars(AppData(e))
                        /\ WF_vars(NetworkData(e))
                        /\ WF_vars(Timeout(e))
                        /\ WF_vars(ResendNext(e))

TransferSpec == TransferSafety /\ TransferFairness

---------------------------------------------------------------------------
(* Properties. *)

(* Every variable has the type of its C counterpart. *)
TypeOK ==
    /\ phase \in [Endpoint -> Phase]
    /\ cstate \in [Endpoint -> CState]
    /\ sendUnack \in [Endpoint -> Nat]
    /\ sendNext \in [Endpoint -> Nat]
    /\ sendWind \in [Endpoint -> 0 .. WINLEN]
    /\ recvNext \in [Endpoint -> Nat]
    /\ recvBuf \in [Endpoint -> [Slot -> Nat]]
    /\ unackd \in [Endpoint -> Seq(PacketRecord)]
    /\ resend \in [Endpoint -> Nat]
    /\ chan \in [Endpoint -> Seq(Segment)]
    /\ copyBuf \in [Endpoint -> Seq(Segment)]
    /\ faults \in 0 .. MaxFaults
    /\ written \in [Endpoint -> Nat]
    /\ taken \in [Endpoint -> Nat]
    /\ closed \in [Endpoint -> BOOLEAN]
    /\ closeReq \in [Endpoint -> BOOLEAN]
    /\ input \in [Endpoint -> Seq(Int)]
    /\ eof \in [Endpoint -> BOOLEAN]

(* What recv_packet() and control_loop() hand to stcp_app_send() is a      *)
(* prefix of what the peer's application wrote: nothing lost, repeated,    *)
(* reordered or made up, whatever the network does to the packets.         *)
StreamPrefix ==
    \A e \in Endpoint :
        /\ Len(input[e]) <= written[Peer(e)]
        /\ \A i \in 1 .. Len(input[e]) : input[e][i] = i

(* A byte that send_unack counts as acknowledged, and that                 *)
(* packet_t_remove() has therefore stopped keeping, is in the hands of the *)
(* peer's application.                                                     *)
AckedDelivered ==
    \A e \in Endpoint :
        sendUnack[e] <= ISN[e] + 1 + Len(input[Peer(e)])

(* unackd_packets holds every byte between send_unack and send_next, so a  *)
(* timeout can repair any loss; in particular its head exists when the     *)
(* timer reads it.                                                         *)
Retained ==
    \A e \in Endpoint :
        /\ \A b \in sendUnack[e] .. sendNext[e] - 1 :
             \E i \in DOMAIN unackd[e] :
                LET m == unackd[e][i].seg IN m.seq <= b /\ b < m.seq + m.len
        /\ ~NullHead(e)

(* The bytes out of order in recv_buffer and those in flight never exceed  *)
(* the window, so recv_packet() never has to refuse or cut a packet that   *)
(* the sender was entitled to send.                                        *)
WithinWindow ==
    \A e \in Endpoint :
        /\ sendNext[e] - sendUnack[e] <= WINLEN
        /\ \A i \in DOMAIN chan[Peer(e)] :
             LET m == chan[Peer(e)][i] IN
             m.seq + m.len - recvNext[Peer(e)] <= WINLEN

(* The sequence numbers of a context never go back: what has been          *)
(* acknowledged, sent or received stays so.                                *)
NumbersAdvance ==
    [][\A e \in Endpoint : /\ sendUnack[e] <= sendUnack'[e]
                           /\ sendNext[e] <= sendNext'[e]
                           /\ recvNext[e] <= recvNext'[e]]_vars

(* End-of-file is only shown to the application (stcp_fin_received(), or   *)
(* the mark transport_thread_func() queues) once it has been given every   *)
(* byte the peer wrote, and the peer has closed; transport_init() returns  *)
(* only when both have: while the network mistreats no packet.             *)
EofComplete ==
    faults = 0 => \A e \in Endpoint :
        /\ eof[e] => closed[Peer(e)] /\ Len(input[e]) = written[Peer(e)]
        /\ phase[e] = "exited" => \A f \in Endpoint : closed[f]

(* An endpoint whose loop has ended (with its last packets perhaps still   *)
(* on the way) leaves the peer with everything it wrote, while the network *)
(* mistreats no packet.                                                    *)
ExitDelivers ==
    \A e \in Endpoint :
        phase[e] = "exited" ~> Len(input[Peer(e)]) = written[e] \/ faults > 0

(* No transport thread follows a NULL list head or a recv_indicator that   *)
(* has no terminator, while the network mistreats no packet.               *)
NoCrash == faults = 0 => \A e \in Endpoint : phase[e] # "crashed" /\ ~NullHead(e)

(* myclose() joins the transport thread: once both applications have       *)
(* closed, both threads return, unless a packet was mistreated.            *)
CloseCompletes ==
    (\A e \in Endpoint : closed[e])
        ~> (\A e \in Endpoint : phase[e] = "exited") \/ faults > 0

(* A connection is opened: the handshake ends at both sides, unless the    *)
(* SYN was refused or a packet was mistreated.                             *)
HandshakeCompletes ==
    <>(\/ \A e \in Endpoint : phase[e] # "handshake"
       \/ cstate["active"] = "CLOSED" /\ phase["active"] = "running"
       \/ faults > 0)

(* Whatever goes wrong, a sequence number stands for one byte: first       *)
(* transmissions, retransmissions, duplicates and the packet the network   *)
(* held back all carry the byte written at that place, and nothing that    *)
(* was not written is ever delivered.                                      *)
SeqNamesByte ==
    \A e \in Endpoint :
        /\ \A i \in DOMAIN chan[e] :
             LET m == chan[e][i] IN
             m.len > 0 => /\ m.seq = ISN[Peer(e)] + 1 + m.lo
                          /\ m.lo + m.len <= written[Peer(e)]
        /\ \A i \in DOMAIN input[e] : input[e][i] \in 1 .. written[Peer(e)]

(* The transport layer implements a pair of byte streams. *)
Stream == INSTANCE ByteStream WITH
              Side    <- Endpoint,
              Other   <- Peer,
              offered <- written,
              got     <- input,
              gaveUp  <- [e \in Endpoint |-> phase[e] = "exited"]

ImplementsByteStream == Stream!StreamSpec
===========================================================================
