------------------------ MODULE StcpLifecycleProofs ------------------------
(***************************************************************************)
(* Proofs about the whole life of an STCP connection: the handshake, data  *)
(* transfer and the close, over a network that may mistreat any number of  *)
(* packets, with a refused connection, early timers and threads that give  *)
(* up or die.  Only LongRto is excluded.  Much of what holds of data       *)
(* transfer alone fails here (a handshake whose last acknowledgement is    *)
(* lost miscounts what was received), but a sequence number never stands   *)
(* for two different bytes.                                                *)
(***************************************************************************)
EXTENDS StcpProofs

(* The data in packet m are bytes of the first w of s's stream, under      *)
(* their own numbers.                                                      *)
Named(s, m, w) ==
    /\ m \in Segment
    /\ m.len > 0 => /\ m.seq = ISN[s] + 1 + m.lo
                    /\ m.lo + m.len <= w

ListNamed(s, list) ==
    /\ list \in Seq(PacketRecord)
    /\ \A i \in 1 .. Len(list) : Named(s, list[i].seg, written[s])

(* Every packet on the way, held back or kept for retransmission.          *)
PacketsNamed ==
    \A e \in Endpoint :
        /\ \A i \in 1 .. Len(chan[e]) :
             Named(Peer(e), chan[e][i], written[Peer(e)])
        /\ \A i \in 1 .. Len(copyBuf[e]) : Named(e, copyBuf[e][i], written[e])
        /\ ListNamed(e, unackd[e])

(* Every byte received is one of those the peer has written.               *)
BytesWritten ==
    \A e \in Endpoint :
        /\ \A i \in Slot : recvBuf[e][i] <= written[Peer(e)]
        /\ \A i \in 1 .. Len(input[e]) : input[e][i] \in 1 .. written[Peer(e)]

(* send_next counts the bytes taken, except before the handshake, where    *)
(* nothing is written, and once a FIN is sent, when nothing is written any *)
(* more.                                                                   *)
Counting(e) == sendNext[e] = ISN[e] + 1 + taken[e]

NothingToSend(e) ==
    /\ written[e] = taken[e]
    /\ \/ closed[e]
       \/ /\ cstate[e] = "CLOSED" /\ phase[e] # "exited"
          /\ resend[e] = 0 /\ sendNext[e] <= sendUnack[e]

SendingSound ==
    \A e \in Endpoint :
        /\ taken[e] <= written[e]
        /\ closeReq[e] => closed[e]
        /\ Counting(e) \/ NothingToSend(e)
        /\ phase[e] = "handshake" => resend[e] = 0
        /\ phase[e] = "handshake" /\ cstate[e] = "CLOSED" =>
             written[e] = 0 /\ sendNext[e] = ISN[e]

(* The inductive invariant of a connection's whole life. *)
LifeInv == /\ TypeOK
           /\ PacketsNamed
           /\ BytesWritten
           /\ SendingSound
           /\ LoopSound

---------------------------------------------------------------------------
LEMMA LifeInit == Init => LifeInv
<1> SUFFICES ASSUME Init PROVE LifeInv
  OBVIOUS
<1> USE SizesAssumption
<1>1. EmptyBuf \in [Slot -> Nat] /\ \A i \in Slot : EmptyBuf[i] = 0
  BY DEF EmptyBuf, NoByte
<1>2. TypeOK
  BY <1>1 DEF Init, TypeOK, Phase, CState
<1>3. PacketsNamed
  <2> SUFFICES ASSUME NEW e \in Endpoint PROVE PacketsNamed!(e)
    BY DEF PacketsNamed
  <2>1. chan[e] = <<>> /\ copyBuf[e] = <<>> /\ unackd[e] = <<>>
    BY DEF Init
  <2>2. \A S : <<>> \in Seq(S)
    OBVIOUS
  <2>3. 1 .. Len(<<>>) = {}
    OBVIOUS
  <2> QED BY <2>1, <2>2, <2>3 DEF ListNamed
<1>4. BytesWritten
  <2> SUFFICES ASSUME NEW e \in Endpoint PROVE BytesWritten!(e)
    BY DEF BytesWritten
  <2>1. recvBuf[e] = EmptyBuf /\ input[e] = <<>> /\ written[Peer(e)] = 0
    BY PeerType DEF Init
  <2> QED BY <2>1, <1>1
<1>5. SendingSound
  <2> SUFFICES ASSUME NEW e \in Endpoint PROVE SendingSound!(e)
    BY DEF SendingSound
  <2>1. /\ taken[e] = 0 /\ written[e] = 0 /\ ~closeReq[e]
        /\ sendNext[e] = ISN[e] /\ sendUnack[e] = ISN[e] /\ resend[e] = 0
        /\ cstate[e] = "CLOSED" /\ phase[e] = "handshake" /\ ISN[e] \in Nat
    BY DEF Init
  <2> QED BY <2>1 DEF NothingToSend
<1>6. LoopSound
  <2>1. \A e \in Endpoint : resend[e] = 0 /\ unackd[e] = <<>>
    BY DEF Init
  <2> QED BY <2>1 DEF LoopSound
<1> QED BY <1>2, <1>3, <1>4, <1>5, <1>6 DEF LifeInv

(* Writing more makes no packet unsound. *)
LEMMA NamedMonotone ==
    ASSUME NEW s \in Endpoint, NEW m, NEW w \in Nat, NEW w2 \in Nat, w <= w2,
           Named(s, m, w)
    PROVE  Named(s, m, w2)
BY SizesAssumption DEF Named, Segment

(* Packets without data name no byte. *)
LEMMA HeaderNamed ==
    ASSUME NEW s, NEW w, NEW flags \in SUBSET {"SYN", "ACK", "FIN"},
           NEW seq \in Nat, NEW ack \in Nat
    PROVE  Named(s, Header(flags, seq, ack), w)
BY DEF Named, Header, MakePacket, Segment

LEMMA ListNamedAppend ==
    ASSUME NEW s, NEW list, ListNamed(s, list), NEW m, Named(s, m, written[s])
    PROVE  ListNamed(s, Append(list, PacketT(m)))
<1>1. PacketT(m) \in PacketRecord /\ PacketT(m).seg = m
  BY DEF PacketT, PacketRecord, Named
<1>2. list \in Seq(PacketRecord) /\ Len(list) \in Nat
  BY DEF ListNamed
<1>3. /\ Append(list, PacketT(m)) \in Seq(PacketRecord)
      /\ Len(Append(list, PacketT(m))) = Len(list) + 1
      /\ \A i \in 1 .. Len(list) : Append(list, PacketT(m))[i] = list[i]
      /\ Append(list, PacketT(m))[Len(list) + 1] = PacketT(m)
  BY <1>1, <1>2, AppendProperties
<1>4. ASSUME NEW i \in 1 .. Len(list) + 1
      PROVE  Named(s, Append(list, PacketT(m))[i].seg, written[s])
  <2>1. CASE i \in 1 .. Len(list)
    BY <2>1, <1>3 DEF ListNamed
  <2>2. CASE i = Len(list) + 1
    BY <2>2, <1>1, <1>3
  <2> QED BY <2>1, <2>2, <1>2
<1> QED BY <1>3, <1>4 DEF ListNamed

(* The channels a packet is sent into: as they were, or without the packet *)
(* being answered.                                                         *)
ChannelsFor(e, c) == c = chan \/ (chan[e] # <<>> /\ c = Dequeued(e))

(* Sending, and every change of the list of the sender, keeps the packets  *)
(* sound when what is sent and listed is.                                  *)
LEMMA PacketsStep ==
    ASSUME LifeInv, NEW e \in Endpoint,
           NEW list, ListNamed(e, list), unackd' = [unackd EXCEPT ![e] = list],
           written' = written, NEW c, ChannelsFor(e, c),
           \/ NoTransmit(c)
           \/ \E m : Named(e, m, written[e]) /\ Transmit(e, m, c)
    PROVE  /\ PacketsNamed'
           /\ unackd' \in [Endpoint -> Seq(PacketRecord)]
           /\ chan' \in [Endpoint -> Seq(Segment)]
           /\ copyBuf' \in [Endpoint -> Seq(Segment)]
           /\ faults' \in 0 .. MaxFaults
<1>1. /\ chan \in [Endpoint -> Seq(Segment)]
      /\ copyBuf \in [Endpoint -> Seq(Segment)]
      /\ unackd \in [Endpoint -> Seq(PacketRecord)]
      /\ faults \in 0 .. MaxFaults
  BY DEF LifeInv, TypeOK
<1>2. /\ c \in [Endpoint -> Seq(Segment)]
      /\ \A x \in Endpoint : \A i \in 1 .. Len(c[x]) :
           \E j \in 1 .. Len(chan[x]) : c[x][i] = chan[x][j]
  <2>1. CASE c = chan
    BY <2>1, <1>1
  <2>2. CASE chan[e] # <<>> /\ c = Dequeued(e)
    BY <2>2, <1>1, DequeuedPackets
  <2> QED BY <2>1, <2>2 DEF ChannelsFor
<1> DEFINE Sent(m) ==
      /\ chan' \in [Endpoint -> Seq(Segment)]
      /\ copyBuf' \in [Endpoint -> Seq(Segment)]
      /\ faults' \in 0 .. MaxFaults
      /\ \A x \in Endpoint : \A i \in 1 .. Len(chan'[x]) :
           \/ \E j \in 1 .. Len(c[x]) : chan'[x][i] = c[x][j]
           \/ x = Peer(e) /\ chan'[x][i] = m
           \/ /\ x = Peer(e)
              /\ \E j \in 1 .. Len(copyBuf[e]) : chan'[x][i] = copyBuf[e][j]
      /\ \A x \in Endpoint : \A i \in 1 .. Len(copyBuf'[x]) :
           \/ \E j \in 1 .. Len(copyBuf[x]) : copyBuf'[x][i] = copyBuf[x][j]
           \/ x = e /\ copyBuf'[x][i] = m
<1>3. PICK m : Named(e, m, written[e]) /\ Sent(m)
  <2>1. CASE NoTransmit(c)
    <3>1. chan' = c /\ copyBuf' = copyBuf /\ faults' = faults
      BY <2>1 DEF NoTransmit
    <3>2. Named(e, Header({}, 0, 0), written[e])
      BY HeaderNamed
    <3> QED BY <3>1, <3>2, <1>1, <1>2
  <2>2. ASSUME NEW m, Named(e, m, written[e]), Transmit(e, m, c)
        PROVE  Sent(m)
    <3>1. m \in Segment
      BY <2>2 DEF Named
    <3> QED BY <3>1, <2>2, <1>1, <1>2, TransmitEffect
  <2> QED BY <2>1, <2>2
<1>4. /\ \A x \in Endpoint : \A i \in 1 .. Len(chan[x]) :
           Named(Peer(x), chan[x][i], written[Peer(x)])
      /\ \A x \in Endpoint : \A i \in 1 .. Len(copyBuf[x]) :
           Named(x, copyBuf[x][i], written[x])
      /\ \A x \in Endpoint : ListNamed(x, unackd[x])
  BY DEF LifeInv, PacketsNamed
<1>5. ASSUME NEW x \in Endpoint, NEW i \in 1 .. Len(chan'[x])
      PROVE  Named(Peer(x), chan'[x][i], written[Peer(x)])
  <2>1. Peer(x) \in Endpoint /\ (x = Peer(e) => Peer(x) = e)
    BY PeerType
  <2>2. CASE \E j \in 1 .. Len(c[x]) : chan'[x][i] = c[x][j]
    <3>1. PICK j \in 1 .. Len(chan[x]) : chan'[x][i] = chan[x][j]
      BY <1>2, <2>2
    <3> QED BY <3>1, <1>4
  <2>3. CASE x = Peer(e) /\ chan'[x][i] = m
    BY <1>3, <2>1, <2>3
  <2>4. CASE /\ x = Peer(e)
             /\ \E j \in 1 .. Len(copyBuf[e]) : chan'[x][i] = copyBuf[e][j]
    BY <1>4, <2>1, <2>4
  <2> QED BY <1>3, <2>2, <2>3, <2>4
<1>6. ASSUME NEW x \in Endpoint, NEW i \in 1 .. Len(copyBuf'[x])
      PROVE  Named(x, copyBuf'[x][i], written[x])
  BY <1>3, <1>4
<1>7. unackd' \in [Endpoint -> Seq(PacketRecord)]
  BY <1>1 DEF ListNamed
<1>8. ASSUME NEW x \in Endpoint PROVE ListNamed(x, unackd[x])'
  <2>1. ListNamed(x, unackd'[x])
    BY <1>1, <1>4
  <2> QED BY <2>1 DEF ListNamed
<1>9. PacketsNamed'
  BY <1>5, <1>6, <1>8 DEF PacketsNamed
<1> QED BY <1>3, <1>7, <1>9

---------------------------------------------------------------------------
(* What recv_packet() may return at any time of a connection's life.       *)
Received(e, r) ==
    /\ r.una \in Nat
    /\ sendUnack[e] <= r.una
    /\ r.next \in Nat
    /\ r.wind \in 0 .. WINLEN
    /\ ListNamed(e, r.list)
    /\ r.buf \in [Slot -> 0 .. written[Peer(e)]]
    /\ r.size \in -2 .. WINLEN
    /\ \A i \in 0 .. r.size - 1 : r.buf[i] # NoByte

(* The numbers in a context, and in what recv_packet() returns. *)
LEMMA LifeNumbers ==
    ASSUME LifeInv
    PROVE  /\ sendUnack \in [Endpoint -> Nat] /\ sendNext \in [Endpoint -> Nat]
           /\ sendWind \in [Endpoint -> 0 .. WINLEN]
           /\ cstate \in [Endpoint -> CState]
BY DEF LifeInv, TypeOK

LEMMA ReceivedNumbers ==
    ASSUME NEW e, NEW r, Received(e, r)
    PROVE  r.una \in Nat /\ r.next \in Nat /\ r.wind \in 0 .. WINLEN
BY DEF Received

(* A suffix of a sound list is sound. *)
LEMMA ListNamedSuffix ==
    ASSUME NEW s, NEW list, ListNamed(s, list), NEW k \in 0 .. Len(list)
    PROVE  ListNamed(s, SubSeq(list, k + 1, Len(list)))
<1> DEFINE rest == SubSeq(list, k + 1, Len(list))
<1>1. list \in Seq(PacketRecord) /\ Len(list) \in Nat
  BY DEF ListNamed
<1>2. \A i \in k + 1 .. Len(list) : list[i] \in PacketRecord
  BY <1>1
<1>3. /\ rest \in Seq(PacketRecord)
      /\ Len(rest) = IF k + 1 <= Len(list) THEN Len(list) - (k + 1) + 1 ELSE 0
      /\ \A i \in 1 .. Len(list) - (k + 1) + 1 : rest[i] = list[(k + 1) + i - 1]
  BY <1>1, <1>2, SubSeqProperties
<1>4. Len(rest) = Len(list) - k
  <2> HIDE DEF rest
  <2> QED BY <1>1, <1>3
<1>5. ASSUME NEW i \in 1 .. Len(list) - k
      PROVE  rest[i] = list[i + k] /\ i + k \in 1 .. Len(list)
  <2> HIDE DEF rest
  <2>1. (k + 1) + i - 1 = i + k /\ i \in 1 .. Len(list) - (k + 1) + 1
    BY <1>1
  <2> QED BY <1>1, <1>3, <2>1
<1> QED BY <1>3, <1>4, <1>5 DEF ListNamed

(* Copying a sound packet into the buffer puts only bytes of the peer there. *)
LEMMA FillWritten ==
    ASSUME LifeInv, NEW e \in Endpoint,
           NEW m, Named(Peer(e), m, written[Peer(e)])
    PROVE  Fill(recvBuf[e], m, recvNext[e]) \in [Slot -> 0 .. written[Peer(e)]]
<1> DEFINE buf == Fill(recvBuf[e], m, recvNext[e])
<1>1. /\ m.seq \in Nat /\ m.lo \in Nat /\ m.len \in Nat
      /\ recvNext[e] \in Nat /\ written[Peer(e)] \in Nat
      /\ m.len > 0 => m.lo + m.len <= written[Peer(e)]
  BY PeerType DEF LifeInv, TypeOK, Named, Segment
<1>2. /\ recvBuf[e] \in [Slot -> Nat]
      /\ \A i \in Slot : recvBuf[e][i] <= written[Peer(e)]
  BY DEF LifeInv, TypeOK, BytesWritten
<1>3. ASSUME NEW i \in Slot PROVE buf[i] \in 0 .. written[Peer(e)]
  <2>1. i \in Nat
    BY SizesAssumption DEF Slot
  <2>2. buf[i] = IF recvNext[e] + i - m.seq >= 0 /\ recvNext[e] + i - m.seq < m.len
                 THEN m.lo + (recvNext[e] + i - m.seq) + 1 ELSE recvBuf[e][i]
    BY DEF Fill
  <2> HIDE DEF buf
  <2>3. CASE recvNext[e] + i - m.seq >= 0 /\ recvNext[e] + i - m.seq < m.len
    BY <1>1, <2>1, <2>2, <2>3
  <2>4. CASE ~(recvNext[e] + i - m.seq >= 0 /\ recvNext[e] + i - m.seq < m.len)
    BY <1>1, <1>2, <2>2, <2>4
  <2> QED BY <2>3, <2>4
<1> QED BY <1>3 DEF Fill

LEMMA RecvPacketLife ==
    ASSUME ~LongRto, LifeInv, NEW e \in Endpoint, chan[e] # <<>>,
           NEW r \in RecvPacket(e, Head(chan[e]))
    PROVE  Received(e, r)
<1> DEFINE m == Head(chan[e])
<1>1. chan \in [Endpoint -> Seq(Segment)]
  BY DEF LifeInv, TypeOK
<1>2. Named(Peer(e), m, written[Peer(e)])
  <2>1. 1 \in 1 .. Len(chan[e]) /\ m = chan[e][1]
    BY <1>1, DequeuedPackets
  <2> QED BY <2>1 DEF LifeInv, PacketsNamed
<1>3. /\ m.len \in Nat /\ m.ack \in Nat /\ m.seq \in Nat
      /\ sendUnack[e] \in Nat /\ recvNext[e] \in Nat
      /\ sendWind[e] \in 0 .. WINLEN /\ WINLEN \in Nat \ {0}
      /\ ListNamed(e, unackd[e])
  BY <1>2, SizesAssumption DEF LifeInv, TypeOK, Named, Segment, PacketsNamed
<1> HIDE DEF m
<1>4. CASE IsBeyond(m, recvNext[e])
  <2>1. r = [size |-> BeyondWindow, next |-> recvNext[e], una |-> sendUnack[e],
             list |-> unackd[e], buf |-> recvBuf[e], wind |-> sendWind[e]]
    BY <1>4 DEF RecvPacket, m
  <2>2. recvBuf[e] \in [Slot -> 0 .. written[Peer(e)]]
    <3>1. /\ recvBuf[e] \in [Slot -> Nat] /\ written[Peer(e)] \in Nat
          /\ \A i \in Slot : recvBuf[e][i] <= written[Peer(e)]
      BY PeerType DEF LifeInv, TypeOK, BytesWritten
    <3> QED BY <3>1
  <2>3. /\ r.size = -1 /\ r.next = recvNext[e] /\ r.una = sendUnack[e]
        /\ r.list = unackd[e] /\ r.buf = recvBuf[e] /\ r.wind = sendWind[e]
    BY <2>1 DEF BeyondWindow
  <2> QED BY <1>3, <2>2, <2>3 DEF Received
<1>5. CASE ~IsBeyond(m, recvNext[e])
  <2> DEFINE buf == Fill(recvBuf[e], m, recvNext[e])
             una == AckOf(m, sendUnack[e])
  <2>1. PICK n \in StrChr(buf), k \in AckedCount(unackd[e], una) :
          r = [size |-> CASE m.len = 0 -> 0
                          [] m.len > 0 /\ IsOld(m, recvNext[e]) -> OldData
                          [] OTHER -> n,
               next |-> CASE "SYN" \in m.flags -> m.seq + 1
                          [] "SYN" \notin m.flags /\ m.len > 0 -> recvNext[e] + n
                          [] OTHER -> recvNext[e],
               una  |-> una,
               list |-> SubSeq(unackd[e], k + 1, Len(unackd[e])),
               buf  |-> buf,
               wind |-> WINLEN]
    BY <1>5 DEF RecvPacket, m
  <2>2. n \in 0 .. WINLEN /\ \A i \in 0 .. n - 1 : buf[i] # NoByte
    BY <2>1 DEF StrChr
  <2>3. buf \in [Slot -> 0 .. written[Peer(e)]]
    BY <1>2, FillWritten
  <2>4. una \in Nat /\ sendUnack[e] <= una
    BY <1>3 DEF AckOf
  <2>5. ListNamed(e, SubSeq(unackd[e], k + 1, Len(unackd[e])))
    BY <1>3, <2>1, ListNamedSuffix DEF AckedCount
  <2> HIDE DEF buf, una
  <2>6. /\ r.una = una /\ r.buf = buf /\ r.wind = WINLEN
        /\ r.list = SubSeq(unackd[e], k + 1, Len(unackd[e]))
    BY <2>1
  <2>7. r.size = 0 \/ r.size = -2 \/ r.size = n
    BY <1>3, <2>1 DEF OldData
  <2>8. r.next \in Nat
    <3>1. r.next = m.seq + 1 \/ r.next = recvNext[e] + n \/ r.next = recvNext[e]
      BY <2>1
    <3> QED BY <3>1, <2>2, <1>3
  <2>9. r.size \in -2 .. WINLEN /\ \A i \in 0 .. r.size - 1 : buf[i] # NoByte
    BY <2>2, <2>7, <1>3
  <2> QED BY <1>3, <2>3, <2>4, <2>5, <2>6, <2>8, <2>9 DEF Received
<1> QED BY <1>4, <1>5

---------------------------------------------------------------------------
(* The handshake. *)

(* What a handshake loop does with its buffer is sound. *)
LEMMA HandshakeBuffer ==
    ASSUME LifeInv, NEW e \in Endpoint, NEW r, Received(e, r),
           recvNext' = [recvNext EXCEPT ![e] = r.next],
           recvBuf' = [recvBuf EXCEPT ![e] = r.buf],
           UNCHANGED <<input, written>>
    PROVE  /\ BytesWritten'
           /\ recvBuf' \in [Endpoint -> [Slot -> Nat]]
           /\ recvNext' \in [Endpoint -> Nat]
<1>1. /\ recvBuf \in [Endpoint -> [Slot -> Nat]]
      /\ recvNext \in [Endpoint -> Nat]
      /\ \A x \in Endpoint : written[Peer(x)] \in Nat
  BY PeerType DEF LifeInv, TypeOK
<1>2. r.buf \in [Slot -> 0 .. written[Peer(e)]] /\ r.next \in Nat
  BY DEF Received
<1>3. \A i \in Slot : r.buf[i] \in Nat /\ r.buf[i] <= written[Peer(e)]
  BY <1>1, <1>2
<1>4. r.buf \in [Slot -> Nat]
  BY <1>2, <1>3
<1>5. ASSUME NEW x \in Endpoint, NEW i \in Slot
      PROVE  recvBuf'[x][i] <= written[Peer(x)]
  <2>1. CASE x = e
    BY <2>1, <1>1, <1>3
  <2>2. CASE x # e
    BY <2>2, <1>1 DEF LifeInv, BytesWritten
  <2> QED BY <2>1, <2>2
<1>6. BytesWritten'
  BY <1>5 DEF LifeInv, BytesWritten
<1> QED BY <1>1, <1>2, <1>4, <1>6

(* The retransmission loop is not entered before the handshake is over. *)
LEMMA HandshakeLoop ==
    ASSUME LifeInv, NEW e \in Endpoint, phase[e] = "handshake",
           NEW list \in Seq(PacketRecord),
           unackd' = [unackd EXCEPT ![e] = list], resend' = resend
    PROVE  LoopSound'
<1> SUFFICES ASSUME NEW x \in Endpoint PROVE resend'[x] <= Len(unackd'[x])
  BY DEF LoopSound
<1>1. unackd \in [Endpoint -> Seq(PacketRecord)]
  BY DEF LifeInv, TypeOK
<1>2. CASE x = e
  <2>1. resend'[e] = 0 /\ unackd'[e] = list
    BY <1>1 DEF LifeInv, SendingSound
  <2>2. Len(list) \in Nat
    OBVIOUS
  <2> QED BY <1>2, <2>1, <2>2
<1>3. CASE x # e
  BY <1>1, <1>3 DEF LifeInv, LoopSound
<1> QED BY <1>2, <1>3

LEMMA ConnectLife ==
    ASSUME LifeInv, NEW e \in Endpoint, Connect(e)
    PROVE  LifeInv'
<1> DEFINE syn == Header({"SYN"}, ISN[e], 0)
           list == Append(unackd[e], PacketT(syn))
<1>1. /\ phase[e] = "handshake" /\ cstate[e] = "CLOSED"
      /\ unackd' = [unackd EXCEPT ![e] = list]
      /\ sendUnack' = [sendUnack EXCEPT ![e] = ISN[e]]
      /\ sendNext' = [sendNext EXCEPT ![e] = ISN[e] + 1]
      /\ cstate' = [cstate EXCEPT ![e] = "SYN_SENT"]
      /\ Transmit(e, syn, chan)
      /\ UNCHANGED <<phase, sendWind, resend, recvNext, recvBuf, written, taken,
                     closed, closeReq, input, eof>>
  BY DEF Connect, recvVars, outVars, inVars
<1>2. ISN[e] \in Nat
  BY SizesAssumption
<1>3. Named(e, syn, written[e])
  BY <1>2, HeaderNamed
<1>4. ListNamed(e, list)
  BY <1>3, ListNamedAppend DEF LifeInv, PacketsNamed
<1> HIDE DEF syn, list
<1>5. /\ PacketsNamed'
      /\ unackd' \in [Endpoint -> Seq(PacketRecord)]
      /\ chan' \in [Endpoint -> Seq(Segment)]
      /\ copyBuf' \in [Endpoint -> Seq(Segment)]
      /\ faults' \in 0 .. MaxFaults
  BY <1>1, <1>3, <1>4, PacketsStep DEF ChannelsFor
<1>6. TypeOK'
  <2>1. /\ sendUnack' \in [Endpoint -> Nat] /\ sendNext' \in [Endpoint -> Nat]
        /\ cstate' \in [Endpoint -> CState]
    BY <1>1, <1>2 DEF LifeInv, TypeOK, CState
  <2> QED BY <2>1, <1>1, <1>5 DEF LifeInv, TypeOK
<1>7. BytesWritten'
  BY <1>1 DEF LifeInv, BytesWritten
<1>8. SendingSound'
  <2> SUFFICES ASSUME NEW x \in Endpoint PROVE SendingSound!(x)'
    BY DEF SendingSound
  <2>1. SendingSound!(x)
    BY DEF LifeInv, SendingSound
  <2>2. /\ cstate \in [Endpoint -> CState] /\ sendNext \in [Endpoint -> Nat]
        /\ sendUnack \in [Endpoint -> Nat] /\ taken \in [Endpoint -> Nat]
    BY DEF LifeInv, TypeOK
  <2>3. CASE x = e
    <3>1. sendNext'[e] = ISN[e] + 1 /\ written[e] = 0 /\ cstate'[e] = "SYN_SENT"
      BY <2>1, <2>2, <2>3, <1>1
    <3>2. taken[e] = 0
      BY <2>1, <2>2, <2>3, <3>1
    <3> QED BY <2>1, <2>3, <3>1, <3>2, <1>1, <1>2 DEF Counting
  <2>4. CASE x # e
    <3>1. /\ sendNext'[x] = sendNext[x] /\ sendUnack'[x] = sendUnack[x]
          /\ cstate'[x] = cstate[x]
      BY <2>2, <2>4, <1>1
    <3> QED BY <2>1, <3>1, <1>1 DEF Counting, NothingToSend
  <2> QED BY <2>3, <2>4
<1>9. LoopSound'
  BY <1>1, <1>4, HandshakeLoop DEF ListNamed
<1> QED BY <1>5, <1>6, <1>7, <1>8, <1>9 DEF LifeInv

LEMMA ConnectRefusedLife ==
    ASSUME LifeInv, NEW e \in Endpoint, ConnectRefused(e)
    PROVE  LifeInv'
<1> DEFINE syn == Header({"SYN"}, ISN[e], 0)
           list == Append(unackd[e], PacketT(syn))
<1>1. /\ phase[e] = "handshake" /\ cstate[e] = "CLOSED"
      /\ unackd' = [unackd EXCEPT ![e] = list]
      /\ sendUnack' = [sendUnack EXCEPT ![e] = ISN[e]]
      /\ sendNext' = [sendNext EXCEPT ![e] = ISN[e]]
      /\ phase' = [phase EXCEPT ![e] = "running"]
      /\ NoTransmit(chan)
      /\ UNCHANGED <<cstate, sendWind, resend, recvNext, recvBuf, written, taken,
                     closed, closeReq, input, eof>>
  BY DEF ConnectRefused, recvVars, outVars, inVars, netVars, NoTransmit
<1>2. ISN[e] \in Nat
  BY SizesAssumption
<1>3. Named(e, syn, written[e])
  BY <1>2, HeaderNamed
<1>4. ListNamed(e, list)
  BY <1>3, ListNamedAppend DEF LifeInv, PacketsNamed
<1> HIDE DEF syn, list
<1>5. /\ PacketsNamed'
      /\ unackd' \in [Endpoint -> Seq(PacketRecord)]
      /\ chan' \in [Endpoint -> Seq(Segment)]
      /\ copyBuf' \in [Endpoint -> Seq(Segment)]
      /\ faults' \in 0 .. MaxFaults
  BY <1>1, <1>3, <1>4, PacketsStep DEF ChannelsFor
<1>6. TypeOK'
  <2>1. /\ sendUnack' \in [Endpoint -> Nat] /\ sendNext' \in [Endpoint -> Nat]
        /\ phase' \in [Endpoint -> Phase]
    BY <1>1, <1>2 DEF LifeInv, TypeOK, Phase
  <2> QED BY <2>1, <1>1, <1>5 DEF LifeInv, TypeOK
<1>7. BytesWritten'
  BY <1>1 DEF LifeInv, BytesWritten
<1>8. SendingSound'
  <2> SUFFICES ASSUME NEW x \in Endpoint PROVE SendingSound!(x)'
    BY DEF SendingSound
  <2>1. SendingSound!(x)
    BY DEF LifeInv, SendingSound
  <2>2. /\ phase \in [Endpoint -> Phase] /\ sendNext \in [Endpoint -> Nat]
        /\ sendUnack \in [Endpoint -> Nat] /\ taken \in [Endpoint -> Nat]
    BY DEF LifeInv, TypeOK
  <2>3. CASE x = e
    <3>1. /\ sendNext'[e] = ISN[e] /\ sendUnack'[e] = ISN[e] /\ written[e] = 0
          /\ phase'[e] = "running" /\ resend[e] = 0
      BY <2>1, <2>2, <2>3, <1>1
    <3>2. taken[e] = 0
      BY <2>1, <2>2, <2>3, <3>1
    <3> QED BY <2>1, <2>3, <3>1, <3>2, <1>1, <1>2 DEF NothingToSend
  <2>4. CASE x # e
    <3>1. /\ sendNext'[x] = sendNext[x] /\ sendUnack'[x] = sendUnack[x]
          /\ phase'[x] = phase[x]
      BY <2>2, <2>4, <1>1
    <3> QED BY <2>1, <3>1, <1>1 DEF Counting, NothingToSend
  <2> QED BY <2>3, <2>4
<1>9. LoopSound'
  BY <1>1, <1>4, HandshakeLoop DEF ListNamed
<1> QED BY <1>5, <1>6, <1>7, <1>8, <1>9 DEF LifeInv

(* SYN_SENT and SYN_RECEIVED answer a packet and leave the loop, or stay. *)
LEMMA HandshakeEndsLife ==
    ASSUME ~LongRto, LifeInv, NEW e \in Endpoint, SynSent(e) \/ SynReceived(e)
    PROVE  LifeInv'
<1>1. /\ phase[e] = "handshake" /\ cstate[e] # "CLOSED" /\ chan[e] # <<>>
      /\ UNCHANGED <<sendNext, resend, written, taken, closed, closeReq, input,
                     eof>>
  BY DEF SynSent, SynReceived, outVars, inVars
<1>2. PICK r \in RecvPacket(e, Head(chan[e])) :
        /\ Accept(e, r)
        /\ recvNext' = [recvNext EXCEPT ![e] = r.next]
        /\ recvBuf' = [recvBuf EXCEPT ![e] = r.buf]
        /\ \/ UNCHANGED connVars
           \/ /\ cstate' = [cstate EXCEPT ![e] = "ESTABLISHED"]
              /\ phase' = [phase EXCEPT ![e] = "running"]
        /\ \/ Transmit(e, Header({"ACK"}, sendNext[e], r.next), Dequeued(e))
           \/ NoTransmit(Dequeued(e))
  BY DEF SynSent, SynReceived
<1>3. Received(e, r)
  BY <1>1, RecvPacketLife
<1>4. /\ sendUnack' = [sendUnack EXCEPT ![e] = r.una]
      /\ sendWind' = [sendWind EXCEPT ![e] = r.wind]
      /\ unackd' = [unackd EXCEPT ![e] = r.list]
  BY <1>2 DEF Accept
<1>5. /\ PacketsNamed'
      /\ unackd' \in [Endpoint -> Seq(PacketRecord)]
      /\ chan' \in [Endpoint -> Seq(Segment)]
      /\ copyBuf' \in [Endpoint -> Seq(Segment)]
      /\ faults' \in 0 .. MaxFaults
  <2>1. Named(e, Header({"ACK"}, sendNext[e], r.next), written[e])
    <3>1. sendNext[e] \in Nat /\ r.next \in Nat
      BY <1>3, LifeNumbers, ReceivedNumbers
    <3> QED BY <3>1, HeaderNamed
  <2>2. ChannelsFor(e, Dequeued(e)) /\ ListNamed(e, r.list)
    BY <1>1, <1>3 DEF ChannelsFor, Received
  <2>3. \/ NoTransmit(Dequeued(e))
        \/ \E m : Named(e, m, written[e]) /\ Transmit(e, m, Dequeued(e))
    BY <1>2, <2>1
  <2> QED BY <1>1, <1>4, <2>2, <2>3, PacketsStep
<1>6. /\ BytesWritten'
      /\ recvBuf' \in [Endpoint -> [Slot -> Nat]]
      /\ recvNext' \in [Endpoint -> Nat]
  BY <1>1, <1>2, <1>3, HandshakeBuffer
<1>7. TypeOK'
  <2>1. /\ sendUnack' \in [Endpoint -> Nat]
        /\ sendWind' \in [Endpoint -> 0 .. WINLEN]
    BY <1>3, <1>4, LifeNumbers, ReceivedNumbers
  <2>2. /\ phase' \in [Endpoint -> Phase] /\ cstate' \in [Endpoint -> CState]
    BY <1>2 DEF LifeInv, TypeOK, Phase, CState, connVars
  <2> QED BY <2>1, <2>2, <1>1, <1>5, <1>6 DEF LifeInv, TypeOK
<1>8. SendingSound'
  <2> SUFFICES ASSUME NEW x \in Endpoint PROVE SendingSound!(x)'
    BY DEF SendingSound
  <2>1. SendingSound!(x)
    BY DEF LifeInv, SendingSound
  <2>2. /\ phase \in [Endpoint -> Phase] /\ cstate \in [Endpoint -> CState]
        /\ sendUnack \in [Endpoint -> Nat]
    BY DEF LifeInv, TypeOK
  <2>3. CASE x = e
    <3>1. Counting(e) \/ (written[e] = taken[e] /\ closed[e])
      BY <2>1, <2>3, <1>1 DEF NothingToSend
    <3>2. cstate'[e] # "CLOSED"
      BY <1>1, <1>2, <2>2 DEF connVars
    <3> QED BY <2>1, <2>3, <3>1, <3>2, <1>1 DEF Counting, NothingToSend
  <2>4. CASE x # e
    <3>1. sendUnack'[x] = sendUnack[x]
      BY <2>2, <2>4, <1>4
    <3>2. phase'[x] = phase[x] /\ cstate'[x] = cstate[x]
      BY <2>2, <2>4, <1>2 DEF connVars
    <3> QED BY <2>1, <3>1, <3>2, <1>1 DEF Counting, NothingToSend
  <2> QED BY <2>3, <2>4
<1>9. LoopSound'
  BY <1>1, <1>3, <1>4, HandshakeLoop DEF Received, ListNamed
<1> QED BY <1>5, <1>6, <1>7, <1>8, <1>9 DEF LifeInv

LEMMA AwaitSynLife ==
    ASSUME ~LongRto, LifeInv, NEW e \in Endpoint, AwaitSyn(e)
    PROVE  LifeInv'
<1>1. /\ phase[e] = "handshake" /\ cstate[e] = "CLOSED" /\ chan[e] # <<>>
      /\ UNCHANGED <<phase, resend, written, taken, closed, closeReq, input, eof>>
  BY DEF AwaitSyn, outVars, inVars
<1> DEFINE synack(r) == Header({"SYN", "ACK"}, r.una, r.next)
           answer(r) == r.list \o <<PacketT(synack(r)), PacketT(synack(r))>>
<1>2. PICK r \in RecvPacket(e, Head(chan[e])) :
        /\ recvNext' = [recvNext EXCEPT ![e] = r.next]
        /\ recvBuf' = [recvBuf EXCEPT ![e] = r.buf]
        /\ sendWind' = [sendWind EXCEPT ![e] = r.wind]
        /\ \/ /\ sendUnack' = [sendUnack EXCEPT ![e] = r.una]
              /\ sendNext' = [sendNext EXCEPT ![e] = @ + 1]
              /\ unackd' = [unackd EXCEPT ![e] = answer(r)]
              /\ cstate' = [cstate EXCEPT ![e] = "SYN_RECEIVED"]
              /\ Transmit(e, synack(r), Dequeued(e))
           \/ /\ unackd' = [unackd EXCEPT ![e] = r.list]
              /\ NoTransmit(Dequeued(e))
              /\ UNCHANGED <<sendUnack, sendNext, cstate>>
  BY DEF AwaitSyn
<1>3. Received(e, r)
  BY <1>1, RecvPacketLife
<1>4. Named(e, synack(r), written[e])
  <2>1. r.una \in Nat /\ r.next \in Nat
    BY <1>3 DEF Received
  <2> QED BY <2>1, HeaderNamed
<1>5. ListNamed(e, r.list)
  BY <1>3 DEF Received
<1>6. ListNamed(e, answer(r))
  <2>1. answer(r) = Append(Append(r.list, PacketT(synack(r))), PacketT(synack(r)))
    <3> DEFINE p == PacketT(synack(r))
               l == r.list
    <3>1. p \in PacketRecord /\ l \in Seq(PacketRecord)
      BY <1>4, <1>5 DEF Named, ListNamed, PacketT, PacketRecord
    <3>2. l \o <<p, p>> = Append(Append(l, p), p)
      <4> HIDE DEF p, l
      <4> QED BY <3>1
    <3> QED BY <3>2
  <2> HIDE DEF answer, synack
  <2> QED BY <2>1, <1>4, <1>5, ListNamedAppend
<1> HIDE DEF answer, synack
<1>7. \E list : ListNamed(e, list) /\ unackd' = [unackd EXCEPT ![e] = list]
  BY <1>2, <1>5, <1>6
<1>8. /\ PacketsNamed'
      /\ unackd' \in [Endpoint -> Seq(PacketRecord)]
      /\ chan' \in [Endpoint -> Seq(Segment)]
      /\ copyBuf' \in [Endpoint -> Seq(Segment)]
      /\ faults' \in 0 .. MaxFaults
  <2>1. \/ NoTransmit(Dequeued(e))
        \/ \E m : Named(e, m, written[e]) /\ Transmit(e, m, Dequeued(e))
    BY <1>2, <1>4
  <2>2. ChannelsFor(e, Dequeued(e))
    BY <1>1 DEF ChannelsFor
  <2> QED BY <1>1, <1>7, <2>1, <2>2, PacketsStep
<1>9. /\ BytesWritten'
      /\ recvBuf' \in [Endpoint -> [Slot -> Nat]]
      /\ recvNext' \in [Endpoint -> Nat]
  BY <1>1, <1>2, <1>3, HandshakeBuffer
<1>10. TypeOK'
  <2>1. /\ sendUnack' \in [Endpoint -> Nat] /\ sendNext' \in [Endpoint -> Nat]
    <3>1. /\ sendUnack \in [Endpoint -> Nat] /\ sendNext \in [Endpoint -> Nat]
          /\ sendNext[e] + 1 \in Nat
      BY LifeNumbers
    <3>2. r.una \in Nat
      BY <1>3, ReceivedNumbers
    <3> QED BY <3>1, <3>2, <1>2
  <2>2. /\ sendWind' \in [Endpoint -> 0 .. WINLEN]
        /\ cstate' \in [Endpoint -> CState]
    BY <1>2, <1>3, LifeNumbers, ReceivedNumbers DEF CState
  <2> QED BY <2>1, <2>2, <1>1, <1>8, <1>9 DEF LifeInv, TypeOK
<1>11. SendingSound'
  <2> SUFFICES ASSUME NEW x \in Endpoint PROVE SendingSound!(x)'
    BY DEF SendingSound
  <2>1. SendingSound!(x)
    BY DEF LifeInv, SendingSound
  <2>2. /\ cstate \in [Endpoint -> CState] /\ sendNext \in [Endpoint -> Nat]
        /\ sendUnack \in [Endpoint -> Nat] /\ taken \in [Endpoint -> Nat]
        /\ ISN[x] \in Nat
    BY SizesAssumption DEF LifeInv, TypeOK
  <2>3. CASE UNCHANGED <<sendUnack, sendNext, cstate>>
    BY <2>1, <2>3, <1>1 DEF Counting, NothingToSend
  <2>4. CASE /\ sendUnack' = [sendUnack EXCEPT ![e] = r.una]
             /\ sendNext' = [sendNext EXCEPT ![e] = @ + 1]
             /\ cstate' = [cstate EXCEPT ![e] = "SYN_RECEIVED"]
    <3>1. CASE x = e
      <4>1. /\ sendNext'[e] = ISN[e] + 1 /\ cstate'[e] = "SYN_RECEIVED"
            /\ taken[e] = 0
        BY <2>1, <2>2, <2>4, <3>1, <1>1
      <4> QED BY <2>1, <2>2, <3>1, <4>1, <1>1 DEF Counting
    <3>2. CASE x # e
      <4>1. /\ sendNext'[x] = sendNext[x] /\ sendUnack'[x] = sendUnack[x]
            /\ cstate'[x] = cstate[x]
        BY <2>2, <2>4, <3>2
      <4> QED BY <2>1, <4>1, <1>1 DEF Counting, NothingToSend
    <3> QED BY <3>1, <3>2
  <2> QED BY <2>3, <2>4, <1>2
<1>12. LoopSound'
  BY <1>1, <1>7, HandshakeLoop DEF ListNamed
<1> QED BY <1>8, <1>9, <1>10, <1>11, <1>12 DEF LifeInv

---------------------------------------------------------------------------
(* The thread dies, and what the application does. *)

LEMMA CrashLife ==
    ASSUME LifeInv, NEW e \in Endpoint, Crash(e)
    PROVE  LifeInv'
<1>1. /\ phase' = [phase EXCEPT ![e] = "crashed"]
      /\ UNCHANGED <<cstate, sendUnack, sendNext, sendWind, unackd, resend,
                     recvNext, recvBuf, chan, copyBuf, faults, written, taken,
                     closed, closeReq, input, eof>>
  BY DEF Crash, sendVars, recvVars, netVars, outVars, inVars
<1>2. phase \in [Endpoint -> Phase] /\ phase' \in [Endpoint -> Phase]
  BY <1>1 DEF LifeInv, TypeOK, Phase
<1>3. TypeOK'
  BY <1>1, <1>2 DEF LifeInv, TypeOK
<1>4. PacketsNamed'
  BY <1>1 DEF LifeInv, PacketsNamed, ListNamed
<1>5. BytesWritten' /\ LoopSound'
  BY <1>1 DEF LifeInv, BytesWritten, LoopSound
<1>6. SendingSound'
  <2> SUFFICES ASSUME NEW x \in Endpoint PROVE SendingSound!(x)'
    BY DEF SendingSound
  <2>1. SendingSound!(x)
    BY DEF LifeInv, SendingSound
  <2>2. phase'[x] = phase[x] \/ phase'[x] = "crashed"
    BY <1>1, <1>2
  <2> QED BY <2>1, <2>2, <1>1 DEF Counting, NothingToSend
<1> QED BY <1>3, <1>4, <1>5, <1>6 DEF LifeInv

(* An application writes only while send_next counts what is taken. *)
LEMMA MywriteLife ==
    ASSUME LifeInv, NEW e \in Endpoint, Mywrite(e)
    PROVE  LifeInv'
<1>1. PICK n \in 1 .. MaxBytes[e] : written' = [written EXCEPT ![e] = @ + n]
  BY DEF Mywrite
<1>2. /\ phase[e] # "handshake" /\ ~closed[e]
      /\ cstate[e] # "CLOSED" \/ phase[e] = "exited"
      /\ UNCHANGED <<phase, cstate, sendUnack, sendNext, sendWind, unackd, resend,
                     recvNext, recvBuf, chan, copyBuf, faults, taken,
                     closed, closeReq, input, eof>>
  BY DEF Mywrite, connVars, sendVars, recvVars, netVars, inVars
<1>3. n \in Nat
  BY SizesAssumption
<1>4. /\ written \in [Endpoint -> Nat] /\ taken \in [Endpoint -> Nat]
      /\ chan \in [Endpoint -> Seq(Segment)]
      /\ copyBuf \in [Endpoint -> Seq(Segment)]
      /\ recvBuf \in [Endpoint -> [Slot -> Nat]]
  BY DEF LifeInv, TypeOK
<1>5. /\ written' \in [Endpoint -> Nat]
      /\ \A x \in Endpoint : written[x] <= written'[x]
      /\ \A x \in Endpoint : x # e => written'[x] = written[x]
  BY <1>1, <1>3, <1>4
<1>6. TypeOK'
  BY <1>2, <1>5 DEF LifeInv, TypeOK
<1>7. ASSUME NEW s \in Endpoint, NEW m, Named(s, m, written[s])
      PROVE  Named(s, m, written'[s])
  BY <1>4, <1>5, <1>7, NamedMonotone
<1>8. PacketsNamed'
  <2> SUFFICES ASSUME NEW x \in Endpoint PROVE PacketsNamed!(x)'
    BY DEF PacketsNamed
  <2>1. PacketsNamed!(x) /\ Peer(x) \in Endpoint
    BY PeerType DEF LifeInv, PacketsNamed
  <2> QED BY <2>1, <1>2, <1>7 DEF ListNamed
<1>9. BytesWritten'
  <2> SUFFICES ASSUME NEW x \in Endpoint PROVE BytesWritten!(x)'
    BY DEF BytesWritten
  <2>1. BytesWritten!(x) /\ Peer(x) \in Endpoint
    BY PeerType DEF LifeInv, BytesWritten
  <2>2. /\ written[Peer(x)] \in Nat /\ written'[Peer(x)] \in Nat
        /\ written[Peer(x)] <= written'[Peer(x)]
    BY <2>1, <1>4, <1>5
  <2>3. \A i \in Slot : recvBuf[x][i] \in Nat
    BY <1>4
  <2> QED BY <2>1, <2>2, <2>3, <1>2
<1>10. SendingSound'
  <2> SUFFICES ASSUME NEW x \in Endpoint PROVE SendingSound!(x)'
    BY DEF SendingSound
  <2>1. SendingSound!(x)
    BY DEF LifeInv, SendingSound
  <2>2. CASE x = e
    <3>1. Counting(e)
      BY <2>1, <2>2, <1>2 DEF NothingToSend
    <3>2. taken[e] <= written'[e]
      <4>1. taken[e] <= written[e] /\ written[e] <= written'[e]
        BY <2>1, <2>2, <1>5
      <4> QED BY <4>1, <1>4, <1>5
    <3> QED BY <2>1, <2>2, <3>1, <3>2, <1>2 DEF Counting
  <2>3. CASE x # e
    BY <2>1, <2>3, <1>2, <1>5 DEF Counting, NothingToSend
  <2> QED BY <2>2, <2>3
<1>11. LoopSound'
  BY <1>2 DEF LifeInv, LoopSound
<1> QED BY <1>6, <1>8, <1>9, <1>10, <1>11 DEF LifeInv

LEMMA MycloseLife ==
    ASSUME LifeInv, NEW e \in Endpoint, Myclose(e)
    PROVE  LifeInv'
<1>1. /\ closed' = [closed EXCEPT ![e] = TRUE]
      /\ closeReq' = [closeReq EXCEPT ![e] = TRUE]
      /\ UNCHANGED <<phase, cstate, sendUnack, sendNext, sendWind, unackd, resend,
                     recvNext, recvBuf, chan, copyBuf, faults, written, taken,
                     input, eof>>
  BY DEF Myclose, connVars, sendVars, recvVars, netVars, inVars
<1>2. /\ closed \in [Endpoint -> BOOLEAN] /\ closeReq \in [Endpoint -> BOOLEAN]
      /\ closed' \in [Endpoint -> BOOLEAN] /\ closeReq' \in [Endpoint -> BOOLEAN]
  BY <1>1 DEF LifeInv, TypeOK
<1>3. TypeOK'
  BY <1>1, <1>2 DEF LifeInv, TypeOK
<1>4. PacketsNamed'
  BY <1>1 DEF LifeInv, PacketsNamed, ListNamed
<1>5. BytesWritten' /\ LoopSound'
  BY <1>1 DEF LifeInv, BytesWritten, LoopSound
<1>6. SendingSound'
  <2> SUFFICES ASSUME NEW x \in Endpoint PROVE SendingSound!(x)'
    BY DEF SendingSound
  <2>1. SendingSound!(x)
    BY DEF LifeInv, SendingSound
  <2>2. \/ closed'[x] /\ closeReq'[x]
        \/ closed'[x] = closed[x] /\ closeReq'[x] = closeReq[x]
    BY <1>1, <1>2
  <2> QED BY <2>1, <2>2, <1>1 DEF Counting, NothingToSend
<1> QED BY <1>3, <1>4, <1>5, <1>6 DEF LifeInv

---------------------------------------------------------------------------
(* control_loop() *)

(* Only bytes that are written and not yet taken are sent, and then        *)
(* send_next counts them.                                                  *)
LEMMA AppDataLife ==
    ASSUME LifeInv, NEW e \in Endpoint, AppData(e)
    PROVE  LifeInv'
<1> DEFINE pkt(n) == MakePacket({"ACK"}, sendNext[e], recvNext[e], taken[e], n)
           list(n) == Append(unackd[e], PacketT(pkt(n)))
<1>1. PICK n \in 1 .. MAXLEN :
        /\ n <= written[e] - taken[e]
        /\ taken' = [taken EXCEPT ![e] = @ + n]
        /\ sendNext' = [sendNext EXCEPT ![e] = @ + n]
        /\ unackd' = [unackd EXCEPT ![e] = list(n)]
        /\ Transmit(e, pkt(n), chan)
  BY DEF AppData
<1>2. /\ phase[e] = "running" /\ resend[e] = 0
      /\ UNCHANGED <<phase, cstate, sendUnack, sendWind, resend, recvNext,
                     recvBuf, written, closed, closeReq, input, eof>>
  BY DEF AppData, AtTop, connVars, recvVars, inVars
<1>3. /\ n \in Nat /\ n > 0 /\ ISN[e] \in Nat
      /\ taken \in [Endpoint -> Nat] /\ sendNext \in [Endpoint -> Nat]
      /\ written \in [Endpoint -> Nat]
      /\ recvNext[e] \in Nat
  BY SizesAssumption DEF LifeInv, TypeOK
<1>4. taken[e] \in Nat /\ sendNext[e] \in Nat /\ written[e] \in Nat
  BY <1>3
<1>5. Counting(e)
  BY <1>1, <1>3, <1>4 DEF LifeInv, SendingSound, NothingToSend
<1>6. taken[e] + n <= written[e]
  BY <1>1, <1>3, <1>4
<1>7. Named(e, pkt(n), written[e])
  BY <1>3, <1>4, <1>5, <1>6 DEF Named, Counting, MakePacket, Segment
<1>8. ListNamed(e, list(n))
  BY <1>7, ListNamedAppend DEF LifeInv, PacketsNamed
<1> HIDE DEF pkt, list
<1>9. /\ PacketsNamed'
      /\ unackd' \in [Endpoint -> Seq(PacketRecord)]
      /\ chan' \in [Endpoint -> Seq(Segment)]
      /\ copyBuf' \in [Endpoint -> Seq(Segment)]
      /\ faults' \in 0 .. MaxFaults
  BY <1>1, <1>2, <1>7, <1>8, PacketsStep DEF ChannelsFor
<1>10. /\ taken' \in [Endpoint -> Nat] /\ sendNext' \in [Endpoint -> Nat]
       /\ taken'[e] = taken[e] + n /\ sendNext'[e] = sendNext[e] + n
       /\ \A x \in Endpoint : x # e => /\ taken'[x] = taken[x]
                                       /\ sendNext'[x] = sendNext[x]
  BY <1>1, <1>3
<1>11. TypeOK'
  BY <1>2, <1>9, <1>10 DEF LifeInv, TypeOK
<1>12. BytesWritten'
  BY <1>2 DEF LifeInv, BytesWritten
<1>13. SendingSound'
  <2> SUFFICES ASSUME NEW x \in Endpoint PROVE SendingSound!(x)'
    BY DEF SendingSound
  <2>1. SendingSound!(x)
    BY DEF LifeInv, SendingSound
  <2>2. CASE x = e
    <3>1. sendNext'[e] = ISN[e] + 1 + taken'[e]
      BY <1>3, <1>4, <1>5, <1>10 DEF Counting
    <3> QED BY <2>1, <2>2, <3>1, <1>2, <1>6, <1>10 DEF Counting
  <2>3. CASE x # e
    BY <2>1, <2>3, <1>2, <1>10 DEF Counting, NothingToSend
  <2> QED BY <2>2, <2>3
<1>14. LoopSound'
  <2> SUFFICES ASSUME NEW x \in Endpoint PROVE resend'[x] <= Len(unackd'[x])
    BY DEF LoopSound
  <2>1. unackd \in [Endpoint -> Seq(PacketRecord)]
    BY DEF LifeInv, TypeOK
  <2>2. CASE x = e
    <3>1. Len(unackd'[e]) \in Nat
      BY <1>9
    <3> QED BY <2>2, <3>1, <1>2
  <2>3. CASE x # e
    BY <2>1, <2>3, <1>1, <1>2 DEF LifeInv, LoopSound
  <2> QED BY <2>2, <2>3
<1> QED BY <1>9, <1>11, <1>12, <1>13, <1>14 DEF LifeInv

(* A FIN is sent only when nothing is left to send. *)
LEMMA AppCloseRequestedLife ==
    ASSUME LifeInv, NEW e \in Endpoint, AppCloseRequested(e)
    PROVE  LifeInv'
<1> DEFINE fin == Header({"FIN"}, sendNext[e], recvNext[e])
<1>1. /\ phase[e] = "running" /\ resend[e] = 0
      /\ closeReq[e] /\ written[e] = taken[e]
      /\ closeReq' = [closeReq EXCEPT ![e] = FALSE]
      /\ UNCHANGED <<phase, sendWind, resend, recvNext, recvBuf, written, taken,
                     closed, input, eof>>
  BY DEF AppCloseRequested, AtTop, recvVars, inVars
<1>2. \/ /\ cstate' \in {[cstate EXCEPT ![e] = "FIN_WAIT1"],
                         [cstate EXCEPT ![e] = "LAST_ACK"]}
         /\ sendUnack' \in {sendUnack, [sendUnack EXCEPT ![e] = @ + 1]}
         /\ sendNext' \in {sendNext, [sendNext EXCEPT ![e] = @ + 1]}
         /\ unackd' = [unackd EXCEPT ![e] = Append(@, PacketT(fin))]
         /\ Transmit(e, fin, chan)
      \/ UNCHANGED <<cstate, sendUnack, sendNext, unackd, chan, copyBuf, faults>>
  BY DEF AppCloseRequested, netVars
<1>3. /\ sendNext \in [Endpoint -> Nat] /\ sendUnack \in [Endpoint -> Nat]
      /\ recvNext[e] \in Nat /\ cstate \in [Endpoint -> CState]
      /\ closeReq \in [Endpoint -> BOOLEAN]
      /\ unackd \in [Endpoint -> Seq(PacketRecord)]
  BY DEF LifeInv, TypeOK
<1>4. Named(e, fin, written[e]) /\ ListNamed(e, unackd[e])
  BY <1>3, HeaderNamed DEF LifeInv, PacketsNamed
<1>5. ListNamed(e, Append(unackd[e], PacketT(fin)))
  BY <1>4, ListNamedAppend
<1> HIDE DEF fin
<1>6. PICK list : /\ unackd' = [unackd EXCEPT ![e] = list]
                  /\ ListNamed(e, list)
                  /\ NoTransmit(chan) \/ Transmit(e, fin, chan)
  <2>1. CASE /\ unackd' = [unackd EXCEPT ![e] = Append(@, PacketT(fin))]
             /\ Transmit(e, fin, chan)
    BY <2>1, <1>5
  <2>2. CASE UNCHANGED <<unackd, chan, copyBuf, faults>>
    <3>1. unackd' = [unackd EXCEPT ![e] = unackd[e]]
      BY <2>2, <1>3
    <3> QED BY <2>2, <3>1, <1>4 DEF NoTransmit
  <2> QED BY <2>1, <2>2, <1>2
<1>7. /\ PacketsNamed'
      /\ unackd' \in [Endpoint -> Seq(PacketRecord)]
      /\ chan' \in [Endpoint -> Seq(Segment)]
      /\ copyBuf' \in [Endpoint -> Seq(Segment)]
      /\ faults' \in 0 .. MaxFaults
  BY <1>1, <1>4, <1>6, PacketsStep DEF ChannelsFor
<1>8. TypeOK'
  <2>1. /\ sendNext[e] + 1 \in Nat /\ sendUnack[e] + 1 \in Nat
    BY <1>3
  <2>2. /\ sendNext' \in [Endpoint -> Nat] /\ sendUnack' \in [Endpoint -> Nat]
    BY <1>2, <1>3, <2>1
  <2>3. cstate' \in [Endpoint -> CState]
    BY <1>2, <1>3 DEF CState
  <2>4. closeReq' \in [Endpoint -> BOOLEAN]
    BY <1>1, <1>3
  <2> QED BY <2>2, <2>3, <2>4, <1>1, <1>7 DEF LifeInv, TypeOK
<1>9. BytesWritten'
  BY <1>1 DEF LifeInv, BytesWritten
<1>10. SendingSound'
  <2> SUFFICES ASSUME NEW x \in Endpoint PROVE SendingSound!(x)'
    BY DEF SendingSound
  <2>1. SendingSound!(x)
    BY DEF LifeInv, SendingSound
  <2>2. CASE x = e
    <3>1. closed[e]
      BY <2>1, <2>2, <1>1
    <3> QED BY <2>1, <2>2, <3>1, <1>1 DEF NothingToSend
  <2>3. CASE x # e
    <3>1. /\ sendNext'[x] = sendNext[x] /\ sendUnack'[x] = sendUnack[x]
          /\ cstate'[x] = cstate[x]
      BY <2>3, <1>2, <1>3
    <3>2. closeReq'[x] = closeReq[x]
      BY <2>3, <1>1, <1>3
    <3> QED BY <2>1, <3>1, <3>2, <1>1 DEF Counting, NothingToSend
  <2> QED BY <2>2, <2>3
<1>11. LoopSound'
  <2> SUFFICES ASSUME NEW x \in Endpoint PROVE resend'[x] <= Len(unackd'[x])
    BY DEF LoopSound
  <2>1. CASE x = e
    <3>1. Len(unackd'[e]) \in Nat
      BY <1>7
    <3> QED BY <2>1, <3>1, <1>1
  <2>2. CASE x # e
    BY <2>2, <1>1, <1>3, <1>6 DEF LifeInv, LoopSound
  <2> QED BY <2>1, <2>2
<1> QED BY <1>7, <1>8, <1>9, <1>10, <1>11 DEF LifeInv

(* What stcp_app_send() is given are bytes the peer has written. *)
LEMMA DeliveredWritten ==
    ASSUME LifeInv, NEW e \in Endpoint, NEW r, Received(e, r), r.size > 0
    PROVE  /\ Delivered(r.buf, r.size) \in Seq(1 .. written[Peer(e)])
           /\ Len(Delivered(r.buf, r.size)) = r.size
<1> DEFINE d == Delivered(r.buf, r.size)
<1>1. /\ r.size \in Nat /\ r.size <= WINLEN /\ WINLEN \in Nat
      /\ written[Peer(e)] \in Nat
  <2>1. r.size \in Nat /\ r.size <= WINLEN /\ WINLEN \in Nat
    BY SizesAssumption DEF Received
  <2>2. written[Peer(e)] \in Nat
    BY PeerType DEF LifeInv, TypeOK
  <2> QED BY <2>1, <2>2
<1>2. ASSUME NEW i \in 1 .. r.size
      PROVE  d[i] \in 1 .. written[Peer(e)]
  <2>1. i - 1 \in Slot /\ i - 1 \in 0 .. r.size - 1 /\ i <= WINLEN
    BY <1>1 DEF Slot
  <2>2. r.buf[i - 1] # 0 /\ r.buf[i - 1] \in 0 .. written[Peer(e)]
    BY <2>1 DEF Received, NoByte
  <2>3. d[i] = r.buf[i - 1]
    BY <2>1 DEF Delivered
  <2> QED BY <2>2, <2>3, <1>1
<1>3. d \in [1 .. r.size -> 1 .. written[Peer(e)]]
  <2>1. DOMAIN d = 1 .. r.size /\ d = [i \in 1 .. r.size |-> d[i]]
    BY DEF Delivered
  <2> HIDE DEF d
  <2> QED BY <1>2, <2>1
<1> HIDE DEF d
<1>4. d \in Seq(1 .. written[Peer(e)]) /\ Len(d) = r.size
  BY <1>1, <1>3
<1> QED BY <1>4 DEF d

LEMMA ConcatElements ==
    ASSUME NEW T, NEW S \in SUBSET T, NEW s \in Seq(T), NEW t \in Seq(S),
           \A i \in 1 .. Len(s) : s[i] \in S
    PROVE  /\ s \o t \in Seq(T)
           /\ \A i \in 1 .. Len(s \o t) : (s \o t)[i] \in S
<1>1. t \in Seq(T)
  OBVIOUS
<1>2. /\ s \o t \in Seq(T)
      /\ Len(s \o t) = Len(s) + Len(t)
      /\ Len(s) \in Nat /\ Len(t) \in Nat
      /\ \A i \in 1 .. Len(s) + Len(t) :
           (s \o t)[i] = IF i <= Len(s) THEN s[i] ELSE t[i - Len(s)]
  BY <1>1, ConcatProperties
<1>3. ASSUME NEW i \in 1 .. Len(s) + Len(t) PROVE (s \o t)[i] \in S
  <2>1. CASE i <= Len(s)
    BY <2>1, <1>2
  <2>2. CASE ~(i <= Len(s))
    <3>1. (s \o t)[i] = t[i - Len(s)] /\ i - Len(s) \in 1 .. Len(t)
      BY <2>2, <1>2
    <3> QED BY <3>1
  <2> QED BY <2>1, <2>2
<1> QED BY <1>2, <1>3

(* NETWORK_DATA: the connection moves along its close, bytes and perhaps   *)
(* end-of-file are delivered, and one acknowledgement is sent.             *)
LEMMA NetworkDataLife ==
    ASSUME ~LongRto, LifeInv, NEW e \in Endpoint, NetworkData(e)
    PROVE  LifeInv'
<1> DEFINE m == Head(chan[e])
           acked == IF "ACK" \in m.flags THEN AfterAck(cstate[e])
                    ELSE cstate[e]
           left  == acked = "CLOSED" /\ cstate[e] # "CLOSED"
           fin   == "FIN" \in m.flags /\ ~left
           state == IF fin THEN AfterFin(acked) ELSE acked
           over  == state = "CLOSED" /\ cstate[e] # "CLOSED"
<1>1. /\ phase[e] = "running" /\ resend[e] = 0 /\ chan[e] # <<>>
      /\ UNCHANGED <<sendNext, resend, written, taken, closed, closeReq>>
  BY DEF NetworkData, AtTop, outVars
<1>2. PICK r \in RecvPacket(e, m) :
        \E next \in {r.next, r.next + 1} :
        /\ Accept(e, r)
        /\ recvNext' = [recvNext EXCEPT ![e] = next]
        /\ recvBuf' = [recvBuf EXCEPT ![e] =
               IF r.size > 0 THEN Slide(r.buf, r.size) ELSE r.buf]
        /\ input' = [input EXCEPT ![e] =
               IF r.size > 0 /\ ~eof[e] THEN @ \o Delivered(r.buf, r.size) ELSE @]
        /\ \/ Transmit(e, Header({"ACK"}, sendNext[e], next), Dequeued(e))
           \/ NoTransmit(Dequeued(e))
        /\ cstate' = [cstate EXCEPT ![e] = state]
        /\ phase' = [phase EXCEPT ![e] =
               IF r.size > WINLEN THEN "crashed"
               ELSE IF over THEN "exited" ELSE @]
        /\ eof' = [eof EXCEPT ![e] =
               @ \/ over \/ (fin /\ acked \in {"ESTABLISHED", "FIN_WAIT1"})]
  BY DEF NetworkData, HandlePacket
<1>3. Received(e, r)
  BY <1>1, RecvPacketLife
<1>4. state \in CState /\ (cstate[e] = "CLOSED" => ~over)
  <2>1. cstate[e] \in CState
    BY DEF LifeInv, TypeOK
  <2>2. acked \in CState /\ (cstate[e] = "CLOSED" => acked = "CLOSED")
    BY <2>1 DEF AfterAck, CState
  <2> HIDE DEF acked
  <2>3. state \in CState
    BY <2>2 DEF AfterFin, CState
  <2> QED BY <2>3
<1> HIDE DEF m, acked, left, fin, state, over
<1>5. PICK next \in {r.next, r.next + 1} :
        /\ recvNext' = [recvNext EXCEPT ![e] = next]
        /\ \/ Transmit(e, Header({"ACK"}, sendNext[e], next), Dequeued(e))
           \/ NoTransmit(Dequeued(e))
  BY <1>2
<1>6. next \in Nat /\ recvNext' \in [Endpoint -> Nat]
  <2>1. r.next \in Nat
    BY <1>3 DEF Received
  <2>2. next \in Nat
    BY <2>1
  <2>3. recvNext \in [Endpoint -> Nat]
    BY DEF LifeInv, TypeOK
  <2> QED BY <1>5, <2>2, <2>3
<1>7. /\ sendUnack' = [sendUnack EXCEPT ![e] = r.una]
      /\ sendWind' = [sendWind EXCEPT ![e] = r.wind]
      /\ unackd' = [unackd EXCEPT ![e] = r.list]
      /\ recvBuf' = [recvBuf EXCEPT ![e] =
             IF r.size > 0 THEN Slide(r.buf, r.size) ELSE r.buf]
      /\ input' = [input EXCEPT ![e] =
             IF r.size > 0 /\ ~eof[e] THEN @ \o Delivered(r.buf, r.size) ELSE @]
      /\ cstate' = [cstate EXCEPT ![e] = state]
      /\ phase' = [phase EXCEPT ![e] = IF over THEN "exited" ELSE @]
  <2>1. ~(r.size > WINLEN)
    BY <1>3, SizesAssumption DEF Received
  <2> QED BY <2>1, <1>2 DEF Accept
<1>8. /\ PacketsNamed'
      /\ unackd' \in [Endpoint -> Seq(PacketRecord)]
      /\ chan' \in [Endpoint -> Seq(Segment)]
      /\ copyBuf' \in [Endpoint -> Seq(Segment)]
      /\ faults' \in 0 .. MaxFaults
  <2>1. Named(e, Header({"ACK"}, sendNext[e], next), written[e])
    <3>1. sendNext[e] \in Nat
      BY DEF LifeInv, TypeOK
    <3> QED BY <3>1, <1>6, HeaderNamed
  <2>2. ChannelsFor(e, Dequeued(e)) /\ ListNamed(e, r.list)
    BY <1>1, <1>3 DEF ChannelsFor, Received
  <2>3. \/ NoTransmit(Dequeued(e))
        \/ \E p : Named(e, p, written[e]) /\ Transmit(e, p, Dequeued(e))
    BY <1>5, <2>1
  <2> QED BY <1>1, <1>7, <2>2, <2>3, PacketsStep
<1>9. /\ r.buf \in [Slot -> 0 .. written[Peer(e)]]
      /\ written[Peer(e)] \in Nat
      /\ r.size \in Int
  <2>1. r.buf \in [Slot -> 0 .. written[Peer(e)]] /\ r.size \in Int
    BY <1>3, SizesAssumption DEF Received
  <2>2. written[Peer(e)] \in Nat
    BY PeerType DEF LifeInv, TypeOK
  <2> QED BY <2>1, <2>2
<1>10. /\ recvBuf'[e] \in [Slot -> Nat]
       /\ \A i \in Slot : recvBuf'[e][i] <= written[Peer(e)]
       /\ recvBuf' \in [Endpoint -> [Slot -> Nat]]
       /\ \A x \in Endpoint : x # e => recvBuf'[x] = recvBuf[x]
  <2> DEFINE buf == IF r.size > 0 THEN Slide(r.buf, r.size) ELSE r.buf
  <2>1. recvBuf \in [Endpoint -> [Slot -> Nat]]
    BY DEF LifeInv, TypeOK
  <2>2. ASSUME NEW i \in Slot PROVE buf[i] \in 0 .. written[Peer(e)]
    <3>1. CASE r.size > 0
      <4>1. i \in Nat /\ \A k \in 0 .. WINLEN - 1 : k \in Slot
        BY SizesAssumption DEF Slot
      <4>2. buf[i] = IF i + r.size < WINLEN THEN r.buf[i + r.size] ELSE 0
        BY <3>1 DEF Slide, NoByte
      <4>3. i + r.size < WINLEN => i + r.size \in Slot
        BY <3>1, <4>1, <1>9, SizesAssumption
      <4> HIDE DEF buf
      <4> QED BY <4>2, <4>3, <1>9
    <3>2. CASE ~(r.size > 0)
      BY <3>2, <1>9
    <3> QED BY <3>1, <3>2
  <2>3. buf = [i \in Slot |-> buf[i]]
    <3>1. CASE r.size > 0
      BY <3>1 DEF Slide
    <3>2. CASE ~(r.size > 0)
      BY <3>2, <1>9
    <3> QED BY <3>1, <3>2
  <2>4. recvBuf'[e] = buf /\ \A x \in Endpoint : x # e => recvBuf'[x] = recvBuf[x]
    BY <2>1, <1>7
  <2> HIDE DEF buf
  <2>5. \A i \in Slot : buf[i] \in Nat /\ buf[i] <= written[Peer(e)]
    BY <2>2, <1>9
  <2>6. buf \in [Slot -> Nat]
    BY <2>3, <2>5
  <2>7. recvBuf' \in [Endpoint -> [Slot -> Nat]]
    BY <2>1, <2>6, <1>7 DEF buf
  <2> QED BY <2>4, <2>5, <2>6, <2>7
<1>11. /\ input' \in [Endpoint -> Seq(Int)]
       /\ \A i \in 1 .. Len(input'[e]) : input'[e][i] \in 1 .. written[Peer(e)]
       /\ \A x \in Endpoint : x # e => input'[x] = input[x]
  <2>1. /\ input \in [Endpoint -> Seq(Int)] /\ input[e] \in Seq(Int)
        /\ \A i \in 1 .. Len(input[e]) : input[e][i] \in 1 .. written[Peer(e)]
    BY DEF LifeInv, TypeOK, BytesWritten
  <2>2. CASE r.size > 0 /\ ~eof[e]
    <3> DEFINE d == Delivered(r.buf, r.size)
               w == written[Peer(e)]
    <3>1. d \in Seq(1 .. w)
      BY <2>2, <1>3, DeliveredWritten
    <3>2. input' = [input EXCEPT ![e] = input[e] \o d]
      BY <2>2, <1>7
    <3>3. \A i \in 1 .. Len(input[e]) : input[e][i] \in 1 .. w
      BY <2>1
    <3> HIDE DEF d, w
    <3>4. /\ input[e] \o d \in Seq(Int)
          /\ \A i \in 1 .. Len(input[e] \o d) : (input[e] \o d)[i] \in 1 .. w
      <4>1. 1 .. w \in SUBSET Int /\ input[e] \in Seq(Int)
        BY <2>1
      <4> QED BY <4>1, <3>1, <3>3, ConcatElements
    <3> QED BY <3>2, <3>4, <2>1 DEF w
  <2>3. CASE ~(r.size > 0 /\ ~eof[e])
    <3>1. input' = input
      BY <2>1, <2>3, <1>7
    <3> QED BY <3>1, <2>1
  <2> QED BY <2>2, <2>3
<1>12. TypeOK'
  <2>1. /\ sendUnack' \in [Endpoint -> Nat]
        /\ sendWind' \in [Endpoint -> 0 .. WINLEN]
    BY <1>3, <1>7, LifeNumbers, ReceivedNumbers
  <2>2. cstate' \in [Endpoint -> CState]
    BY <1>4, <1>7 DEF LifeInv, TypeOK
  <2>3. phase' \in [Endpoint -> Phase]
    BY <1>7 DEF LifeInv, TypeOK, Phase
  <2>4. eof' \in [Endpoint -> BOOLEAN]
    <3>1. eof \in [Endpoint -> BOOLEAN]
      BY DEF LifeInv, TypeOK
    <3>2. PICK b \in BOOLEAN : eof' = [eof EXCEPT ![e] = b]
      BY <3>1, <1>2
    <3> QED BY <3>1, <3>2
  <2> QED BY <2>1, <2>2, <2>3, <2>4, <1>1, <1>6, <1>8, <1>10, <1>11
          DEF LifeInv, TypeOK
<1>13. BytesWritten'
  <2> SUFFICES ASSUME NEW x \in Endpoint
               PROVE  /\ \A i \in Slot : recvBuf'[x][i] <= written[Peer(x)]
                      /\ \A i \in 1 .. Len(input'[x]) :
                           input'[x][i] \in 1 .. written[Peer(x)]
    BY <1>1 DEF BytesWritten
  <2>1. CASE x = e
    BY <2>1, <1>10, <1>11
  <2>2. CASE x # e
    <3>1. recvBuf'[x] = recvBuf[x] /\ input'[x] = input[x]
      BY <2>2, <1>10, <1>11
    <3> QED BY <3>1 DEF LifeInv, BytesWritten
  <2> QED BY <2>1, <2>2
<1>14. SendingSound'
  <2> SUFFICES ASSUME NEW x \in Endpoint PROVE SendingSound!(x)'
    BY DEF SendingSound
  <2>1. SendingSound!(x)
    BY DEF LifeInv, SendingSound
  <2>2. /\ phase \in [Endpoint -> Phase] /\ cstate \in [Endpoint -> CState]
        /\ sendUnack \in [Endpoint -> Nat] /\ sendNext \in [Endpoint -> Nat]
    BY DEF LifeInv, TypeOK
  <2>3. CASE x = e
    <3>1. /\ cstate'[e] = state
          /\ phase'[e] = IF over THEN "exited" ELSE "running"
          /\ sendUnack'[e] = r.una
      BY <2>2, <1>1, <1>7
    <3>2. CASE Counting(e) \/ (written[e] = taken[e] /\ closed[e])
      BY <2>1, <2>3, <3>1, <3>2, <1>1 DEF Counting, NothingToSend
    <3>3. CASE ~(Counting(e) \/ (written[e] = taken[e] /\ closed[e]))
      <4>1. /\ written[e] = taken[e] /\ cstate[e] = "CLOSED"
            /\ sendNext[e] <= sendUnack[e]
        BY <2>1, <2>3, <3>3 DEF NothingToSend
      <4>2. phase'[e] = "running" /\ cstate'[e] = "CLOSED"
        <5>1. ~over
          BY <4>1, <1>4
        <5>2. state = "CLOSED"
          BY <4>1 DEF state, fin, left, acked, AfterAck, AfterFin
        <5> QED BY <3>1, <5>1, <5>2
      <4>3. sendNext[e] <= r.una
        <5>1. /\ sendNext[e] \in Nat /\ sendUnack[e] \in Nat /\ r.una \in Nat
              /\ sendUnack[e] <= r.una
          BY <2>2, <1>3 DEF Received
        <5> QED BY <4>1, <5>1
      <4> QED BY <2>1, <2>3, <3>1, <4>1, <4>2, <4>3, <1>1 DEF NothingToSend
    <3> QED BY <3>2, <3>3
  <2>4. CASE x # e
    <3>1. /\ sendUnack'[x] = sendUnack[x] /\ phase'[x] = phase[x]
          /\ cstate'[x] = cstate[x]
      BY <2>2, <2>4, <1>7
    <3> QED BY <2>1, <3>1, <1>1 DEF Counting, NothingToSend
  <2> QED BY <2>3, <2>4
<1>15. LoopSound'
  <2> SUFFICES ASSUME NEW x \in Endpoint PROVE resend'[x] <= Len(unackd'[x])
    BY DEF LoopSound
  <2>1. CASE x = e
    <3>1. Len(unackd'[e]) \in Nat
      BY <1>8
    <3> QED BY <2>1, <3>1, <1>1
  <2>2. CASE x # e
    <3>1. unackd'[x] = unackd[x]
      BY <2>2, <1>7 DEF LifeInv, TypeOK
    <3> QED BY <3>1, <1>1 DEF LifeInv, LoopSound
  <2> QED BY <2>1, <2>2
<1> QED BY <1>8, <1>12, <1>13, <1>14, <1>15 DEF LifeInv

(* A retransmission carries the bytes the packet was made with. *)
LEMMA ResendPacketLife ==
    ASSUME LifeInv, NEW e \in Endpoint, NEW i \in 1 .. Len(unackd[e]),
           phase[e] = "running",
           resend[e] > 0 \/ sendUnack[e] < sendNext[e],
           ResendPacket(e, i)
    PROVE  LifeInv'
<1> DEFINE p == [seg   |-> [unackd[e][i].seg EXCEPT !.ack = recvNext[e]],
                 retry |-> unackd[e][i].retry + 1]
           list == [unackd[e] EXCEPT ![i] = p]
<1>1. /\ unackd' = [unackd EXCEPT ![e] = list]
      /\ Transmit(e, p.seg, chan)
      /\ \/ Exit(e)
         \/ UNCHANGED <<phase, eof>>
      /\ resend' = [resend EXCEPT ![e] =
                        IF i = Len(unackd[e]) THEN 0 ELSE i + 1]
      /\ UNCHANGED <<cstate, sendUnack, sendNext, sendWind, recvNext, recvBuf,
                     written, taken, closed, closeReq, input>>
  BY DEF ResendPacket, recvVars, outVars
<1>2. /\ unackd \in [Endpoint -> Seq(PacketRecord)]
      /\ resend \in [Endpoint -> Nat] /\ recvNext[e] \in Nat
      /\ phase \in [Endpoint -> Phase] /\ eof \in [Endpoint -> BOOLEAN]
  BY DEF LifeInv, TypeOK
<1>3. /\ unackd[e] \in Seq(PacketRecord) /\ unackd[e][i] \in PacketRecord
      /\ Len(unackd[e]) \in Nat
      /\ Named(e, unackd[e][i].seg, written[e])
  BY <1>2 DEF LifeInv, PacketsNamed, ListNamed
<1>4. Named(e, p.seg, written[e])
  <2>1. p.seg = [unackd[e][i].seg EXCEPT !.ack = recvNext[e]]
    OBVIOUS
  <2> HIDE DEF p
  <2> QED BY <2>1, <1>2, <1>3 DEF Named, Segment
<1>5. p \in PacketRecord
  BY <1>3, <1>4 DEF Named, PacketRecord
<1> HIDE DEF p
<1>6. ListNamed(e, list) /\ Len(list) = Len(unackd[e])
  <2>1. /\ list \in Seq(PacketRecord) /\ Len(list) = Len(unackd[e])
        /\ \A j \in 1 .. Len(list) : list[j] = IF j = i THEN p ELSE unackd[e][j]
    BY <1>3, <1>5
  <2>2. \A j \in 1 .. Len(unackd[e]) : Named(e, unackd[e][j].seg, written[e])
    BY DEF LifeInv, PacketsNamed, ListNamed
  <2> HIDE DEF list
  <2> QED BY <2>1, <2>2, <1>4 DEF ListNamed
<1> HIDE DEF list
<1>7. /\ PacketsNamed'
      /\ unackd' \in [Endpoint -> Seq(PacketRecord)]
      /\ chan' \in [Endpoint -> Seq(Segment)]
      /\ copyBuf' \in [Endpoint -> Seq(Segment)]
      /\ faults' \in 0 .. MaxFaults
  BY <1>1, <1>4, <1>6, PacketsStep DEF ChannelsFor
<1>8. /\ phase' \in [Endpoint -> Phase] /\ eof' \in [Endpoint -> BOOLEAN]
      /\ phase'[e] \in {"running", "exited"}
      /\ \A x \in Endpoint : x # e => phase'[x] = phase[x]
  BY <1>1, <1>2 DEF Exit, Phase
<1>9. /\ resend' \in [Endpoint -> Nat]
      /\ resend'[e] <= Len(unackd[e])
      /\ \A x \in Endpoint : x # e => resend'[x] = resend[x]
  BY <1>1, <1>2, <1>3
<1>10. TypeOK'
  BY <1>1, <1>7, <1>8, <1>9 DEF LifeInv, TypeOK
<1>11. BytesWritten'
  BY <1>1 DEF LifeInv, BytesWritten
<1>12. SendingSound'
  <2> SUFFICES ASSUME NEW x \in Endpoint PROVE SendingSound!(x)'
    BY DEF SendingSound
  <2>1. SendingSound!(x)
    BY DEF LifeInv, SendingSound
  <2>2. CASE x = e
    <3>1. Counting(e) \/ (written[e] = taken[e] /\ closed[e])
      <4>1. /\ sendUnack[e] \in Nat /\ sendNext[e] \in Nat /\ resend[e] \in Nat
        BY DEF LifeInv, TypeOK
      <4> QED BY <2>1, <2>2, <4>1 DEF NothingToSend
    <3> QED BY <2>1, <2>2, <3>1, <1>1, <1>8 DEF Counting, NothingToSend
  <2>3. CASE x # e
    BY <2>1, <2>3, <1>1, <1>8, <1>9 DEF Counting, NothingToSend
  <2> QED BY <2>2, <2>3
<1>13. LoopSound'
  <2> SUFFICES ASSUME NEW x \in Endpoint PROVE resend'[x] <= Len(unackd'[x])
    BY DEF LoopSound
  <2>1. CASE x = e
    BY <2>1, <1>1, <1>2, <1>6, <1>9
  <2>2. CASE x # e
    BY <2>2, <1>1, <1>2, <1>9 DEF LifeInv, LoopSound
  <2> QED BY <2>1, <2>2
<1> QED BY <1>7, <1>10, <1>11, <1>12, <1>13 DEF LifeInv

LEMMA ResendLife ==
    ASSUME LifeInv, NEW e \in Endpoint, Timeout(e) \/ ResendNext(e)
    PROVE  LifeInv'
<1>1. unackd[e] \in Seq(PacketRecord) /\ Len(unackd[e]) \in Nat
      /\ resend[e] \in Nat
  BY DEF LifeInv, TypeOK
<1>2. CASE Timeout(e)
  <2>1. /\ phase[e] = "running" /\ unackd[e] # <<>> /\ ResendPacket(e, 1)
        /\ sendUnack[e] < sendNext[e]
    BY <1>2 DEF Timeout, AtTop, TimerSet
  <2>2. 1 \in 1 .. Len(unackd[e])
    BY <2>1, <1>1
  <2> QED BY <2>1, <2>2, ResendPacketLife
<1>3. CASE ResendNext(e)
  <2>1. phase[e] = "running" /\ resend[e] > 0 /\ ResendPacket(e, resend[e])
    BY <1>3 DEF ResendNext
  <2>2. resend[e] \in 1 .. Len(unackd[e])
    BY <2>1, <1>1 DEF LifeInv, LoopSound
  <2> QED BY <2>1, <2>2, ResendPacketLife
<1> QED BY <1>2, <1>3

---------------------------------------------------------------------------
LEMMA LifeStep ==
    ASSUME ~LongRto, LifeInv, [Next]_vars
    PROVE  LifeInv'
<1>1. CASE UNCHANGED vars
  <2>1. UNCHANGED <<connVars, sendVars, recvVars, netVars, outVars, inVars>>
    BY <1>1 DEF vars
  <2>2. UNCHANGED <<phase, cstate, sendUnack, sendNext, sendWind, unackd, resend,
                    recvNext, recvBuf, chan, copyBuf, faults, written, taken,
                    closed, closeReq, input, eof>>
    BY <2>1 DEF connVars, sendVars, recvVars, netVars, outVars, inVars
  <2>3. TypeOK'
    BY <2>2 DEF LifeInv, TypeOK
  <2>4. PacketsNamed'
    BY <2>2 DEF LifeInv, PacketsNamed, ListNamed
  <2>5. BytesWritten' /\ LoopSound'
    BY <2>2 DEF LifeInv, BytesWritten, LoopSound
  <2>6. SendingSound'
    BY <2>2 DEF LifeInv, SendingSound, Counting, NothingToSend
  <2> QED BY <2>3, <2>4, <2>5, <2>6 DEF LifeInv
<1>2. ASSUME NEW e \in Endpoint, Handshake(e) PROVE LifeInv'
  BY <1>2, ConnectLife, ConnectRefusedLife, HandshakeEndsLife, AwaitSynLife
     DEF Handshake
<1>3. ASSUME NEW e \in Endpoint, Transfer(e) PROVE LifeInv'
  BY <1>3, AppDataLife, NetworkDataLife, ResendLife DEF Transfer
<1> QED BY <1>1, <1>2, <1>3, AppCloseRequestedLife, CrashLife, MywriteLife,
           MycloseLife DEF Next

(* The invariant holds from the first packet of the handshake to the end   *)
(* of both threads.                                                        *)
THEOREM LifeInvariant ==
    ASSUME ~LongRto
    PROVE  Spec => []LifeInv
<1>1. Init => LifeInv
  BY LifeInit
<1>2. LifeInv /\ [Next]_vars => LifeInv'
  BY LifeStep
<1> QED BY <1>1, <1>2, PTL DEF Spec

(* Type correctness of the whole connection. *)
THEOREM LifeTypeCorrect ==
    ASSUME ~LongRto
    PROVE  Spec => []TypeOK
<1>1. LifeInv => TypeOK
  BY DEF LifeInv
<1> QED BY <1>1, LifeInvariant, PTL

(* Through handshake, transfer and close, with refused connections, early  *)
(* timers and any faults, a sequence number stands for one byte, and only  *)
(* bytes that were written are delivered (make_stcp_packet(),              *)
(* recv_packet(), control_loop()).                                         *)
THEOREM SequenceNumbersNameBytes ==
    ASSUME ~LongRto
    PROVE  Spec => []SeqNamesByte
<1>1. LifeInv => SeqNamesByte
  <2> SUFFICES ASSUME LifeInv, NEW e \in Endpoint PROVE SeqNamesByte!(e)
    BY DEF SeqNamesByte
  <2>1. /\ chan[e] \in Seq(Segment) /\ DOMAIN chan[e] = 1 .. Len(chan[e])
        /\ input[e] \in Seq(Int) /\ DOMAIN input[e] = 1 .. Len(input[e])
    BY DEF LifeInv, TypeOK
  <2>2. \A i \in 1 .. Len(chan[e]) :
           Named(Peer(e), chan[e][i], written[Peer(e)])
    BY DEF LifeInv, PacketsNamed
  <2>3. \A i \in 1 .. Len(input[e]) : input[e][i] \in 1 .. written[Peer(e)]
    BY DEF LifeInv, BytesWritten
  <2> QED BY <2>1, <2>2, <2>3 DEF Named
<1> QED BY <1>1, LifeInvariant, PTL
=============================================================================
