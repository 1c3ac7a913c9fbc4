----------------------------- MODULE StcpProofs -----------------------------
(***************************************************************************)
(* Proofs about data transfer between two established endpoints of Stcp.   *)
(* They hold for every window, payload size, initial sequence number,      *)
(* stream length and number of network faults.  LongRto is excluded: with  *)
(* it a full receive buffer breaks StreamPrefix (see StrChr).              *)
(***************************************************************************)
EXTENDS Stcp, SequenceTheorems, TLAPS

(* A packet that s may have sent, when its transport layer has taken tk    *)
(* bytes and next expects number nx: an acknowledgement of bytes s has     *)
(* received, carrying bytes of s's own stream under their numbers.         *)
SentBy(s, m, tk, nx) ==
    /\ m \in Segment
    /\ m.flags = {"ACK"}
    /\ m.ack <= nx
    /\ m.seq + m.len <= ISN[s] + 1 + tk
    /\ m.len > 0 => /\ m.seq = ISN[s] + 1 + m.lo
                    /\ m.lo + m.len <= tk

MaySend(s, m) == SentBy(s, m, taken[s], recvNext[s])

(* Every packet on the way, held back or kept for retransmission is one    *)
(* its sender may have sent.                                               *)
PacketsSound ==
    \A e \in Endpoint :
        /\ chan[e] \in Seq(Segment)
        /\ \A i \in 1 .. Len(chan[e]) : MaySend(Peer(e), chan[e][i])
        /\ copyBuf[e] \in Seq(Segment)
        /\ \A i \in 1 .. Len(copyBuf[e]) : MaySend(e, copyBuf[e][i])
        /\ unackd[e] \in Seq(PacketRecord)
        /\ \A i \in 1 .. Len(unackd[e]) : MaySend(e, unackd[e][i].seg)

(* The sequence numbers count bytes taken from and given to applications.  *)
NumbersSound ==
    \A e \in Endpoint :
        /\ sendNext[e] = ISN[e] + 1 + taken[e]
        /\ taken[e] <= written[e]
        /\ recvNext[e] = ISN[Peer(e)] + 1 + Len(input[e])
        /\ Len(input[e]) <= taken[Peer(e)]
        /\ sendUnack[e] <= recvNext[Peer(e)]

(* A byte in the receive buffer is where its number says, and the first    *)
(* slot is free between two packets.                                       *)
BufferSound ==
    \A e \in Endpoint :
        /\ recvBuf[e][0] = NoByte
        /\ \A i \in Slot :
             recvBuf[e][i] # NoByte =>
                /\ recvBuf[e][i] = Len(input[e]) + i + 1
                /\ recvBuf[e][i] <= taken[Peer(e)]

InputSound ==
    \A e \in Endpoint : \A i \in 1 .. Len(input[e]) : input[e][i] = i

(* Nobody opens or closes, and only a thread that gave up shows end-of-file. *)
StaysOpen ==
    \A e \in Endpoint : /\ cstate[e] = "ESTABLISHED"
                        /\ phase[e] \in {"running", "exited"}
                        /\ phase[e] = "running" => ~eof[e]

(* The retransmission loop only visits packets that are there. *)
LoopSound == \A e \in Endpoint : resend[e] <= Len(unackd[e])

(* The inductive invariant of data transfer. *)
TransferInv == /\ TypeOK
               /\ PacketsSound
               /\ NumbersSound
               /\ BufferSound
               /\ InputSound
               /\ StaysOpen
               /\ LoopSound


---------------------------------------------------------------------------
(* Peer() maps the two endpoints to each other. *)
LEMMA PeerType ==
    ASSUME NEW e \in Endpoint
    PROVE  Peer(e) \in Endpoint /\ Peer(Peer(e)) = e /\ Peer(e) # e
BY DEF Endpoint, Peer

(* What _network_send() can do: a packet then under way was under way      *)
(* before, is the one sent, or is the one held back; the packet held back  *)
(* was so before or is the one sent.                                       *)
LEMMA TransmitEffect ==
    ASSUME NEW e \in Endpoint, NEW m \in Segment,
           NEW c \in [Endpoint -> Seq(Segment)],
           copyBuf \in [Endpoint -> Seq(Segment)],
           faults \in 0 .. MaxFaults,
           Transmit(e, m, c)
    PROVE  /\ chan' \in [Endpoint -> Seq(Segment)]
           /\ copyBuf' \in [Endpoint -> Seq(Segment)]
           /\ faults' \in 0 .. MaxFaults
           /\ \A x \in Endpoint : \A i \in 1 .. Len(chan'[x]) :
                \/ \E j \in 1 .. Len(c[x]) : chan'[x][i] = c[x][j]
                \/ x = Peer(e) /\ chan'[x][i] = m
                \/ /\ x = Peer(e)
                   /\ \E j \in 1 .. Len(copyBuf[e]) :
                        chan'[x][i] = copyBuf[e][j]
           /\ \A x \in Endpoint : \A i \in 1 .. Len(copyBuf'[x]) :
                \/ \E j \in 1 .. Len(copyBuf[x]) : copyBuf'[x][i] = copyBuf[x][j]
                \/ x = e /\ copyBuf'[x][i] = m
<1> USE PeerType, SizesAssumption
<1>1. CASE /\ chan' = [c EXCEPT ![Peer(e)] = Append(@, m)]
           /\ UNCHANGED <<copyBuf, faults>>
  BY <1>1
<1>2. CASE /\ faults' = faults + 1
           /\ faults < MaxFaults
           /\ chan' = c
           /\ UNCHANGED copyBuf
  BY <1>2
<1>3. CASE /\ faults' = faults + 1
           /\ faults < MaxFaults
           /\ chan' = [c EXCEPT ![Peer(e)] = Append(Append(@, m), m)]
           /\ UNCHANGED copyBuf
  BY <1>3
<1>4. CASE /\ faults' = faults + 1
           /\ faults < MaxFaults
           /\ chan' = c
           /\ copyBuf' = [copyBuf EXCEPT ![e] = <<m>>]
  BY <1>4
<1>5. CASE /\ faults' = faults + 1
           /\ faults < MaxFaults
           /\ copyBuf[e] # <<>>
           /\ chan' = [c EXCEPT ![Peer(e)] = Append(@, copyBuf[e][1])]
           /\ UNCHANGED copyBuf
  <2>1. Len(copyBuf[e]) >= 1 /\ copyBuf[e][1] \in Segment
    BY <1>5
  <2> DEFINE old == copyBuf[e][1]
  <2>2. \E j \in 1 .. Len(copyBuf[e]) : old = copyBuf[e][j]
    BY <2>1
  <2>3. chan' = [c EXCEPT ![Peer(e)] = Append(@, old)] /\ old \in Segment
    BY <1>5, <2>1
  <2> HIDE DEF old
  <2>4. chan' \in [Endpoint -> Seq(Segment)]
    BY <2>3
  <2>5. ASSUME NEW x \in Endpoint, NEW i \in 1 .. Len(chan'[x])
        PROVE  \/ \E j \in 1 .. Len(c[x]) : chan'[x][i] = c[x][j]
               \/ x = Peer(e) /\ chan'[x][i] = old
    BY <2>3, <2>5
  <2>6. \A x \in Endpoint : \A i \in 1 .. Len(chan'[x]) :
            \/ \E j \in 1 .. Len(c[x]) : chan'[x][i] = c[x][j]
            \/ /\ x = Peer(e)
               /\ \E j \in 1 .. Len(copyBuf[e]) : chan'[x][i] = copyBuf[e][j]
    BY <2>2, <2>5, Zenon
  <2>7. copyBuf' = copyBuf /\ faults' \in 0 .. MaxFaults
    BY <1>5
  <2> QED BY <2>4, <2>6, <2>7, Zenon
<1> QED BY <1>1, <1>2, <1>3, <1>4, <1>5 DEF Transmit

(* Copying a sound packet into a sound buffer leaves it sound. *)
LEMMA FillSound ==
    ASSUME TransferInv, NEW e \in Endpoint, NEW m, MaySend(Peer(e), m)
    PROVE  LET buf == Fill(recvBuf[e], m, recvNext[e]) IN
           /\ buf \in [Slot -> Nat]
           /\ \A i \in Slot :
                buf[i] # NoByte => /\ buf[i] = Len(input[e]) + i + 1
                                   /\ buf[i] <= taken[Peer(e)]
           /\ m.len = 0 \/ IsOld(m, recvNext[e]) => buf[0] = NoByte
<1> DEFINE buf == Fill(recvBuf[e], m, recvNext[e])
           L == Len(input[e])
<1>1. /\ Peer(e) \in Endpoint /\ L \in Nat
      /\ m.seq \in Nat /\ m.lo \in Nat /\ m.len \in Nat
      /\ taken[Peer(e)] \in Nat /\ ISN[Peer(e)] \in Nat
      /\ recvNext[e] \in Nat
  BY PeerType, SizesAssumption DEF TransferInv, TypeOK, MaySend, SentBy, Segment
<1>2. /\ m.len > 0 => m.seq = ISN[Peer(e)] + 1 + m.lo
      /\ m.len > 0 => m.lo + m.len <= taken[Peer(e)]
      /\ recvNext[e] = ISN[Peer(e)] + 1 + L
  BY DEF MaySend, SentBy, TransferInv, NumbersSound
<1>3. /\ recvBuf[e] \in [Slot -> Nat]
      /\ recvBuf[e][0] = NoByte
      /\ \A i \in Slot : recvBuf[e][i] # NoByte =>
            recvBuf[e][i] = L + i + 1 /\ recvBuf[e][i] <= taken[Peer(e)]
  BY DEF TransferInv, TypeOK, BufferSound
<1>4. \A i \in Slot : i \in Nat
  BY SizesAssumption DEF Slot
<1>5. 0 \in Slot
  BY SizesAssumption DEF Slot
<1>6. ASSUME NEW i \in Slot
      PROVE  /\ buf[i] \in Nat
             /\ buf[i] # NoByte => buf[i] = L + i + 1 /\ buf[i] <= taken[Peer(e)]
  <2>1. CASE recvNext[e] + i - m.seq >= 0 /\ recvNext[e] + i - m.seq < m.len
    <3>1. buf[i] = m.lo + (recvNext[e] + i - m.seq) + 1
      BY <2>1 DEF Fill
    <3>2. m.len > 0
      BY <2>1, <1>1, <1>2, <1>4
    <3>3. buf[i] = L + i + 1 /\ buf[i] <= m.lo + m.len
      <4> HIDE DEF buf, L
      <4> QED BY <2>1, <3>1, <3>2, <1>1, <1>2, <1>4
    <3>4. buf[i] \in Nat
      <4> HIDE DEF buf, L
      <4> QED BY <3>3, <1>1, <1>4
    <3>5. buf[i] <= taken[Peer(e)]
      <4> HIDE DEF buf, L
      <4> QED BY <3>2, <3>3, <3>4, <1>1, <1>2
    <3> QED BY <3>3, <3>4, <3>5
  <2>2. CASE ~(recvNext[e] + i - m.seq >= 0 /\ recvNext[e] + i - m.seq < m.len)
    <3>1. buf[i] = recvBuf[e][i]
      BY <2>2 DEF Fill
    <3> QED BY <3>1, <1>3
  <2> QED BY <2>1, <2>2
<1>7. buf \in [Slot -> Nat]
  BY <1>6 DEF Fill
<1>8. ASSUME m.len = 0 \/ IsOld(m, recvNext[e]) PROVE buf[0] = NoByte
  <2>1. ~(recvNext[e] + 0 - m.seq >= 0 /\ recvNext[e] + 0 - m.seq < m.len)
    BY <1>8, <1>1, <1>2 DEF IsOld
  <2>2. buf[0] = recvBuf[e][0]
    BY <2>1, <1>5 DEF Fill
  <2> QED BY <2>2, <1>3
<1> QED BY <1>6, <1>7, <1>8

(* What recv_packet() may return. *)
RecvSound(e, m, r) ==
    /\ r.una \in Nat
    /\ sendUnack[e] <= r.una
    /\ r.una <= recvNext[Peer(e)]
    /\ r.wind \in 0 .. WINLEN
    /\ r.list \in Seq(PacketRecord)
    /\ \A i \in 1 .. Len(r.list) :
         \E j \in 1 .. Len(unackd[e]) : r.list[i] = unackd[e][j]
    /\ r.buf \in [Slot -> Nat]
    /\ \A i \in Slot :
         r.buf[i] # NoByte => /\ r.buf[i] = Len(input[e]) + i + 1
                              /\ r.buf[i] <= taken[Peer(e)]
    /\ r.size \in -2 .. WINLEN
    /\ r.next = recvNext[e] + (IF r.size > 0 THEN r.size ELSE 0)
    /\ \A i \in 0 .. r.size - 1 : r.buf[i] # NoByte
    /\ r.size > 0 /\ r.size < WINLEN => r.buf[r.size] = NoByte
    /\ r.size <= 0 => r.buf[0] = NoByte

LEMMA RecvPacketSound ==
    ASSUME ~LongRto, TransferInv, NEW e \in Endpoint,
           NEW m, MaySend(Peer(e), m), NEW r \in RecvPacket(e, m)
    PROVE  RecvSound(e, m, r)
<1>1. /\ Peer(e) \in Endpoint
      /\ WINLEN \in Nat \ {0} /\ 0 \in Slot
      /\ m.flags = {"ACK"} /\ m.ack <= recvNext[Peer(e)]
      /\ m.len \in Nat /\ m.ack \in Nat /\ m.seq \in Nat
      /\ sendUnack[e] \in Nat /\ recvNext[e] \in Nat /\ recvNext[Peer(e)] \in Nat
      /\ sendUnack[e] <= recvNext[Peer(e)]
      /\ unackd[e] \in Seq(PacketRecord)
      /\ sendWind[e] \in 0 .. WINLEN
  BY PeerType, SizesAssumption
     DEF TransferInv, TypeOK, MaySend, SentBy, Segment, Slot, NumbersSound
<1>2. CASE IsBeyond(m, recvNext[e])
  <2>1. r = [size |-> BeyondWindow, next |-> recvNext[e], una |-> sendUnack[e],
             list |-> unackd[e], buf |-> recvBuf[e], wind |-> sendWind[e]]
    BY <1>2 DEF RecvPacket
  <2>2. /\ recvBuf[e] \in [Slot -> Nat]
        /\ recvBuf[e][0] = NoByte
        /\ \A i \in Slot : recvBuf[e][i] # NoByte =>
              /\ recvBuf[e][i] = Len(input[e]) + i + 1
              /\ recvBuf[e][i] <= taken[Peer(e)]
    BY DEF TransferInv, TypeOK, BufferSound
  <2>3. /\ r.size = -1 /\ r.next = recvNext[e] /\ r.una = sendUnack[e]
        /\ r.list = unackd[e] /\ r.buf = recvBuf[e] /\ r.wind = sendWind[e]
    BY <2>1 DEF BeyondWindow
  <2>4. /\ r.size \in -2 .. WINLEN /\ 0 .. r.size - 1 = {}
        /\ r.next = recvNext[e] + (IF r.size > 0 THEN r.size ELSE 0)
    BY <1>1, <2>3
  <2>5. \A i \in 1 .. Len(r.list) :
          \E j \in 1 .. Len(unackd[e]) : r.list[i] = unackd[e][j]
    BY <2>3
  <2>6. /\ r.buf \in [Slot -> Nat] /\ r.buf[0] = NoByte /\ ~(r.size > 0)
        /\ \A i \in Slot :
              r.buf[i] # NoByte => /\ r.buf[i] = Len(input[e]) + i + 1
                                   /\ r.buf[i] <= taken[Peer(e)]
    BY <2>2, <2>3
  <2>7. /\ r.una \in Nat /\ sendUnack[e] <= r.una /\ r.una <= recvNext[Peer(e)]
        /\ r.wind \in 0 .. WINLEN /\ r.list \in Seq(PacketRecord)
    BY <1>1, <2>3
  <2>8. \A i \in 0 .. r.size - 1 : r.buf[i] # NoByte
    BY <2>4
  <2> QED BY <2>4, <2>5, <2>6, <2>7, <2>8, Zenon DEF RecvSound
<1>3. CASE ~IsBeyond(m, recvNext[e])
  <2> DEFINE buf == Fill(recvBuf[e], m, recvNext[e])
             una == AckOf(m, sendUnack[e])
  <2>1. PICK n \in StrChr(buf), k \in AckedCount(unackd[e], una) :
          r = [size |-> CASE m.len = 0 -> 0
                          [] m.len > 0 /\ IsOld(m, recvNext[e]) -> OldData
                          [] OTHER -> n,
               next |-> CASE "SYN" \in m.flags -> m.seq + 1
                          [] "SYN" \notin m.flags /\ m.len > 0 -> recvNext[e] + n
                          [] OTHER -> recvNext[e],
               una  |-> una,
               list |-> SubSeq(unackd[e], k + 1, Len(unackd[e])),
               buf  |-> buf,
               wind |-> WINLEN]
    BY <1>3 DEF RecvPacket
  <2>2. /\ n \in 0 .. WINLEN
        /\ \A i \in 0 .. n - 1 : buf[i] # NoByte
        /\ n < WINLEN => buf[n] = NoByte
    BY <2>1 DEF StrChr
  <2>3. /\ buf \in [Slot -> Nat]
        /\ \A i \in Slot :
             buf[i] # NoByte => /\ buf[i] = Len(input[e]) + i + 1
                                /\ buf[i] <= taken[Peer(e)]
        /\ m.len = 0 \/ IsOld(m, recvNext[e]) => buf[0] = NoByte
    BY FillSound
  <2>4. una \in Nat /\ sendUnack[e] <= una /\ una <= recvNext[Peer(e)]
    BY <1>1 DEF AckOf
  <2>5. k \in 0 .. Len(unackd[e])
    BY <2>1 DEF AckedCount
  <2>6. /\ r.list \in Seq(PacketRecord)
        /\ \A i \in 1 .. Len(r.list) :
             \E j \in 1 .. Len(unackd[e]) : r.list[i] = unackd[e][j]
    <3>1. r.list = SubSeq(unackd[e], k + 1, Len(unackd[e]))
      BY <2>1
    <3>2. /\ Len(r.list) = Len(unackd[e]) - k
          /\ \A i \in 1 .. Len(r.list) : r.list[i] = unackd[e][i + k]
          /\ r.list \in Seq(PacketRecord)
      <4> DEFINE u == unackd[e]
      <4>1. u \in Seq(PacketRecord) /\ Len(u) \in Nat /\ k \in Nat /\ k <= Len(u)
        BY <2>5, <1>1
      <4>2. \A i \in k + 1 .. Len(u) : u[i] \in PacketRecord
        <5> HIDE DEF u
        <5> QED BY <4>1
      <4>3. /\ SubSeq(u, k + 1, Len(u)) \in Seq(PacketRecord)
            /\ Len(SubSeq(u, k + 1, Len(u))) =
                 IF k + 1 <= Len(u) THEN Len(u) - (k + 1) + 1 ELSE 0
            /\ \A i \in 1 .. Len(u) - (k + 1) + 1 :
                 SubSeq(u, k + 1, Len(u))[i] = u[(k + 1) + i - 1]
        <5> HIDE DEF u
        <5> QED BY <4>1, <4>2, SubSeqProperties
      <4>4. /\ Len(SubSeq(u, k + 1, Len(u))) = Len(u) - k
            /\ \A i \in 1 .. Len(u) - k :
                 SubSeq(u, k + 1, Len(u))[i] = u[i + k]
        <5> HIDE DEF u
        <5> QED BY <4>1, <4>3
      <4> QED BY <3>1, <4>3, <4>4
    <3>3. \A i \in 1 .. Len(r.list) : i + k \in 1 .. Len(unackd[e])
      BY <3>2, <2>5, <1>1
    <3> QED BY <3>2, <3>3
  <2>7. "SYN" \notin m.flags
    BY <1>1
  <2>8. CASE m.len = 0
    <3>1. r.size = 0 /\ r.next = recvNext[e] /\ r.buf = buf /\ r.una = una
          /\ r.wind = WINLEN
      BY <2>1, <2>7, <2>8
    <3> QED BY <3>1, <2>3, <2>4, <2>6, <2>8, <1>1 DEF RecvSound
  <2>9. CASE m.len > 0 /\ IsOld(m, recvNext[e])
    <3>1. n = 0
      BY <2>2, <2>3, <2>9, <1>1
    <3>2. r.size = -2 /\ r.next = recvNext[e] + n /\ r.buf = buf /\ r.una = una
          /\ r.wind = WINLEN
      BY <2>1, <2>7, <2>9 DEF OldData
    <3> QED BY <3>1, <3>2, <2>3, <2>4, <2>6, <2>9, <1>1 DEF RecvSound
  <2>10. CASE m.len > 0 /\ ~IsOld(m, recvNext[e])
    <3>1. r.size = n /\ r.next = recvNext[e] + n /\ r.buf = buf /\ r.una = una
          /\ r.wind = WINLEN
      BY <2>1, <2>7, <2>10
    <3> QED BY <3>1, <2>2, <2>3, <2>4, <2>6, <1>1 DEF RecvSound
  <2> QED BY <2>8, <2>9, <2>10, <1>1
<1> QED BY <1>2, <1>3
---------------------------------------------------------------------------
(* Preservation of the invariant by each action. *)

LEMMA InitInv == TransferInit => TransferInv
<1> SUFFICES ASSUME TransferInit PROVE TransferInv
  OBVIOUS
<1> USE SizesAssumption
<1>1. \A e \in Endpoint : Peer(e) \in Endpoint
  BY PeerType
<1>2. EmptyBuf \in [Slot -> Nat] /\ 0 \in Slot
  BY DEF EmptyBuf, NoByte, Slot
<1>3. TypeOK
  BY <1>1, <1>2 DEF TransferInit, TypeOK, Phase, CState
<1>4. PacketsSound
  <2> SUFFICES ASSUME NEW e \in Endpoint
               PROVE  PacketsSound!(e)
    BY DEF PacketsSound
  <2>1. chan[e] = <<>> /\ copyBuf[e] = <<>> /\ unackd[e] = <<>>
    BY DEF TransferInit
  <2>2. \A S : <<>> \in Seq(S)
    OBVIOUS
  <2>3. 1 .. Len(<<>>) = {}
    OBVIOUS
  <2> QED BY <2>1, <2>2, <2>3
<1>5. NumbersSound
  <2> SUFFICES ASSUME NEW e \in Endpoint
               PROVE  NumbersSound!(e)
    BY DEF NumbersSound
  <2>1. /\ ISN[e] \in Nat /\ ISN[Peer(e)] \in Nat /\ Peer(Peer(e)) = e
        /\ Peer(e) \in Endpoint
    BY PeerType
  <2>2. /\ input[e] = <<>>
        /\ taken[e] = 0 /\ taken[Peer(e)] = 0 /\ written[e] = 0
        /\ sendNext[e] = ISN[e] + 1 /\ sendUnack[e] = ISN[e] + 1
        /\ recvNext[e] = ISN[Peer(e)] + 1 /\ recvNext[Peer(e)] = ISN[e] + 1
    BY <2>1 DEF TransferInit
  <2> QED BY <2>1, <2>2
<1>6. BufferSound
  BY <1>2 DEF TransferInit, BufferSound, EmptyBuf
<1>7. InputSound
  BY DEF TransferInit, InputSound
<1>8. StaysOpen
  BY DEF TransferInit, StaysOpen
<1>9. LoopSound
  <2>1. \A e \in Endpoint : resend[e] = 0 /\ unackd[e] = <<>>
    BY DEF TransferInit
  <2> QED BY <2>1 DEF LoopSound
<1> QED BY <1>3, <1>4, <1>5, <1>6, <1>7, <1>8, <1>9 DEF TransferInv

LEMMA MywriteInv ==
    ASSUME TransferInv, NEW e \in Endpoint, Mywrite(e)
    PROVE  TransferInv'
<1>1. PICK n \in 1 .. MaxBytes[e] : written' = [written EXCEPT ![e] = @ + n]
  BY DEF Mywrite
<1>2. UNCHANGED <<connVars, sendVars, recvVars, netVars, taken, closed,
                  closeReq, inVars>>
  BY DEF Mywrite
<1> USE <1>2 DEF connVars, sendVars, recvVars, netVars, inVars
<1>3. n \in Nat
  BY SizesAssumption
<1>4. written \in [Endpoint -> Nat] /\ taken \in [Endpoint -> Nat]
  BY DEF TransferInv, TypeOK
<1>5. /\ written' \in [Endpoint -> Nat]
      /\ \A x \in Endpoint : written'[x] >= written[x]
  BY <1>1, <1>3, <1>4
<1>6. TypeOK'
  BY <1>5 DEF TransferInv, TypeOK
<1>7. NumbersSound'
  BY <1>4, <1>5, PeerType DEF TransferInv, NumbersSound
<1>8. PacketsSound'
  BY DEF TransferInv, PacketsSound, MaySend, SentBy
<1>9. BufferSound' /\ InputSound' /\ StaysOpen' /\ LoopSound'
  BY DEF TransferInv, BufferSound, InputSound, StaysOpen, LoopSound
<1> QED BY <1>6, <1>7, <1>8, <1>9 DEF TransferInv

(* A packet stays sound while the sender takes and receives more. *)
LEMMA SentByMonotone ==
    ASSUME NEW s \in Endpoint, NEW m, NEW tk \in Nat, NEW nx \in Nat,
           NEW tk2 \in Nat, NEW nx2 \in Nat, tk <= tk2, nx <= nx2,
           SentBy(s, m, tk, nx)
    PROVE  SentBy(s, m, tk2, nx2)
<1>1. ISN[s] \in Nat
  BY SizesAssumption
<1> QED BY <1>1 DEF SentBy, Segment

(* A step in which e sends m keeps every packet sound. *)
LEMMA TransmitSound ==
    ASSUME TransferInv, NEW e \in Endpoint, NEW m,
           NEW c \in [Endpoint -> Seq(Segment)],
           \A x \in Endpoint : \A i \in 1 .. Len(c[x]) :
               \E j \in 1 .. Len(chan[x]) : c[x][i] = chan[x][j],
           taken' \in [Endpoint -> Nat], recvNext' \in [Endpoint -> Nat],
           \A x \in Endpoint : taken[x] <= taken'[x] /\ recvNext[x] <= recvNext'[x],
           SentBy(e, m, taken'[e], recvNext'[e]),
           unackd' \in [Endpoint -> Seq(PacketRecord)],
           \A x \in Endpoint : \A i \in 1 .. Len(unackd'[x]) :
               SentBy(x, unackd'[x][i].seg, taken'[x], recvNext'[x]),
           Transmit(e, m, c)
    PROVE  /\ PacketsSound'
           /\ chan' \in [Endpoint -> Seq(Segment)]
           /\ copyBuf' \in [Endpoint -> Seq(Segment)]
           /\ faults' \in 0 .. MaxFaults
<1>1. m \in Segment
  BY DEF SentBy
<1>2. /\ copyBuf \in [Endpoint -> Seq(Segment)] /\ faults \in 0 .. MaxFaults
      /\ taken \in [Endpoint -> Nat] /\ recvNext \in [Endpoint -> Nat]
  BY DEF TransferInv, TypeOK
<1>3. /\ chan' \in [Endpoint -> Seq(Segment)]
      /\ copyBuf' \in [Endpoint -> Seq(Segment)]
      /\ faults' \in 0 .. MaxFaults
      /\ \A x \in Endpoint : \A i \in 1 .. Len(chan'[x]) :
           \/ \E j \in 1 .. Len(c[x]) : chan'[x][i] = c[x][j]
           \/ x = Peer(e) /\ chan'[x][i] = m
           \/ /\ x = Peer(e)
              /\ \E j \in 1 .. Len(copyBuf[e]) : chan'[x][i] = copyBuf[e][j]
      /\ \A x \in Endpoint : \A i \in 1 .. Len(copyBuf'[x]) :
           \/ \E j \in 1 .. Len(copyBuf[x]) : copyBuf'[x][i] = copyBuf[x][j]
           \/ x = e /\ copyBuf'[x][i] = m
  BY <1>1, <1>2, TransmitEffect
<1>4. ASSUME NEW x \in Endpoint, NEW p, SentBy(x, p, taken[x], recvNext[x])
      PROVE  SentBy(x, p, taken'[x], recvNext'[x])
  BY <1>2, <1>4, SentByMonotone
<1>5. /\ \A x \in Endpoint : \A i \in 1 .. Len(chan[x]) :
           SentBy(Peer(x), chan[x][i], taken[Peer(x)], recvNext[Peer(x)])
      /\ \A x \in Endpoint : \A i \in 1 .. Len(copyBuf[x]) :
           SentBy(x, copyBuf[x][i], taken[x], recvNext[x])
  BY DEF TransferInv, PacketsSound, MaySend
<1>6. ASSUME NEW x \in Endpoint, NEW i \in 1 .. Len(chan'[x])
      PROVE  SentBy(Peer(x), chan'[x][i], taken'[Peer(x)], recvNext'[Peer(x)])
  <2>1. Peer(x) \in Endpoint /\ (x = Peer(e) => Peer(x) = e)
    BY PeerType
  <2>2. CASE \E j \in 1 .. Len(c[x]) : chan'[x][i] = c[x][j]
    <3>1. PICK j \in 1 .. Len(chan[x]) : chan'[x][i] = chan[x][j]
      BY <2>2
    <3> QED BY <2>1, <3>1, <1>4, <1>5
  <2>3. CASE x = Peer(e) /\ chan'[x][i] = m
    BY <2>1, <2>3
  <2>4. CASE /\ x = Peer(e)
             /\ \E j \in 1 .. Len(copyBuf[e]) : chan'[x][i] = copyBuf[e][j]
    BY <2>1, <2>4, <1>4, <1>5
  <2> QED BY <1>3, <2>2, <2>3, <2>4
<1>7. ASSUME NEW x \in Endpoint, NEW i \in 1 .. Len(copyBuf'[x])
      PROVE  SentBy(x, copyBuf'[x][i], taken'[x], recvNext'[x])
  BY <1>3, <1>4, <1>5
<1>8. PacketsSound'
  BY <1>3, <1>6, <1>7, PeerType DEF PacketsSound, MaySend
<1> QED BY <1>3, <1>8

LEMMA AppDataInv ==
    ASSUME TransferInv, NEW e \in Endpoint, AppData(e)
    PROVE  TransferInv'
<1> DEFINE pkt(n) == MakePacket({"ACK"}, sendNext[e], recvNext[e], taken[e], n)
<1>1. PICK n \in 1 .. MAXLEN :
        /\ n <= written[e] - taken[e]
        /\ taken' = [taken EXCEPT ![e] = @ + n]
        /\ sendNext' = [sendNext EXCEPT ![e] = @ + n]
        /\ unackd' = [unackd EXCEPT ![e] = Append(@, PacketT(pkt(n)))]
        /\ Transmit(e, pkt(n), chan)
  BY DEF AppData
<1>2. UNCHANGED <<connVars, sendUnack, sendWind, resend, recvVars, written,
                  closed, closeReq, inVars>>
  BY DEF AppData
<1>20. /\ phase' = phase /\ cstate' = cstate /\ sendUnack' = sendUnack
       /\ sendWind' = sendWind /\ resend' = resend /\ recvNext' = recvNext
       /\ recvBuf' = recvBuf /\ written' = written /\ closed' = closed
       /\ closeReq' = closeReq /\ input' = input /\ eof' = eof
  BY <1>2 DEF connVars, recvVars, inVars
<1>31. n \in Nat /\ n > 0 /\ ISN \in [Endpoint -> Nat]
  BY SizesAssumption
<1>32. /\ taken \in [Endpoint -> Nat] /\ written \in [Endpoint -> Nat]
      /\ sendNext \in [Endpoint -> Nat] /\ recvNext \in [Endpoint -> Nat]
      /\ chan \in [Endpoint -> Seq(Segment)]
      /\ unackd \in [Endpoint -> Seq(PacketRecord)]
  BY DEF TransferInv, TypeOK
<1>33. sendNext[e] = ISN[e] + 1 + taken[e]
  BY DEF TransferInv, NumbersSound
<1>3. /\ n \in Nat /\ n > 0 /\ ISN \in [Endpoint -> Nat]
      /\ taken \in [Endpoint -> Nat] /\ written \in [Endpoint -> Nat]
      /\ sendNext \in [Endpoint -> Nat] /\ recvNext \in [Endpoint -> Nat]
      /\ chan \in [Endpoint -> Seq(Segment)]
      /\ unackd \in [Endpoint -> Seq(PacketRecord)]
      /\ sendNext[e] = ISN[e] + 1 + taken[e]
  BY <1>31, <1>32, <1>33
<1>40. /\ taken' = [taken EXCEPT ![e] = @ + n]
       /\ sendNext' = [sendNext EXCEPT ![e] = @ + n]
       /\ n <= written[e] - taken[e]
  BY <1>1
<1>4. /\ taken' \in [Endpoint -> Nat] /\ sendNext' \in [Endpoint -> Nat]
      /\ recvNext' \in [Endpoint -> Nat]
      /\ \A x \in Endpoint : taken[x] <= taken'[x]
      /\ \A x \in Endpoint : recvNext[x] <= recvNext'[x]
      /\ taken'[e] = taken[e] + n
      /\ \A x \in Endpoint : x # e => taken'[x] = taken[x]
  <2>1. /\ taken'[e] = taken[e] + n
        /\ \A x \in Endpoint : x # e => taken'[x] = taken[x]
    BY <1>40, <1>31, <1>32
  <2>2. taken' \in [Endpoint -> Nat]
    BY <1>40, <1>31, <1>32
  <2>3. sendNext' \in [Endpoint -> Nat]
    BY <1>40, <1>31, <1>32
  <2>4. ASSUME NEW x \in Endpoint PROVE taken[x] <= taken'[x]
    <3>1. CASE x = e
      <4>1. taken[e] \in Nat
        BY <1>32
      <4> QED BY <3>1, <4>1, <2>1, <1>31
    <3>2. CASE x # e
      BY <3>2, <2>1, <1>32
    <3> QED BY <3>1, <3>2
  <2>5. /\ recvNext' \in [Endpoint -> Nat]
        /\ \A x \in Endpoint : recvNext[x] <= recvNext'[x]
    BY <1>32, <1>20
  <2> QED BY <2>1, <2>2, <2>3, <2>4, <2>5
<1>5. SentBy(e, pkt(n), taken'[e], recvNext'[e])
  BY <1>3, <1>4, <1>20 DEF SentBy, MakePacket, Segment
<1>6. pkt(n) \in Segment
  BY <1>5 DEF SentBy
<1> HIDE DEF pkt
<1>7. unackd' \in [Endpoint -> Seq(PacketRecord)]
  <2>1. PacketT(pkt(n)) \in PacketRecord
    BY <1>6 DEF PacketT, PacketRecord
  <2>2. unackd' = [unackd EXCEPT ![e] = Append(@, PacketT(pkt(n)))]
    BY <1>1
  <2> QED BY <2>1, <2>2, <1>3
<1>8. ASSUME NEW x \in Endpoint, NEW i \in 1 .. Len(unackd'[x])
      PROVE  SentBy(x, unackd'[x][i].seg, taken'[x], recvNext'[x])
  <2>1. \A j \in 1 .. Len(unackd[x]) :
          SentBy(x, unackd[x][j].seg, taken'[x], recvNext'[x])
    BY <1>3, <1>4, SentByMonotone DEF TransferInv, PacketsSound, MaySend
  <2>2. CASE x # e
    BY <2>1, <2>2, <1>1, <1>3
  <2>3. CASE x = e
    <3>1. unackd'[e] = Append(unackd[e], PacketT(pkt(n)))
      BY <1>1, <1>3
    <3>2. CASE i <= Len(unackd[e])
      BY <2>1, <2>3, <3>1, <3>2, <1>3
    <3>3. CASE i > Len(unackd[e])
      <4>1. unackd'[e][i] = PacketT(pkt(n))
        BY <2>3, <3>1, <3>3, <1>3
      <4>2. unackd'[e][i].seg = pkt(n)
        BY <4>1 DEF PacketT
      <4> QED BY <4>2, <2>3, <1>5
    <3> QED BY <3>2, <3>3, <2>3, <1>3
  <2> QED BY <2>2, <2>3
<1>9. /\ PacketsSound'
      /\ chan' \in [Endpoint -> Seq(Segment)]
      /\ copyBuf' \in [Endpoint -> Seq(Segment)]
      /\ faults' \in 0 .. MaxFaults
  <2>1. \A x \in Endpoint : \A i \in 1 .. Len(chan[x]) :
           \E j \in 1 .. Len(chan[x]) : chan[x][i] = chan[x][j]
    OBVIOUS
  <2> QED BY <2>1, <1>1, <1>3, <1>4, <1>5, <1>7, <1>8, TransmitSound
<1>10. TypeOK'
  BY <1>4, <1>7, <1>9, <1>20 DEF TransferInv, TypeOK
<1>11. NumbersSound'
  <2> SUFFICES ASSUME NEW x \in Endpoint PROVE NumbersSound!(x)'
    BY DEF NumbersSound
  <2>1. Peer(x) \in Endpoint
    BY PeerType
  <2>2. NumbersSound!(x)
    BY DEF TransferInv, NumbersSound
  <2>3. ISN[x] \in Nat /\ Len(input[x]) \in Nat
    BY <1>3 DEF TransferInv, TypeOK
  <2>4. sendNext'[x] = ISN[x] + 1 + taken'[x] /\ taken'[x] <= written[x]
    <3>1. CASE x = e
      <4>1. /\ taken[e] \in Nat /\ written[e] \in Nat
            /\ sendNext'[e] = sendNext[e] + n
        BY <1>40, <1>31, <1>32
      <4>2. n <= written[e] - taken[e] /\ taken'[e] = taken[e] + n
        BY <1>40, <1>4
      <4>3. sendNext[e] = ISN[e] + 1 + taken[e] /\ ISN[e] \in Nat
        BY <1>33, <1>31
      <4>4. sendNext'[e] = ISN[e] + 1 + taken'[e] /\ taken'[e] <= written[e]
        BY <4>1, <4>2, <4>3, <1>31
      <4> QED BY <3>1, <4>4
    <3>2. CASE x # e
      BY <3>2, <2>2, <1>40, <1>32
    <3> QED BY <3>1, <3>2
  <2>5. Len(input[x]) <= taken'[Peer(x)]
    <3>1. taken[Peer(x)] \in Nat /\ taken'[Peer(x)] \in Nat
          /\ taken[Peer(x)] <= taken'[Peer(x)]
      BY <2>1, <1>32, <1>4
    <3> QED BY <2>2, <2>3, <3>1
  <2> QED BY <2>2, <2>4, <2>5, <1>20
<1>12. BufferSound'
  <2> SUFFICES ASSUME NEW x \in Endpoint, NEW i \in Slot, recvBuf[x][i] # NoByte
               PROVE  recvBuf[x][i] <= taken'[Peer(x)]
    BY <1>20 DEF TransferInv, BufferSound
  <2>1. recvBuf[x][i] <= taken[Peer(x)] /\ recvBuf[x][i] \in Nat
    BY DEF TransferInv, BufferSound, TypeOK
  <2>2. taken[Peer(x)] \in Nat /\ taken'[Peer(x)] \in Nat
        /\ taken[Peer(x)] <= taken'[Peer(x)]
    BY <1>32, <1>4, PeerType
  <2> QED BY <2>1, <2>2
<1>13. InputSound' /\ StaysOpen'
  BY <1>20 DEF TransferInv, InputSound, StaysOpen
<1>14. LoopSound'
  <2> SUFFICES ASSUME NEW x \in Endpoint PROVE resend'[x] <= Len(unackd'[x])
    BY DEF LoopSound
  <2>1. CASE x = e
    <3>1. resend'[e] = 0
      BY <1>20 DEF AppData, AtTop
    <3>2. Len(unackd'[e]) \in Nat
      BY <1>7
    <3> QED BY <2>1, <3>1, <3>2
  <2>2. CASE x # e
    BY <2>2, <1>1, <1>20, <1>32 DEF TransferInv, LoopSound
  <2> QED BY <2>1, <2>2
<1> QED BY <1>9, <1>10, <1>11, <1>12, <1>13, <1>14 DEF TransferInv

LEMMA ResendPacketInv ==
    ASSUME TransferInv, NEW e \in Endpoint, NEW i \in 1 .. Len(unackd[e]),
           phase[e] = "running", ResendPacket(e, i)
    PROVE  TransferInv'
<1> DEFINE p == [seg   |-> [unackd[e][i].seg EXCEPT !.ack = recvNext[e]],
                 retry |-> unackd[e][i].retry + 1]
<1>1. /\ unackd' = [unackd EXCEPT ![e] = [unackd[e] EXCEPT ![i] = p]]
      /\ Transmit(e, p.seg, chan)
      /\ \/ Exit(e)
         \/ UNCHANGED <<phase, eof>>
      /\ resend' = [resend EXCEPT ![e] =
                        IF i = Len(unackd[e]) THEN 0 ELSE i + 1]
      /\ UNCHANGED <<cstate, sendUnack, sendNext, sendWind, recvVars, outVars,
                     input>>
  BY DEF ResendPacket
<1> USE DEF recvVars, outVars
<1>20. /\ taken \in [Endpoint -> Nat] /\ recvNext \in [Endpoint -> Nat]
       /\ chan \in [Endpoint -> Seq(Segment)]
       /\ unackd \in [Endpoint -> Seq(PacketRecord)]
       /\ resend \in [Endpoint -> Nat]
  BY DEF TransferInv, TypeOK
<1>21. unackd[e][i] \in PacketRecord
  BY <1>20
<1>2. /\ \A x \in Endpoint : \A j \in 1 .. Len(unackd[x]) :
           SentBy(x, unackd[x][j].seg, taken[x], recvNext[x])
  BY DEF TransferInv, PacketsSound, MaySend
<1>3. SentBy(e, p.seg, taken[e], recvNext[e])
  <2>1. SentBy(e, unackd[e][i].seg, taken[e], recvNext[e]) /\ recvNext[e] \in Nat
    BY <1>2, <1>20
  <2>2. p.seg = [unackd[e][i].seg EXCEPT !.ack = recvNext[e]]
    OBVIOUS
  <2> HIDE DEF p
  <2> QED BY <2>1, <2>2 DEF SentBy, Segment
<1>4. p \in PacketRecord
  BY <1>21, <1>3 DEF SentBy, PacketRecord
<1> HIDE DEF p
<1>5. unackd' \in [Endpoint -> Seq(PacketRecord)]
  BY <1>1, <1>20, <1>2, <1>4
<1>6. \A x \in Endpoint : \A j \in 1 .. Len(unackd'[x]) :
         SentBy(x, unackd'[x][j].seg, taken'[x], recvNext'[x])
  <2>1. \A x \in Endpoint : Len(unackd'[x]) = Len(unackd[x])
    BY <1>1, <1>20, <1>2, <1>4
  <2>2. \A x \in Endpoint : \A j \in 1 .. Len(unackd[x]) :
           unackd'[x][j] = IF x = e /\ j = i THEN p ELSE unackd[x][j]
    BY <1>1, <1>20, <1>2, <1>4
  <2> QED BY <2>1, <2>2, <1>1, <1>20, <1>2, <1>3
<1>7. /\ PacketsSound'
      /\ chan' \in [Endpoint -> Seq(Segment)]
      /\ copyBuf' \in [Endpoint -> Seq(Segment)]
      /\ faults' \in 0 .. MaxFaults
  <2>1. \A x \in Endpoint : \A j \in 1 .. Len(chan[x]) :
           \E k \in 1 .. Len(chan[x]) : chan[x][j] = chan[x][k]
    OBVIOUS
  <2>2. /\ taken' = taken /\ recvNext' = recvNext
        /\ \A x \in Endpoint : /\ taken[x] <= taken'[x]
                               /\ recvNext[x] <= recvNext'[x]
    BY <1>1, <1>20, <1>2
  <2> QED BY <2>1, <2>2, <1>1, <1>20, <1>2, <1>3, <1>5, <1>6, TransmitSound
<1>8. /\ phase' \in [Endpoint -> Phase] /\ eof' \in [Endpoint -> BOOLEAN]
      /\ StaysOpen'
  <2>1. phase \in [Endpoint -> Phase] /\ eof \in [Endpoint -> BOOLEAN]
    BY DEF TransferInv, TypeOK
  <2>2. CASE UNCHANGED <<phase, eof>>
    BY <2>1, <2>2, <1>1 DEF TransferInv, StaysOpen
  <2>3. CASE Exit(e)
    <3>1. /\ phase' = [phase EXCEPT ![e] = "exited"]
          /\ eof' = [eof EXCEPT ![e] = TRUE]
      BY <2>3 DEF Exit
    <3>2. phase' \in [Endpoint -> Phase] /\ eof' \in [Endpoint -> BOOLEAN]
      BY <2>1, <3>1 DEF Phase
    <3> QED BY <2>1, <3>1, <3>2, <1>1 DEF TransferInv, StaysOpen
  <2> QED BY <2>2, <2>3, <1>1
<1>9. resend' \in [Endpoint -> Nat]
  BY <1>1, <1>20, <1>2
<1>10. TypeOK'
  BY <1>1, <1>5, <1>7, <1>8, <1>9 DEF TransferInv, TypeOK
<1>11. NumbersSound' /\ BufferSound' /\ InputSound'
  BY <1>1 DEF TransferInv, NumbersSound, BufferSound, InputSound
<1>12. LoopSound'
  <2> SUFFICES ASSUME NEW x \in Endpoint PROVE resend'[x] <= Len(unackd'[x])
    BY DEF LoopSound
  <2>1. CASE x = e
    <3>1. Len(unackd'[e]) = Len(unackd[e]) /\ Len(unackd[e]) \in Nat
      BY <1>1, <1>20, <1>4
    <3>2. resend'[e] = IF i = Len(unackd[e]) THEN 0 ELSE i + 1
      BY <1>1, <1>20
    <3> QED BY <2>1, <3>1, <3>2
  <2>2. CASE x # e
    <3>1. resend'[x] = resend[x] /\ unackd'[x] = unackd[x]
      BY <2>2, <1>1, <1>20
    <3> QED BY <3>1 DEF TransferInv, LoopSound
  <2> QED BY <2>1, <2>2
<1> QED BY <1>7, <1>8, <1>10, <1>11, <1>12 DEF TransferInv

(* A step that sends nothing keeps every packet sound. *)
LEMMA NoTransmitSound ==
    ASSUME TransferInv,
           NEW c \in [Endpoint -> Seq(Segment)],
           \A x \in Endpoint : \A i \in 1 .. Len(c[x]) :
               \E j \in 1 .. Len(chan[x]) : c[x][i] = chan[x][j],
           taken' \in [Endpoint -> Nat], recvNext' \in [Endpoint -> Nat],
           \A x \in Endpoint : taken[x] <= taken'[x] /\ recvNext[x] <= recvNext'[x],
           unackd' \in [Endpoint -> Seq(PacketRecord)],
           \A x \in Endpoint : \A i \in 1 .. Len(unackd'[x]) :
               SentBy(x, unackd'[x][i].seg, taken'[x], recvNext'[x]),
           NoTransmit(c)
    PROVE  /\ PacketsSound'
           /\ chan' \in [Endpoint -> Seq(Segment)]
           /\ copyBuf' \in [Endpoint -> Seq(Segment)]
           /\ faults' \in 0 .. MaxFaults
<1>1. /\ copyBuf \in [Endpoint -> Seq(Segment)] /\ faults \in 0 .. MaxFaults
      /\ taken \in [Endpoint -> Nat] /\ recvNext \in [Endpoint -> Nat]
  BY DEF TransferInv, TypeOK
<1>2. chan' = c /\ copyBuf' = copyBuf /\ faults' = faults
  BY DEF NoTransmit
<1>3. ASSUME NEW x \in Endpoint, NEW p, SentBy(x, p, taken[x], recvNext[x])
      PROVE  SentBy(x, p, taken'[x], recvNext'[x])
  BY <1>1, <1>3, SentByMonotone
<1>4. /\ \A x \in Endpoint : \A i \in 1 .. Len(chan[x]) :
           SentBy(Peer(x), chan[x][i], taken[Peer(x)], recvNext[Peer(x)])
      /\ \A x \in Endpoint : \A i \in 1 .. Len(copyBuf[x]) :
           SentBy(x, copyBuf[x][i], taken[x], recvNext[x])
  BY DEF TransferInv, PacketsSound, MaySend
<1>5. ASSUME NEW x \in Endpoint, NEW i \in 1 .. Len(c[x])
      PROVE  SentBy(Peer(x), c[x][i], taken'[Peer(x)], recvNext'[Peer(x)])
  <2>1. PICK j \in 1 .. Len(chan[x]) : c[x][i] = chan[x][j]
    OBVIOUS
  <2> QED BY <2>1, <1>3, <1>4, PeerType
<1>6. ASSUME NEW x \in Endpoint, NEW i \in 1 .. Len(copyBuf[x])
      PROVE  SentBy(x, copyBuf[x][i], taken'[x], recvNext'[x])
  BY <1>3, <1>4
<1>7. PacketsSound'
  BY <1>1, <1>2, <1>5, <1>6 DEF PacketsSound, MaySend
<1> QED BY <1>1, <1>2, <1>7

(* Taking the oldest packet leaves the others where they were. *)
LEMMA DequeuedPackets ==
    ASSUME chan \in [Endpoint -> Seq(Segment)],
           NEW e \in Endpoint, chan[e] # <<>>
    PROVE  /\ Dequeued(e) \in [Endpoint -> Seq(Segment)]
           /\ \A x \in Endpoint : \A i \in 1 .. Len(Dequeued(e)[x]) :
                \E j \in 1 .. Len(chan[x]) : Dequeued(e)[x][i] = chan[x][j]
           /\ 1 \in 1 .. Len(chan[e])
           /\ Head(chan[e]) = chan[e][1]
<1>1. /\ Tail(chan[e]) \in Seq(Segment)
      /\ Len(Tail(chan[e])) = Len(chan[e]) - 1
      /\ \A i \in 1 .. Len(Tail(chan[e])) : Tail(chan[e])[i] = chan[e][i + 1]
      /\ Len(chan[e]) \in Nat /\ Len(chan[e]) >= 1 /\ Head(chan[e]) = chan[e][1]
  BY HeadTailProperties
<1>2. /\ Dequeued(e) \in [Endpoint -> Seq(Segment)]
      /\ Dequeued(e)[e] = Tail(chan[e])
      /\ \A x \in Endpoint : x # e => Dequeued(e)[x] = chan[x]
  BY <1>1 DEF Dequeued
<1>3. ASSUME NEW x \in Endpoint, NEW i \in 1 .. Len(Dequeued(e)[x])
      PROVE  \E j \in 1 .. Len(chan[x]) : Dequeued(e)[x][i] = chan[x][j]
  <2>1. CASE x = e
    <3>1. i + 1 \in 1 .. Len(chan[e]) /\ Dequeued(e)[x][i] = chan[e][i + 1]
      BY <2>1, <1>1, <1>2
    <3> QED BY <2>1, <3>1
  <2>2. CASE x # e
    BY <2>2, <1>2
  <2> QED BY <2>1, <2>2
<1> QED BY <1>1, <1>2, <1>3

LEMMA DequeuedSound ==
    ASSUME TransferInv, NEW e \in Endpoint, chan[e] # <<>>
    PROVE  /\ Dequeued(e) \in [Endpoint -> Seq(Segment)]
           /\ \A x \in Endpoint : \A i \in 1 .. Len(Dequeued(e)[x]) :
                \E j \in 1 .. Len(chan[x]) : Dequeued(e)[x][i] = chan[x][j]
           /\ MaySend(Peer(e), Head(chan[e]))
<1>1. chan \in [Endpoint -> Seq(Segment)]
  BY DEF TransferInv, TypeOK
<1>2. 1 \in 1 .. Len(chan[e]) /\ Head(chan[e]) = chan[e][1]
  BY <1>1, DequeuedPackets
<1>3. MaySend(Peer(e), Head(chan[e]))
  BY <1>2 DEF TransferInv, PacketsSound
<1> QED BY <1>1, <1>3, DequeuedPackets

(* With the connection open, NETWORK_DATA only moves data: no state of the *)
(* connection changes, and at most one acknowledgement is sent.            *)
LEMMA OpenHandlePacket ==
    ASSUME TransferInv, NEW e \in Endpoint, phase[e] = "running",
           NEW m, m.flags = {"ACK"}, NEW r, HandlePacket(e, m, r)
    PROVE  /\ sendUnack' = [sendUnack EXCEPT ![e] = r.una]
           /\ sendWind' = [sendWind EXCEPT ![e] = r.wind]
           /\ unackd' = [unackd EXCEPT ![e] = r.list]
           /\ recvNext' = [recvNext EXCEPT ![e] = r.next]
           /\ recvBuf' = [recvBuf EXCEPT ![e] =
                  IF r.size > 0 THEN Slide(r.buf, r.size) ELSE r.buf]
           /\ input' = [input EXCEPT ![e] =
                  IF r.size > 0 THEN @ \o Delivered(r.buf, r.size) ELSE @]
           /\ \/ Transmit(e, Header({"ACK"}, sendNext[e], r.next), Dequeued(e))
              \/ NoTransmit(Dequeued(e))
           /\ cstate' = [cstate EXCEPT ![e] = "ESTABLISHED"]
           /\ phase' = [phase EXCEPT ![e] = IF r.size > WINLEN THEN "crashed" ELSE @]
           /\ eof' = [eof EXCEPT ![e] = FALSE]
<1> DEFINE acked == IF "ACK" \in m.flags THEN AfterAck(cstate[e])
                    ELSE cstate[e]
           left  == acked = "CLOSED" /\ cstate[e] # "CLOSED"
           fin   == "FIN" \in m.flags /\ ~left
           state == IF fin THEN AfterFin(acked) ELSE acked
           over  == state = "CLOSED" /\ cstate[e] # "CLOSED"
<1>1. cstate[e] = "ESTABLISHED" /\ ~eof[e]
  BY DEF TransferInv, StaysOpen
<1>2. acked = "ESTABLISHED"
  BY <1>1 DEF AfterAck
<1>3. ~fin /\ state = "ESTABLISHED" /\ ~over
  BY <1>2
<1>4. /\ Accept(e, r)
      /\ recvNext' = [recvNext EXCEPT ![e] = IF fin THEN r.next + 1 ELSE r.next]
      /\ recvBuf' = [recvBuf EXCEPT ![e] =
             IF r.size > 0 THEN Slide(r.buf, r.size) ELSE r.buf]
      /\ input' = [input EXCEPT ![e] =
             IF r.size > 0 /\ ~eof[e] THEN @ \o Delivered(r.buf, r.size)
             ELSE @]
      /\ IF r.size > 0 \/ r.size = OldData \/ fin
         THEN Transmit(e, Header({"ACK"}, sendNext[e],
                                 IF fin THEN r.next + 1 ELSE r.next),
                       Dequeued(e))
         ELSE NoTransmit(Dequeued(e))
      /\ cstate' = [cstate EXCEPT ![e] = state]
      /\ phase' = [phase EXCEPT ![e] =
             IF r.size > WINLEN THEN "crashed"
             ELSE IF over THEN "exited" ELSE @]
      /\ eof' = [eof EXCEPT ![e] =
             @ \/ over \/ (fin /\ acked \in {"ESTABLISHED", "FIN_WAIT1"})]
  BY DEF HandlePacket
<1> HIDE DEF acked, left, fin, state, over
<1>5. eof' = [eof EXCEPT ![e] = FALSE]
  BY <1>1, <1>3, <1>4
<1>6. \/ Transmit(e, Header({"ACK"}, sendNext[e], r.next), Dequeued(e))
      \/ NoTransmit(Dequeued(e))
  BY <1>3, <1>4
<1> QED BY <1>1, <1>3, <1>4, <1>5, <1>6 DEF Accept

(* What recv_packet() finds complete at the start of the buffer are the    *)
(* next bytes of the stream.                                               *)
LEMMA DeliveredBytes ==
    ASSUME TransferInv, NEW e \in Endpoint, NEW m, NEW r, RecvSound(e, m, r),
           r.size > 0
    PROVE  /\ Delivered(r.buf, r.size) =
                 [i \in 1 .. r.size |-> Len(input[e]) + i]
           /\ Len(input[e]) + r.size <= taken[Peer(e)]
<1> DEFINE L == Len(input[e])
<1>1. /\ r.size \in Int /\ r.size <= WINLEN /\ WINLEN \in Nat
      /\ L \in Nat
  BY SizesAssumption DEF RecvSound, TransferInv, TypeOK
<1>2. \A i \in 1 .. r.size : i - 1 \in Slot /\ i - 1 \in 0 .. r.size - 1
  BY <1>1 DEF Slot
<1>3. ASSUME NEW i \in 1 .. r.size
      PROVE  r.buf[i - 1] = L + i /\ L + i <= taken[Peer(e)]
  <2>1. r.buf[i - 1] # NoByte
    BY <1>2 DEF RecvSound
  <2>2. r.buf[i - 1] = L + (i - 1) + 1 /\ r.buf[i - 1] <= taken[Peer(e)]
    BY <2>1, <1>2 DEF RecvSound
  <2>3. r.buf[i - 1] = L + i
    BY <2>2, <1>1
  <2> QED BY <2>2, <2>3
<1>4. r.size \in 1 .. r.size
  BY <1>1
<1> QED BY <1>1, <1>3, <1>4 DEF Delivered

LEMMA NetworkDataInv ==
    ASSUME ~LongRto, TransferInv, NEW e \in Endpoint, NetworkData(e)
    PROVE  TransferInv'
<1> DEFINE m == Head(chan[e])
           L == Len(input[e])
<1>1. phase[e] = "running" /\ chan[e] # <<>>
  BY DEF NetworkData, AtTop
<1>2. /\ Dequeued(e) \in [Endpoint -> Seq(Segment)]
      /\ \A x \in Endpoint : \A i \in 1 .. Len(Dequeued(e)[x]) :
           \E j \in 1 .. Len(chan[x]) : Dequeued(e)[x][i] = chan[x][j]
      /\ MaySend(Peer(e), m)
  BY <1>1, DequeuedSound
<1>3. m.flags = {"ACK"} /\ cstate[e] = "ESTABLISHED" /\ ~eof[e]
  BY <1>1, <1>2 DEF MaySend, SentBy, TransferInv, StaysOpen
<1>4. PICK r \in RecvPacket(e, m) : HandlePacket(e, m, r)
  BY DEF NetworkData
<1>5. UNCHANGED <<sendNext, resend, outVars>>
  BY DEF NetworkData
<1>6. RecvSound(e, m, r)
  BY <1>2, RecvPacketSound
<1>7. /\ sendUnack' = [sendUnack EXCEPT ![e] = r.una]
      /\ sendWind' = [sendWind EXCEPT ![e] = r.wind]
      /\ unackd' = [unackd EXCEPT ![e] = r.list]
      /\ recvNext' = [recvNext EXCEPT ![e] = r.next]
      /\ recvBuf' = [recvBuf EXCEPT ![e] =
             IF r.size > 0 THEN Slide(r.buf, r.size) ELSE r.buf]
      /\ input' = [input EXCEPT ![e] =
             IF r.size > 0 THEN @ \o Delivered(r.buf, r.size) ELSE @]
      /\ \/ Transmit(e, Header({"ACK"}, sendNext[e], r.next), Dequeued(e))
         \/ NoTransmit(Dequeued(e))
      /\ cstate' = [cstate EXCEPT ![e] = "ESTABLISHED"]
      /\ phase' = [phase EXCEPT ![e] = IF r.size > WINLEN THEN "crashed" ELSE @]
      /\ eof' = [eof EXCEPT ![e] = FALSE]
  BY <1>1, <1>3, <1>4, OpenHandlePacket
<1> HIDE DEF m
<1>8. r.size \in Int /\ r.size <= WINLEN /\ WINLEN \in Nat
  BY <1>6, SizesAssumption DEF RecvSound
<1>9. /\ recvNext \in [Endpoint -> Nat] /\ taken \in [Endpoint -> Nat]
      /\ sendNext \in [Endpoint -> Nat] /\ sendUnack \in [Endpoint -> Nat]
      /\ input \in [Endpoint -> Seq(Int)]
      /\ unackd \in [Endpoint -> Seq(PacketRecord)]
      /\ recvBuf \in [Endpoint -> [Slot -> Nat]]
      /\ sendWind \in [Endpoint -> 0 .. WINLEN]
      /\ phase \in [Endpoint -> Phase]
      /\ cstate \in [Endpoint -> CState]
      /\ eof \in [Endpoint -> BOOLEAN]
  BY DEF TransferInv, TypeOK
<1>10. L \in Nat /\ Peer(e) \in Endpoint /\ Peer(e) # e /\ Peer(Peer(e)) = e
  BY <1>9, PeerType
<1>11. /\ recvNext[e] = ISN[Peer(e)] + 1 + L
       /\ L <= taken[Peer(e)]
       /\ recvNext[Peer(e)] \in Nat /\ recvNext[e] \in Nat
       /\ taken[Peer(e)] \in Nat /\ ISN[Peer(e)] \in Nat
  BY <1>9, <1>10, SizesAssumption DEF TransferInv, NumbersSound
<1> DEFINE d == IF r.size > 0 THEN r.size ELSE 0
<1>12. d \in 0 .. WINLEN /\ r.next = recvNext[e] + d
  BY <1>6, <1>8 DEF RecvSound
(* What the application has been given afterwards. *)
<1>13. /\ input'[e] \in Seq(Int)
       /\ Len(input'[e]) = L + d
       /\ \A i \in 1 .. L + d : input'[e][i] = i
       /\ L + d <= taken[Peer(e)]
  <2>1. \A i \in 1 .. L : input[e][i] = i
    BY DEF TransferInv, InputSound
  <2>2. CASE r.size > 0
    <3> DEFINE D == Delivered(r.buf, r.size)
    <3>1. input'[e] = input[e] \o D /\ d = r.size
      BY <1>7, <1>9, <2>2
    <3>5. /\ D = [i \in 1 .. r.size |-> L + i]
          /\ L + r.size <= taken[Peer(e)]
      BY <2>2, <1>6, DeliveredBytes
    <3>6. D \in Seq(Int) /\ Len(D) = r.size /\ \A i \in 1 .. r.size : D[i] = L + i
      <4> HIDE DEF D, L
      <4> QED BY <3>5, <1>8, <1>10, <2>2
    <3>7. input[e] \in Seq(Int)
      BY <1>9
    <3> HIDE DEF D
    <3>8. /\ input'[e] \in Seq(Int)
          /\ Len(input'[e]) = L + r.size
      BY <3>1, <3>6, <3>7
    <3>9. ASSUME NEW i \in 1 .. L + r.size PROVE input'[e][i] = i
      <4>1. CASE i <= L
        BY <4>1, <2>1, <3>1, <3>6, <3>7, <1>10
      <4>2. CASE i > L
        <5>1. input'[e][i] = D[i - L] /\ i - L \in 1 .. r.size
          BY <4>2, <3>1, <3>6, <3>7, <1>8, <1>10
        <5> HIDE DEF L
        <5> QED BY <5>1, <3>6, <1>8, <1>10
      <4> QED BY <4>1, <4>2, <1>10
    <3> QED BY <3>1, <3>8, <3>9, <3>5
  <2>3. CASE ~(r.size > 0)
    <3>1. input'[e] = input[e] /\ d = 0
      BY <1>7, <1>9, <2>3
    <3>2. L + d = L
      BY <3>1, <1>10
    <3> QED BY <3>1, <3>2, <2>1, <1>9, <1>11
  <2> QED BY <2>2, <2>3
<1>14. \A x \in Endpoint : x # e => input'[x] = input[x]
  BY <1>7, <1>9
<1> HIDE DEF d
<1>15. InputSound'
  <2> SUFFICES ASSUME NEW x \in Endpoint, NEW i \in 1 .. Len(input'[x])
               PROVE  input'[x][i] = i
    BY DEF InputSound
  <2>1. CASE x = e
    BY <2>1, <1>13
  <2>2. CASE x # e
    BY <2>2, <1>14 DEF TransferInv, InputSound
  <2> QED BY <2>1, <2>2
<1>16. /\ recvNext' \in [Endpoint -> Nat]
       /\ recvNext'[e] = recvNext[e] + d
       /\ \A x \in Endpoint : x # e => recvNext'[x] = recvNext[x]
       /\ \A x \in Endpoint : recvNext[x] <= recvNext'[x]
  <2>1. r.next \in Nat /\ recvNext[e] <= r.next
    BY <1>11, <1>12, <1>8
  <2>2. /\ recvNext' \in [Endpoint -> Nat]
        /\ recvNext'[e] = r.next
        /\ \A x \in Endpoint : x # e => recvNext'[x] = recvNext[x]
    BY <1>7, <1>9, <2>1
  <2>3. ASSUME NEW x \in Endpoint PROVE recvNext[x] <= recvNext'[x]
    <3>1. CASE x = e
      BY <3>1, <2>1, <2>2
    <3>2. CASE x # e
      BY <3>2, <2>2, <1>9
    <3> QED BY <3>1, <3>2
  <2> QED BY <2>1, <2>2, <2>3, <1>12
<1>17. taken' = taken /\ written' = written /\ sendNext' = sendNext
       /\ resend' = resend /\ closed' = closed /\ closeReq' = closeReq
  BY <1>5 DEF outVars
<1>18. NumbersSound'
  <2> SUFFICES ASSUME NEW x \in Endpoint PROVE NumbersSound!(x)'
    BY DEF NumbersSound
  <2>1. NumbersSound!(x)
    BY DEF TransferInv, NumbersSound
  <2>2. /\ sendUnack'[e] = r.una /\ r.una \in Nat /\ r.una <= recvNext[Peer(e)]
        /\ \A y \in Endpoint : y # e => sendUnack'[y] = sendUnack[y]
    BY <1>6, <1>7, <1>9 DEF RecvSound
  <2>3. CASE x = e
    <3>1. recvNext'[e] = ISN[Peer(e)] + 1 + Len(input'[e])
      <4>1. recvNext'[e] = recvNext[e] + d /\ Len(input'[e]) = L + d /\ d \in Nat
        BY <1>12, <1>13, <1>16, <1>8
      <4> HIDE DEF L
      <4> QED BY <4>1, <1>10, <1>11
    <3>2. Len(input'[e]) <= taken[Peer(e)]
      BY <1>13
    <3>3. sendUnack'[e] <= recvNext'[Peer(e)]
      BY <2>2, <1>10, <1>16
    <3> QED BY <2>1, <2>3, <3>1, <3>2, <3>3, <1>17
  <2>4. CASE x # e
    <3>1. Peer(x) = e
      BY <2>4 DEF Peer, Endpoint
    <3>2. sendUnack'[x] <= recvNext'[Peer(x)]
      <4>1. /\ sendUnack'[x] = sendUnack[x] /\ sendUnack[x] <= recvNext[e]
            /\ recvNext[e] <= recvNext'[e]
        BY <2>1, <2>2, <2>4, <3>1, <1>16
      <4>2. sendUnack[x] \in Nat /\ recvNext[e] \in Nat /\ recvNext'[e] \in Nat
        BY <1>9, <1>16
      <4> QED BY <4>1, <4>2, <3>1
    <3>3. recvNext'[x] = recvNext[x] /\ input'[x] = input[x]
      BY <2>4, <1>14, <1>16
    <3> QED BY <2>1, <3>2, <3>3, <1>17
  <2> QED BY <2>3, <2>4
<1>19. /\ recvBuf'[e] \in [Slot -> Nat]
       /\ recvBuf'[e][0] = NoByte
       /\ \A i \in Slot : recvBuf'[e][i] # NoByte =>
             /\ recvBuf'[e][i] = L + d + i + 1
             /\ recvBuf'[e][i] <= taken[Peer(e)]
  <2>1. 0 \in Slot /\ \A i \in Slot : i \in Nat
    BY <1>8, SizesAssumption DEF Slot
  <2>2. CASE r.size > 0
    <3>1. recvBuf'[e] = Slide(r.buf, r.size) /\ d = r.size
      BY <2>2, <1>7, <1>9 DEF d
    <3>2. ASSUME NEW i \in Slot, i + r.size < WINLEN
          PROVE  recvBuf'[e][i] = r.buf[i + r.size] /\ i + r.size \in Slot
      BY <3>1, <3>2, <2>1, <2>2, <1>8 DEF Slide, Slot
    <3>3. ASSUME NEW i \in Slot, ~(i + r.size < WINLEN)
          PROVE  recvBuf'[e][i] = NoByte
      BY <3>1, <3>3 DEF Slide
    <3>4. recvBuf'[e] \in [Slot -> Nat]
      <4>1. \A i \in Slot : recvBuf'[e][i] \in Nat
        BY <3>2, <3>3, <1>6 DEF RecvSound, NoByte
      <4> QED BY <3>1, <4>1 DEF Slide
    <3>5. recvBuf'[e][0] = NoByte
      <4>1. CASE r.size < WINLEN
        <5>1. recvBuf'[e][0] = r.buf[r.size]
          BY <4>1, <3>2, <2>1, <1>8
        <5> QED BY <5>1, <4>1, <2>2, <1>6 DEF RecvSound
      <4>2. CASE ~(r.size < WINLEN)
        BY <4>2, <3>3, <2>1, <1>8
      <4> QED BY <4>1, <4>2
    <3>6. ASSUME NEW i \in Slot, recvBuf'[e][i] # NoByte
          PROVE  /\ recvBuf'[e][i] = L + d + i + 1
                 /\ recvBuf'[e][i] <= taken[Peer(e)]
      <4>1. /\ recvBuf'[e][i] = r.buf[i + r.size] /\ i + r.size \in Slot
            /\ r.buf[i + r.size] # NoByte
        BY <3>2, <3>3, <3>6
      <4>2. /\ r.buf[i + r.size] = L + (i + r.size) + 1
            /\ r.buf[i + r.size] <= taken[Peer(e)]
        BY <4>1, <1>6 DEF RecvSound
      <4>3. L + (i + r.size) + 1 = L + d + i + 1
        <5> HIDE DEF L
        <5> QED BY <3>1, <2>1, <1>8, <1>10
      <4> QED BY <4>1, <4>2, <4>3
    <3> QED BY <3>4, <3>5, <3>6
  <2>3. CASE ~(r.size > 0)
    <3>1. recvBuf'[e] = r.buf /\ d = 0
      BY <2>3, <1>7, <1>9 DEF d
    <3>2. \A i \in Slot : L + d + i + 1 = L + i + 1
      <4> HIDE DEF L
      <4> QED BY <3>1, <2>1, <1>10
    <3>3. r.size <= 0
      BY <2>3, <1>8
    <3> QED BY <3>1, <3>2, <3>3, <1>6 DEF RecvSound
  <2> QED BY <2>2, <2>3
<1>20. BufferSound'
  <2> SUFFICES ASSUME NEW x \in Endpoint
               PROVE  /\ recvBuf'[x][0] = NoByte
                      /\ \A i \in Slot : recvBuf'[x][i] # NoByte =>
                           /\ recvBuf'[x][i] = Len(input'[x]) + i + 1
                           /\ recvBuf'[x][i] <= taken'[Peer(x)]
    BY DEF BufferSound
  <2>1. CASE x = e
    BY <2>1, <1>13, <1>17, <1>19
  <2>2. CASE x # e
    <3>1. recvBuf'[x] = recvBuf[x] /\ input'[x] = input[x]
      BY <2>2, <1>7, <1>9, <1>14
    <3> QED BY <3>1, <1>17 DEF TransferInv, BufferSound
  <2> QED BY <2>1, <2>2
<1>21. /\ unackd' \in [Endpoint -> Seq(PacketRecord)]
       /\ \A x \in Endpoint : \A i \in 1 .. Len(unackd'[x]) :
            SentBy(x, unackd'[x][i].seg, taken'[x], recvNext'[x])
  <2>1. /\ r.list \in Seq(PacketRecord)
        /\ \A i \in 1 .. Len(r.list) :
             \E j \in 1 .. Len(unackd[e]) : r.list[i] = unackd[e][j]
    BY <1>6 DEF RecvSound
  <2>2. /\ unackd' \in [Endpoint -> Seq(PacketRecord)]
        /\ unackd'[e] = r.list
        /\ \A x \in Endpoint : x # e => unackd'[x] = unackd[x]
    BY <2>1, <1>7, <1>9
  <2>3. ASSUME NEW x \in Endpoint, NEW i \in 1 .. Len(unackd'[x])
        PROVE  SentBy(x, unackd'[x][i].seg, taken'[x], recvNext'[x])
    <3>1. \E j \in 1 .. Len(unackd[x]) : unackd'[x][i] = unackd[x][j]
      <4>1. CASE x = e
        BY <4>1, <2>1, <2>2
      <4>2. CASE x # e
        BY <4>2, <2>2
      <4> QED BY <4>1, <4>2
    <3>3. PICK j \in 1 .. Len(unackd[x]) : unackd'[x][i] = unackd[x][j]
      BY <3>1
    <3>2. SentBy(x, unackd[x][j].seg, taken[x], recvNext[x])
      BY DEF TransferInv, PacketsSound, MaySend
    <3> QED BY <3>3, <3>2, <1>9, <1>16, <1>17, SentByMonotone
  <2> QED BY <2>2, <2>3
<1>22. /\ PacketsSound'
       /\ chan' \in [Endpoint -> Seq(Segment)]
       /\ copyBuf' \in [Endpoint -> Seq(Segment)]
       /\ faults' \in 0 .. MaxFaults
  <2>1. taken' \in [Endpoint -> Nat]
        /\ \A x \in Endpoint : taken[x] <= taken'[x] /\ recvNext[x] <= recvNext'[x]
    BY <1>9, <1>16, <1>17
  <2>2. CASE Transmit(e, Header({"ACK"}, sendNext[e], r.next), Dequeued(e))
    <3>1. SentBy(e, Header({"ACK"}, sendNext[e], r.next), taken'[e], recvNext'[e])
      <4>1. /\ sendNext[e] \in Nat /\ r.next \in Nat /\ r.next <= recvNext'[e]
            /\ sendNext[e] = ISN[e] + 1 + taken'[e]
        BY <1>9, <1>11, <1>12, <1>16, <1>17 DEF TransferInv, NumbersSound
      <4> QED BY <4>1 DEF SentBy, Header, MakePacket, Segment
    <3> QED BY <2>1, <2>2, <3>1, <1>2, <1>16, <1>21, TransmitSound
  <2>3. CASE NoTransmit(Dequeued(e))
    BY <2>1, <2>3, <1>2, <1>16, <1>21, NoTransmitSound
  <2> QED BY <2>2, <2>3, <1>7
<1>23. phase' = phase /\ cstate' = cstate /\ eof' = eof
  <2>1. phase' = phase
    BY <1>7, <1>8, <1>9
  <2>2. cstate' = cstate
    BY <1>7, <1>3, <1>9
  <2>3. eof' = eof
    BY <1>7, <1>3, <1>9
  <2> QED BY <2>1, <2>2, <2>3
<1>24. TypeOK'
  <2>1. sendUnack' \in [Endpoint -> Nat] /\ sendWind' \in [Endpoint -> 0 .. WINLEN]
    BY <1>6, <1>7, <1>9 DEF RecvSound
  <2>2. input' \in [Endpoint -> Seq(Int)]
    BY <1>7, <1>9, <1>13, <1>14
  <2>3. recvBuf' \in [Endpoint -> [Slot -> Nat]]
    BY <1>7, <1>9, <1>19
  <2> QED BY <2>1, <2>2, <2>3, <1>16, <1>17, <1>21, <1>22, <1>23
          DEF TransferInv, TypeOK
<1>25. StaysOpen'
  BY <1>23 DEF TransferInv, StaysOpen
<1>26. LoopSound'
  <2> SUFFICES ASSUME NEW x \in Endpoint PROVE resend'[x] <= Len(unackd'[x])
    BY DEF LoopSound
  <2>1. CASE x = e
    <3>1. resend'[e] = 0
      BY <1>17 DEF NetworkData, AtTop
    <3>2. Len(unackd'[e]) \in Nat
      BY <1>21
    <3> QED BY <2>1, <3>1, <3>2
  <2>2. CASE x # e
    <3>1. resend'[x] = resend[x] /\ unackd'[x] = unackd[x]
      BY <2>2, <1>7, <1>9, <1>17
    <3> QED BY <3>1 DEF TransferInv, LoopSound
  <2> QED BY <2>1, <2>2
<1> QED BY <1>15, <1>18, <1>20, <1>22, <1>24, <1>25, <1>26 DEF TransferInv

---------------------------------------------------------------------------
(* The retransmission loop stands at a packet of the list. *)
LEMMA ResendIndex ==
    ASSUME TransferInv, NEW e \in Endpoint, Timeout(e) \/ ResendNext(e)
    PROVE  /\ phase[e] = "running"
           /\ \E i \in 1 .. Len(unackd[e]) : ResendPacket(e, i)
<1>1. Len(unackd[e]) \in Nat /\ unackd[e] \in Seq(PacketRecord)
  BY DEF TransferInv, TypeOK
<1>2. CASE Timeout(e)
  <2>1. phase[e] = "running" /\ unackd[e] # <<>> /\ ResendPacket(e, 1)
    BY <1>2 DEF Timeout, AtTop
  <2>2. 1 \in 1 .. Len(unackd[e])
    BY <2>1, <1>1
  <2> QED BY <2>1, <2>2
<1>3. CASE ResendNext(e)
  <2>1. phase[e] = "running" /\ ResendPacket(e, resend[e])
    BY <1>3 DEF ResendNext
  <2>2. resend[e] \in Nat /\ resend[e] > 0 /\ resend[e] <= Len(unackd[e])
    BY <1>3 DEF ResendNext, TransferInv, TypeOK, LoopSound
  <2>3. resend[e] \in 1 .. Len(unackd[e])
    BY <2>2, <1>1
  <2> QED BY <2>1, <2>3
<1> QED BY <1>2, <1>3

(* Every step of data transfer preserves the invariant. *)
LEMMA NextInv ==
    ASSUME ~LongRto, TransferInv, [TransferNext]_vars
    PROVE  TransferInv'
<1>1. CASE UNCHANGED vars
  <2>1. /\ UNCHANGED <<connVars, sendVars, recvVars, netVars, outVars, inVars>>
    BY <1>1 DEF vars
  <2> QED BY <2>1 DEF connVars, sendVars, recvVars, netVars, outVars, inVars,
             TransferInv, TypeOK, PacketsSound, NumbersSound, BufferSound,
             InputSound, StaysOpen, LoopSound, MaySend
<1>2. CASE TransferNext
  <2>1. PICK e \in Endpoint : Transfer(e) \/ Mywrite(e)
    BY <1>2 DEF TransferNext
  <2>2. CASE AppData(e)
    BY <2>2, AppDataInv
  <2>3. CASE NetworkData(e)
    BY <2>3, NetworkDataInv
  <2>4. CASE Timeout(e) \/ ResendNext(e)
    BY <2>4, ResendIndex, ResendPacketInv
  <2>6. CASE Mywrite(e)
    BY <2>6, MywriteInv
  <2> QED BY <2>1, <2>2, <2>3, <2>4, <2>6 DEF Transfer
<1> QED BY <1>1, <1>2

(* Every reachable state of data transfer is well typed and satisfies the  *)
(* invariant that relates packets, buffers and sequence numbers.           *)
THEOREM TransferInvariant ==
    ASSUME ~LongRto
    PROVE  TransferSafety => []TransferInv
<1>1. TransferInit => TransferInv
  BY InitInv
<1>2. TransferInv /\ [TransferNext]_vars => TransferInv'
  BY NextInv
<1> QED BY <1>1, <1>2, PTL DEF TransferSafety

(* Type correctness of data transfer. *)
THEOREM TypeCorrect ==
    ASSUME ~LongRto
    PROVE  TransferSafety => []TypeOK
<1>1. TransferInv => TypeOK
  BY DEF TransferInv
<1> QED BY <1>1, TransferInvariant, PTL

(* Reliable delivery: however packets are lost, duplicated and held back,  *)
(* recv_packet() and control_loop() hand the application a prefix of what  *)
(* the peer wrote.                                                         *)
THEOREM ReliableStream ==
    ASSUME ~LongRto
    PROVE  TransferSafety => []StreamPrefix
<1>1. TransferInv => StreamPrefix
  <2> SUFFICES ASSUME TransferInv, NEW e \in Endpoint
               PROVE  Len(input[e]) <= written[Peer(e)]
    BY DEF StreamPrefix, TransferInv, InputSound
  <2>1. Len(input[e]) <= taken[Peer(e)] /\ taken[Peer(e)] <= written[Peer(e)]
    BY PeerType DEF TransferInv, NumbersSound
  <2>2. /\ Len(input[e]) \in Nat /\ taken[Peer(e)] \in Nat
        /\ written[Peer(e)] \in Nat
    BY PeerType DEF TransferInv, TypeOK
  <2> QED BY <2>1, <2>2
<1> QED BY <1>1, TransferInvariant, PTL

(* No byte is acknowledged, and so dropped from unackd_packets, before the *)
(* peer's application has it.                                              *)
THEOREM AcknowledgedIsDelivered ==
    ASSUME ~LongRto
    PROVE  TransferSafety => []AckedDelivered
<1>1. TransferInv => AckedDelivered
  <2> SUFFICES ASSUME TransferInv, NEW e \in Endpoint
               PROVE  sendUnack[e] <= ISN[e] + 1 + Len(input[Peer(e)])
    BY DEF AckedDelivered
  <2> QED BY PeerType DEF TransferInv, NumbersSound
<1> QED BY <1>1, TransferInvariant, PTL

---------------------------------------------------------------------------
(* What NumbersAdvance says of a step. *)
Advances == \A e \in Endpoint : /\ sendUnack[e] <= sendUnack'[e]
                                /\ sendNext[e] <= sendNext'[e]
                                /\ recvNext[e] <= recvNext'[e]

(* No step of data transfer takes a sequence number back. *)
LEMMA NextAdvances ==
    ASSUME ~LongRto, TransferInv, [TransferNext]_vars
    PROVE  Advances
<1>1. /\ sendUnack \in [Endpoint -> Nat]
      /\ sendNext \in [Endpoint -> Nat]
      /\ recvNext \in [Endpoint -> Nat]
  BY DEF TransferInv, TypeOK
<1>2. CASE UNCHANGED <<sendUnack, sendNext, recvNext>>
  BY <1>1, <1>2 DEF Advances
<1>3. ASSUME NEW e \in Endpoint, AppData(e) PROVE Advances
  <2>1. PICK n \in 1 .. MAXLEN : sendNext' = [sendNext EXCEPT ![e] = @ + n]
    BY <1>3 DEF AppData
  <2>2. UNCHANGED <<sendUnack, recvNext>>
    BY <1>3 DEF AppData, recvVars
  <2>3. n \in Nat
    BY SizesAssumption
  <2> QED BY <1>1, <2>1, <2>2, <2>3 DEF Advances
<1>4. ASSUME NEW e \in Endpoint, NetworkData(e) PROVE Advances
  <2> DEFINE m == Head(chan[e])
  <2>1. PICK r \in RecvPacket(e, m) : HandlePacket(e, m, r)
    BY <1>4 DEF NetworkData
  <2>2. UNCHANGED sendNext
    BY <1>4 DEF NetworkData
  <2>3. MaySend(Peer(e), m)
    BY <1>4, DequeuedSound DEF NetworkData
  <2>4. RecvSound(e, m, r) /\ m.flags = {"ACK"}
    BY <2>3, RecvPacketSound DEF MaySend, SentBy
  <2>5. /\ sendUnack' = [sendUnack EXCEPT ![e] = r.una]
        /\ recvNext' = [recvNext EXCEPT ![e] = r.next]
    BY <2>1, <2>4 DEF HandlePacket, Accept
  <2>6. /\ r.una \in Nat /\ sendUnack[e] <= r.una
        /\ r.next \in Nat /\ recvNext[e] <= r.next
    BY <2>4, <1>1 DEF RecvSound
  <2> QED BY <1>1, <2>2, <2>5, <2>6 DEF Advances
<1>5. ASSUME NEW e \in Endpoint, Timeout(e) \/ ResendNext(e) \/ Mywrite(e)
      PROVE  UNCHANGED <<sendUnack, sendNext, recvNext>>
  BY <1>5 DEF Timeout, ResendNext, ResendPacket, Mywrite, sendVars, recvVars
<1>6. UNCHANGED vars => UNCHANGED <<sendUnack, sendNext, recvNext>>
  BY DEF vars, sendVars, recvVars
<1> QED BY <1>2, <1>3, <1>4, <1>5, <1>6 DEF TransferNext, Transfer

(* The sequence numbers of a context only grow, although acknowledgements  *)
(* and data arrive late, twice and out of order (recv_packet()).           *)
THEOREM SequenceNumbersAdvance ==
    ASSUME ~LongRto
    PROVE  TransferSafety => NumbersAdvance
<1>1. TransferInv /\ [TransferNext]_vars => [Advances]_vars
  BY NextAdvances
<1>2. TransferSafety => [][Advances]_vars
  BY <1>1, TransferInvariant, PTL DEF TransferSafety
<1>3. [][Advances]_vars => NumbersAdvance
  BY PTL DEF Advances, NumbersAdvance
<1> QED BY <1>2, <1>3, PTL

-----------------------------------------------------------------------------
(* What the retransmission list keeps, what the window bounds, and that    *)
(* the two transport layers implement the byte streams of ByteStream.      *)

(* Segment m carries byte b. *)
Carries(m, b) == m.seq <= b /\ b < m.seq + m.len

(* The part of Retained that is inductive: every byte that has been sent   *)
(* and not acknowledged is in a packet of the retransmission list.         *)
Kept ==
    \A e \in Endpoint : \A b \in sendUnack[e] .. sendNext[e] - 1 :
        \E i \in 1 .. Len(unackd[e]) : Carries(unackd[e][i].seg, b)

(* A list that covers what is outstanding is not empty when its head is    *)
(* read for the timer.                                                     *)
LEMMA KeptIsRetained ==
    ASSUME TransferInv
    PROVE  Kept <=> Retained
<1>1. ASSUME NEW e \in Endpoint
      PROVE  /\ DOMAIN unackd[e] = 1 .. Len(unackd[e])
             /\ sendUnack[e] \in Nat /\ sendNext[e] \in Nat
             /\ phase[e] # "handshake"
  <2>1. unackd[e] \in Seq(PacketRecord)
    BY DEF TransferInv, TypeOK
  <2>2. phase[e] \in {"running", "exited"}
    BY DEF TransferInv, StaysOpen
  <2>3. sendUnack[e] \in Nat /\ sendNext[e] \in Nat
    BY DEF TransferInv, TypeOK
  <2> QED BY <2>1, <2>2, <2>3
<1>2. ASSUME Kept, NEW e \in Endpoint PROVE ~NullHead(e)
  <2> SUFFICES ASSUME unackd[e] = <<>>, TimerSet(e) PROVE FALSE
    BY <1>1 DEF NullHead
  <2>1. sendUnack[e] \in sendUnack[e] .. sendNext[e] - 1
    BY <1>1 DEF TimerSet
  <2>2. 1 .. Len(unackd[e]) = {}
    OBVIOUS
  <2> QED BY <1>2, <2>1, <2>2 DEF Kept
<1> QED BY <1>1, <1>2 DEF Kept, Retained, Carries

LEMMA KeptInit == TransferInit => Kept
<1> SUFFICES ASSUME TransferInit, NEW e \in Endpoint,
                    NEW b \in sendUnack[e] .. sendNext[e] - 1
             PROVE  FALSE
  BY DEF Kept
<1>1. sendUnack[e] = ISN[e] + 1 /\ sendNext[e] = ISN[e] + 1 /\ ISN[e] \in Nat
  BY SizesAssumption DEF TransferInit
<1> QED BY <1>1

(* packet_t_remove() drops only packets that are acknowledged to the last  *)
(* byte: recv_packet() leaves every other one in the list.                 *)
LEMMA RecvPacketKeeps ==
    ASSUME ~LongRto, TransferInv, NEW e \in Endpoint,
           NEW m, MaySend(Peer(e), m), NEW r \in RecvPacket(e, m),
           NEW j \in 1 .. Len(unackd[e]),
           r.una < unackd[e][j].seg.seq + unackd[e][j].seg.len
    PROVE  \E i \in 1 .. Len(r.list) : r.list[i] = unackd[e][j]
<1> DEFINE u == unackd[e]
           una == AckOf(m, sendUnack[e])
<1>1. u \in Seq(PacketRecord) /\ Len(u) \in Nat
  BY DEF TransferInv, TypeOK
<1>2. CASE IsBeyond(m, recvNext[e])
  <2>1. r.list = u
    BY <1>2 DEF RecvPacket
  <2> QED BY <2>1
<1>3. CASE ~IsBeyond(m, recvNext[e])
  <2>1. PICK k \in AckedCount(u, una) :
          r.list = SubSeq(u, k + 1, Len(u)) /\ r.una = una
    BY <1>3 DEF RecvPacket
  <2>2. /\ k \in 0 .. Len(u)
        /\ \A i \in 1 .. k : una >= u[i].seg.seq + u[i].seg.len
    BY <2>1 DEF AckedCount
  <2>3. u[j].seg.seq \in Nat /\ u[j].seg.len \in Nat /\ r.una \in Nat
    <3>1. u[j] \in PacketRecord
      BY <1>1
    <3>2. r.una \in Nat
      BY RecvPacketSound DEF RecvSound
    <3> QED BY <3>1, <3>2 DEF PacketRecord, Segment
  <2>4. j > k
    <3> SUFFICES ASSUME j \in 1 .. k PROVE FALSE
      BY <2>2, <1>1
    <3>1. r.una >= u[j].seg.seq + u[j].seg.len
      BY <2>1, <2>2
    <3> QED BY <3>1, <2>3
  <2>5. /\ Len(SubSeq(u, k + 1, Len(u))) = Len(u) - k
        /\ SubSeq(u, k + 1, Len(u))[j - k] = u[j]
        /\ j - k \in 1 .. Len(u) - k
    <3> HIDE DEF u, una
    <3>1. \A i \in k + 1 .. Len(u) : u[i] \in PacketRecord
      BY <1>1, <2>2
    <3>2. /\ Len(SubSeq(u, k + 1, Len(u))) =
               IF k + 1 <= Len(u) THEN Len(u) - (k + 1) + 1 ELSE 0
          /\ \A i \in 1 .. Len(u) - (k + 1) + 1 :
               SubSeq(u, k + 1, Len(u))[i] = u[(k + 1) + i - 1]
      BY <3>1, <2>2, <1>1, SubSeqProperties
    <3>3. j \in 1 .. Len(u)
      BY DEF u
    <3> QED BY <3>2, <3>3, <2>2, <2>4, <1>1
  <2> QED BY <2>1, <2>5
<1> QED BY <1>2, <1>3

LEMMA KeptAppData ==
    ASSUME TransferInv, Kept, NEW e \in Endpoint, AppData(e)
    PROVE  Kept'
<1> DEFINE pkt(n) == MakePacket({"ACK"}, sendNext[e], recvNext[e], taken[e], n)
<1>1. PICK n \in 1 .. MAXLEN :
        /\ sendNext' = [sendNext EXCEPT ![e] = @ + n]
        /\ unackd' = [unackd EXCEPT ![e] = Append(@, PacketT(pkt(n)))]
        /\ UNCHANGED sendUnack
  BY DEF AppData
<1>2. /\ n \in Nat
      /\ \A x \in Endpoint : /\ sendNext[x] \in Nat /\ sendUnack[x] \in Nat
                             /\ unackd[x] \in Seq(PacketRecord)
                             /\ Len(unackd[x]) \in Nat
      /\ sendNext \in [Endpoint -> Nat]
      /\ unackd \in [Endpoint -> Seq(PacketRecord)]
  BY SizesAssumption DEF TransferInv, TypeOK
<1>3. ASSUME NEW x \in Endpoint, NEW b \in sendUnack[x] .. sendNext[x] - 1
      PROVE  \E i \in 1 .. Len(unackd'[x]) : Carries(unackd'[x][i].seg, b)
  <2>1. PICK i \in 1 .. Len(unackd[x]) : Carries(unackd[x][i].seg, b)
    BY <1>3 DEF Kept
  <2>2. i \in 1 .. Len(unackd'[x]) /\ unackd'[x][i] = unackd[x][i]
    <3>1. CASE x = e
      <4>1. unackd'[e] = Append(unackd[e], PacketT(pkt(n)))
        BY <1>1, <1>2
      <4>2. /\ Len(unackd'[e]) = Len(unackd[e]) + 1
            /\ \A k \in 1 .. Len(unackd[e]) : unackd'[e][k] = unackd[e][k]
        BY <4>1, <1>2
      <4> QED BY <3>1, <4>2, <1>2
    <3>2. CASE x # e
      BY <3>2, <1>1, <1>2
    <3> QED BY <3>1, <3>2
  <2> QED BY <2>1, <2>2
<1>4. ASSUME NEW b \in sendNext[e] .. sendNext[e] + n - 1
      PROVE  \E i \in 1 .. Len(unackd'[e]) : Carries(unackd'[e][i].seg, b)
  <2>1. unackd'[e] = Append(unackd[e], PacketT(pkt(n)))
    BY <1>1, <1>2
  <2>2. /\ Len(unackd[e]) + 1 \in 1 .. Len(unackd'[e])
        /\ unackd'[e][Len(unackd[e]) + 1] = PacketT(pkt(n))
    BY <2>1, <1>2
  <2>3. Carries(PacketT(pkt(n)).seg, b)
    BY <1>2 DEF Carries, PacketT, MakePacket
  <2> QED BY <2>2, <2>3
<1> SUFFICES ASSUME NEW x \in Endpoint, NEW b \in sendUnack'[x] .. sendNext'[x] - 1
             PROVE  \E i \in 1 .. Len(unackd'[x]) : Carries(unackd'[x][i].seg, b)
  BY DEF Kept
<1>5. CASE x # e
  <2>1. b \in sendUnack[x] .. sendNext[x] - 1
    BY <1>5, <1>1, <1>2
  <2> QED BY <2>1, <1>3
<1>6. CASE x = e
  <2>1. sendNext'[e] = sendNext[e] + n /\ sendUnack'[e] = sendUnack[e]
    BY <1>1, <1>2
  <2>2. \/ b \in sendUnack[e] .. sendNext[e] - 1
        \/ b \in sendNext[e] .. sendNext[e] + n - 1
    BY <1>6, <2>1, <1>2
  <2> QED BY <1>6, <2>2, <1>3, <1>4
<1> QED BY <1>5, <1>6

LEMMA KeptNetworkData ==
    ASSUME ~LongRto, TransferInv, Kept, NEW e \in Endpoint, NetworkData(e)
    PROVE  Kept'
<1> DEFINE m == Head(chan[e])
<1>1. PICK r \in RecvPacket(e, m) : HandlePacket(e, m, r)
  BY DEF NetworkData
<1>2. MaySend(Peer(e), m)
  BY DequeuedSound DEF NetworkData
<1>3. RecvSound(e, m, r)
  BY <1>2, RecvPacketSound
<1>4. /\ sendUnack' = [sendUnack EXCEPT ![e] = r.una]
      /\ unackd' = [unackd EXCEPT ![e] = r.list]
      /\ sendNext' = sendNext
  BY <1>1 DEF HandlePacket, Accept, NetworkData
<1>5. /\ \A x \in Endpoint : sendNext[x] \in Nat /\ sendUnack[x] \in Nat
      /\ sendUnack \in [Endpoint -> Nat]
      /\ unackd \in [Endpoint -> Seq(PacketRecord)]
      /\ r.una \in Nat /\ sendUnack[e] <= r.una
  BY <1>3 DEF TransferInv, TypeOK, RecvSound
<1> SUFFICES ASSUME NEW x \in Endpoint, NEW b \in sendUnack'[x] .. sendNext'[x] - 1
             PROVE  \E i \in 1 .. Len(unackd'[x]) : Carries(unackd'[x][i].seg, b)
  BY DEF Kept
<1>6. b \in sendUnack[x] .. sendNext[x] - 1 /\ (x = e => r.una <= b)
  BY <1>4, <1>5
<1>7. PICK j \in 1 .. Len(unackd[x]) : Carries(unackd[x][j].seg, b)
  BY <1>6 DEF Kept
<1>8. CASE x # e
  BY <1>4, <1>5, <1>7, <1>8
<1>9. CASE x = e
  <2>1. unackd[e][j] \in PacketRecord
    BY <1>5, <1>7, <1>9
  <2>2. r.una < unackd[e][j].seg.seq + unackd[e][j].seg.len
    <3>1. unackd[e][j].seg.seq \in Nat /\ unackd[e][j].seg.len \in Nat
      BY <2>1 DEF PacketRecord, Segment
    <3>2. r.una <= b /\ b < unackd[e][j].seg.seq + unackd[e][j].seg.len
      BY <1>6, <1>7, <1>9 DEF Carries
    <3>3. r.una \in Nat /\ b \in Int
      BY <1>5, <1>6
    <3> QED BY <3>1, <3>2, <3>3
  <2>3. \E i \in 1 .. Len(r.list) : r.list[i] = unackd[e][j]
    BY <2>2, <1>2, <1>7, <1>9, RecvPacketKeeps
  <2>4. unackd'[e] = r.list
    BY <1>4, <1>5
  <2> QED BY <2>3, <2>4, <1>7, <1>9
<1> QED BY <1>8, <1>9

LEMMA KeptResendPacket ==
    ASSUME TransferInv, Kept, NEW e \in Endpoint, NEW i \in 1 .. Len(unackd[e]),
           ResendPacket(e, i)
    PROVE  Kept'
<1> DEFINE p == [seg   |-> [unackd[e][i].seg EXCEPT !.ack = recvNext[e]],
                 retry |-> unackd[e][i].retry + 1]
<1>1. /\ unackd' = [unackd EXCEPT ![e] = [unackd[e] EXCEPT ![i] = p]]
      /\ UNCHANGED <<sendUnack, sendNext>>
  BY DEF ResendPacket
<1>2. unackd \in [Endpoint -> Seq(PacketRecord)]
  BY DEF TransferInv, TypeOK
<1>3. unackd[e][i] \in PacketRecord
  BY <1>2
<1>4. p.seg.seq = unackd[e][i].seg.seq /\ p.seg.len = unackd[e][i].seg.len
  BY <1>3 DEF PacketRecord, Segment
<1> HIDE DEF p
<1>5. ASSUME NEW x \in Endpoint, NEW j \in 1 .. Len(unackd[x])
      PROVE  /\ j \in 1 .. Len(unackd'[x])
             /\ unackd'[x][j].seg.seq = unackd[x][j].seg.seq
             /\ unackd'[x][j].seg.len = unackd[x][j].seg.len
  <2>1. CASE x = e
    <3>1. unackd'[e] = [unackd[e] EXCEPT ![i] = p]
      BY <1>1, <1>2
    <3>2. /\ unackd[e] \in Seq(PacketRecord)
          /\ Len(unackd'[e]) = Len(unackd[e])
          /\ unackd'[e][j] = IF j = i THEN p ELSE unackd[e][j]
      BY <2>1, <3>1, <1>2, <1>5
    <3> QED BY <2>1, <3>2, <1>4
  <2>2. CASE x # e
    BY <2>2, <1>1, <1>2
  <2> QED BY <2>1, <2>2
<1>6. ASSUME NEW x \in Endpoint, NEW b \in sendUnack[x] .. sendNext[x] - 1
      PROVE  \E j \in 1 .. Len(unackd'[x]) : Carries(unackd'[x][j].seg, b)
  BY <1>5 DEF Kept, Carries
<1> QED BY <1>1, <1>6 DEF Kept

LEMMA KeptStep ==
    ASSUME ~LongRto, TransferInv, Kept, [TransferNext]_vars
    PROVE  Kept'
<1>1. ASSUME UNCHANGED <<sendUnack, sendNext, unackd>> PROVE Kept'
  BY <1>1 DEF Kept
<1>2. UNCHANGED vars => UNCHANGED <<sendUnack, sendNext, unackd>>
  BY DEF vars, sendVars
<1>3. ASSUME NEW e \in Endpoint, Mywrite(e)
      PROVE  UNCHANGED <<sendUnack, sendNext, unackd>>
  BY <1>3 DEF Mywrite, sendVars
<1>4. ASSUME NEW e \in Endpoint, Timeout(e) \/ ResendNext(e) PROVE Kept'
  BY <1>4, ResendIndex, KeptResendPacket
<1> QED BY <1>1, <1>2, <1>3, <1>4, KeptAppData, KeptNetworkData
        DEF TransferNext, Transfer

(* The retransmission list always holds every byte between send_unack and  *)
(* send_next, so a timeout can repair any loss, and the timer never reads  *)
(* the head of an empty list (packet_t_remove(), control_loop()).          *)
THEOREM OutstandingRetained ==
    ASSUME ~LongRto
    PROVE  TransferSafety => []Retained
<1>1. TransferInit => Kept
  BY KeptInit
<1>2. TransferInv /\ Kept /\ [TransferNext]_vars => Kept'
  BY KeptStep
<1>3. TransferInv /\ Kept => Retained
  BY KeptIsRetained
<1> QED BY <1>1, <1>2, <1>3, TransferInvariant, PTL DEF TransferSafety

---------------------------------------------------------------------------
(* The part of WithinWindow that is inductive: the bytes in flight. *)
Flight == \A e \in Endpoint : sendNext[e] - sendUnack[e] <= WINLEN

LEMMA FlightInit == TransferInit => Flight
<1> SUFFICES ASSUME TransferInit, NEW e \in Endpoint
             PROVE  sendNext[e] - sendUnack[e] <= WINLEN
  BY DEF Flight
<1>1. sendUnack[e] = ISN[e] + 1 /\ sendNext[e] = ISN[e] + 1
  BY DEF TransferInit
<1>2. ISN[e] \in Nat /\ WINLEN \in Nat
  BY SizesAssumption
<1> QED BY <1>1, <1>2

(* send_wind never exceeds WINLEN, and send_unack only grows. *)
LEMMA FlightStep ==
    ASSUME ~LongRto, TransferInv, Flight, [TransferNext]_vars
    PROVE  Flight'
<1>1. /\ sendNext \in [Endpoint -> Nat] /\ sendUnack \in [Endpoint -> Nat]
      /\ sendNext' \in [Endpoint -> Nat] /\ sendUnack' \in [Endpoint -> Nat]
      /\ sendWind \in [Endpoint -> 0 .. WINLEN]
      /\ WINLEN \in Nat
  BY NextInv, SizesAssumption DEF TransferInv, TypeOK
<1>2. ASSUME NEW e \in Endpoint, AppData(e) PROVE Flight'
  <2>1. PICK n \in 1 .. MAXLEN :
          /\ n <= sendWind[e] - (sendNext[e] - sendUnack[e])
          /\ sendNext' = [sendNext EXCEPT ![e] = @ + n]
          /\ sendUnack' = sendUnack
    BY <1>2 DEF AppData, OpenWindow
  <2>2. n \in Nat
    BY SizesAssumption
  <2>3. sendNext[e] + n - sendUnack[e] <= WINLEN
    BY <2>1, <2>2, <1>1
  <2> QED BY <2>1, <2>3, <1>1 DEF Flight
<1>3. ASSUME sendNext' = sendNext PROVE Flight'
  <2> SUFFICES ASSUME NEW e \in Endpoint
               PROVE  sendNext'[e] - sendUnack'[e] <= WINLEN
    BY DEF Flight
  <2>1. sendUnack[e] <= sendUnack'[e]
    BY NextAdvances DEF Advances
  <2>2. sendNext[e] - sendUnack[e] <= WINLEN
    BY DEF Flight
  <2> QED BY <2>1, <2>2, <1>1, <1>3
<1>4. ASSUME NEW e \in Endpoint,
             NetworkData(e) \/ Timeout(e) \/ ResendNext(e) \/ Mywrite(e)
      PROVE  sendNext' = sendNext
  BY <1>4 DEF NetworkData, Timeout, ResendNext, ResendPacket, Mywrite, sendVars
<1>5. UNCHANGED vars => sendNext' = sendNext
  BY DEF vars, sendVars
<1> QED BY <1>2, <1>3, <1>4, <1>5 DEF TransferNext, Transfer

(* Neither the sender nor the packets on the way, old and held back ones   *)
(* included, ever run past the window of the receiver: recv_packet() never *)
(* refuses a packet (IsBeyond) nor cuts one.                               *)
THEOREM WindowRespected ==
    ASSUME ~LongRto
    PROVE  TransferSafety => []WithinWindow
<1>1. TransferInit => Flight
  BY FlightInit
<1>2. TransferInv /\ Flight /\ [TransferNext]_vars => Flight'
  BY FlightStep
<1>3. TransferInv /\ Flight => WithinWindow
  <2> SUFFICES ASSUME TransferInv, Flight, NEW e \in Endpoint
               PROVE  WithinWindow!(e)
    BY DEF WithinWindow
  <2>1. sendNext[e] - sendUnack[e] <= WINLEN
    BY DEF Flight
  <2>2. ASSUME NEW i \in DOMAIN chan[Peer(e)]
        PROVE  chan[Peer(e)][i].seq + chan[Peer(e)][i].len - recvNext[Peer(e)]
                 <= WINLEN
    <3> DEFINE m == chan[Peer(e)][i]
    <3>1. Peer(e) \in Endpoint /\ Peer(Peer(e)) = e
      BY PeerType
    <3>2. chan[Peer(e)] \in Seq(Segment)
      BY <3>1 DEF TransferInv, TypeOK
    <3>3. i \in 1 .. Len(chan[Peer(e)])
      BY <3>2
    <3>4. SentBy(e, m, taken[e], recvNext[e])
      BY <3>1, <3>3 DEF TransferInv, PacketsSound, MaySend
    <3>5. m.seq + m.len <= sendNext[e] /\ m.seq \in Nat /\ m.len \in Nat
      BY <3>4 DEF SentBy, Segment, TransferInv, NumbersSound
    <3>6. sendUnack[e] <= recvNext[Peer(e)]
      BY DEF TransferInv, NumbersSound
    <3>7. /\ sendUnack[e] \in Nat /\ sendNext[e] \in Nat
          /\ recvNext[Peer(e)] \in Nat /\ WINLEN \in Nat
      BY <3>1, SizesAssumption DEF TransferInv, TypeOK
    <3> HIDE DEF m
    <3>8. m.seq + m.len - recvNext[Peer(e)] <= WINLEN
      BY <2>1, <3>5, <3>6, <3>7
    <3> QED BY <3>8 DEF m
  <2> QED BY <2>1, <2>2
<1> QED BY <1>1, <1>2, <1>3, TransferInvariant, PTL DEF TransferSafety
---------------------------------------------------------------------------
(* The refinement of ByteStream: what the applications write is offered,   *)
(* what stcp_app_send() hands them is delivered, and a side gives up when  *)
(* its loop ends.                                                          *)
GaveUp == [e \in Endpoint |-> phase[e] = "exited"]

LEMMA StreamStarts == TransferInit => Stream!StreamInit
BY DEF TransferInit, Stream!StreamInit

(* A step that changes none of them is a stutter of the streams. *)
LEMMA StreamStutters ==
    ASSUME UNCHANGED <<phase, written, input>>
    PROVE  UNCHANGED Stream!streamVars
BY DEF Stream!streamVars

LEMMA MywriteOffers ==
    ASSUME TransferInv, NEW e \in Endpoint, Mywrite(e)
    PROVE  Stream!Offer(e)
<1>1. PICK n \in 1 .. MaxBytes[e] : written' = [written EXCEPT ![e] = @ + n]
  BY DEF Mywrite
<1>2. UNCHANGED <<phase, input>>
  BY DEF Mywrite, connVars, inVars
<1>3. written \in [Endpoint -> Nat] /\ n \in Nat /\ n > 0
  BY SizesAssumption DEF TransferInv, TypeOK
<1>4. /\ written'[e] > written[e]
      /\ written' = [written EXCEPT ![e] = written'[e]]
  BY <1>1, <1>3
<1> QED BY <1>2, <1>4 DEF Stream!Offer

(* What the receive buffer releases is the next part of what the peer's    *)
(* application has written, and its transport layer taken.                 *)
LEMMA NetworkDataDelivers ==
    ASSUME ~LongRto, TransferInv, NEW e \in Endpoint, NetworkData(e)
    PROVE  Stream!Deliver(e) \/ UNCHANGED Stream!streamVars
<1> DEFINE m == Head(chan[e])
           L == Len(input[e])
<1>1. PICK r \in RecvPacket(e, m) : HandlePacket(e, m, r)
  BY DEF NetworkData
<1>2. MaySend(Peer(e), m) /\ phase[e] = "running"
  BY DequeuedSound DEF NetworkData, AtTop
<1>3. RecvSound(e, m, r) /\ m.flags = {"ACK"}
  BY <1>2, RecvPacketSound DEF MaySend, SentBy
<1>4. /\ input' = [input EXCEPT ![e] =
             IF r.size > 0 THEN @ \o Delivered(r.buf, r.size) ELSE @]
      /\ phase' = [phase EXCEPT ![e] = IF r.size > WINLEN THEN "crashed" ELSE @]
  BY <1>1, <1>2, <1>3, OpenHandlePacket
<1>5. /\ r.size \in Int /\ r.size <= WINLEN /\ WINLEN \in Nat
      /\ phase \in [Endpoint -> Phase] /\ input \in [Endpoint -> Seq(Int)]
  <2>1. r.size \in Int /\ r.size <= WINLEN
    BY <1>3, SizesAssumption DEF RecvSound
  <2>2. phase \in [Endpoint -> Phase] /\ input \in [Endpoint -> Seq(Int)]
    BY DEF TransferInv, TypeOK
  <2> QED BY <2>1, <2>2, SizesAssumption
<1>6. UNCHANGED <<phase, written>>
  <2>1. written' = written
    BY DEF NetworkData, outVars
  <2>2. phase' = phase
    BY <1>4, <1>5
  <2> QED BY <2>1, <2>2
<1>7. CASE r.size > 0
  <2>1. /\ Delivered(r.buf, r.size) = [i \in 1 .. r.size |-> L + i]
        /\ L + r.size <= taken[Peer(e)]
    BY <1>3, <1>7, DeliveredBytes
  <2>2. input' = [input EXCEPT ![e] = @ \o [i \in 1 .. r.size |-> L + i]]
    BY <1>4, <1>7, <2>1
  <2>3. r.size \in 1 .. written[Peer(e)] - L
    <3>1. taken[Peer(e)] <= written[Peer(e)]
      BY PeerType DEF TransferInv, NumbersSound
    <3>2. taken[Peer(e)] \in Nat /\ written[Peer(e)] \in Nat /\ L \in Nat
      BY PeerType DEF TransferInv, TypeOK
    <3> HIDE DEF L
    <3> QED BY <3>1, <3>2, <2>1, <1>5, <1>7
  <2>4. \E n \in 1 .. written[Peer(e)] - Len(input[e]) :
          input' = [input EXCEPT ![e] = @ \o [i \in 1 .. n |-> Len(input[e]) + i]]
    BY <2>2, <2>3
  <2> QED BY <1>6, <2>4 DEF Stream!Deliver
<1>8. CASE ~(r.size > 0)
  <2>1. input' = input
    BY <1>4, <1>5, <1>8
  <2> QED BY <1>6, <2>1, StreamStutters
<1> QED BY <1>7, <1>8

(* The only other step the streams see is the end of a loop whose packets  *)
(* have used up their retries.                                             *)
LEMMA ResendGivesUp ==
    ASSUME TransferInv, NEW e \in Endpoint, Timeout(e) \/ ResendNext(e)
    PROVE  Stream!GiveUp(e) \/ UNCHANGED Stream!streamVars
<1>1. PICK i \in 1 .. Len(unackd[e]) : ResendPacket(e, i)
  BY ResendIndex
<1>2. phase[e] = "running" /\ phase \in [Endpoint -> Phase]
  BY ResendIndex DEF TransferInv, TypeOK
<1>3. /\ Exit(e) \/ UNCHANGED phase
      /\ UNCHANGED <<written, input>>
  BY <1>1 DEF ResendPacket, outVars
<1>4. CASE UNCHANGED phase
  BY <1>3, <1>4, StreamStutters
<1>5. CASE Exit(e)
  <2>1. phase' = [phase EXCEPT ![e] = "exited"]
    BY <1>5 DEF Exit
  <2>2. ~GaveUp[e] /\ GaveUp' = [GaveUp EXCEPT ![e] = TRUE]
    BY <2>1, <1>2 DEF GaveUp
  <2> QED BY <2>2, <1>3 DEF Stream!GiveUp, GaveUp
<1> QED BY <1>3, <1>4, <1>5

LEMMA StreamStep ==
    ASSUME ~LongRto, TransferInv, [TransferNext]_vars
    PROVE  [Stream!StreamNext]_(Stream!streamVars)
<1>1. CASE UNCHANGED vars
  BY <1>1, StreamStutters DEF vars, connVars, outVars, inVars
<1>2. ASSUME NEW e \in Endpoint, AppData(e)
      PROVE  UNCHANGED Stream!streamVars
  BY <1>2, StreamStutters DEF AppData, connVars, inVars
<1>3. ASSUME NEW e \in Endpoint,
             Stream!Offer(e) \/ Stream!Deliver(e) \/ Stream!GiveUp(e)
      PROVE  Stream!StreamNext
  BY <1>3 DEF Stream!StreamNext
<1>4. CASE TransferNext
  <2>1. PICK e \in Endpoint : Transfer(e) \/ Mywrite(e)
    BY <1>4 DEF TransferNext
  <2> QED BY <2>1, <1>2, <1>3, MywriteOffers, NetworkDataDelivers, ResendGivesUp
          DEF Transfer
<1> QED BY <1>1, <1>4

(* Data transfer implements the pair of byte streams: every step of the    *)
(* transport layers and their network is a write, a delivery of the next   *)
(* bytes, a loop that gives up, or invisible to the applications.          *)
THEOREM ImplementsByteStreamSafety ==
    ASSUME ~LongRto
    PROVE  TransferSafety => Stream!StreamSafety
<1>1. TransferInit => Stream!StreamInit
  BY StreamStarts
<1>2. TransferInv /\ [TransferNext]_vars
        => [Stream!StreamNext]_(Stream!streamVars)
  BY StreamStep
<1> QED BY <1>1, <1>2, TransferInvariant, PTL
        DEF TransferSafety, Stream!StreamSafety
=============================================================================
