----------------------------- MODULE VnsProofs -----------------------------
(***************************************************************************)
(* Proofs about the router, for any interfaces, routing table, packets and *)
(* time limits: what its ARP cache and its ARP queue hold, where packets   *)
(* are sent, and when they are given up.                                   *)
(***************************************************************************)
EXTENDS Vns, SequenceTheorems, WellFoundedInduction, TLAPS

---------------------------------------------------------------------------
(* The inductive invariant.  An address in the cache has the hardware      *)
(* address, and the age, of its last announcement.                         *)
CacheSound(c, h) ==
    /\ DOMAIN c \subseteq Addr
    /\ c \in [DOMAIN c -> [mac : Mac, age : CacheAge]]
    /\ h \in [Addr -> [mac : Mac \union {NoMac}, age : CacheAge]]
    /\ \A a \in DOMAIN c : c[a] = h[a]

(* An entry without packets is that of sr_init().  Any other holds packets *)
(* to one destination and asks for its next hop; the count of its requests *)
(* may have wrapped, but is never too large.                               *)
EntrySound(e) ==
    /\ e \in Entry
    /\ e.packets = <<>> => e.ip = NoAddr /\ e.reqs = 0 /\ e.hop = SentinelHop
    /\ e.packets # <<>> =>
         /\ HasRoute(e.ip) /\ e.hop = Route(e.ip).gw
         /\ \A p \in PacketsOf(e) : p.dst = e.ip /\ p \in Packets
         /\ e.asked <= ARP_MAX_REQ => e.reqs < e.asked

QueueSound(q) ==
    /\ q \in Seq(Entry)
    /\ \A i \in DOMAIN q : EntrySound(q[i])
    /\ \A i, j \in DOMAIN q : q[i].ip = q[j].ip => i = j

(* Where a frame with a packet goes. *)
FrameSound(d, h) ==
    d.type = "data" =>
        \E i \in Matching(d.packet.dst) :
            LET hop == h[RoutingTable[i].gw] IN
            /\ \A j \in Matching(d.packet.dst) :
                  RoutingTable[j].mask <= RoutingTable[i].mask
            /\ d.iface = RoutingTable[i].iface
            /\ d.mac = hop.mac
            /\ hop.age <= ARP_CACHE_TIMEOUT + MaxLapse

FramesSound(f, h) == \A d \in f : FrameSound(d, h)

RouterInv ==
    /\ CacheSound(cache, heard)
    /\ QueueSound(queue)
    /\ FramesSound(out, heard)
    /\ status \in {"up", "hung", "crashed", "dangling", "exited", "spinning"}
    /\ ifs \subseteq Ifaces
    /\ session \in SetUp \union {"start", "open"}
    /\ status = "up" /\ ifs # {} => VerifyRoutingTable(ifs)

---------------------------------------------------------------------------
(* A non-empty set of natural numbers has a least element. *)
LEMMA LeastNatural ==
    ASSUME NEW S \in SUBSET Nat, S # {}
    PROVE  \E n \in S : \A m \in S : n <= m
<1> DEFINE R == OpToRel(<, Nat)
<1>1. IsWellFoundedOn(R, Nat)
  BY NatLessThanWellFounded
<1>2. \A x, y \in Nat : x < y => <<x, y>> \in R
  BY DEF OpToRel
<1> HIDE DEF R
<1>3. PICK x \in S : \A y \in S : ~(<<y, x>> \in R)
  BY <1>1, WFMin
<1>4. ASSUME NEW y \in S PROVE x <= y
  <2>1. ~(y < x)
    BY <1>2, <1>3, Zenon
  <2> QED BY <2>1
<1> QED BY <1>4

(* arpq_num_reqs, a uint8_t, counts on or wraps. *)
LEMMA AddReqBounds ==
    ASSUME NEW r \in 0 .. REQS_MOD - 1
    PROVE  AddReq(r) \in 0 .. REQS_MOD - 1 /\ AddReq(r) <= r + 1
<1>1. REQS_MOD \in Nat /\ REQS_MOD > 0
  BY ParameterAssumption
<1>2. CASE r + 1 < REQS_MOD
  <2>1. (r + 1) % REQS_MOD = r + 1
    BY <1>1, <1>2
  <2> QED BY <1>1, <1>2, <2>1 DEF AddReq
<1>3. CASE r + 1 = REQS_MOD
  <2>1. REQS_MOD % REQS_MOD = 0
    BY <1>1
  <2> QED BY <1>1, <1>3, <2>1 DEF AddReq
<1> QED BY <1>1, <1>2, <1>3

LEMMA OlderBounds ==
    ASSUME NEW cap \in Nat, NEW age \in 0 .. cap, NEW t \in Nat
    PROVE  Older(age, t, cap) \in 0 .. cap /\ Older(age, t, cap) <= age + t
BY DEF Older

---------------------------------------------------------------------------
(* Routes: rt_match() picks an entry that matches, and none with a longer  *)
(* mask does.                                                              *)
LEMMA RouteMatches ==
    ASSUME NEW a, HasRoute(a)
    PROVE  \E i \in Matching(a) :
             /\ Route(a) = RoutingTable[i]
             /\ \A j \in Matching(a) : RoutingTable[j].mask <= RoutingTable[i].mask
             /\ RoutingTable[i].gw \in Addr /\ i \in DOMAIN RoutingTable
<1>1. PICK i \in RtMatch(a) : Route(a) = RoutingTable[i]
  BY DEF HasRoute, Route
<1>2. i \in Matching(a) /\ i \in DOMAIN RoutingTable
  BY DEF RtMatch, Matching
<1>3. ASSUME NEW j \in DOMAIN RoutingTable
      PROVE  RoutingTable[j].mask \in Nat /\ RoutingTable[j].gw \in Addr
  <2> DEFINE Row == [net : SUBSET (Addr \union IfAddr \union {NoAddr}),
                     mask : Nat, gw : Addr, iface : STRING]
  <2>1. RoutingTable \in Seq(Row)
    BY TableAssumption
  <2> HIDE DEF Row
  <2>2. RoutingTable[j] \in Row
    BY <2>1, ElementOfSeq
  <2> QED BY <2>2 DEF Row
<1>4. \A j \in Matching(a) : RoutingTable[j].mask <= RoutingTable[i].mask
  BY <1>2, <1>3 DEF RtMatch, Matching
<1> QED BY <1>1, <1>2, <1>3, <1>4

---------------------------------------------------------------------------
(* What happens to an entry. *)
LEMMA EntryEdits ==
    ASSUME NEW e, EntrySound(e)
    PROVE  /\ \A n \in RequestAge : EntrySound([e EXCEPT !.age = n])
           /\ AskAgain(e) => EntrySound(RetriedEntry(e))
           /\ RetriedEntry(e) \in Entry
<1>1. /\ e \in Entry /\ e.ip \in Addr \union IfAddr \union {NoAddr} /\ e.hop \in Addr \union {NoAddr}
      /\ e.packets \in Seq(Packets) /\ e.age \in RequestAge
      /\ e.reqs \in 0 .. REQS_MOD - 1 /\ e.asked \in 0 .. ARP_MAX_REQ + 1
  BY DEF EntrySound, Entry
<1>2. /\ ARP_MAX_REQ \in Nat \ {0} /\ ARP_REQUEST_TIMEOUT \in Nat
      /\ REQS_MOD \in Nat \ {0}
  BY ParameterAssumption
<1>3. ASSUME NEW n \in RequestAge PROVE EntrySound([e EXCEPT !.age = n])
  BY <1>1, <1>3 DEF EntrySound, Entry, PacketsOf
<1> DEFINE more == IF e.asked <= ARP_MAX_REQ THEN e.asked + 1 ELSE e.asked
<1>4. more \in 0 .. ARP_MAX_REQ + 1
  BY <1>1, <1>2
<1>5. /\ AddReq(e.reqs) \in 0 .. REQS_MOD - 1 /\ AddReq(e.reqs) <= e.reqs + 1
  BY <1>1, AddReqBounds
<1>6. 0 \in RequestAge
  BY <1>2 DEF RequestAge
<1> HIDE DEF more
<1> HIDE DEF more
<1> DEFINE r == [e EXCEPT !.age = 0, !.reqs = AddReq(e.reqs), !.asked = more]
<1>7. AskAgain(e) => RetriedEntry(e) = r /\ e.packets # <<>>
  BY <1>1 DEF RetriedEntry, FlushedEntry, AskedOnceMore, AskAgain, more, Entry
<1>8. r \in Entry
  BY <1>1, <1>4, <1>5, <1>6 DEF Entry
<1>9. /\ r.ip = e.ip /\ r.hop = e.hop /\ r.packets = e.packets
      /\ r.reqs = AddReq(e.reqs) /\ r.asked = more
  BY <1>1 DEF Entry
<1> HIDE DEF r
<1>10. more <= ARP_MAX_REQ /\ e.reqs < e.asked => AddReq(e.reqs) < more
  <2>1. e.reqs \in Nat /\ e.asked \in Nat /\ AddReq(e.reqs) \in Nat
    BY <1>1, <1>2, <1>5
  <2> QED BY <1>2, <1>5, <2>1 DEF more
<1>11. more <= ARP_MAX_REQ => e.asked <= ARP_MAX_REQ
  BY <1>1, <1>2 DEF more
<1>12. ASSUME AskAgain(e) PROVE EntrySound(r)
  <2>1. e.packets # <<>>
    BY <1>7, <1>12
  <2>2. PacketsOf(r) = PacketsOf(e)
    BY <1>9 DEF PacketsOf
  <2> QED BY <1>8, <1>9, <1>10, <1>11, <2>1, <2>2 DEF EntrySound
<1>13. RetriedEntry(e) \in Entry
  BY <1>1, <1>7, <1>8 DEF RetriedEntry
<1>14. AskAgain(e) => EntrySound(RetriedEntry(e))
  BY <1>7, <1>12
<1> QED BY <1>3, <1>13, <1>14
---------------------------------------------------------------------------
(* arp_queue_flush() goes through the queue once: what it has kept of the  *)
(* first n entries.                                                        *)
FlushStep(q, f, n) ==
    IF n = 0 THEN <<>>
    ELSE IF OutOfTries(q[n]) THEN f[n - 1]
    ELSE Append(f[n - 1], RetriedEntry(q[n]))

LEMMA FlushEquation ==
    ASSUME NEW q \in Seq(Entry)
    PROVE  \E f : /\ f = [n \in 0 .. Len(q) |-> FlushStep(q, f, n)]
                  /\ QueueFlush(q) = f[Len(q)]
<1> DEFINE good(n, f) == f = [i \in 0 .. n |-> FlushStep(q, f, i)]
           bad == {n \in 0 .. Len(q) : ~\E f : good(n, f)}
<1>1. bad = {}
  <2> SUFFICES ASSUME bad # {} PROVE FALSE
    OBVIOUS
  <2> HIDE DEF good
  <2>0. bad \in SUBSET Nat
    OBVIOUS
  <2> HIDE DEF bad
  <2>1. PICK n \in bad : \A m \in bad : n <= m
    BY <2>0, LeastNatural
  <2> USE DEF good, bad
  <2>2. CASE n = 0
    <3>1. good(0, [i \in 0 .. 0 |-> <<>>])
      BY DEF FlushStep
    <3> QED BY <2>1, <2>2, <3>1
  <2>3. CASE n # 0
    <3>1. n - 1 \in 0 .. Len(q) /\ n - 1 \notin bad
      BY <2>1, <2>3
    <3>2. PICK f : good(n - 1, f)
      BY <3>1
    <3> DEFINE g == [i \in 0 .. n |-> IF i = n THEN FlushStep(q, f, n) ELSE f[i]]
    <3>3. \A i \in 0 .. n : g[i] = FlushStep(q, g, i)
      <4> SUFFICES ASSUME NEW i \in 0 .. n PROVE g[i] = FlushStep(q, g, i)
        OBVIOUS
      <4>1. n \in Nat /\ i \in Nat /\ n > 0
        BY <2>1, <2>3
      <4>2. i > 0 => i - 1 \in 0 .. n - 1 /\ g[i - 1] = f[i - 1]
        BY <4>1
      <4>3. CASE i = n
        BY <4>1, <4>2, <4>3 DEF FlushStep
      <4>4. CASE i # n
        <5>1. i \in 0 .. n - 1 /\ g[i] = f[i]
          BY <4>1, <4>4
        <5>2. f[i] = FlushStep(q, f, i)
          BY <3>2, <5>1
        <5> QED BY <4>1, <4>2, <5>1, <5>2 DEF FlushStep
      <4> QED BY <4>3, <4>4
    <3>4. good(n, g)
      <4> HIDE DEF g
      <4>1. g = [i \in 0 .. n |-> g[i]]
        BY DEF g
      <4> QED BY <3>3, <4>1, Zenon
    <3> QED BY <2>1, <3>4
  <2> QED BY <2>2, <2>3
<1>2. \E f : good(Len(q), f)
  BY <1>1
<1> DEFINE flushed[n \in 0 .. Len(q)] ==
            IF n = 0 THEN <<>>
            ELSE IF OutOfTries(q[n]) THEN flushed[n - 1]
            ELSE Append(flushed[n - 1], RetriedEntry(q[n]))
<1>3. flushed = CHOOSE f : good(Len(q), f)
  BY DEF FlushStep
<1>4. QueueFlush(q) = flushed[Len(q)]
  BY DEF QueueFlush
<1> HIDE DEF flushed
<1>5. good(Len(q), flushed)
  BY <1>2, <1>3
<1> QED BY <1>4, <1>5

LEMMA RetriedSound ==
    ASSUME NEW e, EntrySound(e)
    PROVE  /\ EntrySound(RetriedEntry(e)) /\ RetriedEntry(e) \in Entry
           /\ RetriedEntry(e).ip = e.ip /\ RetriedEntry(e).hop = e.hop
           /\ RetriedEntry(e).packets = e.packets
<1>1. EntrySound(RetriedEntry(e)) /\ RetriedEntry(e) \in Entry
  BY EntryEdits DEF RetriedEntry
<1>2. e \in Entry
  BY DEF EntrySound
<1>3. /\ RetriedEntry(e).ip = e.ip /\ RetriedEntry(e).hop = e.hop
      /\ RetriedEntry(e).packets = e.packets
  BY <1>2 DEF RetriedEntry, FlushedEntry, AskedOnceMore, Entry
<1> QED BY <1>1, <1>3

(* What is left of the queue: each entry that is not out of tries, once,   *)
(* asked for again if it is due.                                           *)
LEMMA FlushKeeps ==
    ASSUME NEW q, QueueSound(q)
    PROVE  /\ QueueSound(QueueFlush(q))
           /\ \A k \in DOMAIN QueueFlush(q) : \E i \in DOMAIN q :
                ~OutOfTries(q[i]) /\ QueueFlush(q)[k] = RetriedEntry(q[i])
           /\ \A i \in DOMAIN q : ~OutOfTries(q[i]) =>
                \E k \in DOMAIN QueueFlush(q) : QueueFlush(q)[k] = RetriedEntry(q[i])
<1>1. q \in Seq(Entry) /\ Len(q) \in Nat /\ DOMAIN q = 1 .. Len(q)
  BY DEF QueueSound
<1>2. PICK f : /\ f = [n \in 0 .. Len(q) |-> FlushStep(q, f, n)]
               /\ QueueFlush(q) = f[Len(q)]
  BY <1>1, FlushEquation
<1> DEFINE kept(n) ==
      /\ f[n] \in Seq(Entry)
      /\ \A k \in 1 .. Len(f[n]) : \E i \in 1 .. n :
           ~OutOfTries(q[i]) /\ f[n][k] = RetriedEntry(q[i])
      /\ \A i \in 1 .. n : ~OutOfTries(q[i]) =>
           \E k \in 1 .. Len(f[n]) : f[n][k] = RetriedEntry(q[i])
      /\ \A j, k \in 1 .. Len(f[n]) : f[n][j].ip = f[n][k].ip => j = k
    bad == {n \in 0 .. Len(q) : ~kept(n)}
<1>3. bad = {}
  <2> SUFFICES ASSUME bad # {} PROVE FALSE
    OBVIOUS
  <2> HIDE DEF kept
  <2>1. bad \in SUBSET Nat
    OBVIOUS
  <2> HIDE DEF bad
  <2>2. PICK n \in bad : \A m \in bad : n <= m
    BY <2>1, LeastNatural
  <2>3. n \in 0 .. Len(q) /\ ~kept(n)
    BY <2>2 DEF bad
  <2>4. f[n] = FlushStep(q, f, n)
    BY <1>2, <2>3, Zenon
  <2>5. CASE n = 0
    <3>1. f[n] = <<>>
      BY <2>4, <2>5 DEF FlushStep
    <3>2. kept(n)
      BY <2>5, <3>1 DEF kept
    <3> QED BY <2>3, <3>2
  <2>6. CASE n # 0
    <3>1. n \in 1 .. Len(q) /\ n - 1 \in 0 .. Len(q)
      BY <1>1, <2>3, <2>6
    <3>2. kept(n - 1)
      BY <2>2, <3>1 DEF bad
    <3> DEFINE s == f[n - 1]
               e == RetriedEntry(q[n])
    <3>3. /\ s \in Seq(Entry) /\ Len(s) \in Nat
          /\ \A k \in 1 .. Len(s) : \E i \in 1 .. n - 1 :
               ~OutOfTries(q[i]) /\ s[k] = RetriedEntry(q[i])
          /\ \A i \in 1 .. n - 1 : ~OutOfTries(q[i]) =>
               \E k \in 1 .. Len(s) : s[k] = RetriedEntry(q[i])
          /\ \A j, k \in 1 .. Len(s) : s[j].ip = s[k].ip => j = k
      BY <3>2 DEF kept
    <3>4. \A i \in 1 .. n : i \in 1 .. n - 1 \/ i = n
      BY <3>1
    <3>5. \A i \in 1 .. n - 1 : i \in 1 .. n /\ i \in DOMAIN q /\ i # n
      BY <1>1, <3>1
    <3>6. f[n] = IF OutOfTries(q[n]) THEN s ELSE Append(s, e)
      BY <2>4, <2>6 DEF FlushStep
    <3> HIDE DEF s
    <3>7. CASE OutOfTries(q[n])
      <4>1. f[n] = s
        BY <3>6, <3>7
      <4>2. \A k \in 1 .. Len(s) : \E i \in 1 .. n :
              ~OutOfTries(q[i]) /\ s[k] = RetriedEntry(q[i])
        BY <3>3, <3>5
      <4>3. \A i \in 1 .. n : ~OutOfTries(q[i]) =>
              \E k \in 1 .. Len(s) : s[k] = RetriedEntry(q[i])
        BY <3>3, <3>4, <3>7
      <4> QED BY <2>3, <3>3, <4>1, <4>2, <4>3 DEF kept
    <3>8. CASE ~OutOfTries(q[n])
      <4>1. EntrySound(q[n])
        BY <1>1, <3>1 DEF QueueSound
      <4>2. e \in Entry /\ e.ip = q[n].ip
        BY <4>1, RetriedSound
      <4> HIDE DEF e
      <4>3. /\ f[n] \in Seq(Entry) /\ Len(f[n]) = Len(s) + 1
            /\ \A k \in 1 .. Len(s) : f[n][k] = s[k]
            /\ f[n][Len(s) + 1] = e
        BY <3>3, <3>6, <3>8, <4>2, AppendProperties
      <4>4. \A k \in 1 .. Len(f[n]) : k \in 1 .. Len(s) \/ k = Len(s) + 1
        BY <3>3, <4>3
      <4>5. \A k \in 1 .. Len(s) : s[k].ip # e.ip
        <5> SUFFICES ASSUME NEW k \in 1 .. Len(s) PROVE s[k].ip # e.ip
          OBVIOUS
        <5>1. PICK i \in 1 .. n - 1 : s[k] = RetriedEntry(q[i])
          BY <3>3
        <5>2. EntrySound(q[i]) /\ i \in DOMAIN q /\ n \in DOMAIN q /\ i # n
          BY <1>1, <3>1, <3>5 DEF QueueSound
        <5>3. s[k].ip = q[i].ip
          BY <5>1, <5>2, RetriedSound
        <5> QED BY <4>2, <5>2, <5>3 DEF QueueSound
      <4>6. \A k \in 1 .. Len(f[n]) : \E i \in 1 .. n :
              ~OutOfTries(q[i]) /\ f[n][k] = RetriedEntry(q[i])
        <5>1. f[n][Len(s) + 1] = RetriedEntry(q[n]) /\ n \in 1 .. n
          BY <3>1, <4>3 DEF e
        <5>2. ASSUME NEW k \in 1 .. Len(s)
              PROVE  \E i \in 1 .. n : ~OutOfTries(q[i]) /\ f[n][k] = RetriedEntry(q[i])
          <6>1. PICK i \in 1 .. n - 1 : ~OutOfTries(q[i]) /\ s[k] = RetriedEntry(q[i])
            BY <3>3
          <6> QED BY <3>5, <4>3, <6>1
        <5> QED BY <3>8, <4>4, <5>1, <5>2
      <4>7. \A i \in 1 .. n : ~OutOfTries(q[i]) =>
              \E k \in 1 .. Len(f[n]) : f[n][k] = RetriedEntry(q[i])
        <5>1. f[n][Len(s) + 1] = RetriedEntry(q[n])
          BY <4>3 DEF e
        <5>2. /\ Len(s) + 1 \in 1 .. Len(f[n])
              /\ \A k \in 1 .. Len(s) : k \in 1 .. Len(f[n])
          BY <3>3, <4>3
        <5> QED BY <3>3, <3>4, <4>3, <5>1, <5>2
      <4>8. \A j, k \in 1 .. Len(f[n]) : f[n][j].ip = f[n][k].ip => j = k
        BY <3>3, <4>3, <4>4, <4>5
      <4> QED BY <2>3, <4>3, <4>6, <4>7, <4>8 DEF kept
    <3> QED BY <3>7, <3>8
  <2> QED BY <2>5, <2>6
<1>4. kept(Len(q))
  <2>1. Len(q) \in 0 .. Len(q)
    BY <1>1
  <2> HIDE DEF kept
  <2> QED BY <1>3, <2>1
<1> DEFINE r == QueueFlush(q)
<1>5. /\ r \in Seq(Entry)
      /\ \A k \in 1 .. Len(r) : \E i \in 1 .. Len(q) :
           ~OutOfTries(q[i]) /\ r[k] = RetriedEntry(q[i])
      /\ \A i \in 1 .. Len(q) : ~OutOfTries(q[i]) =>
           \E k \in 1 .. Len(r) : r[k] = RetriedEntry(q[i])
      /\ \A j, k \in 1 .. Len(r) : r[j].ip = r[k].ip => j = k
  <2>1. r = f[Len(q)]
    BY <1>2, Zenon
  <2> HIDE DEF r
  <2> QED BY <1>4, <2>1
<1> HIDE DEF r, kept, bad
<1>6. DOMAIN r = 1 .. Len(r)
  BY <1>5
<1>7. ASSUME NEW k \in DOMAIN r PROVE EntrySound(r[k])
  <2>1. PICK i \in 1 .. Len(q) : r[k] = RetriedEntry(q[i])
    BY <1>5, <1>6, <1>7
  <2> QED BY <1>1, <2>1, RetriedSound DEF QueueSound
<1>8. QueueSound(r)
  BY <1>5, <1>6, <1>7 DEF QueueSound
<1> QED BY <1>1, <1>5, <1>6, <1>8 DEF r

---------------------------------------------------------------------------
(* Time passes in the tables. *)
LEMMA AgedCacheSound ==
    ASSUME NEW c, NEW h, CacheSound(c, h), NEW t \in Nat
    PROVE  /\ CacheSound(AgedCache(c, t), AgedCache(h, t))
           /\ DOMAIN AgedCache(c, t) = DOMAIN c
<1> DEFINE Mapping == [mac : Mac, age : CacheAge]
           Announced == [mac : Mac \union {NoMac}, age : CacheAge]
<1>1. OldMapping \in Nat /\ CacheAge = 0 .. OldMapping
  BY ParameterAssumption DEF OldMapping, CacheAge
<1>2. \A n \in CacheAge : Older(n, t, OldMapping) \in CacheAge
  BY <1>1, OlderBounds
<1>3. ASSUME NEW m \in Announced
      PROVE  [m EXCEPT !.age = Older(m.age, t, OldMapping)] \in Announced
  BY <1>2
<1>4. ASSUME NEW m \in Mapping
      PROVE  [m EXCEPT !.age = Older(m.age, t, OldMapping)] \in Mapping
  BY <1>2
<1>5. c \in [DOMAIN c -> Mapping] /\ h \in [Addr -> Announced] /\ DOMAIN c \subseteq Addr
  BY DEF CacheSound
<1>6. AgedCache(c, t) \in [DOMAIN c -> Mapping] /\ AgedCache(h, t) \in [Addr -> Announced]
  <2> HIDE DEF Mapping, Announced
  <2> QED BY <1>3, <1>4, <1>5 DEF AgedCache
<1>7. \A a \in DOMAIN c : AgedCache(c, t)[a] = AgedCache(h, t)[a]
  <2>1. \A a \in DOMAIN c : c[a] = h[a]
    BY DEF CacheSound
  <2> HIDE DEF Mapping, Announced
  <2> QED BY <1>5, <2>1 DEF AgedCache
<1>8. DOMAIN AgedCache(c, t) = DOMAIN c
  BY DEF AgedCache
<1> QED BY <1>5, <1>6, <1>7, <1>8 DEF CacheSound

(* arp_cache_flush(), and the clock while the frame is handled. *)
LEMMA FlushedCache ==
    ASSUME NEW c, NEW h, CacheSound(c, h), NEW t \in 0 .. MaxLapse
    PROVE  /\ CacheSound(AgedCache(CacheFlush(c), t), AgedCache(h, t))
           /\ DOMAIN AgedCache(CacheFlush(c), t) \subseteq DOMAIN c
           /\ \A a \in DOMAIN AgedCache(CacheFlush(c), t) :
                AgedCache(CacheFlush(c), t)[a].age <= ARP_CACHE_TIMEOUT + MaxLapse
<1>1. t \in Nat /\ t <= MaxLapse /\ MaxLapse \in Nat /\ ARP_CACHE_TIMEOUT \in Nat
  BY ParameterAssumption
<1> DEFINE d == CacheFlush(c)
<1>2. /\ DOMAIN d \subseteq DOMAIN c
      /\ \A a \in DOMAIN d : d[a] = c[a] /\ d[a].age <= ARP_CACHE_TIMEOUT
  BY DEF CacheFlush
<1>3. CacheSound(d, h)
  BY <1>2 DEF CacheSound, CacheFlush
<1> HIDE DEF d
<1>4. ASSUME NEW a \in DOMAIN d
      PROVE  AgedCache(d, t)[a].age <= ARP_CACHE_TIMEOUT + MaxLapse
  <2>1. d[a] \in [mac : Mac, age : CacheAge]
    BY <1>3, <1>4 DEF CacheSound
  <2>2. OldMapping \in Nat /\ CacheAge = 0 .. OldMapping /\ d[a].age \in CacheAge
    BY <2>1, ParameterAssumption DEF OldMapping, CacheAge
  <2>3. AgedCache(d, t)[a].age = Older(d[a].age, t, OldMapping)
    BY <1>4, <2>1 DEF AgedCache
  <2>4. /\ Older(d[a].age, t, OldMapping) \in 0 .. OldMapping
        /\ Older(d[a].age, t, OldMapping) <= d[a].age + t
    BY <1>1, <2>2, OlderBounds
  <2>5. d[a].age \in Nat /\ d[a].age <= ARP_CACHE_TIMEOUT
    BY <1>2, <1>4, <2>2
  <2> QED BY <1>1, <2>2, <2>3, <2>4, <2>5
<1> QED BY <1>1, <1>2, <1>3, <1>4, AgedCacheSound DEF d

LEMMA AgedQueueSound ==
    ASSUME NEW q, QueueSound(q), NEW t \in Nat
    PROVE  /\ QueueSound(AgedQueue(q, t))
           /\ DOMAIN AgedQueue(q, t) = DOMAIN q
           /\ \A i \in DOMAIN q :
                /\ AgedQueue(q, t)[i].ip = q[i].ip /\ AgedQueue(q, t)[i].hop = q[i].hop
                /\ AgedQueue(q, t)[i].packets = q[i].packets
                /\ AgedQueue(q, t)[i].asked = q[i].asked
                /\ AgedQueue(q, t)[i].reqs = q[i].reqs
                /\ AgedQueue(q, t)[i].age = Older(q[i].age, t, OldRequest)
<1>1. OldRequest \in Nat /\ RequestAge = 0 .. OldRequest
  BY ParameterAssumption DEF OldRequest, RequestAge
<1> DEFINE r == AgedQueue(q, t)
<1>2. DOMAIN r = DOMAIN q
  BY DEF AgedQueue
<1>3. ASSUME NEW i \in DOMAIN q
      PROVE  /\ EntrySound(r[i])
             /\ r[i].ip = q[i].ip /\ r[i].hop = q[i].hop /\ r[i].packets = q[i].packets
             /\ r[i].asked = q[i].asked /\ r[i].reqs = q[i].reqs
             /\ r[i].age = Older(q[i].age, t, OldRequest)
  <2>1. EntrySound(q[i]) /\ q[i] \in Entry
    BY <1>3 DEF QueueSound, EntrySound
  <2>2. q[i].age \in RequestAge
    BY <2>1 DEF Entry
  <2>3. Older(q[i].age, t, OldRequest) \in RequestAge
    BY <1>1, <2>2, OlderBounds
  <2>4. r[i] = [q[i] EXCEPT !.age = Older(q[i].age, t, OldRequest)]
    BY <1>3 DEF AgedQueue
  <2>5. EntrySound(r[i])
    BY <2>1, <2>3, <2>4, EntryEdits
  <2> HIDE DEF r
  <2> QED BY <2>1, <2>4, <2>5 DEF Entry
<1>4. r \in Seq(Entry)
  <2>1. \A i \in DOMAIN q : r[i] \in Entry
    BY <1>3 DEF EntrySound
  <2>2. r = [i \in DOMAIN q |-> r[i]]
    BY DEF AgedQueue
  <2>3. DOMAIN q = 1 .. Len(q) /\ Len(q) \in Nat
    BY DEF QueueSound
  <2> HIDE DEF r
  <2>4. r \in [1 .. Len(q) -> Entry]
    BY <2>1, <2>2, <2>3
  <2> QED BY <2>3, <2>4
<1>5. \A i, j \in DOMAIN r : r[i].ip = r[j].ip => i = j
  BY <1>2, <1>3 DEF QueueSound
<1>6. QueueSound(r)
  BY <1>2, <1>3, <1>4, <1>5 DEF QueueSound
<1> HIDE DEF r
<1> QED BY <1>2, <1>3, <1>6 DEF r

(* arp_queue_flush() sends requests, and packets it gives up. *)
LEMMA FlushSends ==
    ASSUME NEW q
    PROVE  /\ \A d \in QueueFlushFrames(q) : d.type \in {"request", "returned"}
           /\ \A h : FramesSound(QueueFlushFrames(q), h)
<1>1. \A d \in QueueFlushFrames(q) : d.type \in {"request", "returned"}
  BY DEF QueueFlushFrames, FlushFrames, ReturnedFrame, ArpRequest
<1> QED BY <1>1 DEF FramesSound, FrameSound

LEMMA FramesTogether ==
    ASSUME NEW f, NEW g, NEW h, FramesSound(f, h), FramesSound(g, h)
    PROVE  FramesSound(f \union g, h)
BY DEF FramesSound

LEMMA FramesLeft ==
    ASSUME NEW f, NEW h, FramesSound(f, h)
    PROVE  FramesSound(SrSendPacket(f), h)
BY DEF FramesSound, SrSendPacket

(* A packet sent to its next hop. *)
LEMMA DataSound ==
    ASSUME NEW p, HasRoute(p.dst), NEW h, NEW mac,
           mac = h[Route(p.dst).gw].mac,
           h[Route(p.dst).gw].age <= ARP_CACHE_TIMEOUT + MaxLapse
    PROVE  FrameSound(DataFrame(p, mac), h)
<1>1. PICK i \in Matching(p.dst) :
        /\ Route(p.dst) = RoutingTable[i]
        /\ \A j \in Matching(p.dst) : RoutingTable[j].mask <= RoutingTable[i].mask
  BY RouteMatches
<1> DEFINE d == DataFrame(p, mac)
<1>2. /\ d.type = "data" /\ d.packet = p /\ d.mac = mac
      /\ d.iface = RoutingTable[i].iface
  BY <1>1 DEF DataFrame
<1> HIDE DEF d
<1>3. FrameSound(d, h)
  BY <1>1, <1>2 DEF FrameSound
<1> QED BY <1>3 DEF d

---------------------------------------------------------------------------
(* arp_queue_lookup() and arpq_next_hop_lookup() find what is there. *)
LEMMA LookupsFind ==
    ASSUME NEW q, QueueSound(q), NEW a
    PROVE  /\ QueueLookup(q, a) = {} => \A i \in DOMAIN q : q[i].ip # a
           /\ NextHopLookup(q, a) = {} => \A i \in DOMAIN q : q[i].hop # a
<1>1. DOMAIN q = 1 .. Len(q) /\ Len(q) \in Nat
  BY DEF QueueSound
<1>2. ASSUME NEW i \in DOMAIN q, q[i].ip = a PROVE QueueLookup(q, a) # {}
  <2> DEFINE S == {j \in DOMAIN q : q[j].ip = a}
  <2>1. S \in SUBSET Nat /\ S # {}
    BY <1>1, <1>2
  <2>2. PICK n \in S : \A m \in S : n <= m
    BY <2>1, LeastNatural
  <2>3. \A j \in 1 .. n - 1 : q[j].ip # a
    BY <1>1, <2>2
  <2> QED BY <2>2, <2>3 DEF QueueLookup
<1>3. ASSUME NEW i \in DOMAIN q, q[i].hop = a PROVE NextHopLookup(q, a) # {}
  <2> DEFINE S == {j \in DOMAIN q : q[j].hop = a}
  <2>1. S \in SUBSET Nat /\ S # {}
    BY <1>1, <1>3
  <2>2. PICK n \in S : \A m \in S : n <= m
    BY <2>1, LeastNatural
  <2>3. \A j \in 1 .. n - 1 : q[j].hop # a
    BY <1>1, <2>2
  <2> QED BY <2>2, <2>3 DEF NextHopLookup
<1> QED BY <1>2, <1>3

(* arpq_add_entry(): a new entry at the end. *)
LEMMA Appended ==
    ASSUME NEW q, QueueSound(q), NEW p \in Packets, HasRoute(p.dst),
           QueueLookup(q, p.dst) = {}
    PROVE  /\ QueueSound(Append(q, NewEntry(p)))
           /\ Len(Append(q, NewEntry(p))) = Len(q) + 1
           /\ \A i \in DOMAIN q : Append(q, NewEntry(p))[i] = q[i]
           /\ Append(q, NewEntry(p))[Len(q) + 1] = NewEntry(p)
<1> DEFINE e == NewEntry(p)
           r == Append(q, e)
<1>1. q \in Seq(Entry) /\ Len(q) \in Nat /\ DOMAIN q = 1 .. Len(q)
  BY DEF QueueSound
<1>2. p.dst \in Addr \union IfAddr \union {NoAddr}
  BY TableAssumption
<1>3. Route(p.dst).gw \in Addr
  BY RouteMatches
<1>4. /\ e.ip = p.dst /\ e.hop = Route(p.dst).gw /\ e.packets = <<p>>
      /\ e.reqs = 0 /\ e.asked = 1
  BY DEF NewEntry
<1>5. 0 \in RequestAge /\ 0 \in 0 .. REQS_MOD - 1 /\ 1 \in 0 .. ARP_MAX_REQ + 1
  BY ParameterAssumption DEF RequestAge
<1>6. e \in Entry
  <2>1. <<p>> \in Seq(Packets)
    OBVIOUS
  <2> QED BY <1>2, <1>3, <1>5, <2>1 DEF NewEntry, Entry
<1> HIDE DEF e
<1>15. e.packets # <<>>
  BY <1>4
<1>7. PacketsOf(e) = {p}
  BY <1>4 DEF PacketsOf
<1>8. EntrySound(e)
  BY <1>4, <1>6, <1>7, <1>15 DEF EntrySound
<1>9. /\ r \in Seq(Entry) /\ Len(r) = Len(q) + 1 /\ DOMAIN r = 1 .. Len(q) + 1
      /\ \A i \in 1 .. Len(q) : r[i] = q[i]
      /\ r[Len(q) + 1] = e
  BY <1>1, <1>6, AppendProperties
<1>10. \A i \in DOMAIN r : i \in 1 .. Len(q) \/ i = Len(q) + 1
  BY <1>1, <1>9
<1> HIDE DEF r
<1>11. \A i \in DOMAIN q : q[i].ip # p.dst
  BY LookupsFind
<1>12. \A i, j \in DOMAIN r : r[i].ip = r[j].ip => i = j
  BY <1>1, <1>4, <1>9, <1>10, <1>11 DEF QueueSound
<1>13. \A i \in DOMAIN r : EntrySound(r[i])
  BY <1>1, <1>8, <1>9, <1>10 DEF QueueSound
<1>14. QueueSound(r)
  BY <1>9, <1>12, <1>13 DEF QueueSound
<1> QED BY <1>1, <1>9, <1>14 DEF r, e

(* arpq_add_packet(): another packet in an entry that is there. *)
LEMMA Added ==
    ASSUME NEW e, EntrySound(e), e.packets # <<>>, NEW p \in Packets, p.dst = e.ip
    PROVE  /\ EntrySound(AddPacket(e, p))
           /\ AddPacket(e, p).ip = e.ip
           /\ AddPacket(e, p).hop = e.hop
           /\ PacketsOf(AddPacket(e, p)) = PacketsOf(e) \union {p}
           /\ AddPacket(e, p).packets # <<>>
<1>1. /\ e \in Entry /\ e.packets \in Seq(Packets)
      /\ e.reqs \in 0 .. REQS_MOD - 1 /\ e.asked \in 0 .. ARP_MAX_REQ + 1
  BY DEF EntrySound, Entry
<1>3. ARP_MAX_REQ \in Nat \ {0} /\ REQS_MOD \in Nat \ {0}
  BY ParameterAssumption
<1> DEFINE more == IF e.asked <= ARP_MAX_REQ THEN e.asked + 1 ELSE e.asked
           a == AddPacket(e, p)
<1>5. AddReq(e.reqs) \in 0 .. REQS_MOD - 1 /\ AddReq(e.reqs) <= e.reqs + 1
  BY <1>1, AddReqBounds
<1>6. more \in 0 .. ARP_MAX_REQ + 1
  BY <1>1, <1>3
<1>7. more <= ARP_MAX_REQ => AddReq(e.reqs) < more
  <2>1. e.reqs \in Nat /\ e.asked \in Nat /\ AddReq(e.reqs) \in Nat
    BY <1>1, <1>3, <1>5
  <2>2. e.asked <= ARP_MAX_REQ => e.reqs < e.asked
    BY DEF EntrySound
  <2> QED BY <1>3, <1>5, <2>1, <2>2
<1>8. /\ Append(e.packets, p) \in Seq(Packets)
      /\ Append(e.packets, p) # <<>>
  BY <1>1, AppendProperties
<1>9. a = [e EXCEPT !.asked = more, !.packets = Append(e.packets, p),
                    !.reqs = AddReq(e.reqs)]
  BY <1>1 DEF AddPacket, AskedOnceMore, Entry
<1> HIDE DEF a, more
<1>10. a \in Entry
  BY <1>1, <1>5, <1>6, <1>8, <1>9 DEF Entry
<1>11. /\ a.ip = e.ip /\ a.hop = e.hop /\ a.packets = Append(e.packets, p)
       /\ a.asked = more /\ a.reqs = AddReq(e.reqs)
  BY <1>1, <1>9 DEF Entry
<1>12. PacketsOf(a) = PacketsOf(e) \union {p}
  <2>1. /\ DOMAIN e.packets = 1 .. Len(e.packets) /\ Len(e.packets) \in Nat
        /\ DOMAIN a.packets = 1 .. Len(e.packets) + 1
        /\ \A i \in 1 .. Len(e.packets) : a.packets[i] = e.packets[i]
        /\ a.packets[Len(e.packets) + 1] = p
    BY <1>1, <1>11, AppendProperties
  <2>2. \A i \in 1 .. Len(e.packets) + 1 : i \in 1 .. Len(e.packets) \/ i = Len(e.packets) + 1
    BY <2>1
  <2>3. /\ \A i \in 1 .. Len(e.packets) : i \in 1 .. Len(e.packets) + 1
        /\ Len(e.packets) + 1 \in 1 .. Len(e.packets) + 1
    BY <2>1
  <2> QED BY <2>1, <2>2, <2>3 DEF PacketsOf
<1>13. EntrySound(a)
  <2>1. a.packets # <<>>
    BY <1>8, <1>11
  <2>2. HasRoute(a.ip) /\ a.hop = Route(a.ip).gw
    BY <1>11 DEF EntrySound
  <2>3. \A r \in PacketsOf(a) : r.dst = a.ip /\ r \in Packets
    BY <1>11, <1>12 DEF EntrySound
  <2>4. a.asked <= ARP_MAX_REQ => a.reqs < a.asked
    BY <1>7, <1>11
  <2> QED BY <1>10, <2>1, <2>2, <2>3, <2>4 DEF EntrySound
<1> QED BY <1>8, <1>11, <1>12, <1>13 DEF a

LEMMA Replaced ==
    ASSUME NEW q, QueueSound(q), NEW i \in DOMAIN q, NEW e, EntrySound(e),
           e.ip = q[i].ip
    PROVE  /\ QueueSound([q EXCEPT ![i] = e])
           /\ DOMAIN [q EXCEPT ![i] = e] = DOMAIN q
<1> DEFINE r == [q EXCEPT ![i] = e]
<1>1. q \in Seq(Entry) /\ Len(q) \in Nat /\ DOMAIN q = 1 .. Len(q) /\ e \in Entry
  BY DEF QueueSound, EntrySound
<1>2. r \in Seq(Entry) /\ DOMAIN r = DOMAIN q
  <2>1. q \in [1 .. Len(q) -> Entry]
    BY <1>1
  <2>2. r \in [1 .. Len(q) -> Entry]
    BY <1>1, <2>1
  <2> QED BY <1>1, <2>2
<1>3. \A j \in DOMAIN q : r[j] = IF j = i THEN e ELSE q[j]
  BY <1>1
<1> HIDE DEF r
<1>4. QueueSound(r)
  BY <1>2, <1>3 DEF QueueSound
<1> QED BY <1>2, <1>4 DEF r

(* arpq_entry_clear(): every other entry stays, in its order. *)
LEMMA UnlinkedSound ==
    ASSUME NEW q, QueueSound(q), NEW k \in DOMAIN q
    PROVE  /\ QueueSound(Unlinked(q, k))
           /\ \A j \in DOMAIN Unlinked(q, k) : \E i \in DOMAIN q :
                i # k /\ Unlinked(q, k)[j] = q[i]
           /\ \A i \in DOMAIN q : i # k =>
                \E j \in DOMAIN Unlinked(q, k) : Unlinked(q, k)[j] = q[i]
<1> DEFINE a == SubSeq(q, 1, k - 1)
           b == SubSeq(q, k + 1, Len(q))
           r == Unlinked(q, k)
           from(j) == IF j < k THEN j ELSE j + 1
<1>1. q \in Seq(Entry) /\ Len(q) \in Nat /\ DOMAIN q = 1 .. Len(q) /\ k \in 1 .. Len(q)
  BY DEF QueueSound
<1>2. /\ a \in Seq(Entry) /\ Len(a) = k - 1
      /\ \A j \in 1 .. k - 1 : a[j] = q[j]
  <2>1. \A j \in 1 .. k - 1 : j \in 1 .. Len(q)
    BY <1>1
  <2> QED BY <1>1, <2>1, SubSeqProperties
<1>3. /\ b \in Seq(Entry) /\ Len(b) = Len(q) - k
      /\ \A j \in 1 .. Len(q) - k : b[j] = q[j + k]
  <2>1. \A j \in k + 1 .. Len(q) : j \in 1 .. Len(q)
    BY <1>1
  <2>2. k + 1 <= Len(q) + 1 /\ k + 1 \in Int
    BY <1>1
  <2> QED BY <1>1, <2>1, <2>2, SubSeqProperties
<1>4. r = a \o b
  BY DEF Unlinked
<1> HIDE DEF a, b, r
<1>5. /\ r \in Seq(Entry) /\ Len(r) = Len(q) - 1 /\ DOMAIN r = 1 .. Len(q) - 1
      /\ \A j \in 1 .. Len(q) - 1 : r[j] = IF j <= Len(a) THEN a[j] ELSE b[j - Len(a)]
  <2>1. /\ a \o b \in Seq(Entry) /\ Len(a \o b) = Len(a) + Len(b)
        /\ \A j \in 1 .. Len(a) + Len(b) :
             (a \o b)[j] = IF j <= Len(a) THEN a[j] ELSE b[j - Len(a)]
    BY <1>2, <1>3, ConcatProperties, Zenon
  <2>2. Len(a) + Len(b) = Len(q) - 1
    BY <1>1, <1>2, <1>3
  <2> QED BY <1>4, <2>1, <2>2
<1>6. ASSUME NEW j \in DOMAIN r
      PROVE  from(j) \in DOMAIN q /\ from(j) # k /\ r[j] = q[from(j)]
  <2>1. j \in Nat /\ j >= 1 /\ j <= Len(q) - 1
    BY <1>1, <1>5, <1>6
  <2>2. CASE j < k
    <3>1. j <= Len(a) /\ j \in 1 .. k - 1
      BY <1>1, <1>2, <2>1, <2>2
    <3> QED BY <1>1, <1>2, <1>5, <1>6, <2>1, <2>2, <3>1
  <2>3. CASE ~(j < k)
    <3>1. ~(j <= Len(a)) /\ j - Len(a) \in 1 .. Len(q) - k /\ j - Len(a) + k = j + 1
      BY <1>1, <1>2, <2>1, <2>3
    <3>2. r[j] = q[j + 1]
      BY <1>3, <1>5, <1>6, <3>1
    <3> QED BY <1>1, <2>1, <2>3, <3>2
  <2> QED BY <2>2, <2>3
<1>7. ASSUME NEW i \in DOMAIN q, i # k
      PROVE  \E j \in DOMAIN r : from(j) = i
  <2>1. CASE i < k
    BY <1>1, <1>5, <1>7, <2>1
  <2>2. CASE ~(i < k)
    <3>1. i - 1 \in DOMAIN r /\ ~(i - 1 < k)
      BY <1>1, <1>5, <1>7, <2>2
    <3>2. from(i - 1) = i
      BY <1>1, <3>1
    <3> QED BY <3>1, <3>2
  <2> QED BY <2>1, <2>2
<1>8. \A i, j \in DOMAIN r : from(i) = from(j) => i = j
  BY <1>1, <1>5
<1> HIDE DEF from
<1>9. \A i, j \in DOMAIN r : r[i].ip = r[j].ip => i = j
  BY <1>6, <1>8 DEF QueueSound
<1>10. \A i \in DOMAIN r : EntrySound(r[i])
  BY <1>6 DEF QueueSound
<1>11. QueueSound(r)
  BY <1>5, <1>9, <1>10 DEF QueueSound
<1> QED BY <1>6, <1>7, <1>11 DEF r

(* Both tables when the frame at hand is looked at. *)
LEMMA FlushedQueue ==
    ASSUME NEW q, QueueSound(q), NEW t \in 0 .. MaxLapse
    PROVE  /\ QueueSound(AgedQueue(QueueFlush(q), t))
           /\ \A k \in DOMAIN AgedQueue(QueueFlush(q), t) : \E i \in DOMAIN q :
                /\ ~OutOfTries(q[i])
                /\ AgedQueue(QueueFlush(q), t)[k].ip = q[i].ip
                /\ AgedQueue(QueueFlush(q), t)[k].hop = q[i].hop
                /\ AgedQueue(QueueFlush(q), t)[k].packets = q[i].packets
           /\ \A i \in DOMAIN q : ~OutOfTries(q[i]) =>
                \E k \in DOMAIN AgedQueue(QueueFlush(q), t) :
                  AgedQueue(QueueFlush(q), t)[k].packets = q[i].packets
<1> DEFINE r == QueueFlush(q)
           s == AgedQueue(r, t)
<1>1. t \in Nat /\ MaxLapse \in Nat
  BY ParameterAssumption
<1>2. /\ QueueSound(r)
      /\ \A k \in DOMAIN r : \E i \in DOMAIN q :
           ~OutOfTries(q[i]) /\ r[k] = RetriedEntry(q[i])
      /\ \A i \in DOMAIN q : ~OutOfTries(q[i]) =>
           \E k \in DOMAIN r : r[k] = RetriedEntry(q[i])
  BY FlushKeeps
<1> HIDE DEF r
<1>3. /\ QueueSound(s) /\ DOMAIN s = DOMAIN r
      /\ \A k \in DOMAIN r :
           /\ s[k].ip = r[k].ip /\ s[k].hop = r[k].hop /\ s[k].packets = r[k].packets
           /\ s[k].reqs = r[k].reqs /\ s[k].age = Older(r[k].age, t, OldRequest)
  BY <1>1, <1>2, AgedQueueSound
<1> HIDE DEF s
<1>4. \A i \in DOMAIN q : /\ EntrySound(q[i])
                          /\ RetriedEntry(q[i]).ip = q[i].ip
                          /\ RetriedEntry(q[i]).hop = q[i].hop
                          /\ RetriedEntry(q[i]).packets = q[i].packets
  BY RetriedSound DEF QueueSound
<1>5. ASSUME NEW k \in DOMAIN s
      PROVE  \E i \in DOMAIN q : ~OutOfTries(q[i]) /\ s[k].ip = q[i].ip
                                   /\ s[k].hop = q[i].hop /\ s[k].packets = q[i].packets
  <2>1. PICK i \in DOMAIN q : ~OutOfTries(q[i]) /\ r[k] = RetriedEntry(q[i])
    BY <1>2, <1>3, <1>5
  <2> QED BY <1>3, <1>4, <1>5, <2>1
<1>6. ASSUME NEW i \in DOMAIN q, ~OutOfTries(q[i])
      PROVE  \E k \in DOMAIN s : s[k].packets = q[i].packets
  <2>1. PICK k \in DOMAIN r : r[k] = RetriedEntry(q[i])
    BY <1>2, <1>6
  <2> QED BY <1>3, <1>4, <1>6, <2>1
<1> QED BY <1>3, <1>5, <1>6 DEF r, s

---------------------------------------------------------------------------
(* One frame. *)
LEMMA LeaveSound ==
    ASSUME NEW c, NEW h, CacheSound(c, h), NEW q, QueueSound(q),
           NEW f, FramesSound(f, h), NEW s, Leave(c, q, f, s)
    PROVE  /\ CacheSound(cache', h) /\ QueueSound(queue') /\ FramesSound(out', h)
           /\ status' = s /\ ifs' = ifs
<1>1. FramesSound(SrSendPacket(f), h)
  BY FramesLeft
<1> QED BY <1>1 DEF Leave

LEMMA OtherFrames ==
    ASSUME NEW d, NEW h, d.type # "data"
    PROVE  FrameSound(d, h)
BY DEF FrameSound

LEMMA IpSound ==
    ASSUME NEW c, NEW h, CacheSound(c, h), NEW q, QueueSound(q),
           NEW f, FramesSound(f, h), NEW p \in Packets,
           \A a \in DOMAIN c : c[a].age <= ARP_CACHE_TIMEOUT + MaxLapse,
           \/ Discard(p, c, q, f) \/ ForUs(p, c, q, f) \/ TimedOut(p, c, q, f)
           \/ Unroutable(p, c, q, f) \/ Forward(p, c, q, f) \/ Enqueue(p, c, q, f)
           \/ EnqueueMore(p, c, q, f) \/ EnqueueFirst(p, c, q, f) \/ GiveUp(p, c, q, f)
    PROVE  /\ CacheSound(cache', h) /\ QueueSound(queue') /\ FramesSound(out', h)
           /\ status' \in {"up", "crashed", "hung", "dangling"} /\ ifs' = ifs
<1> DEFINE done == /\ CacheSound(cache', h) /\ QueueSound(queue')
                   /\ FramesSound(out', h) /\ ifs' = ifs
                   /\ status' \in {"up", "crashed", "hung", "dangling"}
<1> SUFFICES done
  OBVIOUS
<1>1. ASSUME NEW g, \A d \in g : FrameSound(d, h), NEW r, QueueSound(r),
             NEW s \in {"up", "crashed", "hung", "dangling"}, Leave(c, r, f \union g, s)
      PROVE  done
  <2>1. FramesSound(f \union g, h)
    BY <1>1 DEF FramesSound
  <2> QED BY <1>1, <2>1, LeaveSound
<1>2. ASSUME NEW s \in {"up", "crashed", "hung", "dangling"}, Leave(c, q, f, s)
      PROVE  done
  BY <1>2, LeaveSound
<1> HIDE DEF done
<1>3. CASE Discard(p, c, q, f)
  BY <1>2, <1>3 DEF Discard
<1>11. ASSUME NEW code, code # "data", AnswerError(p, code, c, q, f)
       PROVE  done
  <2>1. FrameSound(IcmpError(p, code), h)
    BY <1>11 DEF FrameSound, IcmpError
  <2> QED BY <1>1, <1>2, <1>11, <2>1 DEF AnswerError
<1>4. CASE ForUs(p, c, q, f)
  <2>1. FrameSound(IcmpEcho(p), h)
    <3>1. IcmpEcho(p).type = "echo reply"
      BY DEF IcmpEcho
    <3> QED BY <3>1, OtherFrames
  <2>3. CASE Leave(c, q, f \union {IcmpEcho(p)}, "up")
    BY <1>1, <2>1, <2>3
  <2>4. CASE Leave(c, q, f, "up") \/ Leave(c, q, f, "crashed")
    BY <1>2, <2>4
  <2>5. CASE AnswerError(p, "port unreachable", c, q, f)
    BY <1>11, <2>5
  <2> QED BY <1>4, <2>3, <2>4, <2>5 DEF ForUs
<1>5. CASE TimedOut(p, c, q, f)
  <2>1. CASE Leave(c, q, f, "up")
    BY <1>2, <2>1
  <2>2. CASE AnswerError(p, "time exceeded", c, q, f)
    BY <1>11, <2>2
  <2> QED BY <1>5, <2>1, <2>2 DEF TimedOut
<1>6. CASE Unroutable(p, c, q, f)
  BY <1>2, <1>6 DEF Unroutable
<1>7. CASE Forward(p, c, q, f)
  <2>1. HasRoute(p.dst) /\ Route(p.dst).gw \in DOMAIN c
    BY <1>7 DEF Forward, Routable, Usable
  <2>2. h[Route(p.dst).gw] = c[Route(p.dst).gw]
    BY <2>1 DEF CacheSound
  <2>3. FrameSound(DataFrame(p, c[Route(p.dst).gw].mac), h)
    BY <2>1, <2>2, DataSound
  <2> QED BY <1>1, <1>7, <2>3 DEF Forward
<1>8. CASE Enqueue(p, c, q, f)
  <2>1. HasRoute(p.dst) /\ QueueLookup(q, p.dst) = {}
    BY <1>8 DEF Enqueue, Routable, Usable
  <2>2. FrameSound(ArpRequest(p.dst), h)
    <3>1. ArpRequest(p.dst).type = "request"
      BY DEF ArpRequest
    <3> QED BY <3>1, OtherFrames
  <2>3. QueueSound(Append(q, NewEntry(p)))
    BY <2>1, Appended
  <2> QED BY <1>1, <1>8, <2>2, <2>3 DEF Enqueue
<1>9. CASE EnqueueMore(p, c, q, f)
  <2>1. PICK i \in QueueLookup(q, p.dst) :
           /\ q[i].packets # <<>>
           /\ Leave(c, [q EXCEPT ![i] = AddPacket(RetriedEntry(q[i]), p)],
                    f \union {ArpRequest(p.dst)}, "up")
    BY <1>9 DEF EnqueueMore
  <2> DEFINE e == RetriedEntry(q[i])
  <2>2. i \in DOMAIN q /\ q[i].ip = p.dst /\ EntrySound(q[i])
    BY DEF QueueLookup, QueueSound
  <2>3. EntrySound(e) /\ e.ip = p.dst /\ e.packets # <<>>
    BY <2>1, <2>2, RetriedSound
  <2>4. FrameSound(ArpRequest(p.dst), h)
    <3>1. ArpRequest(p.dst).type = "request"
      BY DEF ArpRequest
    <3> QED BY <3>1, OtherFrames
  <2>5. QueueSound([q EXCEPT ![i] = AddPacket(e, p)])
    <3> HIDE DEF e
    <3>1. EntrySound(AddPacket(e, p)) /\ AddPacket(e, p).ip = q[i].ip
      BY <2>2, <2>3, Added
    <3> QED BY <2>2, <3>1, Replaced
  <2> QED BY <1>1, <2>1, <2>4, <2>5
<1>12. CASE EnqueueFirst(p, c, q, f)
  BY <1>2, <1>12 DEF EnqueueFirst
<1>10. CASE GiveUp(p, c, q, f)
  <2>1. PICK i \in QueueLookup(q, p.dst) :
          \/ Leave(c, q, f, "hung")
          \/ Leave(c, q, f, "crashed")
          \/ Leave(c, q, f \union {ReturnedFrame(r) : r \in PacketsOf(q[i])}, "dangling")
    BY <1>10 DEF GiveUp
  <2>2. \A d \in {ReturnedFrame(r) : r \in PacketsOf(q[i])} : FrameSound(d, h)
    <3>1. \A r : ReturnedFrame(r).type = "returned"
      BY DEF ReturnedFrame
    <3> QED BY <3>1, OtherFrames
  <2> QED BY <1>1, <1>2, <2>1, <2>2
<1> QED BY <1>3, <1>4, <1>5, <1>6, <1>7, <1>8, <1>9, <1>10, <1>12 DEF done

(* arp_cache_update() and arp_cache_add(), as announced. *)
HeardSince(g, h, sip, sha) ==
    /\ g \in [Addr -> [mac : Mac \union {NoMac}, age : CacheAge]]
    /\ g[sip] = [mac |-> sha, age |-> 0]
    /\ \A a \in Addr : a # sip => g[a] = h[a]

LEMMA Announced ==
    ASSUME NEW c, NEW h, NEW g, NEW sip \in Addr, NEW sha \in Mac,
           CacheSound(c, h), HeardSince(g, h, sip, sha)
    PROVE  /\ sip \in DOMAIN c => CacheSound(CacheUpdate(c, sip, sha), g)
           /\ sip \notin DOMAIN c => CacheSound(c, g)
           /\ CacheSound(CacheAdd(c, sip, sha), g)
           /\ DOMAIN CacheAdd(c, sip, sha) = DOMAIN c \union {sip}
<1> DEFINE m == [mac |-> sha, age |-> 0]
           Mapping == [mac : Mac, age : CacheAge]
           Heard == [mac : Mac \union {NoMac}, age : CacheAge]
<1>1. 0 \in CacheAge
  BY ParameterAssumption DEF CacheAge
<1>2. m \in Mapping /\ m \in Heard
  BY <1>1
<1>3. /\ DOMAIN c \subseteq Addr /\ c \in [DOMAIN c -> Mapping] /\ h \in [Addr -> Heard]
      /\ \A a \in DOMAIN c : c[a] = h[a]
  BY DEF CacheSound
<1> HIDE DEF m, Mapping, Heard
<1>4. g \in [Addr -> Heard] /\ \A a \in Addr : g[a] = IF a = sip THEN m ELSE h[a]
  BY DEF HeardSince, m, Heard
<1>5. sip \in DOMAIN c => CacheSound([c EXCEPT ![sip] = m], g)
  BY <1>2, <1>3, <1>4 DEF CacheSound, Mapping, Heard
<1>6. sip \notin DOMAIN c => CacheSound(c, g)
  BY <1>3, <1>4 DEF CacheSound, Mapping, Heard
<1> DEFINE d == [a \in DOMAIN c \union {sip} |-> IF a = sip THEN m ELSE c[a]]
<1>7. DOMAIN d = DOMAIN c \union {sip} /\ DOMAIN d \subseteq Addr
  BY <1>3
<1>8. d \in [DOMAIN d -> Mapping] /\ \A a \in DOMAIN d : d[a] = g[a]
  BY <1>2, <1>3, <1>4
<1> HIDE DEF d
<1>9. CacheSound(d, g)
  BY <1>4, <1>7, <1>8 DEF CacheSound, Mapping, Heard
<1> QED BY <1>4, <1>5, <1>6, <1>7, <1>9 DEF d, m, CacheUpdate, CacheAdd

LEMMA ArpSound ==
    ASSUME CacheSound(cache, heard), QueueSound(queue), NEW i, NEW op, NEW tip,
           NEW sip \in Addr, NEW sha \in Mac, HandleArp(sip, sha, tip, op, i)
    PROVE  /\ CacheSound(cache', heard') /\ QueueSound(queue')
           /\ FramesSound(out', heard') /\ status' = "up" /\ ifs' = ifs
<1>1. PICK t \in 0 .. MaxLapse :
         LET c == AgedCache(CacheFlush(cache), t)
             q == AgedQueue(QueueFlush(queue), t)
             f == QueueFlushFrames(queue)
             g == IF op = "request" /\ ForMe(tip)
                  THEN f \union {ArpReply(sip, sha, i.name)} ELSE f
         IN  /\ heard' = [AgedCache(heard, t) EXCEPT
                              ![sip] = [mac |-> sha, age |-> 0]]
             /\ \/ /\ sip \in DOMAIN c
                   /\ Leave(CacheUpdate(c, sip, sha), q, g, "up")
                \/ /\ sip \notin DOMAIN c
                   /\ Leave(c, q, g, "up")
                \/ Leave(CacheAdd(c, sip, sha), q, g, "up")
                \/ \E k \in NextHopLookup(q, sip) :
                     Leave(CacheAdd(c, sip, sha), Unlinked(q, k),
                           g \union ClearFrames(q[k], sha), "up")
  BY DEF HandleArp
<1> DEFINE c == AgedCache(CacheFlush(cache), t)
           q == AgedQueue(QueueFlush(queue), t)
           f == QueueFlushFrames(queue)
           g == IF op = "request" /\ ForMe(tip)
                THEN f \union {ArpReply(sip, sha, i.name)} ELSE f
           h == [AgedCache(heard, t) EXCEPT ![sip] = [mac |-> sha, age |-> 0]]
<1>2. CacheSound(c, AgedCache(heard, t))
  BY FlushedCache
<1>3. QueueSound(q)
  BY FlushedQueue
<1>4. FramesSound(g, h)
  <2>1. FramesSound(f, h)
    BY FlushSends
  <2>2. FramesSound({ArpReply(sip, sha, i.name)}, h)
    <3>1. ArpReply(sip, sha, i.name).type = "reply"
      BY DEF ArpReply
    <3> QED BY <3>1, OtherFrames DEF FramesSound
  <2> QED BY <2>1, <2>2, FramesTogether
<1> HIDE DEF c, q, f, g
<1> DEFINE old == AgedCache(heard, t)
<1> HIDE DEF old
<1>5. /\ sip \in DOMAIN c => CacheSound(CacheUpdate(c, sip, sha), h)
      /\ sip \notin DOMAIN c => CacheSound(c, h)
      /\ CacheSound(CacheAdd(c, sip, sha), h)
      /\ h[sip] = [mac |-> sha, age |-> 0]
  <2>1. CacheSound(c, old) /\ h = [old EXCEPT ![sip] = [mac |-> sha, age |-> 0]]
    BY <1>2 DEF old
  <2>2. old \in [Addr -> [mac : Mac \union {NoMac}, age : CacheAge]]
    BY <2>1 DEF CacheSound
  <2> HIDE DEF h
  <2>3. /\ h[sip] = [mac |-> sha, age |-> 0]
        /\ \A a \in Addr : a # sip => h[a] = old[a]
    BY <2>1, <2>2
  <2>4. h \in [Addr -> [mac : Mac \union {NoMac}, age : CacheAge]]
    <3>1. 0 \in CacheAge
      BY ParameterAssumption DEF CacheAge
    <3> QED BY <2>1, <2>2, <3>1
  <2>5. CacheSound(c, old)
    BY <2>1
  <2>6. /\ sip \in DOMAIN c => CacheSound(CacheUpdate(c, sip, sha), h)
        /\ sip \notin DOMAIN c => CacheSound(c, h)
        /\ CacheSound(CacheAdd(c, sip, sha), h)
    <3>1. HeardSince(h, old, sip, sha)
      BY <2>3, <2>4 DEF HeardSince
    <3> QED BY <2>5, <3>1, Announced
  <2> QED BY <2>3, <2>6
<1>6. /\ heard' = h
      /\ \/ sip \in DOMAIN c /\ Leave(CacheUpdate(c, sip, sha), q, g, "up")
         \/ sip \notin DOMAIN c /\ Leave(c, q, g, "up")
         \/ Leave(CacheAdd(c, sip, sha), q, g, "up")
         \/ \E k \in NextHopLookup(q, sip) :
              Leave(CacheAdd(c, sip, sha), Unlinked(q, k),
                    g \union ClearFrames(q[k], sha), "up")
  BY <1>1 DEF c, q, f, g
<1> HIDE DEF h
<1>7. ASSUME NEW k \in NextHopLookup(q, sip)
      PROVE  FramesSound(ClearFrames(q[k], sha), h) /\ k \in DOMAIN q
  <2>1. k \in DOMAIN q /\ q[k].hop = sip /\ EntrySound(q[k])
    BY <1>3, <1>7 DEF NextHopLookup, QueueSound
  <2>2. ASSUME NEW p \in PacketsOf(q[k]) PROVE FrameSound(DataFrame(p, sha), h)
    <3>2. q[k].packets # <<>>
      BY <2>2 DEF PacketsOf
    <3>3. p.dst = q[k].ip /\ HasRoute(p.dst) /\ Route(p.dst).gw = sip
      BY <2>1, <2>2, <3>2 DEF EntrySound
    <3>4. h[sip].mac = sha /\ h[sip].age = 0
      BY <1>5
    <3>5. 0 <= ARP_CACHE_TIMEOUT + MaxLapse
      BY ParameterAssumption
    <3> QED BY <3>3, <3>4, <3>5, DataSound
  <2> QED BY <2>1, <2>2 DEF FramesSound, ClearFrames
<1>8. ASSUME NEW k \in NextHopLookup(q, sip),
             Leave(CacheAdd(c, sip, sha), Unlinked(q, k), g \union ClearFrames(q[k], sha), "up")
      PROVE  /\ CacheSound(cache', h) /\ QueueSound(queue') /\ FramesSound(out', h)
             /\ status' = "up" /\ ifs' = ifs
  <2>1. QueueSound(Unlinked(q, k))
    BY <1>3, <1>7, <1>8, UnlinkedSound
  <2>2. FramesSound(g \union ClearFrames(q[k], sha), h)
    BY <1>4, <1>7, <1>8, FramesTogether
  <2> QED BY <1>5, <1>8, <2>1, <2>2, LeaveSound
<1> QED BY <1>3, <1>4, <1>5, <1>6, <1>8, LeaveSound

---------------------------------------------------------------------------
(* The router's process: every step of it keeps the invariant. *)
TablesSound ==
    CacheSound(cache, heard) /\ QueueSound(queue) /\ FramesSound(out, heard)

(* A step that neither takes nor sends a frame. *)
LEMMA QuietStep ==
    ASSUME CacheSound(cache, heard), QueueSound(queue), out' = {},
           UNCHANGED <<cache, queue, heard>>
    PROVE  TablesSound'
BY DEF TablesSound, FramesSound

LEMMA IpStep ==
    ASSUME CacheSound(cache, heard), QueueSound(queue), NEW p \in Packets, HandleIp(p)
    PROVE  /\ TablesSound' /\ ifs' = ifs
           /\ status' \in {"up", "crashed", "hung", "dangling"}
<1>1. PICK t \in 0 .. MaxLapse :
         LET c == AgedCache(CacheFlush(cache), t)
             q == AgedQueue(QueueFlush(queue), t)
             f == QueueFlushFrames(queue)
         IN  /\ heard' = AgedCache(heard, t)
             /\ \/ Discard(p, c, q, f) \/ ForUs(p, c, q, f) \/ TimedOut(p, c, q, f)
                \/ Unroutable(p, c, q, f) \/ Forward(p, c, q, f) \/ Enqueue(p, c, q, f)
                \/ EnqueueMore(p, c, q, f) \/ EnqueueFirst(p, c, q, f) \/ GiveUp(p, c, q, f)
  BY DEF HandleIp
<1> DEFINE c == AgedCache(CacheFlush(cache), t)
           q == AgedQueue(QueueFlush(queue), t)
           f == QueueFlushFrames(queue)
           h == AgedCache(heard, t)
<1>2. /\ CacheSound(c, h)
      /\ \A a \in DOMAIN c : c[a].age <= ARP_CACHE_TIMEOUT + MaxLapse
  BY FlushedCache
<1>3. QueueSound(q)
  BY FlushedQueue
<1>4. FramesSound(f, h)
  BY FlushSends
<1>5. /\ heard' = h
      /\ \/ Discard(p, c, q, f) \/ ForUs(p, c, q, f) \/ TimedOut(p, c, q, f)
         \/ Unroutable(p, c, q, f) \/ Forward(p, c, q, f) \/ Enqueue(p, c, q, f)
         \/ EnqueueMore(p, c, q, f) \/ EnqueueFirst(p, c, q, f) \/ GiveUp(p, c, q, f)
  BY <1>1
<1> HIDE DEF c, q, f, h
<1>6. /\ CacheSound(cache', h) /\ QueueSound(queue') /\ FramesSound(out', h)
      /\ status' \in {"up", "crashed", "hung", "dangling"} /\ ifs' = ifs
  BY <1>2, <1>3, <1>4, <1>5, IpSound
<1> QED BY <1>5, <1>6 DEF TablesSound

LEMMA OtherStep ==
    ASSUME CacheSound(cache, heard), QueueSound(queue), HandleOther
    PROVE  TablesSound' /\ ifs' = ifs /\ status' = "crashed"
<1>1. DOMAIN CacheFlush(cache) \subseteq DOMAIN cache
  BY DEF CacheFlush
<1>2. CacheSound(CacheFlush(cache), heard)
  BY <1>1 DEF CacheSound, CacheFlush
<1>3. QueueSound(QueueFlush(queue))
  BY FlushKeeps
<1>4. FramesSound(QueueFlushFrames(queue), heard)
  BY FlushSends
<1>5. /\ Leave(CacheFlush(cache), QueueFlush(queue), QueueFlushFrames(queue), "crashed")
      /\ heard' = heard
  BY DEF HandleOther
<1>6. /\ CacheSound(cache', heard) /\ QueueSound(queue') /\ FramesSound(out', heard)
      /\ status' = "crashed" /\ ifs' = ifs
  BY <1>2, <1>3, <1>4, <1>5, LeaveSound
<1> QED BY <1>5, <1>6 DEF TablesSound

LEMMA TickStep ==
    ASSUME CacheSound(cache, heard), QueueSound(queue), Tick
    PROVE  TablesSound' /\ ifs' = ifs /\ status' = "up" /\ status = "up"
<1>1. CacheSound(AgedCache(cache, 1), AgedCache(heard, 1))
  BY AgedCacheSound
<1>2. QueueSound(AgedQueue(queue, 1))
  BY AgedQueueSound
<1> QED BY <1>1, <1>2 DEF Tick, TablesSound, FramesSound

LEMMA PacketStep ==
    ASSUME CacheSound(cache, heard), QueueSound(queue), HandlePacket
    PROVE  /\ TablesSound' /\ ifs' = ifs /\ status = "up"
           /\ status' \in {"up", "crashed", "hung", "dangling"}
<1>1. ASSUME NEW p \in Packets, HandleIp(p)
      PROVE  /\ TablesSound' /\ ifs' = ifs /\ status = "up"
             /\ status' \in {"up", "crashed", "hung", "dangling"}
  BY <1>1, IpStep DEF HandleIp
<1>2. ASSUME SomeArp
      PROVE  /\ TablesSound' /\ ifs' = ifs /\ status = "up" /\ status' = "up"
  <2>1. PICK sip \in Addr, sha \in Mac, tip \in Addr \union IfAddr, i \in ifs,
             op \in {"request", "reply"} : HandleArp(sip, sha, tip, op, i)
    BY <1>2 DEF SomeArp
  <2>2. status = "up"
    BY <2>1 DEF HandleArp
  <2> QED BY <2>1, <2>2, ArpSound DEF TablesSound
<1>3. ASSUME Hang PROVE TablesSound' /\ ifs' = ifs /\ status = "up" /\ status' = "hung"
  BY <1>3, QuietStep DEF Hang
<1>5. ASSUME Overrun
      PROVE  TablesSound' /\ ifs' = ifs /\ status = "up" /\ status' = "crashed"
  BY <1>5, QuietStep DEF Overrun
<1>4. ASSUME HandleOther
      PROVE  TablesSound' /\ ifs' = ifs /\ status = "up" /\ status' = "crashed"
  BY <1>4, OtherStep DEF HandleOther
<1> QED BY <1>1, <1>2, <1>3, <1>4, <1>5 DEF HandlePacket

LEMMA RouterStarts == Init => RouterInv
<1> SUFFICES ASSUME Init PROVE RouterInv
  OBVIOUS
<1>1. /\ cache = [a \in {} |-> [mac |-> NoMac, age |-> 0]] /\ queue = <<Sentinel>>
      /\ heard = [a \in Addr |-> [mac |-> NoMac, age |-> OldMapping]]
      /\ status = "up" /\ out = {} /\ ifs = {} /\ session = "start"
  BY DEF Init, RouterInit
<1>2. CacheSound(cache, heard)
  <2>1. OldMapping \in CacheAge
    BY ParameterAssumption DEF OldMapping, CacheAge
  <2> QED BY <1>1, <2>1 DEF CacheSound
<1>3. Sentinel \in Entry
  <2>1. OldRequest \in RequestAge /\ 0 \in 0 .. REQS_MOD - 1 /\ 0 \in 0 .. ARP_MAX_REQ + 1
    BY ParameterAssumption DEF OldRequest, RequestAge
  <2>2. SentinelHop \in Addr \union {NoAddr} /\ <<>> \in Seq(Packets)
    BY TableAssumption
  <2> QED BY <2>1, <2>2 DEF Sentinel, Entry
<1>4. EntrySound(Sentinel)
  BY <1>3 DEF EntrySound, Sentinel
<1>5. QueueSound(queue)
  <2>1. queue \in Seq(Entry) /\ DOMAIN queue = {1} /\ queue[1] = Sentinel
    BY <1>1, <1>3
  <2> QED BY <1>4, <2>1 DEF QueueSound
<1> QED BY <1>1, <1>2, <1>5 DEF RouterInv, FramesSound

LEMMA RouterNext ==
    ASSUME RouterInv, [Next]_vns_vars
    PROVE  RouterInv'
<1>1. /\ CacheSound(cache, heard) /\ QueueSound(queue) /\ FramesSound(out, heard)
      /\ ifs \subseteq Ifaces /\ session \in SetUp \union {"start", "open"}
      /\ status \in {"up", "hung", "crashed", "dangling", "exited", "spinning"}
      /\ status = "up" /\ ifs # {} => VerifyRoutingTable(ifs)
  BY DEF RouterInv
<1> DEFINE S == {"up", "hung", "crashed", "dangling", "exited", "spinning"}
           W == SetUp \union {"start", "open"}
<1>2. ASSUME TablesSound', ifs' = ifs, status = "up", status' \in S, session' \in W
      PROVE  RouterInv'
  BY <1>1, <1>2 DEF RouterInv, TablesSound
<1>3. ASSUME NoFrames, ifs' = ifs, status = "up", status' \in S, session' \in W
      PROVE  RouterInv'
  BY <1>1, <1>2, <1>3, QuietStep DEF NoFrames
<1>4. CASE UNCHANGED vns_vars
  BY <1>1, <1>4 DEF RouterInv, vns_vars
<1>5. CASE Start
  BY <1>3, <1>5 DEF Start, SetUp
<1>6. CASE ConnectStep
  BY <1>3, <1>6 DEF ConnectStep, SetUp, Following
<1>7. ASSUME NEW cmd, Unexpected(cmd) PROVE RouterInv'
  BY <1>1, <1>3, <1>7 DEF Unexpected
<1>8. ASSUME NEW announced \in SUBSET Ifaces, HwInfo(announced) PROVE RouterInv'
  <2>1. TablesSound'
    BY <1>1, <1>8, QuietStep DEF HwInfo, NoFrames
  <2>2. ifs' \subseteq Ifaces /\ status' \in S /\ session' \in W
    BY <1>1, <1>8 DEF HwInfo
  <2>3. status' = "up" => VerifyRoutingTable(ifs')
    BY <1>8 DEF HwInfo
  <2> QED BY <2>1, <2>2, <2>3 DEF RouterInv, TablesSound, VerifyRoutingTable
<1>9. CASE HwInfoWithoutInterface
  BY <1>1, <1>3, <1>9 DEF HwInfoWithoutInterface
<1>10. ASSUME NEW name, PacketOnNoInterface(name) PROVE RouterInv'
  BY <1>1, <1>3, <1>10 DEF PacketOnNoInterface
<1>11. CASE Packet
  BY <1>1, <1>2, <1>11, PacketStep DEF Packet
<1>12. ASSUME NEW cmd, LeaveLoop(cmd) PROVE RouterInv'
  BY <1>1, <1>3, <1>12 DEF LeaveLoop
<1>13. CASE ServerGone
  BY <1>1, <1>3, <1>13 DEF ServerGone
<1>14. CASE Clock
  BY <1>1, <1>2, <1>14, TickStep DEF Clock
<1> QED BY <1>4, <1>5, <1>6, <1>7, <1>8, <1>9, <1>10, <1>11, <1>12, <1>13, <1>14 DEF Next

(* The router's tables, in every reachable state: what is cached is what   *)
(* was announced last, an entry of the ARP queue waits for the next hop of *)
(* its packets, no destination has two entries, and the interfaces of the  *)
(* routing table are there as soon as any is.                              *)
THEOREM RouterInvariant == Spec => []RouterInv
<1>1. Init => RouterInv
  BY RouterStarts
<1>2. RouterInv /\ [Next]_vns_vars => RouterInv'
  BY RouterNext
<1> QED BY <1>1, <1>2, PTL DEF Spec

(* The tables keep the types of their C structures. *)
THEOREM VnsTypeCorrect == Spec => []TypeOK
<1>1. RouterInv => TypeOK
  BY DEF RouterInv, CacheSound, QueueSound, TypeOK
<1> QED BY <1>1, RouterInvariant, PTL

(* sr_handlepacket() and arpq_entry_clear() send a packet by the interface *)
(* of the longest match, to the hardware address its next hop announced    *)
(* last, and not too long ago.                                             *)
THEOREM SentToFreshHop == Spec => []ForwardedToFreshHop
<1>1. RouterInv => ForwardedToFreshHop
  BY DEF RouterInv, FramesSound, FrameSound, ForwardedToFreshHop
<1> QED BY <1>1, RouterInvariant, PTL

(* A packet that has a route crashes the router only by its lengths, by    *)
(* those of one that waits, or by its destination 0.0.0.0:                 *)
(* sr_verify_routing_table() ends the router before update_ip_hdr() could  *)
(* follow a NULL interface, and the entry arp_queue_lookup() finds for any *)
(* other destination has packets.                                          *)
THEOREM RoutesHaveInterfaces == Spec => RoutedNeverCrashes
<1>1. ASSUME RouterInv, status' = "crashed",
             \A r \in Packets : Waiting(r) => r.form # "options",
             NEW p \in Packets, HasRoute(p.dst), p.dst # NoAddr, p.form = "plain"
      PROVE  ~HandleIp(p)
  <2> SUFFICES ASSUME HandleIp(p) PROVE FALSE
    OBVIOUS
  <2>1. PICK t \in 0 .. MaxLapse :
           LET q == AgedQueue(QueueFlush(queue), t)
           IN  \/ \E c, f : Unroutable(p, c, q, f)
               \/ \E i \in QueueLookup(q, p.dst) : q[i].packets = <<>>
               \/ \E i \in QueueLookup(q, p.dst) : Overruns(q[i])
    <3>1. p.form # "options" /\ p.form # "short" /\ status' # "up"
          /\ status' # "hung" /\ status' # "dangling"
      BY <1>1
    <3> QED BY <3>1 DEF HandleIp, Leave, Discard, ForUs, TimedOut, AnswerError,
          ShortIcmp, Forward, Enqueue, EnqueueMore, EnqueueFirst, GiveUp
  <2> DEFINE q == AgedQueue(QueueFlush(queue), t)
  <2>2. /\ QueueSound(q)
        /\ \A k \in DOMAIN q : \E j \in DOMAIN queue : q[k].packets = queue[j].packets
    BY <1>1, FlushedQueue DEF RouterInv
  <2>3. \/ \E c, f : Unroutable(p, c, q, f)
        \/ \E i \in QueueLookup(q, p.dst) : q[i].packets = <<>>
        \/ \E i \in QueueLookup(q, p.dst) : Overruns(q[i])
    BY <2>1
  <2> HIDE DEF q
  <2>4. \A c, f : ~Unroutable(p, c, q, f)
    <3> SUFFICES ASSUME NEW c, NEW f, Unroutable(p, c, q, f) PROVE FALSE
      OBVIOUS
    <3>1. ~Known(Route(p.dst).iface)
      BY <1>1 DEF Unroutable, Usable
    <3>2. status = "up" /\ ifs # {}
      BY DEF HandleIp, Known
    <3>3. \A n \in DOMAIN RoutingTable : Known(RoutingTable[n].iface)
      BY <1>1, <3>2 DEF RouterInv, VerifyRoutingTable, Known
    <3>4. \E i \in DOMAIN RoutingTable : Route(p.dst) = RoutingTable[i]
      BY <1>1, RouteMatches
    <3> QED BY <3>1, <3>3, <3>4
  <2>5. ASSUME NEW i \in QueueLookup(q, p.dst)
        PROVE  q[i].packets # <<>> /\ ~Overruns(q[i])
    <3>1. i \in DOMAIN q /\ q[i].ip = p.dst /\ EntrySound(q[i])
      BY <2>2, <2>5 DEF QueueLookup, QueueSound
    <3>2. q[i].packets # <<>>
      BY <1>1, <3>1 DEF EntrySound
    <3>3. \A n \in DOMAIN q[i].packets : /\ q[i].packets[n] \in Packets
                                        /\ Waiting(q[i].packets[n])
      <4>1. PICK j \in DOMAIN queue : q[i].packets = queue[j].packets
        BY <2>2, <3>1
      <4> QED BY <3>1, <3>2, <4>1 DEF Waiting, PacketsOf, EntrySound
    <3> QED BY <1>1, <3>2, <3>3 DEF Overruns
  <2> QED BY <2>3, <2>4, <2>5
<1>2. RouterInv =>
        (status' = "crashed" /\ (\A r \in Packets : Waiting(r) => r.form # "options") =>
           \A p \in Packets :
               HasRoute(p.dst) /\ p.dst # NoAddr /\ p.form = "plain" => ~HandleIp(p))
  BY <1>1
<1> QED BY <1>2, RouterInvariant, PTL DEF RoutedNeverCrashes

---------------------------------------------------------------------------
(* When packets are given up. *)

(* A packet waits in one entry, and an entry that is out of tries has been *)
(* asked for often enough.                                                 *)
LEMMA WaitsOnce ==
    ASSUME NEW q, QueueSound(q), NEW p, NEW i \in DOMAIN q, p \in PacketsOf(q[i])
    PROVE  /\ \A j \in DOMAIN q : p \in PacketsOf(q[j]) => j = i
           /\ p.dst = q[i].ip /\ HasRoute(p.dst)
           /\ OutOfTries(q[i]) => q[i].asked > ARP_MAX_REQ
<1>1. ASSUME NEW j \in DOMAIN q, p \in PacketsOf(q[j])
      PROVE  p.dst = q[j].ip /\ HasRoute(p.dst) /\ q[j].packets # <<>> /\ EntrySound(q[j])
  <2>1. EntrySound(q[j])
    BY <1>1 DEF QueueSound
  <2>2. q[j].packets # <<>>
    BY <1>1 DEF PacketsOf
  <2> QED BY <1>1, <2>1, <2>2 DEF EntrySound
<1>2. \A j \in DOMAIN q : p \in PacketsOf(q[j]) => j = i
  BY <1>1 DEF QueueSound
<1>3. ASSUME OutOfTries(q[i]) PROVE q[i].asked > ARP_MAX_REQ
  <2>1. /\ q[i].reqs \in 0 .. REQS_MOD - 1 /\ q[i].asked \in 0 .. ARP_MAX_REQ + 1
        /\ q[i].reqs >= ARP_MAX_REQ
        /\ q[i].asked <= ARP_MAX_REQ => q[i].reqs < q[i].asked
    BY <1>1, <1>3 DEF EntrySound, Entry, OutOfTries
  <2>2. ARP_MAX_REQ \in Nat /\ REQS_MOD \in Nat
    BY ParameterAssumption
  <2> QED BY <2>1, <2>2
<1> QED BY <1>1, <1>2, <1>3

(* What becomes of the packets that wait while both tables are flushed. *)
WaitsIn(p, q) == \E i \in DOMAIN q : p \in PacketsOf(q[i])

Survives(q) ==
    /\ \A k \in DOMAIN q : \E i \in DOMAIN queue : q[k].packets = queue[i].packets
    /\ \A i \in DOMAIN queue : ~OutOfTries(queue[i]) =>
         \E k \in DOMAIN q : q[k].packets = queue[i].packets

LEMMA SomeSurvive ==
    ASSUME QueueSound(queue)
    PROVE  /\ \A t \in 0 .. MaxLapse : Survives(AgedQueue(QueueFlush(queue), t))
           /\ Survives(QueueFlush(queue))
<1>1. ASSUME NEW t \in 0 .. MaxLapse PROVE Survives(AgedQueue(QueueFlush(queue), t))
  BY FlushedQueue DEF Survives
<1>2. \A i \in DOMAIN queue : RetriedEntry(queue[i]).packets = queue[i].packets
  BY RetriedSound DEF QueueSound
<1>3. Survives(QueueFlush(queue))
  BY <1>2, FlushKeeps DEF Survives
<1> QED BY <1>1, <1>3

LEMMA StillWaiting ==
    ASSUME QueueSound(queue), NEW q, Survives(q), NEW p
    PROVE  /\ WaitsIn(p, q) => Waiting(p)
           /\ Waiting(p) => WaitsIn(p, q) \/ AskedFor(p) > ARP_MAX_REQ
<1>1. /\ \A k \in DOMAIN q : \E i \in DOMAIN queue : q[k].packets = queue[i].packets
      /\ \A i \in DOMAIN queue : ~OutOfTries(queue[i]) =>
           \E k \in DOMAIN q : q[k].packets = queue[i].packets
  BY DEF Survives
<1>2. WaitsIn(p, q) => Waiting(p)
  BY <1>1 DEF WaitsIn, Waiting, PacketsOf
<1>3. ASSUME Waiting(p) PROVE WaitsIn(p, q) \/ AskedFor(p) > ARP_MAX_REQ
  <2>1. PICK i \in DOMAIN queue : p \in PacketsOf(queue[i])
    BY <1>3 DEF Waiting
  <2>2. CASE ~OutOfTries(queue[i])
    BY <1>1, <2>1, <2>2 DEF WaitsIn, PacketsOf
  <2>3. CASE OutOfTries(queue[i])
    <3>1. queue[i].asked > ARP_MAX_REQ
      BY <1>3, <2>1, <2>3, WaitsOnce
    <3>2. i = CHOOSE j \in DOMAIN queue : p \in PacketsOf(queue[j])
      BY <2>1, WaitsOnce
    <3> QED BY <3>1, <3>2 DEF AskedFor
  <2> QED BY <2>2, <2>3
<1> QED BY <1>2, <1>3

(* The frames with packets among those that go out. *)
Data(f, p) == \E d \in f : d.type = "data" /\ d.packet = p

LEMMA DataOf ==
    ASSUME NEW f, NEW p, NEW s, NEW m, HasRoute(s.dst), Known(Route(s.dst).iface)
    PROVE  /\ Data(SrSendPacket(f), p) => Data(f, p)
           /\ ~Data(QueueFlushFrames(queue), p)
           /\ DataFrame(s, m) \in f => Data(SrSendPacket(f), s)
<1>1. Data(SrSendPacket(f), p) => Data(f, p)
  BY DEF Data, SrSendPacket
<1>2. ~Data(QueueFlushFrames(queue), p)
  BY FlushSends DEF Data
<1>3. DataFrame(s, m) \in f => Data(SrSendPacket(f), s)
  <2> DEFINE d == DataFrame(s, m)
  <2>1. /\ d.type = "data" /\ d.packet = s /\ d.iface = Route(s.dst).iface
        /\ d.shost = "iface"
    BY DEF DataFrame
  <2> HIDE DEF d
  <2>2. d \in f => d \in SrSendPacket(f)
    BY <2>1 DEF SrSendPacket
  <2>3. d \in f => Data(SrSendPacket(f), s)
    BY <2>1, <2>2 DEF Data
  <2> QED BY <2>3 DEF d
<1> QED BY <1>1, <1>2, <1>3

(* An IP packet s: nothing else is sent on or put in the queue. *)
LEMMA IpFate ==
    ASSUME QueueSound(queue), NEW s \in Packets, HandleIp(s)
    PROVE  \E q : /\ Survives(q)
                  /\ \/ /\ \A p : WaitsIn(p, queue') <=> WaitsIn(p, q)
                        /\ \A p : Data(out', p) => p = s
                     \/ /\ \A p : WaitsIn(p, queue') <=> WaitsIn(p, q) \/ p = s
                        /\ \A p : ~Data(out', p)
<1>1. PICK t \in 0 .. MaxLapse :
         LET c == AgedCache(CacheFlush(cache), t)
             q == AgedQueue(QueueFlush(queue), t)
             f == QueueFlushFrames(queue)
         IN  \/ Discard(s, c, q, f) \/ ForUs(s, c, q, f) \/ TimedOut(s, c, q, f)
             \/ Unroutable(s, c, q, f) \/ Forward(s, c, q, f) \/ Enqueue(s, c, q, f)
             \/ EnqueueMore(s, c, q, f) \/ EnqueueFirst(s, c, q, f) \/ GiveUp(s, c, q, f)
  BY DEF HandleIp
<1> DEFINE c == AgedCache(CacheFlush(cache), t)
           q == AgedQueue(QueueFlush(queue), t)
           f == QueueFlushFrames(queue)
<1>2. QueueSound(q)
  BY FlushedQueue
<1>3. Survives(q)
  BY SomeSurvive
<1>4. \A p : ~Data(f, p)
  BY FlushSends DEF Data
<1>5. \/ Discard(s, c, q, f) \/ ForUs(s, c, q, f) \/ TimedOut(s, c, q, f)
      \/ Unroutable(s, c, q, f) \/ Forward(s, c, q, f) \/ Enqueue(s, c, q, f)
      \/ EnqueueMore(s, c, q, f) \/ EnqueueFirst(s, c, q, f) \/ GiveUp(s, c, q, f)
  BY <1>1
<1> HIDE DEF c, q, f
<1> DEFINE stays == queue' = q /\ \A p : Data(out', p) => p = s
           waits == /\ \A p : WaitsIn(p, queue') <=> WaitsIn(p, q) \/ p = s
                    /\ \A p : ~Data(out', p)
<1>6. ASSUME NEW g, \A d \in g : d.type # "data", NEW r, NEW u, Leave(c, r, f \union g, u)
      PROVE  queue' = r /\ \A p : ~Data(out', p)
  BY <1>4, <1>6 DEF Leave, SrSendPacket, Data
<1>7. ASSUME NEW u, Leave(c, q, f, u) PROVE queue' = q /\ \A p : ~Data(out', p)
  BY <1>4, <1>7 DEF Leave, SrSendPacket, Data
<1>8. ASSUME NEW code, code # "data", AnswerError(s, code, c, q, f)
      PROVE  queue' = q /\ \A p : ~Data(out', p)
  <2>1. IcmpError(s, code).type # "data"
    BY <1>8 DEF IcmpError
  <2>2. CASE Leave(c, q, f \union {IcmpError(s, code)}, "up")
    BY <1>6, <2>1, <2>2
  <2>3. CASE Leave(c, q, f, "crashed")
    BY <1>7, <2>3
  <2> QED BY <1>8, <2>2, <2>3 DEF AnswerError
<1>9. CASE ForUs(s, c, q, f)
  <2>1. IcmpEcho(s).type # "data"
    BY DEF IcmpEcho
  <2>2. CASE Leave(c, q, f, "up") \/ Leave(c, q, f, "crashed")
    BY <1>3, <1>7, <2>2
  <2>3. CASE Leave(c, q, f \union {IcmpEcho(s)}, "up")
    BY <1>3, <1>6, <2>1, <2>3
  <2>4. CASE AnswerError(s, "port unreachable", c, q, f)
    BY <1>3, <1>8, <2>4
  <2> QED BY <1>9, <2>2, <2>3, <2>4 DEF ForUs
<1>10. CASE TimedOut(s, c, q, f)
  <2>1. CASE Leave(c, q, f, "up")
    BY <1>3, <1>7, <2>1
  <2>2. CASE AnswerError(s, "time exceeded", c, q, f)
    BY <1>3, <1>8, <2>2
  <2> QED BY <1>10, <2>1, <2>2 DEF TimedOut
<1>11. CASE Discard(s, c, q, f) \/ Unroutable(s, c, q, f) \/ EnqueueFirst(s, c, q, f)
  <2>1. Leave(c, q, f, "up") \/ Leave(c, q, f, "crashed")
    BY <1>11 DEF Discard, Unroutable, EnqueueFirst
  <2> QED BY <1>3, <1>7, <2>1
<1>12. CASE Forward(s, c, q, f)
  <2> DEFINE d == DataFrame(s, c[Route(s.dst).gw].mac)
  <2>1. queue' = q /\ out' = SrSendPacket(f \union {d})
    BY <1>12 DEF Forward, Leave
  <2>2. d.packet = s
    BY DEF DataFrame
  <2> HIDE DEF d
  <2>5. \A p : Data(out', p) => p = s
    BY <1>4, <2>1, <2>2 DEF Data, SrSendPacket
  <2> QED BY <1>3, <2>1, <2>5
<1>13. ArpRequest(s.dst).type # "data"
  BY DEF ArpRequest
<1>14. CASE Enqueue(s, c, q, f)
  <2> DEFINE r == Append(q, NewEntry(s))
  <2>1. HasRoute(s.dst) /\ QueueLookup(q, s.dst) = {}
    BY <1>14 DEF Enqueue, Routable, Usable
  <2>2. Leave(c, r, f \union {ArpRequest(s.dst)}, "up")
    BY <1>14 DEF Enqueue
  <2>3. queue' = r /\ \A p : ~Data(out', p)
    BY <1>6, <1>13, <2>2
  <2>4. /\ QueueSound(r) /\ Len(r) = Len(q) + 1 /\ r[Len(q) + 1] = NewEntry(s)
        /\ \A i \in DOMAIN q : r[i] = q[i]
    BY <1>2, <2>1, Appended
  <2> HIDE DEF r
  <2>5. /\ DOMAIN r = 1 .. Len(q) + 1 /\ DOMAIN q = 1 .. Len(q) /\ Len(q) \in Nat
    BY <1>2, <2>4 DEF QueueSound
  <2>6. \A i \in DOMAIN r : i \in DOMAIN q \/ i = Len(q) + 1
    BY <2>5
  <2>7. (\A i \in DOMAIN q : i \in DOMAIN r) /\ Len(q) + 1 \in DOMAIN r
    BY <2>5
  <2>8. PacketsOf(NewEntry(s)) = {s}
    BY DEF PacketsOf, NewEntry
  <2>9. waits
    BY <2>3, <2>4, <2>6, <2>7, <2>8 DEF WaitsIn
  <2> QED BY <1>3, <2>9
<1>15. CASE EnqueueMore(s, c, q, f)
  <2>1. PICK i \in QueueLookup(q, s.dst) :
           /\ q[i].packets # <<>>
           /\ Leave(c, [q EXCEPT ![i] = AddPacket(RetriedEntry(q[i]), s)],
                    f \union {ArpRequest(s.dst)}, "up")
    BY <1>15 DEF EnqueueMore
  <2> DEFINE e == AddPacket(RetriedEntry(q[i]), s)
             r == [q EXCEPT ![i] = e]
  <2>2. i \in DOMAIN q /\ q[i].ip = s.dst /\ EntrySound(q[i]) /\ q \in Seq(Entry)
    BY <1>2 DEF QueueLookup, QueueSound
  <2>3. PacketsOf(e) = PacketsOf(q[i]) \union {s}
    <3> DEFINE b == RetriedEntry(q[i])
    <3>1. EntrySound(b) /\ b.ip = s.dst /\ b.packets = q[i].packets
      BY <2>2, RetriedSound
    <3> HIDE DEF b
    <3>2. PacketsOf(AddPacket(b, s)) = PacketsOf(b) \union {s}
      BY <2>1, <3>1, Added
    <3>3. PacketsOf(b) = PacketsOf(q[i])
      BY <3>1 DEF PacketsOf
    <3> QED BY <3>2, <3>3 DEF b
  <2>4. queue' = r /\ \A p : ~Data(out', p)
    BY <1>6, <1>13, <2>1
  <2> HIDE DEF e
  <2>5. DOMAIN r = DOMAIN q /\ \A j \in DOMAIN q : r[j] = IF j = i THEN e ELSE q[j]
    BY <2>2
  <2> HIDE DEF r
  <2>6. waits
    BY <2>2, <2>3, <2>4, <2>5 DEF WaitsIn
  <2> QED BY <1>3, <2>6
<1>16. CASE GiveUp(s, c, q, f)
  <2>1. PICK i : \/ Leave(c, q, f, "hung")
                 \/ Leave(c, q, f, "crashed")
                 \/ Leave(c, q, f \union {ReturnedFrame(r) : r \in PacketsOf(q[i])}, "dangling")
    BY <1>16 DEF GiveUp
  <2>2. \A d \in {ReturnedFrame(r) : r \in PacketsOf(q[i])} : d.type # "data"
    BY DEF ReturnedFrame
  <2>3. queue' = q /\ \A p : ~Data(out', p)
    BY <1>6, <1>7, <2>1, <2>2
  <2> QED BY <1>3, <2>3
<1> QED BY <1>5, <1>9, <1>10, <1>11, <1>12, <1>14, <1>15, <1>16

(* An ARP packet: it clears one entry, or none. *)
LEMMA ArpFate ==
    ASSUME RouterInv, NEW i \in ifs, NEW op, NEW tip, NEW sip, NEW sha,
           HandleArp(sip, sha, tip, op, i)
    PROVE  \E q : /\ Survives(q)
                  /\ \A p : WaitsIn(p, queue') => WaitsIn(p, q)
                  /\ \A p : WaitsIn(p, q) => (WaitsIn(p, queue') <=> ~Data(out', p))
<1>1. PICK t \in 0 .. MaxLapse :
         LET c == AgedCache(CacheFlush(cache), t)
             q == AgedQueue(QueueFlush(queue), t)
             f == QueueFlushFrames(queue)
             g == IF op = "request" /\ ForMe(tip)
                  THEN f \union {ArpReply(sip, sha, i.name)} ELSE f
         IN  \/ Leave(CacheUpdate(c, sip, sha), q, g, "up")
             \/ Leave(c, q, g, "up")
             \/ Leave(CacheAdd(c, sip, sha), q, g, "up")
             \/ \E k \in NextHopLookup(q, sip) :
                  Leave(CacheAdd(c, sip, sha), Unlinked(q, k),
                        g \union ClearFrames(q[k], sha), "up")
  BY DEF HandleArp
<1> DEFINE q == AgedQueue(QueueFlush(queue), t)
           f == QueueFlushFrames(queue)
           g == IF op = "request" /\ ForMe(tip)
                THEN f \union {ArpReply(sip, sha, i.name)} ELSE f
<1>2. QueueSound(queue) /\ \A r \in DOMAIN RoutingTable : Known(RoutingTable[r].iface)
  BY DEF RouterInv, HandleArp, VerifyRoutingTable, Known
<1>3. QueueSound(q) /\ Survives(q)
  BY <1>2, FlushedQueue, SomeSurvive
<1>4. \A p : ~Data(g, p)
  <2>1. ArpReply(sip, sha, i.name).type # "data"
    BY DEF ArpReply
  <2>2. \A p : ~Data(f, p)
    BY FlushSends DEF Data
  <2> QED BY <2>1, <2>2 DEF Data
<1>5. \E c : \/ Leave(c, q, g, "up")
             \/ \E k \in NextHopLookup(q, sip) :
                  Leave(c, Unlinked(q, k), g \union ClearFrames(q[k], sha), "up")
  BY <1>1
<1> HIDE DEF q, f, g
<1>6. ASSUME NEW c, Leave(c, q, g, "up")
      PROVE  queue' = q /\ \A p : ~Data(out', p)
  BY <1>4, <1>6 DEF Leave, SrSendPacket, Data
<1>7. ASSUME NEW c, NEW k \in NextHopLookup(q, sip),
             Leave(c, Unlinked(q, k), g \union ClearFrames(q[k], sha), "up"),
             NEW p
      PROVE  /\ WaitsIn(p, queue') => WaitsIn(p, q)
             /\ WaitsIn(p, q) => (WaitsIn(p, queue') <=> ~Data(out', p))
  <2>1. /\ k \in DOMAIN q /\ queue' = Unlinked(q, k)
        /\ out' = SrSendPacket(g \union ClearFrames(q[k], sha))
    BY <1>7 DEF NextHopLookup, Leave
  <2>2. /\ \A m \in DOMAIN queue' : \E n \in DOMAIN q : n # k /\ queue'[m] = q[n]
        /\ \A n \in DOMAIN q : n # k => \E m \in DOMAIN queue' : queue'[m] = q[n]
    BY <1>3, <2>1, UnlinkedSound
  <2>3. WaitsIn(p, queue') => WaitsIn(p, q)
    BY <2>2 DEF WaitsIn
  <2>4. ASSUME WaitsIn(p, q) PROVE WaitsIn(p, queue') <=> ~Data(out', p)
    <3>1. PICK j \in DOMAIN q : p \in PacketsOf(q[j])
      BY <2>4 DEF WaitsIn
    <3>2. /\ \A n \in DOMAIN q : p \in PacketsOf(q[n]) => n = j
          /\ HasRoute(p.dst)
      BY <1>3, <3>1, WaitsOnce
    <3>3. WaitsIn(p, queue') <=> j # k
      BY <3>1, <3>2, <2>2 DEF WaitsIn
    <3>4. Data(out', p) => j = k
      <4>1. \A s : DataFrame(s, sha).packet = s
        BY DEF DataFrame
      <4>2. Data(out', p) => p \in PacketsOf(q[k])
        BY <1>4, <2>1, <4>1 DEF Data, SrSendPacket, ClearFrames
      <4> QED BY <2>1, <3>2, <4>2
    <3>5. j = k => Data(out', p)
      <4>1. j = k => DataFrame(p, sha) \in g \union ClearFrames(q[k], sha)
        BY <3>1 DEF ClearFrames
      <4>2. Known(Route(p.dst).iface)
        BY <1>2, <3>2, RouteMatches
      <4> QED BY <2>1, <3>2, <4>1, <4>2, DataOf
    <3> QED BY <3>3, <3>4, <3>5
  <2> QED BY <2>3, <2>4
<1> QED BY <1>3, <1>5, <1>6, <1>7

(* What GivenUpOnlyAfterAsking says of one packet and one step. *)
Fate(p) ==
    Waiting(p) => \/ Waiting(p)' # Data(out', p)
                  \/ ~Waiting(p)' /\ AskedFor(p) > ARP_MAX_REQ

LEMMA WaitingNext ==
    ASSUME NEW p
    PROVE  (Waiting(p)' <=> WaitsIn(p, queue')) /\ (Waiting(p) <=> WaitsIn(p, queue))
BY DEF Waiting, WaitsIn

LEMMA Fates ==
    ASSUME RouterInv, [Next]_vns_vars, NEW p \in Packets,
           ~UNCHANGED vars
    PROVE  Fate(p)
<1>1. QueueSound(queue)
  BY DEF RouterInv
<1>2. /\ Waiting(p)' \in BOOLEAN /\ Waiting(p) \in BOOLEAN
      /\ Data(out', p) \in BOOLEAN /\ WaitsIn(p, queue') \in BOOLEAN
  BY DEF Waiting, WaitsIn, Data
<1>3. ASSUME NEW s \in Packets, HandleIp(s) PROVE Fate(p)
  <2>1. PICK q : /\ Survives(q)
                 /\ \/ /\ \A r : WaitsIn(r, queue') <=> WaitsIn(r, q)
                       /\ \A r : Data(out', r) => r = s
                    \/ /\ \A r : WaitsIn(r, queue') <=> WaitsIn(r, q) \/ r = s
                       /\ \A r : ~Data(out', r)
    BY <1>1, <1>3, IpFate
  <2>2. ~Waiting(s)
    BY <1>3 DEF HandleIp
  <2>3. /\ WaitsIn(p, q) => Waiting(p)
        /\ Waiting(p) => WaitsIn(p, q) \/ AskedFor(p) > ARP_MAX_REQ
    BY <1>1, <2>1, StillWaiting
  <2>4. CASE p = s
    BY <2>2, <2>4 DEF Fate
  <2>5. CASE p # s
    BY <1>2, <2>1, <2>3, <2>5, WaitingNext DEF Fate
  <2> QED BY <2>4, <2>5
<1>4. ASSUME NEW q, Survives(q), WaitsIn(p, queue') => WaitsIn(p, q),
             WaitsIn(p, q) => (WaitsIn(p, queue') <=> ~Data(out', p))
      PROVE  Fate(p)
  <2>1. Waiting(p) => WaitsIn(p, q) \/ AskedFor(p) > ARP_MAX_REQ
    BY <1>1, <1>4, StillWaiting
  <2> QED BY <1>2, <1>4, <2>1, WaitingNext DEF Fate
<1>5. ASSUME queue' = queue, out' = {} PROVE Fate(p)
  BY <1>2, <1>5, WaitingNext DEF Fate, Data
<1>6. ASSUME HandlePacket PROVE Fate(p)
  <2>1. ASSUME NEW sip \in Addr, NEW sha \in Mac, NEW tip \in Addr \union IfAddr,
               NEW i \in ifs, NEW op \in {"request", "reply"},
               HandleArp(sip, sha, tip, op, i)
        PROVE  Fate(p)
    <3>1. PICK q : /\ Survives(q)
                   /\ \A r : WaitsIn(r, queue') => WaitsIn(r, q)
                   /\ \A r : WaitsIn(r, q) => (WaitsIn(r, queue') <=> ~Data(out', r))
      BY <2>1, ArpFate
    <3> QED BY <1>4, <3>1
  <2>2. ASSUME HandleOther PROVE Fate(p)
    <3>1. /\ queue' = QueueFlush(queue) /\ Survives(QueueFlush(queue))
          /\ out' = SrSendPacket(QueueFlushFrames(queue))
      BY <1>1, <2>2, SomeSurvive DEF HandleOther, Leave
    <3>2. ~Data(out', p)
      BY <3>1, FlushSends DEF Data, SrSendPacket
    <3> QED BY <1>4, <3>1, <3>2
  <2>3. ASSUME Hang \/ Overrun PROVE Fate(p)
    BY <1>5, <2>3 DEF Hang, Overrun
  <2> QED BY <1>3, <1>6, <2>1, <2>2, <2>3 DEF HandlePacket, SomeArp
<1>7. ASSUME Tick PROVE Fate(p)
  <2>1. queue' = AgedQueue(queue, 1) /\ out' = {}
    BY <1>7 DEF Tick
  <2>2. /\ DOMAIN queue' = DOMAIN queue
        /\ \A i \in DOMAIN queue : queue'[i].packets = queue[i].packets
    BY <1>1, <2>1, AgedQueueSound
  <2> QED BY <1>2, <2>1, <2>2 DEF Fate, Waiting, PacketsOf, Data
<1>8. ASSUME NoFrames PROVE Fate(p)
  BY <1>5, <1>8 DEF NoFrames
<1> QED BY <1>6, <1>7, <1>8 DEF Next, Start, ConnectStep, Unexpected, HwInfo,
     HwInfoWithoutInterface, PacketOnNoInterface, Packet, LeaveLoop, ServerGone, Clock,
     vars, vns_vars

(* No packet that waits is lost, and none is given up before more than     *)
(* ARP_MAX_REQ requests were due for it, however arpq_num_reqs wraps and   *)
(* whenever time() moves.                                                  *)
THEOREM AskedBeforeGivingUp == Spec => GivenUpOnlyAfterAsking
<1>1. ASSUME RouterInv, [Next]_vns_vars
      PROVE  [\A p \in Packets :
                Waiting(p) =>
                    \/ Waiting(p)' # \E d \in out' : d.type = "data" /\ d.packet = p
                    \/ ~Waiting(p)' /\ AskedFor(p) > ARP_MAX_REQ]_vars
  <2>1. CASE ~UNCHANGED vars
    <3>1. \A p \in Packets : Fate(p)
      BY <1>1, <2>1, Fates
    <3> QED BY <3>1 DEF Fate, Data
  <2> QED BY <2>1
<1> QED BY <1>1, RouterInvariant, PTL DEF Spec, GivenUpOnlyAfterAsking

---------------------------------------------------------------------------
(* Who waits for whom.  arpq_entry_clear() clears only the first entry     *)
(* that waits for a next hop.                                              *)
Unstranded(c, q) ==
    \A i \in DOMAIN q : q[i].packets # <<>> /\ q[i].hop \in DOMAIN c => Shared(q[i].hop)

(* A next hop that is not shared has one entry. *)
LEMMA EntryOfHop ==
    ASSUME NEW q, QueueSound(q), NEW i \in DOMAIN q, NEW k \in DOMAIN q,
           q[i].hop = q[k].hop, ~Shared(q[k].hop)
    PROVE  i = k
<1>1. ASSUME NEW j \in DOMAIN q, q[j].hop = q[k].hop
      PROVE  \E p \in Packets : /\ p.dst = q[j].ip /\ HasRoute(p.dst)
                                /\ q[k].hop = Route(p.dst).gw
  <2>1. EntrySound(q[j])
    BY <1>1 DEF QueueSound
  <2>2. q[j].packets # <<>>
    BY <1>1, <2>1 DEF EntrySound, Shared
  <2>3. q[j].packets \in Seq(Packets)
    BY <2>1 DEF EntrySound, Entry
  <2>4. q[j].packets[1] \in PacketsOf(q[j])
    BY <2>2, <2>3 DEF PacketsOf
  <2> QED BY <1>1, <2>1, <2>2, <2>4 DEF EntrySound
<1>2. q[i].ip = q[k].ip
  BY <1>1 DEF Shared
<1> QED BY <1>2 DEF QueueSound

(* The tables after the flush. *)
LEMMA FlushedUnstranded ==
    ASSUME CacheSound(cache, heard), QueueSound(queue), Unstranded(cache, queue),
           NEW t \in 0 .. MaxLapse
    PROVE  Unstranded(AgedCache(CacheFlush(cache), t), AgedQueue(QueueFlush(queue), t))
<1>1. DOMAIN AgedCache(CacheFlush(cache), t) \subseteq DOMAIN cache
  BY FlushedCache
<1> DEFINE q == AgedQueue(QueueFlush(queue), t)
<1>2. \A k \in DOMAIN q : \E i \in DOMAIN queue :
        q[k].hop = queue[i].hop /\ q[k].packets = queue[i].packets
  BY FlushedQueue
<1> HIDE DEF q
<1>3. Unstranded(AgedCache(CacheFlush(cache), t), q)
  BY <1>1, <1>2 DEF Unstranded
<1> QED BY <1>3 DEF q

LEMMA IpUnstranded ==
    ASSUME CacheSound(cache, heard), QueueSound(queue), Unstranded(cache, queue),
           NEW p \in Packets, HandleIp(p)
    PROVE  Unstranded(cache', queue')
<1>1. PICK t \in 0 .. MaxLapse :
         LET c == AgedCache(CacheFlush(cache), t)
             q == AgedQueue(QueueFlush(queue), t)
             f == QueueFlushFrames(queue)
         IN  \/ Discard(p, c, q, f) \/ ForUs(p, c, q, f) \/ TimedOut(p, c, q, f)
             \/ Unroutable(p, c, q, f) \/ Forward(p, c, q, f) \/ Enqueue(p, c, q, f)
             \/ EnqueueMore(p, c, q, f) \/ EnqueueFirst(p, c, q, f) \/ GiveUp(p, c, q, f)
  BY DEF HandleIp
<1> DEFINE c == AgedCache(CacheFlush(cache), t)
           q == AgedQueue(QueueFlush(queue), t)
           f == QueueFlushFrames(queue)
<1>2. QueueSound(q)
  BY FlushedQueue
<1>3. Unstranded(c, q)
  BY FlushedUnstranded
<1>4. \/ Discard(p, c, q, f) \/ ForUs(p, c, q, f) \/ TimedOut(p, c, q, f)
      \/ Unroutable(p, c, q, f) \/ Forward(p, c, q, f) \/ Enqueue(p, c, q, f)
      \/ EnqueueMore(p, c, q, f) \/ EnqueueFirst(p, c, q, f) \/ GiveUp(p, c, q, f)
  BY <1>1
<1> HIDE DEF c, q, f
<1>5. CASE Enqueue(p, c, q, f)
  <2> DEFINE r == Append(q, NewEntry(p))
  <2>1. /\ HasRoute(p.dst) /\ QueueLookup(q, p.dst) = {} /\ Route(p.dst).gw \notin DOMAIN c
        /\ cache' = c /\ queue' = r
    BY <1>5 DEF Enqueue, Routable, Usable, Leave
  <2>2. /\ QueueSound(r) /\ Len(r) = Len(q) + 1 /\ r[Len(q) + 1] = NewEntry(p)
        /\ \A i \in DOMAIN q : r[i] = q[i]
    BY <1>2, <2>1, Appended
  <2> HIDE DEF r
  <2>3. \A i \in DOMAIN r : i \in DOMAIN q \/ i = Len(q) + 1
    BY <1>2, <2>2 DEF QueueSound
  <2>4. NewEntry(p).hop = Route(p.dst).gw
    BY DEF NewEntry
  <2> QED BY <1>3, <2>1, <2>2, <2>3, <2>4 DEF Unstranded
<1>6. CASE EnqueueMore(p, c, q, f)
  <2>1. PICK i \in QueueLookup(q, p.dst) :
           /\ q[i].packets # <<>> /\ cache' = c
           /\ queue' = [q EXCEPT ![i] = AddPacket(RetriedEntry(q[i]), p)]
    BY <1>6 DEF EnqueueMore, Leave
  <2> DEFINE b == RetriedEntry(q[i])
             e == AddPacket(b, p)
  <2>2. i \in DOMAIN q /\ q[i].ip = p.dst /\ EntrySound(q[i]) /\ q \in Seq(Entry)
    BY <1>2 DEF QueueLookup, QueueSound
  <2>3. e.hop = q[i].hop
    <3>1. EntrySound(b) /\ b.ip = p.dst /\ b.hop = q[i].hop /\ b.packets # <<>>
      BY <2>1, <2>2, RetriedSound
    <3> HIDE DEF b
    <3> QED BY <3>1, Added
  <2> HIDE DEF e
  <2>5. /\ DOMAIN queue' = DOMAIN q
        /\ \A j \in DOMAIN q : queue'[j] = IF j = i THEN e ELSE q[j]
    BY <2>1, <2>2 DEF e
  <2> QED BY <1>3, <2>1, <2>2, <2>3, <2>5 DEF Unstranded
<1>7. CASE cache' = c /\ queue' = q
  BY <1>3, <1>7
<1> QED BY <1>4, <1>5, <1>6, <1>7
     DEF Discard, ForUs, TimedOut, AnswerError, Unroutable, Forward, EnqueueFirst,
         GiveUp, Leave

LEMMA ArpUnstranded ==
    ASSUME CacheSound(cache, heard), QueueSound(queue), Unstranded(cache, queue),
           NEW i, NEW op, NEW tip, NEW sip \in Addr, NEW sha, HandleArp(sip, sha, tip, op, i)
    PROVE  Unstranded(cache', queue')
<1>1. PICK t \in 0 .. MaxLapse :
         LET c == AgedCache(CacheFlush(cache), t)
             q == AgedQueue(QueueFlush(queue), t)
         IN  \/ sip \in DOMAIN c /\ cache' = CacheUpdate(c, sip, sha) /\ queue' = q
             \/ cache' = c /\ queue' = q
             \/ /\ NextHopLookup(q, sip) = {}
                /\ cache' = CacheAdd(c, sip, sha) /\ queue' = q
             \/ \E k \in NextHopLookup(q, sip) :
                  cache' = CacheAdd(c, sip, sha) /\ queue' = Unlinked(q, k)
  BY DEF HandleArp, Leave
<1> DEFINE c == AgedCache(CacheFlush(cache), t)
           q == AgedQueue(QueueFlush(queue), t)
<1>2. QueueSound(q) /\ Unstranded(c, q)
  BY FlushedQueue, FlushedUnstranded
<1> HIDE DEF c, q
<1>3. \/ sip \in DOMAIN c /\ cache' = CacheUpdate(c, sip, sha) /\ queue' = q
      \/ cache' = c /\ queue' = q
      \/ /\ NextHopLookup(q, sip) = {}
         /\ cache' = CacheAdd(c, sip, sha) /\ queue' = q
      \/ \E k \in NextHopLookup(q, sip) :
           cache' = CacheAdd(c, sip, sha) /\ queue' = Unlinked(q, k)
  BY <1>1 DEF c, q
<1>4. /\ DOMAIN CacheUpdate(c, sip, sha) = DOMAIN c
      /\ DOMAIN CacheAdd(c, sip, sha) = DOMAIN c \union {sip}
  BY DEF CacheUpdate, CacheAdd
<1>5. CASE NextHopLookup(q, sip) = {} /\ cache' = CacheAdd(c, sip, sha) /\ queue' = q
  <2>1. \A j \in DOMAIN q : q[j].hop # sip
    BY <1>2, <1>5, LookupsFind
  <2> QED BY <1>2, <1>4, <1>5, <2>1 DEF Unstranded
<1>6. ASSUME NEW k \in NextHopLookup(q, sip), cache' = CacheAdd(c, sip, sha),
             queue' = Unlinked(q, k)
      PROVE  Unstranded(cache', queue')
  <2>1. k \in DOMAIN q /\ q[k].hop = sip
    BY <1>6 DEF NextHopLookup
  <2>2. \A j \in DOMAIN queue' : \E n \in DOMAIN q : n # k /\ queue'[j] = q[n]
    BY <1>2, <1>6, <2>1, UnlinkedSound
  <2>3. \A n \in DOMAIN q : n # k /\ q[n].hop = sip => Shared(sip)
    BY <1>2, <2>1, EntryOfHop
  <2> QED BY <1>2, <1>4, <1>6, <2>2, <2>3 DEF Unstranded
<1> QED BY <1>2, <1>3, <1>4, <1>5, <1>6 DEF Unstranded

LEMMA NextUnstranded ==
    ASSUME RouterInv, NobodyStranded, [Next]_vns_vars
    PROVE  NobodyStranded'
<1>1. CacheSound(cache, heard) /\ QueueSound(queue) /\ Unstranded(cache, queue)
  BY DEF RouterInv, NobodyStranded, Unstranded
<1> SUFFICES Unstranded(cache', queue')
  BY DEF NobodyStranded, Unstranded
<1>2. ASSUME UNCHANGED <<cache, queue>> PROVE Unstranded(cache', queue')
  BY <1>1, <1>2
<1>3. ASSUME HandlePacket PROVE Unstranded(cache', queue')
  <2>1. ASSUME NEW p \in Packets, HandleIp(p) PROVE Unstranded(cache', queue')
    BY <1>1, <2>1, IpUnstranded
  <2>2. ASSUME SomeArp PROVE Unstranded(cache', queue')
    BY <1>1, <2>2, ArpUnstranded DEF SomeArp
  <2>3. ASSUME HandleOther PROVE Unstranded(cache', queue')
    <3>1. cache' = CacheFlush(cache) /\ queue' = QueueFlush(queue)
      BY <2>3 DEF HandleOther, Leave
    <3>2. DOMAIN cache' \subseteq DOMAIN cache
      BY <3>1 DEF CacheFlush
    <3>3. \A j \in DOMAIN queue : /\ RetriedEntry(queue[j]).hop = queue[j].hop
                                  /\ RetriedEntry(queue[j]).packets = queue[j].packets
      BY <1>1, RetriedSound DEF QueueSound
    <3>4. \A k \in DOMAIN queue' : \E j \in DOMAIN queue : queue'[k] = RetriedEntry(queue[j])
      BY <1>1, <3>1, FlushKeeps
    <3> QED BY <1>1, <3>2, <3>3, <3>4 DEF Unstranded
  <2>4. ASSUME Hang \/ Overrun PROVE Unstranded(cache', queue')
    BY <1>2, <2>4 DEF Hang, Overrun
  <2> QED BY <1>3, <2>1, <2>2, <2>3, <2>4 DEF HandlePacket
<1>4. ASSUME Tick PROVE Unstranded(cache', queue')
  <2>1. cache' = AgedCache(cache, 1) /\ queue' = AgedQueue(queue, 1)
    BY <1>4 DEF Tick
  <2>2. DOMAIN cache' = DOMAIN cache
    BY <1>1, <2>1, AgedCacheSound
  <2>3. /\ DOMAIN queue' = DOMAIN queue
        /\ \A j \in DOMAIN queue : /\ queue'[j].hop = queue[j].hop
                                   /\ queue'[j].packets = queue[j].packets
    BY <1>1, <2>1, AgedQueueSound
  <2> QED BY <1>1, <2>2, <2>3 DEF Unstranded
<1> QED BY <1>2, <1>3, <1>4 DEF Next, Start, ConnectStep, Unexpected, HwInfo,
     HwInfoWithoutInterface, PacketOnNoInterface, Packet, LeaveLoop, ServerGone, Clock,
     NoFrames, vns_vars

(* An ARP packet that puts a next hop in the cache sends out all that      *)
(* waits for it, unless several destinations share that next hop.          *)
THEOREM ClearedWhenCached == Spec => []NobodyStranded
<1>1. Init => NobodyStranded
  BY DEF Init, RouterInit, Sentinel, NobodyStranded
<1>2. RouterInv /\ NobodyStranded /\ [Next]_vns_vars => NobodyStranded'
  BY NextUnstranded
<1> QED BY <1>1, <1>2, RouterInvariant, PTL DEF Spec
=============================================================================
