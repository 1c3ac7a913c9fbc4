------------------------------ MODULE Router ------------------------------
(***************************************************************************)
(* The IP router of stub_sr/sr_router.c: sr_handlepacket() with its ARP    *)
(* cache and its queue of packets that wait for an ARP reply.              *)
(*                                                                         *)
(* The router has one thread and no timer: everything it does, it does     *)
(* when a frame arrives, and one frame is one action.  Times are kept as   *)
(* ages, which stop growing once they no longer matter, so the clock may   *)
(* run for ever.  time() is read again and again while a frame is handled: *)
(* the clock may move between the flushing of the tables and the rest.     *)
(***************************************************************************)
EXTENDS Integers, Sequences

CONSTANTS
    Addr,                 \* addresses of hosts and next hops
    Mac,                  \* their hardware addresses
    Ifaces,               \* the interfaces the server may announce: [name, ip]
    Packets,              \* the IP packets that may arrive
    RoutingTable,         \* a sequence of [net, mask, gw, iface]
    ARP_MAX_REQ,          \* 5 in the code
    ARP_CACHE_TIMEOUT,    \* 15
    ARP_REQUEST_TIMEOUT,  \* 1
    REQS_MOD,             \* arpq_num_reqs is a uint8_t: 256
    MaxLapse,             \* bound: ticks of the clock while a frame is handled
    SentinelHop,          \* the uninitialised arpq_next_hop of the first entry
    OtherTraffic          \* frames that are neither IP nor ARP may arrive

NoAddr == "0.0.0.0"

(* What the router tells apart in an IP packet: damaged (version or        *)
(* checksum), an ICMP echo request, an ICMP error, other ICMP, or other.   *)
Kind == {"bad", "echo", "error", "icmp", "other"}

(* What its lengths say: a header without options and all there, an ip_len *)
(* that is less than the header's, or a header with options.               *)
Form == {"plain", "short", "options"}

ASSUME ParameterAssumption ==
    /\ ARP_MAX_REQ \in Nat \ {0}
    /\ ARP_CACHE_TIMEOUT \in Nat
    /\ ARP_REQUEST_TIMEOUT \in Nat
    /\ REQS_MOD \in Nat \ {0}
    /\ MaxLapse \in Nat
    /\ OtherTraffic \in BOOLEAN

IfAddr == {i.ip : i \in Ifaces}
IfName == {i.name : i \in Ifaces}

ASSUME TableAssumption ==
    /\ Ifaces \in SUBSET [name : STRING, ip : STRING]
    /\ NoAddr \notin Addr \union IfAddr
    /\ SentinelHop \in Addr \union {NoAddr}   \* no address of a host, or one
    /\ Addr \intersect IfAddr = {}
    /\ RoutingTable \in Seq([net : SUBSET (Addr \union IfAddr \union {NoAddr}),
                             mask : Nat, gw : Addr, iface : STRING])
    /\ \A p \in Packets : /\ p.dst \in Addr \union IfAddr \union {NoAddr}
                          /\ p.kind \in Kind
                          /\ p.form \in Form
                          /\ p.ttl \in Nat
                          /\ p.on \in IfName     \* where it comes in
                          /\ p.to \in {"iface", "broadcast"}

VARIABLES
    cache,    \* sr_arp_cache: the cached addresses, with mac and age
    queue,    \* sr_arp_queue: its entries, first the one sr_init() puts in
    status,   \* "up", or how the router's process ended
    out,      \* frames that went out while the last frame was handled
    heard,    \* history: the last ARP announcement of each address
    ifs       \* sr->if_list

router_vars == <<cache, queue, out, heard>>
vars == <<cache, queue, status, out, heard, ifs>>

NoMac == "none"

(* Ages above these make no difference. *)
CacheAge == 0 .. ARP_CACHE_TIMEOUT + MaxLapse + 1
RequestAge == 0 .. ARP_REQUEST_TIMEOUT + 1
OldRequest == ARP_REQUEST_TIMEOUT + 1
OldMapping == ARP_CACHE_TIMEOUT + MaxLapse + 1

Older(age, t, cap) == IF age + t < cap THEN age + t ELSE cap

AgedCache(c, t) ==
    [a \in DOMAIN c |-> [c[a] EXCEPT !.age = Older(@, t, OldMapping)]]

AgedQueue(q, t) ==
    [i \in DOMAIN q |-> [q[i] EXCEPT !.age = Older(@, t, OldRequest)]]

---------------------------------------------------------------------------
(* Routing. *)

Matching(a) == {i \in DOMAIN RoutingTable : a \in RoutingTable[i].net}

(* rt_match(): the first of the matching entries with the largest mask, as *)
(* a set that is empty when nothing matches.                               *)
RtMatch(a) ==
    {i \in Matching(a) :
        \A j \in Matching(a) :
            \/ RoutingTable[j].mask < RoutingTable[i].mask
            \/ RoutingTable[j].mask = RoutingTable[i].mask /\ i <= j}

(* if_dst_check() *)
ForMe(a) == \E i \in ifs : i.ip = a

(* sr_get_interface() finds it. *)
Known(name) == \E i \in ifs : i.name = name

HasRoute(a) == RtMatch(a) # {}
Route(a) == RoutingTable[CHOOSE i \in RtMatch(a) : TRUE]

---------------------------------------------------------------------------
(* Frames the router sends.  What matters of the Ethernet header is whose  *)
(* address is in ether_shost: the interface's, that of the host the frame  *)
(* came from, or the broadcast address.                                    *)

DataFrame(p, mac) ==
    [type |-> "data", packet |-> p, mac |-> mac, iface |-> Route(p.dst).iface,
     shost |-> "iface"]

(* arp_create() *)
ArpRequest(a) ==
    [type |-> "request", tip |-> Route(a).gw, iface |-> Route(a).iface,
     shost |-> "iface"]
ArpReply(sip, sha, on) ==
    [type |-> "reply", tip |-> sip, mac |-> sha, iface |-> on,
     shost |-> "iface"]

(* generate_icmp_echo() and generate_icmp_error(): sent from the address   *)
(* the packet was sent to.                                                 *)
IcmpEcho(p) ==
    [type |-> "echo reply", packet |-> p, iface |-> p.on, shost |-> p.to]
IcmpError(p, code) ==
    [type |-> code, packet |-> p, iface |-> p.on, shost |-> p.to]

(* The frame arpq_packets_icmpsend() sends for a packet it gives up: not   *)
(* the ICMP error it has just made, but the packet as it was queued, whose *)
(* Ethernet header is still that of the host it came from.                 *)
ReturnedFrame(p) ==
    [type |-> "returned", packet |-> p, iface |-> p.on, shost |-> "host"]

(* sr_send_packet() lets a frame out if its source is the interface's own  *)
(* address (sr_ether_addrs_match_interface()).                             *)
SrSendPacket(f) == {d \in f : Known(d.iface) /\ d.shost = "iface"}

---------------------------------------------------------------------------
(* The ARP queue. *)

PacketsOf(e) == {e.packets[i] : i \in DOMAIN e.packets}

(* Mutant: a counter that does not wrap. *)
AddReqWide(reqs) == reqs + 1

AddReq(reqs) == (reqs + 1) % REQS_MOD

(* History, in each entry: the requests sent for it, or due and counted    *)
(* but not sent (EnqueueMore), up to one more than ARP_MAX_REQ.            *)
AskedOnceMore(e) ==
    [e EXCEPT !.asked = IF @ <= ARP_MAX_REQ THEN @ + 1 ELSE @]

(* arpq_add_packet(); it counts the request that is about to be sent. *)
AddPacket(e, p) ==
    [AskedOnceMore(e) EXCEPT !.packets = Append(@, p), !.reqs = AddReq(@)]

(* arpq_add_entry(), and the next hop that sr_handlepacket() then sets. *)
NewEntry(p) ==
    [ip |-> p.dst, hop |-> Route(p.dst).gw, packets |-> <<p>>, age |-> 0,
     reqs |-> 0, asked |-> 1]

(* The entry sr_init() makes: address 0, no packet, last_req 0.  An ARP    *)
(* reply for what its arpq_next_hop happens to be unlinks it.              *)
Sentinel ==
    [ip |-> NoAddr, hop |-> SentinelHop, packets |-> <<>>,
     age |-> OldRequest, reqs |-> 0, asked |-> 0]

(* arp_queue_lookup() and arpq_next_hop_lookup(): the first such entry. *)
QueueLookup(q, a) ==
    {i \in DOMAIN q : q[i].ip = a /\ \A j \in 1 .. i - 1 : q[j].ip # a}

(* Mutant: only the newest entry is looked at. *)
NewestLookup(q, a) == {i \in DOMAIN q : i = Len(q) /\ q[i].hop = a}

NextHopLookup(q, a) ==
    {i \in DOMAIN q : q[i].hop = a /\ \A j \in 1 .. i - 1 : q[j].hop # a}

(* arpq_entry_clear(): its packets are sent, and the entry unlinked. *)
ClearFrames(e, sha) == {DataFrame(p, sha) : p \in PacketsOf(e)}

Unlinked(q, i) == SubSeq(q, 1, i - 1) \o SubSeq(q, i + 1, Len(q))

Expired(e) == e.age > ARP_REQUEST_TIMEOUT

(* Mutant: given up one request too early. *)
OutOfTriesEarly(e) == Expired(e) /\ e.reqs + 1 >= ARP_MAX_REQ

OutOfTries(e) == Expired(e) /\ e.reqs >= ARP_MAX_REQ
AskAgain(e) == Expired(e) /\ e.reqs < ARP_MAX_REQ /\ e.packets # <<>>

(* arpq_packets_icmpsend() goes round for ever on an ICMP error. *)
Endless(e) == \E p \in PacketsOf(e) : p.kind = "error"

(* Before it does it may have made an ICMP error about a packet with       *)
(* options, and written past the end of the frame (generate_icmp_error()). *)
Overruns(e) ==
    \E n \in DOMAIN e.packets :
        /\ e.packets[n].form = "options"
        /\ \A m \in 1 .. n : e.packets[m].kind # "error"

(* arp_queue_flush(): the frames an entry makes it send and what becomes   *)
(* of the entry, unless it is out of tries and freed.                      *)
FlushFrames(e) ==
    IF OutOfTries(e) THEN {ReturnedFrame(p) : p \in PacketsOf(e)}
    ELSE IF AskAgain(e) THEN {ArpRequest(e.ip)} ELSE {}

FlushedEntry(e) ==
    IF AskAgain(e) THEN [e EXCEPT !.age = 0, !.reqs = AddReq(@)] ELSE e

RetriedEntry(e) == IF AskAgain(e) THEN AskedOnceMore(FlushedEntry(e)) ELSE e

QueueFlush(q) ==
    LET flushed[n \in 0 .. Len(q)] ==
            IF n = 0 THEN <<>>
            ELSE IF OutOfTries(q[n]) THEN flushed[n - 1]
            ELSE Append(flushed[n - 1], RetriedEntry(q[n]))
    IN  flushed[Len(q)]

QueueFlushFrames(q) == UNION {FlushFrames(q[i]) : i \in DOMAIN q}

(* Mutant: an entry is kept a second too long. *)
LateCacheFlush(c) ==
    [a \in {b \in DOMAIN c : c[b].age <= ARP_CACHE_TIMEOUT + MaxLapse + 1}
        |-> c[a]]

(* arp_cache_flush() *)
CacheFlush(c) == [a \in {b \in DOMAIN c : c[b].age <= ARP_CACHE_TIMEOUT} |-> c[a]]

---------------------------------------------------------------------------
(* The IP half of sr_handlepacket(), once both tables are flushed: c, q    *)
(* and f are the cache, the queue and the frames sent so far.              *)

Leave(c, q, f, s) ==
    /\ cache' = c
    /\ queue' = q
    /\ out' = SrSendPacket(f)
    /\ status' = s
    /\ UNCHANGED ifs

(* Wrong version or checksum (compute_ip_checksum()). *)
Damaged(p) == p.kind = "bad"

(* ICMP, an echo request and intact (compute_icmp_checksum()). *)
EchoRequest(p) == p.kind = "echo"

(* The length compute_icmp_checksum() takes is negative: calloc() fails,   *)
(* and memcpy() follows its NULL.                                          *)
ShortIcmp(p) == p.kind \in {"echo", "icmp", "error"} /\ p.form = "short"

Discard(p, c, q, f) ==
    /\ Damaged(p)
    /\ Leave(c, q, f, "up")

(* generate_icmp_error() puts its headers as far apart as those of the     *)
(* packet: with options it writes past the end of the frame it allocated.  *)
AnswerError(p, code, c, q, f) ==
    \/ Leave(c, q, f \union {IcmpError(p, code)}, "up")
    \/ p.form = "options" /\ Leave(c, q, f, "crashed")

(* The packet is for one of our interfaces. *)
ForUs(p, c, q, f) ==
    /\ ~Damaged(p)
    /\ ForMe(p.dst)
    /\ \/ ShortIcmp(p) /\ Leave(c, q, f, "crashed")
       \/ ~ShortIcmp(p) /\ EchoRequest(p) /\ Leave(c, q, f \union {IcmpEcho(p)}, "up")
       \/ ~ShortIcmp(p) /\ p.kind \in {"icmp", "error"} /\ Leave(c, q, f, "up")
       \/ p.kind = "other" /\ AnswerError(p, "port unreachable", c, q, f)

ToForward(p) == ~Damaged(p) /\ ~ForMe(p.dst)

(* No ICMP error is sent about an ICMP error. *)
TimedOut(p, c, q, f) ==
    /\ ToForward(p)
    /\ p.ttl = 0
    /\ \/ p.kind = "error" /\ Leave(c, q, f, "up")
       \/ p.kind # "error" /\ AnswerError(p, "time exceeded", c, q, f)

Usable(a) == HasRoute(a) /\ Known(Route(a).iface)

(* update_ip_hdr() follows the NULL that rt_match() or get_interface()     *)
(* returns.                                                                *)
Unroutable(p, c, q, f) ==
    /\ ToForward(p)
    /\ p.ttl > 0
    /\ ~Usable(p.dst)
    /\ Leave(c, q, f, "crashed")

Routable(p) == ToForward(p) /\ p.ttl > 0 /\ Usable(p.dst)

Forward(p, c, q, f) ==
    /\ Routable(p)
    /\ Route(p.dst).gw \in DOMAIN c
    /\ Leave(c, q, f \union {DataFrame(p, c[Route(p.dst).gw].mac)}, "up")

(* The first packet for a destination. *)
Enqueue(p, c, q, f) ==
    /\ Routable(p)
    /\ Route(p.dst).gw \notin DOMAIN c
    /\ QueueLookup(q, p.dst) = {}
    /\ Leave(c, Append(q, NewEntry(p)), f \union {ArpRequest(p.dst)}, "up")

(* Another packet for a destination.  If the clock has moved since the     *)
(* flush the entry may be due again, and is counted as asked for.          *)
EnqueueMore(p, c, q, f) ==
    /\ Routable(p)
    /\ Route(p.dst).gw \notin DOMAIN c
    /\ \E i \in QueueLookup(q, p.dst) :
         /\ ~OutOfTries(q[i])
         /\ q[i].packets # <<>>
         /\ Leave(c, [q EXCEPT ![i] = AddPacket(RetriedEntry(@), p)],
                  f \union {ArpRequest(p.dst)}, "up")

(* A packet to 0.0.0.0 finds the entry of sr_init(), which has no packet:  *)
(* assert(entry->arpq_packets.first) fails.                                *)
EnqueueFirst(p, c, q, f) ==
    /\ Routable(p)
    /\ Route(p.dst).gw \notin DOMAIN c
    /\ \E i \in QueueLookup(q, p.dst) : ~OutOfTries(q[i]) /\ q[i].packets = <<>>
    /\ Leave(c, q, f, "crashed")

(* ... or is due and out of tries: its packets are returned and it is      *)
(* freed, but it stays linked, and the packet at hand is forgotten.        *)
GiveUp(p, c, q, f) ==
    /\ Routable(p)
    /\ Route(p.dst).gw \notin DOMAIN c
    /\ \E i \in QueueLookup(q, p.dst) :
         /\ OutOfTries(q[i])
         /\ \/ Endless(q[i]) /\ Leave(c, q, f, "hung")
            \/ Overruns(q[i]) /\ Leave(c, q, f, "crashed")
            \/ /\ ~Endless(q[i])
               /\ Leave(c, q, f \union {ReturnedFrame(r) : r \in PacketsOf(q[i])},
                        "dangling")

(* No entry of the queue keeps arp_queue_flush() from ending. *)
FlushEnds == \A i \in DOMAIN queue : OutOfTries(queue[i]) => ~Endless(queue[i])

Waiting(p) == \E i \in DOMAIN queue : p \in PacketsOf(queue[i])

(* Bound: a packet is told from an equal one while it waits, so at most    *)
(* Packets are in the queue.                                               *)
HandleIp(p) ==
    /\ status = "up"
    /\ Known(p.on)
    /\ ~Waiting(p)
    /\ FlushEnds
    /\ \E t \in 0 .. MaxLapse :
         LET c == AgedCache(CacheFlush(cache), t)
             q == AgedQueue(QueueFlush(queue), t)
             f == QueueFlushFrames(queue)
         IN  /\ heard' = AgedCache(heard, t)
             /\ \/ Discard(p, c, q, f)
                \/ ForUs(p, c, q, f)
                \/ TimedOut(p, c, q, f)
                \/ Unroutable(p, c, q, f)
                \/ Forward(p, c, q, f)
                \/ Enqueue(p, c, q, f)
                \/ EnqueueMore(p, c, q, f)
                \/ EnqueueFirst(p, c, q, f)
                \/ GiveUp(p, c, q, f)

---------------------------------------------------------------------------
(* The ARP half of sr_handlepacket(). *)

(* arp_cache_update() and arp_cache_add() *)
CacheUpdate(c, sip, sha) == [c EXCEPT ![sip] = [mac |-> sha, age |-> 0]]
CacheAdd(c, sip, sha) ==
    [a \in DOMAIN c \union {sip} |->
        IF a = sip THEN [mac |-> sha, age |-> 0] ELSE c[a]]

(* sr_arp_req_not_for_us(): such a frame does not get to the router. *)
ArpReqNotForUs(tip, op, i) == op = "request" /\ tip # i.ip

(* A cached sender is updated whoever the target is; a new one is added,   *)
(* and the first entry that waits for it cleared, if the target is us.     *)
HandleArp(sip, sha, tip, op, i) ==
    /\ status = "up"
    /\ FlushEnds
    /\ ~ArpReqNotForUs(tip, op, i)
    /\ \E t \in 0 .. MaxLapse :
         LET c == AgedCache(CacheFlush(cache), t)
             q == AgedQueue(QueueFlush(queue), t)
             f == QueueFlushFrames(queue)
             g == IF op = "request" /\ ForMe(tip)
                  THEN f \union {ArpReply(sip, sha, i.name)} ELSE f
         IN  /\ heard' = [AgedCache(heard, t) EXCEPT
                              ![sip] = [mac |-> sha, age |-> 0]]
             /\ \/ /\ sip \in DOMAIN c
                   /\ Leave(CacheUpdate(c, sip, sha), q, g, "up")
                \/ /\ sip \notin DOMAIN c
                   /\ ~ForMe(tip)
                   /\ Leave(c, q, g, "up")
                \/ /\ sip \notin DOMAIN c
                   /\ ForMe(tip)
                   /\ NextHopLookup(q, sip) = {}
                   /\ Leave(CacheAdd(c, sip, sha), q, g, "up")
                \/ /\ sip \notin DOMAIN c
                   /\ ForMe(tip)
                   /\ \E k \in NextHopLookup(q, sip) :
                        Leave(CacheAdd(c, sip, sha), Unlinked(q, k),
                              g \union ClearFrames(q[k], sha), "up")

(* Any frame, when an entry that holds an ICMP error is out of tries; what  *)
(* the flush sends before it comes to that entry is left out.              *)
Hang ==
    /\ status = "up"
    /\ ~FlushEnds
    /\ status' = "hung"
    /\ out' = {}
    /\ UNCHANGED <<cache, queue, heard, ifs>>

(* Any frame, when packets with options are given up: the frames made for  *)
(* them are too small.                                                     *)
Overrun ==
    /\ status = "up"
    /\ \E i \in DOMAIN queue :
         /\ OutOfTries(queue[i]) /\ Overruns(queue[i])
         /\ \A j \in 1 .. i - 1 : OutOfTries(queue[j]) => ~Endless(queue[j])
    /\ status' = "crashed"
    /\ out' = {}
    /\ UNCHANGED <<cache, queue, heard, ifs>>

(* create_frame_t() returns NULL for any other protocol; the tables are     *)
(* flushed and the NULL is followed.                                       *)
HandleOther ==
    /\ OtherTraffic
    /\ status = "up"
    /\ ifs # {}
    /\ FlushEnds
    /\ Leave(CacheFlush(cache), QueueFlush(queue), QueueFlushFrames(queue),
             "crashed")
    /\ UNCHANGED heard

(* A second passes. *)
Tick ==
    /\ status = "up"
    /\ cache' = AgedCache(cache, 1)
    /\ queue' = AgedQueue(queue, 1)
    /\ heard' = AgedCache(heard, 1)
    /\ out' = {}
    /\ UNCHANGED <<status, ifs>>

---------------------------------------------------------------------------
(* sr_init(), before the server has announced the interfaces. *)
RouterInit ==
    /\ cache = [a \in {} |-> [mac |-> NoMac, age |-> 0]]
    /\ queue = <<Sentinel>>
    /\ status = "up"
    /\ out = {}
    /\ heard = [a \in Addr |-> [mac |-> NoMac, age |-> OldMapping]]
    /\ ifs = {}

SomeArp ==
    \E sip \in Addr, sha \in Mac, tip \in Addr \union IfAddr, i \in ifs,
       op \in {"request", "reply"} : HandleArp(sip, sha, tip, op, i)

(* sr_handlepacket() *)
HandlePacket ==
    \/ \E p \in Packets : HandleIp(p)
    \/ SomeArp
    \/ Hang
    \/ Overrun
    \/ HandleOther

---------------------------------------------------------------------------
(* Properties. *)

Entry == [ip : Addr \union IfAddr \union {NoAddr}, hop : Addr \union {NoAddr},
          packets : Seq(Packets), age : RequestAge, reqs : 0 .. REQS_MOD - 1,
          asked : 0 .. ARP_MAX_REQ + 1]

(* A packet, forwarded at once or out of the queue, leaves by the          *)
(* interface of the longest match for its destination, to the hardware     *)
(* address its next hop announced last, and no longer than                 *)
(* ARP_CACHE_TIMEOUT before the frame came in.                             *)
ForwardedToFreshHop ==
    \A d \in out : d.type = "data" =>
        \E i \in Matching(d.packet.dst) :
            LET hop == heard[RoutingTable[i].gw] IN
            /\ \A j \in Matching(d.packet.dst) :
                  RoutingTable[j].mask <= RoutingTable[i].mask
            /\ d.iface = RoutingTable[i].iface
            /\ d.mac = hop.mac
            /\ hop.age <= ARP_CACHE_TIMEOUT + MaxLapse

(* Packets to several destinations go to next hop a, or the entry that     *)
(* sr_init() made happens to name it.                                      *)
Shared(a) ==
    \/ a = SentinelHop
    \/ \E p, r \in Packets :
          /\ p.dst # r.dst /\ HasRoute(p.dst) /\ HasRoute(r.dst)
          /\ Route(p.dst).gw = a /\ Route(r.dst).gw = a

(* No packet waits for a next hop whose hardware address is in the cache,  *)
(* unless others share the next hop: an ARP packet that adds it sends out  *)
(* all that wait for the first destination.                                *)
NobodyStranded ==
    \A i \in DOMAIN queue :
        queue[i].packets # <<>> /\ queue[i].hop \in DOMAIN cache
        => Shared(queue[i].hop)

(* "We then call arpq_next_hop_lookup to se whether any of the queued      *)
(* packets are waiting on the IP address that just came in.  If so, we     *)
(* update their ethernet headers and send them out" (stub_sr/Readme:39).   *)
(* The packets of one entry are.                                           *)
WaitingSentOut ==
    \A i \in DOMAIN queue :
        queue[i].packets # <<>> => queue[i].hop \notin DOMAIN cache

AskedFor(p) ==
    LET e == queue[CHOOSE i \in DOMAIN queue : p \in PacketsOf(queue[i])]
    IN  e.asked

(* A packet leaves the queue by being sent on, or after more than          *)
(* ARP_MAX_REQ requests for its next hop: however new packets and retries  *)
(* share the count, and however often it wraps, none is given up early or  *)
(* lost.                                                                   *)
GivenUpOnlyAfterAsking ==
    [][\A p \in Packets :
         Waiting(p) =>
             \/ Waiting(p)' # \E d \in out' : d.type = "data" /\ d.packet = p
             \/ ~Waiting(p)' /\ AskedFor(p) > ARP_MAX_REQ]_vars
===========================================================================
