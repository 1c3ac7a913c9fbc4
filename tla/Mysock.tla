------------------------------- MODULE Mysock ------------------------------
(***************************************************************************)
(* The socket layer of src/stcp: mysock_api.c, mysock.c, stcp_api.c,       *)
(* connection_demux.c and the TCP network layer (network_io_socket.c,      *)
(* network_io_tcp.c), in one process whose application is one thread, as   *)
(* in client.c and server.c.                                               *)
(*                                                                         *)
(* Three kinds of threads share the contexts: the application, and for     *)
(* each context a receive thread and (unless it listens) a transport       *)
(* thread.  One action is what a thread does between two points where      *)
(* another one may get in between: a lock, a condition variable, a join,   *)
(* or an access to shared memory that no lock protects.  The protocol that *)
(* the transport thread speaks is module Stcp; here the peer of a          *)
(* connection follows a script and no packet is lost.                      *)
(***************************************************************************)
EXTENDS Integers, SequencesExt

CONSTANTS
    MAX_NUM_CONNECTIONS,
    Peer,          \* addresses clients connect from
    NoPeer,
    Backlog,       \* second argument of mylisten()
    BufLen,        \* length of the application's buffer for myread()
    UINT_MAX,      \* largest unsigned int, the type of cur_len and max_len
    MaxArrivals,   \* bound: TCP connections made to the listening socket
    DataPackets,   \* bound: data packets a peer sends on a connection
    MaxWrites,     \* bound: calls of mywrite()
    MaxOpens,      \* bound: calls of mysocket()
    Hangups,       \* clients may go away before they have sent their SYN
    Refusals       \* connect() may fail

ASSUME MysockAssumption ==
    /\ MAX_NUM_CONNECTIONS \in Nat \ {0}
    /\ NoPeer \notin Peer
    /\ Backlog \in Nat /\ BufLen \in Nat \ {0}
    /\ UINT_MAX \in Nat /\ Backlog < UINT_MAX
    /\ MaxArrivals \in Nat /\ DataPackets \in Nat /\ MaxWrites \in Nat /\ MaxOpens \in Nat
    /\ Hangups \in BOOLEAN /\ Refusals \in BOOLEAN

Sd == 0 .. (MAX_NUM_CONNECTIONS - 1)

VARIABLES
    ctx,           \* global_ctx: the contexts, by descriptor
    listen_table,  \* the queue of each listening descriptor
    readers,       \* listen_lock: threads that hold it for reading ...
    writer,        \*   ... and whether the application holds it for writing
    app,           \* the application thread: pc and local variables
    recv,          \* the receive thread of each context
    tran,          \* the transport thread of each context
    accq,          \* TCP connections not accepted yet, per listening socket
    said,          \* what a client has done: "no", "connected", "syn", "hung"
    count,         \* arrivals, writes and opens so far
    halt           \* "no"; "assert" after a failed assert(); "corrupt" after
                   \* two contexts got the same descriptor; "misfiled" after
                   \* a connection was completed in the slot of another

threads == <<app, recv, tran>>
outside == <<accq, said>>
vars == <<ctx, listen_table, readers, writer, threads, outside, count, halt>>

----------------------------------------------------------------------------
(* State of a context, of a listen queue and of the three threads. *)
FreshContext ==
    [live |-> FALSE, bound |-> FALSE, listening |-> FALSE, active |-> FALSE,
     listen_sd |-> -1, peer |-> NoPeer, blocking |-> TRUE, failed |-> FALSE,
     close_requested |-> FALSE, eof |-> FALSE,
     network_recv |-> <<>>,  \* packets for the transport thread
     app_send |-> <<>>,      \* buffers for myread(): sequences of bytes
     app_recv |-> 0,         \* buffers from mywrite()
     new_socket |-> NoPeer, connected |-> "no", script |-> <<>>,
     pushed |-> <<>>, got |-> <<>>]   \* history: bytes handed up, bytes read

NoRequest == [sd |-> -1, peer |-> NoPeer]

NoQueue == [max_len |-> 0, cur_len |-> 0, slot |-> <<>>, completed |-> <<>>]

AppIdle == [pc |-> "idle", sd |-> -1, outer |-> -1, k |-> 0,
            new |-> -1, len |-> 0, own |-> {}]

RecvNone == [pc |-> "none", exit |-> FALSE, peer |-> NoPeer, k |-> 0, n |-> 0,
             fd |-> -1]

TranNone == [pc |-> "none", fin |-> FALSE, peerfin |-> FALSE]

(* What the peer sends on a connection, in order. *)
Script(active) == <<IF active THEN "synack" ELSE "ack">>
                  \o [i \in 1..DataPackets |-> "data"] \o <<"fin">>
Data == <<1, 2>>
EofPacket == <<>>

App == <<"app", 0>>
Recv(s) == <<"recv", s>>
Tran(s) == <<"tran", s>>

Queue(s) == listen_table[s]
FreeSds == {s \in Sd : ~ctx[s].live}

(* ctx->close_requested is passed on once the application's data is. *)
CloseReady(s) == ctx[s].close_requested /\ ctx[s].app_recv = 0

(* stcp_wait_for_event() in the handshake, and in the control loop. *)
NetworkEvent(s) == ctx[s].network_recv # <<>> \/ CloseReady(s)
AnyEvent(s) == NetworkEvent(s) \/ ctx[s].app_recv > 0

(* Mutant: a transport thread in its control loop is not woken. *)
WakeTranSyn(s, pcs) ==
    [pcs EXCEPT ![s].pc = IF @ = "asleep_syn" THEN "synwait" ELSE @]

(* pthread_cond_broadcast(&ctx->data_ready_cond), and the threads it wakes. *)
WakeTran(s, pcs) ==
    [pcs EXCEPT ![s].pc = CASE @ = "asleep_syn"  -> "synwait"
                            [] @ = "asleep_loop" -> "loop"
                            [] OTHER -> @]
WakeApp(s) ==
    [app EXCEPT !.pc = IF @ = "asleep_read" /\ app.sd = s THEN "read" ELSE @]

(* The application holds the listen queue's connection_lock. *)
ConnectionLocked == app.pc \in {"wipe", "invalidate", "load", "store"}

Run == halt = "no"
Check(ok) == halt' = IF ok THEN halt ELSE "assert"

----------------------------------------------------------------------------
(* The application: calls of mysock_api.c. *)
AppAt(pc) == Run /\ app.pc = pc
AppGoto(pc) == app' = [app EXCEPT !.pc = pc]

mysocket ==
    /\ AppAt("idle") /\ count.opens < MaxOpens /\ FreeSds # {}
    /\ LET s == Min(FreeSds) IN
       /\ ctx' = [ctx EXCEPT ![s] = [FreshContext EXCEPT !.live = TRUE]]
       /\ app' = [app EXCEPT !.own = @ \union {s}]
    /\ count' = [count EXCEPT !.opens = @ + 1]
    /\ UNCHANGED <<listen_table, readers, writer, recv, tran, outside, halt>>

mybind(s) ==
    /\ AppAt("idle") /\ s \in app.own
    /\ ~ctx[s].bound /\ ~ctx[s].listening
    /\ ctx' = [ctx EXCEPT ![s].bound = TRUE]
    /\ UNCHANGED <<listen_table, readers, writer, threads, outside, count, halt>>

mylisten(s) ==
    /\ AppAt("idle") /\ s \in app.own
    /\ ctx[s].bound /\ ~ctx[s].listening /\ tran[s].pc = "none"
    /\ ctx' = [ctx EXCEPT ![s].listening = TRUE]
    /\ app' = [app EXCEPT !.pc = "backlog", !.sd = s]
    /\ UNCHANGED <<listen_table, readers, writer, recv, tran, outside, count, halt>>

(* Mutant: one slot less than max_len is allocated. *)
NewQueueShort(backlog) ==
    [NoQueue EXCEPT !.max_len = backlog + 1,
                    !.slot = [k \in 1..backlog |-> NoRequest]]

(* A backlog of n permits n + 1 pending connections. *)
NewQueue(backlog) ==
    [NoQueue EXCEPT !.max_len = backlog + 1,
                    !.slot = [k \in 1..(backlog + 1) |-> NoRequest]]

(* _mysock_set_backlog(), then listen() and the receive thread. *)
SetBacklog ==
    /\ AppAt("backlog") /\ readers = {}
    /\ listen_table' = [listen_table EXCEPT ![app.sd] = NewQueue(Backlog)]
    /\ recv' = [recv EXCEPT ![app.sd] = [RecvNone EXCEPT !.pc = "poll"]]
    /\ app' = [app EXCEPT !.pc = "idle", !.sd = -1]
    /\ UNCHANGED <<ctx, readers, writer, tran, outside, count, halt>>

(* _mysock_transport_init(): the two threads of a connection start. *)
StartThreads(s, active) ==
    /\ recv' = [recv EXCEPT ![s] = [RecvNone EXCEPT !.pc = "poll"]]
    /\ tran' = [tran EXCEPT ![s] = [TranNone EXCEPT !.pc =
                                    IF active THEN "connect" ELSE "synwait"]]

myconnect(s) ==
    /\ AppAt("idle") /\ s \in app.own
    /\ ~ctx[s].listening /\ ctx[s].peer = NoPeer
    /\ \E p \in Peer :
         ctx' = [ctx EXCEPT ![s].peer = p, ![s].bound = TRUE,
                            ![s].active = TRUE, ![s].script = Script(TRUE)]
    /\ StartThreads(s, TRUE)
    /\ app' = [app EXCEPT !.pc = "waitconn", !.sd = s]
    /\ UNCHANGED <<listen_table, readers, writer, outside, count, halt>>

(* _mysock_wait_for_connection() *)
WaitForConnection ==
    /\ AppAt("waitconn")
    /\ IF ctx[app.sd].blocking THEN AppGoto("asleep_conn")
       ELSE app' = [app EXCEPT !.pc = "idle", !.sd = -1]
    /\ UNCHANGED <<ctx, listen_table, readers, writer, recv, tran, outside,
                   count, halt>>

(* _mysock_dequeue_connection(): listen_lock is kept while waiting. *)
myaccept(s) ==
    /\ AppAt("idle") /\ s \in app.own /\ ctx[s].listening
    /\ app' = [app EXCEPT !.pc = "accept", !.sd = s]
    /\ readers' = readers \union {App}
    /\ UNCHANGED <<ctx, listen_table, writer, recv, tran, outside, count, halt>>

(* Mutant: the last entry stays in the completed queue. *)
PopButLast(q) == [q EXCEPT !.completed = IF Len(@) > 1 THEN Tail(@) ELSE @]

Pop(q) == [q EXCEPT !.completed = Tail(@)]

DequeueConnection ==
    /\ AppAt("accept")
    /\ LET q == Queue(app.sd) IN
       IF q.completed = <<>>
       THEN /\ AppGoto("asleep_accept")
            /\ UNCHANGED <<listen_table, halt>>
       ELSE LET k == Head(q.completed) IN
            /\ listen_table' = [listen_table EXCEPT ![app.sd] = Pop(q)]
            /\ app' = [app EXCEPT !.pc = "wipe", !.k = k, !.new = q.slot[k].sd]
            /\ Check(q.slot[k].sd \in Sd /\ ctx[q.slot[k].sd].live)
    /\ UNCHANGED <<ctx, readers, writer, recv, tran, outside, count>>

(* INVALIDATE_CONNECT_REQUEST(): memset(), then sd = -1. *)
Wipe ==
    /\ AppAt("wipe")
    /\ listen_table' = [listen_table EXCEPT ![app.sd].slot[app.k] =
                            [NoRequest EXCEPT !.sd = 0]]
    /\ AppGoto("invalidate")
    /\ UNCHANGED <<ctx, readers, writer, recv, tran, outside, count, halt>>

Invalidate ==
    /\ AppAt("invalidate")
    /\ listen_table' = [listen_table EXCEPT ![app.sd].slot[app.k] = NoRequest]
    /\ AppGoto("load")
    /\ UNCHANGED <<ctx, readers, writer, recv, tran, outside, count, halt>>

(* --q->cur_len reads and writes cur_len while the receive thread may do   *)
(* the same.                                                               *)
LoadLen ==
    /\ AppAt("load")
    /\ app' = [app EXCEPT !.pc = "store", !.len = Queue(app.sd).cur_len]
    /\ Check(Queue(app.sd).cur_len > 0)
    /\ UNCHANGED <<ctx, listen_table, readers, writer, recv, tran, outside, count>>

(* The end of myaccept(): -1 is returned for a connection that failed. *)
StoreLen ==
    /\ AppAt("store")
    /\ listen_table' = [listen_table EXCEPT ![app.sd].cur_len = app.len - 1]
    /\ readers' = readers \ {App}
    /\ app' = [AppIdle EXCEPT !.own = IF ctx[app.new].failed THEN app.own
                                      ELSE app.own \union {app.new}]
    /\ UNCHANGED <<ctx, writer, recv, tran, outside, count, halt>>

(* The sockets the application may read, write and close. *)
Usable(s) == s \in app.own /\ ~ctx[s].listening /\ tran[s].pc # "none"
             /\ ~ctx[s].failed

mywrite(s) ==
    /\ AppAt("idle") /\ Usable(s) /\ count.writes < MaxWrites
    /\ ctx' = [ctx EXCEPT ![s].app_recv = @ + 1]
    /\ app' = [app EXCEPT !.pc = "wrote", !.sd = s]
    /\ count' = [count EXCEPT !.writes = @ + 1]
    /\ UNCHANGED <<listen_table, readers, writer, recv, tran, outside, halt>>

(* The broadcast at the end of _mysock_enqueue_buffer(). *)
Wrote ==
    /\ AppAt("wrote")
    /\ tran' = WakeTran(app.sd, tran)
    /\ app' = [app EXCEPT !.pc = "idle", !.sd = -1]
    /\ UNCHANGED <<ctx, listen_table, readers, writer, recv, outside, count, halt>>

myread(s) ==
    /\ AppAt("idle") /\ Usable(s) /\ ~ctx[s].eof
    /\ app' = [app EXCEPT !.pc = "read", !.sd = s]
    /\ UNCHANGED <<ctx, listen_table, readers, writer, recv, tran, outside,
                   count, halt>>

(* Mutant: what did not fit into the caller's buffer is thrown away. *)
DequeueAll(pq, max_len) ==
    [buf |-> SubSeq(Head(pq), 1, max_len), pq |-> Tail(pq)]

(* _mysock_dequeue_buffer() with remove_partial *)
Dequeue(pq, max_len) ==
    IF Len(Head(pq)) > max_len
    THEN [buf |-> SubSeq(Head(pq), 1, max_len),
          pq |-> <<SubSeq(Head(pq), max_len + 1, Len(Head(pq)))>> \o Tail(pq)]
    ELSE [buf |-> Head(pq), pq |-> Tail(pq)]

DequeueBuffer ==
    /\ AppAt("read")
    /\ LET s == app.sd IN
       IF ctx[s].app_send = <<>>
       THEN AppGoto("asleep_read") /\ UNCHANGED ctx
       ELSE LET d == Dequeue(ctx[s].app_send, BufLen) IN
            /\ ctx' = [ctx EXCEPT ![s].app_send = d.pq, ![s].got = @ \o d.buf,
                                  ![s].eof = (d.buf = <<>>)]
            /\ app' = [app EXCEPT !.pc = "idle", !.sd = -1]
    /\ UNCHANGED <<listen_table, readers, writer, recv, tran, outside, count, halt>>

----------------------------------------------------------------------------
(* myclose(): wake the transport thread, join it, stop and join the        *)
(* receive thread; a listening socket then closes what nobody accepted.    *)
CloseRequest(s, outer) ==
    /\ ctx' = [ctx EXCEPT ![s].close_requested = TRUE]
    /\ app' = [app EXCEPT !.pc = "closing", !.sd = s, !.outer = outer]

myclose(s) ==
    /\ AppAt("idle") /\ s \in app.own
    /\ CloseRequest(s, -1)
    /\ UNCHANGED <<listen_table, readers, writer, recv, tran, outside, count, halt>>

CloseBroadcast ==
    /\ AppAt("closing")
    /\ tran' = WakeTran(app.sd, tran)
    /\ AppGoto("join")
    /\ UNCHANGED <<ctx, listen_table, readers, writer, recv, outside, count, halt>>

(* pthread_join(), then _network_stop_recv_thread(). *)
JoinTransport ==
    /\ AppAt("join") /\ tran[app.sd].pc \in {"none", "done"}
    /\ recv' = [recv EXCEPT ![app.sd].exit = TRUE]
    /\ AppGoto("joinrecv")
    /\ UNCHANGED <<ctx, listen_table, readers, writer, tran, outside, count, halt>>

JoinRecv ==
    /\ AppAt("joinrecv") /\ recv[app.sd].pc \in {"none", "done"}
    /\ AppGoto(IF ctx[app.sd].listening THEN "passive" ELSE "free")
    /\ UNCHANGED <<ctx, listen_table, readers, writer, recv, tran, outside,
                   count, halt>>

(* _mysock_close_passive_socket(): myclose() is called with the lock held. *)
ClosePassive ==
    /\ AppAt("passive") /\ readers = {}
    /\ writer' = TRUE
    /\ app' = [app EXCEPT !.pc = "drain", !.k = 1]
    /\ UNCHANGED <<ctx, listen_table, readers, recv, tran, outside, count, halt>>

DrainQueue ==
    /\ AppAt("drain")
    /\ LET q == Queue(app.sd)
           r == q.slot[app.k] IN
       \/ /\ app.k <= q.max_len /\ r.sd # -1
          /\ CloseRequest(r.sd, app.sd)
          /\ UNCHANGED <<listen_table, writer>>
       \/ /\ app.k <= q.max_len /\ r.sd = -1
          /\ app' = [app EXCEPT !.k = @ + 1]
          /\ UNCHANGED <<ctx, listen_table, writer>>
       \/ /\ app.k > q.max_len
          /\ listen_table' = [listen_table EXCEPT ![app.sd] = NoQueue]
          /\ writer' = FALSE
          /\ AppGoto("free")
          /\ UNCHANGED ctx
    /\ UNCHANGED <<readers, recv, tran, outside, count, halt>>

(* _mysock_free_context(); a nested myclose() returns to the loop. *)
FreeContext ==
    /\ AppAt("free")
    /\ ctx' = [ctx EXCEPT ![app.sd] = FreshContext]
    /\ recv' = [recv EXCEPT ![app.sd] = RecvNone]
    /\ tran' = [tran EXCEPT ![app.sd] = TranNone]
    /\ accq' = [accq EXCEPT ![app.sd] = <<>>]
    /\ app' = IF app.outer = -1 THEN [AppIdle EXCEPT !.own = app.own \ {app.sd}]
              ELSE [app EXCEPT !.pc = "drain", !.k = @ + 1, !.sd = app.outer,
                               !.outer = -1]
    /\ UNCHANGED <<listen_table, readers, writer, said, count, halt>>

----------------------------------------------------------------------------
(* Clients: a TCP connection, then the SYN or nothing at all. *)
TcpArrive(p, s) ==
    /\ Run /\ ctx[s].listening /\ Queue(s) # NoQueue
    /\ said[p] = "no" /\ count.arrivals < MaxArrivals
    /\ accq' = [accq EXCEPT ![s] = Append(@, p)]
    /\ said' = [said EXCEPT ![p] = "connected"]
    /\ count' = [count EXCEPT !.arrivals = @ + 1]
    /\ UNCHANGED <<ctx, listen_table, readers, writer, threads, halt>>

SendSyn(p) ==
    /\ Run /\ said[p] = "connected"
    /\ said' = [said EXCEPT ![p] = "syn"]
    /\ UNCHANGED <<ctx, listen_table, readers, writer, threads, accq, count, halt>>

Hangup(p) ==
    /\ Run /\ Hangups /\ said[p] = "connected"
    /\ said' = [said EXCEPT ![p] = "hung"]
    /\ UNCHANGED <<ctx, listen_table, readers, writer, threads, accq, count, halt>>

----------------------------------------------------------------------------
(* The receive threads. *)
RecvAt(s, pc) == Run /\ recv[s].pc = pc
RecvGoto(s, pc) == recv' = [recv EXCEPT ![s].pc = pc]

(* poll() reports the exit pipe. *)
RecvExit(s) ==
    /\ RecvAt(s, "poll") /\ recv[s].exit
    /\ RecvGoto(s, "done")
    /\ UNCHANGED <<ctx, listen_table, readers, writer, app, tran, outside,
                   count, halt>>

(* _network_recv_packet() on a listening socket: accept(), then a blocking *)
(* read of the first packet.  new_socket must have been handed over.       *)
RecvAccept(s) ==
    /\ RecvAt(s, "poll") /\ ~recv[s].exit
    /\ ctx[s].listening /\ accq[s] # <<>>
    /\ ctx' = [ctx EXCEPT ![s].new_socket = Head(accq[s])]
    /\ recv' = [recv EXCEPT ![s].pc = "read", ![s].peer = Head(accq[s])]
    /\ accq' = [accq EXCEPT ![s] = Tail(@)]
    /\ Check(ctx[s].new_socket = NoPeer)
    /\ UNCHANGED <<listen_table, readers, writer, app, tran, said, count>>

(* A client that went away ends the loop, and the thread. *)
RecvRead(s) ==
    /\ RecvAt(s, "read") /\ said[recv[s].peer] \in {"syn", "hung"}
    /\ RecvGoto(s, IF said[recv[s].peer] = "syn" THEN "enqueue" ELSE "done")
    /\ said' = [said EXCEPT ![recv[s].peer] = "no"]
    /\ UNCHANGED <<ctx, listen_table, readers, writer, app, tran, accq, count,
                   halt>>

(* Mutant: the first slot is not searched for a retransmission. *)
QueuedAfter(q, p) == {k \in 2..q.max_len : q.slot[k].peer = p}

Queued(q, p) == {k \in 1..q.max_len : q.slot[k].peer = p}

(* Slots looked at before the search for a retransmission ends.  One that  *)
(* is between memset() and sd = -1 fails the assertion on its address.     *)
ScanHolds(q, p) ==
    \A k \in 1..q.max_len :
        \/ \E h \in Queued(q, p) : h < k
        \/ q.slot[k].sd = -1 \/ q.slot[k].peer # NoPeer

FreeSlots(q) == {k \in 1..q.max_len : q.slot[k].sd < 0}

EmptySlot(q) == IF FreeSlots(q) = {} THEN 0 ELSE Min(FreeSlots(q))

(* Mutant: listen_lock is taken for writing. *)
EnqueueExclusive(s) ==
    /\ RecvAt(s, "enqueue") /\ ~writer /\ readers = {}
    /\ LET q == Queue(s) IN
       IF Queued(q, recv[s].peer) # {} \/ q.cur_len >= q.max_len
       THEN /\ RecvGoto(s, "poll")
            /\ Check(ScanHolds(q, recv[s].peer))
            /\ UNCHANGED readers
       ELSE /\ readers' = readers \union {Recv(s)}
            /\ recv' = [recv EXCEPT ![s].pc = "claim", ![s].n = q.cur_len + 1,
                                    ![s].k = EmptySlot(q)]
            /\ Check(FreeSlots(q) # {} /\ ScanHolds(q, recv[s].peer))
    /\ UNCHANGED <<ctx, listen_table, writer, app, tran, outside, count>>

(* _mysock_enqueue_connection() up to the store of ++q->cur_len; a         *)
(* retransmission, or a request that finds the queue full, is dropped.     *)
EnqueueConnection(s) ==
    /\ RecvAt(s, "enqueue") /\ ~writer
    /\ LET q == Queue(s) IN
       IF Queued(q, recv[s].peer) # {} \/ q.cur_len >= q.max_len
       THEN /\ RecvGoto(s, "poll")
            /\ Check(ScanHolds(q, recv[s].peer))
            /\ UNCHANGED readers
       ELSE /\ readers' = readers \union {Recv(s)}
            /\ recv' = [recv EXCEPT ![s].pc = "claim", ![s].n = q.cur_len + 1,
                                    ![s].k = EmptySlot(q)]
            /\ Check(FreeSlots(q) # {} /\ ScanHolds(q, recv[s].peer))
    /\ UNCHANGED <<ctx, listen_table, writer, app, tran, outside, count>>

(* ++q->cur_len, then _mysock_new_mysocket() looks for a free descriptor.  *)
ClaimSlot(s) ==
    /\ RecvAt(s, "claim")
    /\ listen_table' = [listen_table EXCEPT ![s].cur_len = recv[s].n]
    /\ recv' = [recv EXCEPT ![s].pc = "create",
                            ![s].fd = IF FreeSds = {} THEN -1 ELSE Min(FreeSds)]
    /\ UNCHANGED <<ctx, readers, writer, app, tran, outside, count, halt>>

(* No descriptor is left: the slot is given back.  If myaccept() stored    *)
(* its own count after ClaimSlot, --q->cur_len wraps around.               *)
NewMysocketFails(s) ==
    /\ RecvAt(s, "create") /\ recv[s].fd = -1
    /\ listen_table' = [listen_table EXCEPT ![s].slot[recv[s].k] = NoRequest,
                                            ![s].cur_len = (@ - 1) % (UINT_MAX + 1)]
    /\ readers' = readers \ {Recv(s)}
    /\ RecvGoto(s, "poll")
    /\ UNCHANGED <<ctx, writer, app, tran, outside, count, halt>>

(* The new context, its place in the queue and its threads. *)
CreateConnection(s) ==
    /\ RecvAt(s, "create") /\ recv[s].fd # -1
    /\ LET c == recv[s].fd
           p == recv[s].peer IN
       IF ctx[c].live
       THEN halt' = "corrupt" /\ UNCHANGED <<ctx, listen_table, recv, tran>>
       ELSE /\ ctx' = [ctx EXCEPT
                  ![c] = [FreshContext EXCEPT !.live = TRUE, !.listen_sd = s,
                            !.peer = p, !.connected = "yes",
                            !.script = Script(FALSE)],
                  ![s].new_socket = NoPeer]
            /\ listen_table' = [listen_table EXCEPT ![s].slot[recv[s].k] =
                                    [sd |-> c, peer |-> p]]
            /\ tran' = [tran EXCEPT ![c] = [TranNone EXCEPT !.pc = "synwait"]]
            /\ recv' = [recv EXCEPT ![c] = [RecvNone EXCEPT !.pc = "poll"],
                                    ![s].pc = "pass"]
            /\ UNCHANGED halt
    /\ UNCHANGED <<readers, writer, app, outside, count>>

(* The SYN goes to the new context's queue, then the broadcast. *)
PassSyn(s) ==
    /\ RecvAt(s, "pass")
    /\ ctx' = [ctx EXCEPT ![recv[s].fd].network_recv = Append(@, "syn")]
    /\ RecvGoto(s, "passed")
    /\ UNCHANGED <<listen_table, readers, writer, app, tran, outside, count, halt>>

PassedSyn(s) ==
    /\ RecvAt(s, "passed")
    /\ tran' = WakeTran(recv[s].fd, tran)
    /\ readers' = readers \ {Recv(s)}
    /\ recv' = [recv EXCEPT ![s].pc = "poll", ![s].peer = NoPeer, ![s].k = 0,
                            ![s].n = 0, ![s].fd = -1]
    /\ UNCHANGED <<ctx, listen_table, writer, app, outside, count, halt>>

(* connect() by whichever thread of an active socket comes first; a        *)
(* failure returns with connect_lock held ("stuck").                       *)
TcpConnect(s, to, c) ==
    /\ ctx[s].connected # "stuck"
    /\ to \in {"yes"} \union (IF Refusals /\ ctx[s].connected = "no"
                             THEN {"stuck"} ELSE {})
    /\ ctx' = [ctx EXCEPT ![s] = [c EXCEPT !.connected = to]]

(* The receive thread of an active socket connects before it reads. *)
RecvConnect(s) ==
    /\ RecvAt(s, "poll") /\ ~recv[s].exit
    /\ ctx[s].active /\ ctx[s].connected # "yes"
    /\ \E to \in {"yes", "stuck"} :
         /\ TcpConnect(s, to, ctx[s])
         /\ RecvGoto(s, IF to = "yes" THEN "poll" ELSE "done")
    /\ UNCHANGED <<listen_table, readers, writer, app, tran, outside, count, halt>>

(* A packet of an established TCP connection is queued for the transport   *)
(* thread; the peer answers a SYN, it does not speak first.                *)
RecvPacket(s) ==
    /\ RecvAt(s, "poll") /\ ~recv[s].exit
    /\ ~ctx[s].listening /\ ctx[s].connected = "yes"
    /\ ctx[s].script # <<>> /\ tran[s].pc \notin {"connect", "synwait", "asleep_syn"}
    /\ ctx' = [ctx EXCEPT ![s].network_recv = Append(@, Head(ctx[s].script)),
                          ![s].script = Tail(@)]
    /\ RecvGoto(s, "queued")
    /\ UNCHANGED <<listen_table, readers, writer, app, tran, outside, count, halt>>

QueuedPacket(s) ==
    /\ RecvAt(s, "queued")
    /\ tran' = WakeTran(s, tran)
    /\ RecvGoto(s, "poll")
    /\ UNCHANGED <<ctx, listen_table, readers, writer, app, outside, count, halt>>

----------------------------------------------------------------------------
(* The transport threads: transport_thread_func() around transport_init(). *)
TranAt(s, pc) == Run /\ tran[s].pc = pc
TranGoto(s, pc) == tran' = [tran EXCEPT ![s].pc = pc]

(* The SYN of an active socket. *)
SendOwnSyn(s) ==
    /\ TranAt(s, "connect")
    /\ \E to \in {"yes", "stuck"} :
         /\ TcpConnect(s, to, [ctx[s] EXCEPT !.failed = (to = "stuck")])
         /\ TranGoto(s, IF to = "yes" THEN "shake" ELSE "unblock")
    /\ UNCHANGED <<listen_table, readers, writer, app, recv, outside, count, halt>>

(* What stcp_wait_for_event() leaves behind: a close request is reported   *)
(* once, whether or not the caller asked for it.                           *)
AfterEvent(s) ==
    [ctx[s] EXCEPT !.close_requested = @ /\ ~CloseReady(s),
                   !.network_recv = IF @ = <<>> THEN @ ELSE Tail(@)]

(* The handshake waits for the SYN without a timeout, then for the answer  *)
(* to its own packet with one; other packets and the close request are     *)
(* ignored.                                                                *)
AwaitSyn(s) ==
    /\ TranAt(s, "synwait")
    /\ IF NetworkEvent(s)
       THEN /\ ctx' = [ctx EXCEPT ![s] = AfterEvent(s)]
            /\ TranGoto(s, IF ctx[s].network_recv # <<>> THEN "shake" ELSE "synwait")
       ELSE TranGoto(s, "asleep_syn") /\ UNCHANGED ctx
    /\ UNCHANGED <<listen_table, readers, writer, app, recv, outside, count, halt>>

Handshake(s) ==
    /\ TranAt(s, "shake") /\ NetworkEvent(s)
    /\ ctx' = [ctx EXCEPT ![s] = AfterEvent(s)]
    /\ TranGoto(s, IF ctx[s].network_recv # <<>> THEN "unblock" ELSE "shake")
    /\ UNCHANGED <<listen_table, readers, writer, app, recv, outside, count, halt>>

(* stcp_unblock_application() *)
Unblock(s) ==
    /\ TranAt(s, "unblock")
    /\ ctx' = [ctx EXCEPT ![s].blocking = FALSE]
    /\ TranGoto(s, "signal")
    /\ Check(ctx[s].blocking)
    /\ UNCHANGED <<listen_table, readers, writer, app, recv, outside, count>>

(* A connection that failed goes on in a control loop that never ends. *)
ControlLoop(s) == IF ctx[s].failed THEN "dead" ELSE "loop"

SignalConnect(s) ==
    /\ TranAt(s, "signal")
    /\ app' = [app EXCEPT !.pc =
                 IF @ = "asleep_conn" /\ app.sd = s THEN "waitconn" ELSE @]
    /\ TranGoto(s, IF ctx[s].active THEN ControlLoop(s) ELSE "complete")
    /\ UNCHANGED <<ctx, listen_table, readers, writer, recv, outside, count, halt>>

(* The slots in which the search of _mysock_passive_connection_complete()  *)
(* sees descriptor s.  It holds listen_lock for reading and nothing else:  *)
(* a slot that memset() has just cleared reads as descriptor 0, be it      *)
(* myaccept() (Wipe) or the receive thread (NewMysocketFails) that clears  *)
(* it.                                                                     *)
HoldsSd(l, s) == {k \in 1..Queue(l).max_len : Queue(l).slot[k].sd = s}

HalfCleared(l, s) ==
    IF s = 0 /\ recv[l].pc = "create" /\ recv[l].fd = -1 THEN {recv[l].k} ELSE {}

OwnSlot(s) ==
    LET l == ctx[s].listen_sd IN
    {k \in HoldsSd(l, s) : Queue(l).slot[k].peer = ctx[s].peer}

(* The first slot is taken for the request of this connection.  If it is   *)
(* the slot of another, that slot is queued for myaccept(), and this       *)
(* connection never is.                                                    *)
FindRequest(s) ==
    /\ TranAt(s, "complete") /\ ~writer
    /\ LET l == ctx[s].listen_sd IN
       \E hits \in {HoldsSd(l, s), HoldsSd(l, s) \union HalfCleared(l, s)} :
          halt' = IF ~ctx[l].listening \/ hits = {} THEN "assert"
                  ELSE IF Min(hits) \in OwnSlot(s) THEN halt ELSE "misfiled"
    /\ readers' = readers \union {Tran(s)}
    /\ TranGoto(s, "found")
    /\ UNCHANGED <<ctx, listen_table, writer, app, recv, outside, count>>

Completed(q, k) == [q EXCEPT !.completed = Append(@, k)]

(* Its request goes to the end of the completed queue, under               *)
(* connection_lock.                                                        *)
PassiveComplete(s) ==
    /\ TranAt(s, "found") /\ ~ConnectionLocked
    /\ listen_table' = [listen_table EXCEPT ![ctx[s].listen_sd] =
                           Completed(@, Min(OwnSlot(s)))]
    /\ TranGoto(s, "completed")
    /\ UNCHANGED <<ctx, readers, writer, app, recv, outside, count, halt>>

(* Mutant: the application is not signalled. *)
SignalNobody(a) == a

WakeAccept(a) == [a EXCEPT !.pc = IF @ = "asleep_accept" THEN "accept" ELSE @]

SignalAccept(s) ==
    /\ TranAt(s, "completed")
    /\ app' = IF app.sd = ctx[s].listen_sd THEN WakeAccept(app) ELSE app
    /\ readers' = readers \ {Tran(s)}
    /\ TranGoto(s, ControlLoop(s))
    /\ UNCHANGED <<ctx, listen_table, writer, recv, outside, count, halt>>

(* One round of the control loop: data of the application is taken down, a *)
(* packet's data or end-of-file is handed up, a close request sends a FIN. *)
LoopEvents(s) ==
    /\ TranAt(s, "loop") /\ AnyEvent(s)
    /\ LET c == AfterEvent(s)
           in == IF ctx[s].network_recv = <<>> THEN "none"
                 ELSE Head(ctx[s].network_recv)
           up == CASE in = "data" -> <<Data>> [] in = "fin" -> <<EofPacket>>
                   [] OTHER -> <<>>
           fin == tran[s].fin \/ CloseReady(s)
           peerfin == tran[s].peerfin \/ in = "fin" IN
       /\ ctx' = [ctx EXCEPT ![s] =
                    [c EXCEPT !.app_recv = IF @ > 0 THEN @ - 1 ELSE @,
                              !.app_send = @ \o up,
                              !.pushed = IF in = "data" THEN @ \o Data ELSE @]]
       /\ tran' = [tran EXCEPT ![s] =
                     [pc |-> IF up # <<>> THEN "handed"
                             ELSE IF fin /\ peerfin THEN "exit" ELSE "loop",
                      fin |-> fin, peerfin |-> peerfin]]
    /\ UNCHANGED <<listen_table, readers, writer, app, recv, outside, count, halt>>

LoopSleep(s) ==
    /\ TranAt(s, "loop") /\ ~AnyEvent(s)
    /\ TranGoto(s, "asleep_loop")
    /\ UNCHANGED <<ctx, listen_table, readers, writer, app, recv, outside,
                   count, halt>>

(* The broadcast at the end of stcp_app_send() and stcp_fin_received(). *)
HandedUp(s) ==
    /\ TranAt(s, "handed")
    /\ app' = WakeApp(s)
    /\ TranGoto(s, IF tran[s].fin /\ tran[s].peerfin THEN "exit" ELSE "loop")
    /\ UNCHANGED <<ctx, listen_table, readers, writer, recv, outside, count, halt>>

(* The thread's last act: end-of-file for whoever still reads. *)
TransportExit(s) ==
    /\ TranAt(s, "exit")
    /\ ctx' = [ctx EXCEPT ![s].app_send = Append(@, EofPacket)]
    /\ app' = WakeApp(s)
    /\ TranGoto(s, "done")
    /\ UNCHANGED <<listen_table, readers, writer, recv, outside, count, halt>>

----------------------------------------------------------------------------
Init ==
    /\ ctx = [s \in Sd |-> FreshContext]
    /\ listen_table = [s \in Sd |-> NoQueue]
    /\ readers = {} /\ writer = FALSE
    /\ app = AppIdle
    /\ recv = [s \in Sd |-> RecvNone]
    /\ tran = [s \in Sd |-> TranNone]
    /\ accq = [s \in Sd |-> <<>>]
    /\ said = [p \in Peer |-> "no"]
    /\ count = [arrivals |-> 0, writes |-> 0, opens |-> 0]
    /\ halt = "no"

Call == mysocket \/ \E s \in Sd :
            \/ mybind(s) \/ mylisten(s) \/ myconnect(s) \/ myaccept(s)
            \/ mywrite(s) \/ myread(s) \/ myclose(s)

AppStep ==
    \/ SetBacklog \/ WaitForConnection \/ DequeueConnection \/ Wipe
    \/ Invalidate \/ LoadLen \/ StoreLen \/ Wrote \/ DequeueBuffer
    \/ CloseBroadcast \/ JoinTransport \/ JoinRecv \/ ClosePassive
    \/ DrainQueue \/ FreeContext

RecvStep(s) ==
    \/ RecvExit(s) \/ RecvAccept(s) \/ RecvRead(s) \/ EnqueueConnection(s)
    \/ ClaimSlot(s) \/ NewMysocketFails(s) \/ CreateConnection(s)
    \/ PassSyn(s) \/ PassedSyn(s) \/ RecvConnect(s) \/ RecvPacket(s)
    \/ QueuedPacket(s)

TranStep(s) ==
    \/ SendOwnSyn(s) \/ AwaitSyn(s) \/ Handshake(s) \/ Unblock(s)
    \/ SignalConnect(s) \/ FindRequest(s) \/ PassiveComplete(s) \/ SignalAccept(s)
    \/ LoopEvents(s) \/ LoopSleep(s) \/ HandedUp(s) \/ TransportExit(s)

Client == \E p \in Peer : SendSyn(p) \/ Hangup(p) \/ \E s \in Sd : TcpArrive(p, s)

Next == Call \/ AppStep \/ Client \/ \E s \in Sd : RecvStep(s) \/ TranStep(s)

(* The scheduler runs every thread that can run; the application need not  *)
(* make any call, and clients need not come.                               *)
Fairness ==
    /\ WF_vars(AppStep)
    /\ \A s \in Sd : WF_vars(RecvStep(s)) /\ WF_vars(TranStep(s))

Spec == Init /\ [][Next]_vars /\ Fairness

----------------------------------------------------------------------------
(* The variables keep their types. *)
AppPcs == {"idle", "backlog", "waitconn", "asleep_conn", "accept",
           "asleep_accept", "wipe", "invalidate", "load", "store", "wrote",
           "read", "asleep_read", "closing", "join", "joinrecv", "passive",
           "drain", "free"}
RecvPcs == {"none", "poll", "read", "enqueue", "claim", "create", "pass",
            "passed", "queued", "done"}
TranPcs == {"none", "connect", "synwait", "asleep_syn", "shake", "unblock",
            "signal", "complete", "found", "completed", "loop", "asleep_loop",
            "handed", "exit", "done", "dead"}

(* Contexts, queues and threads have values of their types; a queue has    *)
(* max_len slots.  (cur_len, which two threads count up and down under     *)
(* different locks, may exceed max_len: it is an unsigned int.)            *)
TypeOK ==
    /\ \A s \in Sd :
         /\ ctx[s].peer \in Peer \union {NoPeer}
         /\ ctx[s].listen_sd \in Sd \union {-1}
         /\ ctx[s].app_recv \in 0..MaxWrites
         /\ ctx[s].connected \in {"no", "yes", "stuck"}
         /\ recv[s].pc \in RecvPcs /\ tran[s].pc \in TranPcs
         /\ Queue(s).cur_len \in 0..UINT_MAX
         /\ DOMAIN Queue(s).slot = 1..Queue(s).max_len
         /\ \A k \in 1..Queue(s).max_len : Queue(s).slot[k].sd \in Sd \union {-1}
    /\ app.pc \in AppPcs /\ app.own \subseteq Sd
    /\ readers \subseteq ({App} \union {Recv(s) : s \in Sd}
                                \union {Tran(s) : s \in Sd})
    /\ writer \in BOOLEAN /\ halt \in {"no", "assert", "corrupt", "misfiled"}

(* No wakeup is lost: a thread that sleeps on a condition variable sleeps  *)
(* for a reason, or somebody is about to wake it (pthread_cond_wait() in   *)
(* _mysock_dequeue_connection(), _mysock_wait_for_connection(),            *)
(* _mysock_dequeue_buffer() and stcp_wait_for_event()).                    *)
Broadcasting(s) ==
    \/ recv[s].pc = "queued"
    \/ \E l \in Sd : recv[l].pc = "passed" /\ recv[l].fd = s
    \/ app.pc \in {"wrote", "closing"} /\ app.sd = s

NoLostWakeup ==
    Run =>
    /\ app.pc = "asleep_accept" =>
         \/ Queue(app.sd).completed = <<>>
         \/ \E s \in Sd : tran[s].pc = "completed"
    /\ app.pc = "asleep_conn" => ctx[app.sd].blocking \/ tran[app.sd].pc = "signal"
    /\ app.pc = "asleep_read" =>
         ctx[app.sd].app_send = <<>> \/ tran[app.sd].pc = "handed"
    /\ \A s \in Sd :
         /\ tran[s].pc = "asleep_syn" => ~NetworkEvent(s) \/ Broadcasting(s)
         /\ tran[s].pc = "asleep_loop" => ~AnyEvent(s) \/ Broadcasting(s)

(* A connection whose handshake is not over has its listening socket, and  *)
(* exactly one place in that socket's queue, where no other request has    *)
(* its address: what _mysock_passive_connection_complete() looks up is     *)
(* there (though a half-cleared slot may come before it: FindRequest), and *)
(* a retransmitted SYN is recognised.                                      *)
Pending(s) ==
    /\ tran[s].pc \in {"synwait", "asleep_syn", "shake", "unblock", "signal",
                       "complete", "found"}
    /\ ~ctx[s].active

PendingIsQueued ==
    Run => \A s \in Sd : Pending(s) =>
        LET l == ctx[s].listen_sd IN
        /\ ctx[l].live /\ ctx[l].listening
        /\ \E k \in 1..Queue(l).max_len :
             /\ Queue(l).slot[k] = [sd |-> s, peer |-> ctx[s].peer]
             /\ \A j \in 1..Queue(l).max_len :
                  Queue(l).slot[j].peer = ctx[s].peer => j = k

(* A connection in the completed queue is open, past its handshake, listed *)
(* once, and not in the application's hands: myaccept() returns every      *)
(* connection at most once.  (While a queue is torn down nobody sees it.)  *)
CompletedOnce ==
    Run /\ ~writer => \A l \in Sd :
        LET q == Queue(l)
            done(i) == q.slot[q.completed[i]].sd IN
        \A i \in 1..Len(q.completed) :
            /\ ctx[done(i)].live /\ ~Pending(done(i)) /\ done(i) \notin app.own
            /\ \A j \in 1..Len(q.completed) : done(i) = done(j) => i = j

(* No established connection is forgotten: until it is closed it is in the *)
(* completed queue, being accepted, or in the application's hands.         *)
NoneForgotten ==
    Run => \A s \in Sd :
        (ctx[s].live /\ ~ctx[s].active /\ tran[s].pc \in
            {"completed", "loop", "asleep_loop", "handed", "exit", "done"}) =>
        \/ s \in app.own
        \/ app.new = s
        \/ \E l \in Sd : \E i \in 1..Len(Queue(l).completed) :
             Queue(l).slot[Queue(l).completed[i]].sd = s

(* Every established connection is handed out exactly once, whatever       *)
(* myaccept(), new connections and the ends of handshakes do at once,      *)
(* until a connection with descriptor 0 is misfiled (FindRequest).         *)
HandedOutOnce == CompletedOnce /\ NoneForgotten

(* What the application reads is what the transport layer handed up, in    *)
(* order, whatever the size of its buffer; end-of-file comes last.         *)
ReadsInOrder ==
    \A s \in Sd :
        /\ ctx[s].got \o FlattenSeq(ctx[s].app_send) = ctx[s].pushed
        /\ ctx[s].eof => ctx[s].got = ctx[s].pushed

(* STCP hears of myclose() after it has been given everything written:     *)
(* once the FIN is sent no buffer of mywrite() is left in the queue.       *)
CloseAfterData == \A s \in Sd : tran[s].fin => ctx[s].app_recv = 0

(* Both directions of a connection keep their order, end-of-file included  *)
(* (_mysock_dequeue_buffer(), stcp_wait_for_event()).                      *)
DataInOrder == ReadsInOrder /\ CloseAfterData

(* myclose() of an established connection returns.                         *)
CloseReturns ==
    (app.pc = "closing" /\ app.outer = -1 /\ Usable(app.sd))
    ~> (app.pc = "idle" \/ ~Run)

(* A client that connects is attended to, and its SYN queued or dropped,   *)
(* whether or not the application accepts and however full the queue is:   *)
(* only a client before it that connected and said nothing keeps the       *)
(* receive thread, in the read() of _network_recv_packet(), and the close  *)
(* of the socket ends it.                                                  *)
ArrivalTaken ==
    \A s \in Sd :
        (accq[s] # <<>> \/ recv[s].pc = "enqueue")
        ~> \/ accq[s] = <<>> /\ recv[s].pc # "enqueue"
           \/ recv[s].pc = "read" /\ said[recv[s].peer] = "connected"
           \/ recv[s].exit \/ ~Run

=============================================================================
