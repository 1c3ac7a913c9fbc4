-------------------------- MODULE MysockInvariant --------------------------
(***************************************************************************)
(* The inductive invariant of the socket layer, for any number of          *)
(* descriptors, clients and connections: the types of the contexts, queues *)
(* and threads, and the bookkeeping of the listen queues, the hand-over of *)
(* connections to myaccept(), the locks and the condition variables; and   *)
(* then the order of the data that passes through a connection.            *)
(***************************************************************************)
EXTENDS Mysock

---------------------------------------------------------------------------
(* Types. *)
NoSd == Sd \union {-1}
Address == Peer \union {NoPeer}
Packet == {"syn", "synack", "ack", "data", "fin"}
SlotNo == 0 .. (Backlog + 1)
Unsigned == 0 .. UINT_MAX

Context ==
    [live : BOOLEAN, bound : BOOLEAN, listening : BOOLEAN, active : BOOLEAN,
     listen_sd : NoSd, peer : Address, blocking : BOOLEAN, failed : BOOLEAN,
     close_requested : BOOLEAN, eof : BOOLEAN, network_recv : Seq(Packet),
     app_send : Seq(Seq(Int)), app_recv : Nat, new_socket : Address,
     connected : {"no", "yes", "stuck"}, script : Seq(Packet),
     pushed : Seq(Int), got : Seq(Int)]

Request == [sd : NoSd, peer : Address]
Slots == UNION {[1 .. n -> Request] : n \in SlotNo}
ListenQueue ==
    [max_len : SlotNo, cur_len : Unsigned, slot : Slots, completed : Seq(SlotNo)]

AppThread == [pc : AppPcs, sd : NoSd, outer : NoSd, k : Nat, new : NoSd,
              len : Unsigned, own : SUBSET Sd]
RecvThread == [pc : RecvPcs, exit : BOOLEAN, peer : Address, k : SlotNo,
               n : Unsigned, fd : NoSd]
TranThread == [pc : TranPcs, fin : BOOLEAN, peerfin : BOOLEAN]

TypeInv ==
    /\ ctx \in [Sd -> Context]
    /\ listen_table \in [Sd -> ListenQueue]
    /\ \A s \in Sd : listen_table[s].slot \in [1 .. listen_table[s].max_len -> Request]
    /\ readers \subseteq ({App} \union {Recv(s) : s \in Sd}
                                \union {Tran(s) : s \in Sd})
    /\ writer \in BOOLEAN
    /\ app \in AppThread
    /\ recv \in [Sd -> RecvThread]
    /\ tran \in [Sd -> TranThread]
    /\ accq \in [Sd -> Seq(Peer)]
    /\ said \in [Peer -> {"no", "connected", "syn", "hung"}]
    /\ count \in [arrivals : Nat, writes : 0 .. MaxWrites, opens : Nat]
    /\ halt \in {"no", "assert", "corrupt", "misfiled"}

---------------------------------------------------------------------------
(* The application.  It works on a socket of its own; while it tears down  *)
(* the queue of a listening socket (Passive) it may be closing one of the  *)
(* queued connections instead.                                             *)
Passive == IF app.outer = -1 THEN app.sd ELSE app.outer

Accepting == {"wipe", "invalidate", "load", "store"}
Closing == {"closing", "join", "joinrecv", "free"}

ApplicationSound ==
    /\ app.pc # "idle" => Passive \in app.own
    /\ app.outer # -1 => app.pc \in Closing
    /\ app.pc # "idle" => app.sd \in Sd
    /\ writer <=> (app.pc = "drain" \/ app.outer # -1)
    /\ app.pc \in Accepting <=> app.new # -1
    /\ app.pc \in Accepting => ctx[app.new].live /\ app.new \notin app.own
    /\ app.pc \in Accepting => app.k \in 1 .. Queue(app.sd).max_len
    /\ app.pc = "store" => app.len > 0
    /\ app.pc = "drain" => app.k \in 1 .. Queue(app.sd).max_len + 1
    /\ app.pc \in {"backlog", "accept", "asleep_accept", "passive", "drain"}
         \union Accepting => ctx[app.sd].listening
    /\ writer => ctx[Passive].listening
    /\ app.pc = "backlog" => Queue(app.sd).max_len = 0 /\ recv[app.sd].pc = "none"

(* Threads that have ended, and what is left of the queue, when a socket   *)
(* is closed.                                                              *)
ClosingSound ==
    /\ app.pc \in {"joinrecv", "passive", "drain", "free"} =>
         tran[app.sd].pc \in {"none", "done"}
    /\ app.pc \in {"passive", "drain", "free"} => recv[app.sd].pc \in {"none", "done"}
    /\ app.outer # -1 => recv[app.outer].pc \in {"none", "done"}
    /\ app.pc = "free" => Queue(app.sd).max_len = 0

(* Who has threads, and which sockets listen. *)
ContextsSound ==
    /\ app.own \subseteq {s \in Sd : ctx[s].live}
    /\ \A s \in Sd :
         /\ tran[s].pc # "none" \/ recv[s].pc # "none" => ctx[s].live
         /\ recv[s].pc # "none" => ctx[s].listening \/ tran[s].pc # "none"
         /\ ctx[s].listening => /\ s \in app.own
                                /\ tran[s].pc = "none"
         /\ ctx[s].active => s \in app.own
         /\ ctx[s].failed => ctx[s].active
         /\ tran[s].pc = "connect" => ctx[s].active
         /\ tran[s].pc \in {"complete", "found"} => ~ctx[s].active
         /\ tran[s].pc # "none" => ctx[s].peer # NoPeer
         /\ Queue(s).max_len > 0 => ctx[s].listening
         /\ recv[s].pc \in {"read", "enqueue", "claim", "create", "pass", "passed"}
              => ctx[s].listening /\ recv[s].peer \in Peer
         /\ recv[s].pc \in {"pass", "passed"} => recv[s].fd \in Sd

(* Threads that hold listen_lock for reading. *)
LockSound ==
    /\ \A s \in Sd :
         /\ recv[s].pc \in {"claim", "create", "pass", "passed"} => Recv(s) \in readers
         /\ tran[s].pc \in {"found", "completed"} => Tran(s) \in readers
    /\ app.pc \in {"accept", "asleep_accept"} \union Accepting => App \in readers
    /\ writer => readers = {}

---------------------------------------------------------------------------
(* The listen queues.  Slots the teardown has passed, and the slot between *)
(* memset() and sd = -1, hold no connection.                               *)
Drained(l, k) == writer /\ l = Passive /\ k < app.k
Wiped(l, k) == app.pc = "invalidate" /\ l = app.sd /\ k = app.k

Entry(l, k) ==
    /\ k \in 1 .. Queue(l).max_len /\ Queue(l).slot[k].sd # -1
    /\ ~Drained(l, k) /\ ~Wiped(l, k)

Holds(l, k, s) == Entry(l, k) /\ Queue(l).slot[k].sd = s

(* A slot in use holds a connection that nobody else has. *)
EntriesSound ==
    \A l \in Sd : \A k \in 1 .. Queue(l).max_len :
        LET r == Queue(l).slot[k] IN
        /\ Entry(l, k) =>
             /\ ctx[r.sd].live /\ ctx[r.sd].listen_sd = l
             /\ ctx[r.sd].peer = r.peer /\ r.peer # NoPeer
             /\ r.sd \notin app.own
             /\ app.new = r.sd => app.pc = "wipe" /\ l = app.sd /\ k = app.k
        /\ r.sd = -1 => r.peer = NoPeer
        /\ Wiped(l, k) => r.sd = 0 /\ r.peer = NoPeer
        /\ Drained(l, k) /\ r.sd # -1 => ~ctx[r.sd].live

(* An address is in a queue once. *)
PeersUnique ==
    \A l \in Sd : \A j, k \in 1 .. Queue(l).max_len :
        Queue(l).slot[j].peer = Queue(l).slot[k].peer
        /\ Queue(l).slot[j].peer # NoPeer => j = k

(* The slot that the application frees, or whose connection it closes. *)
CurrentSlot ==
    /\ app.pc = "wipe" => Holds(app.sd, app.k, app.new)
    /\ app.outer # -1 => Holds(app.outer, app.k, app.sd)
    /\ app.pc \in {"wipe", "invalidate"} =>
         \A i \in 1 .. Len(Queue(app.sd).completed) : Queue(app.sd).completed[i] # app.k

(* The slot the receive thread has found stays free, and its client stays  *)
(* out of the queue, until the connection is there.                        *)
ClaimSound ==
    \A l \in Sd : recv[l].pc \in {"claim", "create"} =>
        /\ recv[l].k \in 1 .. Queue(l).max_len
        /\ Queue(l).slot[recv[l].k].sd = -1
        /\ \A k \in 1 .. Queue(l).max_len : Queue(l).slot[k].peer # recv[l].peer

(* Every connection in its handshake is in its listening socket's queue. *)
PendingSound ==
    \A s \in Sd : Pending(s) =>
        /\ ctx[s].listen_sd \in Sd
        /\ \E k \in 1 .. Queue(ctx[s].listen_sd).max_len : Holds(ctx[s].listen_sd, k, s)

(* The completed queue names slots whose connections are established. *)
CompletedSound ==
    \A l \in Sd : \A i \in 1 .. Len(Queue(l).completed) :
        LET k == Queue(l).completed[i] IN
        /\ k \in 1 .. Queue(l).max_len
        /\ ~Drained(l, k) => Entry(l, k) /\ ~Pending(Queue(l).slot[k].sd)
        /\ Drained(l, k) => Queue(l).slot[k].sd # -1
        /\ \A j \in 1 .. Len(Queue(l).completed) : Queue(l).completed[j] = k => j = i

NewNotPending == app.pc \in Accepting => ~Pending(app.new)

(* No established connection is forgotten. *)
Established == {"completed", "loop", "asleep_loop", "handed", "exit", "done"}

InCompleted(s) ==
    \E l \in Sd : \E i \in 1 .. Len(Queue(l).completed) :
        Queue(l).slot[Queue(l).completed[i]].sd = s

EstablishedKnown ==
    \A s \in Sd : ctx[s].live /\ ~ctx[s].active /\ tran[s].pc \in Established =>
        s \in app.own \/ app.new = s \/ InCompleted(s)

(* Where a sleeping myaccept() gets its wakeup from. *)
AcceptWoken ==
    app.pc = "asleep_accept" =>
        \/ Queue(app.sd).completed = <<>>
        \/ \E s \in Sd : tran[s].pc = "completed" /\ ctx[s].listen_sd = app.sd

OthersWoken ==
    /\ app.pc = "asleep_conn" => ctx[app.sd].blocking \/ tran[app.sd].pc = "signal"
    /\ app.pc = "asleep_read" =>
         ctx[app.sd].app_send = <<>> \/ tran[app.sd].pc = "handed"
    /\ \A s \in Sd :
         /\ tran[s].pc = "asleep_syn" => ~NetworkEvent(s) \/ Broadcasting(s)
         /\ tran[s].pc = "asleep_loop" => ~AnyEvent(s) \/ Broadcasting(s)

(* A close request, or the FIN it led to, belongs to the myclose() that    *)
(* the application is in.                                                  *)
CloseInHand ==
    \A s \in Sd :
        /\ ctx[s].app_recv <= count.writes
        /\ ctx[s].close_requested \/ tran[s].fin =>
             /\ s \in {app.sd, app.outer}
             /\ app.pc \in Closing \union {"passive", "drain"}
        /\ tran[s].fin => ctx[s].app_recv = 0

(* The inductive invariant; nothing is claimed after a failed assertion. *)
Sound ==
    /\ ApplicationSound /\ ClosingSound /\ ContextsSound /\ LockSound
    /\ EntriesSound /\ PeersUnique /\ CurrentSlot /\ ClaimSound
    /\ PendingSound /\ CompletedSound /\ NewNotPending /\ EstablishedKnown
    /\ AcceptWoken /\ OthersWoken /\ CloseInHand

Written == \A s \in Sd : ctx[s].app_recv <= count.writes

SocketInv == TypeInv /\ Written /\ (Run => Sound)
---------------------------------------------------------------------------
(* The data of a connection.  A peer sends nothing after its FIN, and what *)
(* is left for myread() after an end-of-file is more end-of-file.          *)
FinLast(packets) ==
    \A i, j \in 1 .. Len(packets) :
        i < j /\ packets[i] = "fin" => packets[j] # "data"

Sent(s, kind) ==
    \/ \E i \in 1 .. Len(ctx[s].network_recv) : ctx[s].network_recv[i] = kind
    \/ \E i \in 1 .. Len(ctx[s].script) : ctx[s].script[i] = kind

PacketsSound(s) ==
    /\ FinLast(ctx[s].network_recv) /\ FinLast(ctx[s].script)
    /\ (\E i \in 1 .. Len(ctx[s].network_recv) : ctx[s].network_recv[i] = "fin") =>
         \A i \in 1 .. Len(ctx[s].script) : ctx[s].script[i] # "data"
    /\ tran[s].peerfin => ~Sent(s, "data")
    /\ tran[s].pc = "none" => /\ ~Sent(s, "data") /\ ~Sent(s, "fin")
                              /\ ctx[s].app_send = <<>> /\ ~ctx[s].eof

BuffersSound(s) ==
    /\ ctx[s].got \o FlattenSeq(ctx[s].app_send) = ctx[s].pushed
    /\ \A i, j \in 1 .. Len(ctx[s].app_send) :
         i < j /\ ctx[s].app_send[i] = <<>> => ctx[s].app_send[j] = <<>>
    /\ (\E i \in 1 .. Len(ctx[s].app_send) : ctx[s].app_send[i] = <<>>) => tran[s].peerfin
    /\ ctx[s].eof => /\ tran[s].peerfin
                     /\ \A i \in 1 .. Len(ctx[s].app_send) : ctx[s].app_send[i] = <<>>
    /\ tran[s].pc \in {"exit", "done"} => tran[s].peerfin

StreamInv == CloseAfterData /\ \A s \in Sd : PacketsSound(s) /\ BuffersSound(s)
===========================================================================
