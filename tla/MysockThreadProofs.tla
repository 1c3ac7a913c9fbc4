------------------------ MODULE MysockThreadProofs ------------------------
(***************************************************************************)
(* Every step of the socket layer keeps its contexts, queues and threads   *)
(* of their types.  Then what the transport and receive threads, the       *)
(* clients, and the steps of the application that leave the books alone,   *)
(* do to the invariant.                                                    *)
(***************************************************************************)
EXTENDS MysockInvariant, SequenceTheorems, WellFoundedInduction, TLAPS

(* A set of natural numbers has a least element, and Min() returns it.     *)
LEMMA MinOfNaturals ==
    ASSUME NEW S \in SUBSET Nat, S # {}
    PROVE  Min(S) \in S /\ \A y \in S : Min(S) <= y
<1> DEFINE R == OpToRel(<, Nat)
<1>1. IsWellFoundedOn(R, Nat)
  BY NatLessThanWellFounded
<1>2. \A x, y \in Nat : x < y => <<x, y>> \in R
  BY DEF OpToRel
<1> HIDE DEF R
<1>3. PICK x \in S : \A y \in S : ~(<<y, x>> \in R)
  BY <1>1, WFMin
<1>4. ASSUME NEW y \in S PROVE x <= y
  <2>1. x \in Nat /\ y \in Nat
    OBVIOUS
  <2>2. ~(y < x)
    BY <1>2, <1>3, <2>1, Zenon
  <2> QED BY <2>1, <2>2
<1> QED
  BY <1>3, <1>4 DEF Min

(* What the actions do to a context leaves it a context. *)
LEMMA FreshContextType == FreshContext \in Context
BY DEF FreshContext, Context, NoSd, Address

LEMMA ContextFlags ==
    ASSUME NEW c \in Context, NEW b \in BOOLEAN
    PROVE  /\ [c EXCEPT !.live = b] \in Context
           /\ [c EXCEPT !.bound = b] \in Context
           /\ [c EXCEPT !.listening = b] \in Context
           /\ [c EXCEPT !.blocking = b] \in Context
           /\ [c EXCEPT !.failed = b] \in Context
           /\ [c EXCEPT !.close_requested = b] \in Context
<1>1. [c EXCEPT !.live = b] \in Context
  BY Zenon DEF Context
<1>2. [c EXCEPT !.bound = b] \in Context
  BY Zenon DEF Context
<1>3. [c EXCEPT !.listening = b] \in Context
  BY Zenon DEF Context
<1>4. [c EXCEPT !.blocking = b] \in Context
  BY Zenon DEF Context
<1>5. [c EXCEPT !.failed = b] \in Context
  BY Zenon DEF Context
<1>6. [c EXCEPT !.close_requested = b] \in Context
  BY Zenon DEF Context
<1> QED BY <1>1, <1>2, <1>3, <1>4, <1>5, <1>6

LEMMA ContextQueues ==
    ASSUME NEW c \in Context
    PROVE  /\ \A p \in Seq(Packet) : [c EXCEPT !.network_recv = p] \in Context
           /\ \A p, q \in Seq(Packet) :
                [c EXCEPT !.network_recv = p, !.script = q] \in Context
           /\ \A b \in BOOLEAN, p \in Seq(Packet) :
                [c EXCEPT !.close_requested = b, !.network_recv = p] \in Context
           /\ \A n \in Nat : [c EXCEPT !.app_recv = n] \in Context
           /\ \A out \in Seq(Seq(Int)) : [c EXCEPT !.app_send = out] \in Context
           /\ \A n \in Nat, out \in Seq(Seq(Int)), bytes \in Seq(Int) :
                [c EXCEPT !.app_recv = n, !.app_send = out, !.pushed = bytes] \in Context
           /\ \A out \in Seq(Seq(Int)), bytes \in Seq(Int), b \in BOOLEAN :
                [c EXCEPT !.app_send = out, !.got = bytes, !.eof = b] \in Context
<1> USE DEF Context
<1>1. ASSUME NEW p \in Seq(Packet) PROVE [c EXCEPT !.network_recv = p] \in Context
  BY Zenon
<1>2. ASSUME NEW p \in Seq(Packet), NEW q \in Seq(Packet)
      PROVE  [c EXCEPT !.network_recv = p, !.script = q] \in Context
  BY Zenon
<1>3. ASSUME NEW b \in BOOLEAN, NEW p \in Seq(Packet)
      PROVE  [c EXCEPT !.close_requested = b, !.network_recv = p] \in Context
  BY Zenon
<1>4. ASSUME NEW n \in Nat PROVE [c EXCEPT !.app_recv = n] \in Context
  BY Zenon
<1>5. ASSUME NEW out \in Seq(Seq(Int)) PROVE [c EXCEPT !.app_send = out] \in Context
  BY Zenon
<1>6. ASSUME NEW n \in Nat, NEW out \in Seq(Seq(Int)), NEW bytes \in Seq(Int)
      PROVE  [c EXCEPT !.app_recv = n, !.app_send = out, !.pushed = bytes] \in Context
  BY Zenon
<1>7. ASSUME NEW out \in Seq(Seq(Int)), NEW bytes \in Seq(Int), NEW b \in BOOLEAN
      PROVE  [c EXCEPT !.app_send = out, !.got = bytes, !.eof = b] \in Context
  BY Zenon
<1> HIDE DEF Context
<1> QED BY <1>1, <1>2, <1>3, <1>4, <1>5, <1>6, <1>7, Zenon

LEMMA ContextConnections ==
    ASSUME NEW c \in Context, NEW s \in Sd, NEW p \in Peer, NEW a \in Address,
           NEW q \in Seq(Packet), NEW to \in {"yes", "stuck"}
    PROVE  /\ [c EXCEPT !.new_socket = a] \in Context
           /\ [c EXCEPT !.connected = to] \in Context
           /\ [c EXCEPT !.peer = p, !.bound = TRUE, !.active = TRUE,
                        !.script = q] \in Context
           /\ [FreshContext EXCEPT !.live = TRUE, !.listen_sd = s, !.peer = p,
                        !.connected = "yes", !.script = q] \in Context
<1>1. [c EXCEPT !.new_socket = a] \in Context
  BY Zenon DEF Context
<1>2. [c EXCEPT !.connected = to] \in Context
  <2>1. to \in {"no", "yes", "stuck"}
    OBVIOUS
  <2> QED BY <2>1, Zenon DEF Context
<1>3. [c EXCEPT !.peer = p, !.bound = TRUE, !.active = TRUE, !.script = q] \in Context
  BY Zenon DEF Context, Address
<1>4. [FreshContext EXCEPT !.live = TRUE, !.listen_sd = s, !.peer = p,
            !.connected = "yes", !.script = q] \in Context
  BY FreshContextType, Zenon DEF Context, NoSd, Address
<1> QED BY <1>1, <1>2, <1>3, <1>4

LEMMA ScriptType == \A active \in BOOLEAN : Script(active) \in Seq(Packet)
BY MysockAssumption DEF Script, Packet

LEMMA AfterEventType ==
    ASSUME TypeInv, NEW s \in Sd
    PROVE  AfterEvent(s) \in Context
<1>1. ctx[s] \in Context
  BY DEF TypeInv
<1>2. /\ (ctx[s].close_requested /\ ~CloseReady(s)) \in BOOLEAN
      /\ (IF ctx[s].network_recv = <<>> THEN ctx[s].network_recv
          ELSE Tail(ctx[s].network_recv)) \in Seq(Packet)
  BY <1>1 DEF Context
<1> QED BY <1>1, <1>2, ContextQueues DEF AfterEvent

(* What the actions do to a listen queue leaves it a listen queue. *)
QueueOK(q) == q \in ListenQueue /\ q.slot \in [1 .. q.max_len -> Request]

LEMMA SlotsType ==
    ASSUME NEW n \in SlotNo, NEW f \in [1 .. n -> Request]
    PROVE  f \in Slots
BY DEF Slots

LEMMA QueueStart == QueueOK(NoQueue) /\ QueueOK(NewQueue(Backlog))
<1> DEFINE slots == [k \in 1 .. (Backlog + 1) |-> NoRequest]
<1>1. NoRequest \in Request
  BY DEF NoRequest, Request, NoSd, Address
<1>2. 0 \in SlotNo /\ Backlog + 1 \in SlotNo /\ 0 \in Unsigned
  BY MysockAssumption DEF SlotNo, Unsigned
<1>3. <<>> \in [1 .. 0 -> Request] /\ <<>> \in Seq(SlotNo)
  OBVIOUS
<1>4. slots \in [1 .. (Backlog + 1) -> Request]
  BY <1>1
<1> HIDE DEF slots
<1>5. <<>> \in Slots /\ slots \in Slots
  BY <1>2, <1>3, <1>4, SlotsType
<1>6. QueueOK(NoQueue)
  BY <1>2, <1>3, <1>5 DEF QueueOK, NoQueue, ListenQueue
<1>7. QueueOK([NoQueue EXCEPT !.max_len = Backlog + 1, !.slot = slots])
  BY <1>2, <1>3, <1>4, <1>5 DEF QueueOK, NoQueue, ListenQueue
<1> QED BY <1>6, <1>7 DEF NewQueue, slots

LEMMA QueueUpdates ==
    ASSUME NEW q, QueueOK(q), NEW k, NEW r \in Request, NEW n \in Unsigned,
           NEW j \in SlotNo
    PROVE  /\ QueueOK([q EXCEPT !.slot[k] = r])
           /\ QueueOK([q EXCEPT !.cur_len = n])
           /\ QueueOK([q EXCEPT !.slot[k] = r, !.cur_len = n])
           /\ QueueOK(Completed(q, j))
           /\ q.completed # <<>> => QueueOK(Pop(q))
<1> DEFINE slots == [q.slot EXCEPT ![k] = r]
<1>1. q \in ListenQueue /\ q.max_len \in SlotNo /\ q.completed \in Seq(SlotNo)
  BY DEF QueueOK, ListenQueue
<1>2. slots \in [1 .. q.max_len -> Request] /\ slots \in Slots
  <2>1. slots \in [1 .. q.max_len -> Request]
    BY DEF QueueOK
  <2> QED BY <1>1, <2>1, SlotsType
<1> HIDE DEF slots
<1>3. Append(q.completed, j) \in Seq(SlotNo)
  BY <1>1, AppendProperties
<1>4. q.completed # <<>> => Tail(q.completed) \in Seq(SlotNo)
  BY <1>1, HeadTailProperties
<1>5. QueueOK([q EXCEPT !.slot = slots])
  BY <1>1, <1>2 DEF QueueOK, ListenQueue
<1>6. QueueOK([q EXCEPT !.cur_len = n])
  BY <1>1 DEF QueueOK, ListenQueue
<1>7. QueueOK([q EXCEPT !.slot = slots, !.cur_len = n])
  BY <1>1, <1>2 DEF QueueOK, ListenQueue
<1>8. QueueOK(Completed(q, j))
  BY <1>1, <1>3 DEF QueueOK, ListenQueue, Completed
<1>9. q.completed # <<>> => QueueOK(Pop(q))
  BY <1>1, <1>4 DEF QueueOK, ListenQueue, Pop
<1> QED BY <1>5, <1>6, <1>7, <1>8, <1>9 DEF slots

---------------------------------------------------------------------------
(* Every step keeps the types. *)
LEMMA QueueType ==
    ASSUME TypeInv, NEW l \in Sd
    PROVE  /\ QueueOK(Queue(l))
           /\ Queue(l).max_len \in SlotNo
           /\ Queue(l).cur_len \in Unsigned
           /\ Queue(l).completed \in Seq(SlotNo)
           /\ \A k \in 1 .. Queue(l).max_len : /\ Queue(l).slot[k] \in Request
                                               /\ Queue(l).slot[k].sd \in NoSd
                                               /\ Queue(l).slot[k].peer \in Address
<1>1. QueueOK(Queue(l))
  BY DEF TypeInv, QueueOK, Queue
<1> QED BY <1>1 DEF QueueOK, ListenQueue, Request

LEMMA QueuesTyped ==
    ASSUME TypeInv, NEW l \in Sd, NEW q, QueueOK(q),
           listen_table' = [listen_table EXCEPT ![l] = q]
    PROVE  /\ listen_table' \in [Sd -> ListenQueue]
           /\ \A s \in Sd : listen_table'[s].slot
                              \in [1 .. listen_table'[s].max_len -> Request]
<1>1. \A s \in Sd : QueueOK(listen_table'[s])
  BY QueueType DEF TypeInv, Queue
<1>2. listen_table' \in [Sd -> ListenQueue]
  BY DEF TypeInv, QueueOK
<1> QED BY <1>1, <1>2 DEF QueueOK

LEMMA ThreadsTyped ==
    /\ RecvNone \in RecvThread /\ [RecvNone EXCEPT !.pc = "poll"] \in RecvThread
    /\ TranNone \in TranThread
    /\ [TranNone EXCEPT !.pc = "connect"] \in TranThread
    /\ [TranNone EXCEPT !.pc = "synwait"] \in TranThread
<1>1. 0 \in SlotNo /\ 0 \in Unsigned
  BY MysockAssumption DEF SlotNo, Unsigned
<1> QED
  BY <1>1 DEF RecvNone, RecvThread, RecvPcs, TranNone, TranThread, TranPcs, NoSd, Address

LEMMA CallTypes ==
    ASSUME TypeInv, Call
    PROVE  TypeInv'
<1>1. ASSUME mysocket PROVE TypeInv'
  <2> DEFINE s == Min(FreeSds)
  <2>1. /\ ctx' = [ctx EXCEPT ![s] = [FreshContext EXCEPT !.live = TRUE]]
        /\ app' = [app EXCEPT !.own = app.own \union {s}]
    BY <1>1 DEF mysocket
  <2>2. s \in Sd
    BY <1>1, MinOfNaturals, MysockAssumption DEF mysocket, FreeSds, Sd
  <2> HIDE DEF s
  <2>3. ctx' \in [Sd -> Context]
    <3>1. [FreshContext EXCEPT !.live = TRUE] \in Context
      BY FreshContextType, ContextFlags
    <3> QED BY <2>1, <2>2, <3>1 DEF TypeInv
  <2>4. app' \in AppThread
    <3>1. app \in AppThread /\ app.own \union {s} \in SUBSET Sd
      BY <2>2 DEF TypeInv, AppThread
    <3> QED BY <2>1, <3>1 DEF AppThread
  <2>5. count' \in [arrivals : Nat, writes : 0 .. MaxWrites, opens : Nat]
    <3>1. /\ count \in [arrivals : Nat, writes : 0 .. MaxWrites, opens : Nat]
          /\ count' = [count EXCEPT !.opens = count.opens + 1]
          /\ count.opens + 1 \in Nat
      BY <1>1 DEF mysocket, TypeInv
    <3> QED BY <3>1, Zenon
  <2> QED BY <1>1, <2>3, <2>4, <2>5 DEF mysocket, TypeInv, outside
<1>2. ASSUME NEW s \in Sd, mybind(s) PROVE TypeInv'
  <2>1. ctx' \in [Sd -> Context]
    BY <1>2, ContextFlags DEF mybind, TypeInv
  <2> QED BY <1>2, <2>1 DEF mybind, TypeInv, outside, threads
<1>3. ASSUME NEW s \in Sd, mylisten(s) PROVE TypeInv'
  <2>1. ctx' \in [Sd -> Context]
    BY <1>3, ContextFlags DEF mylisten, TypeInv
  <2>2. app' \in AppThread
    BY <1>3 DEF mylisten, TypeInv, AppThread, AppPcs, NoSd
  <2> QED BY <1>3, <2>1, <2>2 DEF mylisten, TypeInv, outside
<1>4. ASSUME NEW s \in Sd, myconnect(s) PROVE TypeInv'
  <2>1. ctx' \in [Sd -> Context]
    <3>1. PICK p \in Peer :
            ctx' = [ctx EXCEPT ![s].peer = p, ![s].bound = TRUE,
                               ![s].active = TRUE, ![s].script = Script(TRUE)]
      BY <1>4 DEF myconnect
    <3>2. ctx[s] \in Context /\ Script(TRUE) \in Seq(Packet)
      BY ScriptType DEF TypeInv
    <3>3. [ctx[s] EXCEPT !.peer = p, !.bound = TRUE, !.active = TRUE,
                         !.script = Script(TRUE)] \in Context
      BY <3>2, ContextConnections, Zenon DEF Address
    <3> QED BY <3>1, <3>3 DEF TypeInv
  <2>2. app' \in AppThread
    BY <1>4 DEF myconnect, TypeInv, AppThread, AppPcs, NoSd
  <2>3. recv' \in [Sd -> RecvThread] /\ tran' \in [Sd -> TranThread]
    BY <1>4, ThreadsTyped DEF myconnect, StartThreads, TypeInv
  <2> QED BY <1>4, <2>1, <2>2, <2>3 DEF myconnect, TypeInv, outside
<1>5. ASSUME NEW s \in Sd, myaccept(s) PROVE TypeInv'
  <2>1. app' \in AppThread
    BY <1>5 DEF myaccept, TypeInv, AppThread, AppPcs, NoSd
  <2> QED BY <1>5, <2>1 DEF myaccept, TypeInv, outside
<1>6. ASSUME NEW s \in Sd, mywrite(s) PROVE TypeInv'
  <2>1. ctx' \in [Sd -> Context]
    <3>1. ctx[s] \in Context /\ ctx[s].app_recv + 1 \in Nat
      BY DEF TypeInv, Context
    <3>2. [ctx[s] EXCEPT !.app_recv = ctx[s].app_recv + 1] \in Context
      BY <3>1, ContextQueues
    <3> QED BY <1>6, <3>2 DEF mywrite, TypeInv
  <2>2. app' \in AppThread
    BY <1>6 DEF mywrite, TypeInv, AppThread, AppPcs, NoSd
  <2>3. count' \in [arrivals : Nat, writes : 0 .. MaxWrites, opens : Nat]
    <3>1. /\ count.arrivals \in Nat /\ count.opens \in Nat
          /\ count.writes + 1 \in 0 .. MaxWrites
      BY <1>6, MysockAssumption DEF mywrite, TypeInv
    <3>2. /\ count \in [arrivals : Nat, writes : 0 .. MaxWrites, opens : Nat]
          /\ count' = [count EXCEPT !.writes = count.writes + 1]
      BY <1>6 DEF mywrite, TypeInv
    <3> HIDE DEF TypeInv
    <3> QED BY <3>1, <3>2, Zenon
  <2> QED BY <1>6, <2>1, <2>2, <2>3 DEF mywrite, TypeInv, outside
<1>7. ASSUME NEW s \in Sd, myread(s) PROVE TypeInv'
  <2>1. app' \in AppThread
    BY <1>7 DEF myread, TypeInv, AppThread, AppPcs, NoSd
  <2> QED BY <1>7, <2>1 DEF myread, TypeInv, outside
<1>8. ASSUME NEW s \in Sd, myclose(s) PROVE TypeInv'
  <2>1. ctx' \in [Sd -> Context]
    BY <1>8, ContextFlags DEF myclose, CloseRequest, TypeInv
  <2>2. app' \in AppThread
    BY <1>8 DEF myclose, CloseRequest, TypeInv, AppThread, AppPcs, NoSd
  <2> QED BY <1>8, <2>1, <2>2 DEF myclose, TypeInv, outside
<1> QED BY <1>1, <1>2, <1>3, <1>4, <1>5, <1>6, <1>7, <1>8 DEF Call

LEMMA WakeTranType ==
    ASSUME TypeInv, NEW s
    PROVE  WakeTran(s, tran) \in [Sd -> TranThread]
<1>1. \A t \in Sd : \A pc \in TranPcs : [tran[t] EXCEPT !.pc = pc] \in TranThread
  BY DEF TypeInv, TranThread
<1>2. tran[s].pc \in TranPcs \/ s \notin Sd
  BY DEF TypeInv, TranThread
<1>3. \E pc \in TranPcs : WakeTran(s, tran) = [tran EXCEPT ![s].pc = pc] \/ s \notin Sd
  BY <1>2 DEF WakeTran, TranPcs
<1> QED BY <1>1, <1>3 DEF TypeInv, WakeTran

LEMMA WakeAppType == ASSUME TypeInv, NEW s PROVE WakeApp(s) \in AppThread
BY DEF TypeInv, WakeApp, AppThread, AppPcs

(* _mysock_dequeue_buffer() returns bytes and keeps bytes. *)
LEMMA DequeueType ==
    ASSUME NEW pq \in Seq(Seq(Int)), pq # <<>>
    PROVE  /\ Dequeue(pq, BufLen).pq \in Seq(Seq(Int))
           /\ Dequeue(pq, BufLen).buf \in Seq(Int)
<1>1. Head(pq) \in Seq(Int) /\ Tail(pq) \in Seq(Seq(Int))
  BY HeadTailProperties
<1>2. CASE Len(Head(pq)) > BufLen
  <2> DEFINE h == Head(pq)
  <2>1. Len(h) \in Nat
    BY <1>1
  <2>2. SubSeq(h, 1, BufLen) \in Seq(Int) /\ SubSeq(h, BufLen + 1, Len(h)) \in Seq(Int)
    BY <1>1, <1>2, <2>1, SubSeqProperties, MysockAssumption
  <2>3. <<SubSeq(h, BufLen + 1, Len(h))>> \in Seq(Seq(Int))
    BY <2>2
  <2>4. <<SubSeq(h, BufLen + 1, Len(h))>> \o Tail(pq) \in Seq(Seq(Int))
    BY <1>1, <2>3, ConcatProperties
  <2> QED BY <1>2, <2>2, <2>4 DEF Dequeue
<1>3. CASE ~(Len(Head(pq)) > BufLen)
  BY <1>1, <1>3 DEF Dequeue
<1> QED BY <1>2, <1>3

(* The application thread's record, edited as its steps do. *)
LEMMA AppEdits ==
    ASSUME NEW a \in AppThread, NEW pc \in AppPcs
    PROVE  /\ [a EXCEPT !.pc = pc] \in AppThread
           /\ \A s \in NoSd : [a EXCEPT !.pc = pc, !.sd = s] \in AppThread
           /\ \A s, o \in NoSd :
                [a EXCEPT !.pc = pc, !.sd = s, !.outer = o] \in AppThread
           /\ \A k \in Nat : [a EXCEPT !.pc = pc, !.k = k] \in AppThread
           /\ \A k \in Nat, s \in NoSd :
                [a EXCEPT !.pc = pc, !.k = k, !.new = s] \in AppThread
           /\ \A n \in Unsigned : [a EXCEPT !.pc = pc, !.len = n] \in AppThread
           /\ \A k \in Nat, s \in NoSd :
                [a EXCEPT !.pc = pc, !.k = k, !.sd = s, !.outer = -1] \in AppThread
<1>1. -1 \in NoSd
  BY DEF NoSd
<1> QED BY <1>1 DEF AppThread

LEMMA AppIdleType ==
    ASSUME NEW own \in SUBSET Sd
    PROVE  [AppIdle EXCEPT !.own = own] \in AppThread
BY MysockAssumption DEF AppThread, AppIdle, AppPcs, Unsigned, NoSd

LEMMA AppStepTypes ==
    ASSUME TypeInv, Sound, AppStep
    PROVE  TypeInv'
<1> USE DEF NoSd
<1>1. /\ app \in AppThread /\ app.sd \in NoSd /\ app.k \in Nat /\ app.own \in SUBSET Sd
      /\ app.outer \in NoSd /\ app.len \in Unsigned
      /\ app.pc # "idle" => app.sd \in Sd
  BY DEF TypeInv, AppThread, Sound, ApplicationSound
<1>2. \A pc \in AppPcs : [app EXCEPT !.pc = pc] \in AppThread
  BY <1>1, AppEdits
<1>3. ASSUME SetBacklog PROVE TypeInv'
  <2>1. app.sd \in Sd
    BY <1>1, <1>3 DEF SetBacklog, AppAt
  <2>2. recv' \in [Sd -> RecvThread]
    BY <1>3, <2>1, ThreadsTyped DEF SetBacklog, TypeInv
  <2>3. app' \in AppThread
    BY <1>1, <1>3, AppEdits DEF SetBacklog, AppPcs
  <2>4. /\ listen_table' \in [Sd -> ListenQueue]
        /\ \A s \in Sd : listen_table'[s].slot
                           \in [1 .. listen_table'[s].max_len -> Request]
    BY <1>3, <2>1, QueuesTyped, QueueStart DEF SetBacklog
  <2> QED BY <1>3, <2>2, <2>3, <2>4 DEF SetBacklog, TypeInv, outside
<1>4. ASSUME WaitForConnection PROVE TypeInv'
  <2>1. app' \in AppThread
    <3>1. CASE ctx[app.sd].blocking
      BY <1>2, <1>4, <3>1 DEF WaitForConnection, AppGoto, AppPcs
    <3>2. CASE ~ctx[app.sd].blocking
      <4>1. app' = [app EXCEPT !.pc = "idle", !.sd = -1]
        BY <1>4, <3>2 DEF WaitForConnection
      <4> QED BY <1>1, <4>1, AppEdits DEF AppPcs
    <3> QED BY <3>1, <3>2
  <2> QED BY <1>4, <2>1 DEF WaitForConnection, TypeInv, outside
<1>5. ASSUME DequeueConnection PROVE TypeInv'
  <2> DEFINE q == Queue(app.sd)
  <2>1. app.sd \in Sd
    BY <1>1, <1>5 DEF DequeueConnection, AppAt
  <2>2. CASE q.completed = <<>>
    <3>1. app' \in AppThread
      BY <1>2, <1>5, <2>2 DEF DequeueConnection, AppGoto, AppPcs
    <3> QED BY <1>5, <2>2, <3>1 DEF DequeueConnection, TypeInv, outside
  <2>3. CASE q.completed # <<>>
    <3> DEFINE k == Head(q.completed)
    <3>1. /\ listen_table' = [listen_table EXCEPT ![app.sd] = Pop(Queue(app.sd))]
          /\ app' = [app EXCEPT !.pc = "wipe", !.k = k, !.new = q.slot[k].sd]
          /\ Check(q.slot[k].sd \in Sd /\ ctx[q.slot[k].sd].live)
          /\ UNCHANGED <<ctx, readers, writer, recv, tran, outside, count>>
      BY <1>5, <2>3 DEF DequeueConnection
    <3>2. q.completed \in Seq(SlotNo)
      BY <2>1, QueueType
    <3>3. k \in 1 .. q.max_len /\ k \in Nat
      <4>1. 1 \in 1 .. Len(q.completed) /\ k = q.completed[1]
        BY <2>3, <3>2
      <4>2. k \in 1 .. q.max_len
        BY <2>1, <4>1 DEF Sound, CompletedSound
      <4>3. k \in SlotNo
        BY <3>2, <4>1
      <4> QED BY <4>2, <4>3, MysockAssumption DEF SlotNo
    <3>4. q.slot[k].sd \in NoSd
      BY <2>1, <3>3, QueueType
    <3>5. app' \in AppThread
      BY <1>1, <3>1, <3>3, <3>4, AppEdits DEF AppPcs
    <3>6. /\ listen_table' \in [Sd -> ListenQueue]
          /\ \A s \in Sd : listen_table'[s].slot
                             \in [1 .. listen_table'[s].max_len -> Request]
      <4>1. NoRequest \in Request /\ 0 \in Unsigned /\ 0 \in SlotNo
        BY MysockAssumption DEF NoRequest, Request, Address, Unsigned, SlotNo
      <4>2. QueueOK(Pop(q))
        BY <2>1, <2>3, <4>1, QueueType, QueueUpdates
      <4> QED BY <2>1, <3>1, <4>2, QueuesTyped
    <3> QED BY <3>1, <3>5, <3>6 DEF Check, TypeInv, outside
  <2> QED BY <2>2, <2>3
<1>6. ASSUME Wipe \/ Invalidate PROVE TypeInv'
  <2>1. app.sd \in Sd
    BY <1>1, <1>6 DEF Wipe, Invalidate, AppAt
  <2>2. app' \in AppThread
    BY <1>2, <1>6 DEF Wipe, Invalidate, AppGoto, AppPcs
  <2>3. PICK r \in Request :
          listen_table' = [listen_table EXCEPT ![app.sd].slot[app.k] = r]
    <3>1. NoRequest \in Request /\ [NoRequest EXCEPT !.sd = 0] \in Request
      BY MysockAssumption DEF NoRequest, Request, Address, Sd
    <3> QED BY <1>6, <3>1 DEF Wipe, Invalidate
  <2>4. QueueOK([Queue(app.sd) EXCEPT !.slot[app.k] = r])
    BY <1>1, <2>1, QueueType, QueueUpdates
  <2>5. /\ listen_table' \in [Sd -> ListenQueue]
        /\ \A s \in Sd : listen_table'[s].slot
                           \in [1 .. listen_table'[s].max_len -> Request]
    <3>1. listen_table' = [listen_table EXCEPT ![app.sd] =
                              [Queue(app.sd) EXCEPT !.slot[app.k] = r]]
      BY <2>3 DEF Queue
    <3> QED BY <2>1, <2>4, <3>1, QueuesTyped
  <2> QED BY <1>6, <2>2, <2>5 DEF Wipe, Invalidate, TypeInv, outside
<1>7. ASSUME LoadLen PROVE TypeInv'
  <2>1. app.sd \in Sd
    BY <1>1, <1>7 DEF LoadLen, AppAt
  <2>2. app' \in AppThread
    BY <1>1, <1>7, <2>1, QueueType, AppEdits DEF LoadLen, AppPcs
  <2> QED BY <1>7, <2>2 DEF LoadLen, Check, TypeInv, outside
<1>8. ASSUME StoreLen PROVE TypeInv'
  <2>1. app.sd \in Sd /\ app.len > 0 /\ app.new \in Sd
    BY <1>1, <1>8 DEF StoreLen, AppAt, Sound, ApplicationSound, Accepting,
       TypeInv, AppThread
  <2>2. app' \in AppThread
    <3>1. app.own \in SUBSET Sd /\ app.own \union {app.new} \in SUBSET Sd
      BY <1>1, <2>1
    <3>2. \A own \in SUBSET Sd : [AppIdle EXCEPT !.own = own] \in AppThread
      BY AppIdleType
    <3> QED BY <1>8, <3>1, <3>2 DEF StoreLen
  <2>3. app.len - 1 \in Unsigned
    BY <1>1, <2>1, MysockAssumption DEF Unsigned
  <2>4. /\ listen_table' \in [Sd -> ListenQueue]
        /\ \A s \in Sd : listen_table'[s].slot
                           \in [1 .. listen_table'[s].max_len -> Request]
    <3>1. NoRequest \in Request /\ 0 \in SlotNo
      BY MysockAssumption DEF NoRequest, Request, Address, SlotNo
    <3>2. QueueOK([Queue(app.sd) EXCEPT !.cur_len = app.len - 1])
      BY <2>1, <2>3, <3>1, QueueType, QueueUpdates
    <3>3. listen_table' = [listen_table EXCEPT ![app.sd] =
                              [Queue(app.sd) EXCEPT !.cur_len = app.len - 1]]
      BY <1>8 DEF StoreLen, Queue
    <3> QED BY <2>1, <3>2, <3>3, QueuesTyped
  <2> QED BY <1>8, <2>2, <2>4 DEF StoreLen, TypeInv, outside
<1>9. ASSUME Wrote PROVE TypeInv'
  <2>1. app' \in AppThread
    BY <1>1, <1>9, AppEdits DEF Wrote, AppPcs
  <2>2. tran' \in [Sd -> TranThread]
    BY <1>9, WakeTranType DEF Wrote, TypeInv
  <2> QED BY <1>9, <2>1, <2>2 DEF Wrote, TypeInv, outside
<1>10. ASSUME DequeueBuffer PROVE TypeInv'
  <2> DEFINE s == app.sd
  <2>1. s \in Sd /\ ctx[s] \in Context /\ ctx[s].app_send \in Seq(Seq(Int))
        /\ ctx[s].got \in Seq(Int)
    BY <1>1, <1>10 DEF DequeueBuffer, AppAt, TypeInv, Context
  <2>2. CASE ctx[s].app_send = <<>>
    <3>1. app' \in AppThread
      BY <1>2, <1>10, <2>2 DEF DequeueBuffer, AppGoto, AppPcs
    <3> QED BY <1>10, <2>2, <3>1 DEF DequeueBuffer, TypeInv, outside
  <2>3. CASE ctx[s].app_send # <<>>
    <3> DEFINE d == Dequeue(ctx[s].app_send, BufLen)
    <3>1. /\ ctx' = [ctx EXCEPT ![s].app_send = d.pq, ![s].got = ctx[s].got \o d.buf,
                                ![s].eof = (d.buf = <<>>)]
          /\ app' = [app EXCEPT !.pc = "idle", !.sd = -1]
      BY <1>10, <2>3 DEF DequeueBuffer
    <3>2. d.pq \in Seq(Seq(Int)) /\ d.buf \in Seq(Int)
      BY <2>1, <2>3, DequeueType
    <3> HIDE DEF d, s
    <3>3. ctx[s].got \o d.buf \in Seq(Int) /\ (d.buf = <<>>) \in BOOLEAN
      BY <2>1, <3>2, ConcatProperties
    <3>4. [ctx[s] EXCEPT !.app_send = d.pq, !.got = ctx[s].got \o d.buf,
                         !.eof = (d.buf = <<>>)] \in Context
      BY <2>1, <3>2, <3>3, ContextQueues
    <3>5. ctx' \in [Sd -> Context]
      BY <2>1, <3>1, <3>4 DEF TypeInv
    <3>6. app' \in AppThread
      BY <1>1, <3>1, AppEdits DEF AppPcs
    <3> QED BY <1>10, <3>5, <3>6 DEF DequeueBuffer, TypeInv, outside
  <2> QED BY <2>2, <2>3
<1>11. ASSUME CloseBroadcast PROVE TypeInv'
  <2>1. app' \in AppThread
    BY <1>2, <1>11 DEF CloseBroadcast, AppGoto, AppPcs
  <2>2. tran' \in [Sd -> TranThread]
    BY <1>11, WakeTranType DEF CloseBroadcast, TypeInv
  <2> QED BY <1>11, <2>1, <2>2 DEF CloseBroadcast, TypeInv, outside
<1>12. ASSUME JoinTransport PROVE TypeInv'
  <2>1. app' \in AppThread
    BY <1>2, <1>12 DEF JoinTransport, AppGoto, AppPcs
  <2>2. recv' \in [Sd -> RecvThread]
    <3>1. app.sd \in Sd
      BY <1>1, <1>12 DEF JoinTransport, AppAt
    <3>2. recv \in [Sd -> RecvThread] /\ [recv[app.sd] EXCEPT !.exit = TRUE] \in RecvThread
      BY <3>1 DEF TypeInv, RecvThread
    <3>3. recv' = [recv EXCEPT ![app.sd].exit = TRUE]
      BY <1>12 DEF JoinTransport
    <3> QED BY <3>1, <3>2, <3>3
  <2> QED BY <1>12, <2>1, <2>2 DEF JoinTransport, TypeInv, outside
<1>13. ASSUME JoinRecv PROVE TypeInv'
  <2>1. app' \in AppThread
    BY <1>2, <1>13 DEF JoinRecv, AppGoto, AppPcs
  <2> QED BY <1>13, <2>1 DEF JoinRecv, TypeInv, outside
<1>14. ASSUME ClosePassive PROVE TypeInv'
  <2>1. app' \in AppThread
    <3>1. app' = [app EXCEPT !.pc = "drain", !.k = 1]
      BY <1>14 DEF ClosePassive
    <3> QED BY <1>1, <3>1, AppEdits DEF AppPcs
  <2> QED BY <1>14, <2>1 DEF ClosePassive, TypeInv, outside
<1>15. ASSUME DrainQueue PROVE TypeInv'
  <2> DEFINE q == Queue(app.sd)
             r == q.slot[app.k]
  <2>1. app.sd \in Sd /\ app.k \in 1 .. (q.max_len + 1) /\ q.max_len \in SlotNo
    BY <1>1, <1>15, QueueType DEF DrainQueue, AppAt, Sound, ApplicationSound
  <2>2. CASE app.k <= q.max_len /\ r.sd # -1 /\ CloseRequest(r.sd, app.sd)
             /\ UNCHANGED <<listen_table, writer>>
    <3>1. r.sd \in Sd
      <4>1. app.k \in 1 .. q.max_len
        BY <2>1, <2>2 DEF SlotNo
      <4> QED BY <2>1, <2>2, <4>1, QueueType
    <3> HIDE DEF r
    <3>2. app' \in AppThread
      BY <1>1, <2>1, <2>2, <3>1, AppEdits DEF CloseRequest, AppPcs
    <3>3. ctx' \in [Sd -> Context]
      BY <2>2, <3>1, ContextFlags DEF CloseRequest, TypeInv
    <3> QED BY <1>15, <2>2, <3>2, <3>3 DEF DrainQueue, TypeInv, outside
  <2>3. CASE app' = [app EXCEPT !.k = @ + 1] /\ UNCHANGED <<ctx, listen_table, writer>>
    <3>1. app' \in AppThread
      BY <1>1, <2>3 DEF AppThread
    <3> QED BY <1>15, <2>3, <3>1 DEF DrainQueue, TypeInv, outside
  <2>4. CASE /\ listen_table' = [listen_table EXCEPT ![app.sd] = NoQueue]
             /\ writer' = FALSE /\ AppGoto("free") /\ UNCHANGED ctx
    <3>1. app' \in AppThread
      BY <1>2, <2>4 DEF AppGoto, AppPcs
    <3>2. /\ listen_table' \in [Sd -> ListenQueue]
          /\ \A s \in Sd : listen_table'[s].slot
                             \in [1 .. listen_table'[s].max_len -> Request]
      BY <2>1, <2>4, QueueStart, QueuesTyped
    <3> QED BY <1>15, <2>4, <3>1, <3>2 DEF DrainQueue, TypeInv, outside
  <2> QED BY <1>15, <2>2, <2>3, <2>4 DEF DrainQueue
<1>16. ASSUME FreeContext PROVE TypeInv'
  <2>1. app.sd \in Sd
    BY <1>1, <1>16 DEF FreeContext, AppAt
  <2>2. ctx' \in [Sd -> Context]
    BY <1>16, <2>1, FreshContextType DEF FreeContext, TypeInv
  <2>3. recv' \in [Sd -> RecvThread] /\ tran' \in [Sd -> TranThread]
    BY <1>16, <2>1, ThreadsTyped DEF FreeContext, TypeInv
  <2>4. accq' \in [Sd -> Seq(Peer)]
    <3>1. accq \in [Sd -> Seq(Peer)] /\ accq' = [accq EXCEPT ![app.sd] = <<>>]
      BY <1>16 DEF FreeContext, TypeInv
    <3>2. <<>> \in Seq(Peer)
      OBVIOUS
    <3> QED BY <3>1, <3>2
  <2>5. app' \in AppThread
    <3>1. CASE app.outer = -1
      <4>1. app.own \ {app.sd} \in SUBSET Sd
        BY <1>1
      <4> QED BY <1>16, <3>1, <4>1, AppIdleType DEF FreeContext
    <3>2. CASE app.outer # -1
      <4>1. app' = [app EXCEPT !.pc = "drain", !.k = app.k + 1, !.sd = app.outer,
                               !.outer = -1]
        BY <1>16, <3>2 DEF FreeContext
      <4>2. app.k + 1 \in Nat
        BY <1>1
      <4> QED BY <1>1, <4>1, <4>2, AppEdits DEF AppPcs
    <3> QED BY <3>1, <3>2
  <2> QED BY <1>16, <2>2, <2>3, <2>4, <2>5 DEF FreeContext, TypeInv, outside
<1> QED BY <1>3, <1>4, <1>5, <1>6, <1>7, <1>8, <1>9, <1>10, <1>11, <1>12, <1>13,
           <1>14, <1>15, <1>16 DEF AppStep

(* The record of a receive thread, edited as its steps do. *)
LEMMA RecvEdits ==
    ASSUME NEW r \in RecvThread, NEW pc \in RecvPcs
    PROVE  /\ [r EXCEPT !.pc = pc] \in RecvThread
           /\ \A p \in Peer : [r EXCEPT !.pc = pc, !.peer = p] \in RecvThread
           /\ \A n \in Unsigned, k \in SlotNo :
                [r EXCEPT !.pc = pc, !.n = n, !.k = k] \in RecvThread
           /\ \A d \in NoSd : [r EXCEPT !.pc = pc, !.fd = d] \in RecvThread
           /\ [r EXCEPT !.pc = pc, !.peer = NoPeer, !.k = 0, !.n = 0, !.fd = -1]
                \in RecvThread
<1>1. -1 \in NoSd /\ 0 \in SlotNo /\ 0 \in Unsigned /\ NoPeer \in Address
      /\ Peer \subseteq Address
  BY MysockAssumption DEF NoSd, SlotNo, Unsigned, Address
<1> QED BY <1>1 DEF RecvThread

LEMMA RecvGotoType ==
    ASSUME TypeInv, NEW s \in Sd, NEW pc \in RecvPcs, RecvGoto(s, pc)
    PROVE  recv' \in [Sd -> RecvThread]
<1>1. recv \in [Sd -> RecvThread] /\ recv' = [recv EXCEPT ![s].pc = pc]
  BY DEF TypeInv, RecvGoto
<1>2. [recv[s] EXCEPT !.pc = pc] \in RecvThread
  BY <1>1, RecvEdits
<1> QED BY <1>1, <1>2

LEMMA EmptySlotType ==
    ASSUME TypeInv, NEW l \in Sd
    PROVE  /\ EmptySlot(Queue(l)) \in SlotNo
           /\ FreeSlots(Queue(l)) # {} => EmptySlot(Queue(l)) \in FreeSlots(Queue(l))
<1> DEFINE F == FreeSlots(Queue(l))
<1>1. Queue(l).max_len \in SlotNo /\ F \subseteq 1 .. Queue(l).max_len
  BY QueueType DEF FreeSlots
<1>2. F \subseteq SlotNo /\ F \in SUBSET Nat /\ 0 \in SlotNo
  BY <1>1, MysockAssumption DEF SlotNo
<1>3. F # {} => Min(F) \in F
  BY <1>2, MinOfNaturals
<1> HIDE DEF F
<1> QED BY <1>2, <1>3 DEF EmptySlot, F

LEMMA FreeSdType == FreeSds # {} => Min(FreeSds) \in FreeSds
<1>1. FreeSds \in SUBSET Nat
  BY MysockAssumption DEF FreeSds, Sd
<1> QED BY <1>1, MinOfNaturals

LEMMA TcpConnectType ==
    ASSUME TypeInv, NEW s \in Sd, NEW to, NEW c \in Context, TcpConnect(s, to, c)
    PROVE  ctx' \in [Sd -> Context]
<1>1. to \in {"yes", "stuck"}
  BY DEF TcpConnect
<1>2. [c EXCEPT !.connected = to] \in Context
  <2>1. to \in {"no", "yes", "stuck"}
    BY <1>1
  <2> QED BY <2>1, Zenon DEF Context
<1> QED BY <1>2 DEF TcpConnect, TypeInv

LEMMA RecvStepTypes ==
    ASSUME TypeInv, Sound, NEW s \in Sd, RecvStep(s)
    PROVE  TypeInv'
<1>1. /\ recv \in [Sd -> RecvThread] /\ recv[s] \in RecvThread
      /\ recv[s].k \in SlotNo /\ recv[s].n \in Unsigned /\ recv[s].fd \in NoSd
      /\ recv[s].peer \in Address
  BY DEF TypeInv, RecvThread
<1>2. ctx \in [Sd -> Context] /\ ctx[s] \in Context
  BY DEF TypeInv
<1>3. ASSUME RecvExit(s) PROVE TypeInv'
  <2>1. recv' \in [Sd -> RecvThread]
    BY <1>3, RecvGotoType DEF RecvExit, RecvPcs
  <2> QED BY <1>3, <2>1 DEF RecvExit, TypeInv, outside
<1>4. ASSUME RecvAccept(s) PROVE TypeInv'
  <2>1. accq[s] \in Seq(Peer) /\ accq[s] # <<>>
    BY <1>4 DEF RecvAccept, TypeInv
  <2>2. Head(accq[s]) \in Peer /\ Tail(accq[s]) \in Seq(Peer)
    BY <2>1, HeadTailProperties
  <2>3. ctx' \in [Sd -> Context]
    <3>1. ctx' = [ctx EXCEPT ![s].new_socket = Head(accq[s])]
      BY <1>4 DEF RecvAccept
    <3>2. \A a \in Address : [ctx[s] EXCEPT !.new_socket = a] \in Context
      BY <1>2, Zenon DEF Context
    <3> QED BY <1>2, <2>2, <3>1, <3>2 DEF Address
  <2>4. recv' \in [Sd -> RecvThread]
    <3>1. recv' = [recv EXCEPT ![s].pc = "read", ![s].peer = Head(accq[s])]
      BY <1>4 DEF RecvAccept
    <3>2. [recv[s] EXCEPT !.pc = "read", !.peer = Head(accq[s])] \in RecvThread
      BY <1>1, <2>2, RecvEdits DEF RecvPcs
    <3> QED BY <1>1, <3>1, <3>2
  <2>5. accq' \in [Sd -> Seq(Peer)]
    BY <1>4, <2>2 DEF RecvAccept, TypeInv
  <2>6. UNCHANGED <<listen_table, readers, writer, app, tran, said, count>>
        /\ halt' \in {"no", "assert", "corrupt", "misfiled"}
    BY <1>4 DEF RecvAccept, Check, TypeInv
  <2> QED BY <2>3, <2>4, <2>5, <2>6 DEF TypeInv
<1>5. ASSUME RecvRead(s) PROVE TypeInv'
  <2>1. recv' \in [Sd -> RecvThread]
    BY <1>5, RecvGotoType DEF RecvRead, RecvPcs
  <2>2. said' \in [Peer -> {"no", "connected", "syn", "hung"}]
    BY <1>5 DEF RecvRead, TypeInv
  <2> QED BY <1>5, <2>1, <2>2 DEF RecvRead, TypeInv
<1>6. ASSUME EnqueueConnection(s) PROVE TypeInv'
  <2> DEFINE q == Queue(s)
             drop == Queued(q, recv[s].peer) # {} \/ q.cur_len >= q.max_len
  <2>1. UNCHANGED <<ctx, listen_table, writer, app, tran, outside, count>>
        /\ halt' \in {"no", "assert", "corrupt", "misfiled"}
    BY <1>6 DEF EnqueueConnection, Check, TypeInv
  <2>2. CASE drop
    <3>1. recv' \in [Sd -> RecvThread] /\ readers' = readers
      BY <1>6, <2>2, RecvGotoType DEF EnqueueConnection, RecvPcs
    <3> QED BY <2>1, <3>1 DEF TypeInv, outside
  <2>3. CASE ~drop
    <3>1. /\ readers' = readers \union {Recv(s)}
          /\ recv' = [recv EXCEPT ![s].pc = "claim", ![s].n = q.cur_len + 1,
                                  ![s].k = EmptySlot(q)]
      BY <1>6, <2>3 DEF EnqueueConnection
    <3>2. q.cur_len + 1 \in Unsigned /\ EmptySlot(q) \in SlotNo
      <4>1. q.max_len \in SlotNo /\ q.cur_len \in Unsigned /\ ~(q.cur_len >= q.max_len)
        BY <2>3, QueueType
      <4> HIDE DEF q
      <4>2. q.cur_len + 1 \in Unsigned
        BY <4>1, MysockAssumption DEF SlotNo, Unsigned
      <4> QED BY <4>2, EmptySlotType DEF q
    <3> HIDE DEF q
    <3>3. [recv[s] EXCEPT !.pc = "claim", !.n = q.cur_len + 1, !.k = EmptySlot(q)]
            \in RecvThread
      BY <1>1, <3>2, RecvEdits DEF RecvPcs
    <3>4. recv' \in [Sd -> RecvThread]
      BY <1>1, <3>1, <3>3
    <3>5. readers' \subseteq ({App} \union {Recv(t) : t \in Sd} \union {Tran(t) : t \in Sd})
      BY <3>1 DEF TypeInv
    <3> QED BY <2>1, <3>4, <3>5 DEF TypeInv, outside
  <2> QED BY <2>2, <2>3
<1>7. ASSUME ClaimSlot(s) PROVE TypeInv'
  <2>1. /\ listen_table' \in [Sd -> ListenQueue]
        /\ \A l \in Sd : listen_table'[l].slot
                           \in [1 .. listen_table'[l].max_len -> Request]
    <3>1. NoRequest \in Request
      BY DEF NoRequest, Request, NoSd, Address
    <3>2. QueueOK([Queue(s) EXCEPT !.cur_len = recv[s].n])
      BY <1>1, <3>1, QueueType, QueueUpdates
    <3>3. listen_table' = [listen_table EXCEPT ![s] =
                              [Queue(s) EXCEPT !.cur_len = recv[s].n]]
      BY <1>7 DEF ClaimSlot, Queue
    <3> QED BY <3>2, <3>3, QueuesTyped
  <2>2. recv' \in [Sd -> RecvThread]
    <3> DEFINE d == IF FreeSds = {} THEN -1 ELSE Min(FreeSds)
    <3>1. d \in NoSd
      BY FreeSdType DEF FreeSds, NoSd
    <3>2. recv' = [recv EXCEPT ![s].pc = "create", ![s].fd = d]
      BY <1>7 DEF ClaimSlot
    <3> HIDE DEF d
    <3>3. [recv[s] EXCEPT !.pc = "create", !.fd = d] \in RecvThread
      BY <1>1, <3>1, RecvEdits DEF RecvPcs
    <3> QED BY <1>1, <3>2, <3>3
  <2> QED BY <1>7, <2>1, <2>2 DEF ClaimSlot, TypeInv, outside
<1>8. ASSUME NewMysocketFails(s) PROVE TypeInv'
  <2>1. /\ listen_table' \in [Sd -> ListenQueue]
        /\ \A l \in Sd : listen_table'[l].slot
                           \in [1 .. listen_table'[l].max_len -> Request]
    <3> DEFINE n == (Queue(s).cur_len - 1) % (UINT_MAX + 1)
    <3>1. NoRequest \in Request /\ 0 \in SlotNo
      BY MysockAssumption DEF NoRequest, Request, NoSd, Address, SlotNo
    <3>2. n \in Unsigned
      <4>1. Queue(s).cur_len \in Unsigned
        BY QueueType
      <4> QED BY <4>1, MysockAssumption DEF Unsigned
    <3>3. listen_table' = [listen_table EXCEPT ![s] =
                              [Queue(s) EXCEPT !.slot[recv[s].k] = NoRequest,
                                               !.cur_len = n]]
      BY <1>8 DEF NewMysocketFails, Queue
    <3> HIDE DEF n
    <3>4. QueueOK([Queue(s) EXCEPT !.slot[recv[s].k] = NoRequest, !.cur_len = n])
      BY <1>1, <3>1, <3>2, QueueType, QueueUpdates
    <3> QED BY <3>3, <3>4, QueuesTyped
  <2>2. recv' \in [Sd -> RecvThread]
    BY <1>8, RecvGotoType DEF NewMysocketFails, RecvPcs
  <2> QED BY <1>8, <2>1, <2>2 DEF NewMysocketFails, TypeInv, outside
<1>9. ASSUME CreateConnection(s) PROVE TypeInv'
  <2> DEFINE c == recv[s].fd
             p == recv[s].peer
  <2>1. UNCHANGED <<readers, writer, app, outside, count>> /\ c \in Sd
    BY <1>1, <1>9 DEF CreateConnection, NoSd
  <2>2. CASE ctx[c].live
    BY <1>9, <2>1, <2>2 DEF CreateConnection, TypeInv, outside
  <2>3. CASE ~ctx[c].live
    <3> DEFINE new == [FreshContext EXCEPT !.live = TRUE, !.listen_sd = s,
                            !.peer = p, !.connected = "yes",
                            !.script = Script(FALSE)]
    <3>1. /\ ctx' = [ctx EXCEPT ![c] = new, ![s].new_socket = NoPeer]
          /\ listen_table' = [listen_table EXCEPT ![s].slot[recv[s].k] =
                                    [sd |-> c, peer |-> p]]
          /\ tran' = [tran EXCEPT ![c] = [TranNone EXCEPT !.pc = "synwait"]]
          /\ recv' = [recv EXCEPT ![c] = [RecvNone EXCEPT !.pc = "poll"],
                                  ![s].pc = "pass"]
          /\ UNCHANGED halt
      BY <1>9, <2>3 DEF CreateConnection
    <3>2. p \in Peer
      BY <1>9 DEF CreateConnection, RecvAt, Sound, ContextsSound
    <3>3. new \in Context
      BY <1>2, <3>2, ContextConnections, ScriptType DEF Address
    <3>4. ctx' \in [Sd -> Context]
      <4> HIDE DEF new
      <4>1. \A x \in Context : [x EXCEPT !.new_socket = NoPeer] \in Context
        BY Zenon DEF Context, Address
      <4>2. DOMAIN ctx = Sd /\ [ctx EXCEPT ![c] = new] \in [Sd -> Context]
        BY <1>2, <3>3
      <4> QED BY <2>1, <3>1, <3>3, <4>1, <4>2
    <3>5. tran' \in [Sd -> TranThread]
      BY <3>1, ThreadsTyped DEF TypeInv
    <3>6. recv' \in [Sd -> RecvThread]
      <4>1. [recv[s] EXCEPT !.pc = "pass"] \in RecvThread
            /\ [[RecvNone EXCEPT !.pc = "poll"] EXCEPT !.pc = "pass"] \in RecvThread
        BY <1>1, RecvEdits, ThreadsTyped DEF RecvPcs
      <4>2. recv' = [[recv EXCEPT ![c] = [RecvNone EXCEPT !.pc = "poll"]]
                        EXCEPT ![s].pc = "pass"]
        BY <3>1
      <4>3. [recv EXCEPT ![c] = [RecvNone EXCEPT !.pc = "poll"]] \in [Sd -> RecvThread]
        BY <1>1, ThreadsTyped
      <4>4. \A r \in RecvThread : [r EXCEPT !.pc = "pass"] \in RecvThread
        BY RecvEdits DEF RecvPcs
      <4> QED BY <4>2, <4>3, <4>4
    <3>7. /\ listen_table' \in [Sd -> ListenQueue]
          /\ \A l \in Sd : listen_table'[l].slot
                             \in [1 .. listen_table'[l].max_len -> Request]
      <4>1. [sd |-> c, peer |-> p] \in Request
        BY <2>1, <3>2 DEF Request, NoSd, Address
      <4>2. QueueOK([Queue(s) EXCEPT !.slot[recv[s].k] = [sd |-> c, peer |-> p]])
        BY <1>1, <4>1, QueueType, QueueUpdates
      <4>3. listen_table' = [listen_table EXCEPT ![s] =
              [Queue(s) EXCEPT !.slot[recv[s].k] = [sd |-> c, peer |-> p]]]
        BY <3>1 DEF Queue
      <4> QED BY <4>2, <4>3, QueuesTyped
    <3> QED BY <2>1, <3>1, <3>4, <3>5, <3>6, <3>7 DEF TypeInv, outside
  <2> QED BY <2>2, <2>3
<1>10. ASSUME PassSyn(s) PROVE TypeInv'
  <2>1. recv[s].fd \in Sd
    BY <1>10 DEF PassSyn, RecvAt, Sound, ContextsSound
  <2>2. ctx' \in [Sd -> Context]
    <3> DEFINE d == recv[s].fd
    <3>1. ctx' = [ctx EXCEPT ![d].network_recv = Append(@, "syn")]
      BY <1>10 DEF PassSyn
    <3>2. Append(ctx[d].network_recv, "syn") \in Seq(Packet)
      BY <1>2, <2>1, AppendProperties DEF Context, Packet
    <3>3. [ctx[d] EXCEPT !.network_recv = Append(@, "syn")] \in Context
      BY <1>2, <2>1, <3>2, ContextQueues
    <3> QED BY <1>2, <2>1, <3>1, <3>3
  <2>3. recv' \in [Sd -> RecvThread]
    BY <1>10, RecvGotoType DEF PassSyn, RecvPcs
  <2> QED BY <1>10, <2>2, <2>3 DEF PassSyn, TypeInv, outside
<1>11. ASSUME PassedSyn(s) PROVE TypeInv'
  <2>1. tran' \in [Sd -> TranThread]
    BY <1>11, WakeTranType DEF PassedSyn
  <2>2. recv' \in [Sd -> RecvThread]
    <3>1. recv' = [recv EXCEPT ![s] = [recv[s] EXCEPT !.pc = "poll", !.peer = NoPeer,
                                          !.k = 0, !.n = 0, !.fd = -1]]
      BY <1>11 DEF PassedSyn
    <3> QED BY <1>1, <3>1, RecvEdits DEF RecvPcs
  <2> QED BY <1>11, <2>1, <2>2 DEF PassedSyn, TypeInv, outside
<1>12. ASSUME RecvConnect(s) PROVE TypeInv'
  <2>1. ctx' \in [Sd -> Context]
    BY <1>2, <1>12, TcpConnectType DEF RecvConnect
  <2>2. recv' \in [Sd -> RecvThread]
    BY <1>12, RecvGotoType DEF RecvConnect, RecvPcs
  <2> QED BY <1>12, <2>1, <2>2 DEF RecvConnect, TypeInv, outside
<1>13. ASSUME RecvPacket(s) PROVE TypeInv'
  <2>1. ctx' \in [Sd -> Context]
    <3>1. /\ ctx' = [ctx EXCEPT ![s].network_recv = Append(@, Head(ctx[s].script)),
                                ![s].script = Tail(@)]
          /\ ctx[s].script # <<>>
      BY <1>13 DEF RecvPacket
    <3>2. ctx[s].script \in Seq(Packet) /\ ctx[s].network_recv \in Seq(Packet)
      BY <1>2 DEF Context
    <3>3. Head(ctx[s].script) \in Packet /\ Tail(ctx[s].script) \in Seq(Packet)
      BY <3>1, <3>2, HeadTailProperties
    <3>4. Append(ctx[s].network_recv, Head(ctx[s].script)) \in Seq(Packet)
      BY <3>2, <3>3, AppendProperties
    <3>5. [ctx[s] EXCEPT !.network_recv = Append(ctx[s].network_recv, Head(ctx[s].script)),
                         !.script = Tail(ctx[s].script)] \in Context
      BY <1>2, <3>3, <3>4, ContextQueues
    <3> QED BY <1>2, <3>1, <3>5
  <2>2. recv' \in [Sd -> RecvThread]
    BY <1>13, RecvGotoType DEF RecvPacket, RecvPcs
  <2> QED BY <1>13, <2>1, <2>2 DEF RecvPacket, TypeInv, outside
<1>14. ASSUME QueuedPacket(s) PROVE TypeInv'
  <2>1. tran' \in [Sd -> TranThread]
    BY <1>14, WakeTranType DEF QueuedPacket
  <2>2. recv' \in [Sd -> RecvThread]
    BY <1>14, RecvGotoType DEF QueuedPacket, RecvPcs
  <2> QED BY <1>14, <2>1, <2>2 DEF QueuedPacket, TypeInv, outside
<1> QED BY <1>3, <1>4, <1>5, <1>6, <1>7, <1>8, <1>9, <1>10, <1>11, <1>12, <1>13,
           <1>14 DEF RecvStep

LEMMA TranGotoType ==
    ASSUME TypeInv, NEW s \in Sd, NEW pc \in TranPcs, TranGoto(s, pc)
    PROVE  tran' \in [Sd -> TranThread]
<1>1. tran \in [Sd -> TranThread] /\ tran' = [tran EXCEPT ![s].pc = pc]
  BY DEF TypeInv, TranGoto
<1>2. [tran[s] EXCEPT !.pc = pc] \in TranThread
  BY <1>1 DEF TranThread
<1> QED BY <1>1, <1>2

(* The request of a connection in its handshake is where it was put.       *)
LEMMA OwnSlotFound ==
    ASSUME TypeInv, Sound, NEW s \in Sd, Pending(s)
    PROVE  /\ ctx[s].listen_sd \in Sd
           /\ \E k \in OwnSlot(s) : Holds(ctx[s].listen_sd, k, s)
<1> DEFINE l == ctx[s].listen_sd
<1>1. PICK k \in 1 .. Queue(l).max_len : l \in Sd /\ Holds(l, k, s)
  BY DEF Sound, PendingSound
<1>2. Queue(l).slot[k].peer = ctx[s].peer
  BY <1>1 DEF Sound, EntriesSound, Holds
<1> QED BY <1>1, <1>2 DEF OwnSlot, HoldsSd, Holds

LEMMA TranStepTypes ==
    ASSUME TypeInv, Sound, NEW s \in Sd, TranStep(s)
    PROVE  TypeInv'
<1>1. ctx \in [Sd -> Context] /\ ctx[s] \in Context /\ AfterEvent(s) \in Context
  BY AfterEventType DEF TypeInv
<1>2. ASSUME SendOwnSyn(s) PROVE TypeInv'
  <2>1. PICK to \in {"yes", "stuck"} :
          /\ TcpConnect(s, to, [ctx[s] EXCEPT !.failed = (to = "stuck")])
          /\ TranGoto(s, IF to = "yes" THEN "shake" ELSE "unblock")
    BY <1>2 DEF SendOwnSyn
  <2>2. ctx' \in [Sd -> Context]
    <3>1. [ctx[s] EXCEPT !.failed = (to = "stuck")] \in Context
      BY <1>1, ContextFlags
    <3> QED BY <2>1, <3>1, TcpConnectType
  <2>3. tran' \in [Sd -> TranThread]
    BY <2>1, TranGotoType DEF TranPcs
  <2> QED BY <1>2, <2>2, <2>3 DEF SendOwnSyn, TypeInv, outside
<1>3. ASSUME AwaitSyn(s) PROVE TypeInv'
  <2>1. ctx' \in [Sd -> Context]
    BY <1>1, <1>3 DEF AwaitSyn
  <2>2. tran' \in [Sd -> TranThread]
    BY <1>3, TranGotoType DEF AwaitSyn, TranPcs
  <2> QED BY <1>3, <2>1, <2>2 DEF AwaitSyn, TypeInv, outside
<1>4. ASSUME Handshake(s) PROVE TypeInv'
  <2>1. ctx' \in [Sd -> Context]
    BY <1>1, <1>4 DEF Handshake
  <2>2. tran' \in [Sd -> TranThread]
    BY <1>4, TranGotoType DEF Handshake, TranPcs
  <2> QED BY <1>4, <2>1, <2>2 DEF Handshake, TypeInv, outside
<1>5. ASSUME Unblock(s) PROVE TypeInv'
  <2>1. ctx' \in [Sd -> Context]
    BY <1>1, <1>5, ContextFlags DEF Unblock
  <2>2. tran' \in [Sd -> TranThread]
    BY <1>5, TranGotoType DEF Unblock, TranPcs
  <2> QED BY <1>5, <2>1, <2>2 DEF Unblock, Check, TypeInv, outside
<1>6. ASSUME SignalConnect(s) PROVE TypeInv'
  <2>1. app' \in AppThread
    <3>1. app \in AppThread /\ \A pc \in AppPcs : [app EXCEPT !.pc = pc] \in AppThread
      BY AppEdits DEF TypeInv
    <3>2. app.pc \in AppPcs
      BY <3>1 DEF AppThread
    <3> QED BY <1>6, <3>1, <3>2 DEF SignalConnect, AppPcs
  <2>2. tran' \in [Sd -> TranThread]
    BY <1>6, TranGotoType DEF SignalConnect, ControlLoop, TranPcs
  <2> QED BY <1>6, <2>1, <2>2 DEF SignalConnect, TypeInv, outside
<1>7. ASSUME PassiveComplete(s) PROVE TypeInv'
  <2> DEFINE l == ctx[s].listen_sd
             hits == OwnSlot(s)
  <2>1. l \in Sd /\ hits # {}
    <3>1. Pending(s)
      BY <1>7 DEF PassiveComplete, TranAt, Pending, Sound, ContextsSound
    <3> QED BY <3>1, OwnSlotFound
  <2>2. /\ listen_table' = [listen_table EXCEPT ![l] = Completed(@, Min(hits))]
        /\ TranGoto(s, "completed")
        /\ UNCHANGED <<ctx, readers, writer, app, recv, outside, count, halt>>
    BY <1>7, <2>1 DEF PassiveComplete
  <2>3. Min(hits) \in SlotNo
    <3>1. Queue(l).max_len \in SlotNo
      BY <2>1, QueueType
    <3>2. hits \in SUBSET Nat /\ hits \subseteq SlotNo
      BY <3>1, MysockAssumption DEF SlotNo, OwnSlot, HoldsSd
    <3> QED BY <2>1, <3>2, MinOfNaturals
  <2> HIDE DEF hits, l
  <2>4. /\ listen_table' \in [Sd -> ListenQueue]
        /\ \A t \in Sd : listen_table'[t].slot
                           \in [1 .. listen_table'[t].max_len -> Request]
    <3>1. NoRequest \in Request /\ 0 \in Unsigned
      BY MysockAssumption DEF NoRequest, Request, NoSd, Address, Unsigned
    <3>2. QueueOK(Completed(Queue(l), Min(hits)))
      BY <2>1, <2>3, <3>1, QueueType, QueueUpdates
    <3> QED BY <2>1, <2>2, <3>2, QueuesTyped DEF Queue
  <2>5. tran' \in [Sd -> TranThread]
    BY <2>2, TranGotoType DEF TranPcs
  <2> QED BY <2>2, <2>4, <2>5 DEF TypeInv, outside
<1>8. ASSUME SignalAccept(s) PROVE TypeInv'
  <2>1. app' \in AppThread
    <3>1. app \in AppThread /\ app.pc \in AppPcs
      BY DEF TypeInv, AppThread
    <3>2. WakeAccept(app) \in AppThread
      BY <3>1, AppEdits DEF WakeAccept, AppPcs
    <3> QED BY <1>8, <3>1, <3>2 DEF SignalAccept
  <2>2. tran' \in [Sd -> TranThread]
    BY <1>8, TranGotoType DEF SignalAccept, ControlLoop, TranPcs
  <2> QED BY <1>8, <2>1, <2>2 DEF SignalAccept, TypeInv, outside
<1>9. ASSUME LoopEvents(s) PROVE TypeInv'
  <2> DEFINE c == AfterEvent(s)
             in == IF ctx[s].network_recv = <<>> THEN "none"
                   ELSE Head(ctx[s].network_recv)
             up == CASE in = "data" -> <<Data>> [] in = "fin" -> <<EofPacket>>
                     [] OTHER -> <<>>
             n == IF c.app_recv > 0 THEN c.app_recv - 1 ELSE c.app_recv
             bytes == IF in = "data" THEN c.pushed \o Data ELSE c.pushed
             fin == tran[s].fin \/ CloseReady(s)
             peerfin == tran[s].peerfin \/ in = "fin"
             pc == IF up # <<>> THEN "handed"
                   ELSE IF fin /\ peerfin THEN "exit" ELSE "loop"
  <2>1. /\ ctx' = [ctx EXCEPT ![s] = [c EXCEPT !.app_recv = n,
                       !.app_send = c.app_send \o up, !.pushed = bytes]]
        /\ tran' = [tran EXCEPT ![s] = [pc |-> pc, fin |-> fin, peerfin |-> peerfin]]
        /\ UNCHANGED <<listen_table, readers, writer, app, recv, outside, count, halt>>
    BY <1>9 DEF LoopEvents
  <2>2. c.app_recv \in Nat /\ c.app_send \in Seq(Seq(Int)) /\ c.pushed \in Seq(Int)
    BY <1>1 DEF Context
  <2>3. n \in Nat
    BY <2>2
  <2>4. up \in Seq(Seq(Int)) /\ bytes \in Seq(Int)
    <3>1. Data \in Seq(Int) /\ EofPacket \in Seq(Int)
      BY DEF Data, EofPacket
    <3>2. <<Data>> \in Seq(Seq(Int)) /\ <<EofPacket>> \in Seq(Seq(Int))
          /\ <<>> \in Seq(Seq(Int))
      BY <3>1
    <3>3. c.pushed \o Data \in Seq(Int)
      BY <2>2, <3>1, ConcatProperties
    <3> QED BY <2>2, <3>2, <3>3
  <2>5. c.app_send \o up \in Seq(Seq(Int))
    <3> HIDE DEF up, c
    <3> QED BY <2>2, <2>4, ConcatProperties
  <2>6. pc \in TranPcs /\ fin \in BOOLEAN /\ peerfin \in BOOLEAN
    BY DEF TranPcs
  <2> HIDE DEF c, n, up, bytes, fin, peerfin, pc
  <2>7. ctx' \in [Sd -> Context]
    <3>1. [c EXCEPT !.app_recv = n, !.app_send = c.app_send \o up, !.pushed = bytes]
            \in Context
      BY <1>1, <2>3, <2>4, <2>5, ContextQueues DEF c
    <3> QED BY <1>1, <2>1, <3>1
  <2>8. tran' \in [Sd -> TranThread]
    BY <2>1, <2>6 DEF TypeInv, TranThread
  <2> QED BY <2>1, <2>7, <2>8 DEF TypeInv, outside
<1>10. ASSUME LoopSleep(s) PROVE TypeInv'
  <2>1. tran' \in [Sd -> TranThread]
    BY <1>10, TranGotoType DEF LoopSleep, TranPcs
  <2> QED BY <1>10, <2>1 DEF LoopSleep, TypeInv, outside
<1>11. ASSUME HandedUp(s) PROVE TypeInv'
  <2>1. tran' \in [Sd -> TranThread]
    BY <1>11, TranGotoType DEF HandedUp, TranPcs
  <2>2. app' \in AppThread
    BY <1>11, WakeAppType DEF HandedUp
  <2> QED BY <1>11, <2>1, <2>2 DEF HandedUp, TypeInv, outside
<1>12. ASSUME TransportExit(s) PROVE TypeInv'
  <2>1. tran' \in [Sd -> TranThread]
    BY <1>12, TranGotoType DEF TransportExit, TranPcs
  <2>2. app' \in AppThread
    BY <1>12, WakeAppType DEF TransportExit
  <2>3. ctx' \in [Sd -> Context]
    <3>1. ctx[s].app_send \in Seq(Seq(Int)) /\ EofPacket \in Seq(Int)
      BY <1>1 DEF Context, EofPacket
    <3>2. Append(ctx[s].app_send, EofPacket) \in Seq(Seq(Int))
      BY <3>1, AppendProperties
    <3>3. [ctx[s] EXCEPT !.app_send = Append(ctx[s].app_send, EofPacket)] \in Context
      BY <1>1, <3>2, ContextQueues
    <3> QED BY <1>1, <1>12, <3>3 DEF TransportExit
  <2> QED BY <1>12, <2>1, <2>2, <2>3 DEF TransportExit, TypeInv, outside
<1>13. ASSUME FindRequest(s) PROVE TypeInv'
  <2>1. tran' \in [Sd -> TranThread]
    BY <1>13, TranGotoType DEF FindRequest, TranPcs
  <2>2. readers' \subseteq ({App} \union {Recv(t) : t \in Sd} \union {Tran(t) : t \in Sd})
    BY <1>13 DEF FindRequest, TypeInv
  <2>3. halt' \in {"no", "assert", "corrupt", "misfiled"}
    BY <1>13 DEF FindRequest, TypeInv
  <2>4. UNCHANGED <<ctx, listen_table, writer, app, recv, accq, said, count>>
    BY <1>13 DEF FindRequest, outside
  <2> QED BY <2>1, <2>2, <2>3, <2>4 DEF TypeInv
<1> QED BY <1>2, <1>3, <1>4, <1>5, <1>6, <1>7, <1>8, <1>9, <1>10, <1>11, <1>12,
           <1>13 DEF TranStep

LEMMA ClientTypes ==
    ASSUME TypeInv, Client
    PROVE  TypeInv'
<1>1. ASSUME NEW p \in Peer, SendSyn(p) \/ Hangup(p) PROVE TypeInv'
  <2>1. said' \in [Peer -> {"no", "connected", "syn", "hung"}]
    BY <1>1 DEF SendSyn, Hangup, TypeInv
  <2> QED BY <1>1, <2>1 DEF SendSyn, Hangup, TypeInv, threads
<1>2. ASSUME NEW p \in Peer, NEW s \in Sd, TcpArrive(p, s) PROVE TypeInv'
  <2>1. said' \in [Peer -> {"no", "connected", "syn", "hung"}]
    BY <1>2 DEF TcpArrive, TypeInv
  <2>2. accq' \in [Sd -> Seq(Peer)]
    <3>1. Append(accq[s], p) \in Seq(Peer)
      BY AppendProperties DEF TypeInv
    <3> QED BY <1>2, <3>1 DEF TcpArrive, TypeInv
  <2>3. count' \in [arrivals : Nat, writes : 0 .. MaxWrites, opens : Nat]
    <3>1. /\ count \in [arrivals : Nat, writes : 0 .. MaxWrites, opens : Nat]
          /\ count' = [count EXCEPT !.arrivals = count.arrivals + 1]
          /\ count.arrivals + 1 \in Nat
      BY <1>2 DEF TcpArrive, TypeInv
    <3> QED BY <3>1, Zenon
  <2> QED BY <1>2, <2>1, <2>2, <2>3 DEF TcpArrive, TypeInv, threads
<1> QED BY <1>1, <1>2 DEF Client

---------------------------------------------------------------------------
(* Most steps leave the books alone: which contexts there are, what the    *)
(* listen queues hold and which of it the application has in hand.         *)
ContextFrame ==
    \A t \in Sd : /\ ctx'[t].live = ctx[t].live
                  /\ ctx'[t].listening = ctx[t].listening
                  /\ ctx'[t].active = ctx[t].active
                  /\ ctx'[t].listen_sd = ctx[t].listen_sd
                  /\ ctx'[t].peer = ctx[t].peer

SlotFrame ==
    /\ writer' = writer
    /\ \A l \in Sd : /\ Queue(l)'.max_len = Queue(l).max_len
                     /\ Queue(l)'.slot = Queue(l).slot

QueueFrame == SlotFrame /\ \A l \in Sd : Queue(l)'.completed = Queue(l).completed

AppFrame ==
    /\ app'.own = app.own /\ app'.new = app.new /\ app'.outer = app.outer
    /\ writer \/ app.pc \in Accepting => app'.sd = app.sd /\ app'.k = app.k
    /\ \/ app'.pc = app.pc
       \/ /\ app.pc \notin {"wipe", "invalidate"} /\ app'.pc \notin {"wipe", "invalidate"}
          /\ app'.pc \in Accepting <=> app.pc \in Accepting

(* Handshakes end, but none begins; connections are not taken back from    *)
(* the application.                                                        *)
PendingFrame == \A t \in Sd : Pending(t)' => Pending(t)

HandshakeFrame ==
    /\ PendingFrame
    /\ \A t \in Sd : ~ctx[t].active /\ tran'[t].pc \in Established
                       => tran[t].pc \in Established

QueuesSound ==
    /\ EntriesSound /\ PeersUnique /\ CurrentSlot /\ PendingSound
    /\ CompletedSound /\ NewNotPending /\ EstablishedKnown

LEMMA EntriesKept ==
    ASSUME TypeInv, TypeInv', Sound, SlotFrame, AppFrame, NEW l \in Sd, NEW k
    PROVE  /\ Entry(l, k)' <=> Entry(l, k)
           /\ Drained(l, k)' <=> Drained(l, k)
           /\ Wiped(l, k)' <=> Wiped(l, k)
<1>1. Drained(l, k)' <=> Drained(l, k)
  BY DEF Drained, Passive, SlotFrame, AppFrame
<1>2. Wiped(l, k)' <=> Wiped(l, k)
  BY DEF Wiped, AppFrame, Accepting
<1> QED BY <1>1, <1>2 DEF Entry, SlotFrame

LEMMA SlotsKept ==
    ASSUME TypeInv, TypeInv', Sound,
           ContextFrame, SlotFrame, AppFrame, PendingFrame
    PROVE  EntriesSound' /\ PeersUnique' /\ PendingSound' /\ NewNotPending'
<1>1. \A l \in Sd : \A k : /\ Entry(l, k)' <=> Entry(l, k)
                           /\ Drained(l, k)' <=> Drained(l, k)
                           /\ Wiped(l, k)' <=> Wiped(l, k)
  BY EntriesKept
<1>2. \A l \in Sd : /\ Queue(l)'.max_len = Queue(l).max_len
                    /\ Queue(l)'.slot = Queue(l).slot
  BY DEF SlotFrame
<1>3. \A l \in Sd : \A k \in 1 .. Queue(l).max_len : Queue(l).slot[k].sd \in NoSd
  BY QueueType
<1>4. app.new \in NoSd /\ (app.pc \in Accepting <=> app.new # -1)
  BY DEF TypeInv, AppThread, Sound, ApplicationSound
<1>5. EntriesSound'
  <2> SUFFICES ASSUME NEW l \in Sd, NEW k \in 1 .. Queue(l).max_len
               PROVE  EntriesSound!(l)!(k)'
    BY <1>2 DEF EntriesSound
  <2> DEFINE r == Queue(l).slot[k]
  <2>1. EntriesSound!(l)!(k)
    BY DEF Sound, EntriesSound
  <2>2. r.sd \in NoSd /\ (Entry(l, k) => r.sd \in Sd)
    BY <1>3 DEF Entry, NoSd
  <2>3. Entry(l, k) /\ app.new = r.sd => app'.pc = "wipe" /\ l = app'.sd /\ k = app'.k
    <3>1. ASSUME Entry(l, k), app.new = r.sd PROVE app.pc \in Accepting
      BY <1>4, <3>1 DEF Entry
    <3> QED BY <2>1, <3>1 DEF AppFrame, Accepting
  <2>4. r.sd \in Sd => /\ ctx'[r.sd].live = ctx[r.sd].live
                       /\ ctx'[r.sd].listen_sd = ctx[r.sd].listen_sd
                       /\ ctx'[r.sd].peer = ctx[r.sd].peer
    BY DEF ContextFrame
  <2>5. r.sd # -1 => r.sd \in Sd
    BY <2>2 DEF NoSd
  <2>6. app'.own = app.own /\ app'.new = app.new
    BY DEF AppFrame
  <2>7. Queue(l)'.slot[k] = r
    BY <1>2
  <2> HIDE DEF r
  <2> QED BY <1>1, <2>1, <2>2, <2>3, <2>4, <2>5, <2>6, <2>7 DEF r
<1>6. PeersUnique'
  BY <1>2 DEF Sound, PeersUnique
<1>8. PendingSound'
  <2> SUFFICES ASSUME NEW s \in Sd, Pending(s)' PROVE PendingSound!(s)'
    BY DEF PendingSound
  <2>1. Pending(s) /\ ctx'[s].listen_sd = ctx[s].listen_sd
    BY DEF PendingFrame, ContextFrame
  <2>2. /\ ctx[s].listen_sd \in Sd
        /\ \E k \in 1 .. Queue(ctx[s].listen_sd).max_len : Holds(ctx[s].listen_sd, k, s)
    BY <2>1 DEF Sound, PendingSound
  <2> QED BY <1>1, <1>2, <2>1, <2>2 DEF Holds
<1>10. NewNotPending'
  <2>1. app'.pc \in Accepting => app.pc \in Accepting /\ app'.new = app.new /\ app.new \in Sd
    BY <1>4 DEF AppFrame, NoSd
  <2> QED BY <2>1 DEF Sound, NewNotPending, PendingFrame
<1> QED BY <1>5, <1>6, <1>8, <1>10

LEMMA QueuesKept ==
    ASSUME TypeInv, TypeInv', Sound,
           ContextFrame, QueueFrame, AppFrame, HandshakeFrame
    PROVE  QueuesSound'
<1>1. \A l \in Sd : \A k : /\ Entry(l, k)' <=> Entry(l, k)
                           /\ Drained(l, k)' <=> Drained(l, k)
                           /\ Wiped(l, k)' <=> Wiped(l, k)
  BY EntriesKept DEF QueueFrame
<1>2. \A l \in Sd : /\ Queue(l)'.max_len = Queue(l).max_len
                    /\ Queue(l)'.slot = Queue(l).slot
                    /\ Queue(l)'.completed = Queue(l).completed
  BY DEF QueueFrame, SlotFrame
<1>3. \A l \in Sd : \A k \in 1 .. Queue(l).max_len : Queue(l).slot[k].sd \in NoSd
  BY QueueType
<1>4. app.new \in NoSd /\ (app.pc \in Accepting <=> app.new # -1)
  BY DEF TypeInv, AppThread, Sound, ApplicationSound
<1>5. EntriesSound' /\ PeersUnique' /\ PendingSound' /\ NewNotPending'
  BY SlotsKept DEF QueueFrame, HandshakeFrame
<1>7. CurrentSlot'
  <2>1. ASSUME app'.pc = "wipe" PROVE Holds(app.sd, app.k, app.new)'
    <3>1. app.pc = "wipe" /\ app'.sd = app.sd /\ app'.k = app.k /\ app'.new = app.new
      BY <2>1 DEF AppFrame, Accepting
    <3>2. Holds(app.sd, app.k, app.new) /\ app.sd \in Sd
      BY <3>1 DEF Sound, CurrentSlot, ApplicationSound
    <3>3. Entry(app.sd, app.k)' /\ Queue(app.sd)'.slot = Queue(app.sd).slot
      BY <1>1, <1>2, <3>1, <3>2 DEF Holds, Entry, Queue, Drained, Wiped, Passive
    <3> QED BY <3>1, <3>2, <3>3 DEF Holds
  <2>2. ASSUME app'.outer # -1 PROVE Holds(app.outer, app.k, app.sd)'
    <3>1. app.outer # -1 /\ app'.outer = app.outer /\ writer
      BY <2>2 DEF AppFrame, Sound, ApplicationSound
    <3>2. app'.sd = app.sd /\ app'.k = app.k
      BY <3>1 DEF AppFrame
    <3>3. Holds(app.outer, app.k, app.sd) /\ app.outer \in Sd
      BY <3>1 DEF Sound, CurrentSlot, TypeInv, AppThread, NoSd
    <3>4. Entry(app.outer, app.k)' /\ Queue(app.outer)'.slot = Queue(app.outer).slot
      BY <1>1, <1>2, <3>1, <3>2, <3>3 DEF Holds, Entry, Queue, Drained, Wiped, Passive
    <3> QED BY <3>1, <3>2, <3>3, <3>4 DEF Holds
  <2>3. ASSUME app'.pc \in {"wipe", "invalidate"}
        PROVE  (\A i \in 1 .. Len(Queue(app.sd).completed) :
                  Queue(app.sd).completed[i] # app.k)'
    <3>1. app.pc \in {"wipe", "invalidate"} /\ app'.sd = app.sd /\ app'.k = app.k
      BY <2>3 DEF AppFrame, Accepting
    <3>2. app.sd \in Sd
      BY <3>1 DEF Sound, ApplicationSound
    <3>3. Queue(app.sd)'.completed = Queue(app.sd).completed
      BY <1>2, <3>1, <3>2 DEF Queue
    <3> QED BY <3>1, <3>3 DEF Sound, CurrentSlot
  <2> QED BY <2>1, <2>2, <2>3 DEF CurrentSlot
<1>9. CompletedSound'
  <2> SUFFICES ASSUME NEW l \in Sd, NEW i \in 1 .. Len(Queue(l).completed)
               PROVE  CompletedSound!(l)!(i)'
    BY <1>2 DEF CompletedSound
  <2> DEFINE k == Queue(l).completed[i]
  <2>1. CompletedSound!(l)!(i)
    BY DEF Sound, CompletedSound
  <2>2. ~Drained(l, k) => Queue(l).slot[k].sd \in Sd
    BY <1>3, <2>1 DEF Entry, NoSd
  <2> QED BY <1>1, <1>2, <2>1, <2>2 DEF HandshakeFrame, PendingFrame
<1>11. EstablishedKnown'
  <2> SUFFICES ASSUME NEW s \in Sd, ctx'[s].live, ~ctx'[s].active,
                      tran'[s].pc \in Established
               PROVE  s \in app'.own \/ app'.new = s \/ InCompleted(s)'
    BY DEF EstablishedKnown
  <2>1. s \in app.own \/ app.new = s \/ InCompleted(s)
    BY DEF Sound, EstablishedKnown, ContextFrame, HandshakeFrame
  <2>2. InCompleted(s) => InCompleted(s)'
    BY <1>2 DEF InCompleted
  <2> QED BY <2>1, <2>2 DEF AppFrame
<1> QED BY <1>5, <1>7, <1>9, <1>11 DEF QueuesSound

(* What the receive and transport threads do when no connection is made:   *)
(* the application may be woken, and no thread is started or revived.      *)
Woken(from, to) == app.pc = from /\ app' = [app EXCEPT !.pc = to]

AppWoken ==
    \/ app' = app
    \/ Woken("asleep_conn", "waitconn")
    \/ Woken("asleep_read", "read")
    \/ Woken("asleep_accept", "accept")

TranFrame ==
    \A t \in Sd : /\ tran'[t].pc = "none" <=> tran[t].pc = "none"
                  /\ tran[t].pc = "done" => tran'[t].pc = "done"
                  /\ tran'[t].pc = "connect" => tran[t].pc = "connect"
                  /\ tran'[t].pc \in {"complete", "found"} => ~ctx[t].active

RecvFrame ==
    \A t \in Sd : /\ recv'[t].pc = "none" <=> recv[t].pc = "none"
                  /\ recv[t].pc = "done" => recv'[t].pc = "done"
                  /\ recv'[t].pc \in {"read", "enqueue", "claim", "create", "pass",
                                      "passed"}
                       => ctx[t].listening /\ recv'[t].peer \in Peer
                  /\ recv'[t].pc \in {"pass", "passed"} => recv'[t].fd \in Sd

FailedFrame == \A t \in Sd : ctx'[t].failed => ctx[t].active

LEMMA OwnersKept ==
    ASSUME TypeInv, TypeInv', Sound,
           ContextFrame, SlotFrame, AppWoken, TranFrame, RecvFrame, FailedFrame
    PROVE  AppFrame /\ ApplicationSound' /\ ClosingSound' /\ ContextsSound'
<1>1. /\ app'.own = app.own /\ app'.new = app.new /\ app'.outer = app.outer
      /\ app'.sd = app.sd /\ app'.k = app.k /\ app'.len = app.len
      /\ app'.pc = app.pc \/ (/\ app.pc \in {"asleep_conn", "asleep_read", "asleep_accept"}
                              /\ app'.pc \in {"waitconn", "read", "accept"}
                              /\ app'.pc = "accept" => app.pc = "asleep_accept")
  BY DEF AppWoken, Woken, TypeInv, AppThread
<1>2. AppFrame
  BY <1>1 DEF AppFrame, Accepting
<1>3. app.own \subseteq Sd /\ app.sd \in NoSd /\ app.outer \in NoSd /\ app.new \in NoSd
  BY DEF TypeInv, AppThread
<1>4. \A t \in Sd : Queue(t)'.max_len = Queue(t).max_len
  BY DEF SlotFrame
<1>5. ApplicationSound'
  <2> USE DEF Sound, ApplicationSound
  <2>1. (app.pc # "idle" => Passive \in app.own)'
    BY <1>1 DEF Passive
  <2>2. (app.outer # -1 => app.pc \in Closing)'
    BY <1>1 DEF Closing
  <2>3. (app.pc # "idle" => app.sd \in Sd)'
    BY <1>1
  <2>4. (writer <=> (app.pc = "drain" \/ app.outer # -1))'
    BY <1>1 DEF SlotFrame
  <2>5. (app.pc \in Accepting <=> app.new # -1)'
    BY <1>1 DEF Accepting
  <2>6. (app.pc \in Accepting => ctx[app.new].live /\ app.new \notin app.own)'
    <3>1. ASSUME app'.pc \in Accepting
          PROVE  ctx'[app'.new].live /\ app'.new \notin app'.own
      <4>1. app.pc \in Accepting /\ app.new \in Sd
        BY <1>1, <1>3, <3>1 DEF Accepting, NoSd
      <4> QED BY <1>1, <4>1 DEF ContextFrame
    <3> QED BY <3>1
  <2>7. (app.pc \in Accepting => app.k \in 1 .. Queue(app.sd).max_len)'
    <3>1. ASSUME app'.pc \in Accepting PROVE (app.k \in 1 .. Queue(app.sd).max_len)'
      <4>1. app.pc \in Accepting /\ app.sd \in Sd
        BY <1>1, <3>1 DEF Accepting
      <4>2. Queue(app.sd)'.max_len = Queue(app.sd).max_len
        BY <1>1, <1>4, <4>1 DEF Queue
      <4> QED BY <1>1, <4>1, <4>2
    <3> QED BY <3>1
  <2>8. (app.pc = "store" => app.len > 0)'
    BY <1>1
  <2>9. (app.pc = "drain" => app.k \in 1 .. Queue(app.sd).max_len + 1)'
    <3>1. ASSUME app'.pc = "drain" PROVE (app.k \in 1 .. Queue(app.sd).max_len + 1)'
      <4>1. app.pc = "drain" /\ app.sd \in Sd
        BY <1>1, <3>1
      <4>2. Queue(app.sd)'.max_len = Queue(app.sd).max_len
        BY <1>1, <1>4, <4>1 DEF Queue
      <4> QED BY <1>1, <4>1, <4>2
    <3> QED BY <3>1
  <2>10. (app.pc \in {"backlog", "accept", "asleep_accept", "passive", "drain"}
            \union Accepting => ctx[app.sd].listening)'
    BY <1>1 DEF ContextFrame, Accepting
  <2>11. (writer => ctx[Passive].listening)'
    <3>1. ASSUME writer' PROVE ctx[Passive].listening'
      <4>1. writer /\ (app.outer # -1 \/ app.pc = "drain")
        BY <3>1 DEF SlotFrame
      <4>2. Passive \in Sd
        BY <1>3, <4>1 DEF Passive, NoSd
      <4>3. Passive' = Passive
        BY <1>1 DEF Passive
      <4> QED BY <4>1, <4>2, <4>3 DEF ContextFrame
    <3> QED BY <3>1
  <2>12. (app.pc = "backlog" => Queue(app.sd).max_len = 0 /\ recv[app.sd].pc = "none")'
    <3>1. ASSUME app'.pc = "backlog"
          PROVE  (Queue(app.sd).max_len = 0 /\ recv[app.sd].pc = "none")'
      <4>1. app.pc = "backlog" /\ app.sd \in Sd
        BY <1>1, <3>1
      <4>2. Queue(app.sd)'.max_len = Queue(app.sd).max_len
        BY <1>1, <1>4, <4>1 DEF Queue
      <4> QED BY <1>1, <4>1, <4>2 DEF RecvFrame
    <3> QED BY <3>1
  <2> QED BY <2>1, <2>2, <2>3, <2>4, <2>5, <2>6, <2>7, <2>8, <2>9, <2>10, <2>11, <2>12
<1>6. ClosingSound'
  <2>1. ASSUME app'.pc \in {"joinrecv", "passive", "drain", "free"}
        PROVE  (tran[app.sd].pc \in {"none", "done"})'
    BY <1>1, <2>1 DEF TranFrame, Sound, ClosingSound, ApplicationSound
  <2>2. ASSUME app'.pc \in {"passive", "drain", "free"}
        PROVE  (recv[app.sd].pc \in {"none", "done"})'
    BY <1>1, <2>2 DEF RecvFrame, Sound, ClosingSound, ApplicationSound
  <2>3. ASSUME app'.outer # -1 PROVE (recv[app.outer].pc \in {"none", "done"})'
    BY <1>1, <1>3, <2>3 DEF RecvFrame, Sound, ClosingSound, NoSd
  <2>4. ASSUME app'.pc = "free" PROVE (Queue(app.sd).max_len = 0)'
    <3>1. app.pc = "free" /\ app.sd \in Sd
      BY <1>1, <2>4 DEF Sound, ApplicationSound
    <3>2. Queue(app.sd)'.max_len = Queue(app.sd).max_len
      BY <1>1, <1>4, <3>1 DEF Queue
    <3> QED BY <3>1, <3>2 DEF Sound, ClosingSound
  <2> QED BY <2>1, <2>2, <2>3, <2>4 DEF ClosingSound
<1>7. ContextsSound'
  <2>1. app'.own \subseteq {s \in Sd : ctx'[s].live}
    BY <1>1, <1>3 DEF ContextFrame, Sound, ContextsSound
  <2>2. ASSUME NEW s \in Sd PROVE ContextsSound!2!(s)'
    BY <1>1, <1>4 DEF ContextFrame, TranFrame, RecvFrame, FailedFrame, Sound, ContextsSound
  <2> QED BY <2>1, <2>2 DEF ContextsSound
<1> QED BY <1>2, <1>5, <1>6, <1>7

LEMMA BooksKept ==
    ASSUME TypeInv, TypeInv', Sound,
           ContextFrame, QueueFrame, AppWoken, HandshakeFrame, TranFrame,
           RecvFrame, FailedFrame
    PROVE  ApplicationSound' /\ ClosingSound' /\ ContextsSound' /\ QueuesSound'
<1>1. AppFrame /\ ApplicationSound' /\ ClosingSound' /\ ContextsSound'
  BY OwnersKept DEF QueueFrame
<1> QED BY <1>1, QueuesKept

(* A step of the transport thread of s, other than entering its connection *)
(* into the completed queue.                                               *)
Handshaking == {"synwait", "asleep_syn", "shake", "unblock", "signal", "complete", "found"}

TranMove(s) ==
    /\ UNCHANGED <<listen_table, writer, recv, count>>
    /\ \/ readers' = readers
       \/ /\ tran'[s].pc \notin {"found", "completed"}
          /\ readers' = readers \ {Tran(s)}
       \/ ~writer /\ readers' = readers \union {Tran(s)}
    /\ AppWoken
    /\ \A t \in Sd : t # s => ctx'[t] = ctx[t] /\ tran'[t] = tran[t]
    (* the context *)
    /\ ctx'[s].live = ctx[s].live /\ ctx'[s].listening = ctx[s].listening
    /\ ctx'[s].active = ctx[s].active /\ ctx'[s].listen_sd = ctx[s].listen_sd
    /\ ctx'[s].peer = ctx[s].peer
    /\ ctx'[s].failed => ctx[s].active
    (* the thread *)
    /\ tran[s].pc \notin {"none", "done"} /\ tran'[s].pc \notin {"none", "connect"}
    /\ tran'[s].pc \in {"complete", "found"} => ~ctx[s].active
    /\ tran'[s].pc = "completed" => tran[s].pc = "completed"
    /\ tran'[s].pc = "found" => tran[s].pc = "found" \/ Tran(s) \in readers'
    /\ ctx[s].active \/ /\ tran'[s].pc \in Handshaking => tran[s].pc \in Handshaking
                        /\ tran'[s].pc \in Established => tran[s].pc \in Established
    (* who sleeps, and why *)
    /\ tran[s].pc = "completed" /\ ctx[s].listen_sd = app.sd
         => tran'[s].pc = "completed" \/ app'.pc # "asleep_accept"
    /\ app'.pc = "asleep_conn" /\ app.sd = s
         => ctx'[s].blocking \/ tran'[s].pc = "signal"
    /\ app'.pc = "asleep_read" /\ app.sd = s
         => ctx'[s].app_send = <<>> \/ tran'[s].pc = "handed"
    /\ tran'[s].pc = "asleep_syn" => ~NetworkEvent(s)'
    /\ tran'[s].pc = "asleep_loop" => ~AnyEvent(s)'
    (* the close request *)
    /\ ctx'[s].app_recv <= ctx[s].app_recv
    /\ ctx'[s].close_requested \/ tran'[s].fin => ctx[s].close_requested \/ tran[s].fin
    /\ tran'[s].fin => ctx'[s].app_recv = 0

LEMMA TranMoveSound ==
    ASSUME TypeInv, TypeInv', Sound, NEW s \in Sd, TranMove(s)
    PROVE  Sound'
<1>1. /\ app'.own = app.own /\ app'.new = app.new /\ app'.outer = app.outer
      /\ app'.sd = app.sd /\ app'.k = app.k /\ app'.len = app.len
      /\ app'.pc = app.pc \/ (/\ app.pc \in {"asleep_conn", "asleep_read", "asleep_accept"}
                              /\ app'.pc \in {"waitconn", "read", "accept"}
                              /\ app'.pc = "accept" => app.pc = "asleep_accept")
  BY DEF TranMove, AppWoken, Woken, TypeInv, AppThread
<1>2. ContextFrame
  BY DEF TranMove, ContextFrame
<1>3. QueueFrame
  BY DEF TranMove, QueueFrame, SlotFrame, Queue
<1>4. HandshakeFrame
  BY DEF TranMove, HandshakeFrame, PendingFrame, Pending, Handshaking
<1>5. TranFrame
  BY DEF TranMove, TranFrame, Sound, ContextsSound
<1>6. RecvFrame
  BY DEF TranMove, RecvFrame, Sound, ContextsSound
<1>7. FailedFrame
  BY DEF TranMove, FailedFrame, Sound, ContextsSound
<1>8. ApplicationSound' /\ ClosingSound' /\ ContextsSound' /\ QueuesSound'
  BY <1>2, <1>3, <1>4, <1>5, <1>6, <1>7, BooksKept DEF TranMove
<1>9. LockSound'
  <2>1. ASSUME NEW t \in Sd PROVE LockSound!1!(t)'
    BY DEF TranMove, Sound, LockSound, Recv, Tran
  <2>2. (app.pc \in {"accept", "asleep_accept"} \union Accepting => App \in readers)'
    BY <1>1 DEF TranMove, Sound, LockSound, App, Tran, Accepting
  <2>3. (writer => readers = {})'
    BY DEF TranMove, Sound, LockSound
  <2> QED BY <2>1, <2>2, <2>3 DEF LockSound
<1>10. ClaimSound'
  BY DEF TranMove, Sound, ClaimSound, Queue
<1>11. AcceptWoken'
  <2> SUFFICES ASSUME app'.pc = "asleep_accept",
                      Queue(app.sd)'.completed # <<>>
               PROVE  (\E t \in Sd : tran[t].pc = "completed" /\ ctx[t].listen_sd = app.sd)'
    BY DEF AcceptWoken
  <2>1. app.pc = "asleep_accept" /\ Queue(app.sd).completed # <<>>
    BY <1>1 DEF TranMove, Queue
  <2>2. PICK t \in Sd : tran[t].pc = "completed" /\ ctx[t].listen_sd = app.sd
    BY <2>1 DEF Sound, AcceptWoken
  <2>3. tran'[t].pc = "completed" /\ ctx'[t].listen_sd = app'.sd
    BY <1>1, <2>2 DEF TranMove
  <2> QED BY <2>3
<1>12. OthersWoken'
  <2>1. (app.pc = "asleep_conn" => ctx[app.sd].blocking \/ tran[app.sd].pc = "signal")'
    <3> SUFFICES ASSUME app'.pc = "asleep_conn"
                 PROVE  ctx'[app'.sd].blocking \/ tran'[app'.sd].pc = "signal"
      OBVIOUS
    <3>1. app.pc = "asleep_conn" /\ app.sd \in Sd
      BY <1>1 DEF Sound, ApplicationSound
    <3> QED BY <1>1, <3>1 DEF TranMove, Sound, OthersWoken
  <2>2. (app.pc = "asleep_read" => ctx[app.sd].app_send = <<>> \/ tran[app.sd].pc = "handed")'
    <3> SUFFICES ASSUME app'.pc = "asleep_read"
                 PROVE  ctx'[app'.sd].app_send = <<>> \/ tran'[app'.sd].pc = "handed"
      OBVIOUS
    <3>1. app.pc = "asleep_read" /\ app.sd \in Sd
      BY <1>1 DEF Sound, ApplicationSound
    <3> QED BY <1>1, <3>1 DEF TranMove, Sound, OthersWoken
  <2>3. ASSUME NEW t \in Sd
        PROVE  (/\ tran[t].pc = "asleep_syn" => ~NetworkEvent(t) \/ Broadcasting(t)
                /\ tran[t].pc = "asleep_loop" => ~AnyEvent(t) \/ Broadcasting(t))'
    <3>1. CASE t = s
      BY <3>1 DEF TranMove
    <3>2. CASE t # s
      <4>1. tran'[t] = tran[t] /\ ctx'[t] = ctx[t]
        BY <3>2 DEF TranMove
      <4>2. (NetworkEvent(t)' <=> NetworkEvent(t)) /\ (AnyEvent(t)' <=> AnyEvent(t))
        BY <4>1 DEF NetworkEvent, AnyEvent, CloseReady
      <4>3. Broadcasting(t) => Broadcasting(t)'
        BY <1>1 DEF Broadcasting, TranMove
      <4> QED BY <4>1, <4>2, <4>3 DEF Sound, OthersWoken
    <3> QED BY <3>1, <3>2
  <2> QED BY <2>1, <2>2, <2>3 DEF OthersWoken
<1>13. CloseInHand'
  <2> SUFFICES ASSUME NEW t \in Sd PROVE CloseInHand!(t)'
    BY DEF CloseInHand
  <2>1. app.pc \in Closing \union {"passive", "drain"} => app'.pc = app.pc
    BY <1>1 DEF Closing
  <2>2. count' = count /\ CloseInHand!(t)
    BY DEF TranMove, Sound, CloseInHand
  <2>3. CASE t # s
    BY <1>1, <2>1, <2>2, <2>3 DEF TranMove
  <2>4. CASE t = s
    <3>1. /\ ctx'[s].app_recv <= ctx[s].app_recv
          /\ ctx'[s].close_requested \/ tran'[s].fin => ctx[s].close_requested \/ tran[s].fin
          /\ tran'[s].fin => ctx'[s].app_recv = 0
      BY DEF TranMove
    <3>2. ctx'[s].app_recv \in Nat /\ ctx[s].app_recv \in Nat /\ count.writes \in Nat
      <4>1. ctx'[s] \in Context /\ ctx[s] \in Context /\ count.writes \in 0 .. MaxWrites
        BY DEF TypeInv
      <4>2. \A c \in Context : c.app_recv \in Nat
        BY DEF Context
      <4>3. count.writes \in Nat
        BY <4>1, MysockAssumption
      <4> QED BY <4>1, <4>2, <4>3
    <3> QED BY <1>1, <2>1, <2>2, <2>4, <3>1, <3>2
  <2> QED BY <2>3, <2>4
<1> QED BY <1>8, <1>9, <1>10, <1>11, <1>12, <1>13 DEF Sound, QueuesSound

LEMMA AfterEventFields ==
    ASSUME TypeInv, NEW s \in Sd
    PROVE  LET c == AfterEvent(s) IN
           /\ c.live = ctx[s].live /\ c.listening = ctx[s].listening
           /\ c.active = ctx[s].active /\ c.listen_sd = ctx[s].listen_sd
           /\ c.peer = ctx[s].peer /\ c.failed = ctx[s].failed
           /\ c.app_recv = ctx[s].app_recv /\ c.app_send = ctx[s].app_send
           /\ c.blocking = ctx[s].blocking /\ c.pushed = ctx[s].pushed
           /\ c.close_requested => ctx[s].close_requested
<1>1. ctx[s] \in Context
  BY DEF TypeInv
<1> QED BY <1>1 DEF AfterEvent, Context

SameAfter(s) ==
    /\ AfterEvent(s).live = ctx[s].live /\ AfterEvent(s).listening = ctx[s].listening
    /\ AfterEvent(s).active = ctx[s].active
    /\ AfterEvent(s).listen_sd = ctx[s].listen_sd
    /\ AfterEvent(s).peer = ctx[s].peer /\ AfterEvent(s).failed = ctx[s].failed

(* A step that changes nothing the frame is about, but the thread's pc. *)
SameBook(s) ==
    /\ ctx'[s].live = ctx[s].live /\ ctx'[s].listening = ctx[s].listening
    /\ ctx'[s].active = ctx[s].active /\ ctx'[s].listen_sd = ctx[s].listen_sd
    /\ ctx'[s].peer = ctx[s].peer /\ ctx'[s].failed = ctx[s].failed

(* A signal wakes the application if it sleeps on that condition. *)
LEMMA Signalled ==
    ASSUME TypeInv, NEW from, NEW to, NEW P \in BOOLEAN, from # to,
           app' = [app EXCEPT !.pc = IF @ = from /\ P THEN to ELSE @]
    PROVE  /\ app' = app \/ Woken(from, to)
           /\ app'.pc = from => ~P
           /\ app'.pc # to => app' = app
<1>1. app \in AppThread
  BY DEF TypeInv
<1>2. CASE app.pc = from /\ P
  <2>1. app' = [app EXCEPT !.pc = to]
    BY <1>2
  <2> QED BY <1>1, <1>2, <2>1 DEF Woken, AppThread
<1>3. CASE ~(app.pc = from /\ P)
  <2>1. app' = [app EXCEPT !.pc = app.pc]
    BY <1>3
  <2>2. app' = app
    BY <1>1, <2>1 DEF AppThread
  <2> QED BY <1>3, <2>2
<1> QED BY <1>2, <1>3

LEMMA TranMoves ==
    ASSUME TypeInv, Sound, NEW s \in Sd, TranStep(s), ~PassiveComplete(s)
    PROVE  TranMove(s)
<1>1. /\ ctx \in [Sd -> Context] /\ ctx[s] \in Context /\ ctx[s].app_recv \in Nat
      /\ tran \in [Sd -> TranThread]
      /\ DOMAIN app = {"pc", "sd", "outer", "k", "new", "len", "own"}
  BY DEF TypeInv, Context, AppThread
<1>2. /\ tran[s].pc = "connect" => ctx[s].active
      /\ tran[s].pc \in {"complete", "found"} => ~ctx[s].active
      /\ ctx[s].failed => ctx[s].active
      /\ tran[s].fin => ctx[s].app_recv = 0
  BY DEF Sound, ContextsSound, CloseInHand
<1>3. ASSUME SendOwnSyn(s) PROVE TranMove(s)
  <2>1. PICK to \in {"yes", "stuck"} :
          /\ ctx' = [ctx EXCEPT ![s] = [[ctx[s] EXCEPT !.failed = (to = "stuck")]
                                           EXCEPT !.connected = to]]
          /\ tran' = [tran EXCEPT ![s].pc = IF to = "yes" THEN "shake" ELSE "unblock"]
    BY <1>3 DEF SendOwnSyn, TcpConnect, TranGoto
  <2>2. UNCHANGED <<listen_table, readers, writer, app, recv, count>>
        /\ tran[s].pc = "connect"
    BY <1>3 DEF SendOwnSyn, TranAt
  <2>3. /\ \A t \in Sd : t # s => ctx'[t] = ctx[t] /\ tran'[t] = tran[t]
        /\ tran'[s].pc \in {"shake", "unblock"} /\ tran'[s].fin = tran[s].fin
    BY <1>1, <2>1 DEF TranThread
  <2>4. /\ ctx'[s].live = ctx[s].live /\ ctx'[s].listening = ctx[s].listening
        /\ ctx'[s].active = ctx[s].active /\ ctx'[s].listen_sd = ctx[s].listen_sd
        /\ ctx'[s].peer = ctx[s].peer /\ ctx'[s].app_recv = ctx[s].app_recv
        /\ ctx'[s].blocking = ctx[s].blocking /\ ctx'[s].app_send = ctx[s].app_send
        /\ ctx'[s].close_requested = ctx[s].close_requested
    BY <1>1, <2>1 DEF Context
  <2>5. /\ app'.pc = "asleep_conn" /\ app.sd = s => ctx[s].blocking \/ tran[s].pc = "signal"
        /\ app'.pc = "asleep_read" /\ app.sd = s =>
             ctx[s].app_send = <<>> \/ tran[s].pc = "handed"
    BY <2>2 DEF Sound, OthersWoken
  <2> QED BY <1>1, <1>2, <2>2, <2>3, <2>4, <2>5
          DEF TranMove, AppWoken, Established, Handshaking
<1>4. ASSUME AwaitSyn(s) \/ Handshake(s) PROVE TranMove(s)
  <2>1. PICK pc \in {"shake", "synwait", "asleep_syn", "unblock"} :
          /\ tran' = [tran EXCEPT ![s].pc = pc]
          /\ ctx' = ctx \/ ctx' = [ctx EXCEPT ![s] = AfterEvent(s)]
          /\ pc = "asleep_syn" => ~NetworkEvent(s) /\ ctx' = ctx
    BY <1>4 DEF AwaitSyn, Handshake, TranGoto
  <2>2. UNCHANGED <<listen_table, readers, writer, app, recv, count>>
        /\ tran[s].pc \in {"synwait", "shake"}
    BY <1>4 DEF AwaitSyn, Handshake, TranAt
  <2>3. /\ \A t \in Sd : t # s => ctx'[t] = ctx[t] /\ tran'[t] = tran[t]
        /\ tran'[s].pc = pc /\ tran'[s].fin = tran[s].fin
    BY <1>1, <2>1 DEF TranThread
  <2>4. /\ SameBook(s) /\ ctx'[s].app_recv = ctx[s].app_recv
        /\ ctx'[s].blocking = ctx[s].blocking /\ ctx'[s].app_send = ctx[s].app_send
        /\ ctx'[s].close_requested => ctx[s].close_requested
    BY <1>1, <2>1, AfterEventFields DEF SameBook
  <2>5. /\ app'.pc = "asleep_conn" /\ app.sd = s => ctx[s].blocking
        /\ app'.pc = "asleep_read" /\ app.sd = s => ctx[s].app_send = <<>>
    BY <2>2 DEF Sound, OthersWoken
  <2>6. pc = "asleep_syn" => ~NetworkEvent(s)'
    BY <2>1 DEF NetworkEvent, CloseReady
  <2> QED BY <1>1, <1>2, <2>2, <2>3, <2>4, <2>5, <2>6
          DEF TranMove, SameBook, AppWoken, Established, Handshaking
<1>5. ASSUME Unblock(s) PROVE TranMove(s)
  <2>1. /\ UNCHANGED <<listen_table, readers, writer, app, recv, count>>
        /\ tran[s].pc = "unblock"
        /\ ctx' = [ctx EXCEPT ![s].blocking = FALSE]
        /\ tran' = [tran EXCEPT ![s].pc = "signal"]
    BY <1>5 DEF Unblock, TranAt, TranGoto
  <2>2. /\ \A t \in Sd : t # s => ctx'[t] = ctx[t] /\ tran'[t] = tran[t]
        /\ tran'[s].pc = "signal" /\ tran'[s].fin = tran[s].fin
    BY <1>1, <2>1 DEF TranThread
  <2>3. /\ SameBook(s) /\ ctx'[s].app_recv = ctx[s].app_recv
        /\ ctx'[s].app_send = ctx[s].app_send
        /\ ctx'[s].close_requested = ctx[s].close_requested
    BY <1>1, <2>1 DEF SameBook, Context
  <2>4. app'.pc = "asleep_read" /\ app.sd = s => ctx[s].app_send = <<>>
    BY <2>1 DEF Sound, OthersWoken
  <2> QED BY <1>1, <1>2, <2>1, <2>2, <2>3, <2>4
          DEF TranMove, SameBook, AppWoken, Established, Handshaking
<1>6. ASSUME SignalConnect(s) PROVE TranMove(s)
  <2>1. PICK pc \in {"dead", "loop", "complete"} :
          /\ tran' = [tran EXCEPT ![s].pc = pc]
          /\ pc = "complete" <=> ~ctx[s].active
    BY <1>6 DEF SignalConnect, ControlLoop, TranGoto
  <2>2. /\ UNCHANGED <<ctx, listen_table, readers, writer, recv, count>>
        /\ tran[s].pc = "signal"
        /\ app' = [app EXCEPT !.pc =
                     IF @ = "asleep_conn" /\ app.sd = s THEN "waitconn" ELSE @]
    BY <1>6 DEF SignalConnect, TranAt
  <2>3. /\ \A t \in Sd : t # s => tran'[t] = tran[t]
        /\ tran'[s].pc = pc /\ tran'[s].fin = tran[s].fin
    BY <1>1, <2>1 DEF TranThread
  <2>4. /\ AppWoken
        /\ ~(app'.pc = "asleep_conn" /\ app.sd = s)
        /\ app'.pc = "asleep_read" => app.pc = "asleep_read"
    <3>1. /\ app' = app \/ Woken("asleep_conn", "waitconn")
          /\ app'.pc = "asleep_conn" => app.sd # s
          /\ app'.pc # "waitconn" => app' = app
      BY <2>2, Signalled
    <3> QED BY <3>1 DEF AppWoken
  <2>5. app'.pc = "asleep_read" /\ app.sd = s => ctx[s].app_send = <<>>
    BY <2>2, <2>4 DEF Sound, OthersWoken
  <2> QED BY <1>1, <1>2, <2>1, <2>2, <2>3, <2>4, <2>5
          DEF TranMove, Established, Handshaking
<1>7. ASSUME SignalAccept(s) PROVE TranMove(s)
  <2>1. PICK pc \in {"dead", "loop"} : tran' = [tran EXCEPT ![s].pc = pc]
    BY <1>7 DEF SignalAccept, ControlLoop, TranGoto
  <2>2. /\ UNCHANGED <<ctx, listen_table, writer, recv, count>>
        /\ tran[s].pc = "completed" /\ readers' = readers \ {Tran(s)}
        /\ app' = IF app.sd = ctx[s].listen_sd THEN WakeAccept(app) ELSE app
    BY <1>7 DEF SignalAccept, TranAt
  <2>3. /\ \A t \in Sd : t # s => tran'[t] = tran[t]
        /\ tran'[s].pc = pc /\ tran'[s].fin = tran[s].fin
    BY <1>1, <2>1 DEF TranThread
  <2>4. /\ AppWoken
        /\ app.sd = ctx[s].listen_sd => app'.pc # "asleep_accept"
        /\ app'.pc \in {"asleep_read", "asleep_conn"} => app' = app
    <3>1. ASSUME app.sd = ctx[s].listen_sd
          PROVE  /\ app' = app \/ Woken("asleep_accept", "accept")
                 /\ app'.pc # "asleep_accept"
                 /\ app'.pc # "accept" => app' = app
      <4>1. app' = [app EXCEPT !.pc = IF @ = "asleep_accept" /\ TRUE THEN "accept" ELSE @]
        BY <2>2, <3>1 DEF WakeAccept
      <4> QED BY <4>1, Signalled
    <3> QED BY <2>2, <3>1 DEF AppWoken
  <2>5. /\ app'.pc = "asleep_conn" /\ app.sd = s => ctx[s].blocking
        /\ app'.pc = "asleep_read" /\ app.sd = s => ctx[s].app_send = <<>>
    BY <2>2, <2>4 DEF Sound, OthersWoken
  <2> QED BY <1>1, <1>2, <2>1, <2>2, <2>3, <2>4, <2>5
          DEF TranMove, Established, Handshaking
<1>8. ASSUME LoopEvents(s) PROVE TranMove(s)
  <2> DEFINE c == AfterEvent(s)
             in == IF ctx[s].network_recv = <<>> THEN "none"
                   ELSE Head(ctx[s].network_recv)
             up == CASE in = "data" -> <<Data>> [] in = "fin" -> <<EofPacket>>
                     [] OTHER -> <<>>
             fin == tran[s].fin \/ CloseReady(s)
             peerfin == tran[s].peerfin \/ in = "fin"
             n == IF c.app_recv > 0 THEN c.app_recv - 1 ELSE c.app_recv
             bytes == IF in = "data" THEN c.pushed \o Data ELSE c.pushed
             pc == IF up # <<>> THEN "handed"
                   ELSE IF fin /\ peerfin THEN "exit" ELSE "loop"
  <2>1. /\ ctx' = [ctx EXCEPT ![s] = [c EXCEPT !.app_recv = n,
                       !.app_send = c.app_send \o up, !.pushed = bytes]]
        /\ tran' = [tran EXCEPT ![s] = [pc |-> pc, fin |-> fin, peerfin |-> peerfin]]
        /\ UNCHANGED <<listen_table, readers, writer, app, recv, count>>
        /\ tran[s].pc = "loop"
    BY <1>8 DEF LoopEvents, TranAt
  <2>2. /\ c \in Context /\ SameAfter(s)
        /\ c.app_recv = ctx[s].app_recv /\ c.app_send = ctx[s].app_send
        /\ c.blocking = ctx[s].blocking
        /\ c.close_requested => ctx[s].close_requested
    BY AfterEventType, AfterEventFields DEF SameAfter
  <2>3. /\ up = <<>> => c.app_send \o up = c.app_send
        /\ up # <<>> => pc = "handed"
        /\ pc \in {"handed", "exit", "loop"}
        /\ n <= ctx[s].app_recv /\ (ctx[s].app_recv = 0 => n = 0)
        /\ fin => tran[s].fin \/ (ctx[s].close_requested /\ ctx[s].app_recv = 0)
    <3>1. c.app_send \in Seq(Seq(Int))
      BY <2>2 DEF Context
    <3>2. c.app_send \o <<>> = c.app_send
      BY <3>1, ConcatEmptySeq
    <3>3. n <= ctx[s].app_recv /\ (ctx[s].app_recv = 0 => n = 0)
      BY <1>1, <2>2
    <3> QED BY <3>2, <3>3 DEF CloseReady
  <2> HIDE DEF c, in, up, fin, peerfin, n, bytes, pc
  <2>4. /\ \A t \in Sd : t # s => ctx'[t] = ctx[t] /\ tran'[t] = tran[t]
        /\ tran'[s].pc = pc /\ tran'[s].fin = fin
    BY <1>1, <2>1
  <2>5. /\ ctx'[s].live = c.live /\ ctx'[s].listening = c.listening
        /\ ctx'[s].active = c.active /\ ctx'[s].listen_sd = c.listen_sd
        /\ ctx'[s].peer = c.peer /\ ctx'[s].failed = c.failed
        /\ ctx'[s].app_recv = n /\ ctx'[s].blocking = c.blocking
        /\ ctx'[s].app_send = c.app_send \o up
        /\ ctx'[s].close_requested = c.close_requested
    BY <1>1, <2>1, <2>2 DEF Context
  <2>6. SameBook(s)
    BY <2>2, <2>5 DEF SameBook, SameAfter, c
  <2>7. /\ app'.pc = "asleep_conn" /\ app.sd = s => ctx[s].blocking
        /\ app'.pc = "asleep_read" /\ app.sd = s => ctx[s].app_send = <<>>
    BY <2>1 DEF Sound, OthersWoken
  <2>8. app'.pc = "asleep_read" /\ app.sd = s
          => ctx'[s].app_send = <<>> \/ tran'[s].pc = "handed"
    BY <2>2, <2>3, <2>4, <2>5, <2>7
  <2>9. tran'[s].fin => ctx'[s].app_recv = 0
    BY <1>2, <2>3, <2>4, <2>5
  <2>10. ctx'[s].close_requested \/ tran'[s].fin => ctx[s].close_requested \/ tran[s].fin
    BY <2>2, <2>3, <2>4, <2>5
  <2> QED BY <1>1, <1>2, <2>1, <2>2, <2>3, <2>4, <2>5, <2>6, <2>7, <2>8, <2>9, <2>10
          DEF TranMove, SameBook, AppWoken, Established, Handshaking
<1>9. ASSUME LoopSleep(s) PROVE TranMove(s)
  <2>1. /\ UNCHANGED <<ctx, listen_table, readers, writer, app, recv, count>>
        /\ tran[s].pc = "loop" /\ ~AnyEvent(s)
        /\ tran' = [tran EXCEPT ![s].pc = "asleep_loop"]
    BY <1>9 DEF LoopSleep, TranAt, TranGoto
  <2>2. /\ \A t \in Sd : t # s => tran'[t] = tran[t]
        /\ tran'[s].pc = "asleep_loop" /\ tran'[s].fin = tran[s].fin
    BY <1>1, <2>1 DEF TranThread
  <2>3. /\ app'.pc = "asleep_conn" /\ app.sd = s => ctx[s].blocking
        /\ app'.pc = "asleep_read" /\ app.sd = s => ctx[s].app_send = <<>>
    BY <2>1 DEF Sound, OthersWoken
  <2>4. ~AnyEvent(s)'
    BY <2>1 DEF AnyEvent, NetworkEvent, CloseReady
  <2> QED BY <1>1, <1>2, <2>1, <2>2, <2>3, <2>4
          DEF TranMove, AppWoken, Established, Handshaking
<1>10. ASSUME HandedUp(s) PROVE TranMove(s)
  <2>1. PICK pc \in {"exit", "loop"} : tran' = [tran EXCEPT ![s].pc = pc]
    BY <1>10 DEF HandedUp, TranGoto
  <2>2. /\ UNCHANGED <<ctx, listen_table, readers, writer, recv, count>>
        /\ tran[s].pc = "handed" /\ app' = WakeApp(s)
    BY <1>10 DEF HandedUp, TranAt
  <2>3. /\ \A t \in Sd : t # s => tran'[t] = tran[t]
        /\ tran'[s].pc = pc /\ tran'[s].fin = tran[s].fin
    BY <1>1, <2>1 DEF TranThread
  <2>4. /\ AppWoken
        /\ ~(app'.pc = "asleep_read" /\ app.sd = s)
        /\ app'.pc = "asleep_conn" => app' = app
    <3>1. /\ app' = app \/ Woken("asleep_read", "read")
          /\ app'.pc = "asleep_read" => app.sd # s
          /\ app'.pc # "read" => app' = app
      BY <2>2, Signalled DEF WakeApp
    <3> QED BY <3>1 DEF AppWoken
  <2>5. app'.pc = "asleep_conn" /\ app.sd = s => ctx[s].blocking
    BY <2>2, <2>4 DEF Sound, OthersWoken
  <2> QED BY <1>1, <1>2, <2>1, <2>2, <2>3, <2>4, <2>5
          DEF TranMove, Established, Handshaking
<1>11. ASSUME TransportExit(s) PROVE TranMove(s)
  <2>1. /\ ctx' = [ctx EXCEPT ![s].app_send = Append(@, EofPacket)]
        /\ tran' = [tran EXCEPT ![s].pc = "done"]
        /\ UNCHANGED <<listen_table, readers, writer, recv, count>>
        /\ tran[s].pc = "exit" /\ app' = WakeApp(s)
    BY <1>11 DEF TransportExit, TranAt, TranGoto
  <2>2. /\ \A t \in Sd : t # s => ctx'[t] = ctx[t] /\ tran'[t] = tran[t]
        /\ tran'[s].pc = "done" /\ tran'[s].fin = tran[s].fin
    BY <1>1, <2>1 DEF TranThread
  <2>3. /\ SameBook(s) /\ ctx'[s].app_recv = ctx[s].app_recv
        /\ ctx'[s].blocking = ctx[s].blocking
        /\ ctx'[s].close_requested = ctx[s].close_requested
    BY <1>1, <2>1 DEF SameBook, Context
  <2>4. /\ AppWoken
        /\ ~(app'.pc = "asleep_read" /\ app.sd = s)
        /\ app'.pc = "asleep_conn" => app' = app
    <3>1. /\ app' = app \/ Woken("asleep_read", "read")
          /\ app'.pc = "asleep_read" => app.sd # s
          /\ app'.pc # "read" => app' = app
      BY <2>1, Signalled DEF WakeApp
    <3> QED BY <3>1 DEF AppWoken
  <2>5. app'.pc = "asleep_conn" /\ app.sd = s => ctx[s].blocking
    BY <2>1, <2>4 DEF Sound, OthersWoken
  <2> QED BY <1>1, <1>2, <2>1, <2>2, <2>3, <2>4, <2>5
          DEF TranMove, SameBook, Established, Handshaking
<1>12. ASSUME FindRequest(s) PROVE TranMove(s)
  <2>1. /\ UNCHANGED <<ctx, listen_table, writer, app, recv, count>>
        /\ tran[s].pc = "complete" /\ ~writer
        /\ readers' = readers \union {Tran(s)}
        /\ tran' = [tran EXCEPT ![s].pc = "found"]
    BY <1>12 DEF FindRequest, TranAt, TranGoto
  <2>2. /\ \A t \in Sd : t # s => tran'[t] = tran[t]
        /\ tran'[s].pc = "found" /\ tran'[s].fin = tran[s].fin
    BY <1>1, <2>1 DEF TranThread
  <2>3. /\ app'.pc = "asleep_conn" /\ app.sd = s => ctx[s].blocking
        /\ app'.pc = "asleep_read" /\ app.sd = s => ctx[s].app_send = <<>>
    BY <2>1 DEF Sound, OthersWoken
  <2> QED BY <1>1, <1>2, <2>1, <2>2, <2>3
          DEF TranMove, AppWoken, Established, Handshaking
<1> QED BY <1>3, <1>4, <1>5, <1>6, <1>7, <1>8, <1>9, <1>10, <1>11, <1>12
       DEF TranStep

(* _mysock_passive_connection_complete() queues the slot of a connection   *)
(* that was in its handshake, and so is not in the completed queue yet.    *)
LEMMA PassiveCompletes ==
    ASSUME TypeInv, TypeInv', Sound, Run', NEW s \in Sd, PassiveComplete(s)
    PROVE  Sound'
<1>1. /\ tran[s].pc = "found" /\ ~ConnectionLocked /\ ~writer
      /\ tran' = [tran EXCEPT ![s].pc = "completed"]
      /\ UNCHANGED <<ctx, readers, writer, app, recv, count>>
  BY DEF PassiveComplete, TranAt, TranGoto, outside, Sound, LockSound
<1>2. ~ctx[s].active /\ Pending(s)
  BY <1>1 DEF Sound, ContextsSound, Pending
<1>3. PICK l \in Sd : /\ l = ctx[s].listen_sd
                     /\ \E k \in 1 .. Queue(l).max_len : Holds(l, k, s)
  BY <1>2 DEF Sound, PendingSound
<1> DEFINE hits == OwnSlot(s)
           m == Min(hits)
           done == Queue(l).completed
<1>4. Queue(l).max_len \in Nat /\ hits # {}
  <2>1. Queue(l).max_len \in SlotNo
    BY QueueType
  <2>2. hits # {}
    BY <1>2, OwnSlotFound
  <2> QED BY <2>1, <2>2, MysockAssumption DEF SlotNo
<1>5. m \in hits /\ listen_table' = [listen_table EXCEPT ![l] = Completed(@, m)]
  <2>1. m \in hits
    <3>1. hits \in SUBSET Nat
      BY <1>3, <1>4 DEF OwnSlot, HoldsSd
    <3> QED BY <1>4, <3>1, MinOfNaturals
  <2> QED BY <1>3, <1>4, <2>1 DEF PassiveComplete
<1>6. \A j, k : ~Drained(j, k) /\ ~Wiped(j, k)
  BY <1>1 DEF Drained, Wiped, ConnectionLocked
<1>7. m \in 1 .. Queue(l).max_len /\ Queue(l).slot[m].sd = s /\ s # -1
  <2>1. s # -1
    BY MysockAssumption DEF Sd
  <2> QED BY <1>3, <1>5, <2>1 DEF OwnSlot, HoldsSd
<1> HIDE DEF m, hits
<1>8. listen_table' = [listen_table EXCEPT ![l] = Completed(Queue(l), m)]
  BY <1>5 DEF Queue
<1>9. /\ \A j \in Sd : /\ Queue(j)'.max_len = Queue(j).max_len
                       /\ Queue(j)'.slot = Queue(j).slot
                       /\ j # l => Queue(j)'.completed = Queue(j).completed
      /\ Queue(l)'.completed = Append(done, m)
  <2>1. \A j \in Sd : Queue(j)' = IF j = l THEN Completed(Queue(l), m) ELSE Queue(j)
    BY <1>3, <1>8 DEF Queue, TypeInv
  <2>2. Queue(l) \in ListenQueue
    BY <1>3 DEF TypeInv, Queue
  <2> QED BY <1>3, <2>1, <2>2 DEF Completed, ListenQueue
<1>10. /\ \A t \in Sd : t # s => tran'[t] = tran[t]
       /\ tran'[s].pc = "completed" /\ tran'[s].fin = tran[s].fin
  BY <1>1 DEF TypeInv, TranThread
<1>11. ContextFrame /\ SlotFrame /\ PendingFrame
  BY <1>1, <1>9, <1>10 DEF ContextFrame, SlotFrame, PendingFrame, Pending
<1>12. TranFrame /\ RecvFrame /\ FailedFrame /\ AppWoken
  BY <1>1, <1>2, <1>10 DEF TranFrame, RecvFrame, FailedFrame, AppWoken, Sound, ContextsSound
<1>13. AppFrame /\ ApplicationSound' /\ ClosingSound' /\ ContextsSound'
  BY <1>11, <1>12, OwnersKept
<1>14. EntriesSound' /\ PeersUnique' /\ PendingSound' /\ NewNotPending'
  BY <1>11, <1>13, SlotsKept
<1>15. LockSound'
  <2>1. ASSUME NEW t \in Sd PROVE LockSound!1!(t)'
    BY <1>1, <1>10 DEF Sound, LockSound
  <2>2. (app.pc \in {"accept", "asleep_accept"} \union Accepting => App \in readers)'
    BY <1>1 DEF Sound, LockSound
  <2>3. (writer => readers = {})'
    BY <1>1
  <2> QED BY <2>1, <2>2, <2>3 DEF LockSound
<1>16. CurrentSlot'
  BY <1>1 DEF CurrentSlot, ConnectionLocked, Sound, ApplicationSound
<1>17. ClaimSound'
  BY <1>1, <1>9 DEF Sound, ClaimSound
<1>18. done \in Seq(SlotNo) /\ m \in SlotNo /\ Len(done) \in Nat
       /\ Len(Append(done, m)) = Len(done) + 1
       /\ Append(done, m)[Len(done) + 1] = m
       /\ \A i \in 1 .. Len(done) : Append(done, m)[i] = done[i]
  <2>1. done \in Seq(SlotNo) /\ m \in SlotNo
    BY <1>3, <1>4, <1>7, QueueType, MysockAssumption DEF SlotNo
  <2> QED BY <2>1, AppendProperties
<1>19. \A i \in 1 .. Len(done) : done[i] # m
  <2>1. ASSUME NEW i \in 1 .. Len(done), done[i] = m PROVE FALSE
    <3>1. ~Pending(Queue(l).slot[m].sd)
      BY <1>3, <1>6, <2>1 DEF Sound, CompletedSound
    <3> QED BY <1>2, <1>7, <3>1
  <2> QED BY <2>1
<1>20. CompletedSound'
  <2> SUFFICES ASSUME NEW j \in Sd, NEW i \in 1 .. Len(Queue(j)'.completed)
               PROVE  CompletedSound!(j)!(i)'
    BY DEF CompletedSound
  <2>1. \A a, b : (Entry(a, b)' <=> (b \in 1 .. Queue(a)'.max_len /\ Queue(a)'.slot[b].sd # -1))
                  /\ ~Drained(a, b)'
    BY <1>1 DEF Entry, Drained, Wiped, ConnectionLocked
  <2>2. \A a, b : (Entry(a, b) <=> (b \in 1 .. Queue(a).max_len /\ Queue(a).slot[b].sd # -1))
    BY <1>6 DEF Entry
  <2>3. \A t \in NoSd : Pending(t)' => t = -1 \/ Pending(t)
    BY <1>11 DEF PendingFrame, NoSd
  <2>4. \A b \in 1 .. Queue(j).max_len : Queue(j).slot[b].sd \in NoSd
    BY QueueType
  <2>5. CASE j # l
    <3>1. CompletedSound!(j)!(i)
      BY <1>9, <2>5 DEF Sound, CompletedSound
    <3> QED BY <1>6, <1>9, <2>1, <2>2, <2>3, <2>4, <2>5, <3>1
  <2>6. CASE j = l
    <3>1. i \in 1 .. Len(done) \/ i = Len(done) + 1
      BY <1>9, <1>18, <2>6
    <3>2. CASE i \in 1 .. Len(done)
      <4>1. CompletedSound!(l)!(i)
        BY <1>3, <3>2 DEF Sound, CompletedSound
      <4>2. Queue(j)'.completed[i] = done[i] /\ done[i] # m
        BY <1>9, <1>18, <1>19, <2>6, <3>2
      <4>3. \A b \in 1 .. Len(Queue(j)'.completed) : Queue(j)'.completed[b] = done[i] => b = i
        <5> SUFFICES ASSUME NEW b \in 1 .. Len(Queue(j)'.completed),
                            Queue(j)'.completed[b] = done[i]
                     PROVE  b = i
          OBVIOUS
        <5>1. b \in 1 .. Len(done)
          BY <1>9, <1>18, <2>6, <4>2
        <5>2. done[b] = done[i]
          BY <1>9, <1>18, <2>6, <5>1
        <5> QED BY <4>1, <5>1, <5>2
      <4> QED BY <1>3, <1>6, <1>9, <2>1, <2>2, <2>3, <2>4, <2>6, <4>1, <4>2, <4>3
    <3>3. CASE i = Len(done) + 1
      <4>1. Queue(j)'.completed[i] = m
        BY <1>9, <1>18, <2>6, <3>3
      <4>2. \A b \in 1 .. Len(Queue(j)'.completed) : Queue(j)'.completed[b] = m => b = i
        BY <1>9, <1>18, <1>19, <2>6, <3>3
      <4>3. ~Pending(s)'
        BY <1>10 DEF Pending
      <4> QED BY <1>3, <1>7, <1>9, <2>1, <2>6, <4>1, <4>2, <4>3
    <3> QED BY <3>1, <3>2, <3>3
  <2> QED BY <2>5, <2>6
<1>21. EstablishedKnown'
  <2>1. InCompleted(s)'
    <3>1. Len(done) + 1 \in 1 .. Len(Queue(l)'.completed)
      BY <1>9, <1>18
    <3>2. Queue(l)'.slot[Queue(l)'.completed[Len(done) + 1]].sd = s
      BY <1>3, <1>7, <1>9, <1>18
    <3> QED BY <1>3, <3>1, <3>2 DEF InCompleted
  <2>2. ASSUME NEW t \in Sd, InCompleted(t) PROVE InCompleted(t)'
    <3>0. PICK j \in Sd : \E i \in 1 .. Len(Queue(j).completed) :
            Queue(j).slot[Queue(j).completed[i]].sd = t
      BY <2>2 DEF InCompleted
    <3>1. PICK i \in 1 .. Len(Queue(j).completed) :
            Queue(j).slot[Queue(j).completed[i]].sd = t
      BY <3>0
    <3>2. i \in 1 .. Len(Queue(j)'.completed) /\ Queue(j)'.completed[i] = Queue(j).completed[i]
      BY <1>9, <1>18, <3>1
    <3> QED BY <1>9, <3>1, <3>2 DEF InCompleted
  <2> QED BY <1>1, <1>10, <2>1, <2>2 DEF Sound, EstablishedKnown
<1>22. AcceptWoken'
  <2>1. app.pc = "asleep_accept" /\ app.sd = l => AcceptWoken'
    BY <1>1, <1>3, <1>10 DEF AcceptWoken
  <2>2. ASSUME app.pc = "asleep_accept", app.sd # l PROVE AcceptWoken'
    <3>1. app.sd \in Sd /\ app' = app /\ ctx' = ctx
      BY <1>1, <2>2 DEF Sound, ApplicationSound
    <3>2. Queue(app.sd)'.completed = Queue(app.sd).completed
      BY <1>9, <2>2, <3>1 DEF Queue
    <3>3. \A t \in Sd : tran[t].pc = "completed" => tran'[t].pc = "completed"
      BY <1>10
    <3> QED BY <2>2, <3>1, <3>2, <3>3 DEF Sound, AcceptWoken
  <2> QED BY <1>1, <2>1, <2>2 DEF AcceptWoken
<1>23. OthersWoken'
  <2>1. \A t \in Sd : /\ NetworkEvent(t)' <=> NetworkEvent(t)
                      /\ AnyEvent(t)' <=> AnyEvent(t)
                      /\ Broadcasting(t)' <=> Broadcasting(t)
    BY <1>1 DEF NetworkEvent, AnyEvent, CloseReady, Broadcasting
  <2>2. app.sd \in Sd => /\ tran[app.sd].pc = "signal" => tran'[app.sd].pc = "signal"
                         /\ tran[app.sd].pc = "handed" => tran'[app.sd].pc = "handed"
    BY <1>1, <1>10
  <2>3. app.pc # "idle" => app.sd \in Sd
    BY DEF Sound, ApplicationSound
  <2>4. \A t \in Sd : /\ tran'[t].pc = "asleep_syn" => tran[t].pc = "asleep_syn"
                      /\ tran'[t].pc = "asleep_loop" => tran[t].pc = "asleep_loop"
    BY <1>10
  <2> QED BY <1>1, <2>1, <2>2, <2>3, <2>4 DEF Sound, OthersWoken
<1>24. CloseInHand'
  BY <1>1, <1>10 DEF Sound, CloseInHand
<1> QED BY <1>13, <1>14, <1>15, <1>16, <1>17, <1>20, <1>21, <1>22, <1>23, <1>24 DEF Sound

(* A step of the receive thread of s that makes no connection.  What it    *)
(* hands to a transport thread is followed by a broadcast.                 *)
TranAwake ==
    \A t \in Sd : /\ tran'[t].fin = tran[t].fin
                  /\ \/ tran'[t].pc = tran[t].pc
                     \/ tran[t].pc = "asleep_syn" /\ tran'[t].pc = "synwait"
                     \/ tran[t].pc = "asleep_loop" /\ tran'[t].pc = "loop"

RecvMove(s) ==
    /\ UNCHANGED <<app, writer, count>>
    /\ QueueFrame /\ ContextFrame /\ TranAwake
    /\ \A t \in Sd : /\ ctx'[t].failed = ctx[t].failed
                     /\ ctx'[t].app_recv = ctx[t].app_recv
                     /\ ctx'[t].app_send = ctx[t].app_send
                     /\ ctx'[t].blocking = ctx[t].blocking
                     /\ ctx'[t].close_requested = ctx[t].close_requested
    (* the thread *)
    /\ \A t \in Sd : t # s => recv'[t] = recv[t]
    /\ recv[s].pc \notin {"none", "done"} /\ recv'[s].pc # "none"
    /\ recv'[s].pc \in {"read", "enqueue", "claim", "create", "pass", "passed"}
         => ctx[s].listening /\ recv'[s].peer \in Peer
    /\ recv'[s].pc \in {"pass", "passed"} => recv'[s].fd \in Sd
    /\ recv'[s].pc \in {"claim", "create"} =>
         /\ recv'[s].k \in 1 .. Queue(s).max_len
         /\ Queue(s).slot[recv'[s].k].sd = -1
         /\ \A k \in 1 .. Queue(s).max_len : Queue(s).slot[k].peer # recv'[s].peer
    (* the lock *)
    /\ \/ readers' = readers
       \/ readers' = readers \union {Recv(s)} /\ ~writer
       \/ /\ readers' = readers \ {Recv(s)}
          /\ recv'[s].pc \notin {"claim", "create", "pass", "passed"}
    /\ recv'[s].pc \in {"claim", "create", "pass", "passed"} => Recv(s) \in readers'
    (* who sleeps, and why *)
    /\ \A t \in Sd :
         \/ tran'[t].pc \notin {"asleep_syn", "asleep_loop"}
         \/ Broadcasting(t)'
         \/ ctx'[t] = ctx[t] /\ (Broadcasting(t) => Broadcasting(t)')
         \/ /\ NetworkEvent(t)' <=> NetworkEvent(t)
            /\ AnyEvent(t)' <=> AnyEvent(t)
            /\ Broadcasting(t) => Broadcasting(t)'

LEMMA RecvMoveSound ==
    ASSUME TypeInv, TypeInv', Sound, NEW s \in Sd, RecvMove(s)
    PROVE  Sound'
<1>1. /\ UNCHANGED <<app, writer, count>>
      /\ QueueFrame /\ ContextFrame /\ TranAwake
      /\ app.pc # "idle" => app.sd \in Sd
  BY DEF RecvMove, Sound, ApplicationSound
<1>2. AppWoken /\ HandshakeFrame /\ TranFrame
  BY <1>1 DEF AppWoken, HandshakeFrame, PendingFrame, Pending, Established, TranFrame,
              TranAwake, ContextFrame, Sound, ContextsSound
<1>3. RecvFrame
  BY DEF RecvMove, RecvFrame, Sound, ContextsSound
<1>4. FailedFrame
  BY DEF RecvMove, FailedFrame, Sound, ContextsSound
<1>5. ApplicationSound' /\ ClosingSound' /\ ContextsSound' /\ QueuesSound'
  BY <1>1, <1>2, <1>3, <1>4, BooksKept
<1>6. LockSound'
  <2>1. ASSUME NEW t \in Sd PROVE LockSound!1!(t)'
    BY DEF RecvMove, TranAwake, Sound, LockSound, Recv, Tran
  <2>2. (app.pc \in {"accept", "asleep_accept"} \union Accepting => App \in readers)'
    BY DEF RecvMove, Sound, LockSound, App, Recv
  <2>3. (writer => readers = {})'
    BY DEF RecvMove, Sound, LockSound
  <2> QED BY <2>1, <2>2, <2>3 DEF LockSound
<1>7. ClaimSound'
  <2> SUFFICES ASSUME NEW t \in Sd, recv'[t].pc \in {"claim", "create"}
               PROVE  ClaimSound!(t)'
    BY DEF ClaimSound
  <2>1. Queue(t)'.max_len = Queue(t).max_len /\ Queue(t)'.slot = Queue(t).slot
    BY <1>1 DEF QueueFrame, SlotFrame
  <2>2. /\ recv'[t].k \in 1 .. Queue(t).max_len
        /\ Queue(t).slot[recv'[t].k].sd = -1
        /\ \A k \in 1 .. Queue(t).max_len : Queue(t).slot[k].peer # recv'[t].peer
    BY DEF RecvMove, Sound, ClaimSound
  <2> QED BY <2>1, <2>2
<1>8. AcceptWoken'
  <2> SUFFICES ASSUME app.pc = "asleep_accept" PROVE AcceptWoken'
    BY <1>1 DEF AcceptWoken
  <2>1. app.sd \in Sd /\ app' = app
    BY <1>1
  <2>2. Queue(app.sd)'.completed = Queue(app.sd).completed
    BY <1>1, <2>1 DEF QueueFrame, Queue
  <2>3. \A t \in Sd : /\ tran[t].pc = "completed" => tran'[t].pc = "completed"
                      /\ ctx'[t].listen_sd = ctx[t].listen_sd
    BY <1>1 DEF TranAwake, ContextFrame
  <2> QED BY <2>1, <2>2, <2>3 DEF Sound, AcceptWoken
<1>9. OthersWoken'
  <2>1. \A t \in Sd : /\ ctx'[t].blocking = ctx[t].blocking
                      /\ ctx'[t].app_send = ctx[t].app_send
                      /\ tran[t].pc = "signal" => tran'[t].pc = "signal"
                      /\ tran[t].pc = "handed" => tran'[t].pc = "handed"
    BY DEF RecvMove, TranAwake
  <2>2. ASSUME NEW t \in Sd PROVE OthersWoken!3!(t)'
    <3>1. /\ tran'[t].pc = "asleep_syn" => tran[t].pc = "asleep_syn"
          /\ tran'[t].pc = "asleep_loop" => tran[t].pc = "asleep_loop"
      BY <1>1 DEF TranAwake
    <3>2. ctx'[t] = ctx[t] => /\ NetworkEvent(t)' <=> NetworkEvent(t)
                              /\ AnyEvent(t)' <=> AnyEvent(t)
      BY DEF NetworkEvent, AnyEvent, CloseReady
    <3>3. OthersWoken!3!(t)
      BY DEF Sound, OthersWoken
    <3> QED BY <3>1, <3>2, <3>3 DEF RecvMove
  <2> QED BY <1>1, <2>1, <2>2 DEF Sound, OthersWoken
<1>10. CloseInHand'
  BY DEF RecvMove, TranAwake, Sound, CloseInHand
<1> QED BY <1>5, <1>6, <1>7, <1>8, <1>9, <1>10 DEF Sound, QueuesSound

LEMMA RecvGotoFields ==
    ASSUME TypeInv, NEW s \in Sd, NEW pc, RecvGoto(s, pc)
    PROVE  /\ \A t \in Sd : t # s => recv'[t] = recv[t]
           /\ recv'[s].pc = pc
           /\ recv'[s].peer = recv[s].peer
           /\ recv'[s].k = recv[s].k
           /\ recv'[s].fd = recv[s].fd
BY DEF TypeInv, RecvThread, RecvGoto

LEMMA WakeTranAwake ==
    ASSUME TypeInv, NEW s \in Sd, tran' = WakeTran(s, tran)
    PROVE  /\ TranAwake
           /\ tran'[s].pc \notin {"asleep_syn", "asleep_loop"}
<1>1. tran \in [Sd -> TranThread]
  BY DEF TypeInv
<1>2. \A t \in Sd : tran'[t].fin = tran[t].fin
  BY <1>1 DEF WakeTran, TranThread
<1>3. \A t \in Sd : t # s => tran'[t] = tran[t]
  BY <1>1 DEF WakeTran
<1>4. tran'[s].pc = CASE tran[s].pc = "asleep_syn"  -> "synwait"
                      [] tran[s].pc = "asleep_loop" -> "loop"
                      [] OTHER -> tran[s].pc
  BY <1>1 DEF WakeTran, TranThread
<1> QED BY <1>2, <1>3, <1>4 DEF TranAwake

LEMMA RecvMoves ==
    ASSUME TypeInv, Sound, Run', NEW s \in Sd, RecvStep(s), ~CreateConnection(s)
    PROVE  RecvMove(s)
<1>1. /\ ctx \in [Sd -> Context] /\ recv \in [Sd -> RecvThread]
      /\ tran \in [Sd -> TranThread] /\ listen_table \in [Sd -> ListenQueue]
      /\ recv[s] \in RecvThread /\ ctx[s] \in Context
  BY DEF TypeInv
<1>2. /\ recv[s].pc \in {"read", "enqueue", "claim", "create", "pass", "passed"}
           => ctx[s].listening /\ recv[s].peer \in Peer
      /\ recv[s].pc \in {"pass", "passed"} => recv[s].fd \in Sd
      /\ recv[s].pc \in {"claim", "create", "pass", "passed"} => Recv(s) \in readers
      /\ recv[s].pc \in {"claim", "create"} =>
           /\ recv[s].k \in 1 .. Queue(s).max_len
           /\ Queue(s).slot[recv[s].k].sd = -1
           /\ \A k \in 1 .. Queue(s).max_len : Queue(s).slot[k].peer # recv[s].peer
  BY DEF Sound, ContextsSound, LockSound, ClaimSound
<1>3. listen_table' = listen_table /\ writer' = writer => QueueFrame
  BY DEF QueueFrame, SlotFrame, Queue
<1>4. tran' = tran => TranAwake
  BY DEF TranAwake
<1>5. ctx' = ctx => ContextFrame
  BY DEF ContextFrame
<1>6. ASSUME RecvExit(s) PROVE RecvMove(s)
  <2>1. /\ UNCHANGED <<ctx, listen_table, readers, writer, app, tran, count>>
        /\ recv[s].pc = "poll" /\ RecvGoto(s, "done")
    BY <1>6 DEF RecvExit, RecvAt
  <2>2. \A t \in Sd : Broadcasting(t) => Broadcasting(t)'
    BY <2>1, RecvGotoFields DEF Broadcasting
  <2> QED BY <1>3, <1>4, <1>5, <2>1, <2>2, RecvGotoFields DEF RecvMove
<1>7. ASSUME RecvAccept(s) PROVE RecvMove(s)
  <2>1. /\ UNCHANGED <<listen_table, readers, writer, app, tran, count>>
        /\ recv[s].pc = "poll" /\ ctx[s].listening /\ accq[s] # <<>>
        /\ ctx' = [ctx EXCEPT ![s].new_socket = Head(accq[s])]
        /\ recv' = [recv EXCEPT ![s].pc = "read", ![s].peer = Head(accq[s])]
    BY <1>7 DEF RecvAccept, RecvAt
  <2>2. Head(accq[s]) \in Peer
    BY <2>1 DEF TypeInv
  <2>3. /\ \A t \in Sd : t # s => recv'[t] = recv[t] /\ ctx'[t] = ctx[t]
        /\ recv'[s].pc = "read" /\ recv'[s].peer \in Peer
    BY <1>1, <2>1, <2>2 DEF RecvThread
  <2>4. /\ ctx'[s].live = ctx[s].live /\ ctx'[s].listening = ctx[s].listening
        /\ ctx'[s].active = ctx[s].active /\ ctx'[s].listen_sd = ctx[s].listen_sd
        /\ ctx'[s].peer = ctx[s].peer /\ ctx'[s].failed = ctx[s].failed
        /\ ctx'[s].app_recv = ctx[s].app_recv /\ ctx'[s].app_send = ctx[s].app_send
        /\ ctx'[s].blocking = ctx[s].blocking
        /\ ctx'[s].close_requested = ctx[s].close_requested
        /\ ctx'[s].network_recv = ctx[s].network_recv
    BY <1>1, <2>1 DEF Context
  <2>5. \A t \in Sd : Broadcasting(t) => Broadcasting(t)'
    BY <2>1, <2>3 DEF Broadcasting
  <2>6. \A t \in Sd : /\ NetworkEvent(t)' <=> NetworkEvent(t)
                      /\ AnyEvent(t)' <=> AnyEvent(t)
    BY <2>3, <2>4 DEF NetworkEvent, AnyEvent, CloseReady
  <2>7. ContextFrame
    BY <2>3, <2>4 DEF ContextFrame
  <2> QED BY <1>3, <1>4, <2>1, <2>3, <2>4, <2>5, <2>6, <2>7 DEF RecvMove
<1>8. ASSUME RecvRead(s) PROVE RecvMove(s)
  <2>1. PICK pc \in {"enqueue", "done"} :
          /\ UNCHANGED <<ctx, listen_table, readers, writer, app, tran, count>>
          /\ recv[s].pc = "read" /\ RecvGoto(s, pc)
    BY <1>8 DEF RecvRead, RecvAt
  <2>2. \A t \in Sd : Broadcasting(t) => Broadcasting(t)'
    BY <2>1, RecvGotoFields DEF Broadcasting
  <2> QED BY <1>2, <1>3, <1>4, <1>5, <2>1, <2>2, RecvGotoFields DEF RecvMove
<1>9. ASSUME EnqueueConnection(s) PROVE RecvMove(s)
  <2> DEFINE q == Queue(s)
             drop == Queued(q, recv[s].peer) # {} \/ q.cur_len >= q.max_len
  <2>1. UNCHANGED <<ctx, listen_table, writer, app, tran, count>>
        /\ recv[s].pc = "enqueue" /\ ~writer
    BY <1>9 DEF EnqueueConnection, RecvAt
  <2>2. CASE drop
    <3>1. RecvGoto(s, "poll") /\ readers' = readers
      BY <1>9, <2>2 DEF EnqueueConnection
    <3>2. \A t \in Sd : Broadcasting(t) => Broadcasting(t)'
      BY <2>1, <3>1, RecvGotoFields DEF Broadcasting
    <3> QED BY <1>3, <1>4, <1>5, <2>1, <3>1, <3>2, RecvGotoFields DEF RecvMove
  <2>3. CASE ~drop
    <3>1. /\ readers' = readers \union {Recv(s)}
          /\ recv' = [recv EXCEPT ![s].pc = "claim", ![s].n = q.cur_len + 1,
                                  ![s].k = EmptySlot(q)]
          /\ FreeSlots(q) # {}
      BY <1>9, <2>3 DEF EnqueueConnection, Check, Run
    <3>2. EmptySlot(q) \in 1 .. q.max_len /\ q.slot[EmptySlot(q)].sd = -1
      <4>1. EmptySlot(q) \in 1 .. q.max_len /\ q.slot[EmptySlot(q)].sd < 0
        BY <3>1, EmptySlotType DEF FreeSlots
      <4>2. q.slot[EmptySlot(q)].sd \in NoSd
        BY <4>1, QueueType
      <4> QED BY <4>1, <4>2, MysockAssumption DEF NoSd, Sd
    <3>3. \A k \in 1 .. q.max_len : q.slot[k].peer # recv[s].peer
      BY <2>3 DEF Queued
    <3>4. /\ \A t \in Sd : t # s => recv'[t] = recv[t]
          /\ recv'[s].pc = "claim" /\ recv'[s].peer = recv[s].peer
          /\ recv'[s].k = EmptySlot(q)
      BY <1>1, <3>1 DEF RecvThread
    <3>5. \A t \in Sd : Broadcasting(t) => Broadcasting(t)'
      BY <2>1, <3>4 DEF Broadcasting
    <3> HIDE DEF q, drop
    <3> QED BY <1>2, <1>3, <1>4, <1>5, <2>1, <3>1, <3>2, <3>3, <3>4, <3>5
            DEF RecvMove, q
  <2> QED BY <2>2, <2>3
<1>10. ASSUME ClaimSlot(s) PROVE RecvMove(s)
  <2>1. /\ UNCHANGED <<ctx, readers, writer, app, tran, count>>
        /\ recv[s].pc = "claim"
        /\ listen_table' = [listen_table EXCEPT ![s].cur_len = recv[s].n]
        /\ recv' = [recv EXCEPT ![s].pc = "create",
                                ![s].fd = IF FreeSds = {} THEN -1 ELSE Min(FreeSds)]
    BY <1>10 DEF ClaimSlot, RecvAt
  <2>2. QueueFrame
    BY <1>1, <2>1 DEF QueueFrame, SlotFrame, Queue, ListenQueue
  <2>3. /\ \A t \in Sd : t # s => recv'[t] = recv[t]
        /\ recv'[s].pc = "create" /\ recv'[s].peer = recv[s].peer
        /\ recv'[s].k = recv[s].k
    BY <1>1, <2>1 DEF RecvThread
  <2>4. \A t \in Sd : Broadcasting(t) => Broadcasting(t)'
    BY <2>1, <2>3 DEF Broadcasting
  <2> QED BY <1>2, <1>4, <1>5, <2>1, <2>2, <2>3, <2>4 DEF RecvMove
<1>11. ASSUME NewMysocketFails(s) PROVE RecvMove(s)
  <2> DEFINE k == recv[s].k
             q == Queue(s)
             n == (q.cur_len - 1) % (UINT_MAX + 1)
  <2>1. /\ UNCHANGED <<ctx, writer, app, tran, count>>
        /\ recv[s].pc = "create" /\ readers' = readers \ {Recv(s)}
        /\ listen_table' = [listen_table EXCEPT ![s].slot[k] = NoRequest,
                                                ![s].cur_len = (@ - 1) % (UINT_MAX + 1)]
        /\ RecvGoto(s, "poll")
    BY <1>11 DEF NewMysocketFails, RecvAt
  <2>2. q.slot[k] = NoRequest
    <3>1. q.slot[k].sd = -1 /\ q.slot[k].peer = NoPeer
      BY <1>2, <2>1 DEF Sound, EntriesSound
    <3>2. q.slot[k] \in Request
      BY <1>2, <2>1, QueueType
    <3> QED BY <3>1, <3>2 DEF Request, NoRequest
  <2>3. QueueFrame
    <3>1. \A l \in Sd : l # s => Queue(l)' = Queue(l)
      BY <1>1, <2>1 DEF Queue
    <3>2. Queue(s)' = [[q EXCEPT !.slot[k] = NoRequest] EXCEPT !.cur_len = n]
      BY <1>1, <2>1 DEF Queue
    <3>3. q \in ListenQueue /\ q.slot \in [1 .. q.max_len -> Request]
      BY QueueType DEF QueueOK
    <3>4. [q.slot EXCEPT ![k] = NoRequest] = q.slot
      BY <2>2, <3>3
    <3>5. /\ Queue(s)'.max_len = q.max_len
          /\ Queue(s)'.slot = q.slot
          /\ Queue(s)'.completed = q.completed
      BY <3>2, <3>3, <3>4 DEF ListenQueue
    <3> QED BY <2>1, <3>1, <3>5 DEF QueueFrame, SlotFrame
  <2>4. \A t \in Sd : Broadcasting(t) => Broadcasting(t)'
    BY <2>1, RecvGotoFields DEF Broadcasting
  <2> QED BY <1>4, <1>5, <2>1, <2>3, <2>4, RecvGotoFields DEF RecvMove
<1>12. ASSUME PassSyn(s) PROVE RecvMove(s)
  <2>0. PICK c \in Sd : c = recv[s].fd
    BY <1>2, <1>12 DEF PassSyn, RecvAt
  <2>1. /\ UNCHANGED <<listen_table, readers, writer, app, tran, count>>
        /\ recv[s].pc = "pass" /\ RecvGoto(s, "passed")
        /\ ctx' = [ctx EXCEPT ![c].network_recv = Append(@, "syn")]
    BY <1>12, <2>0 DEF PassSyn, RecvAt
  <2>3. \A t \in Sd : t # c => ctx'[t] = ctx[t]
    BY <1>1, <2>1
  <2>4. /\ ctx'[c].live = ctx[c].live /\ ctx'[c].listening = ctx[c].listening
        /\ ctx'[c].active = ctx[c].active /\ ctx'[c].listen_sd = ctx[c].listen_sd
        /\ ctx'[c].peer = ctx[c].peer /\ ctx'[c].failed = ctx[c].failed
        /\ ctx'[c].app_recv = ctx[c].app_recv /\ ctx'[c].app_send = ctx[c].app_send
        /\ ctx'[c].blocking = ctx[c].blocking
        /\ ctx'[c].close_requested = ctx[c].close_requested
    BY <1>1, <2>1 DEF Context
  <2>5. ContextFrame
    BY <2>3, <2>4 DEF ContextFrame
  <2>6. Broadcasting(c)' /\ \A t \in Sd : Broadcasting(t) => Broadcasting(t)'
    <3>1. Broadcasting(c)'
      BY <2>0, <2>1, RecvGotoFields DEF Broadcasting
    <3>2. \A t \in Sd : Broadcasting(t) => Broadcasting(t)'
      BY <2>0, <2>1, RecvGotoFields DEF Broadcasting
    <3> QED BY <3>1, <3>2
  <2>7. /\ \A t \in Sd : t # s => recv'[t] = recv[t]
        /\ recv'[s].pc = "passed" /\ recv'[s].peer = recv[s].peer
        /\ recv'[s].fd = recv[s].fd
    BY <2>1, RecvGotoFields
  <2>8. \A t \in Sd : /\ ctx'[t].failed = ctx[t].failed
                      /\ ctx'[t].app_recv = ctx[t].app_recv
                      /\ ctx'[t].app_send = ctx[t].app_send
                      /\ ctx'[t].blocking = ctx[t].blocking
                      /\ ctx'[t].close_requested = ctx[t].close_requested
    BY <2>3, <2>4
  <2>9. \A t \in Sd : Broadcasting(t)' \/ (ctx'[t] = ctx[t]
                                         /\ (Broadcasting(t) => Broadcasting(t)'))
    BY <2>3, <2>6
  <2> QED BY <1>2, <1>3, <1>4, <2>1, <2>5, <2>7, <2>8, <2>9 DEF RecvMove
<1>13. ASSUME PassedSyn(s) PROVE RecvMove(s)
  <2> DEFINE c == recv[s].fd
  <2>1. /\ UNCHANGED <<ctx, listen_table, writer, app, count>>
        /\ recv[s].pc = "passed" /\ readers' = readers \ {Recv(s)}
        /\ tran' = WakeTran(c, tran)
        /\ recv' = [recv EXCEPT ![s].pc = "poll", ![s].peer = NoPeer, ![s].k = 0,
                                ![s].n = 0, ![s].fd = -1]
    BY <1>13 DEF PassedSyn, RecvAt
  <2>2. c \in Sd
    BY <1>2, <2>1
  <2>3. TranAwake /\ tran'[c].pc \notin {"asleep_syn", "asleep_loop"}
    BY <2>1, <2>2, WakeTranAwake
  <2>4. (\A t \in Sd : t # s => recv'[t] = recv[t]) /\ recv'[s].pc = "poll"
    BY <1>1, <2>1 DEF RecvThread
  <2>5. \A t \in Sd : t # c /\ Broadcasting(t) => Broadcasting(t)'
    BY <2>1, <2>4 DEF Broadcasting
  <2> HIDE DEF c
  <2> QED BY <1>3, <1>5, <2>1, <2>2, <2>3, <2>4, <2>5 DEF RecvMove
<1>14. ASSUME RecvConnect(s) PROVE RecvMove(s)
  <2>1. PICK to \in {"yes", "stuck"} :
          TcpConnect(s, to, ctx[s]) /\ RecvGoto(s, IF to = "yes" THEN "poll" ELSE "done")
    BY <1>14 DEF RecvConnect
  <2> DEFINE pc == IF to = "yes" THEN "poll" ELSE "done"
  <2>2. /\ UNCHANGED <<listen_table, readers, writer, app, tran, count>>
        /\ recv[s].pc = "poll" /\ RecvGoto(s, pc) /\ pc \in {"poll", "done"}
        /\ ctx' = [ctx EXCEPT ![s].connected = to]
    BY <1>14, <2>1 DEF RecvConnect, RecvAt, TcpConnect
  <2> HIDE DEF pc
  <2>3. \A t \in Sd : t # s => ctx'[t] = ctx[t]
    BY <1>1, <2>2
  <2>4. /\ ctx'[s].live = ctx[s].live /\ ctx'[s].listening = ctx[s].listening
        /\ ctx'[s].active = ctx[s].active /\ ctx'[s].listen_sd = ctx[s].listen_sd
        /\ ctx'[s].peer = ctx[s].peer /\ ctx'[s].failed = ctx[s].failed
        /\ ctx'[s].app_recv = ctx[s].app_recv /\ ctx'[s].app_send = ctx[s].app_send
        /\ ctx'[s].blocking = ctx[s].blocking
        /\ ctx'[s].close_requested = ctx[s].close_requested
        /\ ctx'[s].network_recv = ctx[s].network_recv
    BY <1>1, <2>2 DEF Context
  <2>5. /\ \A t \in Sd : t # s => recv'[t] = recv[t]
        /\ recv'[s].pc \in {"poll", "done"}
    BY <2>2, RecvGotoFields
  <2>6. \A t \in Sd : Broadcasting(t) => Broadcasting(t)'
    BY <2>2, <2>5 DEF Broadcasting
  <2>7. \A t \in Sd : /\ NetworkEvent(t)' <=> NetworkEvent(t)
                      /\ AnyEvent(t)' <=> AnyEvent(t)
    BY <2>3, <2>4 DEF NetworkEvent, AnyEvent, CloseReady
  <2>8. ContextFrame
    BY <2>3, <2>4 DEF ContextFrame
  <2> QED BY <1>3, <1>4, <2>2, <2>3, <2>4, <2>5, <2>6, <2>7, <2>8 DEF RecvMove
<1>15. ASSUME RecvPacket(s) PROVE RecvMove(s)
  <2>1. PICK p, q :
          /\ UNCHANGED <<listen_table, readers, writer, app, tran, count>>
          /\ recv[s].pc = "poll" /\ RecvGoto(s, "queued")
          /\ ctx' = [ctx EXCEPT ![s] = [ctx[s] EXCEPT !.network_recv = p, !.script = q]]
    BY <1>15 DEF RecvPacket, RecvAt
  <2>2. \A t \in Sd : t # s => ctx'[t] = ctx[t]
    BY <1>1, <2>1
  <2>3. /\ ctx'[s].live = ctx[s].live /\ ctx'[s].listening = ctx[s].listening
        /\ ctx'[s].active = ctx[s].active /\ ctx'[s].listen_sd = ctx[s].listen_sd
        /\ ctx'[s].peer = ctx[s].peer /\ ctx'[s].failed = ctx[s].failed
        /\ ctx'[s].app_recv = ctx[s].app_recv /\ ctx'[s].app_send = ctx[s].app_send
        /\ ctx'[s].blocking = ctx[s].blocking
        /\ ctx'[s].close_requested = ctx[s].close_requested
    BY <1>1, <2>1 DEF Context
  <2>4. /\ \A t \in Sd : t # s => recv'[t] = recv[t]
        /\ recv'[s].pc = "queued"
    BY <2>1, RecvGotoFields
  <2>5. Broadcasting(s)' /\ \A t \in Sd : Broadcasting(t) => Broadcasting(t)'
    BY <2>1, <2>4 DEF Broadcasting
  <2>6. ContextFrame
    BY <2>2, <2>3 DEF ContextFrame
  <2> QED BY <1>3, <1>4, <2>1, <2>2, <2>3, <2>4, <2>5, <2>6 DEF RecvMove
<1>16. ASSUME QueuedPacket(s) PROVE RecvMove(s)
  <2>1. /\ UNCHANGED <<ctx, listen_table, readers, writer, app, count>>
        /\ recv[s].pc = "queued" /\ RecvGoto(s, "poll")
        /\ tran' = WakeTran(s, tran)
    BY <1>16 DEF QueuedPacket, RecvAt
  <2>2. TranAwake /\ tran'[s].pc \notin {"asleep_syn", "asleep_loop"}
    BY <2>1, WakeTranAwake
  <2>3. (\A t \in Sd : t # s => recv'[t] = recv[t]) /\ recv'[s].pc = "poll"
    BY <2>1, RecvGotoFields
  <2>4. \A t \in Sd : t # s /\ Broadcasting(t) => Broadcasting(t)'
    BY <2>1, <2>3 DEF Broadcasting
  <2> QED BY <1>3, <1>5, <2>1, <2>2, <2>3, <2>4 DEF RecvMove
<1> QED
  BY <1>6, <1>7, <1>8, <1>9, <1>10, <1>11, <1>12, <1>13, <1>14, <1>15, <1>16 DEF RecvStep

(* A new connection takes a context that nobody uses and the slot that was *)
(* found free.                                                             *)
LEMMA ConnectionCreated ==
    ASSUME TypeInv, TypeInv', Sound, Run', NEW s \in Sd, CreateConnection(s)
    PROVE  Sound'
<1>1. /\ ctx \in [Sd -> Context] /\ recv \in [Sd -> RecvThread]
      /\ tran \in [Sd -> TranThread] /\ listen_table \in [Sd -> ListenQueue]
      /\ recv[s].pc = "create" /\ recv[s].fd # -1 /\ recv[s].fd \in NoSd
  BY DEF TypeInv, CreateConnection, RecvAt, RecvThread
<1>2. PICK c \in Sd : c = recv[s].fd
  BY <1>1 DEF NoSd
<1>3. ~ctx[c].live
  BY <1>2 DEF CreateConnection, Run
<1>0. PICK p, k : p = recv[s].peer /\ k = recv[s].k
  OBVIOUS
<1> DEFINE new == [FreshContext EXCEPT !.live = TRUE, !.listen_sd = s, !.peer = p,
                       !.connected = "yes", !.script = Script(FALSE)]
<1>4. /\ ctx' = [ctx EXCEPT ![c] = new, ![s].new_socket = NoPeer]
      /\ listen_table' = [listen_table EXCEPT ![s].slot[k] = [sd |-> c, peer |-> p]]
      /\ tran' = [tran EXCEPT ![c] = [TranNone EXCEPT !.pc = "synwait"]]
      /\ recv' = [recv EXCEPT ![c] = [RecvNone EXCEPT !.pc = "poll"], ![s].pc = "pass"]
      /\ UNCHANGED <<readers, writer, app, count>>
  BY <1>0, <1>2, <1>3 DEF CreateConnection
<1>5. /\ p \in Peer /\ p # NoPeer /\ ctx[s].listening /\ s \in app.own /\ ctx[s].live
      /\ Recv(s) \in readers /\ ~writer /\ s # c
      /\ k \in 1 .. Queue(s).max_len /\ Queue(s).slot[k].sd = -1
      /\ \A j \in 1 .. Queue(s).max_len : Queue(s).slot[j].peer # p
  BY <1>0, <1>1, <1>3, MysockAssumption DEF Sound, ContextsSound, LockSound, ClaimSound
<1>6. /\ tran[c].pc = "none" /\ recv[c].pc = "none" /\ c \notin app.own
      /\ ~ctx[c].listening /\ Queue(c).max_len = 0
      /\ app.new # c /\ (app.pc # "idle" => app.sd \in app.own /\ app.sd # c)
      /\ app.outer = -1 /\ c # -1
  <2>1. c \notin app.own
    BY <1>3 DEF Sound, ContextsSound
  <2>2. Queue(c).max_len \in Nat
    BY QueueType, MysockAssumption DEF SlotNo
  <2>3. app.outer = -1
    BY <1>5 DEF Sound, ApplicationSound
  <2>4. c # -1
    BY MysockAssumption DEF Sd
  <2>5. app.new # c
    BY <1>3, <2>4 DEF Sound, ApplicationSound
  <2>6. app.pc # "idle" => app.sd \in app.own /\ app.sd # c
    BY <2>1, <2>3 DEF Sound, ApplicationSound, Passive
  <2>7. tran[c].pc = "none" /\ recv[c].pc = "none" /\ ~ctx[c].listening
    BY <1>3, <2>1 DEF Sound, ContextsSound
  <2> QED BY <2>1, <2>2, <2>3, <2>4, <2>5, <2>6, <2>7 DEF Sound, ContextsSound
<1>7. /\ \A t \in Sd : t # c /\ t # s => ctx'[t] = ctx[t]
      /\ ctx'[c] = new
      /\ ctx'[s] = [ctx[s] EXCEPT !.new_socket = NoPeer]
  BY <1>1, <1>4, <1>5
<1>8. \A t \in Sd : t # c =>
        /\ ctx'[t].live = ctx[t].live /\ ctx'[t].listening = ctx[t].listening
        /\ ctx'[t].active = ctx[t].active /\ ctx'[t].listen_sd = ctx[t].listen_sd
        /\ ctx'[t].peer = ctx[t].peer /\ ctx'[t].failed = ctx[t].failed
        /\ ctx'[t].app_recv = ctx[t].app_recv /\ ctx'[t].app_send = ctx[t].app_send
        /\ ctx'[t].blocking = ctx[t].blocking
        /\ ctx'[t].close_requested = ctx[t].close_requested
        /\ ctx'[t].network_recv = ctx[t].network_recv
  <2>1. ctx[s] \in Context
    BY <1>1
  <2>2. /\ ctx'[s].live = ctx[s].live /\ ctx'[s].listening = ctx[s].listening
        /\ ctx'[s].active = ctx[s].active /\ ctx'[s].listen_sd = ctx[s].listen_sd
        /\ ctx'[s].peer = ctx[s].peer /\ ctx'[s].failed = ctx[s].failed
        /\ ctx'[s].app_recv = ctx[s].app_recv /\ ctx'[s].app_send = ctx[s].app_send
        /\ ctx'[s].blocking = ctx[s].blocking
        /\ ctx'[s].close_requested = ctx[s].close_requested
        /\ ctx'[s].network_recv = ctx[s].network_recv
    BY <1>7, <2>1, Zenon DEF Context
  <2> QED BY <1>7, <2>2
<1>9. /\ ctx'[c].live /\ ~ctx'[c].listening /\ ~ctx'[c].active
      /\ ctx'[c].listen_sd = s /\ ctx'[c].peer = p /\ ~ctx'[c].failed
      /\ ctx'[c].app_recv = 0 /\ ~ctx'[c].close_requested
  BY <1>7 DEF FreshContext
<1>10. /\ \A t \in Sd : t # c => tran'[t] = tran[t]
       /\ tran'[c].pc = "synwait" /\ ~tran'[c].fin
  BY <1>1, <1>4 DEF TranNone
<1>11. /\ \A t \in Sd : t # c /\ t # s => recv'[t] = recv[t]
       /\ recv'[c].pc = "poll"
       /\ recv'[s].pc = "pass" /\ recv'[s].peer = p /\ recv'[s].fd = c
  BY <1>0, <1>1, <1>2, <1>4, <1>5 DEF RecvNone, RecvThread
<1>12. /\ \A l \in Sd : /\ Queue(l)'.max_len = Queue(l).max_len
                        /\ Queue(l)'.completed = Queue(l).completed
                        /\ \A j \in 1 .. Queue(l).max_len : l # s \/ j # k =>
                             Queue(l)'.slot[j] = Queue(l).slot[j]
       /\ Queue(s)'.slot[k].sd = c /\ Queue(s)'.slot[k].peer = p
  <2>1. \A l \in Sd : l # s => Queue(l)' = Queue(l)
    BY <1>1, <1>4 DEF Queue
  <2>2. Queue(s)' = [Queue(s) EXCEPT !.slot[k] = [sd |-> c, peer |-> p]]
    BY <1>1, <1>4 DEF Queue
  <2>3. Queue(s) \in ListenQueue /\ Queue(s).slot \in [1 .. Queue(s).max_len -> Request]
    BY QueueType DEF QueueOK
  <2>4. /\ Queue(s)'.max_len = Queue(s).max_len
        /\ Queue(s)'.completed = Queue(s).completed
        /\ Queue(s)'.slot = [Queue(s).slot EXCEPT ![k] = [sd |-> c, peer |-> p]]
    BY <2>2, <2>3 DEF ListenQueue
  <2>5. /\ Queue(s)'.slot[k] = [sd |-> c, peer |-> p]
        /\ \A j \in 1 .. Queue(s).max_len : j # k =>
             Queue(s)'.slot[j] = Queue(s).slot[j]
    BY <1>5, <2>3, <2>4
  <2> SUFFICES /\ \A l \in Sd : <1>12!1!(l)
               /\ Queue(s)'.slot[k].sd = c /\ Queue(s)'.slot[k].peer = p
    OBVIOUS
  <2>6. ASSUME NEW l \in Sd PROVE <1>12!1!(l)
    BY <2>1, <2>4, <2>5
  <2> QED BY <2>5, <2>6
<1> HIDE DEF new
<1>13. \A l, j : /\ ~Drained(l, j) /\ ~Drained(l, j)'
                 /\ Wiped(l, j)' <=> Wiped(l, j)
  BY <1>4, <1>5 DEF Drained, Wiped
<1>14. ~Entry(s, k) /\ ~Wiped(s, k)
  <2>1. ~Wiped(s, k)
    BY <1>5 DEF Sound, EntriesSound
  <2> QED BY <1>5, <2>1 DEF Entry
<1>15. /\ \A l \in Sd : \A j : l # s \/ j # k => (Entry(l, j)' <=> Entry(l, j))
       /\ Holds(s, k, c)'
  <2>1. \A l \in Sd : \A j : l # s \/ j # k => (Entry(l, j)' <=> Entry(l, j))
    BY <1>12, <1>13 DEF Entry
  <2>2. Entry(s, k)'
    BY <1>5, <1>6, <1>12, <1>13, <1>14 DEF Entry
  <2> QED BY <1>12, <2>1, <2>2 DEF Holds
<1>16. \A l \in Sd : \A j : Entry(l, j) =>
         /\ l # s \/ j # k
         /\ Queue(l).slot[j].sd \in Sd /\ Queue(l).slot[j].sd # c
         /\ Entry(l, j)' /\ Queue(l)'.slot[j] = Queue(l).slot[j]
  <2> SUFFICES ASSUME NEW l \in Sd, NEW j, Entry(l, j)
               PROVE  <1>16!(l)!(j)!2
    OBVIOUS
  <2>1. l # s \/ j # k
    BY <1>14
  <2>2. j \in 1 .. Queue(l).max_len /\ Queue(l).slot[j].sd \in NoSd
    BY QueueType DEF Entry
  <2>3. ctx[Queue(l).slot[j].sd].live
    BY <2>2 DEF Sound, EntriesSound
  <2>4. Queue(l).slot[j].sd \in Sd
    BY <2>2 DEF Entry, NoSd
  <2> QED BY <1>3, <1>12, <1>15, <2>1, <2>2, <2>3, <2>4
<1>17. \A t \in Sd : t # c => (Pending(t)' <=> Pending(t))
  BY <1>8, <1>10 DEF Pending
<1>18. \A l \in Sd : Queue(l).max_len \in Nat
  BY QueueType, MysockAssumption DEF SlotNo
<1>19. ApplicationSound'
  <2>1. app.sd \in Sd => Queue(app.sd)'.max_len = Queue(app.sd).max_len
    BY <1>4, <1>12 DEF Queue
  <2>2. app.pc \in Accepting => app.new \in Sd
    BY DEF Sound, ApplicationSound, TypeInv, AppThread, NoSd
  <2>3. app.pc = "backlog" => app.sd # s /\ app.sd # c
    BY <1>1, <1>6 DEF Sound, ApplicationSound
  <2>4. Passive' = Passive
    BY <1>4 DEF Passive
  <2>5. app.pc # "idle" => app.sd \in Sd /\ ctx'[app.sd].listening = ctx[app.sd].listening
    BY <1>6, <1>8 DEF Sound, ApplicationSound
  <2>6. app.pc \in Accepting => ctx'[app.new].live /\ app.new \notin app.own
    BY <1>6, <1>8, <2>2 DEF Sound, ApplicationSound
  <2>7. app.pc = "backlog" => recv'[app.sd].pc = "none"
    BY <1>11, <2>3, <2>5 DEF Sound, ApplicationSound
  <2>8. app' = app /\ ~writer' /\ app.outer = -1
    BY <1>4, <1>5, <1>6
  <2>9. ApplicationSound
    BY DEF Sound
  <2>10. /\ (app.pc # "idle" => Passive \in app.own)'
         /\ (app.pc # "idle" => app.sd \in Sd)'
         /\ (writer <=> (app.pc = "drain" \/ app.outer # -1))'
         /\ (app.pc \in Accepting <=> app.new # -1)'
    BY <1>5, <2>4, <2>8, <2>9 DEF ApplicationSound, Accepting
  <2>11. /\ (app.pc \in Accepting => app.k \in 1 .. Queue(app.sd).max_len)'
         /\ (app.pc = "drain" => app.k \in 1 .. Queue(app.sd).max_len + 1)'
         /\ (app.pc = "backlog" => Queue(app.sd).max_len = 0 /\ recv[app.sd].pc = "none")'
    BY <2>1, <2>5, <2>7, <2>8, <2>9 DEF ApplicationSound, Accepting
  <2>12. (app.pc \in {"backlog", "accept", "asleep_accept", "passive", "drain"}
            \union Accepting => ctx[app.sd].listening)'
    BY <2>5, <2>8, <2>9 DEF ApplicationSound, Accepting
  <2> QED BY <2>6, <2>8, <2>9, <2>10, <2>11, <2>12 DEF ApplicationSound, Accepting
<1>20. ClosingSound'
  <2>1. app.pc \in {"passive", "drain", "free"} => app.sd # s
    BY <1>1 DEF Sound, ClosingSound
  <2>2. app.sd \in Sd => Queue(app.sd)'.max_len = Queue(app.sd).max_len
    BY <1>4, <1>12 DEF Queue
  <2> QED BY <1>4, <1>6, <1>10, <1>11, <2>1, <2>2 DEF Sound, ClosingSound, ApplicationSound
<1>21. ContextsSound'
  <2>1. app'.own \subseteq {t \in Sd : ctx'[t].live}
    <3>1. app' = app /\ app.own \subseteq {t \in Sd : ctx[t].live}
      BY <1>4 DEF Sound, ContextsSound
    <3> QED BY <1>6, <1>8, <3>1
  <2>0. app' = app
    BY <1>4
  <2>2. ASSUME NEW t \in Sd PROVE ContextsSound!2!(t)'
    <3>1. CASE t = c
      BY <1>4, <1>5, <1>6, <1>9, <1>10, <1>11, <1>12, <3>1
    <3>2. CASE t = s
      <4>1. /\ ContextsSound!2!(s) /\ Queue(s)'.max_len = Queue(s).max_len
            /\ tran'[s] = tran[s]
        BY <1>5, <1>10, <1>12 DEF Sound, ContextsSound
      <4>2. /\ ctx'[s].live = ctx[s].live /\ ctx'[s].listening = ctx[s].listening
            /\ ctx'[s].active = ctx[s].active /\ ctx'[s].failed = ctx[s].failed
            /\ ctx'[s].peer = ctx[s].peer
        BY <1>5, <1>8
      <4> QED BY <1>5, <1>11, <2>0, <3>2, <4>1, <4>2
    <3>3. CASE t # c /\ t # s
      <4>1. /\ ContextsSound!2!(t) /\ Queue(t)'.max_len = Queue(t).max_len
            /\ tran'[t] = tran[t] /\ recv'[t] = recv[t]
        BY <1>10, <1>11, <1>12, <3>3 DEF Sound, ContextsSound
      <4>2. /\ ctx'[t].live = ctx[t].live /\ ctx'[t].listening = ctx[t].listening
            /\ ctx'[t].active = ctx[t].active /\ ctx'[t].failed = ctx[t].failed
            /\ ctx'[t].peer = ctx[t].peer
        BY <1>8, <3>3
      <4> QED BY <2>0, <4>1, <4>2
    <3> QED BY <3>1, <3>2, <3>3
  <2> QED BY <2>1, <2>2 DEF ContextsSound
<1>22. LockSound'
  <2>1. ASSUME NEW t \in Sd PROVE LockSound!1!(t)'
    BY <1>4, <1>5, <1>10, <1>11 DEF Sound, LockSound
  <2> QED BY <1>4, <2>1 DEF Sound, LockSound
<1>23. EntriesSound'
  <2> SUFFICES ASSUME NEW l \in Sd, NEW j \in 1 .. Queue(l).max_len
               PROVE  EntriesSound!(l)!(j)'
    BY <1>12 DEF EntriesSound
  <2>1. CASE l = s /\ j = k
    BY <1>4, <1>5, <1>6, <1>9, <1>12, <1>13, <1>14, <2>1
  <2>2. CASE l # s \/ j # k
    <3>1. EntriesSound!(l)!(j)
      BY DEF Sound, EntriesSound
    <3>2. Queue(l)'.slot[j] = Queue(l).slot[j] /\ (Entry(l, j)' <=> Entry(l, j))
      BY <1>12, <1>15, <2>2
    <3>3. Entry(l, j) => Queue(l).slot[j].sd \in Sd /\ Queue(l).slot[j].sd # c
      BY <1>16
    <3>4. Queue(l).slot[j].sd \in NoSd /\ c # -1 /\ ~ctx[c].live
      BY <1>3, <1>6, QueueType
    <3>5. app' = app /\ (Wiped(l, j)' <=> Wiped(l, j)) /\ ~Drained(l, j)'
      BY <1>4, <1>13
    <3>6. Entry(l, j) => LET sd == Queue(l).slot[j].sd IN
            /\ ctx'[sd].live = ctx[sd].live /\ ctx'[sd].listen_sd = ctx[sd].listen_sd
            /\ ctx'[sd].peer = ctx[sd].peer
      BY <1>8, <3>3
    <3> QED BY <3>1, <3>2, <3>3, <3>4, <3>5, <3>6
  <2> QED BY <2>1, <2>2
<1>24. PeersUnique'
  <2> SUFFICES ASSUME NEW l \in Sd, NEW i \in 1 .. Queue(l).max_len,
                      NEW j \in 1 .. Queue(l).max_len,
                      Queue(l)'.slot[i].peer = Queue(l)'.slot[j].peer,
                      Queue(l)'.slot[i].peer # NoPeer
               PROVE  i = j
    BY <1>12 DEF PeersUnique
  <2> QED BY <1>5, <1>12 DEF Sound, PeersUnique
<1>25. CurrentSlot'
  <2>1. ASSUME app.pc = "wipe" PROVE Holds(app.sd, app.k, app.new)'
    <3>1. app.sd \in Sd /\ Holds(app.sd, app.k, app.new)
      BY <2>1 DEF Sound, ApplicationSound, CurrentSlot
    <3>2. Entry(app.sd, app.k)' /\ Queue(app.sd)'.slot[app.k] = Queue(app.sd).slot[app.k]
      BY <1>4, <1>16, <3>1 DEF Holds, Entry, Queue, Drained, Wiped
    <3> QED BY <1>4, <3>1, <3>2 DEF Holds
  <2>2. ASSUME app.pc \in {"wipe", "invalidate"}
        PROVE  (\A i \in 1 .. Len(Queue(app.sd).completed) :
                  Queue(app.sd).completed[i] # app.k)'
    <3>1. app.sd \in Sd
      BY <2>2 DEF Sound, ApplicationSound
    <3>2. Queue(app.sd)'.completed = Queue(app.sd).completed
      BY <1>4, <1>12, <3>1 DEF Queue
    <3> QED BY <1>4, <2>2, <3>2 DEF Sound, CurrentSlot
  <2> QED BY <1>4, <1>6, <2>1, <2>2 DEF CurrentSlot
<1>26. ClaimSound'
  <2> SUFFICES ASSUME NEW l \in Sd, recv'[l].pc \in {"claim", "create"}
               PROVE  ClaimSound!(l)'
    BY DEF ClaimSound
  <2>1. l # s /\ l # c /\ recv'[l] = recv[l]
    BY <1>11
  <2>2. ClaimSound!(l) /\ recv[l].pc \in {"claim", "create"}
    BY <2>1 DEF Sound, ClaimSound
  <2> QED BY <1>12, <2>1, <2>2
<1>27. PendingSound'
  <2> SUFFICES ASSUME NEW t \in Sd, Pending(t)' PROVE PendingSound!(t)'
    BY DEF PendingSound
  <2>1. CASE t = c
    <3>1. ctx'[c].listen_sd = s /\ k \in 1 .. Queue(s)'.max_len /\ Holds(s, k, c)'
      BY <1>5, <1>9, <1>12, <1>15
    <3> QED BY <2>1, <3>1
  <2>2. CASE t # c
    <3>1. PICK l \in Sd : l = ctx[t].listen_sd /\ l = ctx'[t].listen_sd
      BY <1>8, <1>17, <2>2 DEF Sound, PendingSound
    <3>2. PICK j \in 1 .. Queue(l).max_len : Holds(l, j, t)
      BY <1>17, <2>2, <3>1 DEF Sound, PendingSound
    <3>3. Holds(l, j, t)' /\ j \in 1 .. Queue(l)'.max_len
      BY <1>12, <1>16, <3>2 DEF Holds
    <3> QED BY <3>1, <3>3
  <2> QED BY <2>1, <2>2
<1>28. CompletedSound'
  <2> SUFFICES ASSUME NEW l \in Sd, NEW i \in 1 .. Len(Queue(l).completed)
               PROVE  CompletedSound!(l)!(i)'
    BY <1>12 DEF CompletedSound
  <2>1. CompletedSound!(l)!(i)
    BY DEF Sound, CompletedSound
  <2>2. Entry(l, Queue(l).completed[i])
    BY <1>13, <2>1
  <2> QED BY <1>12, <1>13, <1>16, <1>17, <2>1, <2>2
<1>29. NewNotPending'
  <2>1. app.pc \in Accepting => app.new \in Sd
    BY DEF Sound, ApplicationSound, TypeInv, AppThread, NoSd
  <2> QED BY <1>4, <1>6, <1>17, <2>1 DEF Sound, NewNotPending
<1>30. EstablishedKnown'
  <2> SUFFICES ASSUME NEW t \in Sd, ctx'[t].live, ~ctx'[t].active,
                      tran'[t].pc \in Established
               PROVE  t \in app.own \/ app.new = t \/ InCompleted(t)'
    BY <1>4 DEF EstablishedKnown
  <2>1. t # c
    BY <1>10 DEF Established
  <2>2. t \in app.own \/ app.new = t \/ InCompleted(t)
    BY <1>8, <1>10, <2>1 DEF Sound, EstablishedKnown
  <2>3. ASSUME InCompleted(t) PROVE InCompleted(t)'
    <3>1. PICK l \in Sd : \E i \in 1 .. Len(Queue(l).completed) :
            Queue(l).slot[Queue(l).completed[i]].sd = t
      BY <2>3 DEF InCompleted
    <3>2. PICK i \in 1 .. Len(Queue(l).completed) :
            Queue(l).slot[Queue(l).completed[i]].sd = t
      BY <3>1
    <3>3. Entry(l, Queue(l).completed[i])
      BY <1>13 DEF Sound, CompletedSound
    <3> QED BY <1>12, <1>16, <3>2, <3>3 DEF InCompleted
  <2> QED BY <2>2, <2>3
<1>31. AcceptWoken'
  <2> SUFFICES ASSUME app.pc = "asleep_accept" PROVE AcceptWoken'
    BY <1>4 DEF AcceptWoken
  <2>1. app.sd \in Sd /\ app' = app
    BY <1>4 DEF Sound, ApplicationSound
  <2>2. Queue(app.sd)'.completed = Queue(app.sd).completed
    BY <1>12, <2>1 DEF Queue
  <2>3. \A t \in Sd : tran[t].pc = "completed" =>
          tran'[t].pc = "completed" /\ ctx'[t].listen_sd = ctx[t].listen_sd
    BY <1>6, <1>8, <1>10
  <2> QED BY <2>1, <2>2, <2>3 DEF Sound, AcceptWoken
<1>32. OthersWoken'
  <2>1. app.pc # "idle" => app.sd \in Sd /\ app.sd # c
    BY <1>6 DEF Sound, ApplicationSound
  <2>2. ASSUME NEW t \in Sd PROVE OthersWoken!3!(t)'
    <3>1. CASE t = c
      BY <1>10, <3>1
    <3>2. CASE t # c
      <4>1. /\ NetworkEvent(t)' <=> NetworkEvent(t)
            /\ AnyEvent(t)' <=> AnyEvent(t)
        BY <1>8, <3>2 DEF NetworkEvent, AnyEvent, CloseReady
      <4>2. Broadcasting(t) => Broadcasting(t)'
        BY <1>1, <1>4, <1>6, <1>11, <3>2 DEF Broadcasting
      <4> QED BY <1>10, <3>2, <4>1, <4>2 DEF Sound, OthersWoken
    <3> QED BY <3>1, <3>2
  <2>3. app.pc # "idle" => /\ ctx'[app.sd].blocking = ctx[app.sd].blocking
                           /\ ctx'[app.sd].app_send = ctx[app.sd].app_send
                           /\ tran'[app.sd] = tran[app.sd]
    BY <1>8, <1>10, <2>1
  <2>4. app' = app
    BY <1>4
  <2>5. /\ app.pc = "asleep_conn" => ctx[app.sd].blocking \/ tran[app.sd].pc = "signal"
        /\ app.pc = "asleep_read" =>
             ctx[app.sd].app_send = <<>> \/ tran[app.sd].pc = "handed"
    BY DEF Sound, OthersWoken
  <2> QED BY <2>2, <2>3, <2>4, <2>5 DEF OthersWoken
<1>33. CloseInHand'
  <2>1. count.writes \in Nat
    BY MysockAssumption DEF TypeInv
  <2>2. app' = app /\ count' = count
    BY <1>4
  <2> SUFFICES ASSUME NEW t \in Sd PROVE CloseInHand!(t)'
    BY DEF CloseInHand
  <2>3. CASE t = c
    BY <1>9, <1>10, <2>1, <2>2, <2>3
  <2>4. CASE t # c
    <3>1. /\ ctx'[t].app_recv = ctx[t].app_recv
          /\ ctx'[t].close_requested = ctx[t].close_requested
          /\ tran'[t] = tran[t] /\ CloseInHand!(t)
      BY <1>8, <1>10, <2>4 DEF Sound, CloseInHand
    <3> QED BY <2>2, <3>1
  <2> QED BY <2>3, <2>4
<1> QED BY <1>19, <1>20, <1>21, <1>22, <1>23, <1>24, <1>25, <1>26, <1>27, <1>28,
           <1>29, <1>30, <1>31, <1>32, <1>33 DEF Sound

(* What clients do is outside of what the invariant is about.              *)
LEMMA OutsideSteps ==
    ASSUME TypeInv, TypeInv', Sound,
           UNCHANGED <<ctx, listen_table, readers, writer, threads>>,
           count'.writes = count.writes
    PROVE  Sound'
<1>1. UNCHANGED <<ctx, listen_table, readers, writer, app, recv, tran>>
  BY DEF threads
<1>2. ApplicationSound'
  BY <1>1 DEF Sound, ApplicationSound, Passive, Queue
<1>3. ClosingSound'
  BY <1>1 DEF Sound, ClosingSound, Queue
<1>4. ContextsSound'
  BY <1>1 DEF Sound, ContextsSound, Queue
<1>5. LockSound'
  BY <1>1 DEF Sound, LockSound
<1>6. ContextFrame /\ QueueFrame /\ AppFrame /\ HandshakeFrame
  BY <1>1 DEF ContextFrame, QueueFrame, SlotFrame, Queue, AppFrame, HandshakeFrame,
              PendingFrame, Pending
<1>7. ClaimSound'
  BY <1>1 DEF Sound, ClaimSound, Queue
<1>8. AcceptWoken'
  BY <1>1 DEF Sound, AcceptWoken, Queue
<1>9. OthersWoken'
  BY <1>1 DEF Sound, OthersWoken, NetworkEvent, AnyEvent, CloseReady, Broadcasting
<1>10. CloseInHand'
  BY <1>1 DEF Sound, CloseInHand
<1>11. QueuesSound'
  BY <1>6, QueuesKept
<1> QED BY <1>2, <1>3, <1>4, <1>5, <1>7, <1>8, <1>9, <1>10, <1>11 DEF Sound, QueuesSound

LEMMA ClientsSound ==
    ASSUME TypeInv, TypeInv', Sound, Client
    PROVE  Sound'
<1>1. UNCHANGED <<ctx, listen_table, readers, writer, threads>>
  BY DEF Client, TcpArrive, SendSyn, Hangup
<1>2. count'.writes = count.writes
  <2>1. count' = count \/ count' = [count EXCEPT !.arrivals = @ + 1]
    BY DEF Client, TcpArrive, SendSyn, Hangup
  <2> QED BY <2>1 DEF TypeInv
<1> QED BY <1>1, <1>2, OutsideSteps

(* A step of the application that leaves the books alone. *)
AppMove ==
    /\ ContextFrame /\ QueueFrame /\ AppFrame /\ TranAwake
    /\ \A t \in Sd : /\ ctx'[t].failed = ctx[t].failed
                     /\ recv'[t].pc = recv[t].pc /\ recv'[t].peer = recv[t].peer
                     /\ recv'[t].k = recv[t].k /\ recv'[t].fd = recv[t].fd
    /\ \/ readers' = readers
       \/ readers' = readers \union {App} /\ ~writer
    (* the thread *)
    /\ app'.pc \notin {"backlog", "drain"} /\ app.pc # "drain"
    /\ app'.pc # "idle" => /\ app'.sd \in Sd
                           /\ app'.outer = -1 => app'.sd \in app.own
    /\ app.outer # -1 => app'.pc \in Closing
    /\ app'.pc = "store" => app'.len > 0
    /\ app'.pc \in {"accept", "asleep_accept", "passive"} \union Accepting
         => ctx[app'.sd].listening
    /\ app'.pc \in {"accept", "asleep_accept"} \union Accepting => App \in readers'
    /\ app'.pc \in {"joinrecv", "passive", "free"} => tran[app'.sd].pc \in {"none", "done"}
    /\ app'.pc \in {"passive", "free"} => recv[app'.sd].pc \in {"none", "done"}
    /\ app'.pc = "free" => Queue(app'.sd).max_len = 0
    (* who sleeps, and why *)
    /\ app'.pc = "asleep_accept" => Queue(app'.sd).completed = <<>>
    /\ app'.pc = "asleep_conn" => ctx'[app'.sd].blocking
    /\ app'.pc = "asleep_read" => ctx'[app'.sd].app_send = <<>>
    /\ \A t \in Sd :
         \/ tran'[t].pc \notin {"asleep_syn", "asleep_loop"}
         \/ Broadcasting(t)'
         \/ /\ NetworkEvent(t)' <=> NetworkEvent(t)
            /\ AnyEvent(t)' <=> AnyEvent(t)
            /\ Broadcasting(t) => Broadcasting(t)'

LEMMA AppMoveSound ==
    ASSUME TypeInv, TypeInv', Sound, AppMove, CloseInHand'
    PROVE  Sound'
<1>1. /\ ContextFrame /\ QueueFrame /\ AppFrame /\ TranAwake
      /\ app'.own = app.own /\ app'.new = app.new /\ app'.outer = app.outer
      /\ writer' = writer
  BY DEF AppMove, AppFrame, QueueFrame, SlotFrame
<1>2. \A t \in Sd : Queue(t)'.max_len = Queue(t).max_len
  BY <1>1 DEF QueueFrame, SlotFrame
<1>3. /\ app.own \subseteq Sd /\ app.outer \in NoSd /\ app.new \in NoSd
      /\ (app.pc \in Accepting => app.new \in Sd)
  BY DEF TypeInv, AppThread, NoSd, Sound, ApplicationSound
<1>4. app'.pc # "idle" => app'.sd \in Sd /\ Queue(app.sd)'.max_len = Queue(app'.sd).max_len
  BY <1>2 DEF AppMove, Queue
<1>5. ApplicationSound'
  <2>1. ASSUME app'.pc # "idle" PROVE Passive' \in app'.own
    <3>1. CASE app.outer = -1
      BY <1>1, <2>1, <3>1 DEF AppMove, Passive
    <3>2. CASE app.outer # -1
      BY <1>1, <3>2 DEF Passive, Sound, ApplicationSound, Closing
    <3> QED BY <3>1, <3>2
  <2>2. (app.outer # -1 => app.pc \in Closing)' /\ (app.pc # "idle" => app.sd \in Sd)'
    BY <1>1 DEF AppMove
  <2>3. (writer <=> (app.pc = "drain" \/ app.outer # -1))'
    BY <1>1 DEF AppMove, Sound, ApplicationSound
  <2>4. app'.pc \in Accepting <=> app.pc \in Accepting
    BY <1>1 DEF AppFrame, Accepting
  <2>5. (app.pc \in Accepting <=> app.new # -1)'
    BY <1>1, <2>4 DEF Sound, ApplicationSound
  <2>6. ASSUME app'.pc \in Accepting PROVE ctx'[app'.new].live /\ app'.new \notin app'.own
    BY <1>1, <1>3, <2>4, <2>6 DEF ContextFrame, Sound, ApplicationSound
  <2>7. ASSUME app'.pc \in Accepting PROVE (app.k \in 1 .. Queue(app.sd).max_len)'
    <3>1. app'.sd = app.sd /\ app'.k = app.k /\ app.k \in 1 .. Queue(app.sd).max_len
      BY <1>1, <2>4, <2>7 DEF AppFrame, Sound, ApplicationSound
    <3>2. Queue(app.sd)'.max_len = Queue(app'.sd).max_len
      BY <1>4, <2>7 DEF Accepting
    <3> QED BY <3>1, <3>2
  <2>8. (app.pc = "store" => app.len > 0)'
    BY DEF AppMove
  <2>9. app'.pc \notin {"backlog", "drain"}
    BY DEF AppMove
  <2>10. (app.pc \in {"backlog", "accept", "asleep_accept", "passive", "drain"}
            \union Accepting => ctx[app.sd].listening)'
    BY <1>1, <1>4, <2>9 DEF AppMove, ContextFrame, Accepting
  <2>11. ASSUME writer' PROVE ctx'[Passive'].listening
    <3>1. writer /\ app.outer # -1
      BY <1>1, <2>11 DEF AppMove, Sound, ApplicationSound
    <3>2. Passive' = Passive /\ Passive \in Sd
      BY <1>1, <1>3, <3>1 DEF Passive, NoSd
    <3> QED BY <1>1, <3>1, <3>2 DEF ContextFrame, Sound, ApplicationSound
  <2> QED BY <2>1, <2>2, <2>3, <2>5, <2>6, <2>7, <2>8, <2>9, <2>10, <2>11 DEF ApplicationSound
<1>6. ClosingSound'
  <2>1. \A t \in Sd : /\ tran[t].pc \in {"none", "done"} => tran'[t].pc \in {"none", "done"}
                      /\ recv'[t].pc = recv[t].pc
    BY <1>1 DEF AppMove, TranAwake
  <2>2. app'.pc # "drain" /\ (app'.pc = "free" => Queue(app'.sd).max_len = 0)
    BY DEF AppMove
  <2>3. app'.pc = "free" => Queue(app.sd)'.max_len = 0
    BY <1>4, <2>2
  <2>4. (app.outer # -1 => recv[app.outer].pc \in {"none", "done"})'
    BY <1>1, <1>3, <2>1 DEF Sound, ClosingSound, NoSd
  <2>5. /\ (app.pc \in {"joinrecv", "passive", "drain", "free"} =>
              tran[app.sd].pc \in {"none", "done"})'
        /\ (app.pc \in {"passive", "drain", "free"} => recv[app.sd].pc \in {"none", "done"})'
    BY <1>4, <2>1, <2>2 DEF AppMove
  <2> QED BY <2>3, <2>4, <2>5 DEF ClosingSound
<1>7. ContextsSound'
  <2>1. app'.own \subseteq {t \in Sd : ctx'[t].live}
    BY <1>1, <1>3 DEF ContextFrame, Sound, ContextsSound
  <2>2. ASSUME NEW t \in Sd PROVE ContextsSound!2!(t)'
    <3>1. /\ ContextsSound!2!(t) /\ Queue(t)'.max_len = Queue(t).max_len
          /\ ctx'[t].live = ctx[t].live /\ ctx'[t].listening = ctx[t].listening
          /\ ctx'[t].active = ctx[t].active /\ ctx'[t].failed = ctx[t].failed
          /\ ctx'[t].peer = ctx[t].peer
          /\ recv'[t].pc = recv[t].pc /\ recv'[t].peer = recv[t].peer
          /\ recv'[t].fd = recv[t].fd
      BY <1>1, <1>2 DEF AppMove, ContextFrame, Sound, ContextsSound
    <3>2. /\ tran'[t].pc = "none" <=> tran[t].pc = "none"
          /\ tran'[t].pc = "connect" => tran[t].pc = "connect"
          /\ tran'[t].pc \in {"complete", "found"} => tran'[t].pc = tran[t].pc
      BY <1>1 DEF TranAwake
    <3> QED BY <1>1, <3>1, <3>2
  <2> QED BY <2>1, <2>2 DEF ContextsSound
<1>8. LockSound'
  <2>1. ASSUME NEW t \in Sd PROVE LockSound!1!(t)'
    BY <1>1 DEF AppMove, TranAwake, Sound, LockSound
  <2>2. (app.pc \in {"accept", "asleep_accept"} \union Accepting => App \in readers)'
    BY DEF AppMove, App
  <2>3. (writer => readers = {})'
    BY <1>1 DEF AppMove, Sound, LockSound
  <2> QED BY <2>1, <2>2, <2>3 DEF LockSound
<1>9. HandshakeFrame
  BY <1>1 DEF HandshakeFrame, PendingFrame, Pending, Established, TranAwake, ContextFrame
<1>10. QueuesSound'
  BY <1>1, <1>9, QueuesKept
<1>11. ClaimSound'
  <2> SUFFICES ASSUME NEW t \in Sd, recv'[t].pc \in {"claim", "create"}
               PROVE  ClaimSound!(t)'
    BY DEF ClaimSound
  <2>1. Queue(t)'.max_len = Queue(t).max_len /\ Queue(t)'.slot = Queue(t).slot
    BY <1>1 DEF QueueFrame, SlotFrame
  <2>2. recv'[t].pc = recv[t].pc /\ recv'[t].k = recv[t].k /\ recv'[t].peer = recv[t].peer
    BY DEF AppMove
  <2> QED BY <2>1, <2>2 DEF Sound, ClaimSound
<1>12. AcceptWoken'
  <2> SUFFICES ASSUME app'.pc = "asleep_accept" PROVE AcceptWoken'
    BY DEF AcceptWoken
  <2>1. app'.sd \in Sd /\ Queue(app'.sd).completed = <<>>
    BY DEF AppMove
  <2>2. Queue(app.sd)'.completed = <<>>
    BY <1>1, <2>1 DEF QueueFrame, Queue
  <2> QED BY <2>2 DEF AcceptWoken
<1>13. OthersWoken'
  <2>1. /\ app'.pc = "asleep_conn" => ctx'[app'.sd].blocking
        /\ app'.pc = "asleep_read" => ctx'[app'.sd].app_send = <<>>
    BY DEF AppMove
  <2>2. ASSUME NEW t \in Sd PROVE OthersWoken!3!(t)'
    <3>1. /\ tran'[t].pc = "asleep_syn" => tran[t].pc = "asleep_syn"
          /\ tran'[t].pc = "asleep_loop" => tran[t].pc = "asleep_loop"
      BY <1>1 DEF TranAwake
    <3>2. OthersWoken!3!(t)
      BY DEF Sound, OthersWoken
    <3> QED BY <3>1, <3>2 DEF AppMove
  <2> QED BY <2>1, <2>2 DEF OthersWoken
<1> QED BY <1>5, <1>6, <1>7, <1>8, <1>10, <1>11, <1>12, <1>13 DEF Sound, QueuesSound

LEMMA CloseKept ==
    ASSUME TypeInv, Sound, count'.writes = count.writes,
           \A t \in Sd : /\ ctx'[t].app_recv = ctx[t].app_recv
                         /\ ctx'[t].close_requested = ctx[t].close_requested
                         /\ tran'[t].fin = tran[t].fin,
           app.pc \in Closing \union {"passive", "drain"} =>
             /\ app'.pc \in Closing \union {"passive", "drain"}
             /\ app'.sd = app.sd /\ app'.outer = app.outer
    PROVE  CloseInHand'
BY DEF Sound, CloseInHand

(* Outside of myaccept() and myclose() the application holds nothing. *)
LEMMA AppTurn ==
    ASSUME TypeInv, Sound, app.pc \notin Closing \union {"drain"} \union Accepting,
           app'.pc \notin Accepting, writer' = writer,
           app'.own = app.own, app'.new = app.new, app'.outer = app.outer
    PROVE  /\ AppFrame /\ ~writer /\ app.outer = -1 /\ app.new = -1
           /\ app.pc # "idle" => app.sd \in app.own
<1>1. ~writer /\ app.outer = -1 /\ app.new = -1
  BY DEF Sound, ApplicationSound
<1>2. app.pc # "idle" => app.sd \in app.own
  BY <1>1 DEF Sound, ApplicationSound, Passive
<1>3. app.pc \notin {"wipe", "invalidate"} /\ app'.pc \notin {"wipe", "invalidate"}
  BY DEF Accepting
<1> QED BY <1>1, <1>2, <1>3 DEF AppFrame

LEMMA SameQueues ==
    ASSUME listen_table' = listen_table, writer' = writer
    PROVE  QueueFrame
BY DEF QueueFrame, SlotFrame, Queue

LEMMA SameContexts ==
    ASSUME ctx' = ctx
    PROVE  /\ ContextFrame
           /\ \A t \in Sd : /\ NetworkEvent(t)' <=> NetworkEvent(t)
                            /\ AnyEvent(t)' <=> AnyEvent(t)
BY DEF ContextFrame, NetworkEvent, AnyEvent, CloseReady

LEMMA CallMoves ==
    ASSUME TypeInv, TypeInv', Sound, NEW s \in Sd,
           mybind(s) \/ myaccept(s) \/ mywrite(s) \/ myread(s) \/ myclose(s)
    PROVE  Sound'
<1>1. /\ app \in AppThread /\ app.own \subseteq Sd /\ s \in app.own /\ s # -1
      /\ ctx \in [Sd -> Context] /\ ctx[s] \in Context
      /\ app.pc = "idle" /\ ~writer /\ app.outer = -1 /\ app.new = -1
      /\ UNCHANGED <<listen_table, writer, recv, tran>>
  <2>1. /\ s \in app.own /\ app.pc = "idle"
        /\ UNCHANGED <<listen_table, writer, recv, tran>>
    BY DEF mybind, myaccept, mywrite, Usable, myread, myclose, AppAt, threads
  <2>2. /\ app \in AppThread /\ app.own \subseteq Sd /\ ctx \in [Sd -> Context]
    BY DEF TypeInv, AppThread
  <2>3. ~writer /\ app.outer = -1 /\ app.new = -1
    BY <2>1 DEF Sound, ApplicationSound, Closing, Accepting
  <2>4. s # -1
    BY MysockAssumption DEF Sd
  <2> QED BY <2>1, <2>2, <2>3, <2>4
<1>2. QueueFrame /\ TranAwake
  BY <1>1, SameQueues DEF TranAwake
<1>3. /\ \A t \in Sd : ~ctx[t].close_requested /\ ~tran[t].fin
      /\ \A t \in Sd : ctx[t].app_recv <= count.writes
  <2>1. tran \in [Sd -> TranThread]
    BY DEF TypeInv
  <2> QED BY <1>1, <2>1 DEF Sound, CloseInHand, Closing
<1>4. \A t \in Sd : Broadcasting(t) => Broadcasting(t)'
  BY <1>1 DEF Broadcasting
<1>5. ASSUME mybind(s) PROVE Sound'
  <2>1. app' = app /\ readers' = readers /\ count' = count
        /\ ctx' = [ctx EXCEPT ![s].bound = TRUE]
    BY <1>5 DEF mybind, threads
  <2>2. AppFrame
    BY <2>1 DEF AppFrame
  <2>3. \A t \in Sd :
          /\ ctx'[t].live = ctx[t].live /\ ctx'[t].listening = ctx[t].listening
          /\ ctx'[t].active = ctx[t].active /\ ctx'[t].listen_sd = ctx[t].listen_sd
          /\ ctx'[t].peer = ctx[t].peer /\ ctx'[t].failed = ctx[t].failed
          /\ ctx'[t].app_recv = ctx[t].app_recv
          /\ ctx'[t].close_requested = ctx[t].close_requested
          /\ ctx'[t].network_recv = ctx[t].network_recv
    <3>1. \A t \in Sd : t # s => ctx'[t] = ctx[t]
      BY <1>1, <2>1
    <3>2. /\ ctx'[s].live = ctx[s].live /\ ctx'[s].listening = ctx[s].listening
          /\ ctx'[s].active = ctx[s].active /\ ctx'[s].listen_sd = ctx[s].listen_sd
          /\ ctx'[s].peer = ctx[s].peer /\ ctx'[s].failed = ctx[s].failed
          /\ ctx'[s].app_recv = ctx[s].app_recv
          /\ ctx'[s].close_requested = ctx[s].close_requested
          /\ ctx'[s].network_recv = ctx[s].network_recv
      BY <1>1, <2>1 DEF Context
    <3> QED BY <3>1, <3>2
  <2>4. \A t \in Sd : /\ NetworkEvent(t)' <=> NetworkEvent(t)
                      /\ AnyEvent(t)' <=> AnyEvent(t)
    BY <2>3 DEF NetworkEvent, AnyEvent, CloseReady
  <2>5. ContextFrame /\ CloseInHand'
    BY <1>1, <2>1, <2>3, CloseKept DEF ContextFrame
  <2>6. AppMove
    BY <1>1, <1>2, <1>4, <2>1, <2>2, <2>3, <2>4, <2>5 DEF AppMove, Accepting
  <2> QED BY <2>5, <2>6, AppMoveSound
<1>6. ASSUME myaccept(s) PROVE Sound'
  <2>1. /\ app' = [app EXCEPT !.pc = "accept", !.sd = s] /\ ctx[s].listening
        /\ readers' = readers \union {App} /\ count' = count /\ ctx' = ctx
    BY <1>6 DEF myaccept
  <2>2. /\ app'.pc = "accept" /\ app'.sd = s /\ app'.outer = -1
        /\ app'.own = app.own /\ app'.new = app.new
    BY <1>1, <2>1 DEF AppThread
  <2>3. AppFrame
    BY <1>1, <2>2, AppTurn DEF Closing, Accepting
  <2>4. CloseInHand'
    BY <1>1, <2>1, CloseKept DEF Closing
  <2>5. AppMove
    BY <1>1, <1>2, <1>4, <2>1, <2>2, <2>3, SameContexts DEF AppMove, Accepting
  <2> QED BY <2>4, <2>5, AppMoveSound
<1>7. ASSUME myread(s) PROVE Sound'
  <2>1. /\ app' = [app EXCEPT !.pc = "read", !.sd = s]
        /\ readers' = readers /\ count' = count /\ ctx' = ctx
    BY <1>7 DEF myread
  <2>2. /\ app'.pc = "read" /\ app'.sd = s /\ app'.outer = -1
        /\ app'.own = app.own /\ app'.new = app.new
    BY <1>1, <2>1 DEF AppThread
  <2>3. AppFrame
    BY <1>1, <2>2, AppTurn DEF Closing, Accepting
  <2>4. CloseInHand'
    BY <1>1, <2>1, CloseKept DEF Closing
  <2>5. AppMove
    BY <1>1, <1>2, <1>4, <2>1, <2>2, <2>3, SameContexts DEF AppMove, Accepting
  <2> QED BY <2>4, <2>5, AppMoveSound
<1>8. ASSUME mywrite(s) PROVE Sound'
  <2>1. /\ app' = [app EXCEPT !.pc = "wrote", !.sd = s] /\ readers' = readers
        /\ count' = [count EXCEPT !.writes = @ + 1]
        /\ ctx' = [ctx EXCEPT ![s].app_recv = @ + 1]
    BY <1>8 DEF mywrite
  <2>2. /\ app'.pc = "wrote" /\ app'.sd = s /\ app'.outer = -1
        /\ app'.own = app.own /\ app'.new = app.new
    BY <1>1, <2>1 DEF AppThread
  <2>3. AppFrame
    BY <1>1, <2>2, AppTurn DEF Closing, Accepting
  <2>4. \A t \in Sd : t # s => ctx'[t] = ctx[t]
    BY <1>1, <2>1
  <2>5. /\ ctx'[s].live = ctx[s].live /\ ctx'[s].listening = ctx[s].listening
        /\ ctx'[s].active = ctx[s].active /\ ctx'[s].listen_sd = ctx[s].listen_sd
        /\ ctx'[s].peer = ctx[s].peer /\ ctx'[s].failed = ctx[s].failed
        /\ ctx'[s].app_recv = ctx[s].app_recv + 1
        /\ ctx'[s].close_requested = ctx[s].close_requested
    BY <1>1, <2>1 DEF Context
  <2>6. CloseInHand'
    <3>1. count'.writes = count.writes + 1 /\ count.writes \in Nat
      BY <2>1, MysockAssumption DEF TypeInv
    <3>2. \A t \in Sd : ctx[t].app_recv \in Nat
      BY <1>1 DEF Context
    <3>3. \A t \in Sd : ctx'[t].app_recv <= count'.writes /\ ~ctx'[t].close_requested
      BY <1>3, <2>4, <2>5, <3>1, <3>2
    <3> QED BY <1>1, <1>3, <3>3 DEF CloseInHand
  <2>7. ContextFrame
    BY <2>4, <2>5 DEF ContextFrame
  <2>8. \A t \in Sd : \/ Broadcasting(t)'
                      \/ /\ NetworkEvent(t)' <=> NetworkEvent(t)
                         /\ AnyEvent(t)' <=> AnyEvent(t)
    <3>1. Broadcasting(s)'
      BY <2>2 DEF Broadcasting
    <3> QED BY <2>4, <3>1 DEF NetworkEvent, AnyEvent, CloseReady
  <2>9. AppMove
    BY <1>1, <1>2, <1>4, <2>1, <2>2, <2>3, <2>4, <2>5, <2>7, <2>8 DEF AppMove, Accepting
  <2> QED BY <2>6, <2>9, AppMoveSound
<1>9. ASSUME myclose(s) PROVE Sound'
  <2>1. /\ app' = [app EXCEPT !.pc = "closing", !.sd = s, !.outer = -1]
        /\ readers' = readers /\ count' = count
        /\ ctx' = [ctx EXCEPT ![s].close_requested = TRUE]
    BY <1>9 DEF myclose, CloseRequest
  <2>2. /\ app'.pc = "closing" /\ app'.sd = s /\ app'.outer = -1
        /\ app'.own = app.own /\ app'.new = app.new
    BY <1>1, <2>1 DEF AppThread
  <2>3. AppFrame
    BY <1>1, <2>2, AppTurn DEF Closing, Accepting
  <2>4. \A t \in Sd : t # s => ctx'[t] = ctx[t]
    BY <1>1, <2>1
  <2>5. /\ ctx'[s].live = ctx[s].live /\ ctx'[s].listening = ctx[s].listening
        /\ ctx'[s].active = ctx[s].active /\ ctx'[s].listen_sd = ctx[s].listen_sd
        /\ ctx'[s].peer = ctx[s].peer /\ ctx'[s].failed = ctx[s].failed
        /\ ctx'[s].app_recv = ctx[s].app_recv
    BY <1>1, <2>1 DEF Context
  <2>6. CloseInHand'
    BY <1>1, <1>3, <2>1, <2>2, <2>4, <2>5 DEF CloseInHand, Closing
  <2>7. ContextFrame
    BY <2>4, <2>5 DEF ContextFrame
  <2>8. \A t \in Sd : \/ Broadcasting(t)'
                      \/ /\ NetworkEvent(t)' <=> NetworkEvent(t)
                         /\ AnyEvent(t)' <=> AnyEvent(t)
    <3>1. Broadcasting(s)'
      BY <2>2 DEF Broadcasting
    <3> QED BY <2>4, <3>1 DEF NetworkEvent, AnyEvent, CloseReady
  <2>9. AppMove
    BY <1>1, <1>2, <1>4, <2>1, <2>2, <2>3, <2>4, <2>5, <2>7, <2>8
       DEF AppMove, Accepting, Closing
  <2> QED BY <2>6, <2>9, AppMoveSound
<1> QED BY <1>5, <1>6, <1>7, <1>8, <1>9

LEMMA StepMoves ==
    ASSUME TypeInv, TypeInv', Sound, Run',
           \/ WaitForConnection \/ Wrote \/ DequeueBuffer \/ CloseBroadcast
           \/ JoinTransport \/ JoinRecv \/ LoadLen
           \/ DequeueConnection /\ Queue(app.sd).completed = <<>>
    PROVE  Sound'
<1>1. /\ app \in AppThread /\ app.own \subseteq Sd /\ app.sd \in Sd
      /\ ctx \in [Sd -> Context] /\ ctx[app.sd] \in Context
      /\ recv \in [Sd -> RecvThread] /\ tran \in [Sd -> TranThread]
      /\ UNCHANGED <<listen_table, readers, writer, count>>
  <2>1. /\ app.pc # "idle"
        /\ UNCHANGED <<listen_table, readers, writer, count>>
    BY DEF WaitForConnection, Wrote, DequeueBuffer, CloseBroadcast, JoinTransport,
           JoinRecv, LoadLen, DequeueConnection, AppAt
  <2>2. app.sd \in Sd
    BY <2>1 DEF Sound, ApplicationSound
  <2> QED BY <2>1, <2>2 DEF TypeInv, AppThread
<1>2. QueueFrame
  BY <1>1, SameQueues
<1>3. tran' = tran => TranAwake
  BY DEF TranAwake
<1>4. \A pc : app' = [app EXCEPT !.pc = pc] =>
        /\ app'.pc = pc /\ app'.sd = app.sd /\ app'.outer = app.outer
        /\ app'.own = app.own /\ app'.new = app.new /\ app'.k = app.k
  BY <1>1 DEF AppThread
<1>5. app' = [app EXCEPT !.pc = "idle", !.sd = -1] =>
        /\ app'.pc = "idle" /\ app'.sd = -1 /\ app'.outer = app.outer
        /\ app'.own = app.own /\ app'.new = app.new
  BY <1>1 DEF AppThread
<1>6. ASSUME WaitForConnection PROVE Sound'
  <2>1. app.pc = "waitconn" /\ UNCHANGED <<ctx, recv, tran>>
    BY <1>6 DEF WaitForConnection, AppAt
  <2>2. \/ ctx[app.sd].blocking /\ app' = [app EXCEPT !.pc = "asleep_conn"]
        \/ app' = [app EXCEPT !.pc = "idle", !.sd = -1]
    BY <1>6 DEF WaitForConnection, AppGoto
  <2>3. /\ app'.own = app.own /\ app'.new = app.new /\ app'.outer = app.outer
        /\ \/ app'.pc = "asleep_conn" /\ ctx[app.sd].blocking /\ app'.sd = app.sd
           \/ app'.pc = "idle"
    BY <1>4, <1>5, <2>2
  <2>4. AppFrame /\ app.outer = -1 /\ app.sd \in app.own
    BY <1>1, <2>1, <2>3, AppTurn DEF Closing, Accepting
  <2>5. CloseInHand'
    BY <1>1, <2>1, CloseKept DEF Closing
  <2>6. \A t \in Sd : Broadcasting(t) => Broadcasting(t)'
    BY <2>1 DEF Broadcasting
  <2>7. AppMove
    BY <1>1, <1>2, <1>3, <2>1, <2>3, <2>4, <2>6, SameContexts DEF AppMove, Accepting
  <2> QED BY <2>5, <2>7, AppMoveSound
<1>7. ASSUME Wrote PROVE Sound'
  <2>1. /\ app.pc = "wrote" /\ UNCHANGED <<ctx, recv>>
        /\ tran' = WakeTran(app.sd, tran)
        /\ app' = [app EXCEPT !.pc = "idle", !.sd = -1]
    BY <1>7 DEF Wrote, AppAt
  <2>2. TranAwake /\ tran'[app.sd].pc \notin {"asleep_syn", "asleep_loop"}
    BY <1>1, <2>1, WakeTranAwake
  <2>3. AppFrame /\ app.outer = -1
    BY <1>1, <1>5, <2>1, AppTurn DEF Closing, Accepting
  <2>4. CloseInHand'
    BY <1>1, <2>1, <2>2, CloseKept DEF Closing, TranAwake
  <2>5. \A t \in Sd : t # app.sd /\ Broadcasting(t) => Broadcasting(t)'
    BY <2>1 DEF Broadcasting
  <2>6. AppMove
    BY <1>1, <1>2, <1>5, <2>1, <2>2, <2>3, <2>5, SameContexts DEF AppMove, Accepting
  <2> QED BY <2>4, <2>6, AppMoveSound
<1>8. ASSUME DequeueBuffer PROVE Sound'
  <2>1. app.pc = "read" /\ UNCHANGED <<recv, tran>>
    BY <1>8 DEF DequeueBuffer, AppAt
  <2> DEFINE d == Dequeue(ctx[app.sd].app_send, BufLen)
             c == [ctx[app.sd] EXCEPT !.app_send = d.pq,
                     !.got = ctx[app.sd].got \o d.buf, !.eof = (d.buf = <<>>)]
  <2>2. \/ /\ app' = [app EXCEPT !.pc = "asleep_read"] /\ ctx' = ctx
           /\ ctx[app.sd].app_send = <<>>
        \/ /\ app' = [app EXCEPT !.pc = "idle", !.sd = -1]
           /\ ctx' = [ctx EXCEPT ![app.sd] = c]
    <3>1. CASE ctx[app.sd].app_send = <<>>
      BY <1>8, <3>1 DEF DequeueBuffer, AppGoto
    <3>2. CASE ctx[app.sd].app_send # <<>>
      <4>1. /\ app' = [app EXCEPT !.pc = "idle", !.sd = -1]
            /\ ctx' = [ctx EXCEPT ![app.sd].app_send = d.pq,
                                  ![app.sd].got = @ \o d.buf,
                                  ![app.sd].eof = (d.buf = <<>>)]
        BY <1>8, <3>2 DEF DequeueBuffer
      <4> HIDE DEF d
      <4>2. ctx' = [ctx EXCEPT ![app.sd] = c]
        BY <1>1, <4>1
      <4> QED BY <4>1, <4>2
    <3> QED BY <3>1, <3>2
  <2> HIDE DEF d, c
  <2>3. /\ app'.own = app.own /\ app'.new = app.new /\ app'.outer = app.outer
        /\ \/ /\ app'.pc = "asleep_read" /\ app'.sd = app.sd
              /\ ctx'[app.sd].app_send = <<>>
           \/ app'.pc = "idle"
    BY <1>4, <1>5, <2>2
  <2>4. AppFrame /\ app.outer = -1 /\ app.sd \in app.own
    BY <1>1, <2>1, <2>3, AppTurn DEF Closing, Accepting
  <2>5. \A t \in Sd :
          /\ ctx'[t].live = ctx[t].live /\ ctx'[t].listening = ctx[t].listening
          /\ ctx'[t].active = ctx[t].active /\ ctx'[t].listen_sd = ctx[t].listen_sd
          /\ ctx'[t].peer = ctx[t].peer /\ ctx'[t].failed = ctx[t].failed
          /\ ctx'[t].app_recv = ctx[t].app_recv
          /\ ctx'[t].close_requested = ctx[t].close_requested
          /\ ctx'[t].network_recv = ctx[t].network_recv
    <3>1. /\ c.live = ctx[app.sd].live /\ c.listening = ctx[app.sd].listening
          /\ c.active = ctx[app.sd].active /\ c.listen_sd = ctx[app.sd].listen_sd
          /\ c.peer = ctx[app.sd].peer /\ c.failed = ctx[app.sd].failed
          /\ c.app_recv = ctx[app.sd].app_recv
          /\ c.close_requested = ctx[app.sd].close_requested
          /\ c.network_recv = ctx[app.sd].network_recv
      BY <1>1 DEF Context, c
    <3> QED BY <1>1, <2>2, <3>1
  <2>6. \A t \in Sd : /\ NetworkEvent(t)' <=> NetworkEvent(t)
                      /\ AnyEvent(t)' <=> AnyEvent(t)
    BY <2>5 DEF NetworkEvent, AnyEvent, CloseReady
  <2>7. ContextFrame /\ CloseInHand'
    BY <1>1, <2>1, <2>5, CloseKept DEF ContextFrame, Closing
  <2>8. \A t \in Sd : Broadcasting(t) => Broadcasting(t)'
    BY <2>1 DEF Broadcasting
  <2>9. AppMove
    BY <1>1, <1>2, <1>3, <2>1, <2>3, <2>4, <2>5, <2>6, <2>7, <2>8 DEF AppMove, Accepting
  <2> QED BY <2>7, <2>9, AppMoveSound
<1>9. ASSUME LoadLen PROVE Sound'
  <2>1. /\ app.pc = "load" /\ UNCHANGED <<ctx, recv, tran>>
        /\ app' = [app EXCEPT !.pc = "store", !.len = Queue(app.sd).cur_len]
        /\ Queue(app.sd).cur_len > 0
    BY <1>9 DEF LoadLen, AppAt, Check, Run
  <2>2. /\ app'.pc = "store" /\ app'.sd = app.sd /\ app'.outer = app.outer
        /\ app'.own = app.own /\ app'.new = app.new /\ app'.k = app.k /\ app'.len > 0
    BY <1>1, <2>1 DEF AppThread
  <2>3. /\ app.outer = -1 /\ app.sd \in app.own /\ ctx[app.sd].listening
        /\ App \in readers
    BY <2>1 DEF Sound, ApplicationSound, LockSound, Closing, Accepting, Passive
  <2>4. AppFrame
    BY <2>1, <2>2 DEF AppFrame, Accepting
  <2>5. CloseInHand'
    BY <1>1, <2>1, CloseKept DEF Closing
  <2>6. \A t \in Sd : Broadcasting(t) => Broadcasting(t)'
    BY <2>1 DEF Broadcasting
  <2>7. AppMove
    BY <1>1, <1>2, <1>3, <2>1, <2>2, <2>3, <2>4, <2>6, SameContexts DEF AppMove
  <2> QED BY <2>5, <2>7, AppMoveSound
<1>10. ASSUME DequeueConnection, Queue(app.sd).completed = <<>> PROVE Sound'
  <2>1. /\ app.pc = "accept" /\ UNCHANGED <<ctx, recv, tran>>
        /\ app' = [app EXCEPT !.pc = "asleep_accept"]
    BY <1>10 DEF DequeueConnection, AppAt, AppGoto
  <2>2. /\ app.outer = -1 /\ app.sd \in app.own /\ ctx[app.sd].listening
        /\ App \in readers
    BY <2>1 DEF Sound, ApplicationSound, LockSound, Closing, Passive
  <2>3. AppFrame
    BY <1>1, <1>4, <2>1, AppTurn DEF Closing, Accepting
  <2>4. CloseInHand'
    BY <1>1, <2>1, CloseKept DEF Closing
  <2>5. \A t \in Sd : Broadcasting(t) => Broadcasting(t)'
    BY <2>1 DEF Broadcasting
  <2>6. AppMove
    BY <1>1, <1>2, <1>3, <1>4, <1>10, <2>1, <2>2, <2>3, <2>5, SameContexts DEF AppMove, Accepting
  <2> QED BY <2>4, <2>6, AppMoveSound
<1>11. ASSUME CloseBroadcast \/ JoinTransport \/ JoinRecv PROVE Sound'
  <2> DEFINE steps == {<<"closing", "join">>, <<"join", "joinrecv">>,
                       <<"joinrecv", "passive">>, <<"joinrecv", "free">>}
  <2>1. PICK pc : /\ <<app.pc, pc>> \in steps
                  /\ app' = [app EXCEPT !.pc = pc] /\ ctx' = ctx
                  /\ pc = "passive" <=> app.pc = "joinrecv" /\ ctx[app.sd].listening
    <3>1. CASE CloseBroadcast
      BY <3>1 DEF CloseBroadcast, AppAt, AppGoto
    <3>2. CASE JoinTransport
      <4>1. /\ app.pc = "join" /\ ctx' = ctx
            /\ app' = [app EXCEPT !.pc = "joinrecv"]
        BY <3>2 DEF JoinTransport, AppAt, AppGoto
      <4> WITNESS "joinrecv"
      <4> QED BY <4>1
    <3>3. CASE JoinRecv
      <4> DEFINE next == IF ctx[app.sd].listening THEN "passive" ELSE "free"
      <4>1. /\ app.pc = "joinrecv" /\ ctx' = ctx
            /\ app' = [app EXCEPT !.pc = next]
        BY <3>3 DEF JoinRecv, AppAt, AppGoto
      <4>2. /\ <<app.pc, next>> \in steps
            /\ next = "passive" <=> ctx[app.sd].listening
        BY <4>1
      <4> HIDE DEF next
      <4> WITNESS next
      <4> QED BY <4>1, <4>2
    <3> QED BY <1>11, <3>1, <3>2, <3>3
  <2>2. /\ app'.pc = pc /\ app'.sd = app.sd /\ app'.outer = app.outer
        /\ app'.own = app.own /\ app'.new = app.new /\ app'.k = app.k
    BY <1>4, <2>1
  <2>3. /\ app.pc \in Closing /\ app.pc # "free"
        /\ app'.pc \in Closing \union {"passive"}
    BY <2>1, <2>2 DEF Closing
  <2>4. /\ TranAwake
        /\ tran' = tran \/ tran'[app.sd].pc \notin {"asleep_syn", "asleep_loop"}
        /\ app.pc = "closing" \/ tran' = tran
    <3>1. CASE CloseBroadcast
      BY <1>1, <3>1, WakeTranAwake DEF CloseBroadcast, AppAt
    <3>2. CASE JoinTransport \/ JoinRecv
      BY <1>3, <3>2 DEF JoinTransport, JoinRecv
    <3> QED BY <1>11, <3>1, <3>2
  <2>5. \A t \in Sd : /\ recv'[t].pc = recv[t].pc /\ recv'[t].peer = recv[t].peer
                      /\ recv'[t].k = recv[t].k /\ recv'[t].fd = recv[t].fd
    <3>1. recv' = recv \/ recv' = [recv EXCEPT ![app.sd].exit = TRUE]
      BY <1>11 DEF CloseBroadcast, JoinTransport, JoinRecv
    <3> QED BY <1>1, <3>1 DEF RecvThread
  <2>6. AppFrame
    BY <2>2, <2>3 DEF AppFrame, Closing, Accepting
  <2>7. CloseInHand'
    BY <1>1, <2>1, <2>2, <2>3, <2>4, CloseKept DEF TranAwake
  <2>8. \A t \in Sd : t # app.sd \/ (tran' = tran /\ app.pc # "closing") =>
          (Broadcasting(t) => Broadcasting(t)')
    BY <2>1, <2>2, <2>3, <2>5 DEF Broadcasting
  <2>9. ASSUME NEW t \in Sd
        PROVE  \/ tran'[t].pc \notin {"asleep_syn", "asleep_loop"}
               \/ Broadcasting(t) => Broadcasting(t)'
    <3>1. CASE app.pc = "closing"
      <4>1. tran'[app.sd].pc \notin {"asleep_syn", "asleep_loop"}
        <5>1. CloseBroadcast
          BY <1>11, <3>1 DEF JoinTransport, JoinRecv, AppAt
        <5> QED BY <1>1, <5>1, WakeTranAwake DEF CloseBroadcast
      <4>2. CASE t = app.sd
        BY <4>1, <4>2
      <4>3. CASE t # app.sd
        BY <2>1, <2>2, <2>3, <2>5, <4>3 DEF Broadcasting
      <4> QED BY <4>2, <4>3
    <3>2. CASE app.pc # "closing"
      BY <2>4, <2>8, <3>2
    <3> QED BY <3>1, <3>2
  <2>10. /\ app.outer = -1 => app.sd \in app.own
         /\ app.outer # -1 => ~ctx[app.sd].listening
    <3>1. app.outer = -1 => app.sd \in app.own
      BY <2>3 DEF Sound, ApplicationSound, Passive, Closing
    <3>2. ASSUME app.outer # -1 PROVE app.sd \notin app.own
      <4>1. app.outer \in Sd /\ Holds(app.outer, app.k, app.sd)
        BY <3>2 DEF Sound, CurrentSlot, TypeInv, AppThread, NoSd
      <4> QED BY <4>1 DEF Sound, EntriesSound, Holds, Entry
    <3> QED BY <1>1, <3>1, <3>2 DEF Sound, ContextsSound
  <2>11. app.outer # -1 => app'.pc \in Closing
    BY <2>1, <2>2, <2>3, <2>10 DEF Closing
  <2>12. /\ app'.pc \in {"joinrecv", "passive", "free"} => tran[app.sd].pc \in {"none", "done"}
         /\ app'.pc \in {"passive", "free"} => recv[app.sd].pc \in {"none", "done"}
    <3>1. app.pc = "joinrecv" => tran[app.sd].pc \in {"none", "done"}
      BY DEF Sound, ClosingSound
    <3>2. app'.pc = "joinrecv" => tran[app.sd].pc \in {"none", "done"}
      BY <1>11, <2>1, <2>2 DEF CloseBroadcast, JoinTransport, JoinRecv, AppAt
    <3>3. app'.pc \in {"passive", "free"} =>
            app.pc = "joinrecv" /\ recv[app.sd].pc \in {"none", "done"}
      BY <1>11, <2>1, <2>2 DEF CloseBroadcast, JoinTransport, JoinRecv, AppAt
    <3> QED BY <3>1, <3>2, <3>3
  <2>13. app'.pc = "free" => Queue(app.sd).max_len = 0
    <3>1. Queue(app.sd).max_len \in Nat
      BY <1>1, QueueType, MysockAssumption DEF SlotNo
    <3>2. app'.pc = "free" => ~ctx[app.sd].listening
      BY <2>1, <2>2
    <3> QED BY <1>1, <3>1, <3>2 DEF Sound, ContextsSound
  <2>14. app'.pc = "passive" => ctx[app.sd].listening
    BY <2>1, <2>2
  <2>15. /\ app'.pc \in {"join", "joinrecv", "passive", "free"} /\ app.pc # "drain"
         /\ app'.pc \notin {"backlog", "drain", "store", "accept", "asleep_accept",
                            "asleep_conn", "asleep_read"} \union Accepting
    BY <2>1, <2>2 DEF Accepting
  <2>16. /\ ContextFrame
         /\ \A t \in Sd : /\ NetworkEvent(t)' <=> NetworkEvent(t)
                          /\ AnyEvent(t)' <=> AnyEvent(t)
                          /\ ctx'[t].failed = ctx[t].failed
    BY <2>1, SameContexts
  <2> HIDE DEF steps
  <2>17. AppMove
    BY <1>1, <1>2, <2>2, <2>4, <2>5, <2>6, <2>9, <2>10, <2>11, <2>12, <2>13,
       <2>14, <2>15, <2>16 DEF AppMove
  <2> QED BY <2>7, <2>17, AppMoveSound
<1> QED BY <1>6, <1>7, <1>8, <1>9, <1>10, <1>11
===========================================================================
