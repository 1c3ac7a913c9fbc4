--------------------------- MODULE MysockProofs ---------------------------
(***************************************************************************)
(* The rest of the application's steps: sockets that open, listen, connect *)
(* and close, connections that are handed out, and the teardown of a       *)
(* listen queue.  Then the theorems about the socket layer, and last the   *)
(* order of the data that passes through it.                               *)
(***************************************************************************)
EXTENDS MysockThreadProofs

(* A context that is not in use. *)
LEMMA Unused ==
    ASSUME TypeInv, Sound, NEW c \in Sd, ~ctx[c].live
    PROVE  /\ tran[c].pc = "none" /\ recv[c].pc = "none" /\ c \notin app.own
           /\ ~ctx[c].listening /\ ~ctx[c].active /\ Queue(c).max_len = 0
           /\ \A l \in Sd : \A k : ~Holds(l, k, c)
<1>1. c \notin app.own
  BY DEF Sound, ContextsSound
<1>2. tran[c].pc = "none" /\ recv[c].pc = "none" /\ ~ctx[c].listening /\ ~ctx[c].active
  BY <1>1 DEF Sound, ContextsSound
<1>3. Queue(c).max_len \in Nat /\ ~(Queue(c).max_len > 0)
  BY <1>2, QueueType, MysockAssumption DEF SlotNo, Sound, ContextsSound
<1>4. \A l \in Sd : \A k : ~Holds(l, k, c)
  BY DEF Holds, Entry, Sound, EntriesSound
<1> QED BY <1>1, <1>2, <1>3, <1>4

QueueSame(l) == /\ Queue(l)'.max_len = Queue(l).max_len
                /\ Queue(l)'.slot = Queue(l).slot
                /\ Queue(l)'.completed = Queue(l).completed

QueueFresh(l) ==
    /\ Queue(l).max_len = 0 /\ Queue(l)'.completed = <<>>
    /\ \A k \in 1 .. Queue(l)'.max_len : Queue(l)'.slot[k] = NoRequest

LEMMA IdleEntries ==
    ASSUME ~writer, ~writer', app.pc # "invalidate", app'.pc # "invalidate",
           NEW l \in Sd, NEW k
    PROVE  /\ ~Drained(l, k) /\ ~Wiped(l, k)
           /\ ~Drained(l, k)' /\ ~Wiped(l, k)'
           /\ QueueSame(l) => (Entry(l, k)' <=> Entry(l, k))
           /\ QueueFresh(l) => ~Entry(l, k)' /\ ~Entry(l, k)
<1>1. ~Drained(l, k) /\ ~Wiped(l, k) /\ ~Drained(l, k)' /\ ~Wiped(l, k)'
  BY DEF Drained, Wiped
<1> QED
  BY <1>1 DEF Entry, NoRequest, QueueSame, QueueFresh

(* Outside of a hand-over and of the teardown of a queue, the books stay in *)
(* order if contexts that are in a queue keep what the queue says of them. *)
LEMMA IdleQueues ==
    ASSUME TypeInv, TypeInv', Sound,
           ~writer, ~writer', app.outer = -1, app'.outer = -1,
           app.pc # "invalidate", app'.pc \notin Accepting, app'.new = -1,
           \A l \in Sd : QueueSame(l) \/ QueueFresh(l),
           \A t \in Sd : (\E l \in Sd : \E k : Holds(l, k, t)) =>
             /\ ctx'[t].live = ctx[t].live /\ ctx'[t].listen_sd = ctx[t].listen_sd
             /\ ctx'[t].peer = ctx[t].peer /\ t \notin app'.own,
           \A t \in Sd : Pending(t)' => Pending(t) /\ ctx'[t].listen_sd = ctx[t].listen_sd,
           \A t \in Sd : ctx'[t].live /\ ~ctx'[t].active /\ tran'[t].pc \in Established
             => t \in app'.own \/ InCompleted(t)
    PROVE  QueuesSound'
<1>1. \A l \in Sd : QueueSame(l) \/ QueueFresh(l)
  OBVIOUS
<1>2. app'.pc # "invalidate"
  BY DEF Accepting
<1>4. \A l \in Sd : \A k \in 1 .. Queue(l).max_len : Queue(l).slot[k].sd \in NoSd
  BY QueueType
<1>5. \A l \in Sd : \A k : Entry(l, k) =>
        /\ Queue(l).slot[k].sd \in Sd
        /\ LET t == Queue(l).slot[k].sd IN
           /\ ctx'[t].live = ctx[t].live /\ ctx'[t].listen_sd = ctx[t].listen_sd
           /\ ctx'[t].peer = ctx[t].peer /\ t \notin app'.own
  <2> SUFFICES ASSUME NEW l \in Sd, NEW k, Entry(l, k) PROVE <1>5!(l)!(k)!2
    OBVIOUS
  <2>1. Queue(l).slot[k].sd \in Sd
    BY <1>4 DEF Entry, NoSd
  <2>2. Holds(l, k, Queue(l).slot[k].sd)
    BY DEF Holds
  <2> QED BY <2>1, <2>2
<1>6. EntriesSound'
  <2> SUFFICES ASSUME NEW l \in Sd, NEW k \in 1 .. Queue(l)'.max_len
               PROVE  EntriesSound!(l)!(k)'
    BY DEF EntriesSound
  <2>1. CASE QueueSame(l)
    <3>1. EntriesSound!(l)!(k)
      BY <2>1 DEF Sound, EntriesSound, QueueSame
    <3>2. app'.new = -1 /\ -1 \notin Sd
      BY MysockAssumption DEF Sd
    <3>3. /\ Entry(l, k)' <=> Entry(l, k)
          /\ ~Drained(l, k)' /\ ~Wiped(l, k)'
      BY <1>2, IdleEntries, <2>1
    <3>4. Queue(l)'.slot[k] = Queue(l).slot[k]
      BY <2>1 DEF QueueSame
    <3>5. Entry(l, k) => <1>5!(l)!(k)!2
      BY <1>5
    <3> QED BY <3>1, <3>2, <3>3, <3>4, <3>5
  <2>2. CASE QueueFresh(l)
    <3>1. Queue(l)'.slot[k].sd = -1 /\ Queue(l)'.slot[k].peer = NoPeer
      BY <2>2 DEF QueueFresh, NoRequest
    <3>2. ~Entry(l, k)' /\ ~Drained(l, k)' /\ ~Wiped(l, k)'
      BY <1>2, IdleEntries, <2>2
    <3> QED BY <3>1, <3>2
  <2> QED BY <1>1, <2>1, <2>2
<1>7. PeersUnique'
  <2> SUFFICES ASSUME NEW l \in Sd, NEW j \in 1 .. Queue(l)'.max_len,
                      NEW k \in 1 .. Queue(l)'.max_len,
                      Queue(l)'.slot[j].peer = Queue(l)'.slot[k].peer,
                      Queue(l)'.slot[j].peer # NoPeer
               PROVE  j = k
    BY DEF PeersUnique
  <2>1. QueueSame(l)
    BY <1>1 DEF QueueFresh, NoRequest
  <2> QED BY <2>1 DEF QueueSame, Sound, PeersUnique
<1>8. CurrentSlot'
  BY DEF CurrentSlot, Accepting
<1>9. PendingSound'
  <2> SUFFICES ASSUME NEW t \in Sd, Pending(t)' PROVE PendingSound!(t)'
    BY DEF PendingSound
  <2>1. PICK l \in Sd : /\ l = ctx[t].listen_sd /\ l = ctx'[t].listen_sd
                        /\ \E k \in 1 .. Queue(l).max_len : Holds(l, k, t)
    BY DEF Sound, PendingSound
  <2>2. PICK k \in 1 .. Queue(l).max_len : Holds(l, k, t)
    BY <2>1
  <2>3. QueueSame(l)
    BY <1>1, <1>2, IdleEntries, <2>2 DEF Holds
  <2>4. Holds(l, k, t)' /\ k \in 1 .. Queue(l)'.max_len
    <3>1. Entry(l, k)'
      BY <1>2, IdleEntries, <2>2, <2>3 DEF Holds
    <3> QED BY <2>2, <2>3, <3>1 DEF Holds, QueueSame
  <2> QED BY <2>1, <2>4
<1>10. CompletedSound'
  <2> SUFFICES ASSUME NEW l \in Sd, NEW i \in 1 .. Len(Queue(l)'.completed)
               PROVE  CompletedSound!(l)!(i)'
    BY DEF CompletedSound
  <2>1. QueueSame(l)
    <3>1. QueueFresh(l) => Len(Queue(l)'.completed) = 0
      BY DEF QueueFresh
    <3> QED BY <1>1, <3>1
  <2>2. CompletedSound!(l)!(i)
    BY <2>1 DEF QueueSame, Sound, CompletedSound
  <2>3. Entry(l, Queue(l).completed[i])
    BY <1>2, IdleEntries, <2>2
  <2>4. /\ Queue(l)'.completed = Queue(l).completed /\ Queue(l)'.slot = Queue(l).slot
        /\ Queue(l)'.max_len = Queue(l).max_len
    BY <2>1 DEF QueueSame
  <2> DEFINE k == Queue(l).completed[i]
  <2>5. /\ ~Drained(l, k) /\ Queue(l).slot[k].sd \in Sd
        /\ ~Pending(Queue(l).slot[k].sd)
    BY <1>2, IdleEntries, <1>5, <2>2, <2>3
  <2>6. ~Pending(Queue(l).slot[k].sd)'
    BY <2>4, <2>5
  <2>7. Entry(l, k)' /\ ~Drained(l, k)'
    BY <1>2, IdleEntries, <2>1, <2>3, <2>4
  <2> QED BY <2>2, <2>4, <2>6, <2>7
<1>11. NewNotPending'
  BY DEF NewNotPending
<1>12. EstablishedKnown'
  <2> SUFFICES ASSUME NEW t \in Sd, ctx'[t].live, ~ctx'[t].active,
                      tran'[t].pc \in Established, InCompleted(t)
               PROVE  InCompleted(t)'
    BY DEF EstablishedKnown
  <2>1. PICK l \in Sd : \E i \in 1 .. Len(Queue(l).completed) :
            Queue(l).slot[Queue(l).completed[i]].sd = t
    BY DEF InCompleted
  <2>2. PICK i \in 1 .. Len(Queue(l).completed) :
            Queue(l).slot[Queue(l).completed[i]].sd = t
    BY <2>1
  <2>3. Entry(l, Queue(l).completed[i])
    BY <1>2, IdleEntries DEF Sound, CompletedSound
  <2>4. QueueSame(l)
    BY <1>1, <1>2, IdleEntries, <2>3
  <2> QED BY <2>2, <2>4 DEF InCompleted, QueueSame
<1> QED BY <1>6, <1>7, <1>8, <1>9, <1>10, <1>11, <1>12 DEF QueuesSound

(* mysocket(), mylisten(), myconnect() and the end of myclose(): one       *)
(* context changes, which is in no queue and whose threads do not run.     *)
OthersKept(c) ==
    \A t \in Sd :
        t # c => /\ ctx'[t] = ctx[t] /\ recv'[t] = recv[t]
                 /\ tran'[t] = tran[t] /\ Queue(t)' = Queue(t)
                 /\ t \in app'.own <=> t \in app.own

OwnMove(c) ==
    /\ UNCHANGED <<readers, writer>> /\ count'.writes = count.writes
    /\ OthersKept(c)
    /\ \A l \in Sd : \A k : ~Holds(l, k, c)
    /\ QueueSame(c) \/ QueueFresh(c)
    (* the application *)
    /\ app.outer = -1
    /\ app.pc \in {"idle", "backlog"} \/ (app.pc = "free" /\ app.sd = c)
    /\ app'.outer = -1 /\ app'.new = -1 /\ app'.pc \in {"idle", "backlog", "waitconn"}
    /\ app'.pc # "idle" => app'.sd = c /\ c \in app'.own
    /\ app'.pc = "backlog" => /\ ctx'[c].listening
                              /\ Queue(c)'.max_len = 0 /\ recv'[c].pc = "none"
    (* the context and its threads *)
    /\ recv[c].pc \in {"none", "done"}
    /\ tran'[c].pc \in {"none", "connect"} /\ ~tran'[c].fin
    /\ recv'[c].pc \in {"none", "poll"}
    /\ ctx'[c].app_recv <= count.writes /\ ~ctx'[c].close_requested
    /\ c \in app'.own => ctx'[c].live
    /\ ContextsSound!2!(c)'

LEMMA OwnMoveSound ==
    ASSUME TypeInv, TypeInv', Sound, NEW c \in Sd, OwnMove(c)
    PROVE  Sound'
<1>1. /\ ~writer /\ ~writer' /\ app.new = -1 /\ app.outer = -1 /\ app'.outer = -1
      /\ app'.new = -1 /\ app.pc \notin Accepting /\ app'.pc \notin Accepting
      /\ readers' = readers /\ count'.writes = count.writes
      /\ app'.pc \in {"idle", "backlog", "waitconn"}
  BY DEF OwnMove, Sound, ApplicationSound, Accepting
<1>2. /\ app.own \subseteq Sd /\ app'.own \subseteq Sd /\ app' \in AppThread
  BY DEF TypeInv, AppThread
<1>3. \A t \in Sd : t # c => /\ ctx'[t] = ctx[t] /\ recv'[t] = recv[t]
                             /\ tran'[t] = tran[t] /\ Queue(t)' = Queue(t)
                             /\ t \in app'.own <=> t \in app.own
  <2>1. OthersKept(c)
    BY DEF OwnMove
  <2> QED BY <2>1 DEF OthersKept
<1>4. /\ tran'[c].pc \in {"none", "connect"} /\ recv'[c].pc \in {"none", "poll"}
      /\ recv[c].pc \in {"none", "done"}
  BY DEF OwnMove
<1>5. app'.pc # "idle" => app'.sd = c /\ c \in app'.own
  BY DEF OwnMove
<1>6. ApplicationSound'
  <2>1. (app.pc # "idle" => Passive \in app.own)'
    BY <1>1, <1>5 DEF Passive
  <2>2. (app.pc = "backlog" => /\ ctx[app.sd].listening
                               /\ Queue(app.sd).max_len = 0 /\ recv[app.sd].pc = "none")'
    BY <1>5 DEF OwnMove, Queue
  <2>3. (app.pc # "idle" => app.sd \in Sd)'
    BY <1>5
  <2> QED BY <1>1, <2>1, <2>2, <2>3 DEF ApplicationSound, Accepting
<1>7. ClosingSound'
  BY <1>1 DEF ClosingSound
<1>8. ContextsSound'
  <2>1. app'.own \subseteq {t \in Sd : ctx'[t].live}
    <3> SUFFICES ASSUME NEW t \in app'.own PROVE ctx'[t].live
      BY <1>2
    <3> QED BY <1>2, <1>3 DEF OwnMove, Sound, ContextsSound
  <2>2. ASSUME NEW t \in Sd PROVE ContextsSound!2!(t)'
    <3>1. CASE t = c
      BY <3>1 DEF OwnMove
    <3>2. CASE t # c
      BY <1>3, <3>2 DEF Sound, ContextsSound
    <3> QED BY <3>1, <3>2
  <2> QED BY <2>1, <2>2 DEF ContextsSound
<1>9. LockSound'
  <2>1. ASSUME NEW t \in Sd PROVE LockSound!1!(t)'
    <3>1. CASE t = c
      BY <1>4, <3>1
    <3>2. CASE t # c
      BY <1>1, <1>3, <3>2 DEF Sound, LockSound
    <3> QED BY <3>1, <3>2
  <2> QED BY <1>1, <2>1 DEF LockSound
<1>10. QueuesSound'
  <2>1. \A l \in Sd : QueueSame(l) \/ QueueFresh(l)
    <3>1. \A l \in Sd : l # c => QueueSame(l)
      BY <1>3 DEF QueueSame
    <3> QED BY <3>1 DEF OwnMove
  <2>2. ASSUME NEW t \in Sd, \E l \in Sd : \E k : Holds(l, k, t)
        PROVE  t # c /\ t \notin app'.own
    <3>1. t # c
      BY <2>2 DEF OwnMove
    <3>2. t \notin app.own
      BY <2>2 DEF Holds, Entry, Sound, EntriesSound
    <3> QED BY <1>3, <3>1, <3>2
  <2>3. \A t \in Sd : Pending(t)' => t # c /\ Pending(t)
    BY <1>3, <1>4 DEF Pending
  <2>4. \A t \in Sd : ctx'[t].live /\ ~ctx'[t].active /\ tran'[t].pc \in Established
                        => t \in app'.own \/ InCompleted(t)
    <3> SUFFICES ASSUME NEW t \in Sd, ctx'[t].live, ~ctx'[t].active,
                        tran'[t].pc \in Established
                 PROVE  t \in app'.own \/ InCompleted(t)
      OBVIOUS
    <3>1. t # c
      BY <1>4 DEF Established
    <3>2. app.new # t
      BY <1>1, MysockAssumption DEF Sd
    <3> QED BY <1>3, <3>1, <3>2 DEF Sound, EstablishedKnown
  <2> QED BY <1>1, <1>3, <2>1, <2>2, <2>3, <2>4, IdleQueues DEF Accepting
<1>11. ClaimSound'
  <2> SUFFICES ASSUME NEW l \in Sd, recv'[l].pc \in {"claim", "create"}
               PROVE  ClaimSound!(l)'
    BY DEF ClaimSound
  <2>1. l # c
    BY <1>4
  <2> QED BY <1>3, <2>1 DEF Sound, ClaimSound
<1>12. AcceptWoken'
  BY <1>1 DEF AcceptWoken
<1>13. OthersWoken'
  <2>1. ASSUME NEW t \in Sd PROVE OthersWoken!3!(t)'
    <3>1. CASE t = c
      BY <1>4, <3>1
    <3>2. CASE t # c
      <4>1. /\ NetworkEvent(t)' <=> NetworkEvent(t)
            /\ AnyEvent(t)' <=> AnyEvent(t)
        BY <1>3, <3>2 DEF NetworkEvent, AnyEvent, CloseReady
      <4>2. Broadcasting(t) => Broadcasting(t)'
        <5>1. app.pc \notin {"wrote", "closing"}
          BY DEF OwnMove
        <5>2. \A l \in Sd : recv[l].pc \in {"passed", "queued"} => recv'[l] = recv[l]
          BY <1>3, <1>4
        <5> QED BY <5>1, <5>2 DEF Broadcasting
      <4> QED BY <1>3, <3>2, <4>1, <4>2 DEF Sound, OthersWoken
    <3> QED BY <3>1, <3>2
  <2> QED BY <1>1, <2>1 DEF OthersWoken
<1>14. CloseInHand'
  <2> SUFFICES ASSUME NEW t \in Sd PROVE CloseInHand!(t)'
    BY DEF CloseInHand
  <2>1. CASE t = c
    BY <1>1, <2>1 DEF OwnMove
  <2>2. CASE t # c
    <3>1. t # -1
      BY MysockAssumption DEF Sd
    <3>2. CloseInHand!(t) /\ ~ctx[t].close_requested /\ ~tran[t].fin
      <4>1. CloseInHand!(t) /\ ctx[t] \in Context /\ tran[t] \in TranThread
        BY DEF Sound, CloseInHand, TypeInv
      <4>2. ~(app.pc \in Closing \union {"passive", "drain"} /\ t \in {app.sd, app.outer})
        BY <1>1, <2>2, <3>1 DEF OwnMove, Closing
      <4> QED BY <4>1, <4>2
    <3> QED BY <1>1, <1>3, <2>2, <3>2
  <2> QED BY <2>1, <2>2
<1> QED BY <1>6, <1>7, <1>8, <1>9, <1>10, <1>11, <1>12, <1>13, <1>14 DEF Sound, QueuesSound

LEMMA NotQueued ==
    ASSUME Sound, NEW s \in app.own
    PROVE  \A l \in Sd : \A k : ~Holds(l, k, s)
BY DEF Sound, EntriesSound, Holds, Entry

(* A context of the application that has no transport thread has no        *)
(* receive thread either, unless it listens.                               *)
LEMMA Idle ==
    ASSUME TypeInv, Sound, app.pc = "idle"
    PROVE  /\ ~writer /\ app.outer = -1 /\ app.new = -1 /\ app.own \subseteq Sd
           /\ app \in AppThread
           /\ \A t \in Sd : /\ ~ctx[t].close_requested /\ ~tran[t].fin
                            /\ ctx[t].app_recv <= count.writes
<1>1. ~writer /\ app.outer = -1 /\ app.new = -1
  BY DEF Sound, ApplicationSound, Closing, Accepting
<1>2. app \in AppThread /\ app.own \subseteq Sd
  BY DEF TypeInv, AppThread
<1>3. ASSUME NEW t \in Sd PROVE /\ ~ctx[t].close_requested /\ ~tran[t].fin
                                /\ ctx[t].app_recv <= count.writes
  BY <1>3 DEF Sound, CloseInHand, Closing
<1> QED BY <1>1, <1>2, <1>3

LEMMA SocketOpened ==
    ASSUME TypeInv, TypeInv', Sound, mysocket
    PROVE  Sound'
<1>1. app.pc = "idle" /\ FreeSds # {}
  BY DEF mysocket, AppAt
<1>2. PICK c \in Sd : c = Min(FreeSds) /\ ~ctx[c].live
  BY <1>1, FreeSdType DEF FreeSds
<1>3. /\ ctx' = [ctx EXCEPT ![c] = [FreshContext EXCEPT !.live = TRUE]]
      /\ app' = [app EXCEPT !.own = @ \union {c}]
      /\ count' = [count EXCEPT !.opens = @ + 1]
      /\ UNCHANGED <<listen_table, readers, writer, recv, tran>>
  BY <1>2 DEF mysocket
<1>4. /\ ctx \in [Sd -> Context] /\ recv \in [Sd -> RecvThread]
      /\ tran \in [Sd -> TranThread] /\ app \in AppThread /\ count.writes \in Nat
      /\ count'.writes = count.writes
  BY <1>3, MysockAssumption DEF TypeInv
<1>5. /\ app'.pc = "idle" /\ app'.outer = -1 /\ app'.new = -1 /\ app.outer = -1
      /\ app'.own = app.own \union {c}
  BY <1>1, <1>3, <1>4, Idle DEF AppThread
<1>6. /\ tran[c].pc = "none" /\ recv[c].pc = "none" /\ Queue(c).max_len = 0
      /\ \A l \in Sd : \A k : ~Holds(l, k, c)
  BY <1>2, Unused
<1>7. \A t \in Sd : Queue(t)' = Queue(t)
  BY <1>3 DEF Queue
<1>8. /\ ctx'[c].live /\ ~ctx'[c].listening /\ ~ctx'[c].active /\ ~ctx'[c].failed
      /\ ctx'[c].app_recv = 0 /\ ~ctx'[c].close_requested
      /\ \A t \in Sd : t # c => ctx'[t] = ctx[t]
  BY <1>3, <1>4 DEF FreshContext
<1>9. ContextsSound!2!(c)'
  BY <1>3, <1>6, <1>7, <1>8
<1>10. OthersKept(c) /\ QueueSame(c) /\ ~tran[c].fin
  BY <1>1, <1>3, <1>5, <1>7, <1>8, Idle DEF OthersKept, QueueSame
<1>11. OwnMove(c)
  BY <1>1, <1>3, <1>4, <1>5, <1>6, <1>8, <1>9, <1>10 DEF OwnMove
<1> QED BY <1>11, OwnMoveSound

LEMMA ListenBegun ==
    ASSUME TypeInv, TypeInv', Sound, NEW s \in Sd, mylisten(s)
    PROVE  Sound'
<1>1. /\ app.pc = "idle" /\ s \in app.own /\ ~ctx[s].listening /\ tran[s].pc = "none"
      /\ ctx' = [ctx EXCEPT ![s].listening = TRUE]
      /\ app' = [app EXCEPT !.pc = "backlog", !.sd = s]
      /\ UNCHANGED <<listen_table, readers, writer, recv, tran, count>>
  BY DEF mylisten, AppAt
<1>2. /\ ctx \in [Sd -> Context] /\ ctx[s] \in Context /\ app \in AppThread
  BY DEF TypeInv
<1>3. /\ app'.pc = "backlog" /\ app'.sd = s /\ app'.outer = -1 /\ app'.new = -1
      /\ app'.own = app.own /\ app.outer = -1
  BY <1>1, <1>2, Idle DEF AppThread
<1>4. \A t \in Sd : Queue(t)' = Queue(t)
  BY <1>1 DEF Queue
<1>5. /\ ctx'[s].live = ctx[s].live /\ ctx'[s].listening
      /\ ctx'[s].active = ctx[s].active /\ ctx'[s].failed = ctx[s].failed
      /\ ctx'[s].app_recv = ctx[s].app_recv
      /\ ctx'[s].close_requested = ctx[s].close_requested
  BY <1>1, <1>2 DEF Context
<1>6. \A t \in Sd : t # s => ctx'[t] = ctx[t]
  BY <1>1, <1>2
<1>7. ContextsSound!2!(s) /\ ctx[s].live
  BY <1>1 DEF Sound, ContextsSound
<1>8. recv[s].pc = "none" /\ Queue(s).max_len = 0
  <2>1. Queue(s).max_len \in Nat
    BY QueueType, MysockAssumption DEF SlotNo
  <2> QED BY <1>1, <1>7, <2>1
<1>9. ContextsSound!2!(s)'
  BY <1>1, <1>3, <1>4, <1>5, <1>7, <1>8
<1>10. /\ ~ctx'[s].close_requested /\ ctx'[s].app_recv <= count.writes /\ ~tran[s].fin
  BY <1>1, <1>5, Idle
<1>11. \A l \in Sd : \A k : ~Holds(l, k, s)
  BY <1>1, NotQueued
<1>12. OthersKept(s) /\ QueueSame(s) /\ Queue(s)'.max_len = 0
  BY <1>1, <1>3, <1>4, <1>6, <1>8 DEF OthersKept, QueueSame
<1>13. ctx'[s].live /\ ctx'[s].listening
  BY <1>5, <1>7
<1>14. OwnMove(s)
  BY <1>1, <1>3, <1>8, <1>9, <1>10, <1>11, <1>12, <1>13 DEF OwnMove
<1> QED BY <1>14, OwnMoveSound

LEMMA ConnectBegun ==
    ASSUME TypeInv, TypeInv', Sound, NEW s \in Sd, myconnect(s)
    PROVE  Sound'
<1>1. /\ app.pc = "idle" /\ s \in app.own /\ ~ctx[s].listening /\ ctx[s].peer = NoPeer
      /\ recv' = [recv EXCEPT ![s] = [RecvNone EXCEPT !.pc = "poll"]]
      /\ tran' = [tran EXCEPT ![s] = [TranNone EXCEPT !.pc = "connect"]]
      /\ app' = [app EXCEPT !.pc = "waitconn", !.sd = s]
      /\ UNCHANGED <<listen_table, readers, writer, count>>
  BY DEF myconnect, AppAt, StartThreads
<1>2. PICK p \in Peer :
        ctx' = [ctx EXCEPT ![s].peer = p, ![s].bound = TRUE,
                           ![s].active = TRUE, ![s].script = Script(TRUE)]
  BY DEF myconnect
<1>3. /\ ctx \in [Sd -> Context] /\ ctx[s] \in Context /\ app \in AppThread
      /\ recv \in [Sd -> RecvThread] /\ tran \in [Sd -> TranThread]
  BY DEF TypeInv
<1>4. /\ app'.pc = "waitconn" /\ app'.sd = s /\ app'.outer = -1 /\ app'.new = -1
      /\ app'.own = app.own /\ app.outer = -1
  BY <1>1, <1>3, Idle DEF AppThread
<1>5. \A t \in Sd : Queue(t)' = Queue(t)
  BY <1>1 DEF Queue
<1> DEFINE script == Script(TRUE)
<1>6. /\ ctx'[s] = [ctx[s] EXCEPT !.peer = p, !.bound = TRUE, !.active = TRUE,
                                  !.script = script]
      /\ \A t \in Sd : t # s => ctx'[t] = ctx[t]
  BY <1>2, <1>3
<1> HIDE DEF script
<1>7. /\ ctx'[s].live = ctx[s].live /\ ctx'[s].listening = ctx[s].listening
      /\ ctx'[s].active /\ ctx'[s].failed = ctx[s].failed /\ ctx'[s].peer = p
      /\ ctx'[s].app_recv = ctx[s].app_recv
      /\ ctx'[s].close_requested = ctx[s].close_requested
  BY <1>3, <1>6 DEF Context
<1>8. ContextsSound!2!(s) /\ ctx[s].live
  BY <1>1 DEF Sound, ContextsSound
<1>9. recv[s].pc = "none" /\ Queue(s).max_len = 0
  <2>1. Queue(s).max_len \in Nat
    BY QueueType, MysockAssumption DEF SlotNo
  <2> QED BY <1>1, <1>8, <2>1
<1>10. /\ tran'[s].pc = "connect" /\ ~tran'[s].fin /\ recv'[s].pc = "poll"
       /\ \A t \in Sd : t # s => recv'[t] = recv[t] /\ tran'[t] = tran[t]
  BY <1>1, <1>3 DEF TranNone, RecvNone
<1>11. ContextsSound!2!(s)'
  BY <1>1, <1>4, <1>5, <1>7, <1>8, <1>9, <1>10, MysockAssumption
<1>12. ~ctx'[s].close_requested /\ ctx'[s].app_recv <= count.writes
  BY <1>1, <1>7, Idle
<1>13. \A l \in Sd : \A k : ~Holds(l, k, s)
  BY <1>1, NotQueued
<1>14. OthersKept(s) /\ QueueSame(s) /\ ctx'[s].live
  BY <1>4, <1>5, <1>6, <1>7, <1>8, <1>10 DEF OthersKept, QueueSame
<1>15. OwnMove(s)
  BY <1>1, <1>4, <1>9, <1>10, <1>11, <1>12, <1>13, <1>14 DEF OwnMove
<1> QED BY <1>15, OwnMoveSound

LEMMA ListenEnds ==
    ASSUME TypeInv, TypeInv', Sound, SetBacklog
    PROVE  Sound'
<1>1. /\ app.pc = "backlog"
      /\ listen_table' = [listen_table EXCEPT ![app.sd] = NewQueue(Backlog)]
      /\ recv' = [recv EXCEPT ![app.sd] = [RecvNone EXCEPT !.pc = "poll"]]
      /\ app' = [app EXCEPT !.pc = "idle", !.sd = -1]
      /\ UNCHANGED <<ctx, readers, writer, tran, count>>
  BY DEF SetBacklog, AppAt
<1>2. PICK s \in Sd : s = app.sd
  BY <1>1 DEF Sound, ApplicationSound
<1>3. /\ ctx[s].listening /\ s \in app.own /\ tran[s].pc = "none" /\ recv[s].pc = "none"
      /\ ctx[s].live /\ Queue(s).max_len = 0 /\ app.outer = -1 /\ app.new = -1
      /\ ContextsSound!2!(s)
  BY <1>1, <1>2 DEF Sound, ApplicationSound, ContextsSound, Closing, Accepting
<1>4. /\ recv \in [Sd -> RecvThread] /\ app \in AppThread
      /\ listen_table \in [Sd -> ListenQueue]
  BY DEF TypeInv
<1>5. /\ app'.pc = "idle" /\ app'.outer = -1 /\ app'.new = -1 /\ app'.own = app.own
  BY <1>1, <1>3, <1>4 DEF AppThread
<1>6. /\ \A t \in Sd : t # s => Queue(t)' = Queue(t) /\ recv'[t] = recv[t]
      /\ Queue(s)' = NewQueue(Backlog) /\ recv'[s].pc = "poll"
  BY <1>1, <1>2, <1>4 DEF Queue, RecvNone
<1>7. QueueFresh(s)
  <2>1. /\ Queue(s)'.completed = <<>> /\ Queue(s)'.max_len = Backlog + 1
        /\ Queue(s)'.slot = [k \in 1 .. (Backlog + 1) |-> NoRequest]
    BY <1>6 DEF NewQueue, NoQueue
  <2> QED BY <1>3, <2>1 DEF QueueFresh
<1>8. ContextsSound!2!(s)'
  BY <1>1, <1>3, <1>5, <1>6
<1>9. ~ctx[s].close_requested /\ ~tran[s].fin /\ ctx[s].app_recv <= count.writes
  BY <1>1, <1>3 DEF Sound, CloseInHand, Closing
<1>10. \A l \in Sd : \A k : ~Holds(l, k, s)
  BY <1>3, NotQueued
<1>11. OthersKept(s)
  BY <1>1, <1>5, <1>6 DEF OthersKept
<1>12. OwnMove(s)
  BY <1>1, <1>2, <1>3, <1>5, <1>6, <1>7, <1>8, <1>9, <1>10, <1>11 DEF OwnMove
<1> QED BY <1>12, OwnMoveSound

LEMMA SocketClosed ==
    ASSUME TypeInv, TypeInv', Sound, FreeContext, app.outer = -1
    PROVE  Sound'
<1>1. /\ app.pc = "free"
      /\ ctx' = [ctx EXCEPT ![app.sd] = FreshContext]
      /\ recv' = [recv EXCEPT ![app.sd] = RecvNone]
      /\ tran' = [tran EXCEPT ![app.sd] = TranNone]
      /\ app' = [AppIdle EXCEPT !.own = app.own \ {app.sd}]
      /\ UNCHANGED <<listen_table, readers, writer, count>>
  BY DEF FreeContext, AppAt
<1>2. PICK s \in Sd : s = app.sd
  BY <1>1 DEF Sound, ApplicationSound
<1>3. s \in app.own /\ recv[s].pc \in {"none", "done"} /\ Queue(s).max_len = 0
  BY <1>1, <1>2 DEF Sound, ApplicationSound, ClosingSound, Passive
<1>4. /\ ctx \in [Sd -> Context] /\ recv \in [Sd -> RecvThread]
      /\ tran \in [Sd -> TranThread] /\ count.writes \in Nat
  BY MysockAssumption DEF TypeInv
<1>5. /\ app'.pc = "idle" /\ app'.outer = -1 /\ app'.new = -1 /\ app'.own = app.own \ {s}
  BY <1>1, <1>2 DEF AppIdle
<1>6. /\ \A t \in Sd : t # s => ctx'[t] = ctx[t] /\ recv'[t] = recv[t] /\ tran'[t] = tran[t]
      /\ recv'[s].pc = "none" /\ tran'[s].pc = "none" /\ ~tran'[s].fin
      /\ ~ctx'[s].listening /\ ~ctx'[s].active /\ ~ctx'[s].failed
      /\ ctx'[s].app_recv = 0 /\ ~ctx'[s].close_requested
  BY <1>1, <1>2, <1>4 DEF FreshContext, RecvNone, TranNone
<1>7. \A t \in Sd : Queue(t)' = Queue(t)
  BY <1>1 DEF Queue
<1>8. ContextsSound!2!(s)'
  BY <1>3, <1>5, <1>6, <1>7
<1>9. \A l \in Sd : \A k : ~Holds(l, k, s)
  BY <1>3, NotQueued
<1>10. OthersKept(s) /\ QueueSame(s)
  BY <1>5, <1>6, <1>7 DEF OthersKept, QueueSame
<1>11. OwnMove(s)
  BY <1>1, <1>2, <1>3, <1>4, <1>5, <1>6, <1>8, <1>9, <1>10 DEF OwnMove
<1> QED BY <1>11, OwnMoveSound

(* myaccept() from the moment it has a connection: only the queue changes, *)
(* and what the application has in hand.                                   *)
AcceptMove ==
    /\ UNCHANGED <<ctx, recv, tran, writer, count>>
    /\ \/ readers' = readers
       \/ readers' = readers \ {App} /\ app'.pc = "idle"
    /\ \A l \in Sd : Queue(l)'.max_len = Queue(l).max_len
    /\ app.outer = -1 /\ app.pc \in {"accept"} \union Accepting
    /\ app'.outer = -1 /\ app'.pc \in Accepting \union {"idle"}
    /\ app.own \subseteq app'.own /\ \A t \in app'.own : ctx[t].live
    /\ app'.pc \in Accepting =>
         /\ app'.sd = app.sd /\ app'.own = app.own
         /\ app'.new \in Sd /\ ctx[app'.new].live /\ app'.new \notin app.own
         /\ app'.k \in 1 .. Queue(app.sd).max_len
         /\ app'.pc = "store" => app'.len > 0
    /\ app'.pc = "idle" => app'.new = -1

LEMMA AcceptMoveSound ==
    ASSUME TypeInv, TypeInv', Sound, AcceptMove
    PROVE  /\ ApplicationSound' /\ ClosingSound' /\ ContextsSound' /\ LockSound'
           /\ AcceptWoken' /\ OthersWoken' /\ CloseInHand'
           /\ ~writer /\ ~writer' /\ app.sd \in Sd
<1>1. /\ app.sd \in Sd /\ app.sd \in app.own /\ ctx[app.sd].listening
      /\ ~writer /\ ~writer' /\ App \in readers
      /\ app.own \subseteq Sd /\ app'.own \subseteq Sd
  BY DEF AcceptMove, Sound, ApplicationSound, LockSound, Accepting, Passive,
         TypeInv, AppThread
<1>2. /\ app'.outer = -1 /\ app'.pc \in Accepting \union {"idle"}
      /\ UNCHANGED <<ctx, recv, tran, writer, count>>
      /\ app'.pc # "idle" => app'.sd = app.sd /\ app'.own = app.own
      /\ app.outer = -1 /\ app.pc \in {"accept"} \union Accepting
  BY DEF AcceptMove, Accepting
<1>3. \A l \in Sd : Queue(l)'.max_len = Queue(l).max_len
  BY DEF AcceptMove
<1>4. app'.pc # "idle" => Queue(app.sd)'.max_len = Queue(app.sd).max_len
  BY <1>1, <1>2, <1>3 DEF Queue
<1>5. ApplicationSound'
  <2>1. (app.pc # "idle" => Passive \in app.own)' /\ (app.pc # "idle" => app.sd \in Sd)'
    BY <1>1, <1>2 DEF Passive
  <2>2. (app.pc \in Accepting <=> app.new # -1)'
    BY <1>2, MysockAssumption DEF AcceptMove, Accepting, Sd
  <2>3. (app.pc \in Accepting => ctx[app.new].live /\ app.new \notin app.own)'
    BY <1>2 DEF AcceptMove
  <2>4. /\ (app.pc \in Accepting => app.k \in 1 .. Queue(app.sd).max_len)'
        /\ (app.pc = "store" => app.len > 0)'
    BY <1>2, <1>4 DEF AcceptMove, Accepting
  <2>5. (app.pc \in {"backlog", "accept", "asleep_accept", "passive", "drain"}
            \union Accepting => ctx[app.sd].listening)'
    BY <1>1, <1>2 DEF Accepting
  <2>6. app'.pc \notin {"drain", "backlog"}
    BY <1>2 DEF Accepting
  <2> QED BY <1>1, <1>2, <2>1, <2>2, <2>3, <2>4, <2>5, <2>6 DEF ApplicationSound
<1>6. ClosingSound'
  BY <1>2 DEF ClosingSound, Accepting
<1>7. ContextsSound'
  <2>1. (app.own \subseteq {s \in Sd : ctx[s].live})'
    BY <1>1, <1>2 DEF AcceptMove
  <2>2. ASSUME NEW t \in Sd PROVE ContextsSound!2!(t)'
    <3>1. ContextsSound!2!(t)
      BY DEF Sound, ContextsSound
    <3>2. t \in app.own => t \in app'.own
      BY DEF AcceptMove
    <3> QED BY <1>2, <1>3, <3>1, <3>2
  <2> QED BY <2>1, <2>2 DEF ContextsSound
<1>8. LockSound'
  <2>1. ASSUME NEW t \in Sd PROVE LockSound!1!(t)'
    <3>1. LockSound!1!(t) /\ Recv(t) # App /\ Tran(t) # App
      BY DEF Sound, LockSound, Recv, Tran, App
    <3>2. \A x : x \in readers /\ x # App => x \in readers'
      BY DEF AcceptMove
    <3> QED BY <1>2, <3>1, <3>2 DEF Recv, Tran, App
  <2>2. app'.pc \in Accepting => App \in readers'
    BY <1>1 DEF AcceptMove, Accepting
  <2> QED BY <1>1, <1>2, <2>1, <2>2 DEF LockSound, Accepting, App
<1>9. AcceptWoken'
  BY <1>2 DEF AcceptWoken, Accepting
<1>10. OthersWoken'
  <2>1. ASSUME NEW t \in Sd PROVE OthersWoken!3!(t)'
    <3>1. /\ NetworkEvent(t)' <=> NetworkEvent(t)
          /\ AnyEvent(t)' <=> AnyEvent(t)
      BY <1>2, SameContexts
    <3>2. Broadcasting(t) => Broadcasting(t)'
      BY <1>2 DEF Broadcasting, Accepting
    <3> QED BY <1>2, <3>1, <3>2 DEF Sound, OthersWoken
  <2>2. app'.pc \notin {"asleep_conn", "asleep_read"}
    BY <1>2 DEF Accepting
  <2> QED BY <2>1, <2>2 DEF OthersWoken
<1>11. CloseInHand'
  <2>1. app.pc \notin Closing \union {"passive", "drain"}
    BY <1>2 DEF Closing, Accepting
  <2> QED BY <1>2, <2>1, CloseKept
<1> QED BY <1>1, <1>5, <1>6, <1>7, <1>8, <1>9, <1>10, <1>11

(* One slot of one queue is written. *)
SlotWritten(l, k, r) ==
    /\ \A m \in Sd : /\ Queue(m)'.max_len = Queue(m).max_len
                     /\ Queue(m)'.completed = Queue(m).completed
                     /\ \A j \in 1 .. Queue(m).max_len : m # l \/ j # k =>
                          Queue(m)'.slot[j] = Queue(m).slot[j]
    /\ Queue(l)'.slot[k] = r

LEMMA SlotUpdate ==
    ASSUME TypeInv, NEW l \in Sd, NEW k \in 1 .. Queue(l).max_len, NEW r,
           listen_table' = [listen_table EXCEPT ![l].slot[k] = r]
    PROVE  SlotWritten(l, k, r)
<1>1. \A m \in Sd : m # l => Queue(m)' = Queue(m)
  BY DEF Queue, TypeInv
<1>2. Queue(l)' = [Queue(l) EXCEPT !.slot[k] = r]
  BY DEF Queue, TypeInv
<1>3. Queue(l) \in ListenQueue /\ Queue(l).slot \in [1 .. Queue(l).max_len -> Request]
  BY QueueType DEF QueueOK
<1>4. /\ Queue(l)'.max_len = Queue(l).max_len
      /\ Queue(l)'.completed = Queue(l).completed
      /\ Queue(l)'.slot = [Queue(l).slot EXCEPT ![k] = r]
  BY <1>2, <1>3 DEF ListenQueue
<1>5. /\ Queue(l)'.slot[k] = r
      /\ \A j \in 1 .. Queue(l).max_len : j # k => Queue(l)'.slot[j] = Queue(l).slot[j]
  BY <1>3, <1>4
<1>6. ASSUME NEW m \in Sd PROVE SlotWritten(l, k, r)!1!(m)
  BY <1>1, <1>4, <1>5
<1> QED BY <1>5, <1>6 DEF SlotWritten

(* Both steps of INVALIDATE_CONNECT_REQUEST() write the slot of the        *)
(* connection that myaccept() is about to return.                          *)
LEMMA SlotFreed ==
    ASSUME TypeInv, TypeInv', Sound, UNCHANGED <<ctx, recv, tran, writer>>,
           NEW l \in Sd, l = app.sd, NEW k, k = app.k, NEW r, SlotWritten(l, k, r),
           app'.sd = l, app'.k = k, app'.new = app.new, app'.own = app.own,
           app'.outer = -1,
           \/ app.pc = "wipe" /\ app'.pc = "invalidate" /\ r = [NoRequest EXCEPT !.sd = 0]
           \/ app.pc = "invalidate" /\ app'.pc = "load" /\ r = NoRequest
    PROVE  QueuesSound' /\ ClaimSound'
<1>1. /\ r.peer = NoPeer /\ (r.sd = -1 \/ (r.sd = 0 /\ app'.pc = "invalidate"))
      /\ app.pc \in Accepting /\ app'.pc \in Accepting
      /\ app.pc = "wipe" => app'.pc = "invalidate"
      /\ app.pc \in {"wipe", "invalidate"} /\ app'.pc # "wipe"
      /\ app'.pc = "invalidate" => r.sd = 0
  BY DEF NoRequest, Accepting
<1>2. k \in 1 .. Queue(l).max_len /\ app.new \in Sd /\ app.outer = -1 /\ ~writer
  BY <1>1 DEF Sound, ApplicationSound, Closing, Accepting, TypeInv, AppThread, NoSd
<1>3. /\ \A m \in Sd : /\ Queue(m)'.max_len = Queue(m).max_len
                       /\ Queue(m)'.completed = Queue(m).completed
                       /\ \A j \in 1 .. Queue(m).max_len : m # l \/ j # k =>
                            Queue(m)'.slot[j] = Queue(m).slot[j]
      /\ Queue(l)'.slot[k] = r
  BY DEF SlotWritten
<1>4. \A m, j : /\ ~Drained(m, j) /\ ~Drained(m, j)'
                /\ Wiped(m, j)' <=> (app'.pc = "invalidate" /\ m = l /\ j = k)
                /\ Wiped(m, j) <=> (app.pc = "invalidate" /\ m = l /\ j = k)
  BY <1>2 DEF Drained, Wiped
<1>5. \A m \in Sd : \A j : m # l \/ j # k => (Entry(m, j)' <=> Entry(m, j))
  BY <1>3, <1>4 DEF Entry
<1>6. ~Entry(l, k)' /\ (app.pc = "wipe" => Holds(l, k, app.new))
  <2>1. ~Entry(l, k)'
    BY <1>1, <1>3, <1>4 DEF Entry
  <2> QED BY <2>1 DEF Sound, CurrentSlot
<1>7. ~Pending(app.new) /\ \A t : Pending(t)' <=> Pending(t)
  BY <1>1 DEF Sound, NewNotPending, Pending
<1>8. \A i \in 1 .. Len(Queue(l).completed) : Queue(l).completed[i] # k
  BY <1>1 DEF Sound, CurrentSlot
<1>9. app.pc = "invalidate" => ~Entry(l, k)
  BY <1>4 DEF Entry
<1>10. EntriesSound'
  <2> SUFFICES ASSUME NEW m \in Sd, NEW j \in 1 .. Queue(m).max_len
               PROVE  EntriesSound!(m)!(j)'
    BY <1>3 DEF EntriesSound
  <2>1. CASE m = l /\ j = k
    BY <1>1, <1>3, <1>4, <1>6, <2>1
  <2>2. CASE m # l \/ j # k
    <3>1. EntriesSound!(m)!(j)
      BY DEF Sound, EntriesSound
    <3>2. Queue(m)'.slot[j] = Queue(m).slot[j] /\ (Entry(m, j)' <=> Entry(m, j))
      BY <1>3, <1>5, <2>2
    <3>3. ~Wiped(m, j)' /\ ~Drained(m, j)'
      BY <1>4, <2>2
    <3>4. app.new = Queue(m).slot[j].sd => ~Entry(m, j)
      BY <2>2, <3>1
    <3> QED BY <3>1, <3>2, <3>3, <3>4
  <2> QED BY <2>1, <2>2
<1>11. PeersUnique'
  <2> SUFFICES ASSUME NEW m \in Sd, NEW i \in 1 .. Queue(m).max_len,
                      NEW j \in 1 .. Queue(m).max_len,
                      Queue(m)'.slot[i].peer = Queue(m)'.slot[j].peer,
                      Queue(m)'.slot[i].peer # NoPeer
               PROVE  i = j
    BY <1>3 DEF PeersUnique
  <2> QED BY <1>1, <1>3 DEF Sound, PeersUnique
<1>12. CurrentSlot'
  BY <1>1, <1>3, <1>8 DEF CurrentSlot, Queue
<1>13. ClaimSound'
  <2> SUFFICES ASSUME NEW m \in Sd, recv[m].pc \in {"claim", "create"}
               PROVE  ClaimSound!(m)'
    BY DEF ClaimSound
  <2>1. ClaimSound!(m)!2 /\ recv[m].peer # NoPeer
    BY MysockAssumption DEF Sound, ClaimSound, ContextsSound
  <2>2. m # l \/ recv[m].k # k
    <3>1. app.pc = "wipe" => Queue(l).slot[k].sd # -1
      BY <1>6 DEF Holds, Entry
    <3>2. app.pc = "invalidate" => Queue(l).slot[k].sd = 0
      BY <1>2, <1>4 DEF Sound, EntriesSound
    <3> QED BY <1>1, <2>1, <3>1, <3>2
  <2> QED BY <1>1, <1>3, <2>1, <2>2
<1>14. PendingSound'
  <2> SUFFICES ASSUME NEW t \in Sd, Pending(t) PROVE PendingSound!(t)'
    BY <1>7 DEF PendingSound
  <2>1. PICK m \in Sd : m = ctx[t].listen_sd
    BY DEF Sound, PendingSound
  <2>2. PICK j \in 1 .. Queue(m).max_len : Holds(m, j, t)
    BY <2>1 DEF Sound, PendingSound
  <2>3. m # l \/ j # k
    BY <1>1, <1>6, <1>7, <1>9, <2>2 DEF Holds
  <2>4. Holds(m, j, t)' /\ j \in 1 .. Queue(m)'.max_len
    <3>1. Entry(m, j)'
      BY <1>5, <2>2, <2>3 DEF Holds
    <3> QED BY <1>3, <2>2, <2>3, <3>1 DEF Holds
  <2> QED BY <2>1, <2>4
<1>15. CompletedSound'
  <2> SUFFICES ASSUME NEW m \in Sd, NEW i \in 1 .. Len(Queue(m).completed)
               PROVE  CompletedSound!(m)!(i)'
    BY <1>3 DEF CompletedSound
  <2>1. CompletedSound!(m)!(i) /\ (m # l \/ Queue(m).completed[i] # k)
    BY <1>8 DEF Sound, CompletedSound
  <2> QED BY <1>3, <1>4, <1>5, <1>7, <2>1
<1>16. NewNotPending'
  BY <1>7 DEF NewNotPending
<1>17. EstablishedKnown'
  <2> SUFFICES ASSUME NEW t \in Sd, InCompleted(t) PROVE InCompleted(t)'
    BY DEF Sound, EstablishedKnown
  <2>1. PICK m \in Sd : \E i \in 1 .. Len(Queue(m).completed) :
          Queue(m).slot[Queue(m).completed[i]].sd = t
    BY DEF InCompleted
  <2>2. PICK i \in 1 .. Len(Queue(m).completed) :
          Queue(m).slot[Queue(m).completed[i]].sd = t
    BY <2>1
  <2>3. /\ Queue(m).completed[i] \in 1 .. Queue(m).max_len
        /\ m # l \/ Queue(m).completed[i] # k
    BY <1>8 DEF Sound, CompletedSound
  <2> QED BY <1>3, <2>2, <2>3 DEF InCompleted
<1> QED BY <1>10, <1>11, <1>12, <1>13, <1>14, <1>15, <1>16, <1>17 DEF QueuesSound

LEMMA SlotCleared ==
    ASSUME TypeInv, TypeInv', Sound, Wipe \/ Invalidate
    PROVE  Sound'
<1>1. /\ app.pc \in Accepting /\ app.outer = -1 /\ ~writer /\ app \in AppThread
      /\ app.sd \in Sd /\ app.k \in 1 .. Queue(app.sd).max_len /\ app.new \in Sd
      /\ UNCHANGED <<ctx, readers, writer, recv, tran, count>>
  BY DEF Wipe, Invalidate, AppAt, Accepting, Closing, Sound, ApplicationSound, TypeInv,
         AppThread, NoSd
<1>2. PICK r : /\ listen_table' = [listen_table EXCEPT ![app.sd].slot[app.k] = r]
               /\ \/ /\ app.pc = "wipe" /\ app' = [app EXCEPT !.pc = "invalidate"]
                     /\ r = [NoRequest EXCEPT !.sd = 0]
                  \/ /\ app.pc = "invalidate" /\ app' = [app EXCEPT !.pc = "load"]
                     /\ r = NoRequest
  BY DEF Wipe, Invalidate, AppAt, AppGoto
<1>3. PICK l \in Sd : l = app.sd
  BY <1>1
<1>4. PICK k \in 1 .. Queue(l).max_len : k = app.k
  BY <1>1, <1>3
<1>5. /\ app'.sd = l /\ app'.k = k /\ app'.new = app.new /\ app'.own = app.own
      /\ app'.outer = -1
      /\ \/ app.pc = "wipe" /\ app'.pc = "invalidate" /\ r = [NoRequest EXCEPT !.sd = 0]
         \/ app.pc = "invalidate" /\ app'.pc = "load" /\ r = NoRequest
  BY <1>1, <1>2, <1>3, <1>4 DEF AppThread
<1>6. SlotWritten(l, k, r)
  BY <1>2, <1>3, <1>4, SlotUpdate
<1>7. QueuesSound' /\ ClaimSound'
  BY <1>1, <1>3, <1>4, <1>5, <1>6, SlotFreed
<1>8. AcceptMove
  <2>1. \A m \in Sd : Queue(m)'.max_len = Queue(m).max_len
    BY <1>6 DEF SlotWritten
  <2>2. \A t \in app.own : ctx[t].live
    BY DEF Sound, ContextsSound
  <2>3. ctx[app.new].live /\ app.new \notin app.own
    BY <1>1 DEF Sound, ApplicationSound
  <2>4. app'.pc \in {"invalidate", "load"}
    BY <1>5
  <2> QED BY <1>1, <1>3, <1>4, <1>5, <2>1, <2>2, <2>3, <2>4 DEF AcceptMove, Accepting
<1>9. /\ ApplicationSound' /\ ClosingSound' /\ ContextsSound' /\ LockSound'
      /\ AcceptWoken' /\ OthersWoken' /\ CloseInHand'
  BY <1>8, AcceptMoveSound
<1> QED BY <1>7, <1>9 DEF Sound, QueuesSound

(* The end of myaccept() hands the connection out. *)
LEMMA HandedOut ==
    ASSUME TypeInv, TypeInv', Sound, StoreLen
    PROVE  Sound'
<1>1. /\ app.pc = "store" /\ readers' = readers \ {App}
      /\ listen_table' = [listen_table EXCEPT ![app.sd].cur_len = app.len - 1]
      /\ app' = [AppIdle EXCEPT !.own = IF ctx[app.new].failed THEN app.own
                                        ELSE app.own \union {app.new}]
      /\ UNCHANGED <<ctx, writer, recv, tran, count>>
  BY DEF StoreLen, AppAt
<1>2. PICK c \in Sd : c = app.new
  BY <1>1 DEF Sound, ApplicationSound, Accepting, TypeInv, AppThread, NoSd
<1>3. /\ ctx[c].live /\ c \notin app.own /\ ~ctx[c].failed
      /\ app.outer = -1 /\ ~writer /\ app.sd \in Sd
  BY <1>1, <1>2 DEF Sound, ApplicationSound, ContextsSound, Accepting, Closing
<1>4. /\ app'.pc = "idle" /\ app'.own = app.own \union {c}
      /\ app'.outer = -1 /\ app'.new = -1
  BY <1>1, <1>2, <1>3 DEF AppIdle
<1>5. \A l \in Sd : /\ Queue(l)'.max_len = Queue(l).max_len
                    /\ Queue(l)'.slot = Queue(l).slot
                    /\ Queue(l)'.completed = Queue(l).completed
  <2>1. listen_table \in [Sd -> ListenQueue]
    BY DEF TypeInv
  <2>2. \A l \in Sd : l # app.sd => Queue(l)' = Queue(l)
    BY <1>1, <2>1 DEF Queue
  <2>3. Queue(app.sd) \in ListenQueue
    BY <1>3, <2>1 DEF Queue
  <2>4. PICK l \in Sd : l = app.sd
    BY <1>3
  <2>5. Queue(l)' = [Queue(l) EXCEPT !.cur_len = app.len - 1]
    BY <1>1, <2>1, <2>4 DEF Queue
  <2>6. /\ Queue(l)'.max_len = Queue(l).max_len
        /\ Queue(l)'.slot = Queue(l).slot
        /\ Queue(l)'.completed = Queue(l).completed
    BY <2>3, <2>4, <2>5 DEF ListenQueue
  <2> QED BY <2>2, <2>4, <2>6
<1>6. AcceptMove
  <2>1. \A t \in app.own : ctx[t].live
    BY DEF Sound, ContextsSound
  <2> QED BY <1>1, <1>3, <1>4, <1>5, <2>1 DEF AcceptMove, Accepting
<1>7. QueuesSound'
  <2>1. \A l \in Sd : QueueSame(l)
    BY <1>5 DEF QueueSame
  <2>2. ASSUME NEW t \in Sd, \E l \in Sd : \E k : Holds(l, k, t)
        PROVE  t \notin app'.own
    <3>1. PICK l \in Sd : \E k : Holds(l, k, t)
      BY <2>2
    <3>2. PICK k : Holds(l, k, t)
      BY <3>1
    <3>3. EntriesSound!(l)!(k)!1
      BY <3>2 DEF Holds, Entry, Sound, EntriesSound
    <3> QED BY <1>1, <1>2, <1>4, <3>2, <3>3 DEF Holds
  <2>3. \A t \in Sd : Pending(t)' => Pending(t)
    BY <1>1 DEF Pending
  <2>4. \A t \in Sd : ctx'[t].live /\ ~ctx'[t].active /\ tran'[t].pc \in Established
                        => t \in app'.own \/ InCompleted(t)
    BY <1>1, <1>2, <1>4 DEF Sound, EstablishedKnown
  <2>5. app.pc # "invalidate" /\ app'.pc \notin Accepting
    BY <1>1, <1>4 DEF Accepting
  <2> QED BY <1>1, <1>3, <1>4, <2>1, <2>2, <2>3, <2>4, <2>5, IdleQueues
<1>8. ClaimSound'
  BY <1>1, <1>5 DEF Sound, ClaimSound
<1>9. /\ ApplicationSound' /\ ClosingSound' /\ ContextsSound' /\ LockSound'
      /\ AcceptWoken' /\ OthersWoken' /\ CloseInHand'
  BY <1>6, AcceptMoveSound
<1> QED BY <1>7, <1>8, <1>9 DEF Sound, QueuesSound

(* myaccept() takes the first completed connection in hand. *)
LEMMA ConnectionTaken ==
    ASSUME TypeInv, TypeInv', Sound, Run', DequeueConnection,
           Queue(app.sd).completed # <<>>
    PROVE  Sound'
<1>1. app.pc = "accept" /\ UNCHANGED <<ctx, readers, writer, recv, tran, count>>
  BY DEF DequeueConnection, AppAt
<1>2. PICK l \in Sd : l = app.sd
  BY <1>1 DEF Sound, ApplicationSound
<1>3. PICK k : k = Head(Queue(l).completed)
  OBVIOUS
<1>4. PICK c : c = Queue(l).slot[k].sd
  OBVIOUS
<1>5. /\ listen_table' = [listen_table EXCEPT ![l] = Pop(Queue(l))]
      /\ app' = [app EXCEPT !.pc = "wipe", !.k = k, !.new = c]
      /\ c \in Sd /\ ctx[c].live
  BY <1>2, <1>3, <1>4 DEF DequeueConnection, Check, Run
<1>6. /\ app \in AppThread /\ app.outer = -1 /\ ~writer /\ app.new = -1
      /\ listen_table \in [Sd -> ListenQueue]
      /\ Queue(l) \in ListenQueue /\ Queue(l).completed \in Seq(SlotNo)
  BY <1>1, QueueType DEF Sound, ApplicationSound, Closing, Accepting, TypeInv, Queue
<1>7. /\ app'.pc = "wipe" /\ app'.sd = l /\ app'.k = k /\ app'.new = c
      /\ app'.own = app.own /\ app'.outer = -1
  BY <1>2, <1>5, <1>6, QueueType DEF AppThread
<1>8. /\ \A m \in Sd : /\ Queue(m)'.max_len = Queue(m).max_len
                       /\ Queue(m)'.slot = Queue(m).slot
                       /\ m # l => Queue(m)'.completed = Queue(m).completed
      /\ Queue(l)'.completed = Tail(Queue(l).completed)
  <2>1. \A m \in Sd : m # l => Queue(m)' = Queue(m)
    BY <1>5, <1>6 DEF Queue
  <2>2. Queue(l)' = [Queue(l) EXCEPT !.completed = Tail(@)]
    BY <1>5, <1>6 DEF Queue, Pop
  <2>3. /\ Queue(l)'.max_len = Queue(l).max_len /\ Queue(l)'.slot = Queue(l).slot
        /\ Queue(l)'.completed = Tail(Queue(l).completed)
    BY <1>6, <2>2 DEF ListenQueue
  <2> QED BY <2>1, <2>3
<1>9. /\ 1 \in 1 .. Len(Queue(l).completed) /\ k = Queue(l).completed[1]
      /\ Len(Queue(l)'.completed) = Len(Queue(l).completed) - 1
      /\ \A i \in 1 .. Len(Queue(l)'.completed) :
           /\ Queue(l)'.completed[i] = Queue(l).completed[i + 1]
           /\ i + 1 \in 1 .. Len(Queue(l).completed)
  <2>1. Queue(l).completed # <<>>
    BY <1>2
  <2>2. PICK q \in Seq(SlotNo) : q = Queue(l).completed
    BY <1>6
  <2>3. /\ Head(q) = q[1] /\ Len(q) \in Nat /\ Len(q) > 0 /\ Len(Tail(q)) = Len(q) - 1
        /\ \A i \in 1 .. Len(Tail(q)) : Tail(q)[i] = q[i + 1]
    BY <2>1, <2>2
  <2> QED BY <1>3, <1>8, <2>2, <2>3
<1>10. /\ \A m, j : /\ ~Drained(m, j) /\ ~Drained(m, j)'
                    /\ ~Wiped(m, j) /\ ~Wiped(m, j)'
       /\ \A m \in Sd : \A j : Entry(m, j)' <=> Entry(m, j)
  <2>1. \A m, j : /\ ~Drained(m, j) /\ ~Drained(m, j)'
                  /\ ~Wiped(m, j) /\ ~Wiped(m, j)'
    BY <1>1, <1>6, <1>7 DEF Drained, Wiped
  <2> QED BY <1>8, <2>1 DEF Entry
<1>11. CompletedSound!(l)!(1)
  BY <1>9 DEF Sound, CompletedSound
<1>12. /\ Holds(l, k, c) /\ ~Pending(c) /\ k \in 1 .. Queue(l).max_len
       /\ \A j \in 1 .. Len(Queue(l).completed) : Queue(l).completed[j] = k => j = 1
  BY <1>4, <1>9, <1>10, <1>11 DEF Holds
<1>13. EntriesSound!(l)!(k)!1
  BY <1>12 DEF Sound, EntriesSound, Holds
<1>14. c \notin app.own
  BY <1>12, <1>13 DEF Holds
<1>15. AcceptMove
  <2>1. \A t \in app.own : ctx[t].live
    BY DEF Sound, ContextsSound
  <2> QED BY <1>1, <1>2, <1>5, <1>6, <1>7, <1>8, <1>12, <1>14, <2>1
          DEF AcceptMove, Accepting
<1>16. EntriesSound'
  <2> SUFFICES ASSUME NEW m \in Sd, NEW j \in 1 .. Queue(m).max_len
               PROVE  EntriesSound!(m)!(j)'
    BY <1>8 DEF EntriesSound
  <2>1. EntriesSound!(m)!(j)
    BY DEF Sound, EntriesSound
  <2>2. ASSUME Entry(m, j), Queue(m).slot[j].sd = c PROVE m = l /\ j = k
    <3>1. m = l
      BY <1>12, <1>13, <2>1, <2>2 DEF Holds
    <3>2. Queue(l).slot[j].peer = Queue(l).slot[k].peer /\ Queue(l).slot[j].peer # NoPeer
      BY <1>12, <1>13, <2>1, <2>2, <3>1 DEF Holds
    <3> QED BY <1>12, <3>1, <3>2 DEF Sound, PeersUnique
  <2>3. Queue(m)'.slot[j] = Queue(m).slot[j] /\ (Entry(m, j)' <=> Entry(m, j))
    BY <1>8, <1>10
  <2>4. ~Drained(m, j)' /\ ~Wiped(m, j)'
    BY <1>10
  <2> QED BY <1>1, <1>7, <2>1, <2>2, <2>3, <2>4
<1>17. PeersUnique'
  BY <1>8 DEF Sound, PeersUnique
<1>18. CurrentSlot'
  <2>1. Holds(l, k, c)'
    BY <1>8, <1>10, <1>12 DEF Holds
  <2>2. ASSUME NEW i \in 1 .. Len(Queue(l)'.completed) PROVE Queue(l)'.completed[i] # k
    BY <1>9, <1>12
  <2> QED BY <1>7, <2>1, <2>2 DEF CurrentSlot, Queue, Holds, Entry, Drained, Wiped
<1>19. ClaimSound'
  BY <1>1, <1>8 DEF Sound, ClaimSound
<1>20. \A t : Pending(t)' <=> Pending(t)
  BY <1>1 DEF Pending
<1>21. PendingSound'
  <2> SUFFICES ASSUME NEW t \in Sd, Pending(t) PROVE PendingSound!(t)'
    BY <1>20 DEF PendingSound
  <2>1. PICK m \in Sd : m = ctx[t].listen_sd
    BY DEF Sound, PendingSound
  <2>2. PICK j \in 1 .. Queue(m).max_len : Holds(m, j, t)
    BY <2>1 DEF Sound, PendingSound
  <2>3. Holds(m, j, t)' /\ j \in 1 .. Queue(m)'.max_len
    BY <1>8, <1>10, <2>2 DEF Holds
  <2> QED BY <1>1, <2>1, <2>3
<1>22. CompletedSound'
  <2> SUFFICES ASSUME NEW m \in Sd, NEW i \in 1 .. Len(Queue(m)'.completed)
               PROVE  CompletedSound!(m)!(i)'
    BY DEF CompletedSound
  <2>1. CASE m # l
    BY <1>8, <1>10, <1>20, <2>1 DEF Sound, CompletedSound
  <2>2. CASE m = l
    <3>1. CompletedSound!(l)!(i + 1)
      BY <1>9, <2>2 DEF Sound, CompletedSound
    <3>2. \A j \in 1 .. Len(Queue(l)'.completed) :
            Queue(l)'.completed[j] = Queue(l)'.completed[i] => j = i
      BY <1>9, <2>2, <3>1
    <3> QED BY <1>8, <1>9, <1>10, <1>20, <2>2, <3>1, <3>2
  <2> QED BY <2>1, <2>2
<1>23. NewNotPending'
  BY <1>7, <1>12, <1>20 DEF NewNotPending
<1>24. EstablishedKnown'
  <2> SUFFICES ASSUME NEW t \in Sd, InCompleted(t) PROVE t = c \/ InCompleted(t)'
    <3>1. \A t \in Sd : app.new # t
      BY <1>6, MysockAssumption DEF Sd
    <3> QED BY <1>1, <1>7, <3>1 DEF Sound, EstablishedKnown
  <2>1. PICK m \in Sd : \E i \in 1 .. Len(Queue(m).completed) :
          Queue(m).slot[Queue(m).completed[i]].sd = t
    BY DEF InCompleted
  <2>2. PICK i \in 1 .. Len(Queue(m).completed) :
          Queue(m).slot[Queue(m).completed[i]].sd = t
    BY <2>1
  <2>3. CASE m # l
    BY <1>8, <2>2, <2>3 DEF InCompleted
  <2>4. CASE m = l /\ i = 1
    BY <1>4, <1>9, <2>2, <2>4
  <2>5. CASE m = l /\ i # 1
    <3>1. /\ i - 1 \in 1 .. Len(Queue(l)'.completed)
          /\ Queue(l)'.completed[i - 1] = Queue(l).completed[i]
      <4>1. Len(Queue(l).completed) \in Nat
        BY <1>6
      <4>2. i - 1 \in 1 .. Len(Queue(l)'.completed) /\ (i - 1) + 1 = i
        BY <1>9, <2>5, <4>1
      <4> QED BY <1>9, <4>2
    <3> QED BY <1>8, <2>2, <2>5, <3>1 DEF InCompleted
  <2> QED BY <2>3, <2>4, <2>5
<1>25. /\ ApplicationSound' /\ ClosingSound' /\ ContextsSound' /\ LockSound'
       /\ AcceptWoken' /\ OthersWoken' /\ CloseInHand'
  BY <1>15, AcceptMoveSound
<1> QED BY <1>16, <1>17, <1>18, <1>19, <1>21, <1>22, <1>23, <1>24, <1>25 DEF Sound

(* The teardown of the queue of socket l.  A step leaves a context alone,  *)
(* asks for its close, or frees it.                                        *)
ContextKept(t) ==
    /\ recv'[t] = recv[t] /\ tran'[t] = tran[t]
    /\ ctx'[t].live = ctx[t].live /\ ctx'[t].listening = ctx[t].listening
    /\ ctx'[t].active = ctx[t].active /\ ctx'[t].failed = ctx[t].failed
    /\ ctx'[t].peer = ctx[t].peer /\ ctx'[t].listen_sd = ctx[t].listen_sd
    /\ ctx'[t].app_recv = ctx[t].app_recv
    /\ ctx'[t].network_recv = ctx[t].network_recv
    /\ \/ ctx'[t].close_requested = ctx[t].close_requested
       \/ app'.pc = "closing" /\ app'.sd = t

ContextFreed(t) ==
    /\ recv[t].pc \in {"none", "done"} /\ t \notin app.own
    /\ recv'[t].pc = "none" /\ tran'[t].pc = "none" /\ ~tran'[t].fin
    /\ ~ctx'[t].live /\ ~ctx'[t].listening /\ ~ctx'[t].active /\ ~ctx'[t].failed
    /\ ctx'[t].app_recv = 0 /\ ~ctx'[t].close_requested

TeardownMove(l) ==
    /\ \A t \in Sd : ContextKept(t) \/ ContextFreed(t)
    /\ \A m \in Sd : Queue(m)' = Queue(m) \/ (m = l /\ Queue(m)' = NoQueue)
    /\ readers = {} /\ readers' = {} /\ count' = count
    /\ l \in app.own /\ ctx[l].listening /\ recv[l].pc \in {"none", "done"}
    /\ app'.own = app.own /\ app'.new = -1
    /\ app.pc \notin {"wrote", "closing"} /\ app'.pc \in {"drain", "closing", "free"}
    /\ app'.pc = "closing" => app'.sd \in Sd /\ app'.outer = l
    /\ app'.pc # "closing" => app'.sd = l /\ app'.outer = -1
    /\ writer' <=> app'.pc # "free"
    /\ app'.pc = "drain" => app'.k \in 1 .. Queue(l)'.max_len + 1
    /\ app'.pc = "free" => Queue(l)'.max_len = 0

LEMMA TeardownFrame ==
    ASSUME TypeInv, TypeInv', Sound, NEW l \in Sd, TeardownMove(l)
    PROVE  /\ ApplicationSound' /\ ClosingSound' /\ ContextsSound' /\ LockSound'
           /\ ClaimSound' /\ AcceptWoken' /\ OthersWoken'
<1>1. \A t \in Sd : ContextKept(t) \/ ContextFreed(t)
  BY DEF TeardownMove
<1>2. /\ app'.own = app.own /\ app.own \subseteq Sd /\ app'.new = -1 /\ l \in app.own
      /\ app'.pc \in {"drain", "closing", "free"} /\ l # -1 /\ readers' = {}
      /\ app'.pc = "closing" => app'.sd \in Sd /\ app'.outer = l
      /\ app'.pc # "closing" => app'.sd = l /\ app'.outer = -1
      /\ writer' <=> app'.pc # "free"
  BY MysockAssumption DEF TeardownMove, TypeInv, AppThread, Sd
<1>3. /\ ContextKept(l) /\ ctx[l].listening /\ ctx'[l].listening
      /\ recv'[l].pc \in {"none", "done"} /\ tran'[l].pc = "none"
  <2>1. ContextKept(l) /\ ctx[l].listening /\ recv[l].pc \in {"none", "done"}
    BY <1>1, <1>2 DEF TeardownMove, ContextFreed
  <2>2. tran[l].pc = "none"
    BY <2>1 DEF Sound, ContextsSound
  <2> QED BY <2>1, <2>2 DEF ContextKept
<1>4. \A t \in Sd : /\ recv[t].pc \notin {"claim", "create", "pass", "passed"}
                    /\ tran[t].pc \notin {"found", "completed"}
                    /\ recv'[t].pc \notin {"claim", "create", "pass", "passed"}
                    /\ tran'[t].pc \notin {"found", "completed"}
  <2>1. \A t \in Sd : /\ recv[t].pc \notin {"claim", "create", "pass", "passed"}
                      /\ tran[t].pc \notin {"found", "completed"}
    BY DEF TeardownMove, Sound, LockSound
  <2> QED BY <1>1, <2>1 DEF ContextKept, ContextFreed
<1>5. ApplicationSound'
  <2>1. Passive' = l
    BY <1>2 DEF Passive
  <2>2. app'.pc \notin Accepting \union {"accept", "asleep_accept", "backlog", "passive"}
    BY <1>2 DEF Accepting
  <2>3. (app.pc = "drain" => app.k \in 1 .. Queue(app.sd).max_len + 1)'
    BY <1>2 DEF TeardownMove, Queue
  <2>4. (app.pc \in {"backlog", "accept", "asleep_accept", "passive", "drain"}
            \union Accepting => ctx[app.sd].listening)'
    BY <1>2, <1>3, <2>2
  <2>5. (writer <=> (app.pc = "drain" \/ app.outer # -1))'
    BY <1>2
  <2>6. (app.outer # -1 => app.pc \in Closing)'
    BY <1>2 DEF Closing
  <2> QED BY <1>2, <1>3, <2>1, <2>2, <2>3, <2>4, <2>5, <2>6 DEF ApplicationSound
<1>6. ClosingSound'
  <2>1. (app.pc = "free" => Queue(app.sd).max_len = 0)'
    BY <1>2 DEF TeardownMove, Queue
  <2> QED BY <1>2, <1>3, <2>1 DEF ClosingSound
<1>7. ContextsSound'
  <2>1. (app.own \subseteq {s \in Sd : ctx[s].live})'
    <3> SUFFICES ASSUME NEW t \in app.own PROVE ctx'[t].live
      BY <1>2
    <3> QED BY <1>1, <1>2 DEF ContextKept, ContextFreed, Sound, ContextsSound
  <2>2. ASSUME NEW t \in Sd PROVE ContextsSound!2!(t)'
    <3>1. ContextsSound!2!(t)
      BY DEF Sound, ContextsSound
    <3>2. Queue(t)'.max_len = Queue(t).max_len \/ Queue(t)'.max_len = 0
      BY DEF TeardownMove, NoQueue
    <3>3. CASE ContextKept(t)
      BY <1>2, <3>1, <3>2, <3>3 DEF ContextKept
    <3>4. CASE ContextFreed(t)
      <4>1. Queue(t)'.max_len = 0
        <5>1. Queue(t).max_len \in Nat
          BY QueueType, MysockAssumption DEF SlotNo
        <5>2. ~ctx[t].listening
          BY <3>1, <3>4 DEF ContextFreed
        <5> QED BY <3>1, <3>2, <5>1, <5>2
      <4> QED BY <1>2, <3>4, <4>1 DEF ContextFreed
    <3> QED BY <1>1, <3>3, <3>4
  <2> QED BY <2>1, <2>2 DEF ContextsSound
<1>8. LockSound'
  BY <1>2, <1>4 DEF LockSound, Accepting
<1>9. ClaimSound'
  BY <1>4 DEF ClaimSound
<1>10. AcceptWoken'
  BY <1>2 DEF AcceptWoken
<1>11. OthersWoken'
  <2>1. ASSUME NEW t \in Sd PROVE OthersWoken!3!(t)'
    <3>1. CASE ContextFreed(t)
      BY <3>1 DEF ContextFreed
    <3>2. CASE ContextKept(t) /\ app'.pc = "closing" /\ app'.sd = t
      BY <3>2 DEF Broadcasting
    <3>3. CASE ContextKept(t) /\ ~(app'.pc = "closing" /\ app'.sd = t)
      <4>1. /\ NetworkEvent(t)' <=> NetworkEvent(t)
            /\ AnyEvent(t)' <=> AnyEvent(t)
        BY <3>3 DEF ContextKept, NetworkEvent, AnyEvent, CloseReady
      <4>2. Broadcasting(t) => Broadcasting(t)'
        <5>1. recv'[t] = recv[t] /\ app.pc \notin {"wrote", "closing"}
          BY <3>3 DEF ContextKept, TeardownMove
        <5> QED BY <1>4, <5>1 DEF Broadcasting
      <4> QED BY <3>3, <4>1, <4>2 DEF ContextKept, Sound, OthersWoken
    <3> QED BY <1>1, <3>1, <3>2, <3>3
  <2>2. app'.pc \notin {"asleep_conn", "asleep_read"}
    BY <1>2
  <2> QED BY <2>1, <2>2 DEF OthersWoken
<1> QED BY <1>5, <1>6, <1>7, <1>8, <1>9, <1>10, <1>11

(* Slots that the teardown passes hold nothing, or a context it has freed. *)
LEMMA TeardownQueues ==
    ASSUME TypeInv, TypeInv', Sound, NEW l \in Sd, TeardownMove(l),
           app.pc # "invalidate", app.new = -1,
           Queue(l)' = Queue(l) \/ \A k : ~Entry(l, k),
           \A m \in Sd : \A k \in 1 .. Queue(m).max_len :
             /\ Entry(m, k)' => /\ Entry(m, k)
                                /\ ContextKept(Queue(m).slot[k].sd)
             /\ Entry(m, k) /\ ~Entry(m, k)' /\ Queue(m)' = Queue(m)
                  => Drained(m, k)' /\ ContextFreed(Queue(m).slot[k].sd)
             /\ Drained(m, k) /\ Queue(m)' = Queue(m) => Drained(m, k)'
             /\ Drained(m, k)' => Drained(m, k) \/ Queue(m).slot[k].sd = -1
                                  \/ ContextFreed(Queue(m).slot[k].sd)
    PROVE  /\ EntriesSound' /\ PeersUnique' /\ PendingSound' /\ CompletedSound'
           /\ NewNotPending' /\ EstablishedKnown'
<1>1. /\ app'.own = app.own /\ app'.new = -1 /\ -1 \notin Sd
      /\ app'.pc \notin Accepting /\ app'.pc # "invalidate"
  BY MysockAssumption DEF TeardownMove, Accepting, Sd
<1>2. \A t \in Sd : ContextKept(t) \/ ContextFreed(t)
  BY DEF TeardownMove
<1>3. \A m \in Sd : Queue(m)' = Queue(m) \/ (m = l /\ Queue(m)' = NoQueue)
  BY DEF TeardownMove
<1>4. \A m \in Sd : \A k \in 1 .. Queue(m)'.max_len :
        Queue(m)' = Queue(m) /\ k \in 1 .. Queue(m).max_len
  BY <1>3 DEF NoQueue
<1>5. \A t \in Sd : Pending(t)' => Pending(t) /\ ContextKept(t)
  BY <1>2 DEF Pending, ContextKept, ContextFreed
<1>6. EntriesSound'
  <2> SUFFICES ASSUME NEW m \in Sd, NEW k \in 1 .. Queue(m)'.max_len
               PROVE  EntriesSound!(m)!(k)'
    BY DEF EntriesSound
  <2>1. Queue(m)' = Queue(m) /\ k \in 1 .. Queue(m).max_len
    BY <1>4
  <2>2. EntriesSound!(m)!(k)
    BY <2>1 DEF Sound, EntriesSound
  <2>3. Queue(m).slot[k].sd \in NoSd
    BY <2>1, QueueType
  <2>4. ASSUME Entry(m, k)'
        PROVE  LET r == Queue(m).slot[k] IN
               /\ ctx'[r.sd].live /\ ctx'[r.sd].listen_sd = m
               /\ ctx'[r.sd].peer = r.peer /\ r.peer # NoPeer
               /\ r.sd \notin app'.own /\ app'.new # r.sd
    <3>1. Entry(m, k) /\ ContextKept(Queue(m).slot[k].sd)
      BY <2>1, <2>4
    <3>2. Queue(m).slot[k].sd \in Sd
      BY <2>3, <3>1 DEF Entry, NoSd
    <3> QED BY <1>1, <2>1, <2>2, <3>1, <3>2 DEF ContextKept
  <2>5. ~Wiped(m, k)'
    BY <1>1 DEF Wiped
  <2>6. ASSUME Drained(m, k)', Queue(m).slot[k].sd # -1
        PROVE  ~ctx'[Queue(m).slot[k].sd].live
    <3>1. Queue(m).slot[k].sd \in Sd
      BY <2>3, <2>6 DEF NoSd
    <3>2. Drained(m, k) \/ ContextFreed(Queue(m).slot[k].sd)
      BY <2>1, <2>6
    <3> QED BY <1>2, <2>2, <2>6, <3>1, <3>2 DEF ContextKept, ContextFreed
  <2>7. Queue(m)'.slot[k] = Queue(m).slot[k]
    BY <2>1
  <2>8. Queue(m).slot[k].sd = -1 => Queue(m).slot[k].peer = NoPeer
    BY <2>2
  <2> QED BY <2>4, <2>5, <2>6, <2>7, <2>8
<1>7. PeersUnique'
  BY <1>4 DEF Sound, PeersUnique
<1>8. PendingSound'
  <2> SUFFICES ASSUME NEW t \in Sd, Pending(t)' PROVE PendingSound!(t)'
    BY DEF PendingSound
  <2>1. PICK m \in Sd : m = ctx[t].listen_sd
    BY <1>5 DEF Sound, PendingSound
  <2>2. PICK k \in 1 .. Queue(m).max_len : Holds(m, k, t)
    BY <1>5, <2>1 DEF Sound, PendingSound
  <2>3. Queue(m)' = Queue(m)
    BY <1>3, <2>2 DEF Holds
  <2>4. ctx[t].live /\ ContextKept(t)
    BY <1>5, <2>2 DEF Holds, Entry, Sound, EntriesSound
  <2>5. Entry(m, k)'
    BY <2>2, <2>3, <2>4 DEF Holds, ContextKept, ContextFreed
  <2>6. Holds(m, k, t)' /\ k \in 1 .. Queue(m)'.max_len /\ ctx'[t].listen_sd = m
    BY <2>1, <2>2, <2>3, <2>4, <2>5 DEF Holds, ContextKept
  <2> QED BY <2>6
<1>9. CompletedSound'
  <2> SUFFICES ASSUME NEW m \in Sd, NEW i \in 1 .. Len(Queue(m)'.completed)
               PROVE  CompletedSound!(m)!(i)'
    BY DEF CompletedSound
  <2>1. Queue(m)' = Queue(m)
    BY <1>3 DEF NoQueue
  <2>2. CompletedSound!(m)!(i)
    BY <2>1 DEF Sound, CompletedSound
  <2>3. PICK k \in 1 .. Queue(m).max_len : k = Queue(m).completed[i]
    BY <2>2
  <2>4. Queue(m).slot[k].sd # -1
    BY <2>2, <2>3 DEF Entry
  <2>5. Queue(m).slot[k].sd \in Sd
    BY <2>4, QueueType DEF NoSd
  <2>6. ASSUME ~Drained(m, k)'
        PROVE  Entry(m, k)' /\ ~Pending(Queue(m).slot[k].sd)'
    <3>1. ~Drained(m, k)
      BY <2>1, <2>6
    <3>2. Entry(m, k) /\ ~Pending(Queue(m).slot[k].sd)
      BY <2>2, <2>3, <3>1
    <3>3. Entry(m, k)'
      BY <2>1, <2>6, <3>2
    <3> QED BY <1>5, <2>1, <2>5, <3>2, <3>3
  <2> QED BY <2>1, <2>2, <2>3, <2>4, <2>6
<1>10. NewNotPending'
  BY <1>1 DEF NewNotPending
<1>11. EstablishedKnown'
  <2> SUFFICES ASSUME NEW t \in Sd, ctx'[t].live, ~ctx'[t].active,
                      tran'[t].pc \in Established, t \notin app.own
               PROVE  InCompleted(t)'
    BY <1>1 DEF EstablishedKnown
  <2>1. ContextKept(t)
    BY <1>2 DEF ContextFreed
  <2>2. InCompleted(t) /\ ctx[t].live
    BY <1>1, <2>1 DEF ContextKept, Sound, EstablishedKnown
  <2>3. PICK m \in Sd : \E i \in 1 .. Len(Queue(m).completed) :
          Queue(m).slot[Queue(m).completed[i]].sd = t
    BY <2>2 DEF InCompleted
  <2>4. PICK i \in 1 .. Len(Queue(m).completed) :
          Queue(m).slot[Queue(m).completed[i]].sd = t
    BY <2>3
  <2>5. PICK k \in 1 .. Queue(m).max_len : k = Queue(m).completed[i]
    BY DEF Sound, CompletedSound
  <2>6. Queue(m)' = Queue(m)
    <3>1. SUFFICES ASSUME Queue(m)' # Queue(m) PROVE FALSE
      OBVIOUS
    <3>2. ~Entry(m, k)
      BY <1>3, <3>1
    <3>3. Drained(m, k)
      BY <2>5, <3>2 DEF Sound, CompletedSound
    <3> QED BY <1>1, <2>2, <2>4, <2>5, <3>3 DEF Sound, EntriesSound
  <2> QED BY <2>4, <2>6 DEF InCompleted
<1> QED BY <1>6, <1>7, <1>8, <1>9, <1>10, <1>11

LEMMA AllKept ==
    ASSUME UNCHANGED <<ctx, recv, tran>>, NEW t \in Sd
    PROVE  ContextKept(t)
BY DEF ContextKept

(* _mysock_close_passive_socket() takes the lock. *)
LEMMA TeardownBegins ==
    ASSUME TypeInv, TypeInv', Sound, ClosePassive
    PROVE  Sound'
<1>1. /\ app.pc = "passive" /\ readers = {} /\ readers' = {} /\ writer'
      /\ app' = [app EXCEPT !.pc = "drain", !.k = 1]
      /\ UNCHANGED <<ctx, listen_table, recv, tran, count>>
  BY DEF ClosePassive, AppAt
<1>2. PICK l \in Sd : l = app.sd
  BY <1>1 DEF Sound, ApplicationSound
<1>3. /\ app.outer = -1 /\ app.new = -1 /\ ~writer /\ l \in app.own /\ ctx[l].listening
      /\ recv[l].pc \in {"none", "done"} /\ app \in AppThread
      /\ Queue(l).max_len \in Nat
  <2>1. Queue(l).max_len \in Nat
    BY QueueType, MysockAssumption DEF SlotNo
  <2>2. app.outer = -1 /\ app.new = -1 /\ ~writer /\ app \in AppThread
    BY <1>1 DEF Sound, ApplicationSound, Closing, Accepting, TypeInv
  <2>3. l \in app.own /\ ctx[l].listening /\ recv[l].pc \in {"none", "done"}
    BY <1>1, <1>2, <2>2 DEF Sound, ApplicationSound, ClosingSound, Passive
  <2> QED BY <2>1, <2>2, <2>3
<1>4. /\ app'.pc = "drain" /\ app'.k = 1 /\ app'.sd = l /\ app'.outer = -1
      /\ app'.own = app.own /\ app'.new = -1
  BY <1>1, <1>2, <1>3 DEF AppThread
<1>5. \A m \in Sd : Queue(m)' = Queue(m)
  BY <1>1 DEF Queue
<1>6. TeardownMove(l)
  BY <1>1, <1>3, <1>4, <1>5, AllKept DEF TeardownMove
<1>7. \A m \in Sd : \A k \in 1 .. Queue(m).max_len :
        /\ ~Drained(m, k) /\ ~Drained(m, k)'
        /\ Entry(m, k)' <=> Entry(m, k)
  <2> SUFFICES ASSUME NEW m \in Sd, NEW k \in 1 .. Queue(m).max_len
               PROVE  /\ ~Drained(m, k) /\ ~Drained(m, k)'
                      /\ Entry(m, k)' <=> Entry(m, k)
    OBVIOUS
  <2>1. ~Drained(m, k) /\ ~Drained(m, k)' /\ ~Wiped(m, k) /\ ~Wiped(m, k)'
    BY <1>1, <1>3, <1>4 DEF Drained, Wiped
  <2> QED BY <1>5, <2>1 DEF Entry
<1>8. \A m \in Sd : \A k \in 1 .. Queue(m).max_len :
        Entry(m, k) => Queue(m).slot[k].sd \in Sd
  BY QueueType DEF Entry, NoSd
<1>9. /\ EntriesSound' /\ PeersUnique' /\ PendingSound' /\ CompletedSound'
      /\ NewNotPending' /\ EstablishedKnown'
  BY <1>1, <1>3, <1>5, <1>6, <1>7, <1>8, AllKept, TeardownQueues
<1>10. CurrentSlot'
  BY <1>4 DEF CurrentSlot
<1>11. CloseInHand'
  BY <1>1, <1>2, <1>3, <1>4, CloseKept
<1> QED BY <1>6, <1>9, <1>10, <1>11, TeardownFrame DEF Sound

(* The loop over the queue. *)
LEMMA Draining ==
    ASSUME TypeInv, Sound, app.pc = "drain"
    PROVE  /\ app.sd \in Sd /\ app.sd \in app.own /\ ctx[app.sd].listening
           /\ app.outer = -1 /\ app.new = -1 /\ writer /\ readers = {}
           /\ recv[app.sd].pc \in {"none", "done"} /\ app \in AppThread
           /\ app.k \in 1 .. Queue(app.sd).max_len + 1
           /\ Queue(app.sd).max_len \in Nat
           /\ \A m, k : /\ ~Wiped(m, k)
                        /\ Drained(m, k) <=> (m = app.sd /\ k < app.k)
<1>1. app.sd \in Sd /\ app.outer = -1 /\ app.new = -1 /\ writer
  BY DEF Sound, ApplicationSound, Closing, Accepting
<1>2. /\ app.sd \in app.own /\ readers = {} /\ recv[app.sd].pc \in {"none", "done"}
      /\ ctx[app.sd].listening /\ app \in AppThread
      /\ app.k \in 1 .. Queue(app.sd).max_len + 1
  BY <1>1 DEF Sound, ApplicationSound, ClosingSound, LockSound, Passive, TypeInv
<1>3. Queue(app.sd).max_len \in Nat
  BY <1>1, QueueType, MysockAssumption DEF SlotNo
<1>4. \A m, k : ~Wiped(m, k) /\ (Drained(m, k) <=> (m = app.sd /\ k < app.k))
  BY <1>1 DEF Wiped, Drained, Passive
<1> QED BY <1>1, <1>2, <1>3, <1>4

(* A free slot is skipped. *)
LEMMA SlotSkipped ==
    ASSUME TypeInv, TypeInv', Sound, app.pc = "drain", NEW l \in Sd, l = app.sd,
           app.k <= Queue(l).max_len, Queue(l).slot[app.k].sd = -1,
           app' = [app EXCEPT !.k = @ + 1],
           UNCHANGED <<ctx, listen_table, readers, writer, recv, tran, count>>
    PROVE  Sound'
<1>1. /\ l \in app.own /\ ctx[l].listening /\ app.outer = -1 /\ app.new = -1 /\ writer
      /\ readers = {} /\ recv[l].pc \in {"none", "done"} /\ app \in AppThread
      /\ app.k \in 1 .. Queue(l).max_len /\ Queue(l).max_len \in Nat
      /\ \A m, k : ~Wiped(m, k) /\ (Drained(m, k) <=> (m = l /\ k < app.k))
  BY Draining
<1>2. /\ app'.pc = "drain" /\ app'.k = app.k + 1 /\ app'.sd = l /\ app'.outer = -1
      /\ app'.own = app.own /\ app'.new = -1
  BY <1>1 DEF AppThread
<1>3. \A m \in Sd : Queue(m)' = Queue(m)
  BY DEF Queue
<1>4. TeardownMove(l)
  BY <1>1, <1>2, <1>3, AllKept DEF TeardownMove
<1>5. \A m \in Sd : \A k \in 1 .. Queue(m).max_len :
        /\ Drained(m, k) => Drained(m, k)'
        /\ Drained(m, k)' => Drained(m, k) \/ Queue(m).slot[k].sd = -1
        /\ Entry(m, k)' <=> Entry(m, k)
  <2> SUFFICES ASSUME NEW m \in Sd, NEW k \in 1 .. Queue(m).max_len
               PROVE  <1>5!(m)!(k)
    OBVIOUS
  <2>1. ~Wiped(m, k)' /\ (Drained(m, k)' <=> (m = l /\ k < app.k + 1))
    BY <1>1, <1>2 DEF Drained, Wiped, Passive
  <2>2. (m = l /\ k < app.k + 1) <=> (m = l /\ k < app.k) \/ (m = l /\ k = app.k)
    BY <1>1
  <2> QED BY <1>1, <1>3, <2>1, <2>2 DEF Entry
<1>6. \A m \in Sd : \A k \in 1 .. Queue(m).max_len :
        Entry(m, k) => Queue(m).slot[k].sd \in Sd
  BY QueueType DEF Entry, NoSd
<1>7. /\ EntriesSound' /\ PeersUnique' /\ PendingSound' /\ CompletedSound'
      /\ NewNotPending' /\ EstablishedKnown'
  BY <1>1, <1>3, <1>4, <1>5, <1>6, AllKept, TeardownQueues
<1>8. CurrentSlot'
  BY <1>2 DEF CurrentSlot
<1>9. CloseInHand'
  BY <1>1, <1>2, CloseKept
<1> QED BY <1>4, <1>7, <1>8, <1>9, TeardownFrame DEF Sound

(* The connection in a slot is closed. *)
LEMMA NestedClose ==
    ASSUME TypeInv, TypeInv', Sound, app.pc = "drain", NEW l \in Sd, l = app.sd,
           app.k <= Queue(l).max_len,
           NEW c, c = Queue(l).slot[app.k].sd, c # -1, CloseRequest(c, l),
           UNCHANGED <<listen_table, readers, writer, recv, tran, count>>
    PROVE  Sound'
<1>1. /\ l \in app.own /\ ctx[l].listening /\ app.outer = -1 /\ app.new = -1 /\ writer
      /\ readers = {} /\ recv[l].pc \in {"none", "done"} /\ app \in AppThread
      /\ app.k \in 1 .. Queue(l).max_len /\ Queue(l).max_len \in Nat
      /\ \A m, k : ~Wiped(m, k) /\ (Drained(m, k) <=> (m = l /\ k < app.k))
  BY Draining
<1>2. c \in Sd /\ l # -1
  BY <1>1, QueueType, MysockAssumption DEF NoSd, Sd
<1>3. /\ ctx' = [ctx EXCEPT ![c].close_requested = TRUE]
      /\ app' = [app EXCEPT !.pc = "closing", !.sd = c, !.outer = l]
      /\ ctx \in [Sd -> Context] /\ ctx[c] \in Context
  BY <1>2 DEF CloseRequest, TypeInv
<1>4. /\ app'.pc = "closing" /\ app'.k = app.k /\ app'.sd = c /\ app'.outer = l
      /\ app'.own = app.own /\ app'.new = -1
  BY <1>1, <1>3 DEF AppThread
<1>5. \A m \in Sd : Queue(m)' = Queue(m)
  BY DEF Queue
<1>6. /\ \A t \in Sd : ContextKept(t)
      /\ \A t \in Sd : /\ t # c => ctx'[t].close_requested = ctx[t].close_requested
                       /\ ctx'[t].app_recv = ctx[t].app_recv
  <2>1. \A t \in Sd : t # c => ctx'[t] = ctx[t]
    BY <1>3
  <2>2. /\ ctx'[c].live = ctx[c].live /\ ctx'[c].listening = ctx[c].listening
        /\ ctx'[c].active = ctx[c].active /\ ctx'[c].failed = ctx[c].failed
        /\ ctx'[c].peer = ctx[c].peer /\ ctx'[c].listen_sd = ctx[c].listen_sd
        /\ ctx'[c].app_recv = ctx[c].app_recv
        /\ ctx'[c].network_recv = ctx[c].network_recv
    BY <1>2, <1>3 DEF Context
  <2> QED BY <1>4, <2>1, <2>2 DEF ContextKept
<1>7. TeardownMove(l)
  BY <1>1, <1>2, <1>4, <1>5, <1>6 DEF TeardownMove
<1>8. \A m \in Sd : \A k \in 1 .. Queue(m).max_len :
        /\ Drained(m, k)' <=> Drained(m, k)
        /\ Entry(m, k)' <=> Entry(m, k)
  <2> SUFFICES ASSUME NEW m \in Sd, NEW k \in 1 .. Queue(m).max_len
               PROVE  <1>8!(m)!(k)
    OBVIOUS
  <2>1. ~Wiped(m, k)' /\ (Drained(m, k)' <=> (m = l /\ k < app.k))
    BY <1>1, <1>2, <1>4 DEF Drained, Wiped, Passive
  <2> QED BY <1>1, <1>5, <2>1 DEF Entry
<1>9. \A m \in Sd : \A k \in 1 .. Queue(m).max_len :
        Entry(m, k) => Queue(m).slot[k].sd \in Sd
  BY QueueType DEF Entry, NoSd
<1>10. /\ EntriesSound' /\ PeersUnique' /\ PendingSound' /\ CompletedSound'
       /\ NewNotPending' /\ EstablishedKnown'
  BY <1>1, <1>5, <1>6, <1>7, <1>8, <1>9, TeardownQueues
<1>11. CurrentSlot'
  <2>1. PICK k : k = app.k
    OBVIOUS
  <2>2. Entry(l, k)
    BY <1>1, <2>1 DEF Entry
  <2>3. Holds(l, k, c)'
    BY <1>1, <1>5, <1>8, <2>1, <2>2 DEF Holds
  <2> QED BY <1>4, <2>1, <2>3 DEF CurrentSlot, Holds, Queue, Entry, Drained, Wiped, Passive
<1>12. CloseInHand'
  <2> SUFFICES ASSUME NEW t \in Sd PROVE CloseInHand!(t)'
    BY DEF CloseInHand
  <2>1. CloseInHand!(t) /\ t # -1
    BY MysockAssumption DEF Sound, CloseInHand, Sd
  <2> QED BY <1>1, <1>4, <1>6, <2>1 DEF Closing
<1> QED BY <1>7, <1>10, <1>11, <1>12, TeardownFrame DEF Sound

(* After the last slot the queue is freed. *)
LEMMA TeardownEnds ==
    ASSUME TypeInv, TypeInv', Sound, app.pc = "drain", NEW l \in Sd, l = app.sd,
           app.k > Queue(l).max_len, app' = [app EXCEPT !.pc = "free"],
           listen_table' = [listen_table EXCEPT ![l] = NoQueue], writer' = FALSE,
           UNCHANGED <<ctx, readers, recv, tran, count>>
    PROVE  Sound'
<1>1. /\ l \in app.own /\ ctx[l].listening /\ app.outer = -1 /\ app.new = -1 /\ writer
      /\ readers = {} /\ recv[l].pc \in {"none", "done"} /\ app \in AppThread
      /\ app.k = Queue(l).max_len + 1 /\ Queue(l).max_len \in Nat
      /\ \A m, k : ~Wiped(m, k) /\ (Drained(m, k) <=> (m = l /\ k < app.k))
  BY Draining
<1>2. /\ app'.pc = "free" /\ app'.sd = l /\ app'.outer = -1
      /\ app'.own = app.own /\ app'.new = -1
  BY <1>1 DEF AppThread
<1>3. /\ \A m \in Sd : m # l => Queue(m)' = Queue(m)
      /\ Queue(l)' = NoQueue /\ Queue(l)'.max_len = 0
  BY DEF Queue, NoQueue, TypeInv
<1>4. TeardownMove(l)
  BY <1>1, <1>2, <1>3, AllKept DEF TeardownMove
<1>5. \A k : ~Entry(l, k)
  BY <1>1 DEF Entry
<1>6. ASSUME NEW m \in Sd, NEW k \in 1 .. Queue(m).max_len
      PROVE  /\ Entry(m, k)' => Entry(m, k)
             /\ Entry(m, k) => Entry(m, k)'
             /\ m # l => ~Drained(m, k)
             /\ ~Drained(m, k)'
  <2>1. ~Drained(m, k)' /\ ~Wiped(m, k)'
    BY <1>2 DEF Drained, Wiped
  <2>2. CASE m = l
    BY <1>1, <1>3, <1>5, <2>1, <2>2 DEF Entry
  <2>3. CASE m # l
    BY <1>1, <1>3, <2>1, <2>3 DEF Entry
  <2> QED BY <2>2, <2>3
<1>7. \A m \in Sd : \A k \in 1 .. Queue(m).max_len :
        Entry(m, k) => Queue(m).slot[k].sd \in Sd
  BY QueueType DEF Entry, NoSd
<1>8. Queue(l)' = Queue(l) => \A k \in 1 .. Queue(l).max_len : FALSE
  BY <1>3
<1>9. /\ EntriesSound' /\ PeersUnique' /\ PendingSound' /\ CompletedSound'
      /\ NewNotPending' /\ EstablishedKnown'
  BY <1>1, <1>4, <1>5, <1>6, <1>7, <1>8, AllKept, TeardownQueues
<1>10. CurrentSlot'
  BY <1>2 DEF CurrentSlot
<1>11. CloseInHand'
  BY <1>1, <1>2, CloseKept DEF Closing
<1> QED BY <1>4, <1>9, <1>10, <1>11, TeardownFrame DEF Sound

(* The nested myclose() frees the connection and the loop goes on. *)
LEMMA NestedClosed ==
    ASSUME TypeInv, TypeInv', Sound, FreeContext, app.outer # -1
    PROVE  Sound'
<1>1. /\ app.pc = "free"
      /\ ctx' = [ctx EXCEPT ![app.sd] = FreshContext]
      /\ recv' = [recv EXCEPT ![app.sd] = RecvNone]
      /\ tran' = [tran EXCEPT ![app.sd] = TranNone]
      /\ app' = [app EXCEPT !.pc = "drain", !.k = @ + 1, !.sd = app.outer,
                            !.outer = -1]
      /\ UNCHANGED <<listen_table, readers, writer, count>>
  BY DEF FreeContext, AppAt
<1>2. /\ app \in AppThread /\ app.outer \in Sd /\ app.sd \in Sd /\ app.k \in Nat
      /\ ctx \in [Sd -> Context] /\ recv \in [Sd -> RecvThread]
      /\ tran \in [Sd -> TranThread] /\ count.writes \in Nat /\ app.own \subseteq Sd
  <2>1. app \in AppThread /\ app.outer \in NoSd /\ app.k \in Nat /\ app.own \subseteq Sd
    BY DEF TypeInv, AppThread
  <2>2. app.sd \in Sd /\ app.outer \in Sd
    BY <1>1, <2>1 DEF NoSd, Sound, ApplicationSound
  <2>3. count.writes \in Nat
    BY MysockAssumption DEF TypeInv
  <2> QED BY <2>1, <2>2, <2>3 DEF TypeInv
<1>3. PICK l \in Sd : l = app.outer
  BY <1>2
<1>4. PICK c \in Sd : c = app.sd
  BY <1>2
<1>5. PICK k : k = app.k
  OBVIOUS
<1>6. /\ writer /\ readers = {} /\ l \in app.own /\ ctx[l].listening /\ app.new = -1
      /\ recv[l].pc \in {"none", "done"} /\ recv[c].pc \in {"none", "done"} /\ l # -1
  <2>1. writer /\ app.new = -1 /\ l \in app.own /\ ctx[l].listening /\ l # -1
    BY <1>1, <1>3 DEF Sound, ApplicationSound, Accepting, Passive
  <2>2. recv[l].pc \in {"none", "done"} /\ recv[c].pc \in {"none", "done"}
    BY <1>1, <1>3, <1>4 DEF Sound, ClosingSound
  <2> QED BY <2>1, <2>2 DEF Sound, LockSound
<1>7. Holds(l, k, c) /\ k \in 1 .. Queue(l).max_len /\ Queue(l).slot[k].sd = c
  <2>1. Holds(app.outer, app.k, app.sd)
    BY DEF Sound, CurrentSlot
  <2> QED BY <1>3, <1>4, <1>5, <2>1 DEF Holds, Entry
<1>8. EntriesSound!(l)!(k) /\ Entry(l, k)
  BY <1>7 DEF Sound, EntriesSound, Holds
<1>9. c \notin app.own /\ l # c
  BY <1>6, <1>7, <1>8
<1>10. /\ app'.pc = "drain" /\ app'.k = k + 1 /\ app'.sd = l /\ app'.outer = -1
       /\ app'.own = app.own /\ app'.new = -1
  BY <1>1, <1>2, <1>3, <1>5, <1>6 DEF AppThread
<1>11. /\ \A t \in Sd : t # c => ContextKept(t)
       /\ ContextFreed(c)
       /\ \A t \in Sd : t # c => ctx'[t] = ctx[t] /\ tran'[t] = tran[t]
  <2>1. \A t \in Sd : t # c => ctx'[t] = ctx[t] /\ recv'[t] = recv[t] /\ tran'[t] = tran[t]
    BY <1>1, <1>2, <1>4
  <2>2. /\ recv'[c].pc = "none" /\ tran'[c].pc = "none" /\ ~tran'[c].fin
        /\ ctx'[c] = FreshContext
    BY <1>1, <1>2, <1>4 DEF RecvNone, TranNone
  <2> QED BY <1>6, <1>9, <2>1, <2>2 DEF ContextKept, ContextFreed, FreshContext
<1>12. \A m \in Sd : Queue(m)' = Queue(m)
  BY <1>1 DEF Queue
<1>13. TeardownMove(l)
  <2>1. app'.k \in 1 .. Queue(l)'.max_len + 1
    <3>1. Queue(l).max_len \in Nat
      BY QueueType, MysockAssumption DEF SlotNo
    <3> QED BY <1>7, <1>10, <1>12, <3>1
  <2> QED BY <1>1, <1>6, <1>10, <1>11, <1>12, <2>1 DEF TeardownMove
<1>14. \A m, j : /\ ~Wiped(m, j) /\ ~Wiped(m, j)'
                 /\ Drained(m, j) <=> (m = l /\ j < k)
                 /\ Drained(m, j)' <=> (m = l /\ j < k + 1)
  BY <1>1, <1>3, <1>5, <1>6, <1>10 DEF Wiped, Drained, Passive
<1>15. ASSUME NEW m \in Sd, NEW j \in 1 .. Queue(m).max_len, m # l \/ j # k
       PROVE  /\ Entry(m, j)' <=> Entry(m, j)
              /\ Drained(m, j)' <=> Drained(m, j)
  <2>1. Drained(m, j)' <=> Drained(m, j)
    <3>1. m = l => (j < k + 1 <=> j < k)
      BY <1>7, <1>15
    <3> QED BY <1>14, <3>1
  <2> QED BY <1>12, <1>14, <2>1 DEF Entry
<1>16. ~Entry(l, k)' /\ Drained(l, k)'
  BY <1>7, <1>14 DEF Entry
<1>17. ASSUME NEW m \in Sd, NEW j \in 1 .. Queue(m).max_len, Entry(m, j), m # l \/ j # k
       PROVE  ContextKept(Queue(m).slot[j].sd)
  <2>1. EntriesSound!(m)!(j) /\ Queue(m).slot[j].sd \in Sd
    BY <1>17, QueueType DEF Sound, EntriesSound, Entry, NoSd
  <2>2. Queue(m).slot[j].sd # c
    <3>1. SUFFICES ASSUME Queue(m).slot[j].sd = c PROVE FALSE
      OBVIOUS
    <3>2. m = l
      BY <1>7, <1>8, <1>17, <2>1, <3>1
    <3>3. Queue(l).slot[j].peer = Queue(l).slot[k].peer /\ Queue(l).slot[j].peer # NoPeer
      BY <1>7, <1>8, <1>17, <2>1, <3>1, <3>2
    <3> QED BY <1>7, <1>17, <3>2, <3>3 DEF Sound, PeersUnique
  <2> QED BY <1>11, <2>1, <2>2
<1>18. ASSUME NEW m \in Sd, NEW j \in 1 .. Queue(m).max_len
       PROVE  /\ Entry(m, j)' => /\ Entry(m, j)
                                 /\ ContextKept(Queue(m).slot[j].sd)
              /\ Entry(m, j) /\ ~Entry(m, j)' /\ Queue(m)' = Queue(m)
                   => Drained(m, j)' /\ ContextFreed(Queue(m).slot[j].sd)
              /\ Drained(m, j) /\ Queue(m)' = Queue(m) => Drained(m, j)'
              /\ Drained(m, j)' => Drained(m, j) \/ Queue(m).slot[j].sd = -1
                                   \/ ContextFreed(Queue(m).slot[j].sd)
  <2>1. CASE m = l /\ j = k
    BY <1>7, <1>8, <1>11, <1>16, <2>1
  <2>2. CASE m # l \/ j # k
    BY <1>15, <1>17, <2>2
  <2> QED BY <2>1, <2>2
<1>19. /\ EntriesSound' /\ PeersUnique' /\ PendingSound' /\ CompletedSound'
       /\ NewNotPending' /\ EstablishedKnown'
  BY <1>1, <1>6, <1>12, <1>13, <1>18, TeardownQueues
<1>20. CurrentSlot'
  BY <1>10 DEF CurrentSlot
<1>21. CloseInHand'
  <2> SUFFICES ASSUME NEW t \in Sd PROVE CloseInHand!(t)'
    BY DEF CloseInHand
  <2>1. CASE t = c
    BY <1>1, <1>2, <1>11, <2>1 DEF ContextFreed
  <2>2. CASE t # c
    <3>1. CloseInHand!(t) /\ ctx'[t] = ctx[t] /\ tran'[t] = tran[t]
      BY <1>11, <2>2 DEF Sound, CloseInHand
    <3> QED BY <1>1, <1>3, <1>4, <1>10, <2>2, <3>1
  <2> QED BY <2>1, <2>2
<1> QED BY <1>13, <1>19, <1>20, <1>21, TeardownFrame DEF Sound

(* The steps of the application between two calls. *)
LEMMA AppSteps ==
    ASSUME TypeInv, TypeInv', Sound, Run', AppStep
    PROVE  Sound'
<1>1. CASE SetBacklog
  BY <1>1, ListenEnds
<1>2. CASE \/ WaitForConnection \/ Wrote \/ DequeueBuffer \/ CloseBroadcast
           \/ JoinTransport \/ JoinRecv \/ LoadLen
  BY <1>2, StepMoves
<1>3. CASE DequeueConnection
  BY <1>3, StepMoves, ConnectionTaken
<1>4. CASE Wipe \/ Invalidate
  BY <1>4, SlotCleared
<1>5. CASE StoreLen
  BY <1>5, HandedOut
<1>6. CASE ClosePassive
  BY <1>6, TeardownBegins
<1>7. CASE DrainQueue
  <2>1. app.pc = "drain" /\ UNCHANGED <<readers, recv, tran, count>>
    BY <1>7 DEF DrainQueue, AppAt
  <2>2. PICK l \in Sd : l = app.sd
    BY <2>1, Draining
  <2>3. PICK c : c = Queue(l).slot[app.k].sd
    OBVIOUS
  <2>4. \/ /\ app.k <= Queue(l).max_len /\ c # -1 /\ CloseRequest(c, l)
           /\ UNCHANGED <<listen_table, writer>>
        \/ /\ app.k <= Queue(l).max_len /\ c = -1
           /\ app' = [app EXCEPT !.k = @ + 1]
           /\ UNCHANGED <<ctx, listen_table, writer>>
        \/ /\ app.k > Queue(l).max_len
           /\ listen_table' = [listen_table EXCEPT ![l] = NoQueue]
           /\ writer' = FALSE /\ app' = [app EXCEPT !.pc = "free"]
           /\ UNCHANGED ctx
    BY <1>7, <2>2, <2>3 DEF DrainQueue, AppGoto
  <2> QED BY <2>1, <2>2, <2>3, <2>4, NestedClose, SlotSkipped, TeardownEnds
<1>8. CASE FreeContext
  BY <1>8, SocketClosed, NestedClosed
<1> QED BY <1>1, <1>2, <1>3, <1>4, <1>5, <1>6, <1>7, <1>8 DEF AppStep

(* A step that fails an assertion leaves the written buffers alone. *)
LEMMA HaltingSteps ==
    ASSUME TypeInv, Sound, Run, Next, ~Run', NEW t \in Sd
    PROVE  ctx'[t].app_recv = ctx[t].app_recv /\ count'.writes = count.writes
<1>1. halt' # halt /\ ctx \in [Sd -> Context]
  BY DEF Run, TypeInv
<1>2. ~Call /\ ~Client
  BY <1>1 DEF Call, mysocket, mybind, mylisten, myconnect, myaccept, mywrite, myread,
              myclose, CloseRequest, Client, TcpArrive, SendSyn, Hangup
<1>3. AppStep => UNCHANGED <<ctx, count>>
  BY <1>1 DEF AppStep, SetBacklog, WaitForConnection, DequeueConnection, Wipe, Invalidate,
              LoadLen, StoreLen, Wrote, DequeueBuffer, CloseBroadcast, JoinTransport,
              JoinRecv, ClosePassive, DrainQueue, FreeContext
<1>4. ASSUME NEW s \in Sd, RecvStep(s)
      PROVE  /\ UNCHANGED count
             /\ \/ UNCHANGED ctx
                \/ ctx' = [ctx EXCEPT ![s].new_socket = Head(accq[s])]
  BY <1>1, <1>4 DEF RecvStep, RecvExit, RecvAccept, RecvRead, EnqueueConnection, ClaimSlot,
              NewMysocketFails, CreateConnection, PassSyn, PassedSyn, RecvConnect,
              RecvPacket, QueuedPacket
<1>5. ASSUME NEW s \in Sd, TranStep(s)
      PROVE  /\ UNCHANGED count
             /\ UNCHANGED ctx \/ ctx' = [ctx EXCEPT ![s].blocking = FALSE]
  BY <1>1, <1>5 DEF TranStep, SendOwnSyn, AwaitSyn, Handshake, Unblock, SignalConnect,
              FindRequest, PassiveComplete, SignalAccept, LoopEvents, LoopSleep, HandedUp, TransportExit
<1>6. \A s \in Sd : /\ \A a : ctx' = [ctx EXCEPT ![s].new_socket = a]
                          => ctx'[t].app_recv = ctx[t].app_recv
                    /\ ctx' = [ctx EXCEPT ![s].blocking = FALSE]
                          => ctx'[t].app_recv = ctx[t].app_recv
  <2> SUFFICES ASSUME NEW s \in Sd
               PROVE  /\ \A a : ctx' = [ctx EXCEPT ![s].new_socket = a]
                             => ctx'[t].app_recv = ctx[t].app_recv
                      /\ ctx' = [ctx EXCEPT ![s].blocking = FALSE]
                             => ctx'[t].app_recv = ctx[t].app_recv
    OBVIOUS
  <2>1. ctx[t] \in Context /\ ctx[s] \in Context
    BY <1>1
  <2>2. \A c \in Context :
          /\ \A a : [c EXCEPT !.new_socket = a].app_recv = c.app_recv
          /\ [c EXCEPT !.blocking = FALSE].app_recv = c.app_recv
    BY DEF Context
  <2>3. \A f : ctx' = [ctx EXCEPT ![s] = f]
          => ctx'[t] = IF s = t THEN f ELSE ctx[t]
    BY <1>1
  <2>4. ASSUME NEW a, ctx' = [ctx EXCEPT ![s].new_socket = a]
        PROVE  ctx'[t].app_recv = ctx[t].app_recv
    <3>1. ctx' = [ctx EXCEPT ![s] = [ctx[s] EXCEPT !.new_socket = a]]
      BY <2>4
    <3> QED BY <2>1, <2>2, <2>3, <3>1
  <2>5. ASSUME ctx' = [ctx EXCEPT ![s].blocking = FALSE]
        PROVE  ctx'[t].app_recv = ctx[t].app_recv
    <3>1. ctx' = [ctx EXCEPT ![s] = [ctx[s] EXCEPT !.blocking = FALSE]]
      BY <2>5
    <3> QED BY <2>1, <2>2, <2>3, <3>1
  <2> QED BY <2>4, <2>5
<1>7. ASSUME NEW s \in Sd, RecvStep(s) \/ TranStep(s)
      PROVE  ctx'[t].app_recv = ctx[t].app_recv /\ count' = count
  BY <1>4, <1>5, <1>6, <1>7
<1> QED BY <1>2, <1>3, <1>7 DEF Next

---------------------------------------------------------------------------
LEMMA SocketInit == Init => SocketInv
<1> SUFFICES ASSUME Init PROVE SocketInv
  OBVIOUS
<1>1. /\ ctx = [s \in Sd |-> FreshContext] /\ listen_table = [s \in Sd |-> NoQueue]
      /\ readers = {} /\ writer = FALSE /\ app = AppIdle
      /\ recv = [s \in Sd |-> RecvNone] /\ tran = [s \in Sd |-> TranNone]
      /\ accq = [s \in Sd |-> <<>>] /\ said = [p \in Peer |-> "no"]
      /\ count = [arrivals |-> 0, writes |-> 0, opens |-> 0] /\ halt = "no"
  BY DEF Init
<1>2. TypeInv
  <2>1. listen_table \in [Sd -> ListenQueue]
    BY <1>1, QueueStart DEF QueueOK
  <2>2. \A s \in Sd : listen_table[s].slot \in [1 .. listen_table[s].max_len -> Request]
    BY <1>1, QueueStart DEF QueueOK
  <2>3. ctx \in [Sd -> Context]
    BY <1>1, FreshContextType
  <2>4. recv \in [Sd -> RecvThread] /\ tran \in [Sd -> TranThread]
    BY <1>1, ThreadsTyped
  <2>5. app \in AppThread
    BY <1>1, MysockAssumption DEF AppThread, AppIdle, AppPcs, NoSd, Unsigned
  <2>6. accq \in [Sd -> Seq(Peer)] /\ said \in [Peer -> {"no", "connected", "syn", "hung"}]
    BY <1>1
  <2>7. count \in [arrivals : Nat, writes : 0 .. MaxWrites, opens : Nat]
    BY <1>1, MysockAssumption
  <2> QED BY <1>1, <2>1, <2>2, <2>3, <2>4, <2>5, <2>6, <2>7 DEF TypeInv
<1>3. /\ app.pc = "idle" /\ app.sd = -1 /\ app.outer = -1 /\ app.new = -1 /\ app.own = {}
      /\ \A s \in Sd :
           /\ ~ctx[s].live /\ ~ctx[s].listening /\ ~ctx[s].active /\ ~ctx[s].failed
           /\ ~ctx[s].close_requested /\ ctx[s].app_recv = 0
           /\ recv[s].pc = "none" /\ tran[s].pc = "none" /\ ~tran[s].fin
           /\ Queue(s).max_len = 0 /\ Queue(s).completed = <<>>
  BY <1>1 DEF AppIdle, FreshContext, RecvNone, TranNone, NoQueue, Queue
<1>4. ApplicationSound /\ ClosingSound /\ ContextsSound /\ LockSound
  BY <1>1, <1>3 DEF ApplicationSound, ClosingSound, ContextsSound, LockSound, Accepting
<1>5. EntriesSound /\ PeersUnique /\ CurrentSlot /\ ClaimSound /\ CompletedSound
  BY <1>3 DEF EntriesSound, PeersUnique, CurrentSlot, ClaimSound, CompletedSound
<1>6. PendingSound /\ NewNotPending /\ EstablishedKnown /\ AcceptWoken /\ OthersWoken
  BY <1>3 DEF PendingSound, Pending, NewNotPending, EstablishedKnown, AcceptWoken,
              OthersWoken, Accepting
<1>7. CloseInHand /\ Written
  BY <1>1, <1>3 DEF CloseInHand, Written
<1> QED BY <1>2, <1>4, <1>5, <1>6, <1>7 DEF SocketInv, Sound

(* No thread runs on after a failed assertion. *)
LEMMA StepsRun == Next => Run
<1>1. Call => Run
  BY DEF Call, mysocket, mybind, mylisten, myconnect, myaccept, mywrite, myread,
         myclose, AppAt
<1>2. AppStep => Run
  BY DEF AppStep, SetBacklog, WaitForConnection, DequeueConnection, Wipe,
         Invalidate, LoadLen, StoreLen, Wrote, DequeueBuffer, CloseBroadcast,
         JoinTransport, JoinRecv, ClosePassive, DrainQueue, FreeContext, AppAt
<1>3. \A s \in Sd : RecvStep(s) => Run
  BY DEF RecvStep, RecvExit, RecvAccept, RecvRead, EnqueueConnection, ClaimSlot,
         NewMysocketFails, CreateConnection, PassSyn, PassedSyn, RecvConnect,
         RecvPacket, QueuedPacket, RecvAt
<1>4. \A s \in Sd : TranStep(s) => Run
  BY DEF TranStep, SendOwnSyn, AwaitSyn, Handshake, Unblock, SignalConnect,
         FindRequest, PassiveComplete, SignalAccept, LoopEvents, LoopSleep, HandedUp,
         TransportExit, TranAt
<1>5. Client => Run
  BY DEF Client, TcpArrive, SendSyn, Hangup
<1> QED BY <1>1, <1>2, <1>3, <1>4, <1>5 DEF Next

LEMMA SocketNext ==
    ASSUME SocketInv, [Next]_vars
    PROVE  SocketInv'
<1>1. CASE UNCHANGED vars
  <2>1. UNCHANGED <<ctx, listen_table, readers, writer, threads, count, halt, accq, said>>
    BY <1>1 DEF vars, outside
  <2>2. TypeInv' /\ Written'
    BY <2>1 DEF SocketInv, TypeInv, Written, threads
  <2>3. Run' => Sound'
    BY <2>1, <2>2, OutsideSteps DEF SocketInv, Run
  <2> QED BY <2>2, <2>3 DEF SocketInv
<1>2. CASE Next
  <2>1. Run /\ TypeInv /\ Sound /\ Written
    BY <1>2, StepsRun DEF SocketInv
  <2>2. TypeInv'
    BY <1>2, <2>1, CallTypes, AppStepTypes, RecvStepTypes, TranStepTypes, ClientTypes
       DEF Next
  <2>3. ASSUME Run' PROVE Sound'
    <3>1. ASSUME Call PROVE Sound'
      <4>1. CASE mysocket
        BY <2>1, <2>2, <4>1, SocketOpened
      <4>2. ASSUME NEW s \in Sd, mylisten(s) PROVE Sound'
        BY <2>1, <2>2, <4>2, ListenBegun
      <4>3. ASSUME NEW s \in Sd, myconnect(s) PROVE Sound'
        BY <2>1, <2>2, <4>3, ConnectBegun
      <4>4. ASSUME NEW s \in Sd,
                   mybind(s) \/ myaccept(s) \/ mywrite(s) \/ myread(s) \/ myclose(s)
            PROVE  Sound'
        BY <2>1, <2>2, <4>4, CallMoves
      <4> QED BY <3>1, <4>1, <4>2, <4>3, <4>4 DEF Call
    <3>2. AppStep => Sound'
      BY <2>1, <2>2, <2>3, AppSteps
    <3>3. Client => Sound'
      BY <2>1, <2>2, ClientsSound
    <3>4. ASSUME NEW s \in Sd, RecvStep(s) PROVE Sound'
      BY <2>1, <2>2, <2>3, <3>4, RecvMoves, RecvMoveSound, ConnectionCreated
    <3>5. ASSUME NEW s \in Sd, TranStep(s) PROVE Sound'
      BY <2>1, <2>2, <2>3, <3>5, TranMoves, TranMoveSound, PassiveCompletes
    <3> QED BY <1>2, <3>1, <3>2, <3>3, <3>4, <3>5 DEF Next
  <2>4. Written'
    <3>1. CASE Run'
      BY <2>3, <3>1 DEF Sound, CloseInHand, Written
    <3>2. CASE ~Run'
      BY <1>2, <2>1, <3>2, HaltingSteps DEF Written
    <3> QED BY <3>1, <3>2
  <2> QED BY <2>2, <2>3, <2>4 DEF SocketInv
<1> QED BY <1>1, <1>2

(* The bookkeeping of the socket layer holds in every reachable state up   *)
(* to the first failed assertion: listen queues, the hand-over of          *)
(* connections, the locks and the condition variables are consistent       *)
(* whatever the application, receive and transport threads do at once.     *)
THEOREM SocketInvariant == Spec => []SocketInv
<1>1. Init => SocketInv
  BY SocketInit
<1>2. SocketInv /\ [Next]_vars => SocketInv'
  BY SocketNext
<1> QED BY <1>1, <1>2, PTL DEF Spec

(* Contexts, queues and threads keep their types, for any number of        *)
(* descriptors: a queue has max_len slots, its entries are descriptors,    *)
(* and cur_len, decremented below zero by _mysock_enqueue_connection(),    *)
(* wraps to an unsigned int.                                               *)
THEOREM MysockTypeCorrect == Spec => []TypeOK
<1>1. SocketInv => TypeOK
  <2> SUFFICES ASSUME TypeInv, Written PROVE TypeOK
    BY DEF SocketInv
  <2>1. ASSUME NEW s \in Sd PROVE TypeOK!1!(s)
    <3>1. /\ ctx[s] \in Context /\ recv[s] \in RecvThread /\ tran[s] \in TranThread
          /\ count.writes \in 0 .. MaxWrites /\ ctx[s].app_recv <= count.writes
      BY DEF TypeInv, Written
    <3>2. ctx[s].app_recv \in Nat /\ ctx[s].app_recv \in 0 .. MaxWrites
      BY <3>1, MysockAssumption DEF Context
    <3>3. /\ ctx[s].peer \in Peer \union {NoPeer}
          /\ ctx[s].listen_sd \in Sd \union {-1}
          /\ ctx[s].connected \in {"no", "yes", "stuck"}
      BY <3>1 DEF Context, Address, NoSd
    <3>4. recv[s].pc \in RecvPcs /\ tran[s].pc \in TranPcs
      BY <3>1 DEF RecvThread, TranThread
    <3>5. /\ Queue(s).cur_len \in 0 .. UINT_MAX
          /\ DOMAIN Queue(s).slot = 1 .. Queue(s).max_len
          /\ \A k \in 1 .. Queue(s).max_len : Queue(s).slot[k].sd \in Sd \union {-1}
      BY QueueType DEF QueueOK, Unsigned, NoSd
    <3> QED BY <3>2, <3>3, <3>4, <3>5
  <2>2. app.pc \in AppPcs /\ app.own \subseteq Sd
    BY DEF TypeInv, AppThread
  <2> QED BY <2>1, <2>2 DEF TypeOK, TypeInv
<1> QED BY <1>1, SocketInvariant, PTL

(* No wakeup is lost: every thread asleep in pthread_cond_wait() in        *)
(* _mysock_dequeue_connection(), _mysock_wait_for_connection(),            *)
(* _mysock_dequeue_buffer() or stcp_wait_for_event() has nothing to do, or *)
(* another thread has still to signal it.                                  *)
THEOREM NoWakeupLost == Spec => []NoLostWakeup
<1>1. SocketInv => NoLostWakeup
  BY DEF SocketInv, Sound, AcceptWoken, OthersWoken, NoLostWakeup
<1> QED BY <1>1, SocketInvariant, PTL

(* A connection whose handshake is not over has its listening socket and   *)
(* exactly one slot of that socket's queue: the search of                  *)
(* _mysock_passive_connection_complete() finds it, and that of             *)
(* _mysock_enqueue_connection() recognises a retransmitted SYN.            *)
THEOREM PendingInQueue == Spec => []PendingIsQueued
<1>1. SocketInv => PendingIsQueued
  <2> SUFFICES ASSUME TypeInv, Sound, NEW s \in Sd, Pending(s)
               PROVE  LET l == ctx[s].listen_sd IN
                      /\ ctx[l].live /\ ctx[l].listening
                      /\ \E k \in 1 .. Queue(l).max_len :
                           /\ Queue(l).slot[k] = [sd |-> s, peer |-> ctx[s].peer]
                           /\ \A j \in 1 .. Queue(l).max_len :
                                Queue(l).slot[j].peer = ctx[s].peer => j = k
    BY DEF SocketInv, PendingIsQueued
  <2>1. PICK l \in Sd : l = ctx[s].listen_sd
    BY DEF Sound, PendingSound
  <2>2. PICK k \in 1 .. Queue(l).max_len : Holds(l, k, s)
    BY <2>1 DEF Sound, PendingSound
  <2>3. EntriesSound!(l)!(k) /\ Entry(l, k) /\ Queue(l).slot[k].sd = s
    BY <2>2 DEF Sound, EntriesSound, Holds
  <2>4. Queue(l).slot[k].peer = ctx[s].peer /\ ctx[s].peer # NoPeer
    BY <2>3
  <2>5. Queue(l).slot[k] = [sd |-> s, peer |-> ctx[s].peer]
    <3>1. Queue(l).slot[k] \in Request
      BY QueueType
    <3> QED BY <2>3, <2>4, <3>1 DEF Request
  <2>6. \A j \in 1 .. Queue(l).max_len : Queue(l).slot[j].peer = ctx[s].peer => j = k
    BY <2>4 DEF Sound, PeersUnique
  <2>7. ctx[l].live /\ ctx[l].listening
    <3>1. Queue(l).max_len > 0
      BY QueueType, MysockAssumption DEF SlotNo
    <3> QED BY <3>1 DEF Sound, ContextsSound
  <2> QED BY <2>1, <2>5, <2>6, <2>7
<1> QED BY <1>1, SocketInvariant, PTL

(* Every established connection is handed out exactly once: it is in one   *)
(* completed queue, being accepted, or with the application, and what      *)
(* myaccept() takes from the queue is open, past its handshake and not yet *)
(* in the application's hands.                                             *)
THEOREM HandedOutExactlyOnce == Spec => []HandedOutOnce
<1>1. SocketInv => CompletedOnce
  <2> SUFFICES ASSUME TypeInv, Sound, ~writer, NEW l \in Sd,
                      NEW i \in 1 .. Len(Queue(l).completed)
               PROVE  LET q == Queue(l)
                          done(n) == q.slot[q.completed[n]].sd IN
                      /\ ctx[done(i)].live /\ ~Pending(done(i)) /\ done(i) \notin app.own
                      /\ \A j \in 1 .. Len(q.completed) : done(i) = done(j) => i = j
    BY DEF SocketInv, CompletedOnce
  <2>1. \A n \in 1 .. Len(Queue(l).completed) :
          LET k == Queue(l).completed[n]
              c == Queue(l).slot[k].sd IN
          /\ k \in 1 .. Queue(l).max_len
          /\ Entry(l, k) /\ ~Pending(c)
          /\ \A j \in 1 .. Len(Queue(l).completed) : Queue(l).completed[j] = k => j = n
    BY DEF Sound, CompletedSound, Drained
  <2>2. \A k \in 1 .. Queue(l).max_len : Entry(l, k) =>
          LET r == Queue(l).slot[k] IN
          /\ ctx[r.sd].live /\ r.sd \notin app.own
          /\ ctx[r.sd].peer = r.peer /\ r.peer # NoPeer
    BY DEF Sound, EntriesSound
  <2>3. ASSUME NEW j \in 1 .. Len(Queue(l).completed),
               Queue(l).slot[Queue(l).completed[i]].sd = Queue(l).slot[Queue(l).completed[j]].sd
        PROVE  i = j
    <3>1. Queue(l).completed[i] = Queue(l).completed[j]
      BY <2>1, <2>2, <2>3 DEF Sound, PeersUnique
    <3> QED BY <2>1, <3>1
  <2> QED BY <2>1, <2>2, <2>3
<1>2. SocketInv => NoneForgotten
  BY DEF SocketInv, Sound, EstablishedKnown, InCompleted, Established, NoneForgotten
<1> QED BY <1>1, <1>2, SocketInvariant, PTL DEF HandedOutOnce
---------------------------------------------------------------------------
(* The order of the data. *)

(* What holds at 0 and is passed on from n - 1 to n holds up to any number: *)
(* there is no least number where it fails.                                *)
LEMMA NoLeastFailure ==
    ASSUME NEW N \in Nat, NEW bad \in SUBSET (0 .. N), 0 \notin bad,
           \A n \in 1 .. N : n \in bad => n - 1 \in bad
    PROVE  bad = {}
<1> SUFFICES ASSUME bad # {} PROVE FALSE
  OBVIOUS
<1>1. bad \in SUBSET Nat
  OBVIOUS
<1>2. Min(bad) \in bad /\ \A y \in bad : Min(bad) <= y
  BY <1>1, MinOfNaturals
<1> DEFINE n == Min(bad)
<1> HIDE DEF n
<1>3. n \in bad /\ \A y \in bad : n <= y
  BY <1>2 DEF n
<1>4. n \in 1 .. N
  BY <1>3
<1>5. n - 1 \in bad /\ n - 1 < n
  BY <1>3, <1>4
<1>6. n <= n - 1
  BY <1>3, <1>5
<1> QED BY <1>4, <1>5, <1>6

LEMMA BytesAssociative ==
    ASSUME NEW u \in Seq(Int), NEW v \in Seq(Int), NEW w \in Seq(Int)
    PROVE  (u \o v) \o w = u \o (v \o w)
BY ConcatAssociative

(* FlattenSeq() joins the buffers one after the other: the first n of them *)
(* give f[n].                                                              *)
Joined(s, f) ==
    /\ f[0] = <<>> /\ \A n \in 0 .. Len(s) : f[n] \in Seq(Int)
    /\ \A n \in 1 .. Len(s) : f[n] = f[n - 1] \o s[n]

FlattenStep(s, f, n) == IF n = 1 THEN s[n] ELSE f[n - 1] \o s[n]

LEMMA FlattenEquation ==
    ASSUME NEW s \in Seq(Seq(Int)), Len(s) > 0
    PROVE  \E f : /\ f = [n \in 1 .. Len(s) |-> FlattenStep(s, f, n)]
                  /\ FlattenSeq(s) = f[Len(s)]
<1> DEFINE N == Len(s)
           good(n, f) == f = [i \in 1 .. n |-> FlattenStep(s, f, i)]
           bad == {n \in 0 .. N : ~\E f : good(n, f)}
<1>0. N \in Nat
  BY LenProperties
<1>1. 0 \notin bad
  <2>1. good(0, [i \in 1 .. 0 |-> 0])
    OBVIOUS
  <2> QED BY <2>1
<1>2. ASSUME NEW n \in 1 .. N, n - 1 \notin bad PROVE n \notin bad
  <2>1. PICK f : good(n - 1, f)
    BY <1>0, <1>2
  <2> DEFINE g == [i \in 1 .. n |-> IF i = n THEN FlattenStep(s, f, n) ELSE f[i]]
  <2>2. \A i \in 1 .. n : g[i] = FlattenStep(s, g, i)
    <3> SUFFICES ASSUME NEW i \in 1 .. n PROVE g[i] = FlattenStep(s, g, i)
      OBVIOUS
    <3>1. n \in Nat /\ i \in Nat /\ n > 0
      BY <1>0
    <3>2. i > 1 => i - 1 \in 1 .. n /\ g[i - 1] = f[i - 1]
      BY <3>1
    <3>3. CASE i = n
      BY <3>1, <3>2, <3>3 DEF FlattenStep
    <3>4. CASE i # n
      <4>1. i \in 1 .. n - 1 /\ g[i] = f[i]
        BY <3>1, <3>4
      <4>2. f[i] = FlattenStep(s, f, i)
        BY <2>1, <4>1
      <4> QED BY <3>1, <3>2, <4>1, <4>2 DEF FlattenStep
    <3> QED BY <3>3, <3>4
  <2>3. good(n, g)
    <3> HIDE DEF g
    <3>1. g = [i \in 1 .. n |-> g[i]]
      BY DEF g
    <3> QED BY <2>2, <3>1, Zenon
  <2> QED BY <2>3
<1>3. bad = {}
  <2>1. bad \in SUBSET (0 .. N)
    OBVIOUS
  <2> HIDE DEF bad
  <2> QED BY <1>0, <1>1, <1>2, <2>1, NoLeastFailure
<1>4. \E f : good(N, f)
  <2>1. N \in 0 .. N /\ N \notin bad
    <3> HIDE DEF bad
    <3> QED BY <1>0, <1>3
  <2> QED BY <2>1
<1> DEFINE flatten[n \in 1 .. Len(s)] ==
            IF n = 1 THEN s[n] ELSE flatten[n - 1] \o s[n]
<1>5. flatten = CHOOSE f : good(N, f)
  BY DEF FlattenStep
<1>6. FlattenSeq(s) = flatten[Len(s)]
  BY DEF FlattenSeq
<1> HIDE DEF flatten
<1>7. good(N, flatten)
  BY <1>4, <1>5
<1> QED BY <1>6, <1>7

LEMMA FlattenJoins ==
    ASSUME NEW s \in Seq(Seq(Int))
    PROVE  \E f : Joined(s, f) /\ FlattenSeq(s) = f[Len(s)]
<1>0. Len(s) \in Nat /\ \A n \in 1 .. Len(s) : s[n] \in Seq(Int)
  BY LenProperties, ElementOfSeq
<1>1. CASE Len(s) = 0
  <2> DEFINE f == [n \in 0 .. 0 |-> <<>>]
  <2>1. s = <<>> /\ FlattenSeq(s) = <<>>
    BY <1>1, EmptySeq DEF FlattenSeq
  <2>2. <<>> \in Seq(Int)
    BY EmptySeq
  <2>3. Joined(s, f) /\ f[Len(s)] = <<>>
    BY <1>1, <2>2 DEF Joined
  <2> QED BY <2>1, <2>3
<1>2. CASE Len(s) > 0
  <2>1. PICK g : /\ g = [n \in 1 .. Len(s) |-> FlattenStep(s, g, n)]
                 /\ FlattenSeq(s) = g[Len(s)]
    BY <1>2, FlattenEquation
  <2> DEFINE f == [n \in 0 .. Len(s) |-> IF n = 0 THEN <<>> ELSE g[n]]
             bad == {n \in 0 .. Len(s) : f[n] \notin Seq(Int)}
  <2>2. f[0] = <<>> /\ \A n \in 1 .. Len(s) : f[n] = g[n]
    BY <1>0
  <2>3. \A n \in 1 .. Len(s) : g[n] = FlattenStep(s, g, n)
    BY <2>1, Zenon
  <2>4. \A n \in 1 .. Len(s) : f[n] = f[n - 1] \o s[n]
    <3> SUFFICES ASSUME NEW n \in 1 .. Len(s) PROVE f[n] = f[n - 1] \o s[n]
      OBVIOUS
    <3>1. CASE n = 1
      <4>1. <<>> \o s[n] = s[n]
        BY <1>0, ConcatEmptySeq
      <4>2. f[n] = s[n] /\ f[n - 1] = <<>>
        BY <2>2, <2>3, <3>1 DEF FlattenStep
      <4> QED BY <4>1, <4>2
    <3>2. CASE n # 1
      <4>1. n - 1 \in 1 .. Len(s)
        BY <1>0, <3>2
      <4> QED BY <2>2, <2>3, <3>2, <4>1 DEF FlattenStep
    <3> QED BY <3>1, <3>2
  <2>5. FlattenSeq(s) = f[Len(s)]
    BY <1>0, <1>2, <2>1, <2>2
  <2> HIDE DEF f
  <2>6. bad = {}
    <3>1. bad \in SUBSET (0 .. Len(s))
      OBVIOUS
    <3>2. 0 \notin bad
      BY <2>2, EmptySeq
    <3>3. \A n \in 1 .. Len(s) : n \in bad => n - 1 \in bad
      <4> SUFFICES ASSUME NEW n \in 1 .. Len(s), n - 1 \notin bad PROVE n \notin bad
        OBVIOUS
      <4>1. f[n - 1] \in Seq(Int)
        BY <1>0
      <4> QED BY <1>0, <2>4, <4>1, ConcatProperties
    <3> HIDE DEF bad
    <3> QED BY <1>0, <3>1, <3>2, <3>3, NoLeastFailure
  <2>7. Joined(s, f)
    BY <2>2, <2>4, <2>6 DEF Joined
  <2> QED BY <2>5, <2>7
<1> QED BY <1>0, <1>1, <1>2

(* Adding a buffer at the end, taking the first one, and buffers that are  *)
(* all empty.                                                              *)
LEMMA FlattenAppend ==
    ASSUME NEW s \in Seq(Seq(Int)), NEW x \in Seq(Int)
    PROVE  FlattenSeq(Append(s, x)) = FlattenSeq(s) \o x
<1> DEFINE t == Append(s, x)
           N == Len(s)
<1>1. /\ t \in Seq(Seq(Int)) /\ N \in Nat /\ Len(t) = N + 1
      /\ \A i \in 1 .. N : t[i] = s[i]
      /\ t[N + 1] = x
  BY AppendProperties, LenProperties
<1> HIDE DEF t
<1>2. PICK f : Joined(t, f) /\ FlattenSeq(t) = f[Len(t)]
  BY <1>1, FlattenJoins
<1>3. PICK g : Joined(s, g) /\ FlattenSeq(s) = g[Len(s)]
  BY FlattenJoins
<1> DEFINE bad == {n \in 0 .. N : f[n] # g[n]}
<1>4. bad = {}
  <2>1. bad \in SUBSET (0 .. N) /\ 0 \notin bad
    BY <1>2, <1>3 DEF Joined
  <2>2. \A n \in 1 .. N : n \in bad => n - 1 \in bad
    <3> SUFFICES ASSUME NEW n \in 1 .. N, n - 1 \notin bad PROVE n \notin bad
      OBVIOUS
    <3>1. f[n - 1] = g[n - 1] /\ n \in 1 .. Len(t)
      BY <1>1
    <3>2. f[n] = f[n - 1] \o t[n] /\ g[n] = g[n - 1] \o s[n]
      BY <1>2, <1>3, <3>1 DEF Joined
    <3> QED BY <1>1, <3>1, <3>2
  <2> HIDE DEF bad
  <2> QED BY <1>1, <2>1, <2>2, NoLeastFailure
<1>5. f[N] = g[N] /\ N + 1 \in 1 .. Len(t) /\ (N + 1) - 1 = N
  <2>1. N \in 0 .. N /\ N \notin bad
    <3> HIDE DEF bad
    <3> QED BY <1>1, <1>4
  <2> QED BY <1>1, <2>1
<1>6. f[N + 1] = f[N] \o x
  BY <1>1, <1>2, <1>5 DEF Joined
<1> QED BY <1>1, <1>2, <1>3, <1>5, <1>6 DEF t

LEMMA FlattenFirst ==
    ASSUME NEW s \in Seq(Seq(Int)), s # <<>>
    PROVE  FlattenSeq(s) = Head(s) \o FlattenSeq(Tail(s))
<1> DEFINE t == Tail(s)
           N == Len(t)
<1>1. /\ t \in Seq(Seq(Int)) /\ N \in Nat /\ Len(s) = N + 1
      /\ \A i \in 1 .. N : t[i] = s[i + 1]
      /\ Head(s) = s[1] /\ s[1] \in Seq(Int)
  BY HeadTailProperties, LenProperties, EmptySeq
<1> HIDE DEF t
<1>2. PICK f : Joined(s, f) /\ FlattenSeq(s) = f[Len(s)]
  BY <1>1, FlattenJoins
<1>3. PICK g : Joined(t, g) /\ FlattenSeq(t) = g[N]
  BY <1>1, FlattenJoins
<1> DEFINE bad == {n \in 0 .. N : f[n + 1] # s[1] \o g[n]}
<1>4. bad = {}
  <2>0. bad \in SUBSET (0 .. N)
    OBVIOUS
  <2>1. 0 \notin bad
    <3>1. 1 \in 1 .. Len(s)
      BY <1>1
    <3>2. f[1] = f[0] \o s[1] /\ f[0] = <<>> /\ g[0] = <<>>
      <4>1. f[1] = f[1 - 1] \o s[1]
        BY <1>2, <3>1, Zenon DEF Joined
      <4>2. 1 - 1 = 0
        OBVIOUS
      <4> QED BY <1>2, <1>3, <4>1, <4>2, Zenon DEF Joined
    <3>3. <<>> \o s[1] = s[1] /\ s[1] \o <<>> = s[1]
      BY <1>1, ConcatEmptySeq
    <3>4. f[1] = s[1] \o g[0]
      BY <3>2, <3>3, Zenon
    <3>5. 0 + 1 = 1
      OBVIOUS
    <3>6. f[0 + 1] = s[1] \o g[0]
      BY <3>4, <3>5, Zenon
    <3> QED BY <3>6, Zenon
  <2>2. \A n \in 1 .. N : n \in bad => n - 1 \in bad
    <3> SUFFICES ASSUME NEW n \in 1 .. N, n - 1 \notin bad PROVE n \notin bad
      OBVIOUS
    <3>1. n + 1 \in 1 .. Len(s) /\ (n + 1) - 1 = n /\ (n - 1) + 1 = n /\ n - 1 \in 0 .. N
      BY <1>1
    <3>2. f[n] = s[1] \o g[n - 1]
      BY <3>1
    <3>3. f[n + 1] = f[n] \o s[n + 1] /\ g[n] = g[n - 1] \o t[n]
      BY <1>2, <1>3, <3>1 DEF Joined
    <3>4. g[n - 1] \in Seq(Int) /\ t[n] \in Seq(Int)
      BY <1>1, <1>3, <3>1, ElementOfSeq DEF Joined
    <3>5. (s[1] \o g[n - 1]) \o t[n] = s[1] \o (g[n - 1] \o t[n])
      <4> DEFINE u == g[n - 1]
                 v == t[n]
      <4>1. u \in Seq(Int) /\ v \in Seq(Int) /\ s[1] \in Seq(Int)
        BY <1>1, <3>4
      <4> HIDE DEF u, v
      <4>2. (s[1] \o u) \o v = s[1] \o (u \o v)
        BY <4>1, BytesAssociative
      <4> QED BY <4>2 DEF u, v
    <3> QED BY <1>1, <3>2, <3>3, <3>5
  <2> HIDE DEF bad
  <2> QED BY <1>1, <2>0, <2>1, <2>2, NoLeastFailure
<1>5. f[N + 1] = s[1] \o g[N]
  <2>1. N \in 0 .. N /\ N \notin bad
    <3> HIDE DEF bad
    <3> QED BY <1>1, <1>4
  <2> QED BY <2>1
<1> QED BY <1>1, <1>2, <1>3, <1>5 DEF t

LEMMA FlattenEmpty ==
    ASSUME NEW s \in Seq(Seq(Int)), \A i \in 1 .. Len(s) : s[i] = <<>>
    PROVE  FlattenSeq(s) = <<>>
<1>1. PICK f : Joined(s, f) /\ FlattenSeq(s) = f[Len(s)]
  BY FlattenJoins
<1> DEFINE bad == {n \in 0 .. Len(s) : f[n] # <<>>}
<1>2. Len(s) \in Nat
  BY LenProperties
<1>3. bad = {}
  <2>1. bad \in SUBSET (0 .. Len(s)) /\ 0 \notin bad
    BY <1>1 DEF Joined
  <2>2. \A n \in 1 .. Len(s) : n \in bad => n - 1 \in bad
    <3> SUFFICES ASSUME NEW n \in 1 .. Len(s), n - 1 \notin bad PROVE n \notin bad
      OBVIOUS
    <3>1. f[n - 1] = <<>> /\ s[n] = <<>>
      BY <1>2
    <3>2. f[n] = f[n - 1] \o s[n]
      BY <1>1 DEF Joined
    <3> QED BY <3>1, <3>2, EmptySeq, ConcatEmptySeq
  <2> HIDE DEF bad
  <2> QED BY <1>2, <2>1, <2>2, NoLeastFailure
<1> QED BY <1>1, <1>2, <1>3

LEMMA FlattenType ==
    ASSUME NEW s \in Seq(Seq(Int))
    PROVE  FlattenSeq(s) \in Seq(Int)
<1>1. PICK f : Joined(s, f) /\ FlattenSeq(s) = f[Len(s)]
  BY FlattenJoins
<1>2. Len(s) \in Nat
  BY LenProperties
<1> QED BY <1>1, <1>2 DEF Joined

---------------------------------------------------------------------------
(* The data of a connection.  Most steps leave it alone.                   *)
StreamSound(t) == PacketsSound(t) /\ BuffersSound(t)

SameData(c, d) ==
    /\ c.app_send = d.app_send /\ c.got = d.got /\ c.pushed = d.pushed
    /\ c.eof = d.eof /\ c.network_recv = d.network_recv /\ c.script = d.script

SameFlow(t) ==
    /\ tran'[t].peerfin = tran[t].peerfin
    /\ tran'[t].pc = "none" => tran[t].pc = "none"
    /\ tran'[t].pc \in {"exit", "done"} =>
         tran[t].pc \in {"exit", "done"} \/ tran[t].peerfin

LEMMA StreamFrame ==
    ASSUME NEW t \in Sd, SameData(ctx'[t], ctx[t]), SameFlow(t), StreamSound(t)
    PROVE  StreamSound(t)'
<1>1. \A kind : Sent(t, kind)' <=> Sent(t, kind)
  BY DEF SameData, Sent
<1>2. PacketsSound(t)'
  BY <1>1 DEF SameData, SameFlow, StreamSound, PacketsSound
<1>3. BuffersSound(t)'
  BY DEF SameData, SameFlow, StreamSound, BuffersSound
<1> QED BY <1>2, <1>3 DEF StreamSound

LEMMA DataEdits ==
    ASSUME NEW c \in Context, NEW x, NEW y
    PROVE  /\ SameData([c EXCEPT !.bound = x], c) /\ SameData([c EXCEPT !.listening = x], c)
           /\ SameData([c EXCEPT !.blocking = x], c)
           /\ SameData([c EXCEPT !.close_requested = x], c)
           /\ SameData([c EXCEPT !.app_recv = x], c)
           /\ SameData([c EXCEPT !.new_socket = x], c)
           /\ SameData([c EXCEPT !.connected = x], c)
           /\ SameData([[c EXCEPT !.failed = x] EXCEPT !.connected = y], c)
BY DEF SameData, Context

LEMMA OneContext ==
    ASSUME TypeInv, NEW s \in Sd, NEW c, ctx' = [ctx EXCEPT ![s] = c]
    PROVE  \A t \in Sd : ctx'[t] = IF t = s THEN c ELSE ctx[t]
BY DEF TypeInv

LEMMA DataKept ==
    ASSUME TypeInv, NEW s \in Sd, NEW c, ctx' = [ctx EXCEPT ![s] = c], SameData(c, ctx[s])
    PROVE  \A t \in Sd : SameData(ctx'[t], ctx[t])
BY OneContext DEF SameData

LEMMA DataUnchanged ==
    ASSUME UNCHANGED ctx
    PROVE  \A t \in Sd : SameData(ctx'[t], ctx[t])
BY DEF SameData

LEMMA FlowUnchanged ==
    ASSUME UNCHANGED tran
    PROVE  \A t \in Sd : SameFlow(t)
BY DEF SameFlow

LEMMA FlowWoken ==
    ASSUME TypeInv, NEW s \in Sd, tran' = WakeTran(s, tran)
    PROVE  \A t \in Sd : SameFlow(t)
<1> SUFFICES ASSUME NEW t \in Sd PROVE SameFlow(t)
  OBVIOUS
<1>1. tran \in [Sd -> TranThread]
  BY DEF TypeInv
<1>2. CASE t = s
  <2>1. tran'[t] = [tran[t] EXCEPT !.pc = CASE @ = "asleep_syn" -> "synwait"
                                            [] @ = "asleep_loop" -> "loop"
                                            [] OTHER -> @]
    BY <1>1, <1>2 DEF WakeTran
  <2>2. tran'[t].peerfin = tran[t].peerfin /\ tran'[t].pc \in {tran[t].pc, "synwait", "loop"}
    BY <1>1, <2>1 DEF TranThread
  <2> QED BY <2>2 DEF SameFlow
<1>3. CASE t # s
  BY <1>1, <1>3 DEF WakeTran, SameFlow
<1> QED BY <1>2, <1>3

(* A context without data. *)
LEMMA NoData ==
    ASSUME NEW t \in Sd, ctx'[t].app_send = <<>>, ctx'[t].got = <<>>, ctx'[t].pushed = <<>>,
           ~ctx'[t].eof, ctx'[t].network_recv = <<>>, ctx'[t].script = <<>>,
           tran'[t].pc = "none"
    PROVE  StreamSound(t)'
<1>1. <<>> \in Seq(Seq(Int)) /\ <<>> \in Seq(Int) /\ Len(<<>>) = 0
  BY EmptySeq
<1>2. FlattenSeq(<<>>) = <<>> /\ <<>> \o <<>> = <<>>
  BY <1>1, ConcatEmptySeq DEF FlattenSeq
<1>3. ~Sent(t, "data")' /\ ~Sent(t, "fin")'
  BY <1>1 DEF Sent
<1>4. PacketsSound(t)'
  BY <1>1, <1>3 DEF PacketsSound, FinLast
<1>5. BuffersSound(t)'
  BY <1>1, <1>2 DEF BuffersSound
<1> QED BY <1>4, <1>5 DEF StreamSound

(* A connection at its beginning: the peer has its script to go through.   *)
LEMMA ScriptSound ==
    ASSUME NEW active \in BOOLEAN
    PROVE  FinLast(Script(active))
<1> DEFINE first == <<IF active THEN "synack" ELSE "ack">>
           middle == [i \in 1 .. DataPackets |-> "data"]
           N == DataPackets
<1>1. N \in Nat /\ first \in Seq(Packet) /\ Len(first) = 1 /\ <<"fin">> \in Seq(Packet)
      /\ Len(<<"fin">>) = 1 /\ first[1] \in {"synack", "ack"}
  BY MysockAssumption DEF Packet
<1>2. middle \in Seq(Packet) /\ Len(middle) = N
  BY <1>1 DEF Packet
<1> HIDE DEF first, middle, N
<1>3. /\ first \o middle \in Seq(Packet) /\ Len(first \o middle) = 1 + N
      /\ (first \o middle)[1] = first[1]
      /\ \A i \in 2 .. 1 + N : (first \o middle)[i] = middle[i - 1]
  BY <1>1, <1>2, ConcatProperties
<1>4. \A i \in 1 .. N : middle[i] = "data"
  BY DEF middle, N
<1>5. /\ Len((first \o middle) \o <<"fin">>) = N + 2
      /\ \A i \in 1 .. N + 1 : ((first \o middle) \o <<"fin">>)[i] # "fin"
  <2>1. /\ Len((first \o middle) \o <<"fin">>) = N + 2
        /\ \A i \in 1 .. N + 1 :
             ((first \o middle) \o <<"fin">>)[i] = (first \o middle)[i]
    BY <1>1, <1>3, ConcatProperties
  <2>2. \A i \in 1 .. N + 1 : (first \o middle)[i] # "fin"
    <3> SUFFICES ASSUME NEW i \in 1 .. N + 1 PROVE (first \o middle)[i] # "fin"
      OBVIOUS
    <3>1. CASE i = 1
      BY <1>1, <1>3, <3>1
    <3>2. CASE i # 1
      <4>1. i \in 2 .. 1 + N /\ i - 1 \in 1 .. N
        BY <1>1, <3>2
      <4> QED BY <1>3, <1>4, <4>1
    <3> QED BY <3>1, <3>2
  <2> QED BY <2>1, <2>2
<1>6. FinLast((first \o middle) \o <<"fin">>)
  BY <1>1, <1>5 DEF FinLast
<1> QED BY <1>6 DEF Script, first, middle, N

LEMMA Beginning ==
    ASSUME NEW t \in Sd, NEW active \in BOOLEAN,
           ctx'[t].app_send = <<>>, ctx'[t].got = ctx'[t].pushed, ctx'[t].got \in Seq(Int),
           ~ctx'[t].eof,
           \A i \in 1 .. Len(ctx'[t].network_recv) :
               ctx'[t].network_recv[i] \notin {"data", "fin"},
           ctx'[t].script = Script(active),
           tran'[t].pc \in {"connect", "synwait"}, ~tran'[t].peerfin
    PROVE  StreamSound(t)'
<1>1. <<>> \in Seq(Seq(Int)) /\ Len(<<>>) = 0
  BY EmptySeq
<1>2. FlattenSeq(<<>>) = <<>> /\ ctx'[t].got \o <<>> = ctx'[t].got
  BY <1>1, ConcatEmptySeq DEF FlattenSeq
<1>3. FinLast(ctx'[t].network_recv) /\ FinLast(ctx'[t].script)
  <2>1. FinLast(ctx'[t].script)
    BY ScriptSound
  <2>2. FinLast(ctx'[t].network_recv)
    BY DEF FinLast
  <2> QED BY <2>1, <2>2
<1>4. PacketsSound(t)'
  BY <1>3 DEF PacketsSound
<1>5. BuffersSound(t)'
  BY <1>1, <1>2 DEF BuffersSound
<1> QED BY <1>4, <1>5 DEF StreamSound

(* The calls, and the steps of the application.                            *)
LEMMA OpenedStream ==
    ASSUME TypeInv, Sound, mysocket, \A t \in Sd : StreamSound(t)
    PROVE  \A t \in Sd : StreamSound(t)'
<1>1. app.pc = "idle" /\ FreeSds # {}
  BY DEF mysocket, AppAt
<1>2. PICK c \in Sd : c = Min(FreeSds) /\ ~ctx[c].live
  BY <1>1, FreeSdType DEF FreeSds
<1>3. /\ ctx' = [ctx EXCEPT ![c] = [FreshContext EXCEPT !.live = TRUE]]
      /\ UNCHANGED tran
  BY <1>2 DEF mysocket
<1>4. tran[c].pc = "none"
  BY <1>2, Unused
<1>5. StreamSound(c)'
  <2>1. ctx'[c] = [FreshContext EXCEPT !.live = TRUE]
    BY <1>3 DEF TypeInv
  <2>2. /\ ctx'[c].app_send = <<>> /\ ctx'[c].got = <<>> /\ ctx'[c].pushed = <<>>
        /\ ~ctx'[c].eof /\ ctx'[c].network_recv = <<>> /\ ctx'[c].script = <<>>
    BY <2>1 DEF FreshContext
  <2> QED BY <1>3, <1>4, <2>2, NoData
<1>6. ASSUME NEW t \in Sd, t # c PROVE StreamSound(t)'
  <2>1. SameData(ctx'[t], ctx[t])
    BY <1>3, <1>6, OneContext DEF SameData
  <2> QED BY <1>3, <2>1, FlowUnchanged, StreamFrame
<1> QED BY <1>5, <1>6

LEMMA ConnectedStream ==
    ASSUME TypeInv, Sound, NEW s \in Sd, myconnect(s), \A t \in Sd : StreamSound(t)
    PROVE  \A t \in Sd : StreamSound(t)'
<1>1. ctx[s].peer = NoPeer /\ tran \in [Sd -> TranThread] /\ ctx[s] \in Context
  BY DEF myconnect, TypeInv
<1>2. tran[s].pc = "none"
  BY <1>1 DEF Sound, ContextsSound
<1>3. PICK p : ctx' = [ctx EXCEPT ![s].peer = p, ![s].bound = TRUE,
                                  ![s].active = TRUE, ![s].script = Script(TRUE)]
  BY DEF myconnect
<1> DEFINE c == [ctx[s] EXCEPT !.peer = p, !.bound = TRUE, !.active = TRUE,
                               !.script = Script(TRUE)]
<1>4. ctx' = [ctx EXCEPT ![s] = c] /\ ctx'[s] = c
  BY <1>3 DEF TypeInv
<1>5. /\ c.app_send = ctx[s].app_send /\ c.got = ctx[s].got /\ c.pushed = ctx[s].pushed
      /\ c.eof = ctx[s].eof /\ c.network_recv = ctx[s].network_recv
      /\ c.script = Script(TRUE)
  BY <1>1 DEF Context
<1> HIDE DEF c
<1>6. /\ tran'[s].pc = "connect" /\ ~tran'[s].peerfin
      /\ \A t \in Sd : t # s => tran'[t] = tran[t]
  BY <1>1 DEF myconnect, StartThreads, TranNone
<1>7. StreamSound(s)'
  <2>1. /\ ctx[s].app_send = <<>> /\ ~ctx[s].eof
        /\ \A i \in 1 .. Len(ctx[s].network_recv) :
             ctx[s].network_recv[i] \notin {"data", "fin"}
    BY <1>2 DEF StreamSound, PacketsSound, Sent
  <2>2. ctx[s].got = ctx[s].pushed /\ ctx[s].got \in Seq(Int)
    <3>1. ctx[s].got \in Seq(Int)
      BY <1>1 DEF Context
    <3>2. FlattenSeq(ctx[s].app_send) = <<>>
      BY <2>1, EmptySeq DEF FlattenSeq
    <3>3. ctx[s].got \o FlattenSeq(ctx[s].app_send) = ctx[s].pushed
      BY DEF StreamSound, BuffersSound
    <3> QED BY <3>1, <3>2, <3>3, ConcatEmptySeq
  <2> QED BY <1>4, <1>5, <1>6, <2>1, <2>2, Beginning
<1>8. ASSUME NEW t \in Sd, t # s PROVE StreamSound(t)'
  <2>1. SameData(ctx'[t], ctx[t]) /\ SameFlow(t)
    BY <1>4, <1>6, <1>8, OneContext DEF SameData, SameFlow
  <2> QED BY <2>1, StreamFrame
<1> QED BY <1>7, <1>8

LEMMA CallsStream ==
    ASSUME TypeInv, Sound, Call, \A t \in Sd : StreamSound(t)
    PROVE  \A t \in Sd : StreamSound(t)'
<1>1. CASE mysocket
  BY <1>1, OpenedStream
<1>2. ASSUME NEW s \in Sd, myconnect(s) PROVE \A t \in Sd : StreamSound(t)'
  BY <1>2, ConnectedStream
<1>3. ASSUME NEW s \in Sd, mybind(s) \/ mylisten(s) \/ myaccept(s) \/ mywrite(s)
                           \/ myread(s) \/ myclose(s)
      PROVE  \A t \in Sd : StreamSound(t)'
  <2>1. UNCHANGED tran /\ ctx \in [Sd -> Context] /\ ctx[s] \in Context
    BY <1>3 DEF TypeInv, mybind, mylisten, myaccept, mywrite, myread, myclose, threads
  <2>2. \/ UNCHANGED ctx
        \/ ctx' = [ctx EXCEPT ![s] = [ctx[s] EXCEPT !.bound = TRUE]]
        \/ ctx' = [ctx EXCEPT ![s] = [ctx[s] EXCEPT !.listening = TRUE]]
        \/ ctx' = [ctx EXCEPT ![s] = [ctx[s] EXCEPT !.app_recv = ctx[s].app_recv + 1]]
        \/ ctx' = [ctx EXCEPT ![s] = [ctx[s] EXCEPT !.close_requested = TRUE]]
    BY <1>3, <2>1 DEF mybind, mylisten, myaccept, mywrite, myread, myclose, CloseRequest
  <2>3. \A t \in Sd : SameData(ctx'[t], ctx[t])
    BY <2>1, <2>2, DataEdits, DataKept, DataUnchanged
  <2> QED BY <2>1, <2>3, FlowUnchanged, StreamFrame
<1> QED BY <1>1, <1>2, <1>3 DEF Call

LEMMA DequeueKeeps ==
    ASSUME NEW q \in Seq(Seq(Int)), q # <<>>, NEW d, d = Dequeue(q, BufLen)
    PROVE  /\ d.buf \in Seq(Int) /\ d.pq \in Seq(Seq(Int))
           /\ FlattenSeq(q) = d.buf \o FlattenSeq(d.pq)
           /\ \/ d.pq = Tail(q) /\ d.buf = q[1]
              \/ /\ Len(d.pq) = Len(q) /\ d.buf # <<>>
                 /\ \A i \in 1 .. Len(q) : d.pq[i] = <<>> <=> q[i] = <<>>
<1> DEFINE h == Head(q)
           a == SubSeq(h, 1, BufLen)
           b == SubSeq(h, BufLen + 1, Len(h))
           N == BufLen
<1>1. /\ h \in Seq(Int) /\ h = q[1] /\ Tail(q) \in Seq(Seq(Int)) /\ Len(h) \in Nat
      /\ Len(q) \in Nat /\ Len(Tail(q)) = Len(q) - 1 /\ Len(q) > 0
      /\ \A i \in 1 .. Len(Tail(q)) : Tail(q)[i] = q[i + 1]
      /\ FlattenSeq(Tail(q)) \in Seq(Int)
  <2>1. /\ h \in Seq(Int) /\ Tail(q) \in Seq(Seq(Int)) /\ Len(Tail(q)) = Len(q) - 1
        /\ \A i \in 1 .. Len(Tail(q)) : Tail(q)[i] = q[i + 1]
    BY HeadTailProperties
  <2>2. Len(q) \in Nat /\ Len(q) > 0 /\ h = q[1]
    BY LenProperties, EmptySeq
  <2>3. Len(h) \in Nat
    BY <2>1, LenProperties
  <2>4. FlattenSeq(Tail(q)) \in Seq(Int)
    BY <2>1, FlattenType
  <2> QED BY <2>1, <2>2, <2>3, <2>4
<1>2. FlattenSeq(q) = h \o FlattenSeq(Tail(q))
  BY FlattenFirst
<1>3. N \in Nat /\ N > 0
  BY MysockAssumption
<1>4. CASE Len(h) > N
  <2>1. d = [buf |-> a, pq |-> <<b>> \o Tail(q)]
    BY <1>4 DEF Dequeue
  <2>2. a \in Seq(Int) /\ Len(a) = N
    <3>1. \A i \in 1 .. N : h[i] \in Int
      BY <1>1, <1>3, <1>4, ElementOfSeq
    <3>2. 1 \in Int /\ N \in Int /\ 1 <= N /\ N - 1 + 1 = N
      BY <1>3
    <3> QED BY <3>1, <3>2, SubSeqProperties
  <2>3. b \in Seq(Int) /\ Len(b) = Len(h) - N
    <3>1. \A i \in N + 1 .. Len(h) : h[i] \in Int
      BY <1>1, <1>3, <1>4, ElementOfSeq
    <3>2. N + 1 \in Int /\ Len(h) \in Int /\ N + 1 <= Len(h)
          /\ Len(h) - (N + 1) + 1 = Len(h) - N
      BY <1>1, <1>3, <1>4
    <3> QED BY <3>1, <3>2, SubSeqProperties
  <2>4. a \o b = h
    <3>1. 1 \in 1 .. Len(h) + 1 /\ N \in 1 - 1 .. Len(h) /\ Len(h) \in N .. Len(h)
      BY <1>1, <1>3, <1>4
    <3>2. SubSeq(h, 1, N) \o SubSeq(h, N + 1, Len(h)) = SubSeq(h, 1, Len(h))
      BY <1>1, <3>1, ConcatAdjacentSubSeq
    <3> QED BY <1>1, <3>2, SubSeqFull
  <2> HIDE DEF a, b, h, N
  <2>5. <<b>> \in Seq(Seq(Int)) /\ Len(<<b>>) = 1 /\ <<b>>[1] = b
    BY <2>3
  <2> DEFINE r == <<b>> \o Tail(q)
  <2>6. /\ r \in Seq(Seq(Int)) /\ Len(r) = Len(q)
        /\ \A i \in 1 .. Len(q) : r[i] = IF i <= 1 THEN <<b>>[i] ELSE Tail(q)[i - 1]
    BY <1>1, <2>5, ConcatProperties
  <2> HIDE DEF r
  <2>7. r[1] = b /\ \A i \in 2 .. Len(q) : r[i] = q[i]
    <3>1. r[1] = b
      BY <1>1, <2>5, <2>6
    <3>2. ASSUME NEW i \in 2 .. Len(q) PROVE r[i] = q[i]
      <4>1. i \in 1 .. Len(q) /\ i - 1 \in 1 .. Len(Tail(q)) /\ ~(i <= 1) /\ (i - 1) + 1 = i
        BY <1>1
      <4> QED BY <1>1, <2>6, <4>1
    <3> QED BY <3>1, <3>2
  <2>8. r # <<>> /\ Head(r) = b /\ Tail(r) = Tail(q)
    <3>1. r # <<>>
      BY <1>1, <2>6, EmptySeq
    <3>2. Head(r) = b
      BY <2>6, <2>7
    <3>3. /\ Tail(r) \in Seq(Seq(Int)) /\ Len(Tail(r)) = Len(r) - 1
          /\ \A i \in 1 .. Len(Tail(r)) : Tail(r)[i] = r[i + 1]
      BY <2>6, <3>1, HeadTailProperties
    <3>4. \A i \in 1 .. Len(Tail(r)) : Tail(r)[i] = Tail(q)[i]
      <4> SUFFICES ASSUME NEW i \in 1 .. Len(Tail(r)) PROVE Tail(r)[i] = Tail(q)[i]
        OBVIOUS
      <4>1. i + 1 \in 2 .. Len(q) /\ i \in 1 .. Len(Tail(q))
        BY <1>1, <2>6, <3>3
      <4> QED BY <1>1, <2>7, <3>3, <4>1
    <3> QED BY <1>1, <2>6, <3>1, <3>2, <3>3, <3>4, SeqEqual
  <2>9. FlattenSeq(r) = b \o FlattenSeq(Tail(q))
    BY <2>6, <2>8, FlattenFirst
  <2>10. FlattenSeq(q) = a \o FlattenSeq(r)
    <3>1. (a \o b) \o FlattenSeq(Tail(q)) = a \o (b \o FlattenSeq(Tail(q)))
      BY <1>1, <2>2, <2>3, BytesAssociative
    <3> QED BY <1>2, <2>4, <2>9, <3>1
  <2>11. a # <<>> /\ b # <<>> /\ h # <<>>
    BY <1>1, <1>3, <1>4, <2>2, <2>3, EmptySeq
  <2>12. \A i \in 1 .. Len(q) : r[i] = <<>> <=> q[i] = <<>>
    <3> SUFFICES ASSUME NEW i \in 1 .. Len(q) PROVE r[i] = <<>> <=> q[i] = <<>>
      OBVIOUS
    <3>1. i = 1 \/ i \in 2 .. Len(q)
      BY <1>1
    <3> QED BY <1>1, <2>7, <2>11, <3>1
  <2>13. d.buf = a /\ d.pq = r
    BY <2>1 DEF r
  <2> QED BY <2>2, <2>6, <2>10, <2>11, <2>12, <2>13
<1>5. CASE ~(Len(h) > N)
  <2>1. d = [buf |-> h, pq |-> Tail(q)]
    BY <1>5 DEF Dequeue
  <2> QED BY <1>1, <1>2, <2>1
<1> QED BY <1>4, <1>5

LEMMA ReadStream ==
    ASSUME TypeInv, Sound, DequeueBuffer, \A t \in Sd : StreamSound(t)
    PROVE  \A t \in Sd : StreamSound(t)'
<1>0. UNCHANGED tran /\ app.sd \in Sd
  BY DEF DequeueBuffer, AppAt, Sound, ApplicationSound
<1>1. CASE ctx[app.sd].app_send = <<>>
  <2>1. UNCHANGED ctx
    BY <1>1 DEF DequeueBuffer
  <2> QED BY <1>0, <2>1, DataUnchanged, FlowUnchanged, StreamFrame
<1>2. CASE ctx[app.sd].app_send # <<>>
  <2>0. PICK s \in Sd : s = app.sd
    BY <1>0
  <2>1. PICK d : d = Dequeue(ctx[s].app_send, BufLen)
    OBVIOUS
  <2>2. ctx[s] \in Context
    BY DEF TypeInv
  <2>3. /\ ctx[s].app_send \in Seq(Seq(Int)) /\ ctx[s].got \in Seq(Int)
        /\ ctx[s].app_send # <<>>
    BY <1>2, <2>0, <2>2 DEF Context
  <2> DEFINE q == ctx[s].app_send
             c == [ctx[s] EXCEPT !.app_send = d.pq, !.got = ctx[s].got \o d.buf,
                                 !.eof = (d.buf = <<>>)]
  <2>4. ctx' = [ctx EXCEPT ![s] = c]
    BY <1>2, <2>0, <2>1 DEF DequeueBuffer, TypeInv
  <2>5. /\ c.app_send = d.pq /\ c.got = ctx[s].got \o d.buf /\ c.eof = (d.buf = <<>>)
        /\ c.pushed = ctx[s].pushed /\ c.network_recv = ctx[s].network_recv
        /\ c.script = ctx[s].script
    BY <2>2 DEF Context
  <2> HIDE DEF c
  <2>6. ctx'[s] = c /\ \A t \in Sd : t # s => ctx'[t] = ctx[t]
    BY <2>4 DEF TypeInv
  <2>7. /\ d.buf \in Seq(Int) /\ d.pq \in Seq(Seq(Int))
        /\ FlattenSeq(q) = d.buf \o FlattenSeq(d.pq)
        /\ \/ d.pq = Tail(q) /\ d.buf = q[1]
           \/ /\ Len(d.pq) = Len(q) /\ d.buf # <<>>
              /\ \A i \in 1 .. Len(q) : d.pq[i] = <<>> <=> q[i] = <<>>
    BY <2>1, <2>3, DequeueKeeps
  <2>8. /\ Tail(q) \in Seq(Seq(Int)) /\ Len(Tail(q)) = Len(q) - 1 /\ Len(q) \in Nat
        /\ Len(q) > 0 /\ \A i \in 1 .. Len(Tail(q)) : Tail(q)[i] = q[i + 1]
    BY <2>3, HeadTailProperties, LenProperties, EmptySeq
  <2>9. /\ \A i, j \in 1 .. Len(q) : i < j /\ q[i] = <<>> => q[j] = <<>>
        /\ (\E i \in 1 .. Len(q) : q[i] = <<>>) => tran[s].peerfin
        /\ tran[s].pc \in {"exit", "done"} => tran[s].peerfin
        /\ ctx[s].got \o FlattenSeq(q) = ctx[s].pushed
    BY DEF StreamSound, BuffersSound
  <2> DEFINE p == d.pq
  <2>10. /\ \A i, j \in 1 .. Len(p) : i < j /\ p[i] = <<>> => p[j] = <<>>
         /\ (\E i \in 1 .. Len(p) : p[i] = <<>>) => tran[s].peerfin
         /\ d.buf = <<>> => tran[s].peerfin /\ \A i \in 1 .. Len(p) : p[i] = <<>>
    <3>1. CASE p = Tail(q) /\ d.buf = q[1]
      <4>1. \A i \in 1 .. Len(p) :
              /\ i + 1 \in 1 .. Len(q) /\ p[i] = q[i + 1] /\ 1 < i + 1
              /\ \A j \in 1 .. Len(p) : i < j => i + 1 < j + 1
        BY <2>8, <3>1
      <4>2. 1 \in 1 .. Len(q)
        BY <2>8
      <4> HIDE DEF p, q
      <4>3. \A i, j \in 1 .. Len(p) : i < j /\ p[i] = <<>> => p[j] = <<>>
        BY <2>9, <4>1
      <4>4. (\E i \in 1 .. Len(p) : p[i] = <<>>) => tran[s].peerfin
        BY <2>9, <4>1
      <4>5. d.buf = <<>> => tran[s].peerfin /\ \A i \in 1 .. Len(p) : p[i] = <<>>
        <5>1. ASSUME q[1] = <<>>
              PROVE  tran[s].peerfin /\ \A i \in 1 .. Len(p) : p[i] = <<>>
          <6>1. tran[s].peerfin
            BY <2>9, <4>2, <5>1
          <6>2. ASSUME NEW i \in 1 .. Len(p) PROVE p[i] = <<>>
            BY <2>9, <4>1, <4>2, <5>1
          <6> QED BY <6>1, <6>2
        <5> QED BY <3>1, <5>1
      <4> QED BY <4>3, <4>4, <4>5
    <3>2. CASE /\ Len(p) = Len(q) /\ d.buf # <<>>
               /\ \A i \in 1 .. Len(q) : p[i] = <<>> <=> q[i] = <<>>
      <4> HIDE DEF p, q
      <4> QED BY <2>9, <3>2
    <3> QED BY <2>7, <3>1, <3>2
  <2>11. (ctx[s].got \o d.buf) \o FlattenSeq(p) = ctx[s].pushed
    <3>1. FlattenSeq(p) \in Seq(Int)
      BY <2>7, FlattenType
    <3>2. (ctx[s].got \o d.buf) \o FlattenSeq(p) = ctx[s].got \o (d.buf \o FlattenSeq(p))
      BY <2>3, <2>7, <3>1, BytesAssociative
    <3> QED BY <2>7, <2>9, <3>2
  <2>12. BuffersSound(s)'
    <3>1. /\ ctx'[s].app_send = p /\ ctx'[s].got = ctx[s].got \o d.buf
          /\ ctx'[s].eof = (d.buf = <<>>) /\ ctx'[s].pushed = ctx[s].pushed
          /\ tran' = tran
      BY <1>0, <2>5, <2>6
    <3> HIDE DEF p, q
    <3> QED BY <2>9, <2>10, <2>11, <3>1 DEF BuffersSound
  <2>13. PacketsSound(s)'
    <3>1. \A kind : Sent(s, kind)' <=> Sent(s, kind)
      BY <2>5, <2>6 DEF Sent
    <3>2. tran[s].pc # "none"
      BY <2>3 DEF StreamSound, PacketsSound
    <3> QED BY <1>0, <2>5, <2>6, <3>1, <3>2 DEF StreamSound, PacketsSound
  <2>14. ASSUME NEW t \in Sd, t # s PROVE StreamSound(t)'
    <3>1. SameData(ctx'[t], ctx[t])
      BY <2>6, <2>14 DEF SameData
    <3> QED BY <1>0, <3>1, FlowUnchanged, StreamFrame
  <2> QED BY <2>12, <2>13, <2>14 DEF StreamSound
<1> QED BY <1>1, <1>2

LEMMA AppStepsStream ==
    ASSUME TypeInv, Sound, AppStep, \A t \in Sd : StreamSound(t)
    PROVE  \A t \in Sd : StreamSound(t)'
<1>1. CASE DequeueBuffer
  BY <1>1, ReadStream
<1>2. CASE FreeContext
  <2>1. PICK s \in Sd : s = app.sd
    BY <1>2 DEF FreeContext, AppAt, Sound, ApplicationSound
  <2>2. ctx' = [ctx EXCEPT ![s] = FreshContext] /\ tran' = [tran EXCEPT ![s] = TranNone]
    BY <1>2, <2>1 DEF FreeContext
  <2>3. /\ ctx'[s] = FreshContext /\ tran'[s] = TranNone
        /\ \A t \in Sd : t # s => ctx'[t] = ctx[t] /\ tran'[t] = tran[t]
    BY <2>2 DEF TypeInv
  <2>4. StreamSound(s)'
    BY <2>3, NoData DEF FreshContext, TranNone
  <2>5. \A t \in Sd : t # s => SameData(ctx'[t], ctx[t]) /\ SameFlow(t)
    BY <2>3 DEF SameData, SameFlow
  <2> QED BY <2>4, <2>5, StreamFrame
<1>3. CASE DrainQueue
  <2>1. PICK l \in Sd : l = app.sd
    BY <1>3 DEF DrainQueue, AppAt, Sound, ApplicationSound
  <2>2. UNCHANGED tran
    BY <1>3 DEF DrainQueue
  <2>3. CASE UNCHANGED ctx
    BY <2>2, <2>3, DataUnchanged, FlowUnchanged, StreamFrame
  <2>4. CASE ~UNCHANGED ctx
    <3>1. PICK c : c = Queue(l).slot[app.k].sd
      OBVIOUS
    <3>2. /\ app.k <= Queue(l).max_len /\ c # -1
          /\ ctx' = [ctx EXCEPT ![c].close_requested = TRUE]
      BY <1>3, <2>1, <2>4, <3>1 DEF DrainQueue, CloseRequest
    <3>3. app.k \in 1 .. Queue(l).max_len
      BY <1>3, <2>1, <3>2, Draining DEF DrainQueue, AppAt
    <3>4. c \in Sd /\ ctx[c] \in Context
      BY <3>1, <3>2, <3>3, QueueType DEF TypeInv, NoSd
    <3>5. ctx' = [ctx EXCEPT ![c] = [ctx[c] EXCEPT !.close_requested = TRUE]]
      BY <3>2
    <3>6. \A t \in Sd : SameData(ctx'[t], ctx[t])
      BY <3>4, <3>5, DataEdits, DataKept
    <3> QED BY <2>2, <3>6, FlowUnchanged, StreamFrame
  <2> QED BY <2>3, <2>4
<1>4. CASE Wrote \/ CloseBroadcast
  <2>1. app.sd \in Sd
    BY <1>4 DEF Wrote, CloseBroadcast, AppAt, Sound, ApplicationSound
  <2>2. UNCHANGED ctx /\ tran' = WakeTran(app.sd, tran)
    BY <1>4 DEF Wrote, CloseBroadcast
  <2> QED BY <2>1, <2>2, DataUnchanged, FlowWoken, StreamFrame
<1>5. CASE \/ SetBacklog \/ WaitForConnection \/ DequeueConnection \/ Wipe \/ Invalidate
           \/ LoadLen \/ StoreLen \/ JoinTransport \/ JoinRecv \/ ClosePassive
  <2>1. UNCHANGED <<ctx, tran>>
    BY <1>5 DEF SetBacklog, WaitForConnection, DequeueConnection, Wipe, Invalidate,
                LoadLen, StoreLen, JoinTransport, JoinRecv, ClosePassive
  <2> QED BY <2>1, DataUnchanged, FlowUnchanged, StreamFrame
<1> QED BY <1>1, <1>2, <1>3, <1>4, <1>5 DEF AppStep

(* The receive threads.                                                    *)
LEMMA AcceptedStream ==
    ASSUME TypeInv, Sound, Run, NEW s \in Sd, CreateConnection(s),
           \A t \in Sd : StreamSound(t)
    PROVE  \A t \in Sd : StreamSound(t)'
<1>1. /\ ctx \in [Sd -> Context] /\ tran \in [Sd -> TranThread]
      /\ recv[s].pc = "create" /\ recv[s].fd # -1 /\ recv[s].fd \in NoSd
  BY DEF TypeInv, CreateConnection, RecvAt, RecvThread
<1>2. PICK c \in Sd : c = recv[s].fd
  BY <1>1 DEF NoSd
<1>3. PICK p : p = recv[s].peer
  OBVIOUS
<1>4. CASE ctx[c].live
  <2>1. UNCHANGED <<ctx, tran>>
    BY <1>2, <1>4 DEF CreateConnection
  <2> QED BY <2>1, DataUnchanged, FlowUnchanged, StreamFrame
<1>5. CASE ~ctx[c].live
  <2> DEFINE new == [FreshContext EXCEPT !.live = TRUE, !.listen_sd = s, !.peer = p,
                         !.connected = "yes", !.script = Script(FALSE)]
  <2>1. /\ ctx' = [ctx EXCEPT ![c] = new, ![s].new_socket = NoPeer]
        /\ tran' = [tran EXCEPT ![c] = [TranNone EXCEPT !.pc = "synwait"]]
    BY <1>2, <1>3, <1>5 DEF CreateConnection
  <2>2. s # c
    BY <1>1, <1>5 DEF Sound, ContextsSound
  <2>3. /\ new.app_send = <<>> /\ new.got = <<>> /\ new.pushed = <<>> /\ ~new.eof
        /\ new.network_recv = <<>> /\ new.script = Script(FALSE)
    BY DEF FreshContext
  <2> HIDE DEF new
  <2>4. /\ ctx'[c] = new /\ ctx'[s] = [ctx[s] EXCEPT !.new_socket = NoPeer]
        /\ \A t \in Sd : t # c /\ t # s => ctx'[t] = ctx[t]
    BY <1>1, <2>1, <2>2
  <2>5. /\ tran'[c].pc = "synwait" /\ ~tran'[c].peerfin
        /\ \A t \in Sd : t # c => tran'[t] = tran[t]
    BY <1>1, <2>1 DEF TranNone
  <2>6. StreamSound(c)'
    <3>1. <<>> \in Seq(Int) /\ Len(<<>>) = 0
      BY EmptySeq
    <3>2. /\ ctx'[c].app_send = <<>> /\ ctx'[c].got = <<>> /\ ctx'[c].pushed = <<>>
          /\ ~ctx'[c].eof /\ ctx'[c].network_recv = <<>> /\ ctx'[c].script = Script(FALSE)
      BY <2>3, <2>4
    <3>3. \A i \in 1 .. Len(ctx'[c].network_recv) :
            ctx'[c].network_recv[i] \notin {"data", "fin"}
      BY <3>1, <3>2
    <3> QED BY <2>5, <3>1, <3>2, <3>3, Beginning
  <2>7. ASSUME NEW t \in Sd, t # c PROVE StreamSound(t)'
    <3>1. SameData(ctx'[t], ctx[t])
      <4>1. SameData([ctx[s] EXCEPT !.new_socket = NoPeer], ctx[s])
        BY <1>1, DataEdits
      <4>2. CASE t = s
        BY <2>4, <4>1, <4>2
      <4>3. CASE t # s
        BY <2>4, <2>7, <4>3 DEF SameData
      <4> QED BY <4>2, <4>3
    <3>2. SameFlow(t)
      BY <2>5, <2>7 DEF SameFlow
    <3> QED BY <3>1, <3>2, StreamFrame
  <2> QED BY <2>6, <2>7
<1> QED BY <1>4, <1>5

LEMMA PassedStream ==
    ASSUME TypeInv, Sound, NEW s \in Sd, PassSyn(s), \A t \in Sd : StreamSound(t)
    PROVE  \A t \in Sd : StreamSound(t)'
<1>1. PICK c \in Sd : c = recv[s].fd
  BY DEF PassSyn, RecvAt, Sound, ContextsSound
<1>2. /\ ctx' = [ctx EXCEPT ![c].network_recv = Append(@, "syn")] /\ UNCHANGED tran
  BY <1>1 DEF PassSyn
<1>3. ctx[c] \in Context /\ ctx \in [Sd -> Context]
  BY DEF TypeInv
<1> DEFINE q == ctx[c].network_recv
           new == [ctx[c] EXCEPT !.network_recv = Append(q, "syn")]
<1>4. q \in Seq(Packet) /\ "syn" \in Packet
  BY <1>3 DEF Context, Packet
<1>5. /\ ctx'[c] = new /\ \A t \in Sd : t # c => ctx'[t] = ctx[t]
  BY <1>2, <1>3
<1>6. /\ new.app_send = ctx[c].app_send /\ new.got = ctx[c].got /\ new.pushed = ctx[c].pushed
      /\ new.eof = ctx[c].eof /\ new.script = ctx[c].script
      /\ new.network_recv = Append(q, "syn")
  BY <1>3 DEF Context
<1> DEFINE r == Append(q, "syn")
<1>7. /\ Len(q) \in Nat /\ Len(r) = Len(q) + 1 /\ r[Len(q) + 1] = "syn"
      /\ \A i \in 1 .. Len(q) : r[i] = q[i]
  BY <1>4, LenProperties, AppendProperties
<1>8. ctx'[c].network_recv = r
  BY <1>5, <1>6
<1> HIDE DEF new, r
<1>9. ASSUME NEW k \in {"data", "fin"}
      PROVE  (\E i \in 1 .. Len(r) : r[i] = k) <=> (\E i \in 1 .. Len(q) : q[i] = k)
  <2>1. ASSUME NEW i \in 1 .. Len(r), r[i] = k PROVE \E j \in 1 .. Len(q) : q[j] = k
    <3>1. i # Len(q) + 1
      BY <1>7, <1>9, <2>1
    <3>2. i \in 1 .. Len(q)
      BY <1>7, <3>1
    <3> QED BY <1>7, <2>1, <3>2
  <2>2. ASSUME NEW i \in 1 .. Len(q), q[i] = k PROVE \E j \in 1 .. Len(r) : r[j] = k
    BY <1>7, <2>2
  <2> QED BY <2>1, <2>2
<1>10. FinLast(r)
  <2> SUFFICES ASSUME NEW i \in 1 .. Len(r), NEW j \in 1 .. Len(r), i < j, r[i] = "fin"
               PROVE  r[j] # "data"
    BY DEF FinLast
  <2>1. FinLast(q)
    BY DEF StreamSound, PacketsSound
  <2>2. CASE j = Len(q) + 1
    BY <1>7, <2>2
  <2>3. CASE j # Len(q) + 1
    <3>1. i \in 1 .. Len(q) /\ j \in 1 .. Len(q)
      BY <1>7, <2>3
    <3> QED BY <1>7, <2>1, <3>1 DEF FinLast
  <2> QED BY <2>2, <2>3
<1>11. /\ Sent(c, "data")' <=> Sent(c, "data")
       /\ Sent(c, "fin")' <=> Sent(c, "fin")
  <2>1. ASSUME NEW k \in {"data", "fin"} PROVE Sent(c, k)' <=> Sent(c, k)
    BY <1>5, <1>6, <1>8, <1>9 DEF Sent
  <2> QED BY <2>1
<1>12. StreamSound(c)'
  <2>0. /\ ctx'[c].app_send = ctx[c].app_send /\ ctx'[c].got = ctx[c].got
        /\ ctx'[c].pushed = ctx[c].pushed /\ ctx'[c].eof = ctx[c].eof
        /\ ctx'[c].script = ctx[c].script /\ tran'[c] = tran[c]
    BY <1>2, <1>5, <1>6
  <2>1. PacketsSound(c)'
    <3>1. (\E i \in 1 .. Len(r) : r[i] = "fin") <=> (\E i \in 1 .. Len(q) : q[i] = "fin")
      BY <1>9
    <3> QED BY <1>8, <1>10, <1>11, <2>0, <3>1 DEF StreamSound, PacketsSound
  <2>2. BuffersSound(c)'
    <3>1. BuffersSound(c)
      BY DEF StreamSound
    <3> HIDE DEF q
    <3> QED BY <2>0, <3>1 DEF BuffersSound
  <2> QED BY <2>1, <2>2 DEF StreamSound
<1>13. ASSUME NEW t \in Sd, t # c PROVE StreamSound(t)'
  <2>1. SameData(ctx'[t], ctx[t])
    BY <1>5, <1>13 DEF SameData
  <2> QED BY <1>2, <2>1, FlowUnchanged, StreamFrame
<1> QED BY <1>12, <1>13

(* A packet comes in: what is still to come follows it.                    *)
LEMMA PacketStream ==
    ASSUME TypeInv, NEW s \in Sd, RecvPacket(s), \A t \in Sd : StreamSound(t)
    PROVE  \A t \in Sd : StreamSound(t)'
<1>1. ctx[s] \in Context /\ ctx \in [Sd -> Context] /\ ctx[s].script # <<>> /\ UNCHANGED tran
  BY DEF TypeInv, RecvPacket
<1> DEFINE q == ctx[s].network_recv
           w == ctx[s].script
           r == Append(q, Head(w))
           v == Tail(w)
           new == [ctx[s] EXCEPT !.network_recv = r, !.script = v]
<1>2. ctx' = [ctx EXCEPT ![s] = new]
  BY <1>1 DEF RecvPacket
<1>3. /\ new.app_send = ctx[s].app_send /\ new.got = ctx[s].got /\ new.pushed = ctx[s].pushed
      /\ new.eof = ctx[s].eof /\ new.network_recv = r /\ new.script = v
  BY <1>1 DEF Context
<1> HIDE DEF new
<1>4. /\ ctx'[s] = new /\ \A t \in Sd : t # s => ctx'[t] = ctx[t]
  BY <1>1, <1>2
<1>5. q \in Seq(Packet) /\ w \in Seq(Packet) /\ w # <<>>
  BY <1>1 DEF Context
<1>6. /\ Head(w) = w[1] /\ Head(w) \in Packet /\ Len(w) \in Nat /\ Len(w) > 0
      /\ Len(v) = Len(w) - 1 /\ \A i \in 1 .. Len(v) : v[i] = w[i + 1]
  BY <1>5, HeadTailProperties, LenProperties, EmptySeq
<1>7. /\ Len(q) \in Nat /\ Len(r) = Len(q) + 1 /\ r[Len(q) + 1] = w[1]
      /\ \A i \in 1 .. Len(q) : r[i] = q[i]
  BY <1>5, <1>6, LenProperties, AppendProperties
<1>8. /\ FinLast(q) /\ FinLast(w)
      /\ (\E i \in 1 .. Len(q) : q[i] = "fin") => \A i \in 1 .. Len(w) : w[i] # "data"
  BY DEF StreamSound, PacketsSound
<1> HIDE DEF r, v
<1>9. ASSUME NEW k
      PROVE  ((\E i \in 1 .. Len(r) : r[i] = k) \/ (\E i \in 1 .. Len(v) : v[i] = k))
             => (\E i \in 1 .. Len(q) : q[i] = k) \/ (\E i \in 1 .. Len(w) : w[i] = k)
  <2>1. ASSUME NEW i \in 1 .. Len(r), r[i] = k
        PROVE  (\E j \in 1 .. Len(q) : q[j] = k) \/ (\E j \in 1 .. Len(w) : w[j] = k)
    <3>1. i \in 1 .. Len(q) \/ i = Len(q) + 1
      BY <1>7
    <3>2. 1 \in 1 .. Len(w)
      BY <1>6
    <3> QED BY <1>7, <2>1, <3>1, <3>2
  <2>2. ASSUME NEW i \in 1 .. Len(v), v[i] = k PROVE \E j \in 1 .. Len(w) : w[j] = k
    <3>1. i + 1 \in 1 .. Len(w)
      BY <1>6
    <3> QED BY <1>6, <2>2, <3>1
  <2> QED BY <2>1, <2>2
<1>10. FinLast(r)
  <2> SUFFICES ASSUME NEW i \in 1 .. Len(r), NEW j \in 1 .. Len(r), i < j, r[i] = "fin"
               PROVE  r[j] # "data"
    BY DEF FinLast
  <2>1. i \in 1 .. Len(q) /\ q[i] = "fin"
    BY <1>7
  <2>2. j \in 1 .. Len(q) \/ j = Len(q) + 1
    BY <1>7
  <2>3. w[1] # "data"
    BY <1>6, <1>8, <2>1
  <2> QED BY <1>7, <1>8, <2>1, <2>2, <2>3 DEF FinLast
<1>11. FinLast(v)
  <2> SUFFICES ASSUME NEW i \in 1 .. Len(v), NEW j \in 1 .. Len(v), i < j, v[i] = "fin"
               PROVE  v[j] # "data"
    BY DEF FinLast
  <2>1. i + 1 \in 1 .. Len(w) /\ j + 1 \in 1 .. Len(w) /\ i + 1 < j + 1
    BY <1>6
  <2> QED BY <1>6, <1>8, <2>1 DEF FinLast
<1>12. ASSUME NEW i \in 1 .. Len(r), r[i] = "fin", NEW j \in 1 .. Len(v)
       PROVE  v[j] # "data"
  <2>1. j + 1 \in 1 .. Len(w) /\ v[j] = w[j + 1] /\ 1 \in 1 .. Len(w) /\ 1 < j + 1
    BY <1>6
  <2>2. CASE i = Len(q) + 1
    <3>1. w[1] = "fin"
      BY <1>7, <1>12, <2>2
    <3> QED BY <1>8, <2>1, <3>1 DEF FinLast
  <2>3. CASE i # Len(q) + 1
    <3>1. i \in 1 .. Len(q) /\ q[i] = "fin"
      BY <1>7, <1>12, <2>3
    <3> QED BY <1>8, <2>1, <3>1
  <2> QED BY <2>2, <2>3
<1>13. ASSUME NEW k PROVE Sent(s, k)' => Sent(s, k)
  BY <1>3, <1>4, <1>9 DEF Sent
<1>14. StreamSound(s)'
  <2>1. PacketsSound(s)'
    <3>1. ctx'[s].network_recv = r /\ ctx'[s].script = v
      BY <1>3, <1>4
    <3>2. (\E i \in 1 .. Len(r) : r[i] = "fin") => \A i \in 1 .. Len(v) : v[i] # "data"
      BY <1>12
    <3>3. tran'[s] = tran[s] /\ ctx'[s].app_send = ctx[s].app_send /\ ctx'[s].eof = ctx[s].eof
      BY <1>1, <1>3, <1>4
    <3>4. tran[s].peerfin => ~Sent(s, "data")'
      BY <1>13 DEF StreamSound, PacketsSound
    <3>5. tran[s].pc = "none" => /\ ~Sent(s, "data")' /\ ~Sent(s, "fin")'
                                 /\ ctx[s].app_send = <<>> /\ ~ctx[s].eof
      BY <1>13 DEF StreamSound, PacketsSound
    <3> QED BY <1>10, <1>11, <3>1, <3>2, <3>3, <3>4, <3>5 DEF PacketsSound
  <2>2. BuffersSound(s)'
    <3>1. /\ ctx'[s].app_send = ctx[s].app_send /\ ctx'[s].got = ctx[s].got
          /\ ctx'[s].pushed = ctx[s].pushed /\ ctx'[s].eof = ctx[s].eof /\ tran' = tran
      BY <1>1, <1>3, <1>4
    <3> QED BY <3>1 DEF StreamSound, BuffersSound
  <2> QED BY <2>1, <2>2 DEF StreamSound
<1>15. ASSUME NEW t \in Sd, t # s PROVE StreamSound(t)'
  <2>1. SameData(ctx'[t], ctx[t])
    BY <1>4, <1>15 DEF SameData
  <2> QED BY <1>1, <2>1, FlowUnchanged, StreamFrame
<1> QED BY <1>14, <1>15

LEMMA RecvStepsStream ==
    ASSUME TypeInv, Sound, Run, NEW s \in Sd, RecvStep(s), \A t \in Sd : StreamSound(t)
    PROVE  \A t \in Sd : StreamSound(t)'
<1>0. ctx[s] \in Context /\ ctx \in [Sd -> Context]
  BY DEF TypeInv
<1>1. CASE CreateConnection(s)
  BY <1>1, AcceptedStream
<1>2. CASE PassSyn(s)
  BY <1>2, PassedStream
<1>3. CASE RecvPacket(s)
  BY <1>3, PacketStream
<1>4. CASE RecvConnect(s)
  <2>1. PICK to : ctx' = [ctx EXCEPT ![s] = [ctx[s] EXCEPT !.connected = to]]
    BY <1>4 DEF RecvConnect, TcpConnect
  <2>2. SameData([ctx[s] EXCEPT !.connected = to], ctx[s])
    BY <1>0, DataEdits
  <2>3. \A t \in Sd : SameData(ctx'[t], ctx[t])
    BY <2>1, <2>2, DataKept
  <2>4. UNCHANGED tran
    BY <1>4 DEF RecvConnect
  <2> QED BY <2>3, <2>4, FlowUnchanged, StreamFrame
<1>5. CASE RecvAccept(s)
  <2>1. ctx' = [ctx EXCEPT ![s] = [ctx[s] EXCEPT !.new_socket = Head(accq[s])]]
    BY <1>5 DEF RecvAccept
  <2>2. SameData([ctx[s] EXCEPT !.new_socket = Head(accq[s])], ctx[s])
    BY <1>0, DataEdits
  <2>3. \A t \in Sd : SameData(ctx'[t], ctx[t])
    BY <2>1, <2>2, DataKept
  <2>4. UNCHANGED tran
    BY <1>5 DEF RecvAccept
  <2> QED BY <2>3, <2>4, FlowUnchanged, StreamFrame
<1>6. CASE PassedSyn(s) \/ QueuedPacket(s)
  <2>1. PICK c \in Sd : tran' = WakeTran(c, tran)
    <3>1. recv[s].pc = "passed" => recv[s].fd \in Sd
      BY DEF Sound, ContextsSound
    <3> QED BY <1>6, <3>1 DEF PassedSyn, QueuedPacket, RecvAt
  <2>2. UNCHANGED ctx
    BY <1>6 DEF PassedSyn, QueuedPacket
  <2> QED BY <2>1, <2>2, DataUnchanged, FlowWoken, StreamFrame
<1>7. CASE \/ RecvExit(s) \/ RecvRead(s) \/ EnqueueConnection(s) \/ ClaimSlot(s)
           \/ NewMysocketFails(s)
  <2>1. UNCHANGED <<ctx, tran>>
    BY <1>7 DEF RecvExit, RecvRead, EnqueueConnection, ClaimSlot, NewMysocketFails
  <2> QED BY <2>1, DataUnchanged, FlowUnchanged, StreamFrame
<1> QED BY <1>1, <1>2, <1>3, <1>4, <1>5, <1>6, <1>7 DEF RecvStep

(* The transport threads.  A packet is taken from the front.               *)
LEMMA PacketTaken ==
    ASSUME TypeInv, NEW s \in Sd, StreamSound(s),
           NEW p, p = AfterEvent(s).network_recv
    PROVE  /\ FinLast(p)
           /\ \A i \in 1 .. Len(p) : \E j \in 1 .. Len(ctx[s].network_recv) :
                p[i] = ctx[s].network_recv[j]
           /\ ctx[s].network_recv # <<>> =>
                /\ Head(ctx[s].network_recv) = ctx[s].network_recv[1]
                /\ 1 \in 1 .. Len(ctx[s].network_recv)
                /\ Head(ctx[s].network_recv) = "fin" =>
                     \A i \in 1 .. Len(p) : p[i] # "data"
<1> DEFINE q == ctx[s].network_recv
<1>1. ctx[s] \in Context /\ q \in Seq(Packet)
  BY DEF TypeInv, Context
<1>2. p = IF q = <<>> THEN q ELSE Tail(q)
  BY <1>1 DEF AfterEvent, Context
<1>3. FinLast(q)
  BY DEF StreamSound, PacketsSound
<1> HIDE DEF q
<1>4. CASE q = <<>>
  BY <1>2, <1>3, <1>4 DEF q
<1>5. CASE q # <<>>
  <2>1. /\ p \in Seq(Packet) /\ Len(p) = Len(q) - 1 /\ Len(q) \in Nat /\ Len(q) > 0
        /\ Head(q) = q[1] /\ \A i \in 1 .. Len(p) : p[i] = q[i + 1]
    BY <1>1, <1>2, <1>5, HeadTailProperties, LenProperties, EmptySeq
  <2>2. \A i \in 1 .. Len(p) : i + 1 \in 1 .. Len(q) /\ 1 < i + 1
    BY <2>1
  <2>3. 1 \in 1 .. Len(q)
    BY <2>1
  <2>4. FinLast(p)
    <3> SUFFICES ASSUME NEW i \in 1 .. Len(p), NEW j \in 1 .. Len(p), i < j, p[i] = "fin"
                 PROVE  p[j] # "data"
      BY DEF FinLast
    <3>1. i + 1 < j + 1
      BY <2>1
    <3> QED BY <1>3, <2>1, <2>2, <3>1 DEF FinLast
  <2>5. \A i \in 1 .. Len(p) : \E j \in 1 .. Len(q) : p[i] = q[j]
    BY <2>1, <2>2
  <2>6. Head(q) = "fin" => \A i \in 1 .. Len(p) : p[i] # "data"
    BY <1>3, <2>1, <2>2, <2>3 DEF FinLast
  <2> QED BY <2>1, <2>3, <2>4, <2>5, <2>6 DEF q
<1> QED BY <1>4, <1>5

LEMMA EventFields ==
    ASSUME TypeInv, NEW s \in Sd
    PROVE  LET c == AfterEvent(s) IN
           /\ c \in Context /\ c.app_send = ctx[s].app_send /\ c.got = ctx[s].got
           /\ c.pushed = ctx[s].pushed /\ c.eof = ctx[s].eof /\ c.script = ctx[s].script
<1>1. ctx[s] \in Context /\ AfterEvent(s) \in Context
  BY AfterEventType DEF TypeInv
<1>2. /\ AfterEvent(s).app_send = ctx[s].app_send /\ AfterEvent(s).got = ctx[s].got
      /\ AfterEvent(s).pushed = ctx[s].pushed /\ AfterEvent(s).eof = ctx[s].eof
      /\ AfterEvent(s).script = ctx[s].script
  BY <1>1 DEF AfterEvent, Context
<1> QED BY <1>1, <1>2

(* What is sent is at most what was sent before.                           *)
LEMMA FewerPackets ==
    ASSUME TypeInv, NEW s \in Sd, StreamSound(s),
           ctx'[s].network_recv = AfterEvent(s).network_recv,
           ctx'[s].script = ctx[s].script
    PROVE  /\ FinLast(ctx'[s].network_recv) /\ FinLast(ctx'[s].script)
           /\ (\E i \in 1 .. Len(ctx'[s].network_recv) : ctx'[s].network_recv[i] = "fin") =>
                \A i \in 1 .. Len(ctx'[s].script) : ctx'[s].script[i] # "data"
           /\ \A k : Sent(s, k)' => Sent(s, k)
<1> DEFINE p == AfterEvent(s).network_recv
           q == ctx[s].network_recv
<1>1. /\ FinLast(p) /\ \A i \in 1 .. Len(p) : \E j \in 1 .. Len(q) : p[i] = q[j]
  BY PacketTaken
<1>2. ctx'[s].network_recv = p
  OBVIOUS
<1> HIDE DEF p, q
<1>3. /\ FinLast(ctx[s].script)
      /\ (\E i \in 1 .. Len(q) : q[i] = "fin") =>
           \A i \in 1 .. Len(ctx[s].script) : ctx[s].script[i] # "data"
  BY DEF StreamSound, PacketsSound, q
<1>4. ASSUME NEW k PROVE Sent(s, k)' => Sent(s, k)
  BY <1>1, <1>2 DEF Sent, q
<1>5. (\E i \in 1 .. Len(p) : p[i] = "fin") =>
         \A i \in 1 .. Len(ctx[s].script) : ctx[s].script[i] # "data"
  BY <1>1, <1>3
<1> QED BY <1>1, <1>2, <1>3, <1>4, <1>5

LEMMA HandshakeStream ==
    ASSUME TypeInv, NEW s \in Sd, NEW pc \in {"shake", "synwait", "unblock"},
           ctx' = [ctx EXCEPT ![s] = AfterEvent(s)], TranGoto(s, pc),
           \A t \in Sd : StreamSound(t)
    PROVE  \A t \in Sd : StreamSound(t)'
<1>1. ctx \in [Sd -> Context] /\ tran \in [Sd -> TranThread]
  BY DEF TypeInv
<1>2. ctx'[s] = AfterEvent(s) /\ \A t \in Sd : t # s => ctx'[t] = ctx[t]
  BY <1>1
<1>3. \A t \in Sd : t # s => tran'[t] = tran[t]
  BY <1>1 DEF TranGoto
<1>4. tran'[s].pc = pc /\ tran'[s].peerfin = tran[s].peerfin
  BY <1>1 DEF TranGoto, TranThread
<1>5. /\ ctx'[s].app_send = ctx[s].app_send /\ ctx'[s].got = ctx[s].got
      /\ ctx'[s].pushed = ctx[s].pushed /\ ctx'[s].eof = ctx[s].eof
      /\ ctx'[s].script = ctx[s].script
      /\ ctx'[s].network_recv = AfterEvent(s).network_recv
  BY <1>2, EventFields
<1>6. PacketsSound(s)'
  <2>1. tran[s].peerfin => ~Sent(s, "data")
    BY DEF StreamSound, PacketsSound
  <2> QED BY <1>4, <1>5, <2>1, FewerPackets DEF PacketsSound
<1>7. BuffersSound(s)'
  <2>1. BuffersSound(s)
    BY DEF StreamSound
  <2> QED BY <1>4, <1>5, <2>1 DEF BuffersSound
<1>8. ASSUME NEW t \in Sd, t # s PROVE StreamSound(t)'
  <2>1. SameData(ctx'[t], ctx[t])
    BY <1>2, <1>8 DEF SameData
  <2>2. SameFlow(t)
    BY <1>3, <1>8 DEF SameFlow
  <2> QED BY <2>1, <2>2, StreamFrame
<1> QED BY <1>6, <1>7, <1>8 DEF StreamSound

(* A buffer, or the end-of-file, at the end of what is to be read.         *)
LEMMA BufferAppended ==
    ASSUME NEW q \in Seq(Seq(Int)), NEW x \in Seq(Int)
    PROVE  /\ Append(q, x) \in Seq(Seq(Int)) /\ q \o <<x>> = Append(q, x)
           /\ FlattenSeq(Append(q, x)) = FlattenSeq(q) \o x
           /\ Len(q) \in Nat /\ Len(Append(q, x)) = Len(q) + 1
           /\ \A i \in 1 .. Len(q) : Append(q, x)[i] = q[i]
           /\ Append(q, x)[Len(q) + 1] = x
BY AppendProperties, AppendIsConcat, LenProperties, FlattenAppend

LEMMA DataAppended ==
    ASSUME NEW s \in Sd, NEW q \in Seq(Seq(Int)), NEW x \in Seq(Int), BuffersSound(s),
           q = ctx[s].app_send, ctx[s].got \in Seq(Int),
           x # <<>> => ~tran[s].peerfin, x = <<>> => tran'[s].peerfin,
           tran[s].peerfin => tran'[s].peerfin,
           ctx'[s].app_send = Append(q, x), ctx'[s].got = ctx[s].got,
           ctx'[s].eof = ctx[s].eof, ctx'[s].pushed = ctx[s].pushed \o x,
           tran'[s].pc \in {"exit", "done"} => tran'[s].peerfin
    PROVE  BuffersSound(s)'
<1> DEFINE r == Append(q, x)
<1>1. /\ FlattenSeq(r) = FlattenSeq(q) \o x /\ Len(q) \in Nat /\ Len(r) = Len(q) + 1
      /\ \A i \in 1 .. Len(q) : r[i] = q[i]
      /\ r[Len(q) + 1] = x
  BY BufferAppended
<1> HIDE DEF r
<1>2. /\ ctx[s].got \o FlattenSeq(q) = ctx[s].pushed
      /\ \A i, j \in 1 .. Len(q) : i < j /\ q[i] = <<>> => q[j] = <<>>
      /\ (\E i \in 1 .. Len(q) : q[i] = <<>>) => tran[s].peerfin
      /\ ctx[s].eof => tran[s].peerfin /\ \A i \in 1 .. Len(q) : q[i] = <<>>
  BY DEF BuffersSound
<1>3. ctx[s].got \o FlattenSeq(r) = ctx[s].pushed \o x
  <2>1. FlattenSeq(q) \in Seq(Int)
    BY FlattenType
  <2>2. (ctx[s].got \o FlattenSeq(q)) \o x = ctx[s].got \o (FlattenSeq(q) \o x)
    BY <2>1, BytesAssociative
  <2> QED BY <1>1, <1>2, <2>2
<1>4. \A i \in 1 .. Len(r) : i \in 1 .. Len(q) \/ i = Len(q) + 1
  BY <1>1
<1>5. ASSUME NEW i \in 1 .. Len(r), NEW j \in 1 .. Len(r), i < j, r[i] = <<>>
      PROVE  r[j] = <<>>
  <2>1. i \in 1 .. Len(q)
    BY <1>1, <1>5
  <2>2. q[i] = <<>>
    BY <1>1, <1>5, <2>1
  <2>3. CASE j \in 1 .. Len(q)
    BY <1>1, <1>2, <1>5, <2>1, <2>2, <2>3
  <2>4. CASE j = Len(q) + 1
    BY <1>1, <1>2, <2>1, <2>2, <2>4
  <2> QED BY <1>4, <2>3, <2>4
<1>6. (\E i \in 1 .. Len(r) : r[i] = <<>>) => tran'[s].peerfin
  BY <1>1, <1>2, <1>4
<1>7. ctx[s].eof => tran'[s].peerfin /\ \A i \in 1 .. Len(r) : r[i] = <<>>
  BY <1>1, <1>2, <1>4
<1>8. ctx'[s].app_send = r
  BY DEF r
<1> QED BY <1>3, <1>5, <1>6, <1>7, <1>8 DEF BuffersSound

(* The last act of the thread.                                             *)
LEMMA ExitStream ==
    ASSUME TypeInv, NEW s \in Sd, TransportExit(s), \A t \in Sd : StreamSound(t)
    PROVE  \A t \in Sd : StreamSound(t)'
<1>1. /\ ctx \in [Sd -> Context] /\ tran \in [Sd -> TranThread] /\ ctx[s] \in Context
      /\ tran[s].pc = "exit"
  BY DEF TypeInv, TransportExit, TranAt
<1> DEFINE q == ctx[s].app_send
           new == [ctx[s] EXCEPT !.app_send = Append(q, <<>>)]
<1>2. ctx' = [ctx EXCEPT ![s] = new] /\ TranGoto(s, "done")
  BY <1>1 DEF TransportExit, EofPacket
<1>3. /\ new.app_send = Append(q, <<>>) /\ new.got = ctx[s].got /\ new.pushed = ctx[s].pushed
      /\ new.eof = ctx[s].eof /\ new.network_recv = ctx[s].network_recv
      /\ new.script = ctx[s].script
  BY <1>1 DEF Context
<1> HIDE DEF new
<1>4. ctx'[s] = new /\ \A t \in Sd : t # s => ctx'[t] = ctx[t]
  BY <1>1, <1>2
<1>5. /\ tran'[s].pc = "done" /\ tran'[s].peerfin = tran[s].peerfin
      /\ \A t \in Sd : t # s => tran'[t] = tran[t]
  BY <1>1, <1>2 DEF TranGoto, TranThread
<1>6. /\ ctx[s].app_send \in Seq(Seq(Int)) /\ ctx[s].got \in Seq(Int)
      /\ ctx[s].pushed \in Seq(Int) /\ <<>> \in Seq(Int)
  BY <1>1, EmptySeq DEF Context
<1>7. BuffersSound(s)'
  <2>1. BuffersSound(s) /\ tran[s].peerfin
    BY <1>1 DEF StreamSound, BuffersSound
  <2>2. ctx[s].pushed \o <<>> = ctx[s].pushed
    BY <1>6, ConcatEmptySeq
  <2>3. /\ ctx'[s].app_send = Append(q, <<>>) /\ ctx'[s].got = ctx[s].got
        /\ ctx'[s].pushed = ctx[s].pushed \o <<>> /\ ctx'[s].eof = ctx[s].eof
    BY <1>3, <1>4, <2>2
  <2> QED BY <1>5, <1>6, <2>1, <2>3, DataAppended
<1>8. PacketsSound(s)'
  <2>1. ctx'[s].network_recv = ctx[s].network_recv /\ ctx'[s].script = ctx[s].script
    BY <1>3, <1>4
  <2>2. \A k : Sent(s, k)' <=> Sent(s, k)
    BY <2>1 DEF Sent
  <2> QED BY <1>5, <2>1, <2>2 DEF StreamSound, PacketsSound
<1>9. ASSUME NEW t \in Sd, t # s PROVE StreamSound(t)'
  <2>1. SameData(ctx'[t], ctx[t]) /\ SameFlow(t)
    BY <1>4, <1>5, <1>9 DEF SameData, SameFlow
  <2> QED BY <2>1, StreamFrame
<1> QED BY <1>7, <1>8, <1>9 DEF StreamSound

(* One round of the control loop.                                          *)
LEMMA LoopStream ==
    ASSUME TypeInv, NEW s \in Sd, LoopEvents(s), \A t \in Sd : StreamSound(t)
    PROVE  \A t \in Sd : StreamSound(t)'
<1>1. /\ ctx \in [Sd -> Context] /\ tran \in [Sd -> TranThread] /\ ctx[s] \in Context
      /\ tran[s].pc = "loop"
  BY DEF TypeInv, LoopEvents, TranAt
<1>2. PICK c, in, fin, n :
        /\ c = AfterEvent(s)
        /\ in = IF ctx[s].network_recv = <<>> THEN "none" ELSE Head(ctx[s].network_recv)
        /\ fin = (tran[s].fin \/ CloseReady(s))
        /\ n = IF c.app_recv > 0 THEN c.app_recv - 1 ELSE c.app_recv
  OBVIOUS
<1>3. PICK up : up = CASE in = "data" -> <<Data>> [] in = "fin" -> <<EofPacket>>
                       [] OTHER -> <<>>
  OBVIOUS
<1> DEFINE peerfin == tran[s].peerfin \/ in = "fin"
           pushed == IF in = "data" THEN ctx[s].pushed \o Data ELSE ctx[s].pushed
           new == [c EXCEPT !.app_recv = n, !.app_send = ctx[s].app_send \o up,
                            !.pushed = pushed]
           now == [pc |-> IF up # <<>> THEN "handed"
                          ELSE IF fin /\ peerfin THEN "exit" ELSE "loop",
                   fin |-> fin, peerfin |-> peerfin]
<1>4. /\ c \in Context /\ c.app_send = ctx[s].app_send /\ c.got = ctx[s].got
      /\ c.pushed = ctx[s].pushed /\ c.eof = ctx[s].eof /\ c.script = ctx[s].script
  BY <1>2, EventFields
<1>5. ctx' = [ctx EXCEPT ![s] = new] /\ tran' = [tran EXCEPT ![s] = now]
  BY <1>2, <1>3, <1>4 DEF LoopEvents
<1>6. /\ new.app_send = ctx[s].app_send \o up /\ new.got = ctx[s].got
      /\ new.pushed = pushed /\ new.eof = ctx[s].eof /\ new.script = ctx[s].script
      /\ new.network_recv = c.network_recv
  BY <1>4 DEF Context
<1>7. /\ now.peerfin = peerfin /\ now.pc \in {"handed", "exit", "loop"}
      /\ now.pc = "exit" => peerfin
  OBVIOUS
<1> HIDE DEF new, now
<1>8. ctx'[s] = new /\ \A t \in Sd : t # s => ctx'[t] = ctx[t]
  BY <1>1, <1>5
<1>9. tran'[s] = now /\ \A t \in Sd : t # s => tran'[t] = tran[t]
  BY <1>1, <1>5
<1>10. /\ ctx[s].app_send \in Seq(Seq(Int)) /\ ctx[s].got \in Seq(Int)
       /\ ctx[s].pushed \in Seq(Int) /\ Data \in Seq(Int) /\ Data # <<>>
       /\ <<>> \in Seq(Int)
  BY <1>1, EmptySeq DEF Context, Data
<1>11. /\ PacketsSound(s) /\ BuffersSound(s)
       /\ \A i \in 1 .. Len(c.network_recv) : \E j \in 1 .. Len(ctx[s].network_recv) :
            c.network_recv[i] = ctx[s].network_recv[j]
       /\ ctx[s].network_recv # <<>> =>
            /\ Head(ctx[s].network_recv) = ctx[s].network_recv[1]
            /\ 1 \in 1 .. Len(ctx[s].network_recv)
            /\ Head(ctx[s].network_recv) = "fin" =>
                 \A i \in 1 .. Len(c.network_recv) : c.network_recv[i] # "data"
  BY <1>2, PacketTaken DEF StreamSound
<1>12. /\ ctx'[s].got = ctx[s].got /\ ctx'[s].eof = ctx[s].eof
       /\ ctx'[s].script = ctx[s].script /\ ctx'[s].network_recv = c.network_recv
       /\ ctx'[s].app_send = ctx[s].app_send \o up /\ ctx'[s].pushed = pushed
       /\ tran'[s].peerfin = peerfin /\ tran'[s].pc \in {"handed", "exit", "loop"}
       /\ tran'[s].pc = "exit" => peerfin
  BY <1>6, <1>7, <1>8, <1>9
<1>13. in = "data" => Sent(s, "data") /\ ~tran[s].peerfin
  <2>1. in = "data" => Sent(s, "data")
    BY <1>2, <1>11 DEF Sent
  <2> QED BY <1>11, <2>1 DEF PacketsSound
<1>14. in = "fin" => ~Sent(s, "data")'
  <2> SUFFICES ASSUME in = "fin" PROVE ~Sent(s, "data")'
    OBVIOUS
  <2>1. ctx[s].network_recv # <<>> /\ Head(ctx[s].network_recv) = "fin"
    BY <1>2
  <2>2. \A i \in 1 .. Len(c.network_recv) : c.network_recv[i] # "data"
    BY <1>11, <2>1
  <2>3. \A i \in 1 .. Len(ctx[s].script) : ctx[s].script[i] # "data"
    BY <1>11, <2>1 DEF PacketsSound
  <2> QED BY <1>12, <2>2, <2>3 DEF Sent
<1>15. PacketsSound(s)'
  <2>1. /\ FinLast(ctx'[s].network_recv) /\ FinLast(ctx'[s].script)
        /\ (\E i \in 1 .. Len(ctx'[s].network_recv) : ctx'[s].network_recv[i] = "fin") =>
             \A i \in 1 .. Len(ctx'[s].script) : ctx'[s].script[i] # "data"
        /\ \A k : Sent(s, k)' => Sent(s, k)
    BY <1>2, <1>12, FewerPackets
  <2>2. tran'[s].peerfin => ~Sent(s, "data")'
    BY <1>11, <1>12, <1>14, <2>1 DEF PacketsSound
  <2> QED BY <1>12, <2>1, <2>2 DEF PacketsSound
<1>16. BuffersSound(s)'
  <2>1. CASE in = "data"
    <3>1. ctx[s].app_send \o <<Data>> = Append(ctx[s].app_send, Data)
      BY <1>10, BufferAppended
    <3>2. /\ ctx'[s].app_send = Append(ctx[s].app_send, Data)
          /\ ctx'[s].pushed = ctx[s].pushed \o Data
      BY <1>3, <1>12, <2>1, <3>1
    <3> QED BY <1>10, <1>11, <1>12, <1>13, <2>1, <3>2, DataAppended
  <2>2. CASE in = "fin"
    <3>1. ctx[s].app_send \o <<<<>>>> = Append(ctx[s].app_send, <<>>)
      BY <1>10, BufferAppended
    <3>2. ctx[s].pushed \o <<>> = ctx[s].pushed
      BY <1>10, ConcatEmptySeq
    <3>3. /\ ctx'[s].app_send = Append(ctx[s].app_send, <<>>)
          /\ ctx'[s].pushed = ctx[s].pushed \o <<>>
      BY <1>3, <1>12, <2>2, <3>1, <3>2 DEF EofPacket
    <3> QED BY <1>10, <1>11, <1>12, <2>2, <3>3, DataAppended
  <2>3. CASE in # "data" /\ in # "fin"
    <3>1. ctx[s].app_send \o <<>> = ctx[s].app_send
      BY <1>10, ConcatEmptySeq
    <3>2. up = <<>>
      BY <1>3, <2>3
    <3>3. ctx'[s].app_send = ctx[s].app_send /\ ctx'[s].pushed = ctx[s].pushed
      BY <1>12, <2>3, <3>1, <3>2
    <3>4. tran'[s].peerfin = tran[s].peerfin
      <4>1. tran[s].peerfin \in BOOLEAN
        BY <1>1 DEF TranThread
      <4> QED BY <1>12, <2>3, <4>1
    <3>5. tran'[s].pc \in {"exit", "done"} => tran'[s].peerfin
      BY <1>12
    <3>6. BuffersSound(s)
      BY <1>11
    <3>7. ctx'[s].got = ctx[s].got /\ ctx'[s].eof = ctx[s].eof
      BY <1>12
    <3> QED BY <3>3, <3>4, <3>5, <3>6, <3>7 DEF BuffersSound
  <2> QED BY <2>1, <2>2, <2>3
<1>17. ASSUME NEW t \in Sd, t # s PROVE StreamSound(t)'
  <2>1. SameData(ctx'[t], ctx[t]) /\ SameFlow(t)
    BY <1>8, <1>9, <1>17 DEF SameData, SameFlow
  <2> QED BY <2>1, StreamFrame
<1> QED BY <1>15, <1>16, <1>17 DEF StreamSound

LEMMA TranStepsStream ==
    ASSUME TypeInv, Sound, NEW s \in Sd, TranStep(s), \A t \in Sd : StreamSound(t)
    PROVE  \A t \in Sd : StreamSound(t)'
<1>0. /\ ctx[s] \in Context /\ ctx \in [Sd -> Context] /\ tran \in [Sd -> TranThread]
      /\ tran[s] \in TranThread
  BY DEF TypeInv
<1>1. CASE LoopEvents(s)
  BY <1>1, LoopStream
<1>2. CASE TransportExit(s)
  BY <1>2, ExitStream
<1>3. CASE AwaitSyn(s) \/ Handshake(s)
  <2>1. CASE UNCHANGED ctx
    <3>1. PICK pc \in {"shake", "synwait", "unblock", "asleep_syn"} : TranGoto(s, pc)
      BY <1>3 DEF AwaitSyn, Handshake
    <3>2. /\ tran'[s].peerfin = tran[s].peerfin /\ tran'[s].pc = pc
          /\ \A t \in Sd : t # s => tran'[t] = tran[t]
      BY <1>0, <3>1 DEF TranGoto, TranThread
    <3>3. \A t \in Sd : SameFlow(t)
      BY <3>2 DEF SameFlow
    <3> QED BY <3>3, DataUnchanged, StreamFrame, <2>1
  <2>2. CASE ~UNCHANGED ctx
    <3>1. PICK pc \in {"shake", "synwait", "unblock"} :
            ctx' = [ctx EXCEPT ![s] = AfterEvent(s)] /\ TranGoto(s, pc)
      BY <1>3, <2>2 DEF AwaitSyn, Handshake
    <3> QED BY <3>1, HandshakeStream
  <2> QED BY <2>1, <2>2
<1>4. CASE SendOwnSyn(s)
  <2>1. PICK to : /\ ctx' = [ctx EXCEPT ![s] = [[ctx[s] EXCEPT !.failed = (to = "stuck")]
                                                  EXCEPT !.connected = to]]
                  /\ TranGoto(s, IF to = "yes" THEN "shake" ELSE "unblock")
    BY <1>4 DEF SendOwnSyn, TcpConnect
  <2>2. SameData([[ctx[s] EXCEPT !.failed = (to = "stuck")] EXCEPT !.connected = to], ctx[s])
    BY <1>0, DataEdits
  <2>3. \A t \in Sd : SameData(ctx'[t], ctx[t])
    BY <2>1, <2>2, DataKept
  <2>4. /\ tran'[s].peerfin = tran[s].peerfin /\ tran'[s].pc \in {"shake", "unblock"}
        /\ \A t \in Sd : t # s => tran'[t] = tran[t]
    BY <1>0, <2>1 DEF TranGoto, TranThread
  <2>5. \A t \in Sd : SameFlow(t)
    BY <2>4 DEF SameFlow
  <2> QED BY <2>3, <2>5, StreamFrame
<1>5. CASE Unblock(s)
  <2>1. ctx' = [ctx EXCEPT ![s] = [ctx[s] EXCEPT !.blocking = FALSE]] /\ TranGoto(s, "signal")
    BY <1>5 DEF Unblock
  <2>2. SameData([ctx[s] EXCEPT !.blocking = FALSE], ctx[s])
    BY <1>0, DataEdits
  <2>3. \A t \in Sd : SameData(ctx'[t], ctx[t])
    BY <2>1, <2>2, DataKept
  <2>4. /\ tran'[s].peerfin = tran[s].peerfin /\ tran'[s].pc = "signal"
        /\ \A t \in Sd : t # s => tran'[t] = tran[t]
    BY <1>0, <2>1 DEF TranGoto, TranThread
  <2>5. \A t \in Sd : SameFlow(t)
    BY <2>4 DEF SameFlow
  <2> QED BY <2>3, <2>5, StreamFrame
<1>6. CASE \/ SignalConnect(s) \/ FindRequest(s) \/ PassiveComplete(s)
           \/ SignalAccept(s) \/ LoopSleep(s)
  <2>1. UNCHANGED ctx
    BY <1>6 DEF SignalConnect, FindRequest, PassiveComplete, SignalAccept, LoopSleep
  <2>2. PICK pc \in {"dead", "loop", "complete", "found", "completed", "asleep_loop"} :
          TranGoto(s, pc)
    BY <1>6 DEF SignalConnect, FindRequest, PassiveComplete, SignalAccept, LoopSleep,
                ControlLoop
  <2>3. /\ tran'[s].peerfin = tran[s].peerfin /\ tran'[s].pc = pc
        /\ \A t \in Sd : t # s => tran'[t] = tran[t]
    BY <1>0, <2>2 DEF TranGoto, TranThread
  <2>4. \A t \in Sd : SameFlow(t)
    BY <2>3 DEF SameFlow
  <2> QED BY <2>1, <2>4, DataUnchanged, StreamFrame
<1>7. CASE HandedUp(s)
  <2>1. PICK pc \in {"exit", "loop"} :
          TranGoto(s, pc) /\ (pc = "exit" => tran[s].peerfin)
    BY <1>7 DEF HandedUp
  <2>2. /\ tran'[s].peerfin = tran[s].peerfin /\ tran'[s].pc = pc
        /\ \A t \in Sd : t # s => tran'[t] = tran[t]
    BY <1>0, <2>1 DEF TranGoto, TranThread
  <2>3. UNCHANGED ctx
    BY <1>7 DEF HandedUp
  <2>4. \A t \in Sd : SameFlow(t)
    BY <2>1, <2>2 DEF SameFlow
  <2> QED BY <2>3, <2>4, DataUnchanged, StreamFrame
<1> QED BY <1>1, <1>2, <1>3, <1>4, <1>5, <1>6, <1>7 DEF TranStep

(* A step that fails an assertion gives no thread anything to write.       *)
LEMMA HaltingFins ==
    ASSUME TypeInv, Sound, Run, Next, ~Run', NEW t \in Sd
    PROVE  tran'[t].fin = tran[t].fin
<1>1. halt' # halt /\ tran \in [Sd -> TranThread]
  BY DEF Run, TypeInv
<1>2. ~Call /\ ~Client
  BY <1>1 DEF Call, mysocket, mybind, mylisten, myconnect, myaccept, mywrite, myread,
              myclose, CloseRequest, Client, TcpArrive, SendSyn, Hangup
<1>3. AppStep => UNCHANGED tran
  BY <1>1 DEF AppStep, SetBacklog, WaitForConnection, DequeueConnection, Wipe, Invalidate,
              LoadLen, StoreLen, Wrote, DequeueBuffer, CloseBroadcast, JoinTransport,
              JoinRecv, ClosePassive, DrainQueue, FreeContext
<1>4. ASSUME NEW s \in Sd, RecvStep(s) PROVE UNCHANGED tran
  BY <1>1, <1>4 DEF RecvStep, RecvExit, RecvAccept, RecvRead, EnqueueConnection, ClaimSlot,
              NewMysocketFails, CreateConnection, PassSyn, PassedSyn, RecvConnect,
              RecvPacket, QueuedPacket
<1>5. ASSUME NEW s \in Sd, TranStep(s) PROVE \E pc : TranGoto(s, pc)
  BY <1>1, <1>5 DEF TranStep, SendOwnSyn, AwaitSyn, Handshake, Unblock, SignalConnect,
              FindRequest, PassiveComplete, SignalAccept, LoopEvents, LoopSleep, HandedUp, TransportExit
<1>6. ASSUME NEW s \in Sd, TranStep(s) PROVE tran'[t].fin = tran[t].fin
  <2>1. PICK pc : TranGoto(s, pc)
    BY <1>5, <1>6
  <2>2. CASE t = s
    BY <1>1, <2>1, <2>2 DEF TranGoto, TranThread
  <2>3. CASE t # s
    BY <1>1, <2>1, <2>3 DEF TranGoto
  <2> QED BY <2>2, <2>3
<1> QED BY <1>2, <1>3, <1>4, <1>6 DEF Next

LEMMA StreamInit == Init => StreamInv
<1> SUFFICES ASSUME Init PROVE StreamInv
  OBVIOUS
<1>1. ASSUME NEW t \in Sd
      PROVE  /\ ctx[t].app_send = <<>> /\ ctx[t].got = <<>> /\ ctx[t].pushed = <<>>
             /\ ~ctx[t].eof /\ ctx[t].network_recv = <<>> /\ ctx[t].script = <<>>
             /\ tran[t].pc = "none" /\ ~tran[t].fin /\ ~tran[t].peerfin
  BY DEF Init, FreshContext, TranNone
<1>2. <<>> \in Seq(Seq(Int)) /\ <<>> \in Seq(Int) /\ Len(<<>>) = 0
  BY EmptySeq
<1>3. FlattenSeq(<<>>) = <<>> /\ <<>> \o <<>> = <<>>
  BY <1>2, ConcatEmptySeq DEF FlattenSeq
<1>4. ASSUME NEW t \in Sd PROVE PacketsSound(t) /\ BuffersSound(t)
  <2>1. \A k : ~Sent(t, k)
    BY <1>1, <1>2 DEF Sent
  <2>2. PacketsSound(t)
    BY <1>1, <1>2, <2>1 DEF PacketsSound, FinLast
  <2>3. BuffersSound(t)
    <3>1. ctx[t].got \o FlattenSeq(ctx[t].app_send) = ctx[t].pushed
      BY <1>1, <1>3
    <3>2. Len(ctx[t].app_send) = 0
      BY <1>1, <1>2
    <3> QED BY <1>1, <3>1, <3>2 DEF BuffersSound
  <2> QED BY <2>2, <2>3
<1> QED BY <1>1, <1>4 DEF StreamInv, CloseAfterData

LEMMA StreamNext ==
    ASSUME SocketInv, SocketInv', StreamInv, [Next]_vars
    PROVE  StreamInv'
<1>1. CASE UNCHANGED vars
  <2>1. UNCHANGED <<ctx, tran>>
    BY <1>1 DEF vars, threads
  <2>2. \A t \in Sd : StreamSound(t)'
    BY <2>1, DataUnchanged, FlowUnchanged, StreamFrame DEF StreamInv, StreamSound
  <2> QED BY <2>1, <2>2 DEF StreamInv, StreamSound, CloseAfterData
<1>2. CASE Next
  <2>1. Run /\ TypeInv /\ Sound
    BY <1>2, StepsRun DEF SocketInv
  <2>2. \A t \in Sd : StreamSound(t)
    BY DEF StreamInv, StreamSound
  <2>3. \A t \in Sd : StreamSound(t)'
    <3>1. ASSUME Client PROVE \A t \in Sd : StreamSound(t)'
      <4>1. UNCHANGED <<ctx, tran>>
        BY <3>1 DEF Client, TcpArrive, SendSyn, Hangup, threads
      <4> QED BY <2>2, <4>1, DataUnchanged, FlowUnchanged, StreamFrame
    <3> QED BY <1>2, <2>1, <2>2, <3>1, CallsStream, AppStepsStream, RecvStepsStream,
               TranStepsStream DEF Next
  <2>4. CloseAfterData'
    <3>1. CASE Run'
      BY <3>1 DEF SocketInv, Sound, CloseInHand, CloseAfterData
    <3>2. CASE ~Run'
      BY <1>2, <2>1, <3>2, HaltingSteps, HaltingFins DEF StreamInv, CloseAfterData
    <3> QED BY <3>1, <3>2
  <2> QED BY <2>3, <2>4 DEF StreamInv, StreamSound
<1> QED BY <1>1, <1>2

(* Both directions of a connection keep their order: what myread() returns *)
(* is what stcp_app_send() was given, byte for byte, whatever the size of  *)
(* the application's buffer, the end-of-file of stcp_fin_received() comes  *)
(* after all of it, and a FIN is sent after the last buffer of mywrite()   *)
(* (_mysock_dequeue_buffer(), stcp_wait_for_event()).                      *)
THEOREM DataKeepsOrder == Spec => []DataInOrder
<1>1. Init => StreamInv
  BY StreamInit
<1>2. SocketInv /\ SocketInv' /\ StreamInv /\ [Next]_vars => StreamInv'
  BY StreamNext
<1>3. SocketInv /\ StreamInv => DataInOrder
  <2> SUFFICES ASSUME TypeInv, StreamInv PROVE DataInOrder
    BY DEF SocketInv
  <2>1. ASSUME NEW s \in Sd, ctx[s].eof PROVE ctx[s].got = ctx[s].pushed
    <3>1. ctx[s].app_send \in Seq(Seq(Int)) /\ ctx[s].got \in Seq(Int)
      BY DEF TypeInv, Context
    <3>2. /\ ctx[s].got \o FlattenSeq(ctx[s].app_send) = ctx[s].pushed
          /\ \A i \in 1 .. Len(ctx[s].app_send) : ctx[s].app_send[i] = <<>>
      BY <2>1 DEF StreamInv, BuffersSound
    <3>3. FlattenSeq(ctx[s].app_send) = <<>>
      BY <3>1, <3>2, FlattenEmpty
    <3> QED BY <3>1, <3>2, <3>3, ConcatEmptySeq
  <2> QED BY <2>1 DEF DataInOrder, ReadsInOrder, StreamInv, BuffersSound
<1> QED BY <1>1, <1>2, <1>3, SocketInvariant, PTL DEF Spec
===========================================================================
