------------------------------- MODULE Chirc -------------------------------
(***************************************************************************)
(* The IRC server of src/: one thread per client (server.c), the message   *)
(* handlers (handlers.c), what they share (utils.c, channel.c), and the    *)
(* three kinds of mutex: lock (both lists), a c_lock per client and a      *)
(* chan_lock per channel.                                                  *)
(*                                                                         *)
(* A handler is a list of steps, todo[u], run by the thread of client u.   *)
(* One step is what the code does inside one critical section; a mutex is  *)
(* recorded as held only across steps, where the code asks for a second    *)
(* one.  A step that calls a procedure puts the steps of the procedure in  *)
(* front of the list.                                                      *)
(*                                                                         *)
(* Not told apart: the text of messages, topics, and the modes of users,   *)
(* members and channels, on which only the choice of a reply depends.  A   *)
(* parameter that is left out is the empty string, which is a name like    *)
(* any other but for one thing: the seek functions never find it.          *)
(***************************************************************************)
EXTENDS Integers, SequencesExt

CONSTANTS
    User,          \* clients, each with its thread and its socket
    NoOne,         \* the value of a free mutex, and a NULL person
    Nick,          \* nicknames a client may ask for
    Chan,          \* channel names
    Talkers,       \* the clients that send messages
    Commands,      \* the messages clients send in this instance
    MaxCmds,       \* bound: messages handled in a behaviour
    Veterans,      \* clients registered and in the channel Lobby at the start
    Lobby,
    NickOf,        \* the nicknames of the veterans
    FailingSends,  \* send() may fail once the client has hung up
    UINT_MOD       \* numregistered is an unsigned int: 2^32

(* No client takes the name of a channel for its nickname: the server does *)
(* not check either.                                                       *)
ASSUME ChircAssumption ==
    /\ IsFiniteSet(User) /\ NoOne \notin User
    /\ Veterans \subseteq User /\ Lobby \in Chan
    /\ Nick \intersect Chan = {} /\ "" \notin Nick /\ "" \notin Chan
    /\ NickOf \in [Veterans -> Nick] /\ IsInjective(NickOf)
    /\ MaxCmds \in Nat /\ UINT_MOD \in Nat /\ Cardinality(Veterans) < UINT_MOD
    /\ FailingSends \in BOOLEAN

VARIABLES
    conn,           \* "new", "accepted", "up" or "exited"
    userlist,       \* server->userlist
    nick,           \* person.nick, "" before NICK
    named,          \* person.user is set
    numregistered,
    mychans,        \* person.my_chans: a sequence of channel names
    frozen,         \* my_chans has an iterator nobody stopped
    chanlist,       \* server->chanlist: a sequence of indices into chan
    chan,           \* the channel structs ever allocated: [name, numusers]
    iter,           \* the one iterator of chanlist
    lock, cLock, chanLock,
    todo, loc,      \* steps a thread has still to do, and its local variables
    gone,           \* clients that closed their connection
    count,
    raced,          \* history: nicknames asked for while another was being given them
    torn,           \* history: channels the books of which a race, or a list
                    \* that simclist refused to change, has put out of step
    crashed         \* the process died of a NULL or dangling pointer, or
                    \* unlocked a mutex that another thread held

people == <<conn, userlist, nick, named, numregistered>>
members == <<mychans, frozen>>
channels == <<chanlist, chan, iter>>
locks == <<lock, cLock, chanLock>>
history == <<raced, torn>>
outside == <<gone, count, history>>
vars == <<people, members, channels, locks, outside, todo, loc, crashed>>

----------------------------------------------------------------------------
(* Local variables of the handlers. *)
Blank == [chan |-> 0, name |-> "", nick |-> "", user |-> FALSE, to |-> NoOne,
          skip |-> FALSE, kind |-> "", left |-> <<>>, chans |-> <<>>]

(* What the first parameter of a message may be. *)
Name == Chan \union {""}

Idle(u) == conn[u] = "up" /\ todo[u] = <<>>

Quiet == \A u \in User : todo[u] = <<>>

Registered(u) == nick[u] # "" /\ named[u]

Member(u, c) == c \in Range(mychans[u])

(* list_seek() with fun_seek(): the first element of that name, or NULL;   *)
(* an empty name is never found.                                           *)
SeekChan(c) ==
    LET hits == {i \in 1..Len(chanlist) : c # "" /\ chan[chanlist[i]].name = c}
    IN  IF hits = {} THEN 0 ELSE chanlist[Min(hits)]

(* Mutant: the last client in the list is not looked at. *)
SeekNickShort(n) ==
    LET hits == {i \in 1..(Len(userlist) - 1) : n # "" /\ nick[userlist[i]] = n}
    IN  IF hits = {} THEN NoOne ELSE userlist[Min(hits)]

SeekNick(n) ==
    LET hits == {i \in 1..Len(userlist) : n # "" /\ nick[userlist[i]] = n}
    IN  IF hits = {} THEN NoOne ELSE userlist[Min(hits)]

(* simclist refuses to change a list that has an active iterator; no       *)
(* caller looks at the result.                                             *)
Changed(active, old, new) == IF active THEN old ELSE new

If(condition, names) == IF condition THEN names ELSE {}

----------------------------------------------------------------------------
(* The thread of u is at step s; it goes on with more, then with the rest. *)
At(u, s) == ~crashed /\ todo[u] # <<>> /\ Head(todo[u]) = s

Goto(u, steps, l) ==
    /\ todo' = [todo EXCEPT ![u] = steps]
    /\ loc' = [loc EXCEPT ![u] = IF steps = <<>> THEN Blank ELSE l]

Then(u, more, l) == Goto(u, more \o Tail(todo[u]), l)

(* Another client is about to be given nickname n. *)
Given(u, n) == \E v \in User \ {u} : "setnick" \in Range(todo[v]) /\ loc[v].nick = n

(* parse() looks the client up under lock and calls the handler. *)
Command(u, cmd, steps, l) ==
    /\ ~crashed /\ Idle(u) /\ lock = NoOne
    /\ u \in Talkers /\ cmd \in Commands /\ count < MaxCmds
    /\ count' = count + 1
    /\ raced' = raced \union If("setnick" \in Range(steps) /\ Given(u, l.nick), {l.nick})
    /\ Goto(u, steps, [l EXCEPT !.kind = cmd])
    /\ UNCHANGED <<people, members, channels, locks, gone, torn, crashed>>

(* send() to v fails inside v's critical section: user_exit(v) asks for    *)
(* the c_lock this thread already has, and never gets it.                  *)
Hang(u, v) ==
    /\ FailingSends /\ v \in gone
    /\ cLock' = [cLock EXCEPT ![v] = u]
    /\ Goto(u, <<"hung">>, loc[u])
    /\ UNCHANGED <<people, members, channels, lock, chanLock, outside, crashed>>

(* A NULL channel, or a person whose thread is gone, is used. *)
Segv(u) ==
    /\ At(u, "segv")
    /\ crashed' = TRUE
    /\ UNCHANGED <<people, members, channels, locks, outside, todo, loc>>

(* Replies the thread sends to its own client. *)
Reply(u) ==
    /\ At(u, "reply") /\ cLock[u] = NoOne
    /\ \/ /\ Then(u, <<>>, loc[u])
          /\ UNCHANGED <<people, members, channels, locks, outside, crashed>>
       \/ Hang(u, u)

(* The last reply of NAMES and MODE: sent without the c_lock, which is     *)
(* unlocked all the same.  If send() fails, user_exit() can take it.       *)
Bare(u) ==
    /\ At(u, "bare")
    /\ \/ /\ cLock[u] = NoOne
          /\ Then(u, <<>>, loc[u])
          /\ UNCHANGED crashed
       \/ /\ cLock[u] # NoOne
          /\ crashed' = TRUE
          /\ UNCHANGED <<todo, loc>>
       \/ /\ FailingSends /\ u \in gone
          /\ Goto(u, <<"exit">>, loc[u])
          /\ UNCHANGED crashed
    /\ UNCHANGED <<people, members, channels, locks, outside>>

(* The ERROR reply to QUIT: a failed send() is only logged. *)
Bye(u) ==
    /\ At(u, "bye") /\ cLock[u] = NoOne
    /\ Then(u, <<>>, loc[u])
    /\ UNCHANGED <<people, members, channels, locks, outside, crashed>>

----------------------------------------------------------------------------
(* Connecting, NICK, USER and registration. *)
accept_clients(u) ==
    /\ ~crashed /\ conn[u] = "new"
    /\ conn' = [conn EXCEPT ![u] = "accepted"]
    /\ UNCHANGED <<userlist, nick, named, numregistered, members, channels,
                   locks, outside, todo, loc, crashed>>

service_single_client(u) ==
    /\ ~crashed /\ conn[u] = "accepted" /\ lock = NoOne
    /\ conn' = [conn EXCEPT ![u] = "up"]
    /\ userlist' = Append(userlist, u)
    /\ UNCHANGED <<nick, named, numregistered, members, channels, locks,
                   outside, todo, loc, crashed>>

NICK(u, n) ==
    Command(u, "NICK",
            IF SeekNick(n) # NoOne THEN <<"reply">>
            ELSE IF nick[u] = "" THEN <<"setnick">>
            ELSE <<"reply", "chans", "setnick">>,
            [Blank EXCEPT !.nick = n])

SetNick(u) ==
    /\ At(u, "setnick") /\ lock = NoOne
    /\ nick' = [nick EXCEPT ![u] = loc[u].nick]
    /\ Then(u, IF nick[u] = "" /\ named[u] THEN <<"register">> ELSE <<>>, loc[u])
    /\ UNCHANGED <<conn, userlist, named, numregistered, members, channels,
                   locks, outside, crashed>>

USER(u, given) ==
    Command(u, "USER", IF Registered(u) THEN <<"reply">> ELSE <<"setuser">>,
            [Blank EXCEPT !.user = given])

SetUser(u) ==
    /\ At(u, "setuser") /\ lock = NoOne
    /\ named' = [named EXCEPT ![u] = loc[u].user]
    /\ Then(u, IF nick[u] # "" THEN <<"register">> ELSE <<>>, loc[u])
    /\ UNCHANGED <<conn, userlist, nick, numregistered, members, channels,
                   locks, outside, crashed>>

(* do_registration(): the welcome, then LUSERS and MOTD. *)
Register(u) ==
    /\ At(u, "register") /\ lock = NoOne
    /\ numregistered' = (numregistered + 1) % UINT_MOD
    /\ Then(u, <<"reply", "sweep", "reply">>, loc[u])
    /\ UNCHANGED <<conn, userlist, nick, named, members, channels, locks,
                   outside, crashed>>

----------------------------------------------------------------------------
(* sendtochannel(): lock is held while the userlist is walked, and each    *)
(* member's c_lock is taken inside.                                        *)
Relay(u) ==
    /\ At(u, "relay") /\ lock = NoOne
    /\ lock' = u
    /\ Then(u, <<"visit">>, [loc[u] EXCEPT !.left = userlist])
    /\ UNCHANGED <<people, members, channels, cLock, chanLock, outside, crashed>>

Hears(u, v) ==
    /\ loc[u].skip => nick[v] # nick[u]
    /\ Member(v, chan[loc[u].chan].name)

(* Mutant: lock is not released after the walk. *)
VisitKeepsLock(u) ==
    LET left == loc[u].left IN
    /\ At(u, "visit")
    /\ \/ left = <<>> /\ Then(u, <<>>, loc[u])
       \/ /\ left # <<>>
          /\ IF Hears(u, Head(left))
             THEN Then(u, <<"send", "visit">>, loc[u])
             ELSE Then(u, <<"visit">>, [loc[u] EXCEPT !.left = Tail(left)])
    /\ UNCHANGED <<people, members, channels, locks, outside, crashed>>

Visit(u) ==
    LET left == loc[u].left IN
    /\ At(u, "visit")
    /\ \/ /\ left = <<>>
          /\ lock' = NoOne
          /\ Then(u, <<>>, loc[u])
       \/ /\ left # <<>>
          /\ IF Hears(u, Head(left))
             THEN Then(u, <<"send", "visit">>, loc[u])
             ELSE Then(u, <<"visit">>, [loc[u] EXCEPT !.left = Tail(left)])
          /\ UNCHANGED lock
    /\ UNCHANGED <<people, members, channels, cLock, chanLock, outside, crashed>>

Send(u) ==
    LET v == Head(loc[u].left) IN
    /\ At(u, "send") /\ cLock[v] = NoOne
    /\ \/ /\ Then(u, <<>>, [loc[u] EXCEPT !.left = Tail(@)])
          /\ UNCHANGED <<people, members, channels, locks, outside, crashed>>
       \/ Hang(u, v)

(* sendtoallchans(): the client's own c_lock is held while lock is asked   *)
(* for, once for each channel and once more in sendtochannel().            *)
Iterated(u) == IF frozen[u] THEN <<>> ELSE mychans[u]

(* Mutant: relayed to the sender as well. *)
AllChansAndSelf(u) ==
    /\ At(u, "chans") /\ cLock[u] = NoOne
    /\ cLock' = [cLock EXCEPT ![u] = u]
    /\ Then(u, <<"nextchan">>, [loc[u] EXCEPT !.chans = Iterated(u)])
    /\ UNCHANGED <<people, members, channels, lock, chanLock, outside, crashed>>

AllChans(u) ==
    /\ At(u, "chans") /\ cLock[u] = NoOne
    /\ cLock' = [cLock EXCEPT ![u] = u]
    /\ Then(u, <<"nextchan">>,
            [loc[u] EXCEPT !.chans = Iterated(u), !.skip = TRUE])
    /\ UNCHANGED <<people, members, channels, lock, chanLock, outside, crashed>>

NextChan(u) ==
    LET chans == loc[u].chans
        o == SeekChan(Head(chans))
    IN  /\ At(u, "nextchan")
        /\ \/ /\ chans = <<>>
              /\ cLock' = [cLock EXCEPT ![u] = NoOne]
              /\ frozen' = [frozen EXCEPT ![u] = FALSE]
              /\ Then(u, <<>>, loc[u])
           \/ /\ chans # <<>> /\ lock = NoOne
              /\ Then(u, IF o = 0 THEN <<"segv">> ELSE <<"relay", "nextchan">>,
                      [loc[u] EXCEPT !.chan = o, !.chans = Tail(chans)])
              /\ UNCHANGED <<cLock, frozen>>
        /\ UNCHANGED <<people, mychans, channels, lock, chanLock, outside, crashed>>

----------------------------------------------------------------------------
(* JOIN: channel_join(). *)
JOIN(u, c) ==
    Command(u, "JOIN", IF SeekChan(c) = 0 THEN <<"create">> ELSE <<"enter">>,
            [Blank EXCEPT !.chan = SeekChan(c), !.name = c])

Create(u) ==
    LET o == Len(chan) + 1 IN
    /\ At(u, "create") /\ lock = NoOne
    /\ chan' = Append(chan, [name |-> loc[u].name, numusers |-> 0])
    /\ chanlist' = Changed(iter.active, chanlist, Append(chanlist, o))
    /\ chanLock' = Append(chanLock, NoOne)
    /\ torn' = torn \union If(iter.active \/ SeekChan(loc[u].name) # 0, {loc[u].name})
    /\ Then(u, <<"enter">>, [loc[u] EXCEPT !.chan = o])
    /\ UNCHANGED <<people, members, iter, lock, cLock, gone, count, raced, crashed>>

(* Mutant: members may join again. *)
EnterAgain(u) ==
    /\ At(u, "enter") /\ cLock[u] = NoOne
    /\ mychans' = [mychans EXCEPT ![u] =
                       Changed(frozen[u], @, Append(@, loc[u].name))]
    /\ torn' = torn \union If(frozen[u], {loc[u].name})
    /\ Then(u, <<"inc", "relay", "sweep", "reply">>, loc[u])
    /\ UNCHANGED <<people, frozen, channels, locks, gone, count, raced, crashed>>

(* A client that is already a member gets no answer at all. *)
Enter(u) ==
    LET c == loc[u].name IN
    /\ At(u, "enter")
    /\ \/ Member(u, c) /\ Then(u, <<>>, loc[u]) /\ UNCHANGED <<mychans, torn>>
       \/ /\ ~Member(u, c) /\ cLock[u] = NoOne
          /\ mychans' = [mychans EXCEPT ![u] =
                             Changed(frozen[u], @, Append(@, c))]
          /\ torn' = torn \union If(frozen[u], {c})
          /\ Then(u, <<"inc", "relay", "sweep", "reply">>, loc[u])
    /\ UNCHANGED <<people, frozen, channels, locks, gone, count, raced, crashed>>

Inc(u) ==
    LET o == loc[u].chan IN
    /\ At(u, "inc") /\ chanLock[o] = NoOne
    /\ chan' = [chan EXCEPT ![o].numusers = @ + 1]
    /\ Then(u, <<>>, loc[u])
    /\ UNCHANGED <<people, members, chanlist, iter, locks, outside, crashed>>

(* PART. *)
PART(u, c) ==
    Command(u, "PART",
            IF SeekChan(c) # 0 /\ Member(u, c)
            THEN <<"relay", "leave", "dec">> ELSE <<"reply">>,
            [Blank EXCEPT !.chan = SeekChan(c), !.name = c])

(* Mutant: the channel stays in the client's list. *)
LeaveListed(u) ==
    /\ At(u, "leave") /\ cLock[u] = NoOne
    /\ Then(u, <<>>, loc[u])
    /\ UNCHANGED <<people, members, channels, locks, outside, crashed>>

Leave(u) ==
    /\ At(u, "leave") /\ cLock[u] = NoOne
    /\ mychans' = [mychans EXCEPT ![u] =
                       Changed(frozen[u], @, RemoveFirst(@, loc[u].name))]
    /\ torn' = torn \union If(frozen[u], {loc[u].name})
    /\ Then(u, <<>>, loc[u])
    /\ UNCHANGED <<people, frozen, channels, locks, gone, count, raced, crashed>>

(* numusers is read again after chan_lock is released. *)
Dec(u) ==
    LET o == loc[u].chan IN
    /\ At(u, "dec") /\ chanLock[o] = NoOne
    /\ chan' = [chan EXCEPT ![o].numusers = @ - 1]
    /\ Then(u, <<"test">>, loc[u])
    /\ UNCHANGED <<people, members, chanlist, iter, locks, outside, crashed>>

(* Mutant: empty channels are kept. *)
TestNever(u) ==
    /\ At(u, "test")
    /\ Then(u, <<>>, loc[u])
    /\ UNCHANGED <<people, members, channels, locks, outside, crashed>>

Test(u) ==
    /\ At(u, "test")
    /\ Then(u, IF chan[loc[u].chan].numusers = 0 THEN <<"destroy">> ELSE <<>>,
            loc[u])
    /\ UNCHANGED <<people, members, channels, locks, outside, crashed>>

(* channel_destroy(): chan_lock is held while lock is asked for. *)
Destroy(u) ==
    LET o == loc[u].chan IN
    /\ At(u, "destroy") /\ chanLock[o] = NoOne
    /\ IF chan[o].numusers # 0
       THEN Then(u, <<>>, loc[u]) /\ UNCHANGED chanLock
       ELSE /\ chanLock' = [chanLock EXCEPT ![o] = u]
            /\ Then(u, <<"unlist">>, loc[u])
    /\ UNCHANGED <<people, members, channels, lock, cLock, outside, crashed>>

(* Another client has found channel o and is about to enter it. *)
Awaited(u, o) ==
    \E v \in User \ {u} :
        {"enter", "inc"} \intersect Range(todo[v]) # {} /\ loc[v].chan = o

Unlist(u) ==
    LET o == loc[u].chan IN
    /\ At(u, "unlist") /\ lock = NoOne
    /\ chanlist' = Changed(iter.active, chanlist, RemoveFirst(chanlist, o))
    /\ chanLock' = [chanLock EXCEPT ![o] = NoOne]
    /\ torn' = torn \union If(iter.active \/ Awaited(u, o), {chan[o].name})
    /\ Then(u, <<>>, loc[u])
    /\ UNCHANGED <<people, members, chan, iter, lock, cLock, gone, count, raced,
                   crashed>>

----------------------------------------------------------------------------
(* QUIT, the end of a connection, and user_exit(): the client's c_lock is  *)
(* held throughout.                                                        *)
QUIT(u) == Command(u, "QUIT", <<"chans", "bye", "exit">>, Blank)

HangUp(u) ==
    /\ ~crashed /\ "EOF" \in Commands
    /\ conn[u] = "up" /\ u \notin gone
    /\ gone' = gone \union {u}
    /\ UNCHANGED <<people, members, channels, locks, count, history, todo, loc,
                   crashed>>

(* recv() returns 0 or an error. *)
EndOfFile(u) ==
    /\ ~crashed /\ Idle(u) /\ u \in gone
    /\ Goto(u, <<"exit">>, Blank)
    /\ UNCHANGED <<people, members, channels, locks, outside, crashed>>

Exit(u) ==
    /\ At(u, "exit") /\ cLock[u] = NoOne
    /\ cLock' = [cLock EXCEPT ![u] = u]
    /\ torn' = torn \union If(frozen[u], Range(mychans[u]))
    /\ Then(u, <<"drop">>, [loc[u] EXCEPT !.chans = Iterated(u)])
    /\ UNCHANGED <<people, members, channels, lock, chanLock, gone, count, raced,
                   crashed>>

Drop(u) ==
    LET chans == loc[u].chans
        o == SeekChan(Head(chans))
    IN  /\ At(u, "drop")
        /\ \/ /\ chans = <<>>
              /\ mychans' = [mychans EXCEPT ![u] = <<>>]
              /\ frozen' = [frozen EXCEPT ![u] = FALSE]
              /\ Then(u, <<"forget">>, loc[u])
           \/ /\ chans # <<>> /\ lock = NoOne
              /\ Then(u, IF o = 0 THEN <<"segv", "drop">> ELSE <<"dec", "drop">>,
                      [loc[u] EXCEPT !.chan = o, !.chans = Tail(chans)])
              /\ UNCHANGED members
        /\ UNCHANGED <<people, channels, locks, outside, crashed>>

(* Mutant: the client stays in the userlist. *)
ForgetKeepsUser(u) ==
    /\ At(u, "forget") /\ lock = NoOne
    /\ numregistered' = (numregistered - 1) % UINT_MOD
    /\ conn' = [conn EXCEPT ![u] = "exited"]
    /\ cLock' = [cLock EXCEPT ![u] = NoOne]
    /\ Goto(u, <<>>, Blank)
    /\ UNCHANGED <<userlist, nick, named, members, channels, lock, chanLock,
                   outside, crashed>>

Forget(u) ==
    /\ At(u, "forget") /\ lock = NoOne
    /\ userlist' = RemoveFirst(userlist, u)
    /\ numregistered' = (numregistered - 1) % UINT_MOD
    /\ conn' = [conn EXCEPT ![u] = "exited"]
    /\ cLock' = [cLock EXCEPT ![u] = NoOne]
    /\ Goto(u, <<>>, Blank)
    /\ UNCHANGED <<nick, named, members, channels, lock, chanLock, outside, crashed>>

----------------------------------------------------------------------------
(* PRIVMSG and NOTICE to a nickname or a channel.  A moderated channel     *)
(* takes messages only from some members, which PRIVMSG tells the others   *)
(* and NOTICE does not; NOTICE looks for the sender's place in the channel *)
(* before it asks whether there is one.                                    *)
Answers(u, cmd, t) ==
    LET found == SeekChan(t) # 0 IN
    IF ~Registered(u) THEN {<<"reply">>}
    ELSE IF SeekNick(t) # NoOne THEN {<<"deliver">>}
    ELSE IF cmd = "PRIVMSG"
    THEN {<<"reply">>} \union If(found /\ Member(u, t), {<<"relay">>})
    ELSE {<<>>} \union If(found, IF Member(u, t) THEN {<<"relay">>} ELSE {<<"segv">>})

Message(u, cmd, t) ==
    \E steps \in Answers(u, cmd, t) :
        Command(u, cmd, steps,
                [Blank EXCEPT !.to = SeekNick(t), !.chan = SeekChan(t), !.skip = TRUE])

PRIVMSG(u, t) == Message(u, "PRIVMSG", t)

NOTICE(u, t) == Message(u, "NOTICE", t)

(* The person found under lock is used after it is released: its thread,   *)
(* on whose stack it lives, may have ended.  RPL_AWAY may follow.          *)
Deliver(u) ==
    LET v == loc[u].to IN
    /\ At(u, "deliver") /\ cLock[u] = NoOne
    /\ \/ /\ conn[v] = "exited"
          /\ \E next \in {<<>>, <<"segv">>} : Then(u, next, loc[u])
          /\ UNCHANGED <<people, members, channels, locks, outside, crashed>>
       \/ /\ conn[v] = "up" /\ cLock[v] = NoOne
          /\ \/ Then(u, <<>>, loc[u])
             \/ loc[u].kind = "PRIVMSG" /\ Then(u, <<"reply">>, loc[u])
          /\ UNCHANGED <<people, members, channels, locks, outside, crashed>>
       \/ conn[v] = "up" /\ cLock[v] = NoOne /\ Hang(u, v)

(* TOPIC: read, refused, or set and relayed to everybody. *)
TOPIC(u, c) ==
    \E set \in BOOLEAN :
        Command(u, "TOPIC",
                IF ~Member(u, c) THEN <<"reply">>
                ELSE IF SeekChan(c) = 0 THEN <<"segv">>
                ELSE IF set THEN <<"relay", "reply">> ELSE <<"reply">>,
                [Blank EXCEPT !.chan = SeekChan(c)])

----------------------------------------------------------------------------
(* The walks over the userlist of LUSERS, WHO, NAMES and send_names():     *)
(* lock is held, each client's c_lock is taken inside.  WHO takes the      *)
(* asker's as well, to send, and restarts the iterators it finds; WHO of a *)
(* channel does so for the members of the channel, and sends with the      *)
(* c_lock of the member if that has the asker's nickname.                  *)
LUSERS(u) == Command(u, "LUSERS", <<"sweep", "reply">>, Blank)

WHO(u) == Command(u, "WHO", <<"sweep", "reply">>, Blank)

WhoOf(u, c) == Command(u, "WHO c", <<"sweep", "reply">>, [Blank EXCEPT !.name = c])

NamesOf(u, c) ==
    Command(u, "NAMES c",
            IF ~Registered(u) THEN <<"reply">>
            ELSE IF SeekChan(c) = 0 THEN <<"bare">>
            ELSE <<"sweep", "reply", "bare">>,
            [Blank EXCEPT !.chan = SeekChan(c)])

Sweep(u) ==
    /\ At(u, "sweep") /\ lock = NoOne
    /\ loc[u].chan # 0 => chanLock[loc[u].chan] = NoOne
    /\ lock' = u
    /\ Then(u, <<"meet">>, [loc[u] EXCEPT !.left = userlist])
    /\ UNCHANGED <<people, members, channels, cLock, chanLock, outside, crashed>>

Told(u, v) ==
    \/ loc[u].kind = "WHO"
    \/ loc[u].kind = "WHO c" /\ Member(v, loc[u].name)

SendsLocked(u, v) == Told(u, v) /\ (loc[u].kind = "WHO" \/ v = u \/ nick[v] # nick[u])

Meet(u) ==
    LET left == loc[u].left
        v == Head(left)
    IN  /\ At(u, "meet")
        /\ \/ /\ left = <<>>
              /\ lock' = NoOne
              /\ Then(u, <<>>, loc[u])
              /\ UNCHANGED <<people, members, channels, cLock, chanLock,
                             outside, crashed>>
           \/ /\ left # <<>> /\ cLock[v] = NoOne
              /\ SendsLocked(u, v) => cLock[u] = NoOne
              /\ Then(u, <<"meet">>, [loc[u] EXCEPT !.left = Tail(left)])
              /\ frozen' = [frozen EXCEPT ![v] = @ /\ ~(loc[u].kind = "WHO" /\ v # u)]
              /\ UNCHANGED <<people, mychans, channels, locks, outside, crashed>>
           \/ left # <<>> /\ cLock[u] = NoOne /\ Told(u, v) /\ Hang(u, u)

(* LIST and NAMES walk chanlist with its iterator and let go of lock in    *)
(* the middle of the walk.                                                 *)
LIST(u) == Command(u, "LIST", <<"list">>, Blank)

NAMES(u) ==
    Command(u, "NAMES", IF Registered(u) THEN <<"list">> ELSE <<"reply">>, Blank)

(* LIST of one channel uses the channel it looked up without a test. *)
ListOf(u, c) ==
    Command(u, "LIST c", IF SeekChan(c) = 0 THEN <<"segv">> ELSE <<"reply">>,
            Blank)

NextListed(u, s, it) ==
    LET names == loc[u].kind = "NAMES" IN
    /\ At(u, s) /\ lock = NoOne
    /\ \/ /\ it.active /\ it.pos < Len(chanlist)
          /\ iter' = [it EXCEPT !.pos = @ + 1]
          /\ Then(u, IF names THEN <<"sweep", "reply", "listnext">>
                     ELSE <<"reply", "listnext">>,
                  [loc[u] EXCEPT !.chan = IF names THEN chanlist[it.pos + 1]
                                          ELSE 0])
          /\ UNCHANGED lock
       \/ /\ ~it.active \/ it.pos >= Len(chanlist)
          /\ iter' = [active |-> FALSE, pos |-> 0]
          /\ lock' = IF names THEN u ELSE NoOne
          /\ \E last \in IF names THEN {<<"meet", "bare">>, <<"meet", "reply", "bare">>}
                        ELSE {<<"reply">>} :
                 Then(u, last, [loc[u] EXCEPT !.left = IF names THEN userlist ELSE <<>>])
    /\ UNCHANGED <<people, members, chanlist, chan, cLock, chanLock, outside,
                   crashed>>

List(u) ==
    NextListed(u, "list",
               IF iter.active THEN iter ELSE [active |-> TRUE, pos |-> 0])

ListNext(u) == NextListed(u, "listnext", iter)

(* WHOIS starts an iterator on the other client's channels and leaves it. *)
WHOIS(u, n) ==
    Command(u, "WHOIS",
            IF Registered(u) /\ SeekNick(n) # NoOne
            THEN <<"reply", "whois", "reply">> ELSE <<"reply">>,
            [Blank EXCEPT !.to = SeekNick(n)])

Whois(u) ==
    LET v == loc[u].to IN
    /\ At(u, "whois")
    /\ \/ /\ conn[v] = "exited"
          /\ \E next \in {<<>>, <<"segv">>} : Then(u, next, loc[u])
          /\ UNCHANGED frozen
       \/ /\ conn[v] = "up" /\ cLock[v] = NoOne
          /\ frozen' = [frozen EXCEPT ![v] = TRUE]
          /\ Then(u, <<>>, loc[u])
    /\ UNCHANGED <<people, mychans, channels, locks, outside, crashed>>

(* MODE.  The modes are not modelled: a request is refused or relayed.     *)
(* Two of the refusals of a client's status are sent like the last reply   *)
(* of NAMES.  The mode of a channel may be set by any IRC operator, and a  *)
(* client that is neither operator nor member is looked up in vain.        *)
MemberMode(u, c) ==
    \/ Command(u, "MODE", IF SeekChan(c) = 0 THEN <<"reply">> ELSE <<"bare">>,
               [Blank EXCEPT !.chan = SeekChan(c)])
    \/ \E v \in Range(userlist), steps \in {<<"reply">>, <<"target", "relay">>} :
           /\ SeekChan(c) # 0 /\ Member(u, c)
           /\ named[v] /\ Member(v, c)
           /\ Command(u, "MODE", steps,
                      [Blank EXCEPT !.chan = SeekChan(c), !.name = c, !.to = v])

(* The client whose status is set is looked for in the channel again, and  *)
(* may have left the channel, or the server, since.                        *)
Target(u) ==
    LET v == loc[u].to IN
    /\ At(u, "target")
    /\ \/ /\ conn[v] = "up" /\ cLock[v] = NoOne
          /\ IF Member(v, loc[u].name) THEN Then(u, <<>>, loc[u])
             ELSE Goto(u, <<"segv">>, loc[u])
       \/ /\ conn[v] = "exited"
          /\ Then(u, <<>>, loc[u]) \/ Goto(u, <<"segv">>, loc[u])
    /\ UNCHANGED <<people, members, channels, locks, outside, crashed>>

ChannelMode(u, c) ==
    \E steps \in {<<"reply">>, <<"relay">>, <<"segv">>} :
        /\ steps = <<"relay">> => SeekChan(c) # 0
        /\ steps = <<"segv">> => SeekChan(c) # 0 /\ ~Member(u, c)
        /\ Command(u, "MODE", steps, [Blank EXCEPT !.chan = SeekChan(c)])

UserMode(u) ==
    \E steps \in {<<"reply">>, <<>>} : Command(u, "MODE", steps, Blank)

(* A reply and no more: the modes AWAY and OPER set are not modelled. *)
PING(u) == Command(u, "PING", <<"reply">>, Blank)

MOTD(u) == Command(u, "MOTD", <<"reply">>, Blank)

AWAY(u) == Command(u, "AWAY", <<"reply">>, Blank)

OPER(u) == Command(u, "OPER", <<"reply">>, Blank)

UNKNOWN(u) == Command(u, "UNKNOWN", <<"reply">>, Blank)

----------------------------------------------------------------------------
Init ==
    /\ conn = [u \in User |-> IF u \in Veterans THEN "up" ELSE "new"]
    /\ userlist = SetToSeq(Veterans)
    /\ nick = [u \in User |-> IF u \in Veterans THEN NickOf[u] ELSE ""]
    /\ named = [u \in User |-> u \in Veterans]
    /\ numregistered = Cardinality(Veterans)
    /\ mychans = [u \in User |-> IF u \in Veterans THEN <<Lobby>> ELSE <<>>]
    /\ frozen = [u \in User |-> FALSE]
    /\ chan = IF Veterans = {} THEN <<>>
              ELSE <<[name |-> Lobby, numusers |-> Cardinality(Veterans)]>>
    /\ chanlist = [i \in 1..Len(chan) |-> i]
    /\ iter = [active |-> FALSE, pos |-> 0]
    /\ lock = NoOne
    /\ cLock = [u \in User |-> NoOne]
    /\ chanLock = [i \in 1..Len(chan) |-> NoOne]
    /\ todo = [u \in User |-> <<>>]
    /\ loc = [u \in User |-> Blank]
    /\ gone = {} /\ count = 0 /\ raced = {} /\ torn = {} /\ crashed = FALSE

(* What the thread of u does once it has a message, or the end of file. *)
Step(u) ==
    \/ Segv(u) \/ Reply(u) \/ Bare(u) \/ Bye(u)
    \/ SetNick(u) \/ SetUser(u) \/ Register(u)
    \/ Relay(u) \/ Visit(u) \/ Send(u) \/ AllChans(u) \/ NextChan(u)
    \/ Create(u) \/ Enter(u) \/ Inc(u)
    \/ Leave(u) \/ Dec(u) \/ Test(u) \/ Destroy(u) \/ Unlist(u)
    \/ EndOfFile(u) \/ Exit(u) \/ Drop(u) \/ Forget(u)
    \/ Deliver(u) \/ Sweep(u) \/ Meet(u) \/ List(u) \/ ListNext(u)
    \/ Whois(u) \/ Target(u)

handle_chirc_message(u) ==
    \/ QUIT(u) \/ LUSERS(u) \/ WHO(u) \/ LIST(u) \/ NAMES(u)
    \/ PING(u) \/ MOTD(u) \/ AWAY(u) \/ OPER(u) \/ UNKNOWN(u)
    \/ UserMode(u)
    \/ \E given \in BOOLEAN : USER(u, given)
    \/ \E n \in Nick \union {""} : NICK(u, n) \/ WHOIS(u, n)
    \/ \E c \in Name : JOIN(u, c) \/ PART(u, c) \/ TOPIC(u, c) \/ MemberMode(u, c)
    \/ \E c \in Chan : ChannelMode(u, c) \/ NamesOf(u, c) \/ ListOf(u, c) \/ WhoOf(u, c)
    \/ \E t \in Nick \union Name : PRIVMSG(u, t) \/ NOTICE(u, t)

Next ==
    \E u \in User :
        \/ accept_clients(u) \/ service_single_client(u) \/ HangUp(u)
        \/ handle_chirc_message(u) \/ Step(u)

(* A runnable thread runs: the mutexes are not fair, but a behaviour has   *)
(* finitely many commands to compete with.  Clients need not do anything.  *)
Spec == Init /\ [][Next]_vars /\ \A u \in User : WF_vars(Step(u))

----------------------------------------------------------------------------
Listed == Range(chanlist)

(* The steps that ask for lock, and for the thread's own c_lock. *)
LockSteps == {"setnick", "setuser", "register", "relay", "create", "unlist",
              "forget", "sweep", "list", "listnext"}
OwnSteps == {"reply", "bye", "chans", "leave", "exit", "deliver"}

MembersOf(c) == {u \in User : Member(u, c)}

(* The channels whose books must balance. *)
Intact(c) == c \notin torn \union {""}

Top(u) == IF todo[u] = <<>> THEN "" ELSE Head(todo[u])

(* The channels u is counted in: those of its list but for the one it has  *)
(* entered and not yet counted; as its connection ends, those it has yet   *)
(* to go through; and the one it is about to be taken off the count of.    *)
Seats(u) ==
    (IF "drop" \in Range(todo[u]) THEN Range(loc[u].chans)
     ELSE Range(mychans[u]) \ If(Top(u) = "inc", {loc[u].name}))
    \union If(Top(u) = "dec", {chan[loc[u].chan].name})

SeatedIn(c) == {u \in User : c \in Seats(u)}

(* The list refers to allocated channels, and every held mutex belongs to  *)
(* a thread that is in the middle of a command.                            *)
TypeOK ==
    /\ Range(userlist) = {u \in User : conn[u] = "up"}
    /\ \A u \in User : Range(mychans[u]) \subseteq Name
    /\ Listed \subseteq 1..Len(chan)
    /\ numregistered \in 0..(UINT_MOD - 1)
    /\ \A h \in {lock} \union Range(cLock) \union Range(chanLock) :
           h # NoOne => todo[h] # <<>>

(* Between commands the two directions of membership agree, however the    *)
(* commands before overlapped: a listed channel counts exactly the clients *)
(* that list it, at least one; names are unique; and every channel a       *)
(* client lists can be found (channel.c, PART, user_exit(),                *)
(* channel_destroy()).  The exceptions are the channel with the empty name *)
(* and those that one of the known races has torn.                         *)
ChannelsConsistent ==
    Quiet /\ ~crashed =>
        /\ \A o \in Listed : Intact(chan[o].name) =>
               /\ chan[o].numusers = Cardinality(MembersOf(chan[o].name))
               /\ chan[o].numusers > 0
        /\ \A i, j \in 1..Len(chanlist) :
               /\ Intact(chan[chanlist[i]].name)
               /\ chan[chanlist[i]].name = chan[chanlist[j]].name
               => i = j
        /\ \A u \in User : \A c \in Range(mychans[u]) : Intact(c) => SeekChan(c) # 0

(* At every moment of overlapping commands the count of a listed channel   *)
(* is the number of the clients counted in it: it differs from its members *)
(* by exactly the joins, parts and departures that are between the two     *)
(* critical sections.                                                      *)
NumusersAccounted ==
    \A o \in Listed : Intact(chan[o].name) =>
        chan[o].numusers = Cardinality(SeatedIn(chan[o].name))

(* RPL_LUSERCLIENT counts the registered users (CMSC23300_WIN12_project1,  *)
(* "all open connections, minus unknown connections"); numregistered is    *)
(* decremented for every client that leaves (user_exit()), and incremented *)
(* at every NICK without a parameter (do_registration()).                  *)
RegisteredCounted ==
    Quiet /\ ~crashed =>
        numregistered = Cardinality({u \in Range(userlist) : Registered(u)})

(* Two connected clients have the same nickname only if one asked for it   *)
(* while the other was being given it (NICK).                              *)
UniqueNicks ==
    \A u, v \in Range(userlist) :
        u # v /\ nick[u] = nick[v] => nick[u] \in raced \union {""}

(* The server dies in one of these ways: NAMES or MODE unlocks a mutex     *)
(* that another thread holds; LIST of a channel that does not exist, MODE  *)
(* and NOTICE by a client that is not on the channel; a client that has    *)
(* left since it was looked up; a channel that is torn or has no name.     *)
(* No other command, in any order, uses a channel that it did not find.    *)
CrashesExplained ==
    crashed =>
        \E u \in User :
            \/ Top(u) = "bare" /\ cLock[u] # NoOne
            \/ /\ Top(u) = "segv"
               /\ \/ loc[u].kind \in {"LIST c", "MODE", "NOTICE"}
                  \/ loc[u].to # NoOne /\ conn[loc[u].to] = "exited"
                  \/ \E c \in Range(mychans[u]) : ~Intact(c)

(* No thread asks for a mutex it holds already, unless a send() failed: in *)
(* particular QUIT and NICK, which hold the client's c_lock while they     *)
(* relay, never relay to the client itself (sendtoallchans()).             *)
NoSelfDeadlock ==
    \A u \in User : todo[u] # <<>> =>
        LET s == Head(todo[u]) IN
        /\ s \in LockSteps => lock # u
        /\ s \in OwnSteps => cLock[u] # u
        /\ s \in {"send", "meet"} /\ loc[u].left # <<>> =>
               cLock[Head(loc[u].left)] # u
        /\ s = "target" => cLock[loc[u].to] # u
        /\ s \in {"inc", "dec", "destroy"} => chanLock[loc[u].chan] # u

(* Every command, and every disconnection, is handled to its end: no       *)
(* thread waits for a mutex for ever.                                      *)
CommandsEnd == \A u \in User : (todo[u] # <<>>) ~> (todo[u] = <<>> \/ crashed)
============================================================================
