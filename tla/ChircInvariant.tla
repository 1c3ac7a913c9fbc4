--------------------------- MODULE ChircInvariant ---------------------------
(***************************************************************************)
(* The inductive invariants of the IRC server: what a thread has still to  *)
(* do and what it holds meanwhile (ThreadInv), who is in the userlist      *)
(* (UserlistInv), what the channels count (BookInv), and who asks for      *)
(* which nickname (NickInv).                                               *)
(***************************************************************************)
EXTENDS Chirc

(* The steps a thread has still to do, and the one it is at. *)
Pending(u) == Range(todo[u])

Local ==
    [chan : Nat, name : Name, nick : Nick \union {""}, user : BOOLEAN,
     to : User \union {NoOne}, skip : BOOLEAN, kind : Commands \union {""},
     left : Seq(User), chans : Seq(Name)]

Channel == [name : Name, numusers : Int]

(* What a thread goes on with after each step.  sendtochannel() is called  *)
(* by many handlers, sendtoallchans() by two.                              *)
RelayTails ==
    {<<>>, <<"reply">>, <<"sweep", "reply">>, <<"leave", "dec">>,
     <<"nextchan", "setnick">>, <<"nextchan", "bye", "exit">>}

WalkTails == {<<"reply">>, <<"reply", "listnext">>, <<"bare">>, <<"reply", "bare">>}

AllChansTails == {<<"setnick">>, <<"bye", "exit">>}

DecTails == {<<>>, <<"drop">>}

After ==
    [segv |-> {<<>>, <<"reply">>, <<"drop">>} \union AllChansTails,
     hung |-> {<<>>},
     reply |-> {<<>>, <<"chans", "setnick">>, <<"sweep", "reply">>,
                <<"listnext">>, <<"whois", "reply">>, <<"bare">>},
     bare |-> {<<>>},
     bye |-> {<<"exit">>},
     setnick |-> {<<>>}, setuser |-> {<<>>}, register |-> {<<>>},
     relay |-> RelayTails, visit |-> RelayTails,
     send |-> {<<"visit">> \o t : t \in RelayTails},
     chans |-> AllChansTails, nextchan |-> AllChansTails,
     create |-> {<<>>}, enter |-> {<<>>},
     inc |-> {<<"relay", "sweep", "reply">>},
     leave |-> {<<"dec">>},
     dec |-> DecTails, test |-> DecTails,
     destroy |-> DecTails, unlist |-> DecTails,
     exit |-> {<<>>}, drop |-> {<<>>}, forget |-> {<<>>},
     deliver |-> {<<>>},
     sweep |-> WalkTails, meet |-> WalkTails,
     list |-> {<<>>}, listnext |-> {<<>>},
     whois |-> {<<"reply">>},
     target |-> {<<"relay">>}]

Steps == DOMAIN After

WellFormed(steps) ==
    steps # <<>> => Head(steps) \in Steps /\ Tail(steps) \in After[Head(steps)]

(* The steps that use the channel in loc[u].chan. *)
ChanSteps == {"relay", "visit", "send", "enter", "inc", "leave", "dec",
              "test", "destroy", "unlist", "target"}

(* Steps ahead of a thread that holds its own c_lock. *)
Holding == {"nextchan", "drop", "forget"}

---------------------------------------------------------------------------
(* The values of the variables. *)
PeopleTyped ==
    /\ conn \in [User -> {"new", "accepted", "up", "exited"}]
    /\ userlist \in Seq(User)
    /\ nick \in [User -> Nick \union {""}]
    /\ named \in [User -> BOOLEAN]
    /\ numregistered \in 0..(UINT_MOD - 1)

MembersTyped ==
    /\ mychans \in [User -> Seq(Name)]
    /\ frozen \in [User -> BOOLEAN]

ChannelsTyped ==
    /\ chan \in Seq(Channel)
    /\ chanlist \in Seq(1..Len(chan))
    /\ iter \in [active : BOOLEAN, pos : Nat]
    /\ chanLock \in Seq(User \union {NoOne}) /\ Len(chanLock) = Len(chan)

LocksTyped ==
    /\ lock \in User \union {NoOne}
    /\ cLock \in [User -> User \union {NoOne}]

ThreadsTyped ==
    /\ todo \in [User -> Seq(Steps)]
    /\ loc \in [User -> Local]
    /\ gone \subseteq User

Typed == PeopleTyped /\ MembersTyped /\ ChannelsTyped /\ LocksTyped /\ ThreadsTyped

(* server->userlist has every connected client once. *)
UserlistInv ==
    /\ Range(userlist) = {u \in User : conn[u] = "up"}
    /\ IsInjective(userlist)
    /\ \A u \in User : conn[u] \in {"new", "accepted"} =>
           nick[u] = "" /\ ~named[u] /\ todo[u] = <<>>

(* A thread with something to do has what it needs for it. *)
TaskSound(u) ==
    /\ WellFormed(todo[u])
    /\ todo[u] # <<>> => conn[u] = "up"
    /\ loc[u].chan \in 0..Len(chan)
    /\ Top(u) \in ChanSteps => loc[u].chan # 0
    /\ Top(u) = "target" => loc[u].to \in User
    /\ "nextchan" \in Pending(u) => loc[u].skip
    /\ Top(u) = "send" =>
           /\ loc[u].left # <<>>
           /\ "nextchan" \in Pending(u) => Head(loc[u].left) # u

(* A mutex is held across steps only where the code takes a second one. *)
LocksSound(u) ==
    /\ lock = u => Top(u) \in {"visit", "send", "meet", "hung"}
    /\ \A v \in User : cLock[v] = u =>
           \/ Top(u) \in {"hung", "segv"}
           \/ v = u /\ Holding \intersect Pending(u) # {}
    /\ \A o \in 1..Len(chan) : chanLock[o] = u =>
           Top(u) = "unlist" /\ loc[u].chan = o

ThreadInv(u) == TaskSound(u) /\ LocksSound(u)

ServerInv == Typed /\ UserlistInv /\ \A u \in User : ThreadInv(u)

---------------------------------------------------------------------------
(* The books of the channels.                                              *)
Found(c) == \E o \in Listed : chan[o].name = c

(* A channel nobody is counted in is about to be joined or destroyed. *)
EmptyStages == {"enter", "inc", "test", "destroy", "unlist"}

(* The ways in which a thread comes to use what it did not find. *)
Excused(u) ==
    \/ loc[u].kind \in {"LIST c", "MODE", "NOTICE"}
    \/ loc[u].to # NoOne /\ conn[loc[u].to] = "exited"
    \/ \E c \in Range(mychans[u]) : ~Intact(c)

(* The channel a step of JOIN or PART works on is the one it was asked for. *)
AtChannel(u) ==
    /\ chan[loc[u].chan].name = loc[u].name
    /\ Intact(loc[u].name) => loc[u].chan \in Listed

(* The channels u has still to be taken off the count of. *)
Ahead(u) == Range(IF "drop" \in Pending(u) THEN loc[u].chans ELSE mychans[u])

StageSound(u) ==
    /\ Top(u) \in {"enter", "inc"} => AtChannel(u)
    /\ Top(u) = "inc" /\ Intact(loc[u].name) => Member(u, loc[u].name)
    /\ "leave" \in Pending(u) => AtChannel(u) /\ Member(u, loc[u].name)
    /\ Top(u) = "dec" /\ Intact(chan[loc[u].chan].name) =>
           loc[u].chan \in Listed /\ chan[loc[u].chan].name \notin Ahead(u)
    /\ Top(u) = "unlist" =>
           chanLock[loc[u].chan] = u /\ chan[loc[u].chan].numusers = 0
    /\ "drop" \in Pending(u) => IsInjective(loc[u].chans)
    /\ {"drop", "nextchan"} \intersect Pending(u) # {} =>
           Range(loc[u].chans) \subseteq Range(mychans[u])
    /\ {"deliver", "whois"} \intersect Pending(u) # {} => loc[u].to \in User
    /\ Top(u) = "target" => loc[u].kind = "MODE"
    /\ Top(u) = "segv" => Excused(u)
    /\ IsInjective(mychans[u])

ListInv ==
    /\ IsInjective(chanlist)
    /\ \A o, p \in Listed :
           Intact(chan[o].name) /\ chan[o].name = chan[p].name => o = p

SeatsInv ==
    /\ NumusersAccounted
    /\ \A o \in Listed : Intact(chan[o].name) /\ chan[o].numusers = 0 =>
           \E u \in User : Top(u) \in EmptyStages /\ loc[u].chan = o
    /\ \A u \in User : \A c \in Seats(u) : Intact(c) => Found(c)

BookInv ==
    /\ ListInv /\ SeatsInv /\ CrashesExplained
    /\ \A u \in User : StageSound(u)

---------------------------------------------------------------------------
(* The nicknames u has, or is about to be given. *)
Claims(u) == {nick[u]} \union If("setnick" \in Pending(u), {loc[u].nick})

NickInv ==
    \A u, v \in User :
        u # v /\ conn[u] = "up" /\ conn[v] = "up" =>
            Claims(u) \intersect Claims(v) \subseteq raced \union {""}
=============================================================================
