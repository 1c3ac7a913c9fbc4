----------------------------- MODULE ChircProofs -----------------------------
(***************************************************************************)
(* Proofs about the IRC server, for any clients, nicknames, channels and   *)
(* messages: its mutexes are held by threads in the middle of a command,   *)
(* which never ask for one they have.                                      *)
(***************************************************************************)
EXTENDS ChircInvariant, SequenceTheorems, FiniteSetTheorems,
        WellFoundedInduction, TLAPS

---------------------------------------------------------------------------
(* Sequences. *)

(* A non-empty set of natural numbers has a least element. *)
LEMMA MinOfNaturals ==
    ASSUME NEW S \in SUBSET Nat, S # {}
    PROVE  Min(S) \in S /\ \A m \in S : Min(S) <= m
<1> DEFINE R == OpToRel(<, Nat)
<1>1. IsWellFoundedOn(R, Nat)
  BY NatLessThanWellFounded
<1>2. \A x, y \in Nat : x < y => <<x, y>> \in R
  BY DEF OpToRel
<1> HIDE DEF R
<1>3. PICK x \in S : \A y \in S : ~(<<y, x>> \in R)
  BY <1>1, WFMin
<1>4. ASSUME NEW y \in S PROVE x <= y
  <2>1. ~(y < x)
    BY <1>2, <1>3, Zenon
  <2> QED BY <2>1
<1> QED BY <1>4 DEF Min

(* What a sequence loses with one element. *)
LEMMA RemoveAtFacts ==
    ASSUME NEW S, NEW s \in Seq(S), NEW i \in 1..Len(s)
    PROVE  /\ RemoveAt(s, i) \in Seq(S)
           /\ Len(RemoveAt(s, i)) = Len(s) - 1
           /\ \A j \in 1..(Len(s) - 1) :
                  RemoveAt(s, i)[j] = IF j < i THEN s[j] ELSE s[j + 1]
<1> DEFINE a == SubSeq(s, 1, i - 1)
           b == SubSeq(s, i + 1, Len(s))
<1>1. /\ a \in Seq(S) /\ Len(a) = i - 1
      /\ \A j \in 1..(i - 1) : a[j] = s[j]
  BY SubSeqProperties
<1>2. /\ b \in Seq(S) /\ Len(b) = Len(s) - i
      /\ \A j \in 1..(Len(s) - i) : b[j] = s[i + j]
  BY SubSeqProperties
<1>3. RemoveAt(s, i) = a \o b
  BY DEF RemoveAt
<1> HIDE DEF a, b
<1>4. /\ a \o b \in Seq(S) /\ Len(a \o b) = Len(s) - 1
      /\ \A j \in 1..(Len(s) - 1) :
             (a \o b)[j] = IF j <= i - 1 THEN a[j] ELSE b[j - (i - 1)]
  <2>1. /\ a \o b \in Seq(S) /\ Len(a \o b) = Len(a) + Len(b)
        /\ \A j \in 1..(Len(a) + Len(b)) :
               (a \o b)[j] = IF j <= Len(a) THEN a[j] ELSE b[j - Len(a)]
    BY <1>1, <1>2, ConcatProperties
  <2>2. Len(a) + Len(b) = Len(s) - 1
    BY <1>1, <1>2, LenProperties
  <2> QED BY <1>1, <2>1, <2>2
<1>5. ASSUME NEW j \in 1..(Len(s) - 1)
      PROVE  (a \o b)[j] = IF j < i THEN s[j] ELSE s[j + 1]
  <2>0. Len(s) \in Nat
    BY LenProperties
  <2>1. CASE j < i
    BY <1>1, <1>4, <2>0, <2>1
  <2>2. CASE j >= i
    <3>1. j - (i - 1) \in 1..(Len(s) - i) /\ i + (j - (i - 1)) = j + 1
      BY <2>0, <2>2
    <3>2. (a \o b)[j] = b[j - (i - 1)]
      BY <1>4, <2>0, <2>2
    <3>3. b[j - (i - 1)] = s[j + 1]
      BY <1>2, <3>1
    <3> QED BY <2>2, <3>2, <3>3
  <2>3. j < i \/ j >= i
    BY <2>0
  <2> QED BY <2>1, <2>2, <2>3, Zenon
<1> QED BY <1>3, <1>4, <1>5

(* list_delete() of an element that is in the list takes one place out of  *)
(* it, and of one that is not leaves it alone.                             *)
LEMMA RemoveFirstFacts ==
    ASSUME NEW S, NEW s \in Seq(S), NEW e
    PROVE  \/ e \notin Range(s) /\ RemoveFirst(s, e) = s
           \/ \E i \in 1..Len(s) : s[i] = e /\ RemoveFirst(s, e) = RemoveAt(s, i)
<1>1. Range(s) = {s[i] : i \in 1..Len(s)}
  BY RangeEquality
<1>2. CASE e \notin Range(s)
  <2>1. RemoveFirst(s, e) = s
    BY <1>1, <1>2 DEF RemoveFirst
  <2> QED BY <1>2, <2>1
<1>3. CASE e \in Range(s)
  <2> DEFINE hits == {i \in 1..Len(s) : s[i] = e}
  <2>1. hits \in SUBSET Nat /\ hits # {} /\ \E i \in 1..Len(s) : s[i] = e
    BY <1>1, <1>3
  <2>2. Min(hits) \in hits
    BY <2>1, MinOfNaturals
  <2>3. RemoveFirst(s, e) = RemoveAt(s, Min(hits))
    BY <2>1 DEF RemoveFirst, SelectInSeq
  <2> QED BY <2>2, <2>3
<1> QED BY <1>2, <1>3

LEMMA RemoveFirstSeq ==
    ASSUME NEW S, NEW s \in Seq(S), NEW e
    PROVE  RemoveFirst(s, e) \in Seq(S)
BY RemoveFirstFacts, RemoveAtFacts

(* A list without duplicates loses the element, and stays without. *)
LEMMA RemoveFirstInjective ==
    ASSUME NEW S, NEW s \in Seq(S), NEW e, IsInjective(s)
    PROVE  /\ IsInjective(RemoveFirst(s, e))
           /\ Range(RemoveFirst(s, e)) = Range(s) \ {e}
<1> DEFINE r == RemoveFirst(s, e)
<1>0. r \in Seq(S) /\ Range(s) = {s[i] : i \in 1..Len(s)}
      /\ Range(r) = {r[i] : i \in 1..Len(r)}
      /\ DOMAIN s = 1..Len(s) /\ DOMAIN r = 1..Len(r) /\ Len(s) \in Nat
  BY RemoveFirstSeq, RangeEquality, LenProperties
<1>1. \A j, k \in 1..Len(s) : s[j] = s[k] => j = k
  BY <1>0 DEF IsInjective
<1>2. CASE e \notin Range(s) /\ r = s
  BY <1>2
<1>3. ASSUME NEW i \in 1..Len(s), s[i] = e, r = RemoveAt(s, i)
      PROVE  IsInjective(r) /\ Range(r) = Range(s) \ {e}
  <2>1. /\ Len(r) = Len(s) - 1
        /\ \A j \in 1..(Len(s) - 1) : r[j] = IF j < i THEN s[j] ELSE s[j + 1]
    BY <1>3, RemoveAtFacts
  <2> HIDE DEF r
  <2>2. ASSUME NEW j \in 1..Len(r), NEW k \in 1..Len(r), r[j] = r[k]
        PROVE  j = k
    BY <1>0, <1>1, <2>1, <2>2
  <2>3. IsInjective(r)
    BY <1>0, <2>2 DEF IsInjective
  <2>4. ASSUME NEW x \in Range(r) PROVE x \in Range(s) \ {e}
    <3>1. PICK j \in 1..Len(r) : x = r[j]
      BY <1>0
    <3>2. CASE j < i
      BY <1>0, <1>1, <1>3, <2>1, <3>1, <3>2
    <3>3. CASE j >= i
      <4>1. j + 1 \in 1..Len(s) /\ x = s[j + 1]
        BY <1>0, <2>1, <3>1, <3>3
      <4> QED BY <1>0, <1>1, <1>3, <3>3, <4>1
    <3> QED BY <3>2, <3>3
  <2>5. ASSUME NEW x \in Range(s) \ {e} PROVE x \in Range(r)
    <3>1. PICK j \in 1..Len(s) : x = s[j] /\ j # i
      BY <1>0, <1>3
    <3>2. CASE j < i
      BY <1>0, <2>1, <3>1, <3>2
    <3>3. CASE j > i
      <4>1. j - 1 \in 1..Len(r) /\ r[j - 1] = s[(j - 1) + 1]
        BY <1>0, <2>1, <3>3
      <4>2. x = r[j - 1]
        BY <3>1, <4>1
      <4> QED BY <1>0, <4>1, <4>2
    <3> QED BY <3>1, <3>2, <3>3
  <2> QED BY <2>3, <2>4, <2>5
<1> QED BY <1>2, <1>3, RemoveFirstFacts

(* A new element at the end of a list without duplicates. *)
LEMMA AppendNew ==
    ASSUME NEW S, NEW s \in Seq(S), NEW e \in S
    PROVE  /\ Append(s, e) \in Seq(S)
           /\ Range(Append(s, e)) = Range(s) \union {e}
           /\ IsInjective(s) /\ e \notin Range(s) => IsInjective(Append(s, e))
<1> DEFINE r == Append(s, e)
<1>1. /\ r \in Seq(S) /\ Len(r) = Len(s) + 1
      /\ \A i \in 1..Len(s) : r[i] = s[i]
      /\ r[Len(s) + 1] = e
  BY AppendProperties
<1>2. /\ Range(s) = {s[i] : i \in 1..Len(s)} /\ Range(r) = {r[i] : i \in 1..Len(r)}
      /\ DOMAIN s = 1..Len(s) /\ DOMAIN r = 1..Len(r) /\ Len(s) \in Nat
  BY <1>1, RangeEquality, LenProperties
<1> HIDE DEF r
<1>3. Range(r) = Range(s) \union {e}
  BY <1>1, <1>2
<1>4. ASSUME IsInjective(s), e \notin Range(s) PROVE IsInjective(r)
  <2>1. \A j, k \in 1..Len(s) : s[j] = s[k] => j = k
    BY <1>2, <1>4 DEF IsInjective
  <2>2. \A j \in 1..Len(s) : s[j] # e
    BY <1>2, <1>4
  <2>3. ASSUME NEW j \in 1..Len(r), NEW k \in 1..Len(r), r[j] = r[k]
        PROVE  j = k
    BY <1>1, <1>2, <2>1, <2>2, <2>3
  <2> QED BY <1>2, <2>3 DEF IsInjective
<1> QED BY <1>1, <1>3, <1>4 DEF r

(* What is in a sequence put in front of another. *)
LEMMA RangeConcat ==
    ASSUME NEW S, NEW s \in Seq(S), NEW t \in Seq(S)
    PROVE  Range(s \o t) = Range(s) \union Range(t)
BY RangeConcatenation

LEMMA RangeEmpty == Range(<<>>) = {}
<1>1. <<>> \in Seq({})
  BY EmptySeq
<1>2. Range(<<>>) \in SUBSET {}
  BY <1>1, RangeOfSeq
<1> QED BY <1>2

LEMMA RangeHeadTail ==
    ASSUME NEW S, NEW s \in Seq(S), s # <<>>
    PROVE  /\ Head(s) \in S /\ Tail(s) \in Seq(S)
           /\ Range(s) = {Head(s)} \union Range(Tail(s))
<1>1. /\ Head(s) \in S /\ Tail(s) \in Seq(S) /\ Len(Tail(s)) = Len(s) - 1
      /\ \A i \in 1..Len(Tail(s)) : Tail(s)[i] = s[i + 1]
      /\ Head(s) = s[1] /\ Len(s) \in Nat /\ Len(s) # 0
  BY HeadTailProperties, EmptySeq
<1> DEFINE t == Tail(s)
<1>2. /\ Range(s) = {s[i] : i \in 1..Len(s)} /\ Range(t) = {t[i] : i \in 1..Len(t)}
  BY <1>1, RangeEquality
<1> HIDE DEF t
<1>3. ASSUME NEW x \in Range(s) PROVE x = Head(s) \/ x \in Range(t)
  <2>1. PICK i \in 1..Len(s) : x = s[i]
    BY <1>2
  <2>2. CASE i = 1
    BY <1>1, <2>1, <2>2
  <2>3. CASE i > 1
    <3>1. i - 1 \in 1..Len(t) /\ t[i - 1] = s[(i - 1) + 1]
      BY <1>1, <2>3 DEF t
    <3> QED BY <1>2, <2>1, <3>1
  <2> QED BY <2>2, <2>3
<1>4. ASSUME NEW x \in Range(t) PROVE x \in Range(s)
  <2>1. PICK i \in 1..Len(t) : x = t[i]
    BY <1>2
  <2>2. i + 1 \in 1..Len(s) /\ t[i] = s[i + 1]
    BY <1>1 DEF t
  <2> QED BY <1>2, <2>1, <2>2
<1>5. Head(s) \in Range(s)
  BY <1>1, <1>2
<1> QED BY <1>1, <1>3, <1>4, <1>5 DEF t

---------------------------------------------------------------------------
(* Steps. *)

(* Sequences written out. *)
LEMMA ShortSequences ==
    ASSUME NEW S
    PROVE  /\ <<>> \in Seq(S)
           /\ \A a \in S : <<a>> \in Seq(S)
           /\ \A a, b \in S : <<a, b>> \in Seq(S)
           /\ \A a, b, c \in S : <<a, b, c>> \in Seq(S)
           /\ \A a, b, c, d \in S : <<a, b, c, d>> \in Seq(S)
OBVIOUS

(* The tails of After, one step at a time. *)
LEMMA AfterDomain ==
    Steps =
        {"segv", "hung", "reply", "bye", "setnick", "setuser", "register",
         "relay", "visit", "send", "chans", "nextchan", "create", "enter",
         "inc", "leave", "dec", "test", "destroy", "unlist", "exit", "drop",
         "forget", "deliver", "sweep", "meet", "list", "listnext", "whois",
         "bare", "target"}
BY DEF After, Steps

LEMMA AfterValues ==
    /\ After["segv"] = {<<>>, <<"reply">>, <<"drop">>} \union AllChansTails
    /\ After["reply"] = {<<>>, <<"chans", "setnick">>, <<"sweep", "reply">>,
                         <<"listnext">>, <<"whois", "reply">>, <<"bare">>}
    /\ After["bye"] = {<<"exit">>}
    /\ \A s \in {"hung", "setnick", "setuser", "register", "create", "enter",
                 "exit", "drop", "forget", "deliver", "list", "listnext", "bare"} :
           After[s] = {<<>>}
    /\ After["relay"] = RelayTails /\ After["visit"] = RelayTails
    /\ After["send"] = {<<"visit">> \o t : t \in RelayTails}
    /\ After["chans"] = AllChansTails /\ After["nextchan"] = AllChansTails
    /\ After["inc"] = {<<"relay", "sweep", "reply">>}
    /\ After["leave"] = {<<"dec">>}
    /\ \A s \in {"dec", "test", "destroy", "unlist"} : After[s] = DecTails
    /\ After["sweep"] = WalkTails /\ After["meet"] = WalkTails
    /\ After["whois"] = {<<"reply">>} /\ After["target"] = {<<"relay">>}
BY DEF After

(* A thread that is done with a step goes on with one that needs no more   *)
(* than the step before it.                                                *)
TailSound(s, t) ==
    /\ t \in Seq(Steps) /\ WellFormed(t)
    /\ t # <<>> =>
         /\ Head(t) \notin {"send", "unlist", "target"}
         /\ Head(t) \in ChanSteps => s \in ChanSteps
         /\ s = "send" => Head(t) = "visit"

LEMMA RelayTailsSound ==
    \A t \in RelayTails :
        /\ t \in Seq(Steps) /\ WellFormed(t)
        /\ t # <<>> => Head(t) \in {"reply", "sweep", "leave", "nextchan"}
<1> DEFINE Sound(t) ==
        /\ t \in Seq(Steps) /\ WellFormed(t)
        /\ t # <<>> => Head(t) \in {"reply", "sweep", "leave", "nextchan"}
<1>1. Sound(<<>>)
  <2>1. <<>> \in Seq(Steps)
    BY AfterDomain, ShortSequences
  <2>2. WellFormed(<<>>)
    BY AfterDomain, AfterValues DEF WellFormed
  <2> QED BY <2>1, <2>2
<1>2. Sound(<<"reply">>)
  <2>1. <<"reply">> \in Seq(Steps)
    BY AfterDomain, ShortSequences
  <2>2. WellFormed(<<"reply">>)
    BY AfterDomain, AfterValues DEF WellFormed
  <2> QED BY <2>1, <2>2
<1>3. Sound(<<"sweep", "reply">>)
  <2>1. <<"sweep", "reply">> \in Seq(Steps)
    BY AfterDomain, ShortSequences
  <2>2. WellFormed(<<"sweep", "reply">>)
    BY AfterDomain, AfterValues DEF WellFormed, WalkTails
  <2> QED BY <2>1, <2>2
<1>4. Sound(<<"leave", "dec">>)
  <2>1. <<"leave", "dec">> \in Seq(Steps)
    BY AfterDomain, ShortSequences
  <2>2. WellFormed(<<"leave", "dec">>)
    BY AfterDomain, AfterValues DEF WellFormed
  <2> QED BY <2>1, <2>2
<1>5. Sound(<<"nextchan", "setnick">>)
  <2>1. <<"nextchan", "setnick">> \in Seq(Steps)
    BY AfterDomain, ShortSequences
  <2>2. WellFormed(<<"nextchan", "setnick">>)
    BY AfterDomain, AfterValues DEF WellFormed, AllChansTails
  <2> QED BY <2>1, <2>2
<1>6. Sound(<<"nextchan", "bye", "exit">>)
  <2>1. <<"nextchan", "bye", "exit">> \in Seq(Steps)
    BY AfterDomain, ShortSequences
  <2>2. WellFormed(<<"nextchan", "bye", "exit">>)
    BY AfterDomain, AfterValues DEF WellFormed, AllChansTails
  <2> QED BY <2>1, <2>2
<1> HIDE DEF Sound
<1>7. \A t \in RelayTails : Sound(t)
  BY <1>1, <1>2, <1>3, <1>4, <1>5, <1>6, Zenon DEF RelayTails
<1> QED BY <1>7 DEF Sound

LEMMA WalkTailsSound ==
    \A t \in WalkTails :
        /\ t \in Seq(Steps) /\ WellFormed(t)
        /\ t # <<>> /\ Head(t) \in {"reply", "bare"}
<1> DEFINE Sound(t) ==
        /\ t \in Seq(Steps) /\ WellFormed(t)
        /\ t # <<>> /\ Head(t) \in {"reply", "bare"}
<1>1. Sound(<<"reply">>)
  <2>1. <<"reply">> \in Seq(Steps)
    BY AfterDomain, ShortSequences
  <2>2. WellFormed(<<"reply">>)
    BY AfterDomain, AfterValues DEF WellFormed
  <2> QED BY <2>1, <2>2
<1>2. Sound(<<"reply", "listnext">>)
  <2>1. <<"reply", "listnext">> \in Seq(Steps)
    BY AfterDomain, ShortSequences
  <2>2. WellFormed(<<"reply", "listnext">>)
    BY AfterDomain, AfterValues DEF WellFormed
  <2> QED BY <2>1, <2>2
<1>3. Sound(<<"bare">>)
  <2>1. <<"bare">> \in Seq(Steps)
    BY AfterDomain, ShortSequences
  <2>2. WellFormed(<<"bare">>)
    BY AfterDomain, AfterValues DEF WellFormed
  <2> QED BY <2>1, <2>2
<1>4. Sound(<<"reply", "bare">>)
  <2>1. <<"reply", "bare">> \in Seq(Steps)
    BY AfterDomain, ShortSequences
  <2>2. WellFormed(<<"reply", "bare">>)
    BY AfterDomain, AfterValues DEF WellFormed
  <2> QED BY <2>1, <2>2
<1> HIDE DEF Sound
<1>5. \A t \in WalkTails : Sound(t)
  BY <1>1, <1>2, <1>3, <1>4, Zenon DEF WalkTails
<1> QED BY <1>5 DEF Sound

LEMMA AllChansTailsSound ==
    \A t \in AllChansTails :
        /\ t \in Seq(Steps) /\ WellFormed(t)
        /\ t # <<>> /\ Head(t) \in {"setnick", "bye"}
<1> DEFINE Sound(t) ==
        /\ t \in Seq(Steps) /\ WellFormed(t)
        /\ t # <<>> /\ Head(t) \in {"setnick", "bye"}
<1>1. Sound(<<"setnick">>)
  <2>1. <<"setnick">> \in Seq(Steps)
    BY AfterDomain, ShortSequences
  <2>2. WellFormed(<<"setnick">>)
    BY AfterDomain, AfterValues DEF WellFormed
  <2> QED BY <2>1, <2>2
<1>2. Sound(<<"bye", "exit">>)
  <2>1. <<"bye", "exit">> \in Seq(Steps)
    BY AfterDomain, ShortSequences
  <2>2. WellFormed(<<"bye", "exit">>)
    BY AfterDomain, AfterValues DEF WellFormed
  <2> QED BY <2>1, <2>2
<1> HIDE DEF Sound
<1>3. \A t \in AllChansTails : Sound(t)
  BY <1>1, <1>2, Zenon DEF AllChansTails
<1> QED BY <1>3 DEF Sound

LEMMA DecTailsSound ==
    \A t \in DecTails :
        /\ t \in Seq(Steps) /\ WellFormed(t)
        /\ t # <<>> => Head(t) \in {"drop"}
<1> DEFINE Sound(t) ==
        /\ t \in Seq(Steps) /\ WellFormed(t)
        /\ t # <<>> => Head(t) \in {"drop"}
<1>1. Sound(<<>>)
  <2>1. <<>> \in Seq(Steps)
    BY AfterDomain, ShortSequences
  <2>2. WellFormed(<<>>)
    BY AfterDomain, AfterValues DEF WellFormed
  <2> QED BY <2>1, <2>2
<1>2. Sound(<<"drop">>)
  <2>1. <<"drop">> \in Seq(Steps)
    BY AfterDomain, ShortSequences
  <2>2. WellFormed(<<"drop">>)
    BY AfterDomain, AfterValues DEF WellFormed
  <2> QED BY <2>1, <2>2
<1> HIDE DEF Sound
<1>3. \A t \in DecTails : Sound(t)
  BY <1>1, <1>2, Zenon DEF DecTails
<1> QED BY <1>3 DEF Sound

LEMMA ReplyTailsSound ==
    \A t \in After["reply"] :
        /\ t \in Seq(Steps) /\ WellFormed(t)
        /\ t # <<>> => Head(t) \in {"chans", "sweep", "listnext", "whois", "bare"}
<1> DEFINE Sound(t) ==
        /\ t \in Seq(Steps) /\ WellFormed(t)
        /\ t # <<>> => Head(t) \in {"chans", "sweep", "listnext", "whois", "bare"}
<1>1. Sound(<<>>)
  <2>1. <<>> \in Seq(Steps)
    BY AfterDomain, ShortSequences
  <2>2. WellFormed(<<>>)
    BY AfterDomain, AfterValues DEF WellFormed
  <2> QED BY <2>1, <2>2
<1>2. Sound(<<"chans", "setnick">>)
  <2>1. <<"chans", "setnick">> \in Seq(Steps)
    BY AfterDomain, ShortSequences
  <2>2. WellFormed(<<"chans", "setnick">>)
    BY AfterDomain, AfterValues DEF WellFormed, AllChansTails
  <2> QED BY <2>1, <2>2
<1>3. Sound(<<"sweep", "reply">>)
  <2>1. <<"sweep", "reply">> \in Seq(Steps)
    BY AfterDomain, ShortSequences
  <2>2. WellFormed(<<"sweep", "reply">>)
    BY AfterDomain, AfterValues DEF WellFormed, WalkTails
  <2> QED BY <2>1, <2>2
<1>4. Sound(<<"listnext">>)
  <2>1. <<"listnext">> \in Seq(Steps)
    BY AfterDomain, ShortSequences
  <2>2. WellFormed(<<"listnext">>)
    BY AfterDomain, AfterValues DEF WellFormed
  <2> QED BY <2>1, <2>2
<1>5. Sound(<<"whois", "reply">>)
  <2>1. <<"whois", "reply">> \in Seq(Steps)
    BY AfterDomain, ShortSequences
  <2>2. WellFormed(<<"whois", "reply">>)
    BY AfterDomain, AfterValues DEF WellFormed
  <2> QED BY <2>1, <2>2
<1>6. Sound(<<"bare">>)
  <2>1. <<"bare">> \in Seq(Steps)
    BY AfterDomain, ShortSequences
  <2>2. WellFormed(<<"bare">>)
    BY AfterDomain, AfterValues DEF WellFormed
  <2> QED BY <2>1, <2>2
<1> HIDE DEF Sound
<1>7. \A t \in After["reply"] : Sound(t)
  BY <1>1, <1>2, <1>3, <1>4, <1>5, <1>6, AfterValues, Zenon
<1> QED BY <1>7 DEF Sound

(* The steps inside sendtochannel(). *)
LEMMA SendTailsSound ==
    \A t \in RelayTails :
        LET r == <<"visit">> \o t IN
        r \in Seq(Steps) /\ WellFormed(r) /\ r # <<>> /\ Head(r) = "visit"
<1> TAKE t \in RelayTails
<1> DEFINE r == <<"visit">> \o t
<1>1. t \in Seq(Steps)
  BY RelayTailsSound
<1>2. r \in Seq(Steps) /\ r # <<>> /\ Head(r) = "visit" /\ Tail(r) = t
  <2>1. r \in Seq(Steps) /\ Len(r) = 1 + Len(t) /\ Len(t) \in Nat
    <3>1. <<"visit">> \in Seq(Steps) /\ Len(<<"visit">>) = 1
      BY AfterDomain, ShortSequences
    <3> QED BY <1>1, <3>1, ConcatProperties
  <2>2. Head(r) = "visit"
    BY <1>1
  <2>3. Tail(r) = t
    BY <1>1
  <2> QED BY <2>1, <2>2, <2>3
<1> HIDE DEF r
<1>3. WellFormed(r)
  BY <1>2, AfterDomain, AfterValues DEF WellFormed
<1> QED BY <1>2, <1>3 DEF r

LEMMA TailsSound == \A s \in Steps : \A t \in After[s] : TailSound(s, t)
<1> SUFFICES ASSUME NEW s \in Steps, NEW t \in After[s]
             PROVE  TailSound(s, t)
  OBVIOUS
<1>1. CASE t = <<>>
  BY <1>1 DEF TailSound, WellFormed
<1>2. CASE t # <<>>
  <2> USE <1>2
  <2>1. CASE s \in {"relay", "visit"}
    BY <2>1, AfterValues, RelayTailsSound DEF TailSound, ChanSteps
  <2>2. CASE s = "send"
    <3>1. PICK r \in RelayTails : t = <<"visit">> \o r
      BY <2>2, AfterValues
    <3>2. t \in Seq(Steps) /\ WellFormed(t) /\ Head(t) = "visit"
      BY <3>1, SendTailsSound
    <3> QED BY <2>2, <3>2 DEF TailSound, ChanSteps
  <2>3. CASE s \in {"sweep", "meet"}
    BY <2>3, AfterValues, WalkTailsSound DEF TailSound, ChanSteps
  <2>4. CASE s \in {"chans", "nextchan"}
    BY <2>4, AfterValues, AllChansTailsSound DEF TailSound, ChanSteps
  <2>5. CASE s \in {"dec", "test", "destroy", "unlist"}
    BY <2>5, AfterValues, DecTailsSound DEF TailSound, ChanSteps
  <2>6. CASE s = "reply"
    BY <2>6, ReplyTailsSound DEF TailSound, ChanSteps
  <2>7. CASE s = "segv"
    <3>1. t = <<"reply">> \/ t = <<"drop">> \/ t \in AllChansTails
      BY <2>7, AfterValues
    <3>2. CASE t = <<"reply">>
      BY <2>7, <3>2, AfterDomain, AfterValues DEF TailSound, WellFormed, ChanSteps
    <3>3. CASE t = <<"drop">>
      BY <2>7, <3>3, AfterDomain, AfterValues DEF TailSound, WellFormed, ChanSteps
    <3>4. CASE t \in AllChansTails
      BY <2>7, <3>4, AllChansTailsSound DEF TailSound, ChanSteps
    <3> QED BY <3>1, <3>2, <3>3, <3>4
  <2>8. CASE s \in {"bye", "leave", "whois", "inc", "target"}
    <3>1. WellFormed(<<"exit">>) /\ WellFormed(<<"reply">>)
      BY AfterDomain, AfterValues DEF WellFormed
    <3>2. WellFormed(<<"dec">>)
      BY AfterDomain, AfterValues DEF WellFormed, DecTails
    <3>3. WellFormed(<<"relay", "sweep", "reply">>)
      BY AfterDomain, AfterValues DEF WellFormed, RelayTails
    <3>4. t \in {<<"exit">>, <<"reply">>, <<"dec">>, <<"relay", "sweep", "reply">>,
                  <<"relay">>}
      BY <2>8, AfterValues
    <3>8. WellFormed(<<"relay">>)
      BY AfterDomain, AfterValues DEF WellFormed, RelayTails
    <3>5. t \in Seq(Steps)
      <4>1. <<"exit">> \in Seq(Steps) /\ <<"reply">> \in Seq(Steps)
            /\ <<"dec">> \in Seq(Steps) /\ <<"relay">> \in Seq(Steps)
        BY AfterDomain, ShortSequences
      <4>2. <<"relay", "sweep", "reply">> \in Seq(Steps)
        BY AfterDomain, ShortSequences
      <4> QED BY <3>4, <4>1, <4>2, Zenon
    <3>6. WellFormed(t)
      BY <3>1, <3>2, <3>3, <3>4, <3>8, Zenon
    <3>7. /\ t = <<"exit">> => Head(t) = "exit"
          /\ t = <<"reply">> => Head(t) = "reply"
          /\ t = <<"dec">> => Head(t) = "dec" /\ s = "leave"
          /\ t = <<"relay">> => Head(t) = "relay" /\ s = "target"
          /\ t = <<"relay", "sweep", "reply">> => Head(t) = "relay" /\ s = "inc"
      BY <2>8, AfterValues
    <3> QED BY <2>8, <3>4, <3>5, <3>6, <3>7 DEF TailSound, ChanSteps
  <2>9. CASE s \in {"hung", "setnick", "setuser", "register", "create", "enter",
                    "exit", "drop", "forget", "deliver", "list", "listnext", "bare"}
    BY <2>9, AfterValues
  <2> QED BY <2>1, <2>2, <2>3, <2>4, <2>5, <2>6, <2>7, <2>8, <2>9, AfterDomain
<1> QED BY <1>1, <1>2
---------------------------------------------------------------------------
(* What the procedures that every step is built from do. *)
LEMMA BlankFacts ==
    /\ Blank \in Local /\ Blank.chan = 0 /\ Blank.to = NoOne /\ ~Blank.skip
    /\ Blank.left = <<>> /\ Blank.chans = <<>>
<1>1. <<>> \in Seq(User) /\ <<>> \in Seq(Name)
  BY EmptySeq
<1> QED BY <1>1 DEF Blank, Local, Name

LEMMA GotoFacts ==
    ASSUME ThreadsTyped, NEW u \in User, NEW steps \in Seq(Steps), NEW l \in Local,
           Goto(u, steps, l)
    PROVE  /\ todo' \in [User -> Seq(Steps)] /\ loc' \in [User -> Local]
           /\ todo'[u] = steps
           /\ loc'[u] = IF steps = <<>> THEN Blank ELSE l
           /\ \A v \in User : v # u => todo'[v] = todo[v] /\ loc'[v] = loc[v]
<1>1. Blank \in Local
  BY BlankFacts
<1>2. /\ todo \in [User -> Seq(Steps)] /\ loc \in [User -> Local]
      /\ todo' = [todo EXCEPT ![u] = steps]
      /\ loc' = [loc EXCEPT ![u] = IF steps = <<>> THEN Blank ELSE l]
  BY DEF ThreadsTyped, Goto
<1> DEFINE k == IF steps = <<>> THEN Blank ELSE l
<1>3. k \in Local
  BY <1>1
<1> HIDE DEF k
<1>4. loc' = [loc EXCEPT ![u] = k]
  BY <1>2 DEF k
<1> QED BY <1>2, <1>3, <1>4 DEF k

(* The thread of u is at step s of a well-formed list. *)
LEMMA AtFacts ==
    ASSUME ThreadsTyped, NEW u \in User, NEW s, At(u, s), WellFormed(todo[u])
    PROVE  /\ todo[u] # <<>> /\ Top(u) = s /\ s \in Steps
           /\ Tail(todo[u]) \in After[s] /\ Tail(todo[u]) \in Seq(Steps)
           /\ TailSound(s, Tail(todo[u]))
           /\ Pending(u) = {s} \union Range(Tail(todo[u]))
<1>1. todo[u] \in Seq(Steps) /\ todo[u] # <<>> /\ Head(todo[u]) = s
  BY DEF ThreadsTyped, At
<1>2. s \in Steps /\ Tail(todo[u]) \in After[s]
  BY <1>1 DEF WellFormed
<1>3. /\ Tail(todo[u]) \in Seq(Steps)
      /\ Pending(u) = {s} \union Range(Tail(todo[u]))
  BY <1>1, RangeHeadTail DEF Pending
<1>4. TailSound(s, Tail(todo[u]))
  BY <1>2, TailsSound
<1> QED BY <1>1, <1>2, <1>3, <1>4 DEF Top

(* Then() with nothing more to do goes on with the rest. *)
LEMMA PopFacts ==
    ASSUME ThreadsTyped, NEW u \in User, NEW s, At(u, s), WellFormed(todo[u]),
           NEW l \in Local, Then(u, <<>>, l)
    PROVE  /\ Goto(u, Tail(todo[u]), l) /\ Tail(todo[u]) \in Seq(Steps)
           /\ todo'[u] = Tail(todo[u])
           /\ Pending(u)' = Range(Tail(todo[u]))
<1>1. Tail(todo[u]) \in Seq(Steps)
  BY AtFacts
<1>2. <<>> \o Tail(todo[u]) = Tail(todo[u])
  BY <1>1, ConcatEmptySeq
<1>3. Goto(u, Tail(todo[u]), l)
  BY <1>2 DEF Then
<1>4. todo'[u] = Tail(todo[u])
  BY <1>1, <1>3, GotoFacts
<1> QED BY <1>1, <1>3, <1>4 DEF Pending

(* Then() with more to do. *)
LEMMA PushFacts ==
    ASSUME ThreadsTyped, NEW u \in User, NEW s, At(u, s), WellFormed(todo[u]),
           NEW more \in Seq(Steps), NEW l \in Local, Then(u, more, l), more # <<>>
    PROVE  /\ Goto(u, more \o Tail(todo[u]), l) /\ more \o Tail(todo[u]) \in Seq(Steps)
           /\ todo'[u] = more \o Tail(todo[u])
           /\ todo'[u] # <<>> /\ Top(u)' = Head(more) /\ loc'[u] = l
           /\ Pending(u)' = Range(more) \union Range(Tail(todo[u]))
<1> DEFINE t == Tail(todo[u])
<1>1. t \in Seq(Steps)
  BY AtFacts
<1> HIDE DEF t
<1>2. /\ more \o t \in Seq(Steps) /\ more \o t # <<>>
      /\ Head(more \o t) = Head(more)
      /\ Range(more \o t) = Range(more) \union Range(t)
  <2>1. Len(more) \in Nat \ {0} /\ Len(t) \in Nat
    BY <1>1, EmptySeq, LenProperties
  <2>2. /\ more \o t \in Seq(Steps)
        /\ Len(more \o t) = Len(more) + Len(t)
        /\ (more \o t)[1] = more[1]
    BY <1>1, <2>1, ConcatProperties
  <2>3. Head(more \o t) = (more \o t)[1] /\ Head(more) = more[1]
    OBVIOUS
  <2> QED BY <1>1, <2>1, <2>2, <2>3, RangeConcat
<1>3. Goto(u, more \o t, l)
  BY DEF Then, t
<1>4. todo'[u] = more \o t /\ loc'[u] = l
  BY <1>2, <1>3, GotoFacts
<1> QED BY <1>2, <1>3, <1>4 DEF Pending, Top, t
---------------------------------------------------------------------------
(* What the thread of u must be left with by one of its steps. *)

(* It goes on with the rest of its list, with the same local variables. *)
LEMMA PopTask ==
    ASSUME Typed, NEW u \in User, NEW s, At(u, s), TaskSound(u),
           NEW l \in Local, Then(u, <<>>, l),
           l.chan = loc[u].chan, l.skip = loc[u].skip,
           conn' = conn, Len(chan') \in Nat, Len(chan) <= Len(chan')
    PROVE  TaskSound(u)'
<1> DEFINE t == Tail(todo[u])
<1>0. ThreadsTyped /\ WellFormed(todo[u])
  BY DEF Typed, TaskSound
<1>1. /\ todo[u] # <<>> /\ Top(u) = s /\ TailSound(s, t) /\ t \in Seq(Steps)
      /\ Pending(u) = {s} \union Range(t)
  BY <1>0, AtFacts
<1>2. Goto(u, t, l) /\ todo'[u] = t /\ Pending(u)' = Range(t)
  BY <1>0, PopFacts
<1> HIDE DEF t
<1>3. loc'[u] = IF t = <<>> THEN Blank ELSE l
  BY <1>0, <1>1, <1>2, GotoFacts
<1>4. CASE t = <<>>
  <2>1. Pending(u)' = {}
    BY <1>2, <1>4, RangeEmpty
  <2>2. Top(u)' = "" /\ todo'[u] = <<>>
    BY <1>2, <1>4 DEF Top
  <2>3. loc'[u].chan = 0
    <3>1. loc'[u] = Blank
      BY <1>3, <1>4
    <3> QED BY <3>1, BlankFacts
  <2>4. WellFormed(todo'[u])
    BY <2>2 DEF WellFormed
  <2>5. loc'[u].chan \in 0..Len(chan')
    BY <2>3
  <2>6. Top(u)' \notin ChanSteps \union {"send", "target"}
    BY <2>2 DEF ChanSteps
  <2> QED BY <2>1, <2>2, <2>4, <2>5, <2>6 DEF TaskSound
<1>5. CASE t # <<>>
  <2>1. Top(u)' = Head(t) /\ loc'[u] = l
    BY <1>2, <1>3, <1>5 DEF Top
  <2>2. /\ Head(t) \notin {"send", "target"}
        /\ Head(t) \in ChanSteps => s \in ChanSteps
        /\ WellFormed(t)
    BY <1>1, <1>5 DEF TailSound
  <2>3. conn[u] = "up" /\ l.chan \in 0..Len(chan')
        /\ (Head(t) \in ChanSteps => l.chan # 0)
    BY <1>1, <2>2 DEF TaskSound, Typed, ChannelsTyped
  <2>4. "nextchan" \in Range(t) => l.skip
    BY <1>1 DEF TaskSound
  <2> QED BY <1>2, <2>1, <2>2, <2>3, <2>4 DEF TaskSound
<1> QED BY <1>4, <1>5

(* It goes on with new steps, which need what l gives them. *)
LEMMA PushTask ==
    ASSUME Typed, NEW u \in User, NEW s, At(u, s), TaskSound(u),
           NEW more \in Seq(Steps), more # <<>>, NEW l \in Local, Then(u, more, l),
           WellFormed(more \o Tail(todo[u])),
           l.chan \in 0..Len(chan'), Head(more) \in ChanSteps => l.chan # 0,
           "nextchan" \in Range(more) \/ loc[u].skip => l.skip,
           Head(more) = "send" => l.left # <<>> /\ (l.skip => Head(l.left) # u),
           Head(more) # "target", conn' = conn
    PROVE  TaskSound(u)'
<1> DEFINE t == Tail(todo[u])
<1>0. ThreadsTyped /\ WellFormed(todo[u])
  BY DEF Typed, TaskSound
<1>1. todo[u] # <<>> /\ Pending(u) = {s} \union Range(t)
  BY <1>0, AtFacts
<1>2. /\ todo'[u] = more \o t /\ todo'[u] # <<>> /\ Top(u)' = Head(more)
      /\ loc'[u] = l /\ Pending(u)' = Range(more) \union Range(t)
  BY <1>0, PushFacts
<1>3. WellFormed(todo'[u])
  BY <1>2
<1> HIDE DEF t
<1>4. conn[u] = "up"
  BY <1>1 DEF TaskSound
<1>5. "nextchan" \in Pending(u)' => l.skip
  BY <1>1, <1>2 DEF TaskSound
<1> QED BY <1>2, <1>3, <1>4, <1>5 DEF TaskSound

(* Nobody is left with more than it had. *)
LocksKept(w) ==
    /\ lock' = w => lock = w
    /\ \A v \in User : cLock'[v] = w => cLock[v] = w
    /\ \A o \in 1..Len(chan') : chanLock'[o] = w =>
           o \in 1..Len(chan) /\ chanLock[o] = w

(* The steps with no mutex held across them. *)
Plain == Steps \ ({"visit", "send", "meet", "hung", "segv", "unlist"} \union Holding)

LEMMA PlainLocks ==
    ASSUME NEW u \in User, NEW s \in Plain, Top(u) = s,
           Pending(u) \ {s} \subseteq Pending(u)', LocksSound(u), LocksKept(u)
    PROVE  LocksSound(u)'
<1>1. lock' # u
  BY DEF LocksSound, LocksKept, Plain
<1>2. ASSUME NEW o \in 1..Len(chan'), chanLock'[o] = u PROVE FALSE
  <2>1. o \in 1..Len(chan) /\ chanLock[o] = u
    BY <1>2 DEF LocksKept
  <2> QED BY <2>1 DEF LocksSound, Plain
<1>3. ASSUME NEW v \in User, cLock'[v] = u
      PROVE  v = u /\ Holding \intersect Pending(u)' # {}
  <2>1. cLock[v] = u
    BY <1>3 DEF LocksKept
  <2>2. v = u /\ Holding \intersect Pending(u) # {}
    BY <2>1 DEF LocksSound, Plain
  <2> QED BY <2>2 DEF Plain
<1> QED BY <1>1, <1>2, <1>3 DEF LocksSound

(* The other threads do not notice. *)
LEMMA OtherThread ==
    ASSUME NEW w \in User, ThreadInv(w), todo'[w] = todo[w], loc'[w] = loc[w],
           conn'[w] = conn[w], Len(chan) \in Nat, Len(chan') \in Nat, Len(chan) <= Len(chan'),
           LocksKept(w)
    PROVE  ThreadInv(w)'
<1>1. Top(w)' = Top(w) /\ Pending(w)' = Pending(w)
  BY DEF Top, Pending
<1>2. WellFormed(todo'[w]) = WellFormed(todo[w])
  OBVIOUS
<1>3. TaskSound(w)'
  BY <1>1, <1>2 DEF ThreadInv, TaskSound
<1>4. LocksSound(w)'
  <2>1. lock' = w => Top(w)' \in {"visit", "send", "meet", "hung"}
    BY <1>1 DEF ThreadInv, LocksSound, LocksKept
  <2>2. ASSUME NEW v \in User, cLock'[v] = w
        PROVE  \/ Top(w)' \in {"hung", "segv"}
               \/ v = w /\ Holding \intersect Pending(w)' # {}
    BY <1>1, <2>2 DEF ThreadInv, LocksSound, LocksKept
  <2>3. ASSUME NEW o \in 1..Len(chan'), chanLock'[o] = w
        PROVE  Top(w)' = "unlist" /\ loc'[w].chan = o
    BY <1>1, <2>3 DEF ThreadInv, LocksSound, LocksKept
  <2> QED BY <2>1, <2>2, <2>3 DEF LocksSound
<1> QED BY <1>3, <1>4 DEF ThreadInv

(* A step of u that leaves it with what it needs keeps the invariant. *)
LEMMA StepKeeps ==
    ASSUME ServerInv, NEW u \in User, Typed', ThreadInv(u)',
           conn[u] = "up", conn' = conn, userlist' = userlist,
           Len(chan) <= Len(chan'),
           \A w \in User : w # u =>
               /\ todo'[w] = todo[w] /\ loc'[w] = loc[w]
               /\ nick'[w] = nick[w] /\ named'[w] = named[w] /\ LocksKept(w)
    PROVE  ServerInv'
<1>1. ASSUME NEW w \in User PROVE ThreadInv(w)'
  <2>1. CASE w = u
    BY <2>1
  <2>2. CASE w # u
    <3>1. Len(chan) \in Nat /\ Len(chan') \in Nat
      BY LenProperties DEF ServerInv, Typed, ChannelsTyped
    <3>2. ThreadInv(w)
      BY DEF ServerInv
    <3> QED BY <2>2, <3>1, <3>2, OtherThread
  <2> QED BY <2>1, <2>2
<1>2. UserlistInv'
  <2>1. \A w \in User : w # u => todo'[w] = todo[w] /\ nick'[w] = nick[w]
                                  /\ named'[w] = named[w]
    OBVIOUS
  <2> QED BY <2>1 DEF ServerInv, UserlistInv
<1> QED BY <1>1, <1>2 DEF ServerInv

---------------------------------------------------------------------------
(* Updates of the local variables. *)
LEMMA LocalLeft ==
    ASSUME NEW l \in Local, NEW x \in Seq(User), NEW k, k = [l EXCEPT !.left = x]
    PROVE  /\ k \in Local /\ k.left = x
           /\ k.chan = l.chan /\ k.nick = l.nick /\ k.skip = l.skip
           /\ k.name = l.name /\ k.chans = l.chans /\ k.to = l.to /\ k.kind = l.kind
<1>1. k \in Local
  BY Zenon DEF Local
<1> QED BY <1>1 DEF Local

LEMMA LocalChans ==
    ASSUME NEW l \in Local, NEW x \in Seq(Name), NEW k, k = [l EXCEPT !.chans = x]
    PROVE  /\ k \in Local /\ k.chans = x
           /\ k.chan = l.chan /\ k.nick = l.nick /\ k.skip = l.skip
           /\ k.name = l.name /\ k.left = l.left /\ k.to = l.to /\ k.kind = l.kind
<1>1. k \in Local
  BY Zenon DEF Local
<1> QED BY <1>1 DEF Local

LEMMA LocalChansSkip ==
    ASSUME NEW l \in Local, NEW x \in Seq(Name),
           NEW k, k = [l EXCEPT !.chans = x, !.skip = TRUE]
    PROVE  /\ k \in Local /\ k.chans = x /\ k.skip
           /\ k.chan = l.chan /\ k.nick = l.nick
           /\ k.name = l.name /\ k.left = l.left /\ k.to = l.to /\ k.kind = l.kind
<1>1. k \in Local
  BY Zenon DEF Local
<1> QED BY <1>1 DEF Local

LEMMA LocalChan ==
    ASSUME NEW l \in Local, NEW o \in Nat, NEW k, k = [l EXCEPT !.chan = o]
    PROVE  /\ k \in Local /\ k.chan = o
           /\ k.nick = l.nick /\ k.skip = l.skip /\ k.name = l.name
           /\ k.left = l.left /\ k.chans = l.chans /\ k.to = l.to /\ k.kind = l.kind
<1>1. k \in Local
  BY Zenon DEF Local
<1> QED BY <1>1 DEF Local

LEMMA LocalNextChan ==
    ASSUME NEW l \in Local, NEW o \in Nat, NEW x \in Seq(Name),
           NEW k, k = [l EXCEPT !.chan = o, !.chans = x]
    PROVE  /\ k \in Local /\ k.chan = o /\ k.chans = x
           /\ k.nick = l.nick /\ k.skip = l.skip /\ k.name = l.name
           /\ k.left = l.left /\ k.to = l.to /\ k.kind = l.kind
<1>1. k \in Local
  BY Zenon DEF Local
<1> QED BY <1>1 DEF Local

LEMMA LocalKind ==
    ASSUME NEW l \in Local, NEW c \in Commands, NEW k, k = [l EXCEPT !.kind = c]
    PROVE  /\ k \in Local /\ k.kind = c
           /\ k.chan = l.chan /\ k.nick = l.nick /\ k.skip = l.skip
           /\ k.name = l.name /\ k.left = l.left /\ k.chans = l.chans /\ k.to = l.to
<1>1. k \in Local
  BY Zenon DEF Local
<1> QED BY <1>1 DEF Local

---------------------------------------------------------------------------
(* What a step of u leaves as it was, or typed. *)
Surroundings(u) ==
    /\ PeopleTyped' /\ MembersTyped' /\ ChannelsTyped' /\ LocksTyped'
    /\ gone' = gone /\ conn' = conn /\ userlist' = userlist
    /\ \A w \in User : w # u => nick'[w] = nick[w] /\ named'[w] = named[w]
    /\ Len(chan) <= Len(chan')
    /\ \A w \in User : w # u => LocksKept(w)

Same == UNCHANGED <<people, members, channels, locks, gone>>

LEMMA SameSurroundings ==
    ASSUME ServerInv, Same, NEW u \in User
    PROVE  Surroundings(u) /\ LocksKept(u) /\ chan' = chan
<1>1. PeopleTyped' /\ MembersTyped' /\ ChannelsTyped' /\ LocksTyped'
  BY DEF ServerInv, Typed, PeopleTyped, MembersTyped, ChannelsTyped, LocksTyped,
         Same, people, members, channels, locks
<1>2. \A w \in User : LocksKept(w)
  BY DEF LocksKept, Same, locks, channels
<1>3. Len(chan) \in Nat /\ chan' = chan
  BY LenProperties DEF ServerInv, Typed, ChannelsTyped, Same, channels
<1>4. /\ conn' = conn /\ userlist' = userlist /\ gone' = gone
      /\ nick' = nick /\ named' = named
  BY DEF Same, people
<1>5. Len(chan) <= Len(chan')
  BY <1>3
<1> QED BY <1>1, <1>2, <1>3, <1>4, <1>5 DEF Surroundings

LEMMA StepInv ==
    ASSUME ServerInv, NEW u \in User, Surroundings(u),
           NEW steps \in Seq(Steps), NEW l \in Local, Goto(u, steps, l),
           conn[u] = "up", TaskSound(u)', LocksSound(u)'
    PROVE  ServerInv'
<1>0. ThreadsTyped
  BY DEF ServerInv, Typed
<1>1. /\ todo' \in [User -> Seq(Steps)] /\ loc' \in [User -> Local]
      /\ \A v \in User : v # u => todo'[v] = todo[v] /\ loc'[v] = loc[v]
  BY <1>0, GotoFacts
<1>2. Typed'
  BY <1>0, <1>1 DEF Typed, ThreadsTyped, Surroundings
<1>3. ThreadInv(u)'
  BY DEF ThreadInv
<1>4. /\ conn' = conn /\ userlist' = userlist /\ Len(chan) <= Len(chan')
      /\ \A w \in User : w # u => /\ nick'[w] = nick[w] /\ named'[w] = named[w]
                                  /\ LocksKept(w)
  BY DEF Surroundings
<1> QED BY <1>0, <1>1, <1>2, <1>3, <1>4, StepKeeps

LEMMA PlainPop ==
    ASSUME ServerInv, NEW u \in User, NEW s \in Plain, At(u, s), Surroundings(u),
           LocksKept(u), NEW l \in Local, Then(u, <<>>, l),
           l.chan = loc[u].chan, l.skip = loc[u].skip
    PROVE  ServerInv'
<1>0. /\ Typed /\ ThreadsTyped /\ TaskSound(u) /\ LocksSound(u) /\ WellFormed(todo[u])
      /\ Len(chan) \in Nat
  BY LenProperties DEF ServerInv, Typed, ChannelsTyped, ThreadInv, TaskSound
<1>1. /\ todo[u] # <<>> /\ Top(u) = s
      /\ Pending(u) = {s} \union Range(Tail(todo[u]))
  BY <1>0, AtFacts
<1>2. /\ Goto(u, Tail(todo[u]), l) /\ Tail(todo[u]) \in Seq(Steps)
      /\ Pending(u)' = Range(Tail(todo[u]))
  BY <1>0, PopFacts
<1>3. TaskSound(u)'
  <2>1. /\ conn' = conn
        /\ Len(chan') \in Nat /\ Len(chan) <= Len(chan')
    BY LenProperties DEF Surroundings, ChannelsTyped
  <2> QED BY <1>0, <2>1, PopTask
<1>4. LocksSound(u)'
  BY <1>0, <1>1, <1>2, PlainLocks
<1>5. conn[u] = "up"
  BY <1>0, <1>1 DEF TaskSound
<1> QED BY <1>1, <1>2, <1>3, <1>4, <1>5, StepInv

LEMMA PlainPush ==
    ASSUME ServerInv, NEW u \in User, NEW s \in Plain, At(u, s), Surroundings(u),
           LocksKept(u),
           NEW more \in Seq(Steps), more # <<>>, NEW l \in Local, Then(u, more, l),
           WellFormed(more \o Tail(todo[u])),
           l.chan \in 0..Len(chan'), Head(more) \in ChanSteps => l.chan # 0,
           "nextchan" \in Range(more) \/ loc[u].skip => l.skip,
           Head(more) \notin {"send", "target"}
    PROVE  ServerInv'
<1>0. /\ Typed /\ ThreadsTyped /\ TaskSound(u) /\ LocksSound(u) /\ WellFormed(todo[u])
  BY DEF ServerInv, Typed, ThreadInv, TaskSound
<1>1. /\ todo[u] # <<>> /\ Top(u) = s
      /\ Pending(u) = {s} \union Range(Tail(todo[u]))
      /\ Tail(todo[u]) \in Seq(Steps)
  BY <1>0, AtFacts
<1>2. /\ Goto(u, more \o Tail(todo[u]), l) /\ more \o Tail(todo[u]) \in Seq(Steps)
      /\ Pending(u)' = Range(more) \union Range(Tail(todo[u]))
  BY <1>0, PushFacts
<1>3. TaskSound(u)'
  <2>1. conn' = conn
    BY DEF Surroundings
  <2> QED BY <1>0, <2>1, PushTask
<1>4. LocksSound(u)'
  BY <1>0, <1>1, <1>2, PlainLocks
<1>5. conn[u] = "up"
  BY <1>0, <1>1 DEF TaskSound
<1> QED BY <1>1, <1>2, <1>3, <1>4, <1>5, StepInv

---------------------------------------------------------------------------
(* Lists of steps. *)
LEMMA OneMore ==
    ASSUME NEW s \in Steps, NEW t \in Seq(Steps), t \in After[s]
    PROVE  /\ <<s>> \o t \in Seq(Steps) /\ <<s>> \o t # <<>>
           /\ Head(<<s>> \o t) = s /\ WellFormed(<<s>> \o t)
<1> DEFINE r == <<s>> \o t
<1>1. r \in Seq(Steps) /\ Len(r) = 1 + Len(t) /\ Len(t) \in Nat
  <2>1. <<s>> \in Seq(Steps) /\ Len(<<s>>) = 1
    BY ShortSequences
  <2> QED BY <2>1, ConcatProperties, LenProperties
<1>2. Head(r) = s /\ Tail(r) = t
  OBVIOUS
<1> HIDE DEF r
<1>3. r # <<>>
  BY <1>1
<1> QED BY <1>1, <1>2, <1>3 DEF r, WellFormed

LEMMA TwoMore ==
    ASSUME NEW s1 \in Steps, NEW s2 \in Steps, NEW t \in Seq(Steps),
           <<s2>> \o t \in After[s1]
    PROVE  /\ <<s1, s2>> \o t \in Seq(Steps) /\ <<s1, s2>> \o t # <<>>
           /\ Head(<<s1, s2>> \o t) = s1 /\ WellFormed(<<s1, s2>> \o t)
<1>1. <<s1>> \in Seq(Steps) /\ <<s2>> \in Seq(Steps)
  BY ShortSequences
<1>2. <<s1, s2>> = <<s1>> \o <<s2>>
  <2> DEFINE r == <<s1>> \o <<s2>>
             p == <<s1, s2>>
  <2>1. p \in Seq(Steps) /\ Len(p) = 2 /\ p[1] = s1 /\ p[2] = s2
    BY ShortSequences
  <2>2. /\ Len(<<s1>>) = 1 /\ Len(<<s2>>) = 1
        /\ <<s1>>[1] = s1 /\ <<s2>>[1] = s2
    OBVIOUS
  <2>3. r \in Seq(Steps) /\ Len(r) = 2 /\ r[1] = s1 /\ r[2] = s2
    <3>1. r \in Seq(Steps) /\ Len(r) = 1 + 1
          /\ \A i \in 1..(1 + 1) : r[i] = IF i <= 1 THEN <<s1>>[i] ELSE <<s2>>[i - 1]
      BY <1>1, <2>2, ConcatProperties
    <3> QED BY <2>2, <3>1
  <2> HIDE DEF r, p
  <2>4. \A i \in 1..Len(p) : p[i] = r[i]
    BY <2>1, <2>3
  <2>5. p = r
    BY <2>1, <2>3, <2>4, SeqEqual
  <2> QED BY <2>5 DEF p, r
<1>3. <<s1, s2>> \o t = <<s1>> \o (<<s2>> \o t)
  BY <1>1, <1>2, ConcatAssociative
<1>4. <<s2>> \o t \in Seq(Steps)
  BY <1>1, ConcatProperties
<1> QED BY <1>3, <1>4, OneMore

LEMMA RangeOne == ASSUME NEW a PROVE Range(<<a>>) = {a}
BY DEF Range

LEMMA RangeTwo == ASSUME NEW a, NEW b PROVE Range(<<a, b>>) = {a, b}
BY DEF Range

LEMMA RangeThree == ASSUME NEW a, NEW b, NEW c PROVE Range(<<a, b, c>>) = {a, b, c}
BY DEF Range

LEMMA RangeFour ==
    ASSUME NEW a, NEW b, NEW c, NEW d PROVE Range(<<a, b, c, d>>) = {a, b, c, d}
BY DEF Range

(* The lookups in the two lists. *)
LEMMA SeekChanFacts ==
    ASSUME ChannelsTyped, NEW c
    PROVE  /\ SeekChan(c) \in 0..Len(chan)
           /\ SeekChan(c) = 0 /\ c # "" =>
                  \A i \in 1..Len(chanlist) : chan[chanlist[i]].name # c
           /\ SeekChan(c) # 0 => c # "" /\ \E i \in 1..Len(chanlist) :
                  SeekChan(c) = chanlist[i] /\ chan[chanlist[i]].name = c
<1> DEFINE P(i) == c # "" /\ chan[chanlist[i]].name = c
           hits == {i \in 1..Len(chanlist) : P(i)}
<1>1. Len(chan) \in Nat /\ Len(chanlist) \in Nat
      /\ \A i \in 1..Len(chanlist) : chanlist[i] \in 1..Len(chan)
  BY LenProperties, ElementOfSeq DEF ChannelsTyped
<1>2. SeekChan(c) = IF hits = {} THEN 0 ELSE chanlist[Min(hits)]
  BY DEF SeekChan
<1>3. hits # {} => Min(hits) \in hits
  <2> HIDE DEF P
  <2>1. hits \in SUBSET Nat
    BY <1>1
  <2> HIDE DEF hits
  <2> QED BY <2>1, MinOfNaturals
<1>4. ASSUME hits # {}
      PROVE  /\ SeekChan(c) \in 1..Len(chan) /\ c # ""
             /\ \E i \in 1..Len(chanlist) :
                    SeekChan(c) = chanlist[i] /\ chan[chanlist[i]].name = c
  BY <1>1, <1>2, <1>3, <1>4
<1>5. ASSUME hits = {}
      PROVE  /\ SeekChan(c) = 0
             /\ c # "" => \A i \in 1..Len(chanlist) : chan[chanlist[i]].name # c
  BY <1>2, <1>5
<1> HIDE DEF hits
<1>6. 1..Len(chan) \subseteq 0..Len(chan) /\ 0 \in 0..Len(chan) /\ 0 \notin 1..Len(chan)
  BY <1>1
<1>7. CASE hits # {}
  <2>1. SeekChan(c) # 0 /\ SeekChan(c) \in 0..Len(chan)
    BY <1>4, <1>6, <1>7
  <2> QED BY <1>4, <1>7, <2>1
<1>8. CASE hits = {}
  BY <1>5, <1>6, <1>8
<1> QED BY <1>7, <1>8

LEMMA SeekNickFacts ==
    ASSUME PeopleTyped, NEW n
    PROVE  /\ SeekNick(n) \in User \union {NoOne}
           /\ SeekNick(n) = NoOne /\ n # "" => \A u \in Range(userlist) : nick[u] # n
           /\ SeekNick(n) # NoOne => SeekNick(n) \in Range(userlist)
<1> DEFINE P(i) == n # "" /\ nick[userlist[i]] = n
           hits == {i \in 1..Len(userlist) : P(i)}
<1>1. Len(userlist) \in Nat /\ Range(userlist) = {userlist[i] : i \in 1..Len(userlist)}
      /\ \A i \in 1..Len(userlist) : userlist[i] \in User
  BY LenProperties, ElementOfSeq, RangeEquality DEF PeopleTyped
<1>2. SeekNick(n) = IF hits = {} THEN NoOne ELSE userlist[Min(hits)]
  BY DEF SeekNick
<1>3. hits # {} => Min(hits) \in hits
  <2> HIDE DEF P
  <2>1. hits \in SUBSET Nat
    BY <1>1
  <2> HIDE DEF hits
  <2> QED BY <2>1, MinOfNaturals
<1>4. hits # {} => SeekNick(n) \in User /\ SeekNick(n) \in Range(userlist)
  BY <1>1, <1>2, <1>3
<1>5. hits = {} => SeekNick(n) = NoOne
                   /\ (n # "" => \A u \in Range(userlist) : nick[u] # n)
  BY <1>1, <1>2
<1>6. NoOne \notin User
  BY ChircAssumption
<1> QED BY <1>4, <1>5, <1>6

---------------------------------------------------------------------------
(* Commands. *)

(* What a handler may start with. *)
Startable(steps) ==
    /\ steps \in Seq(Steps) /\ WellFormed(steps)
    /\ "nextchan" \notin Range(steps)
    /\ steps = <<>> \/ Head(steps) # "send"

LEMMA StartLists ==
    /\ Startable(<<>>)
    /\ Startable(<<"reply">>)
    /\ Startable(<<"setnick">>)
    /\ Startable(<<"reply", "chans", "setnick">>)
    /\ Startable(<<"setuser">>)
    /\ Startable(<<"create">>)
    /\ Startable(<<"enter">>)
    /\ Startable(<<"relay", "leave", "dec">>)
    /\ Startable(<<"chans", "bye", "exit">>)
    /\ Startable(<<"deliver">>)
    /\ Startable(<<"relay">>)
    /\ Startable(<<"segv">>)
    /\ Startable(<<"relay", "reply">>)
    /\ Startable(<<"sweep", "reply">>)
    /\ Startable(<<"list">>)
    /\ Startable(<<"reply", "whois", "reply">>)
    /\ Startable(<<"exit">>)
    /\ Startable(<<"bare">>)
    /\ Startable(<<"sweep", "reply", "bare">>)
    /\ Startable(<<"target", "relay">>)
<1>1. Startable(<<>>)
  <2>1. <<>> \in Seq(Steps)
    BY AfterDomain, ShortSequences
  <2>2. WellFormed(<<>>)
    BY AfterDomain, AfterValues DEF WellFormed
  <2>3. Range(<<>>) = {}
    BY RangeEmpty
  <2> QED BY <2>1, <2>2, <2>3 DEF Startable
<1>2. Startable(<<"reply">>)
  <2>1. <<"reply">> \in Seq(Steps)
    BY AfterDomain, ShortSequences
  <2>2. WellFormed(<<"reply">>)
    BY AfterDomain, AfterValues DEF WellFormed
  <2>3. Range(<<"reply">>) = {"reply"} /\ Head(<<"reply">>) = "reply"
    BY RangeOne
  <2> QED BY <2>1, <2>2, <2>3 DEF Startable
<1>3. Startable(<<"setnick">>)
  <2>1. <<"setnick">> \in Seq(Steps)
    BY AfterDomain, ShortSequences
  <2>2. WellFormed(<<"setnick">>)
    BY AfterDomain, AfterValues DEF WellFormed
  <2>3. Range(<<"setnick">>) = {"setnick"} /\ Head(<<"setnick">>) = "setnick"
    BY RangeOne
  <2> QED BY <2>1, <2>2, <2>3 DEF Startable
<1>4. Startable(<<"reply", "chans", "setnick">>)
  <2>1. <<"reply", "chans", "setnick">> \in Seq(Steps)
    BY AfterDomain, ShortSequences
  <2>2. WellFormed(<<"reply", "chans", "setnick">>)
    BY AfterDomain, AfterValues DEF WellFormed, AllChansTails
  <2>3. /\ Range(<<"reply", "chans", "setnick">>) = {"reply", "chans", "setnick"}
        /\ Head(<<"reply", "chans", "setnick">>) = "reply"
    BY RangeThree
  <2> QED BY <2>1, <2>2, <2>3 DEF Startable
<1>5. Startable(<<"setuser">>)
  <2>1. <<"setuser">> \in Seq(Steps)
    BY AfterDomain, ShortSequences
  <2>2. WellFormed(<<"setuser">>)
    BY AfterDomain, AfterValues DEF WellFormed
  <2>3. Range(<<"setuser">>) = {"setuser"} /\ Head(<<"setuser">>) = "setuser"
    BY RangeOne
  <2> QED BY <2>1, <2>2, <2>3 DEF Startable
<1>6. Startable(<<"create">>)
  <2>1. <<"create">> \in Seq(Steps)
    BY AfterDomain, ShortSequences
  <2>2. WellFormed(<<"create">>)
    BY AfterDomain, AfterValues DEF WellFormed
  <2>3. Range(<<"create">>) = {"create"} /\ Head(<<"create">>) = "create"
    BY RangeOne
  <2> QED BY <2>1, <2>2, <2>3 DEF Startable
<1>7. Startable(<<"enter">>)
  <2>1. <<"enter">> \in Seq(Steps)
    BY AfterDomain, ShortSequences
  <2>2. WellFormed(<<"enter">>)
    BY AfterDomain, AfterValues DEF WellFormed
  <2>3. Range(<<"enter">>) = {"enter"} /\ Head(<<"enter">>) = "enter"
    BY RangeOne
  <2> QED BY <2>1, <2>2, <2>3 DEF Startable
<1>8. Startable(<<"relay", "leave", "dec">>)
  <2>1. <<"relay", "leave", "dec">> \in Seq(Steps)
    BY AfterDomain, ShortSequences
  <2>2. WellFormed(<<"relay", "leave", "dec">>)
    BY AfterDomain, AfterValues DEF WellFormed, RelayTails
  <2>3. /\ Range(<<"relay", "leave", "dec">>) = {"relay", "leave", "dec"}
        /\ Head(<<"relay", "leave", "dec">>) = "relay"
    BY RangeThree
  <2> QED BY <2>1, <2>2, <2>3 DEF Startable
<1>9. Startable(<<"chans", "bye", "exit">>)
  <2>1. <<"chans", "bye", "exit">> \in Seq(Steps)
    BY AfterDomain, ShortSequences
  <2>2. WellFormed(<<"chans", "bye", "exit">>)
    BY AfterDomain, AfterValues DEF WellFormed, AllChansTails
  <2>3. /\ Range(<<"chans", "bye", "exit">>) = {"chans", "bye", "exit"}
        /\ Head(<<"chans", "bye", "exit">>) = "chans"
    BY RangeThree
  <2> QED BY <2>1, <2>2, <2>3 DEF Startable
<1>10. Startable(<<"deliver">>)
  <2>1. <<"deliver">> \in Seq(Steps)
    BY AfterDomain, ShortSequences
  <2>2. WellFormed(<<"deliver">>)
    BY AfterDomain, AfterValues DEF WellFormed
  <2>3. Range(<<"deliver">>) = {"deliver"} /\ Head(<<"deliver">>) = "deliver"
    BY RangeOne
  <2> QED BY <2>1, <2>2, <2>3 DEF Startable
<1>11. Startable(<<"relay">>)
  <2>1. <<"relay">> \in Seq(Steps)
    BY AfterDomain, ShortSequences
  <2>2. WellFormed(<<"relay">>)
    BY AfterDomain, AfterValues DEF WellFormed, RelayTails
  <2>3. Range(<<"relay">>) = {"relay"} /\ Head(<<"relay">>) = "relay"
    BY RangeOne
  <2> QED BY <2>1, <2>2, <2>3 DEF Startable
<1>12. Startable(<<"segv">>)
  <2>1. <<"segv">> \in Seq(Steps)
    BY AfterDomain, ShortSequences
  <2>2. WellFormed(<<"segv">>)
    BY AfterDomain, AfterValues DEF WellFormed
  <2>3. Range(<<"segv">>) = {"segv"} /\ Head(<<"segv">>) = "segv"
    BY RangeOne
  <2> QED BY <2>1, <2>2, <2>3 DEF Startable
<1>13. Startable(<<"relay", "reply">>)
  <2>1. <<"relay", "reply">> \in Seq(Steps)
    BY AfterDomain, ShortSequences
  <2>2. WellFormed(<<"relay", "reply">>)
    BY AfterDomain, AfterValues DEF WellFormed, RelayTails
  <2>3. /\ Range(<<"relay", "reply">>) = {"relay", "reply"}
        /\ Head(<<"relay", "reply">>) = "relay"
    BY RangeTwo
  <2> QED BY <2>1, <2>2, <2>3 DEF Startable
<1>14. Startable(<<"sweep", "reply">>)
  <2>1. <<"sweep", "reply">> \in Seq(Steps)
    BY AfterDomain, ShortSequences
  <2>2. WellFormed(<<"sweep", "reply">>)
    BY AfterDomain, AfterValues DEF WellFormed, WalkTails
  <2>3. /\ Range(<<"sweep", "reply">>) = {"sweep", "reply"}
        /\ Head(<<"sweep", "reply">>) = "sweep"
    BY RangeTwo
  <2> QED BY <2>1, <2>2, <2>3 DEF Startable
<1>15. Startable(<<"list">>)
  <2>1. <<"list">> \in Seq(Steps)
    BY AfterDomain, ShortSequences
  <2>2. WellFormed(<<"list">>)
    BY AfterDomain, AfterValues DEF WellFormed
  <2>3. Range(<<"list">>) = {"list"} /\ Head(<<"list">>) = "list"
    BY RangeOne
  <2> QED BY <2>1, <2>2, <2>3 DEF Startable
<1>16. Startable(<<"reply", "whois", "reply">>)
  <2>1. <<"reply", "whois", "reply">> \in Seq(Steps)
    BY AfterDomain, ShortSequences
  <2>2. WellFormed(<<"reply", "whois", "reply">>)
    BY AfterDomain, AfterValues DEF WellFormed
  <2>3. /\ Range(<<"reply", "whois", "reply">>) = {"reply", "whois"}
        /\ Head(<<"reply", "whois", "reply">>) = "reply"
    BY RangeThree
  <2> QED BY <2>1, <2>2, <2>3 DEF Startable
<1>17. Startable(<<"exit">>)
  <2>1. <<"exit">> \in Seq(Steps)
    BY AfterDomain, ShortSequences
  <2>2. WellFormed(<<"exit">>)
    BY AfterDomain, AfterValues DEF WellFormed
  <2>3. Range(<<"exit">>) = {"exit"} /\ Head(<<"exit">>) = "exit"
    BY RangeOne
  <2> QED BY <2>1, <2>2, <2>3 DEF Startable
<1>18. Startable(<<"bare">>)
  <2>1. <<"bare">> \in Seq(Steps)
    BY AfterDomain, ShortSequences
  <2>2. WellFormed(<<"bare">>)
    BY AfterDomain, AfterValues DEF WellFormed
  <2>3. Range(<<"bare">>) = {"bare"} /\ Head(<<"bare">>) = "bare"
    BY RangeOne
  <2> QED BY <2>1, <2>2, <2>3 DEF Startable
<1>19. Startable(<<"sweep", "reply", "bare">>)
  <2>1. <<"sweep", "reply", "bare">> \in Seq(Steps)
    BY AfterDomain, ShortSequences
  <2>2. WellFormed(<<"sweep", "reply", "bare">>)
    BY AfterDomain, AfterValues DEF WellFormed, WalkTails
  <2>3. /\ Range(<<"sweep", "reply", "bare">>) = {"sweep", "reply", "bare"}
        /\ Head(<<"sweep", "reply", "bare">>) = "sweep"
    BY RangeThree
  <2> QED BY <2>1, <2>2, <2>3 DEF Startable
<1>20. Startable(<<"target", "relay">>)
  <2>1. <<"target", "relay">> \in Seq(Steps)
    BY AfterDomain, ShortSequences
  <2>2. WellFormed(<<"target", "relay">>)
    BY AfterDomain, AfterValues DEF WellFormed
  <2>3. /\ Range(<<"target", "relay">>) = {"target", "relay"}
        /\ Head(<<"target", "relay">>) = "target"
    BY RangeTwo
  <2> QED BY <2>1, <2>2, <2>3 DEF Startable
<1> QED BY <1>1, <1>2, <1>3, <1>4, <1>5, <1>6, <1>7, <1>8, <1>9, <1>10, <1>11,
            <1>12, <1>13, <1>14, <1>15, <1>16, <1>17, <1>18, <1>19, <1>20, Zenon

(* A thread between commands starts with steps. *)
LEMMA IdleKeeps ==
    ASSUME ServerInv, NEW u \in User, Idle(u), Same,
           NEW steps, Startable(steps), NEW l \in Local, Goto(u, steps, l),
           l.chan \in 0..Len(chan),
           steps # <<>> =>
               /\ Head(steps) \in ChanSteps => l.chan # 0
               /\ Head(steps) = "target" => l.to \in User
    PROVE  ServerInv'
<1>0. /\ ThreadsTyped /\ LocksSound(u) /\ conn[u] = "up" /\ todo[u] = <<>>
      /\ Len(chan) \in Nat /\ steps \in Seq(Steps)
  BY LenProperties
     DEF ServerInv, Typed, ChannelsTyped, ThreadInv, TaskSound, Idle, Startable
<1>1. /\ todo'[u] = steps /\ loc'[u] = IF steps = <<>> THEN Blank ELSE l
  BY <1>0, GotoFacts
<1>2. Surroundings(u) /\ LocksKept(u) /\ chan' = chan
  BY SameSurroundings
<1>3. Pending(u)' = Range(steps) /\ Top(u)' = IF steps = <<>> THEN "" ELSE Head(steps)
  BY <1>1 DEF Pending, Top
<1>4. conn'[u] = "up"
  BY <1>0 DEF Same, people
<1>5. TaskSound(u)'
  <2>1. WellFormed(todo'[u])
    BY <1>1 DEF Startable
  <2>2. CASE steps = <<>>
    <3>1. Pending(u)' = {} /\ Top(u)' = "" /\ loc'[u].chan = 0
      BY <1>1, <1>3, <2>2, RangeEmpty, BlankFacts
    <3>2. loc'[u].chan \in 0..Len(chan')
      <4>1. Len(chan') \in Nat
        BY <1>0, <1>2
      <4>2. 0 \in 0..Len(chan')
        BY <4>1
      <4> QED BY <3>1, <4>2, Zenon
    <3> QED BY <1>4, <2>1, <3>1, <3>2 DEF TaskSound, ChanSteps
  <2>3. CASE steps # <<>>
    <3>1. loc'[u] = l /\ Top(u)' = Head(steps) /\ l.chan \in 0..Len(chan')
      BY <1>1, <1>2, <1>3, <2>3
    <3>2. /\ Top(u)' \in ChanSteps => loc'[u].chan # 0
          /\ Top(u)' = "target" => loc'[u].to \in User
          /\ Top(u)' # "send"
      BY <1>4, <2>3, <3>1 DEF Startable
    <3>3. "nextchan" \notin Pending(u)'
      BY <1>3, <3>1 DEF Startable
    <3> QED BY <1>4, <2>1, <3>1, <3>2, <3>3 DEF TaskSound
  <2> QED BY <2>2, <2>3
<1>6. LocksSound(u)'
  <2>1. Top(u) = "" /\ Pending(u) = {}
    BY <1>0, RangeEmpty DEF Top, Pending
  <2>2. /\ lock # u /\ \A v \in User : cLock[v] # u
        /\ \A o \in 1..Len(chan) : chanLock[o] # u
    BY <1>0, <2>1 DEF LocksSound
  <2> QED BY <1>2, <2>2 DEF LocksSound, LocksKept
<1> QED BY <1>0, <1>2, <1>5, <1>6, StepInv

LEMMA CommandKeeps ==
    ASSUME ServerInv, NEW u \in User, NEW cmd, NEW steps, NEW l \in Local,
           Command(u, cmd, steps, l), Startable(steps),
           l.chan \in 0..Len(chan),
           steps # <<>> =>
               /\ Head(steps) \in ChanSteps => l.chan # 0
               /\ Head(steps) = "target" => l.to \in User
    PROVE  ServerInv'
<1> DEFINE k == [l EXCEPT !.kind = cmd]
<1>1. cmd \in Commands /\ Idle(u) /\ Goto(u, steps, k)
  BY DEF Command
<1>2. Same
  BY DEF Command, Same
<1>3. k \in Local /\ k.chan = l.chan /\ k.to = l.to
  BY <1>1, LocalKind
<1> HIDE DEF k
<1> QED BY <1>1, <1>2, <1>3, IdleKeeps

(* The local variables the handlers start with. *)
LEMMA LocalStart ==
    ASSUME NEW o \in Nat, NEW c \in Name, NEW n \in Nick \union {""},
           NEW g \in BOOLEAN, NEW v \in User \union {NoOne}
    PROVE  LET starts ==
                   {[Blank EXCEPT !.nick = n], [Blank EXCEPT !.user = g],
                    [Blank EXCEPT !.name = c], [Blank EXCEPT !.chan = o],
                    [Blank EXCEPT !.chan = o, !.name = c], [Blank EXCEPT !.to = v],
                    [Blank EXCEPT !.to = v, !.chan = o, !.skip = TRUE],
                    [Blank EXCEPT !.chan = o, !.name = c, !.to = v]}
           IN  starts \subseteq Local
<1> DEFINE b == Blank
<1>1. b \in Local
  BY BlankFacts
<1>2. b = Blank
  BY DEF b
<1> HIDE DEF b
<1>3. /\ [b EXCEPT !.nick = n] \in Local /\ [b EXCEPT !.user = g] \in Local
      /\ [b EXCEPT !.name = c] \in Local /\ [b EXCEPT !.chan = o] \in Local
      /\ [b EXCEPT !.to = v] \in Local
  BY <1>1, Zenon DEF Local
<1>4. [b EXCEPT !.chan = o, !.name = c] \in Local
  BY <1>1, Zenon DEF Local
<1>5. [b EXCEPT !.to = v, !.chan = o, !.skip = TRUE] \in Local
  BY <1>1, Zenon DEF Local
<1>6. [b EXCEPT !.chan = o, !.name = c, !.to = v] \in Local
  BY <1>1, Zenon DEF Local
<1> QED BY <1>2, <1>3, <1>4, <1>5, <1>6, Zenon

LEMMA SeekTypes ==
    ASSUME ServerInv, NEW t
    PROVE  /\ SeekChan(t) \in 0..Len(chan) /\ SeekChan(t) \in Nat
           /\ SeekNick(t) \in User \union {NoOne}
<1>1. ChannelsTyped /\ PeopleTyped
  BY DEF ServerInv, Typed
<1>2. Len(chan) \in Nat
  BY <1>1, LenProperties DEF ChannelsTyped
<1>3. SeekChan(t) \in 0..Len(chan) /\ SeekNick(t) \in User \union {NoOne}
  BY <1>1, SeekChanFacts, SeekNickFacts, Zenon
<1> QED BY <1>2, <1>3

LEMMA ChanCount == ServerInv => Len(chan) \in Nat /\ 0 \in 0..Len(chan)
<1> SUFFICES ASSUME ServerInv PROVE Len(chan) \in Nat /\ 0 \in 0..Len(chan)
  OBVIOUS
<1>1. Len(chan) \in Nat
  BY LenProperties DEF ServerInv, Typed, ChannelsTyped
<1> QED BY <1>1

(* The commands that start without looking anything up. *)
LEMMA SimpleCommand ==
    ASSUME ServerInv, NEW u \in User, NEW cmd, NEW steps, NEW l \in Local,
           l.chan \in 0..Len(chan),
           steps \in {<<>>, <<"reply">>, <<"chans", "bye", "exit">>, <<"setnick">>,
                      <<"reply", "chans", "setnick">>, <<"setuser">>, <<"create">>,
                      <<"sweep", "reply">>, <<"list">>, <<"segv">>, <<"deliver">>,
                      <<"bare">>, <<"sweep", "reply", "bare">>,
                      <<"reply", "whois", "reply">>},
           Command(u, cmd, steps, l)
    PROVE  ServerInv'
<1>1. Startable(steps)
  BY StartLists, Zenon
<1>2. steps # <<>> => Head(steps) \notin ChanSteps \union {"target"}
  BY DEF ChanSteps
<1> QED BY <1>1, <1>2, CommandKeeps

(* A command on a channel that is there. *)
LEMMA ChannelCommand ==
    ASSUME ServerInv, NEW u \in User, NEW cmd, NEW steps, NEW l \in Local,
           l.chan \in 0..Len(chan), l.chan # 0,
           \/ steps \in {<<"relay">>, <<"relay", "reply">>, <<"relay", "leave", "dec">>,
                         <<"enter">>}
           \/ steps = <<"target", "relay">> /\ l.to \in User,
           Command(u, cmd, steps, l)
    PROVE  ServerInv'
<1>1. Startable(steps)
  BY StartLists, Zenon
<1>2. steps # <<>> => (Head(steps) = "target" => l.to \in User)
  OBVIOUS
<1> QED BY <1>1, <1>2, CommandKeeps

(* Every message keeps the invariant. *)
LEMMA PersonCommands ==
    ASSUME ServerInv, NEW u \in User,
           \/ \E n \in Nick \union {""} : NICK(u, n) \/ WHOIS(u, n)
           \/ \E given \in BOOLEAN : USER(u, given)
           \/ QUIT(u) \/ LUSERS(u) \/ WHO(u) \/ LIST(u) \/ NAMES(u)
           \/ PING(u) \/ MOTD(u) \/ AWAY(u) \/ OPER(u) \/ UNKNOWN(u) \/ UserMode(u)
    PROVE  ServerInv'
<1>0. Len(chan) \in Nat /\ 0 \in 0..Len(chan)
  BY ChanCount, Zenon
<1>b. Blank \in Local /\ Blank.chan \in 0..Len(chan)
  BY <1>0, BlankFacts
<1>1. ASSUME NEW n \in Nick \union {""}, NICK(u, n) PROVE ServerInv'
  <2> DEFINE l == [Blank EXCEPT !.nick = n]
             steps == IF SeekNick(n) # NoOne THEN <<"reply">>
                      ELSE IF nick[u] = "" THEN <<"setnick">>
                      ELSE <<"reply", "chans", "setnick">>
  <2>1. Command(u, "NICK", steps, l)
    BY <1>1 DEF NICK
  <2>2. l.chan = 0
    BY DEF Blank
  <2>3. l \in Local
    <3>1. PICK c \in Name : TRUE
      BY DEF Name
    <3> QED BY <3>1, LocalStart, Zenon
  <2>4. steps \in {<<"reply">>, <<"setnick">>, <<"reply", "chans", "setnick">>}
    OBVIOUS
  <2> HIDE DEF l, steps
  <2> QED BY <1>0, <2>1, <2>2, <2>3, <2>4, SimpleCommand
<1>2. ASSUME NEW n, WHOIS(u, n) PROVE ServerInv'
  <2> DEFINE l == [Blank EXCEPT !.to = SeekNick(n)]
             steps == IF Registered(u) /\ SeekNick(n) # NoOne
                      THEN <<"reply", "whois", "reply">> ELSE <<"reply">>
  <2>1. Command(u, "WHOIS", steps, l)
    BY <1>2 DEF WHOIS
  <2>2. l.chan = 0
    BY DEF Blank
  <2>3. l \in Local
    <3>1. SeekNick(n) \in User \union {NoOne}
      BY SeekTypes
    <3>2. PICK c \in Name : TRUE
      BY DEF Name
    <3> QED BY <3>1, <3>2, LocalStart, Zenon
  <2>4. steps \in {<<"reply">>, <<"reply", "whois", "reply">>}
    OBVIOUS
  <2> HIDE DEF l, steps
  <2> QED BY <1>0, <2>1, <2>2, <2>3, <2>4, SimpleCommand
<1>3. ASSUME NEW given \in BOOLEAN, USER(u, given) PROVE ServerInv'
  <2> DEFINE l == [Blank EXCEPT !.user = given]
             steps == IF Registered(u) THEN <<"reply">> ELSE <<"setuser">>
  <2>1. Command(u, "USER", steps, l)
    BY <1>3 DEF USER
  <2>2. l.chan = 0
    BY DEF Blank
  <2>3. l \in Local
    <3>1. PICK c \in Name : TRUE
      BY DEF Name
    <3> QED BY <3>1, LocalStart, Zenon
  <2>4. steps \in {<<"reply">>, <<"setuser">>}
    OBVIOUS
  <2> HIDE DEF l, steps
  <2> QED BY <1>0, <2>1, <2>2, <2>3, <2>4, SimpleCommand
<1>4. CASE QUIT(u)
  BY <1>b, <1>4, SimpleCommand DEF QUIT
<1>5. CASE LUSERS(u)
  BY <1>b, <1>5, SimpleCommand DEF LUSERS
<1>6. CASE WHO(u)
  BY <1>b, <1>6, SimpleCommand DEF WHO
<1>7. CASE LIST(u)
  BY <1>b, <1>7, SimpleCommand DEF LIST
<1>8. CASE NAMES(u)
  BY <1>b, <1>8, SimpleCommand DEF NAMES
<1>9. CASE PING(u) \/ MOTD(u) \/ AWAY(u) \/ OPER(u) \/ UNKNOWN(u)
  BY <1>b, <1>9, SimpleCommand DEF PING, MOTD, AWAY, OPER, UNKNOWN
<1>10. CASE UserMode(u)
  BY <1>b, <1>10, SimpleCommand DEF UserMode
<1> QED BY <1>1, <1>2, <1>3, <1>4, <1>5, <1>6, <1>7, <1>8, <1>9, <1>10

LEMMA ChannelCommands ==
    ASSUME ServerInv, NEW u \in User, NEW c \in Name,
           \/ JOIN(u, c) \/ PART(u, c) \/ TOPIC(u, c) \/ MemberMode(u, c)
           \/ ChannelMode(u, c) \/ NamesOf(u, c) \/ ListOf(u, c) \/ WhoOf(u, c)
    PROVE  ServerInv'
<1> DEFINE l == [Blank EXCEPT !.chan = SeekChan(c)]
           k == [Blank EXCEPT !.chan = SeekChan(c), !.name = c]
           m == [Blank EXCEPT !.name = c]
<1>0. /\ l \in Local /\ k \in Local /\ m \in Local
  BY SeekTypes, LocalStart, Zenon
<1>a. /\ l.chan = SeekChan(c) /\ k.chan = SeekChan(c) /\ k.name = c /\ m.chan = 0
      /\ Blank.chan = 0 /\ Blank \in Local
  BY BlankFacts DEF Blank
<1>b. SeekChan(c) \in 0..Len(chan) /\ 0 \in 0..Len(chan)
  BY SeekTypes, LenProperties DEF ServerInv, Typed, ChannelsTyped
<1> HIDE DEF l, k, m
<1>1. CASE JOIN(u, c)
  <2>1. Command(u, "JOIN", IF SeekChan(c) = 0 THEN <<"create">> ELSE <<"enter">>, k)
    BY <1>1 DEF JOIN, k
  <2> QED BY <1>0, <1>a, <1>b, <2>1, ChannelCommand, SimpleCommand
<1>2. CASE PART(u, c)
  <2>1. Command(u, "PART", IF SeekChan(c) # 0 /\ Member(u, c)
                           THEN <<"relay", "leave", "dec">> ELSE <<"reply">>, k)
    BY <1>2 DEF PART, k
  <2> QED BY <1>0, <1>a, <1>b, <2>1, ChannelCommand, SimpleCommand
<1>3. CASE TOPIC(u, c)
  <2>1. PICK set \in BOOLEAN :
            Command(u, "TOPIC",
                    IF ~Member(u, c) THEN <<"reply">>
                    ELSE IF SeekChan(c) = 0 THEN <<"segv">>
                    ELSE IF set THEN <<"relay", "reply">> ELSE <<"reply">>, l)
    BY <1>3 DEF TOPIC, l
  <2> QED BY <1>0, <1>a, <1>b, <2>1, ChannelCommand, SimpleCommand
<1>4. CASE MemberMode(u, c)
  <2>1. CASE Command(u, "MODE", IF SeekChan(c) = 0 THEN <<"reply">> ELSE <<"bare">>, l)
    BY <1>0, <1>a, <1>b, <2>1, SimpleCommand
  <2>2. CASE \E v \in Range(userlist), steps \in {<<"reply">>, <<"target", "relay">>} :
                /\ SeekChan(c) # 0
                /\ Command(u, "MODE", steps,
                           [Blank EXCEPT !.chan = SeekChan(c), !.name = c, !.to = v])
    <3>1. PICK v \in Range(userlist), steps \in {<<"reply">>, <<"target", "relay">>} :
              /\ SeekChan(c) # 0
              /\ Command(u, "MODE", steps,
                         [Blank EXCEPT !.chan = SeekChan(c), !.name = c, !.to = v])
      BY <2>2
    <3> DEFINE h == [Blank EXCEPT !.chan = SeekChan(c), !.name = c, !.to = v]
    <3>2. v \in User
      BY <3>1 DEF ServerInv, UserlistInv
    <3>3. h \in Local
      BY <3>2, SeekTypes, LocalStart, Zenon
    <3>4. h.chan = SeekChan(c) /\ h.to = v
      BY DEF Blank
    <3>5. Command(u, "MODE", steps, h)
      BY <3>1
    <3> HIDE DEF h
    <3> QED BY <1>b, <3>1, <3>2, <3>3, <3>4, <3>5, ChannelCommand, SimpleCommand
  <2> QED BY <1>4, <2>1, <2>2 DEF MemberMode, l
<1>5. CASE ChannelMode(u, c)
  <2>1. PICK steps \in {<<"reply">>, <<"relay">>, <<"segv">>} :
            /\ steps = <<"relay">> => SeekChan(c) # 0
            /\ Command(u, "MODE", steps, l)
    BY <1>5 DEF ChannelMode, l
  <2> QED BY <1>0, <1>a, <1>b, <2>1, ChannelCommand, SimpleCommand
<1>6. CASE NamesOf(u, c)
  <2>1. Command(u, "NAMES c", IF ~Registered(u) THEN <<"reply">>
                              ELSE IF SeekChan(c) = 0 THEN <<"bare">>
                              ELSE <<"sweep", "reply", "bare">>, l)
    BY <1>6 DEF NamesOf, l
  <2> QED BY <1>0, <1>a, <1>b, <2>1, SimpleCommand
<1>7. CASE ListOf(u, c)
  <2>1. Command(u, "LIST c", IF SeekChan(c) = 0 THEN <<"segv">> ELSE <<"reply">>, Blank)
    BY <1>7 DEF ListOf
  <2> QED BY <1>a, <1>b, <2>1, SimpleCommand
<1>8. CASE WhoOf(u, c)
  <2>1. Command(u, "WHO c", <<"sweep", "reply">>, m)
    BY <1>8 DEF WhoOf, m
  <2> QED BY <1>0, <1>a, <1>b, <2>1, SimpleCommand
<1> QED BY <1>1, <1>2, <1>3, <1>4, <1>5, <1>6, <1>7, <1>8

LEMMA MessageCommands ==
    ASSUME ServerInv, NEW u \in User, NEW t, PRIVMSG(u, t) \/ NOTICE(u, t)
    PROVE  ServerInv'
<1> DEFINE l == [Blank EXCEPT !.to = SeekNick(t), !.chan = SeekChan(t), !.skip = TRUE]
<1>1. PICK cmd : Message(u, cmd, t)
  BY DEF PRIVMSG, NOTICE
<1>2. PICK steps \in Answers(u, cmd, t) : Command(u, cmd, steps, l)
  BY <1>1 DEF Message
<1>3. l \in Local
  <2>1. PICK c \in Name : TRUE
    BY DEF Name
  <2> QED BY <2>1, SeekTypes, LocalStart, Zenon
<1>4. l.chan = SeekChan(t) /\ SeekChan(t) \in 0..Len(chan)
  BY SeekTypes DEF Blank
<1>5. \/ steps \in {<<>>, <<"reply">>, <<"segv">>, <<"deliver">>}
      \/ SeekChan(t) # 0 /\ steps = <<"relay">>
  BY DEF Answers, If
<1> HIDE DEF l
<1> QED BY <1>2, <1>3, <1>4, <1>5, ChannelCommand, SimpleCommand

LEMMA HandlersKeep ==
    ASSUME ServerInv, NEW u \in User, handle_chirc_message(u)
    PROVE  ServerInv'
<1>1. \A c \in Chan : c \in Name
  BY DEF Name
<1> QED BY <1>1, PersonCommands, ChannelCommands, MessageCommands
        DEF handle_chirc_message

---------------------------------------------------------------------------
(* Steps of the handlers. *)
LEMMA StutterKeeps ==
    ASSUME ServerInv, Same, UNCHANGED <<todo, loc>>
    PROVE  ServerInv'
<1>1. ASSUME NEW u \in User
      PROVE  /\ ThreadInv(u)'
             /\ PeopleTyped' /\ MembersTyped' /\ ChannelsTyped' /\ LocksTyped'
             /\ gone' = gone /\ conn' = conn /\ userlist' = userlist
  <2>1. Surroundings(u) /\ LocksKept(u) /\ chan' = chan
    BY SameSurroundings
  <2>2. ThreadInv(u) /\ Len(chan) \in Nat
    BY LenProperties DEF ServerInv, Typed, ChannelsTyped
  <2>3. /\ conn' = conn /\ nick' = nick /\ named' = named
        /\ todo' = todo /\ loc' = loc
    BY DEF Same, people
  <2>4. ThreadInv(u)'
    BY <2>1, <2>2, <2>3, OtherThread
  <2> QED BY <2>1, <2>4 DEF Surroundings
<1>2. Typed'
  BY DEF ServerInv, Typed, PeopleTyped, MembersTyped, ChannelsTyped, LocksTyped,
         ThreadsTyped, Same, people, members, channels, locks
<1>3. UserlistInv'
  BY DEF ServerInv, UserlistInv, Same, people
<1> QED BY <1>1, <1>2, <1>3 DEF ServerInv

(* What is known of a thread at step s. *)
LEMMA StepFacts ==
    ASSUME ServerInv, NEW u \in User, NEW s, At(u, s)
    PROVE  /\ Typed /\ TaskSound(u) /\ LocksSound(u) /\ WellFormed(todo[u])
           /\ todo[u] # <<>> /\ Top(u) = s /\ s \in Steps /\ conn[u] = "up"
           /\ Tail(todo[u]) \in After[s] /\ Tail(todo[u]) \in Seq(Steps)
           /\ TailSound(s, Tail(todo[u]))
           /\ Pending(u) = {s} \union Range(Tail(todo[u]))
           /\ loc[u] \in Local /\ loc[u].chan \in 0..Len(chan) /\ Len(chan) \in Nat
<1>1. Typed /\ ThreadsTyped /\ TaskSound(u) /\ LocksSound(u) /\ WellFormed(todo[u])
  BY DEF ServerInv, Typed, ThreadInv, TaskSound
<1>2. loc[u] \in Local /\ loc[u].chan \in 0..Len(chan)
  BY <1>1 DEF ThreadsTyped, TaskSound
<1>3. Len(chan) \in Nat
  BY <1>1, LenProperties DEF Typed, ChannelsTyped
<1>4. todo[u] # <<>> => conn[u] = "up"
  BY <1>1 DEF TaskSound
<1> QED BY <1>1, <1>2, <1>3, <1>4, AtFacts

LEMMA HangKeeps ==
    ASSUME ServerInv, NEW u \in User, NEW v \in User, NEW s, At(u, s), s # "unlist",
           Hang(u, v)
    PROVE  ServerInv'
<1>0. /\ Typed /\ TaskSound(u) /\ LocksSound(u) /\ Top(u) = s /\ conn[u] = "up"
      /\ loc[u] \in Local /\ loc[u].chan \in 0..Len(chan)
  BY StepFacts
<1> DEFINE steps == <<"hung">>
<1>1. /\ steps \in Seq(Steps) /\ steps # <<>> /\ Head(steps) = "hung"
      /\ Range(steps) = {"hung"}
  BY AfterDomain, ShortSequences, RangeOne
<1>2. WellFormed(steps)
  BY AfterDomain, AfterValues DEF WellFormed
<1>3. Goto(u, steps, loc[u])
  BY DEF Hang
<1> HIDE DEF steps
<1>4. todo'[u] = steps /\ loc'[u] = loc[u]
  BY <1>0, <1>1, <1>3, GotoFacts DEF Typed
<1>5. Top(u)' = "hung" /\ Pending(u)' = {"hung"}
  BY <1>1, <1>4 DEF Top, Pending
<1>6. /\ UNCHANGED <<people, members, channels, lock, chanLock, gone>>
      /\ cLock' = [cLock EXCEPT ![v] = u]
  BY DEF Hang, outside
<1>7. chan' = chan /\ conn' = conn /\ nick' = nick /\ named' = named
      /\ userlist' = userlist
  BY <1>6 DEF people, channels
<1>8. TaskSound(u)'
  <2>1. WellFormed(todo'[u]) /\ conn'[u] = "up" /\ loc'[u].chan \in 0..Len(chan')
    BY <1>0, <1>2, <1>4, <1>7
  <2> QED BY <1>5, <2>1 DEF TaskSound, ChanSteps
<1>9. LocksSound(u)'
  <2>1. \A o \in 1..Len(chan) : chanLock[o] # u
    BY <1>0 DEF LocksSound
  <2>2. \A o \in 1..Len(chan') : chanLock'[o] # u
    BY <1>6, <1>7, <2>1
  <2> QED BY <1>5, <2>2 DEF LocksSound
<1>10. Surroundings(u)
  <2>1. PeopleTyped' /\ MembersTyped' /\ ChannelsTyped'
    BY <1>0, <1>6 DEF Typed, PeopleTyped, MembersTyped, ChannelsTyped,
                      people, members, channels
  <2>2. LocksTyped'
    BY <1>0, <1>6 DEF Typed, LocksTyped
  <2>3. ASSUME NEW w \in User, w # u PROVE LocksKept(w)
    <3>1. \A x \in User : cLock'[x] = w => cLock[x] = w
      BY <1>0, <1>6, <2>3 DEF Typed, LocksTyped
    <3> QED BY <1>6, <1>7, <3>1 DEF LocksKept
  <2>5. Len(chan) <= Len(chan')
    BY <1>7, LenProperties, <1>0 DEF Typed, ChannelsTyped
  <2> QED BY <1>6, <1>7, <2>1, <2>2, <2>3, <2>5 DEF Surroundings
<1> QED BY <1>0, <1>1, <1>3, <1>8, <1>9, <1>10, StepInv

(* A step that changes nothing else, and is over. *)
LEMMA SamePop ==
    ASSUME ServerInv, NEW u \in User, NEW s \in Plain, At(u, s), Same,
           Then(u, <<>>, loc[u])
    PROVE  ServerInv'
<1>1. loc[u] \in Local
  BY StepFacts
<1>2. Surroundings(u) /\ LocksKept(u)
  BY SameSurroundings
<1> QED BY <1>1, <1>2, PlainPop

(* A step that changes nothing else, and is followed by another. *)
LEMMA SamePush ==
    ASSUME ServerInv, NEW u \in User, NEW s \in Plain, At(u, s), Same,
           NEW more \in Steps, Then(u, <<more>>, loc[u]),
           Tail(todo[u]) \in After[more],
           more \in ChanSteps => s \in ChanSteps,
           more \notin {"send", "nextchan", "target"}
    PROVE  ServerInv'
<1>1. /\ loc[u] \in Local /\ loc[u].chan \in 0..Len(chan) /\ Tail(todo[u]) \in Seq(Steps)
      /\ TaskSound(u) /\ Top(u) = s
  BY StepFacts
<1>2. Surroundings(u) /\ LocksKept(u) /\ chan' = chan
  BY SameSurroundings
<1>3. <<more>> \in Seq(Steps) /\ <<more>> # <<>> /\ Head(<<more>>) = more
      /\ Range(<<more>>) = {more}
  BY ShortSequences, RangeOne
<1>4. WellFormed(<<more>> \o Tail(todo[u]))
  BY <1>1, OneMore
<1>5. more \in ChanSteps => loc[u].chan # 0
  BY <1>1 DEF TaskSound
<1> DEFINE list == <<more>>
<1>6. list \in Seq(Steps) /\ list # <<>> /\ Head(list) = more /\ Range(list) = {more}
      /\ Then(u, list, loc[u]) /\ WellFormed(list \o Tail(todo[u]))
  BY <1>3, <1>4
<1> HIDE DEF list
<1> QED BY <1>1, <1>2, <1>5, <1>6, PlainPush

LEMMA ReplyKeeps ==
    ASSUME ServerInv, NEW u \in User, Reply(u) PROVE ServerInv'
<1>0. At(u, "reply") /\ "reply" \in Plain
  BY AfterDomain DEF Reply, Plain, Holding
<1>1. CASE Then(u, <<>>, loc[u]) /\ Same
  BY <1>0, <1>1, SamePop
<1>2. CASE Hang(u, u)
  BY <1>0, <1>2, HangKeeps
<1> QED BY <1>1, <1>2 DEF Reply, Same, outside

LEMMA ByeKeeps ==
    ASSUME ServerInv, NEW u \in User, Bye(u) PROVE ServerInv'
<1>0. At(u, "bye") /\ "bye" \in Plain /\ Same /\ Then(u, <<>>, loc[u])
  BY AfterDomain DEF Bye, Plain, Holding, Same, outside
<1> QED BY <1>0, SamePop

LEMMA TestKeeps ==
    ASSUME ServerInv, NEW u \in User, Test(u) PROVE ServerInv'
<1>0. At(u, "test") /\ "test" \in Plain /\ Same /\ "destroy" \in Steps
  BY AfterDomain DEF Test, Plain, Holding, Same, outside
<1>1. CASE Then(u, <<>>, loc[u])
  BY <1>0, <1>1, SamePop
<1>2. CASE Then(u, <<"destroy">>, loc[u])
  <2>1. Tail(todo[u]) \in After["destroy"]
    BY <1>0, StepFacts, AfterValues
  <2> QED BY <1>0, <1>2, <2>1, SamePush DEF ChanSteps
<1> QED BY <1>1, <1>2 DEF Test

LEMMA DeliverKeeps ==
    ASSUME ServerInv, NEW u \in User, Deliver(u) PROVE ServerInv'
<1>0. At(u, "deliver") /\ "deliver" \in Plain /\ "segv" \in Steps /\ "reply" \in Steps
  BY AfterDomain DEF Deliver, Plain, Holding
<1>1. Tail(todo[u]) = <<>>
  BY <1>0, StepFacts, AfterValues
<1>2. CASE Then(u, <<>>, loc[u]) /\ Same
  BY <1>0, <1>2, SamePop
<1>3. CASE Then(u, <<"segv">>, loc[u]) /\ Same
  <2>1. Tail(todo[u]) \in After["segv"]
    BY <1>1, AfterValues
  <2> QED BY <1>0, <1>3, <2>1, SamePush DEF ChanSteps
<1>4. CASE Then(u, <<"reply">>, loc[u]) /\ Same
  <2>1. Tail(todo[u]) \in After["reply"]
    BY <1>1, AfterValues
  <2> QED BY <1>0, <1>4, <2>1, SamePush DEF ChanSteps
<1>5. CASE Hang(u, loc[u].to)
  <2>1. loc[u].to \in User
    <3>1. loc[u].to \in gone /\ gone \subseteq User
      BY <1>5 DEF Hang, ServerInv, Typed, ThreadsTyped
    <3> QED BY <3>1
  <2> QED BY <1>0, <1>5, <2>1, HangKeeps
<1> QED BY <1>2, <1>3, <1>4, <1>5 DEF Deliver, Same, outside

LEMMA WhoisKeeps ==
    ASSUME ServerInv, NEW u \in User, Whois(u) PROVE ServerInv'
<1>0. At(u, "whois") /\ "whois" \in Plain /\ "segv" \in Steps
  BY AfterDomain DEF Whois, Plain, Holding
<1>1. CASE Then(u, <<>>, loc[u]) /\ Same
  BY <1>0, <1>1, SamePop
<1>2. CASE Then(u, <<"segv">>, loc[u]) /\ Same
  <2>1. Tail(todo[u]) \in After["segv"]
    BY <1>0, StepFacts, AfterValues
  <2> QED BY <1>0, <1>2, <2>1, SamePush DEF ChanSteps
<1>3. CASE /\ frozen' = [frozen EXCEPT ![loc[u].to] = TRUE]
           /\ Then(u, <<>>, loc[u])
           /\ UNCHANGED <<people, mychans, channels, locks, outside, crashed>>
  <2>1. Typed /\ loc[u] \in Local
    BY <1>0, StepFacts
  <2>2. MembersTyped'
    BY <1>3, <2>1 DEF Typed, MembersTyped
  <2>3. PeopleTyped' /\ ChannelsTyped' /\ LocksTyped'
    BY <1>3, <2>1 DEF Typed, PeopleTyped, ChannelsTyped, LocksTyped,
                      people, channels, locks
  <2>4. /\ chan' = chan /\ conn' = conn /\ nick' = nick /\ named' = named
        /\ userlist' = userlist /\ gone' = gone
        /\ \A w \in User : LocksKept(w)
    BY <1>3 DEF people, channels, locks, outside, LocksKept
  <2>5. Len(chan) <= Len(chan')
    BY <2>1, <2>4, LenProperties DEF Typed, ChannelsTyped
  <2>6. Surroundings(u)
    BY <2>2, <2>3, <2>4, <2>5 DEF Surroundings
  <2> QED BY <1>0, <1>3, <2>1, <2>4, <2>6, PlainPop
<1> QED BY <1>1, <1>2, <1>3 DEF Whois, Same, members, outside

(* What a thread holds, if it takes nothing. *)
LEMMA KeptLocks ==
    ASSUME NEW u \in User, LocksSound(u), LocksKept(u),
           Top(u) \notin {"hung", "segv", "unlist", "visit", "send", "meet"},
           Holding \intersect Pending(u) # {} =>
               Top(u)' = "segv" \/ Holding \intersect Pending(u)' # {}
    PROVE  LocksSound(u)'
<1>1. lock' # u
  BY DEF LocksSound, LocksKept
<1>2. ASSUME NEW o \in 1..Len(chan'), chanLock'[o] = u PROVE FALSE
  <2>1. o \in 1..Len(chan) /\ chanLock[o] = u
    BY <1>2 DEF LocksKept
  <2> QED BY <2>1 DEF LocksSound
<1>3. ASSUME NEW v \in User, cLock'[v] = u
      PROVE  \/ Top(u)' \in {"hung", "segv"}
             \/ v = u /\ Holding \intersect Pending(u)' # {}
  <2>1. cLock[v] = u
    BY <1>3 DEF LocksKept
  <2>2. v = u /\ Holding \intersect Pending(u) # {}
    BY <2>1 DEF LocksSound
  <2> QED BY <2>2
<1> QED BY <1>1, <1>2, <1>3 DEF LocksSound

(* The thread goes back to what it does when a send() failed, or dies. *)
LEMMA TurnKeeps ==
    ASSUME ServerInv, NEW u \in User, NEW s \in Plain, At(u, s), Same,
           Holding \intersect Pending(u) = {},
           NEW more \in {"exit", "segv"}, Goto(u, <<more>>, loc[u])
    PROVE  ServerInv'
<1>0. /\ Typed /\ TaskSound(u) /\ LocksSound(u) /\ Top(u) = s /\ conn[u] = "up"
      /\ loc[u] \in Local /\ loc[u].chan \in 0..Len(chan)
  BY StepFacts
<1> DEFINE steps == <<more>>
<1>1. /\ steps \in Seq(Steps) /\ steps # <<>> /\ Head(steps) = more
      /\ Range(steps) = {more}
  BY AfterDomain, ShortSequences, RangeOne
<1>2. WellFormed(steps)
  BY AfterDomain, AfterValues DEF WellFormed
<1>3. Goto(u, steps, loc[u])
  OBVIOUS
<1> HIDE DEF steps
<1>4. todo'[u] = steps /\ loc'[u] = loc[u]
  BY <1>0, <1>1, <1>3, GotoFacts DEF Typed
<1>5. Top(u)' = more /\ Pending(u)' = {more}
  BY <1>1, <1>4 DEF Top, Pending
<1>6. Surroundings(u) /\ LocksKept(u) /\ chan' = chan /\ conn' = conn
  BY SameSurroundings DEF Surroundings
<1>7. TaskSound(u)'
  <2>1. WellFormed(todo'[u]) /\ conn'[u] = "up" /\ loc'[u].chan \in 0..Len(chan')
    BY <1>0, <1>2, <1>4, <1>6
  <2> QED BY <1>5, <2>1 DEF TaskSound, ChanSteps
<1>8. LocksSound(u)'
  <2>1. Top(u) \notin {"hung", "segv", "unlist", "visit", "send", "meet"}
    BY <1>0 DEF Plain
  <2> QED BY <1>0, <1>6, <2>1, KeptLocks
<1> QED BY <1>0, <1>1, <1>3, <1>6, <1>7, <1>8, StepInv

LEMMA BareKeeps ==
    ASSUME ServerInv, NEW u \in User, Bare(u) PROVE ServerInv'
<1>0. At(u, "bare") /\ "bare" \in Plain /\ Same
  BY AfterDomain DEF Bare, Plain, Holding, Same, outside
<1>1. CASE Then(u, <<>>, loc[u])
  BY <1>0, <1>1, SamePop
<1>2. CASE UNCHANGED <<todo, loc>>
  BY <1>0, <1>2, StutterKeeps
<1>3. CASE Goto(u, <<"exit">>, loc[u])
  <2>1. Pending(u) = {"bare"}
    BY <1>0, StepFacts, AfterValues, RangeEmpty
  <2> QED BY <1>0, <1>3, <2>1, TurnKeeps DEF Holding
<1> QED BY <1>1, <1>2, <1>3 DEF Bare

LEMMA TargetKeeps ==
    ASSUME ServerInv, NEW u \in User, Target(u) PROVE ServerInv'
<1>0. At(u, "target") /\ "target" \in Plain /\ Same
  BY AfterDomain DEF Target, Plain, Holding, Same, outside
<1>1. CASE Then(u, <<>>, loc[u])
  BY <1>0, <1>1, SamePop
<1>2. CASE Goto(u, <<"segv">>, loc[u])
  <2>1. Pending(u) = {"target", "relay"}
    BY <1>0, StepFacts, AfterValues, RangeOne
  <2> QED BY <1>0, <1>2, <2>1, TurnKeeps DEF Holding
<1> QED BY <1>1, <1>2 DEF Target

(* There are fewer veterans than an unsigned int counts. *)
LEMMA ModulusPositive == UINT_MOD \in Nat /\ UINT_MOD > 0
<1>1. IsFiniteSet(Veterans)
  BY ChircAssumption, FS_Subset
<1>2. Cardinality(Veterans) \in Nat
  BY <1>1, FS_CardinalityType
<1>3. UINT_MOD \in Nat /\ Cardinality(Veterans) < UINT_MOD
  BY ChircAssumption, Zenon
<1> QED BY <1>2, <1>3

(* Nicknames and registration change only what is known of u. *)
LEMMA PersonSurroundings ==
    ASSUME ServerInv, NEW u \in User, PeopleTyped', conn' = conn, userlist' = userlist,
           \A w \in User : w # u => nick'[w] = nick[w] /\ named'[w] = named[w],
           UNCHANGED <<members, channels, locks, gone>>
    PROVE  Surroundings(u) /\ LocksKept(u) /\ chan' = chan
<1>1. MembersTyped' /\ ChannelsTyped' /\ LocksTyped'
  BY DEF ServerInv, Typed, MembersTyped, ChannelsTyped, LocksTyped,
         members, channels, locks
<1>2. chan' = chan /\ \A w \in User : LocksKept(w)
  BY DEF LocksKept, locks, channels
<1>3. Len(chan) <= Len(chan')
  BY <1>2, LenProperties DEF ServerInv, Typed, ChannelsTyped
<1> QED BY <1>1, <1>2, <1>3 DEF Surroundings

LEMMA SetNickKeeps ==
    ASSUME ServerInv, NEW u \in User, SetNick(u) PROVE ServerInv'
<1>0. At(u, "setnick") /\ "setnick" \in Plain /\ "register" \in Steps
  BY AfterDomain DEF SetNick, Plain, Holding
<1>1. /\ Typed /\ TaskSound(u) /\ loc[u] \in Local
      /\ Tail(todo[u]) = <<>> /\ loc[u].chan \in 0..Len(chan)
  BY <1>0, StepFacts, AfterValues
<1>2. loc[u].nick \in Nick \union {""}
  BY <1>1 DEF Local
<1>3. /\ nick' = [nick EXCEPT ![u] = loc[u].nick]
      /\ UNCHANGED <<conn, userlist, named, numregistered, members, channels, locks, gone>>
  BY DEF SetNick, outside
<1>4. /\ nick'[u] = loc[u].nick
      /\ \A w \in User : w # u => nick'[w] = nick[w]
  BY <1>1, <1>3 DEF Typed, PeopleTyped
<1>5. PeopleTyped'
  BY <1>1, <1>2, <1>3 DEF Typed, PeopleTyped
<1>7. Surroundings(u) /\ LocksKept(u) /\ chan' = chan
  BY <1>3, <1>4, <1>5, PersonSurroundings
<1>8. CASE Then(u, <<>>, loc[u])
  BY <1>0, <1>1, <1>7, <1>8, PlainPop
<1>9. CASE Then(u, <<"register">>, loc[u]) /\ named[u]
  <2> DEFINE list == <<"register">>
  <2>1. list \in Seq(Steps) /\ list # <<>> /\ Head(list) = "register"
        /\ Range(list) = {"register"}
    BY <1>0, ShortSequences, RangeOne
  <2>2. WellFormed(list \o Tail(todo[u]))
    BY <1>0, <1>1, StepFacts, AfterValues, OneMore
  <2>3. Then(u, list, loc[u])
    BY <1>9
  <2> HIDE DEF list
  <2> QED BY <1>0, <1>1, <1>7, <2>1, <2>2, <2>3, PlainPush DEF ChanSteps, TaskSound
<1> QED BY <1>8, <1>9 DEF SetNick

LEMMA SetUserKeeps ==
    ASSUME ServerInv, NEW u \in User, SetUser(u) PROVE ServerInv'
<1>0. At(u, "setuser") /\ "setuser" \in Plain /\ "register" \in Steps
  BY AfterDomain DEF SetUser, Plain, Holding
<1>1. /\ Typed /\ TaskSound(u) /\ loc[u] \in Local
      /\ Tail(todo[u]) = <<>> /\ loc[u].chan \in 0..Len(chan)
  BY <1>0, StepFacts, AfterValues
<1>3. /\ named' = [named EXCEPT ![u] = loc[u].user]
      /\ UNCHANGED <<conn, userlist, nick, numregistered, members, channels, locks, gone>>
  BY DEF SetUser, outside
<1>4. loc[u].user \in BOOLEAN /\ \A w \in User : w # u => named'[w] = named[w]
  BY <1>1, <1>3 DEF Typed, PeopleTyped, Local
<1>5. PeopleTyped'
  BY <1>1, <1>3, <1>4 DEF Typed, PeopleTyped
<1>7. Surroundings(u) /\ LocksKept(u) /\ chan' = chan
  BY <1>3, <1>4, <1>5, PersonSurroundings
<1>8. CASE Then(u, <<>>, loc[u])
  BY <1>0, <1>1, <1>7, <1>8, PlainPop
<1>9. CASE Then(u, <<"register">>, loc[u]) /\ nick[u] # ""
  <2> DEFINE list == <<"register">>
  <2>1. list \in Seq(Steps) /\ list # <<>> /\ Head(list) = "register"
        /\ Range(list) = {"register"}
    BY <1>0, ShortSequences, RangeOne
  <2>2. WellFormed(list \o Tail(todo[u]))
    BY <1>0, <1>1, StepFacts, AfterValues, OneMore
  <2>3. Then(u, list, loc[u])
    BY <1>9
  <2> HIDE DEF list
  <2> QED BY <1>0, <1>1, <1>7, <2>1, <2>2, <2>3, PlainPush DEF ChanSteps, TaskSound
<1> QED BY <1>8, <1>9 DEF SetUser

LEMMA RegisterKeeps ==
    ASSUME ServerInv, NEW u \in User, Register(u) PROVE ServerInv'
<1>0. At(u, "register") /\ "register" \in Plain
  BY AfterDomain DEF Register, Plain, Holding
<1>1. /\ Typed /\ TaskSound(u) /\ loc[u] \in Local
      /\ Tail(todo[u]) = <<>> /\ loc[u].chan \in 0..Len(chan)
  BY <1>0, StepFacts, AfterValues
<1>2. /\ numregistered' = (numregistered + 1) % UINT_MOD
      /\ UNCHANGED <<conn, userlist, nick, named, members, channels, locks, gone>>
  BY DEF Register, outside
<1>3. PeopleTyped'
  <2>1. UINT_MOD \in Nat /\ UINT_MOD > 0 /\ numregistered \in Nat
    <3>1. numregistered \in 0..(UINT_MOD - 1)
      BY <1>1 DEF Typed, PeopleTyped
    <3> QED BY <3>1, ModulusPositive
  <2>2. (numregistered + 1) % UINT_MOD \in 0..(UINT_MOD - 1)
    BY <2>1
  <2> QED BY <1>1, <1>2, <2>2 DEF Typed, PeopleTyped
<1>5. Surroundings(u) /\ LocksKept(u) /\ chan' = chan
  BY <1>2, <1>3, PersonSurroundings
<1> DEFINE list == <<"reply", "sweep", "reply">>
<1>6. /\ list \in Seq(Steps) /\ list # <<>> /\ Head(list) = "reply"
      /\ Range(list) = {"reply", "sweep"}
  BY AfterDomain, ShortSequences, RangeThree
<1>7. WellFormed(list \o Tail(todo[u]))
  <2>1. WellFormed(list)
    BY AfterDomain, AfterValues DEF WellFormed
  <2> QED BY <1>1, <1>6, <2>1, ConcatEmptySeq
<1>8. Then(u, list, loc[u])
  BY DEF Register
<1> HIDE DEF list
<1> QED BY <1>0, <1>1, <1>5, <1>6, <1>7, <1>8, PlainPush DEF ChanSteps, TaskSound

---------------------------------------------------------------------------
(* Steps that take and release mutexes. *)
LEMMA PopStep ==
    ASSUME ServerInv, NEW u \in User, NEW s, At(u, s), Surroundings(u),
           NEW l \in Local, Then(u, <<>>, l),
           l.chan = loc[u].chan, l.skip = loc[u].skip,
           LocksSound(u)'
    PROVE  ServerInv'
<1>0. /\ Typed /\ ThreadsTyped /\ TaskSound(u) /\ WellFormed(todo[u])
      /\ Len(chan) \in Nat /\ conn[u] = "up"
  BY StepFacts DEF Typed
<1>1. Goto(u, Tail(todo[u]), l) /\ Tail(todo[u]) \in Seq(Steps)
  BY <1>0, PopFacts
<1>2. TaskSound(u)'
  <2>1. /\ conn' = conn
        /\ Len(chan') \in Nat /\ Len(chan) <= Len(chan')
    BY LenProperties DEF Surroundings, ChannelsTyped
  <2> QED BY <1>0, <2>1, PopTask
<1> QED BY <1>0, <1>1, <1>2, StepInv

LEMMA PushStep ==
    ASSUME ServerInv, NEW u \in User, NEW s, At(u, s), Surroundings(u),
           NEW more \in Seq(Steps), more # <<>>, NEW l \in Local, Then(u, more, l),
           WellFormed(more \o Tail(todo[u])),
           l.chan \in 0..Len(chan'), Head(more) \in ChanSteps => l.chan # 0,
           Head(more) # "target",
           Head(more) = "send" => l.left # <<>> /\ (l.skip => Head(l.left) # u),
           "nextchan" \in Range(more) \/ loc[u].skip => l.skip,
           LocksSound(u)'
    PROVE  ServerInv'
<1>0. /\ Typed /\ ThreadsTyped /\ TaskSound(u) /\ WellFormed(todo[u])
      /\ conn[u] = "up"
  BY StepFacts DEF Typed
<1>1. Goto(u, more \o Tail(todo[u]), l) /\ more \o Tail(todo[u]) \in Seq(Steps)
  BY <1>0, PushFacts
<1>2. TaskSound(u)'
  <2>1. conn' = conn
    BY DEF Surroundings
  <2> QED BY <1>0, <2>1, PushTask
<1> QED BY <1>0, <1>1, <1>2, StepInv

(* A thread takes mutexes for itself, and releases them. *)
LEMMA MutexSurroundings ==
    ASSUME ServerInv, NEW u \in User,
           UNCHANGED <<people, mychans, chanlist, chan, chanLock, gone>>,
           frozen' \in [User -> BOOLEAN], iter' \in [active : BOOLEAN, pos : Nat],
           lock' \in {u, NoOne, lock},
           cLock' \in [User -> User \union {NoOne}],
           \A v \in User : cLock'[v] \in {u, NoOne, cLock[v]}
    PROVE  Surroundings(u) /\ chan' = chan
<1>1. /\ chan' = chan /\ chanlist' = chanlist /\ chanLock' = chanLock
      /\ conn' = conn /\ userlist' = userlist /\ nick' = nick /\ named' = named
      /\ mychans' = mychans /\ gone' = gone
  BY DEF people
<1>2. PeopleTyped'
  BY DEF ServerInv, Typed, PeopleTyped, people
<1>3. MembersTyped' /\ ChannelsTyped'
  BY <1>1 DEF ServerInv, Typed, MembersTyped, ChannelsTyped
<1>4. LocksTyped'
  BY DEF ServerInv, Typed, LocksTyped
<1>5. ASSUME NEW w \in User, w # u PROVE LocksKept(w)
  <2>1. NoOne \notin User
    BY ChircAssumption
  <2> QED BY <1>1, <1>5, <2>1 DEF LocksKept
<1>7. Len(chan) <= Len(chan')
  BY <1>1, LenProperties DEF ServerInv, Typed, ChannelsTyped
<1> QED BY <1>1, <1>2, <1>3, <1>4, <1>5, <1>7 DEF Surroundings

(* Inside a walk over the userlist, lock is held. *)
LEMMA WalkLocks ==
    ASSUME NEW u \in User, NEW s, Top(u) = s,
           s \notin {"hung", "segv", "unlist"} \union Holding,
           Pending(u) \ {s} \subseteq Pending(u)', LocksSound(u),
           cLock' = cLock, chanLock' = chanLock, chan' = chan,
           lock' = u => Top(u)' \in {"visit", "send", "meet"}
    PROVE  LocksSound(u)'
<1>1. ASSUME NEW o \in 1..Len(chan'), chanLock'[o] = u PROVE FALSE
  BY <1>1 DEF LocksSound
<1>2. ASSUME NEW v \in User, cLock'[v] = u
      PROVE  v = u /\ Holding \intersect Pending(u)' # {}
  <2>1. v = u /\ Holding \intersect Pending(u) # {}
    BY <1>2 DEF LocksSound
  <2> QED BY <2>1
<1> QED BY <1>1, <1>2 DEF LocksSound

LEMMA RelayKeeps ==
    ASSUME ServerInv, NEW u \in User, Relay(u) PROVE ServerInv'
<1> DEFINE list == <<"visit">>
           l == [loc[u] EXCEPT !.left = userlist]
<1>0. /\ At(u, "relay") /\ lock' = u /\ Then(u, list, l)
      /\ UNCHANGED <<people, mychans, frozen, chanlist, chan, iter, cLock, chanLock, gone>>
  BY DEF Relay, members, channels, outside
<1>1. /\ Typed /\ TaskSound(u) /\ LocksSound(u) /\ Top(u) = "relay"
      /\ loc[u] \in Local /\ loc[u].chan \in 0..Len(chan)
      /\ Tail(todo[u]) \in RelayTails /\ Tail(todo[u]) \in Seq(Steps)
      /\ Pending(u) = {"relay"} \union Range(Tail(todo[u]))
  BY <1>0, StepFacts, AfterValues
<1>2. /\ list \in Seq(Steps) /\ list # <<>> /\ Head(list) = "visit"
      /\ Range(list) = {"visit"}
  BY AfterDomain, ShortSequences, RangeOne
<1>3. WellFormed(list \o Tail(todo[u]))
  BY <1>1, AfterDomain, AfterValues, OneMore
<1>4. l \in Local /\ l.chan = loc[u].chan /\ l.skip = loc[u].skip
  <2>1. userlist \in Seq(User) /\ loc[u] \in Local
    BY <1>1 DEF Typed, PeopleTyped
  <2> QED BY <2>1, LocalLeft
<1> HIDE DEF list, l
<1>5. Surroundings(u) /\ chan' = chan
  BY <1>0, <1>1, MutexSurroundings
     DEF Typed, MembersTyped, ChannelsTyped, LocksTyped
<1>6. Top(u)' = "visit" /\ Pending(u)' = {"visit"} \union Range(Tail(todo[u]))
  BY <1>0, <1>1, <1>2, <1>4, PushFacts DEF Typed, TaskSound
<1>7. LocksSound(u)'
  BY <1>0, <1>1, <1>5, <1>6, WalkLocks DEF Holding
<1>8. loc[u].chan # 0
  BY <1>1 DEF TaskSound, ChanSteps
<1> QED BY <1>0, <1>1, <1>2, <1>3, <1>4, <1>5, <1>7, <1>8, PushStep

LEMMA VisitKeeps ==
    ASSUME ServerInv, NEW u \in User, Visit(u) PROVE ServerInv'
<1> DEFINE left == loc[u].left
           t == Tail(todo[u])
<1>0. /\ At(u, "visit")
      /\ UNCHANGED <<people, mychans, frozen, chanlist, chan, iter, cLock, chanLock, gone>>
  BY DEF Visit, members, channels, outside
<1>1. /\ Typed /\ TaskSound(u) /\ LocksSound(u) /\ Top(u) = "visit"
      /\ loc[u] \in Local /\ loc[u].chan \in 0..Len(chan)
      /\ t \in RelayTails /\ t \in Seq(Steps)
      /\ Pending(u) = {"visit"} \union Range(t)
  BY <1>0, StepFacts, AfterValues
<1>2. ASSUME lock' \in {NoOne, lock}
      PROVE  Surroundings(u) /\ chan' = chan
  BY <1>0, <1>1, <1>2, MutexSurroundings
     DEF Typed, MembersTyped, ChannelsTyped, LocksTyped
<1>3. loc[u].chan # 0
  BY <1>1 DEF TaskSound, ChanSteps
<1>4. CASE lock' = NoOne /\ Then(u, <<>>, loc[u])
  <2>1. Pending(u)' = Range(t)
    BY <1>0, <1>1, <1>4, PopFacts DEF Typed, TaskSound
  <2>2. lock' # u
    BY <1>4, ChircAssumption
  <2>3. LocksSound(u)'
    BY <1>0, <1>1, <1>2, <1>4, <2>1, <2>2, WalkLocks DEF Holding
  <2> QED BY <1>0, <1>1, <1>2, <1>4, <2>3, PopStep
<1>5. CASE /\ left # <<>> /\ Hears(u, Head(left)) /\ lock' = lock
           /\ Then(u, <<"send", "visit">>, loc[u])
  <2> DEFINE list == <<"send", "visit">>
  <2>1. /\ list \in Seq(Steps) /\ list # <<>> /\ Head(list) = "send"
        /\ Range(list) = {"send", "visit"}
    BY AfterDomain, ShortSequences, RangeTwo
  <2>2. WellFormed(list \o t)
    <3>1. <<"visit">> \o t \in After["send"]
      BY <1>1, AfterValues
    <3>2. "send" \in Steps /\ "visit" \in Steps /\ t \in Seq(Steps)
      BY <1>1, AfterDomain
    <3> HIDE DEF t
    <3> QED BY <3>1, <3>2, TwoMore
  <2>3. Then(u, list, loc[u])
    BY <1>5
  <2> HIDE DEF list
  <2>4. Top(u)' = "send" /\ Pending(u)' = {"send", "visit"} \union Range(t)
    BY <1>0, <1>1, <2>1, <2>3, PushFacts DEF Typed, TaskSound
  <2>5. LocksSound(u)'
    BY <1>0, <1>1, <1>2, <1>5, <2>4, WalkLocks DEF Holding
  <2>6. loc[u].skip => Head(loc[u].left) # u
    BY <1>5 DEF Hears
  <2> QED BY <1>0, <1>1, <1>2, <1>3, <1>5, <2>1, <2>2, <2>3, <2>5, <2>6, PushStep
<1>6. CASE /\ left # <<>> /\ lock' = lock
           /\ Then(u, <<"visit">>, [loc[u] EXCEPT !.left = Tail(left)])
  <2> DEFINE list == <<"visit">>
             l == [loc[u] EXCEPT !.left = Tail(left)]
  <2>1. /\ list \in Seq(Steps) /\ list # <<>> /\ Head(list) = "visit"
        /\ Range(list) = {"visit"}
    BY AfterDomain, ShortSequences, RangeOne
  <2>2. WellFormed(list \o t)
    BY <1>1, AfterDomain, AfterValues, OneMore
  <2>3. Then(u, list, l)
    BY <1>6
  <2>4. l \in Local /\ l.chan = loc[u].chan /\ l.skip = loc[u].skip
    <3>1. loc[u].left \in Seq(User)
      BY <1>1 DEF Local
    <3>2. Tail(left) \in Seq(User)
      BY <1>6, <3>1, HeadTailProperties
    <3>3. loc[u] \in Local /\ l = [loc[u] EXCEPT !.left = Tail(left)]
      BY <1>1
    <3> HIDE DEF l, left
    <3>4. l \in Local
      BY <3>2, <3>3, LocalLeft
    <3>5. l.chan = loc[u].chan /\ l.skip = loc[u].skip
      BY <3>3 DEF Local
    <3> QED BY <3>4, <3>5
  <2> HIDE DEF list, l
  <2>5. Top(u)' = "visit" /\ Pending(u)' = {"visit"} \union Range(t)
    BY <1>0, <1>1, <2>1, <2>3, <2>4, PushFacts DEF Typed, TaskSound
  <2>6. LocksSound(u)'
    BY <1>0, <1>1, <1>2, <1>6, <2>5, WalkLocks DEF Holding
  <2> QED BY <1>0, <1>1, <1>2, <1>3, <1>6, <2>1, <2>2, <2>3, <2>4, <2>6, PushStep
<1> QED BY <1>4, <1>5, <1>6 DEF Visit

LEMMA SendKeeps ==
    ASSUME ServerInv, NEW u \in User, Send(u) PROVE ServerInv'
<1> DEFINE left == loc[u].left
           t == Tail(todo[u])
           l == [loc[u] EXCEPT !.left = Tail(left)]
<1>0. At(u, "send")
  BY DEF Send
<1>1. /\ Typed /\ TaskSound(u) /\ LocksSound(u) /\ Top(u) = "send"
      /\ loc[u] \in Local /\ loc[u].chan \in 0..Len(chan)
      /\ t \in After["send"] /\ t \in Seq(Steps) /\ TailSound("send", t)
      /\ Pending(u) = {"send"} \union Range(t)
  BY <1>0, StepFacts
<1>2. left # <<>> /\ left \in Seq(User) /\ Head(left) \in User /\ Tail(left) \in Seq(User)
  <2>1. left # <<>> /\ left \in Seq(User)
    BY <1>1 DEF TaskSound, Local
  <2> QED BY <2>1, HeadTailProperties
<1>3. CASE Then(u, <<>>, l) /\ Same
  <2>1. l \in Local /\ l.chan = loc[u].chan /\ l.skip = loc[u].skip
    <3>1. /\ loc[u] \in Local /\ Tail(left) \in Seq(User)
          /\ l = [loc[u] EXCEPT !.left = Tail(left)]
      BY <1>1, <1>2
    <3> HIDE DEF l, left
    <3>2. l \in Local
      BY <3>1, LocalLeft
    <3>3. l.chan = loc[u].chan /\ l.skip = loc[u].skip
      BY <3>1 DEF Local
    <3> QED BY <3>2, <3>3
  <2> HIDE DEF l
  <2>2. todo'[u] = t /\ Pending(u)' = Range(t)
    BY <1>0, <1>1, <1>3, <2>1, PopFacts DEF Typed, TaskSound
  <2>3. t # <<>> /\ Head(t) = "visit"
    <3>1. PICK r \in RelayTails : t = <<"visit">> \o r
      BY <1>1, AfterValues
    <3> QED BY <3>1, SendTailsSound
  <2>4. Top(u)' = "visit"
    BY <2>2, <2>3 DEF Top
  <2>5. Surroundings(u) /\ chan' = chan /\ cLock' = cLock /\ chanLock' = chanLock
    BY <1>3, SameSurroundings DEF Same, locks
  <2>6. LocksSound(u)'
    BY <1>1, <2>2, <2>4, <2>5, WalkLocks DEF Holding
  <2> QED BY <1>0, <1>1, <1>3, <2>1, <2>5, <2>6, PopStep
<1>4. CASE Hang(u, Head(left))
  BY <1>0, <1>2, <1>4, HangKeeps
<1> QED BY <1>3, <1>4 DEF Send, Same, outside

LEMMA AllChansKeeps ==
    ASSUME ServerInv, NEW u \in User, AllChans(u) PROVE ServerInv'
<1> DEFINE list == <<"nextchan">>
           l == [loc[u] EXCEPT !.chans = Iterated(u), !.skip = TRUE]
           t == Tail(todo[u])
<1>0. /\ At(u, "chans") /\ cLock' = [cLock EXCEPT ![u] = u] /\ Then(u, list, l)
      /\ UNCHANGED <<people, mychans, frozen, chanlist, chan, iter, lock, chanLock, gone>>
  BY DEF AllChans, members, channels, outside
<1>1. /\ Typed /\ TaskSound(u) /\ LocksSound(u) /\ Top(u) = "chans"
      /\ loc[u] \in Local /\ loc[u].chan \in 0..Len(chan)
      /\ t \in AllChansTails /\ t \in Seq(Steps)
      /\ Pending(u) = {"chans"} \union Range(t)
  BY <1>0, StepFacts, AfterValues
<1>2. /\ list \in Seq(Steps) /\ list # <<>> /\ Head(list) = "nextchan"
      /\ Range(list) = {"nextchan"}
  BY AfterDomain, ShortSequences, RangeOne
<1>3. WellFormed(list \o t)
  BY <1>1, AfterDomain, AfterValues, OneMore
<1>4. l \in Local /\ l.chan = loc[u].chan /\ l.skip
  <2>1. Iterated(u) \in Seq(Name) /\ loc[u] \in Local
    BY <1>1, EmptySeq DEF Iterated, Typed, MembersTyped
  <2>2. l = [loc[u] EXCEPT !.chans = Iterated(u), !.skip = TRUE]
    OBVIOUS
  <2> HIDE DEF l
  <2>3. l \in Local
    BY <2>1, <2>2, LocalChansSkip
  <2>4. l.chan = loc[u].chan /\ l.skip
    BY <2>1, <2>2 DEF Local
  <2> QED BY <2>3, <2>4
<1> HIDE DEF list, l, t
<1>5. /\ cLock' \in [User -> User \union {NoOne}]
      /\ \A v \in User : cLock'[v] \in {u, cLock[v]}
  BY <1>0, <1>1 DEF Typed, LocksTyped
<1>6. Surroundings(u) /\ chan' = chan
  BY <1>0, <1>1, <1>5, MutexSurroundings DEF Typed, MembersTyped, ChannelsTyped
<1>7. Top(u)' = "nextchan" /\ "nextchan" \in Pending(u)'
  BY <1>0, <1>1, <1>2, <1>4, PushFacts DEF Typed, TaskSound, t
<1>8. LocksSound(u)'
  <2>1. lock' # u /\ \A o \in 1..Len(chan') : chanLock'[o] # u
    BY <1>0, <1>1 DEF LocksSound
  <2>2. ASSUME NEW v \in User, cLock'[v] = u PROVE v = u
    <3>1. cLock[v] = u => v = u
      BY <1>1 DEF LocksSound
    <3>2. v # u => cLock'[v] = cLock[v]
      BY <1>0, <1>1 DEF Typed, LocksTyped
    <3> QED BY <2>2, <3>1, <3>2
  <2> QED BY <1>7, <2>1, <2>2 DEF LocksSound, Holding
<1> QED BY <1>0, <1>1, <1>2, <1>3, <1>4, <1>6, <1>8, PushStep DEF ChanSteps, t

(* A sequence written out, behind one element. *)
LEMMA ConcatOne ==
    ASSUME NEW S, NEW a \in S, NEW p \in Seq(S), NEW q \in Seq(S),
           Len(q) = Len(p) + 1, q[1] = a, \A i \in 1..Len(p) : q[i + 1] = p[i]
    PROVE  <<a>> \o p = q
<1> DEFINE r == <<a>> \o p
<1>1. <<a>> \in Seq(S) /\ Len(<<a>>) = 1 /\ <<a>>[1] = a /\ Len(p) \in Nat
  BY ShortSequences, LenProperties
<1>2. /\ r \in Seq(S) /\ Len(r) = Len(p) + 1
      /\ \A i \in 1..(Len(p) + 1) : r[i] = IF i <= 1 THEN <<a>>[i] ELSE p[i - 1]
  BY <1>1, ConcatProperties
<1> HIDE DEF r
<1>3. ASSUME NEW i \in 1..Len(q) PROVE q[i] = r[i]
  <2>1. CASE i = 1
    BY <1>1, <1>2, <2>1
  <2>2. CASE i > 1
    <3>1. i - 1 \in 1..Len(p) /\ (i - 1) + 1 = i
      BY <1>1, <2>2
    <3>2. q[i] = p[i - 1]
      BY <3>1
    <3> QED BY <1>1, <1>2, <2>2, <3>2
  <2> QED BY <1>1, <2>1, <2>2
<1>4. q = r
  BY <1>2, <1>3, SeqEqual
<1> QED BY <1>4 DEF r

LEMMA RelayNextChan ==
    \A t \in AllChansTails : <<"nextchan">> \o t \in RelayTails
<1>1. <<"nextchan">> \o <<"setnick">> = <<"nextchan", "setnick">>
  <2> DEFINE p == <<"setnick">>
             q == <<"nextchan", "setnick">>
  <2>1. /\ p \in Seq(Steps) /\ q \in Seq(Steps) /\ "nextchan" \in Steps
        /\ Len(p) = 1 /\ Len(q) = 2 /\ q[1] = "nextchan" /\ q[2] = p[1]
    BY AfterDomain, ShortSequences
  <2> HIDE DEF p, q
  <2>2. \A i \in 1..Len(p) : q[i + 1] = p[i]
    BY <2>1
  <2>3. <<"nextchan">> \o p = q
    BY <2>1, <2>2, ConcatOne
  <2> QED BY <2>3 DEF p, q
<1>2. <<"nextchan">> \o <<"bye", "exit">> = <<"nextchan", "bye", "exit">>
  <2> DEFINE p == <<"bye", "exit">>
             q == <<"nextchan", "bye", "exit">>
  <2>1. /\ p \in Seq(Steps) /\ q \in Seq(Steps) /\ "nextchan" \in Steps
        /\ Len(p) = 2 /\ Len(q) = 3 /\ q[1] = "nextchan" /\ q[2] = p[1] /\ q[3] = p[2]
    BY AfterDomain, ShortSequences
  <2> HIDE DEF p, q
  <2>2. Len(q) = Len(p) + 1 /\ \A i \in 1..Len(p) : q[i + 1] = p[i]
    <3>1. \A i \in 1..2 : i = 1 \/ i = 2
      OBVIOUS
    <3> QED BY <2>1, <3>1
  <2>3. <<"nextchan">> \o p = q
    BY <2>1, <2>2, ConcatOne
  <2> QED BY <2>3 DEF p, q
<1> QED BY <1>1, <1>2, Zenon DEF AllChansTails, RelayTails

LEMMA NextChanKeeps ==
    ASSUME ServerInv, NEW u \in User, NextChan(u) PROVE ServerInv'
<1> DEFINE chans == loc[u].chans
           o == SeekChan(Head(chans))
           t == Tail(todo[u])
           l == [loc[u] EXCEPT !.chan = o, !.chans = Tail(chans)]
<1>0. /\ At(u, "nextchan")
      /\ UNCHANGED <<people, mychans, chanlist, chan, iter, lock, chanLock, gone>>
  BY DEF NextChan, channels, outside
<1>1. /\ Typed /\ TaskSound(u) /\ LocksSound(u) /\ Top(u) = "nextchan"
      /\ loc[u] \in Local /\ loc[u].chan \in 0..Len(chan)
      /\ t \in AllChansTails /\ t \in Seq(Steps)
      /\ Pending(u) = {"nextchan"} \union Range(t)
  BY <1>0, StepFacts, AfterValues
<1>2. loc[u].skip
  BY <1>1 DEF TaskSound
<1>3. CASE /\ cLock' = [cLock EXCEPT ![u] = NoOne]
           /\ frozen' = [frozen EXCEPT ![u] = FALSE]
           /\ Then(u, <<>>, loc[u])
  <2>1. cLock' \in [User -> User \union {NoOne}] /\ frozen' \in [User -> BOOLEAN]
        /\ cLock'[u] = NoOne /\ \A v \in User : v # u => cLock'[v] = cLock[v]
    BY <1>1, <1>3 DEF Typed, LocksTyped, MembersTyped
  <2>2. Surroundings(u) /\ chan' = chan
    BY <1>0, <1>1, <2>1, MutexSurroundings DEF Typed, ChannelsTyped
  <2>3. LocksSound(u)'
    <3>1. lock' # u /\ \A x \in 1..Len(chan') : chanLock'[x] # u
      BY <1>0, <1>1 DEF LocksSound
    <3>2. ASSUME NEW v \in User, cLock'[v] = u PROVE FALSE
      <4>1. cLock[v] = u => v = u
        BY <1>1 DEF LocksSound
      <4> QED BY <2>1, <3>2, <4>1, ChircAssumption
    <3> QED BY <3>1, <3>2 DEF LocksSound
  <2> QED BY <1>0, <1>1, <1>3, <2>2, <2>3, PopStep
<1>4. CASE /\ chans # <<>> /\ UNCHANGED <<cLock, frozen>>
           /\ Then(u, IF o = 0 THEN <<"segv">> ELSE <<"relay", "nextchan">>, l)
  <2>1. Same
    BY <1>0, <1>4 DEF Same, members, channels, locks
  <2>2. Surroundings(u) /\ LocksKept(u) /\ chan' = chan
    BY <2>1, SameSurroundings
  <2>3. /\ l \in Local /\ l.chan = o /\ l.skip = loc[u].skip
        /\ o \in 0..Len(chan)
    <3>1. chans \in Seq(Name)
      BY <1>1 DEF Local
    <3>2. Tail(chans) \in Seq(Name)
      BY <1>4, <3>1, HeadTailProperties
    <3>3. o \in 0..Len(chan) /\ Len(chan) \in Nat
      BY <1>1, SeekChanFacts, LenProperties DEF Typed, ChannelsTyped
    <3>4. /\ loc[u] \in Local /\ l = [loc[u] EXCEPT !.chan = o, !.chans = Tail(chans)]
          /\ o \in Nat
      BY <1>1, <3>3
    <3> HIDE DEF l, o, chans
    <3>5. l \in Local
      BY <3>2, <3>4, LocalNextChan
    <3>6. l.chan = o /\ l.skip = loc[u].skip
      BY <3>4 DEF Local
    <3> QED BY <3>3, <3>5, <3>6
  <2> HIDE DEF l, o, chans
  <2>4. CASE o = 0
    <3> DEFINE list == <<"segv">>
    <3>1. /\ list \in Seq(Steps) /\ list # <<>> /\ Head(list) = "segv"
          /\ Range(list) = {"segv"}
      BY AfterDomain, ShortSequences, RangeOne
    <3>2. WellFormed(list \o t)
      BY <1>1, AfterDomain, AfterValues, OneMore
    <3>3. Then(u, list, l)
      BY <1>4, <2>4
    <3> HIDE DEF list, t
    <3>4. Top(u)' = "segv"
      BY <1>0, <1>1, <2>3, <3>1, <3>3, PushFacts DEF Typed, TaskSound
    <3>5. LocksSound(u)'
      BY <1>1, <2>2, <3>4, KeptLocks
    <3> QED BY <1>0, <1>1, <1>2, <2>2, <2>3, <3>1, <3>2, <3>3, <3>5, PushStep
            DEF ChanSteps, t
  <2>5. CASE o # 0
    <3> DEFINE list == <<"relay", "nextchan">>
    <3>1. /\ list \in Seq(Steps) /\ list # <<>> /\ Head(list) = "relay"
          /\ Range(list) = {"relay", "nextchan"}
      BY AfterDomain, ShortSequences, RangeTwo
    <3>2. WellFormed(list \o t)
      <4>1. <<"nextchan">> \o t \in After["relay"]
        BY <1>1, AfterValues, RelayNextChan
      <4>2. "relay" \in Steps /\ "nextchan" \in Steps /\ t \in Seq(Steps)
        BY <1>1, AfterDomain
      <4> HIDE DEF t
      <4> QED BY <4>1, <4>2, TwoMore
    <3>3. Then(u, list, l)
      BY <1>4, <2>5
    <3> HIDE DEF list, t
    <3>4. Top(u)' = "relay" /\ "nextchan" \in Pending(u)'
      BY <1>0, <1>1, <2>3, <3>1, <3>3, PushFacts DEF Typed, TaskSound
    <3>5. LocksSound(u)'
      BY <1>1, <2>2, <3>4, KeptLocks DEF Holding
    <3> QED BY <1>0, <1>1, <1>2, <2>2, <2>3, <2>5, <3>1, <3>2, <3>3, <3>5, PushStep
            DEF t
  <2> QED BY <2>4, <2>5
<1> QED BY <1>3, <1>4 DEF NextChan

---------------------------------------------------------------------------
(* Steps that change the channels and who is in them. *)
LEMMA ChannelSurroundings ==
    ASSUME ServerInv, NEW u \in User, UNCHANGED <<people, lock, cLock, gone>>,
           MembersTyped', ChannelsTyped', Len(chan) <= Len(chan'),
           \A o \in 1..Len(chan') :
               \/ chanLock'[o] \in {NoOne, u}
               \/ o \in 1..Len(chan) /\ chanLock'[o] = chanLock[o]
    PROVE  /\ Surroundings(u)
           /\ (\A o \in 1..Len(chan') : chanLock'[o] = u =>
                   o \in 1..Len(chan) /\ chanLock[o] = u) => LocksKept(u)
<1>1. /\ conn' = conn /\ userlist' = userlist /\ nick' = nick /\ named' = named
      /\ numregistered' = numregistered
  BY DEF people
<1>2. PeopleTyped' /\ LocksTyped'
  BY <1>1 DEF ServerInv, Typed, PeopleTyped, LocksTyped
<1>3. ASSUME NEW w \in User, w # u PROVE LocksKept(w)
  <2>1. NoOne \notin User
    BY ChircAssumption
  <2> QED BY <1>3, <2>1 DEF LocksKept
<1>5. Surroundings(u)
  BY <1>1, <1>2, <1>3 DEF Surroundings
<1> QED BY <1>5 DEF LocksKept

LEMMA CreateKeeps ==
    ASSUME ServerInv, NEW u \in User, Create(u) PROVE ServerInv'
<1> DEFINE o == Len(chan) + 1
           new == [name |-> loc[u].name, numusers |-> 0]
           l == [loc[u] EXCEPT !.chan = o]
           list == <<"enter">>
           t == Tail(todo[u])
<1>0. /\ At(u, "create") /\ "create" \in Plain /\ Then(u, list, l)
      /\ chan' = Append(chan, new)
      /\ chanlist' = Changed(iter.active, chanlist, Append(chanlist, o))
      /\ chanLock' = Append(chanLock, NoOne)
      /\ UNCHANGED <<people, members, iter, lock, cLock, gone>>
  BY AfterDomain DEF Create, Plain, Holding
<1>1. /\ Typed /\ TaskSound(u) /\ Top(u) = "create" /\ loc[u] \in Local
      /\ t = <<>> /\ t \in Seq(Steps) /\ Len(chan) \in Nat
  BY <1>0, StepFacts, AfterValues
<1>2. loc[u].name \in Name
  BY <1>1 DEF Local
<1>3. /\ chan' \in Seq(Channel) /\ Len(chan') = o
      /\ chanLock' \in Seq(User \union {NoOne}) /\ Len(chanLock') = o
      /\ chanLock'[o] = NoOne /\ \A i \in 1..Len(chan) : chanLock'[i] = chanLock[i]
  <2>1. chan \in Seq(Channel) /\ new \in Channel
    BY <1>1, <1>2 DEF Typed, ChannelsTyped, Channel
  <2>2. chanLock \in Seq(User \union {NoOne}) /\ Len(chanLock) = Len(chan)
    BY <1>1 DEF Typed, ChannelsTyped
  <2> HIDE DEF new
  <2>3. chan' \in Seq(Channel) /\ Len(chan') = o
    BY <1>0, <2>1, AppendProperties
  <2>4. /\ chanLock' \in Seq(User \union {NoOne}) /\ Len(chanLock') = o
        /\ chanLock'[o] = NoOne /\ \A i \in 1..Len(chan) : chanLock'[i] = chanLock[i]
    BY <1>0, <2>2, AppendProperties
  <2> QED BY <2>3, <2>4
<1>4. chanlist' \in Seq(1..o)
  <2>1. chanlist \in Seq(1..o)
    BY <1>1 DEF Typed, ChannelsTyped
  <2>2. Append(chanlist, o) \in Seq(1..o)
    BY <1>1, <2>1, AppendProperties
  <2> QED BY <1>0, <2>1, <2>2 DEF Changed
<1>5. MembersTyped' /\ ChannelsTyped'
  BY <1>0, <1>1, <1>3, <1>4 DEF Typed, MembersTyped, ChannelsTyped, members
<1>6. Surroundings(u) /\ LocksKept(u)
  <2>1. /\ Len(chan) <= Len(chan')
        /\ \A i \in 1..Len(chan') : i = o \/ i \in 1..Len(chan)
    BY <1>1, <1>3
  <2>2. \A i \in 1..Len(chan') :
            \/ chanLock'[i] = NoOne
            \/ i \in 1..Len(chan) /\ chanLock'[i] = chanLock[i]
    BY <1>3, <2>1
  <2> QED BY <1>0, <1>5, <2>1, <2>2, ChannelSurroundings, ChircAssumption
<1>7. l \in Local /\ l.chan = o /\ l.skip = loc[u].skip
      /\ l.name = loc[u].name /\ l.chan \in 0..Len(chan') /\ l.chan # 0
  <2>1. loc[u] \in Local /\ o \in Nat /\ l = [loc[u] EXCEPT !.chan = o]
    BY <1>1
  <2>2. o \in 0..Len(chan') /\ o # 0
    BY <1>1, <1>3
  <2> HIDE DEF l, o
  <2> QED BY <2>1, <2>2, LocalChan
<1>8. /\ list \in Seq(Steps) /\ list # <<>> /\ Head(list) = "enter"
      /\ Range(list) = {"enter"}
  BY AfterDomain, ShortSequences, RangeOne
<1>9. WellFormed(list \o t)
  BY <1>1, AfterDomain, AfterValues, OneMore
<1> HIDE DEF list, l, t
<1> QED BY <1>0, <1>1, <1>2, <1>6, <1>7, <1>8, <1>9, PlainPush DEF t

(* A client's own list of channels changes. *)
LEMMA MychansSurroundings ==
    ASSUME ServerInv, NEW u \in User, NEW x \in Seq(Name),
           mychans' = [mychans EXCEPT ![u] = x],
           UNCHANGED <<people, frozen, channels, locks, gone>>
    PROVE  Surroundings(u) /\ LocksKept(u) /\ chan' = chan
<1>0. /\ chan' = chan /\ chanlist' = chanlist /\ iter' = iter
      /\ lock' = lock /\ cLock' = cLock /\ chanLock' = chanLock
  BY DEF channels, locks
<1>1. MembersTyped' /\ ChannelsTyped'
  BY <1>0 DEF ServerInv, Typed, MembersTyped, ChannelsTyped
<1>2. Len(chan) <= Len(chan')
  BY <1>0, LenProperties DEF ServerInv, Typed, ChannelsTyped
<1> QED BY <1>0, <1>1, <1>2, ChannelSurroundings

LEMMA EnterKeeps ==
    ASSUME ServerInv, NEW u \in User, Enter(u) PROVE ServerInv'
<1> DEFINE c == loc[u].name
           list == <<"inc", "relay", "sweep", "reply">>
           x == Changed(frozen[u], mychans[u], Append(mychans[u], c))
           t == Tail(todo[u])
<1>0. At(u, "enter") /\ "enter" \in Plain
      /\ UNCHANGED <<people, frozen, channels, locks, gone>>
  BY AfterDomain DEF Enter, Plain, Holding
<1>1. /\ Typed /\ TaskSound(u) /\ Top(u) = "enter" /\ loc[u] \in Local
      /\ t = <<>> /\ loc[u].chan \in 0..Len(chan)
  BY <1>0, StepFacts, AfterValues
<1>2. loc[u].name \in Name /\ loc[u].chan # 0
  BY <1>1 DEF TaskSound, ChanSteps, Local
<1>3. CASE Then(u, <<>>, loc[u]) /\ UNCHANGED mychans
  <2>1. Same
    BY <1>0, <1>3 DEF Same, members
  <2> QED BY <1>0, <1>3, <2>1, SamePop
<1>4. CASE mychans' = [mychans EXCEPT ![u] = x] /\ Then(u, list, loc[u])
  <2>1. x \in Seq(Name)
    <3>1. mychans[u] \in Seq(Name)
      BY <1>1 DEF Typed, MembersTyped
    <3>2. Append(mychans[u], c) \in Seq(Name)
      BY <1>2, <3>1, AppendProperties
    <3> QED BY <3>1, <3>2 DEF Changed
  <2> HIDE DEF x
  <2>2. Surroundings(u) /\ LocksKept(u) /\ chan' = chan
    BY <1>0, <1>4, <2>1, MychansSurroundings
  <2>3. /\ list \in Seq(Steps) /\ list # <<>> /\ Head(list) = "inc"
        /\ Range(list) = {"inc", "relay", "sweep", "reply"}
    BY AfterDomain, ShortSequences, RangeFour
  <2>4. WellFormed(list \o t)
    <3>1. WellFormed(list)
      BY AfterDomain, AfterValues DEF WellFormed
    <3> QED BY <1>1, <2>3, <3>1, ConcatEmptySeq
  <2> HIDE DEF list, t
  <2> QED BY <1>0, <1>1, <1>2, <1>4, <2>2, <2>3, <2>4, PlainPush DEF t, TaskSound
<1> QED BY <1>3, <1>4 DEF Enter

(* numusers of one channel changes. *)
LEMMA CountSurroundings ==
    ASSUME ServerInv, NEW u \in User, NEW o \in 1..Len(chan), NEW n \in Int,
           chan' = [chan EXCEPT ![o].numusers = n],
           UNCHANGED <<people, members, chanlist, iter, locks, gone>>
    PROVE  Surroundings(u) /\ LocksKept(u) /\ Len(chan') = Len(chan)
<1>0. chanlist' = chanlist /\ iter' = iter
      /\ lock' = lock /\ cLock' = cLock /\ chanLock' = chanLock
  BY DEF locks
<1>1. chan \in Seq(Channel) /\ Len(chan) \in Nat
  BY LenProperties DEF ServerInv, Typed, ChannelsTyped
<1> DEFINE new == [chan[o] EXCEPT !.numusers = n]
<1>2. new \in Channel
  <2>1. chan[o] \in Channel
    BY <1>1, ElementOfSeq
  <2> QED BY <2>1 DEF Channel
<1>3. chan' = [chan EXCEPT ![o] = new]
  OBVIOUS
<1> HIDE DEF new
<1>4. chan' \in Seq(Channel) /\ Len(chan') = Len(chan)
  BY <1>1, <1>2, <1>3, ExceptSeq
<1>5. MembersTyped' /\ ChannelsTyped'
  BY <1>0, <1>4 DEF ServerInv, Typed, MembersTyped, ChannelsTyped, members
<1>6. Len(chan) <= Len(chan')
  BY <1>1, <1>4
<1> QED BY <1>0, <1>4, <1>5, <1>6, ChannelSurroundings

LEMMA IncKeeps ==
    ASSUME ServerInv, NEW u \in User, Inc(u) PROVE ServerInv'
<1> DEFINE o == loc[u].chan
<1>0. /\ At(u, "inc") /\ "inc" \in Plain /\ Then(u, <<>>, loc[u])
      /\ chan' = [chan EXCEPT ![o].numusers = @ + 1]
      /\ UNCHANGED <<people, members, chanlist, iter, locks, gone>>
  BY AfterDomain DEF Inc, Plain, Holding, outside
<1>1. /\ Typed /\ TaskSound(u) /\ Top(u) = "inc" /\ loc[u] \in Local
      /\ o \in 0..Len(chan) /\ Len(chan) \in Nat
  BY <1>0, StepFacts
<1>2. o \in 1..Len(chan)
  BY <1>1 DEF TaskSound, ChanSteps
<1>3. chan[o].numusers + 1 \in Int
  <2>1. chan \in Seq(Channel)
    BY <1>1 DEF Typed, ChannelsTyped
  <2>2. chan[o] \in Channel
    BY <1>2, <2>1, ElementOfSeq
  <2>3. chan[o].numusers \in Int
    BY <2>2 DEF Channel
  <2> QED BY <2>3
<1>4. Surroundings(u) /\ LocksKept(u)
  BY <1>0, <1>2, <1>3, CountSurroundings
<1> QED BY <1>0, <1>1, <1>4, PlainPop

LEMMA DecKeeps ==
    ASSUME ServerInv, NEW u \in User, Dec(u) PROVE ServerInv'
<1> DEFINE o == loc[u].chan
           list == <<"test">>
           t == Tail(todo[u])
<1>0. /\ At(u, "dec") /\ "dec" \in Plain /\ Then(u, list, loc[u])
      /\ chan' = [chan EXCEPT ![o].numusers = @ - 1]
      /\ UNCHANGED <<people, members, chanlist, iter, locks, gone>>
  BY AfterDomain DEF Dec, Plain, Holding, outside
<1>1. /\ Typed /\ TaskSound(u) /\ Top(u) = "dec" /\ loc[u] \in Local
      /\ o \in 0..Len(chan) /\ Len(chan) \in Nat
      /\ t \in DecTails /\ t \in Seq(Steps)
  BY <1>0, StepFacts, AfterValues
<1>2. o \in 1..Len(chan)
  BY <1>1 DEF TaskSound, ChanSteps
<1>3. chan[o].numusers - 1 \in Int
  <2>1. chan \in Seq(Channel)
    BY <1>1 DEF Typed, ChannelsTyped
  <2>2. chan[o] \in Channel
    BY <1>2, <2>1, ElementOfSeq
  <2>3. chan[o].numusers \in Int
    BY <2>2 DEF Channel
  <2> QED BY <2>3
<1>4. Surroundings(u) /\ LocksKept(u) /\ Len(chan') = Len(chan)
  BY <1>0, <1>2, <1>3, CountSurroundings
<1>5. /\ list \in Seq(Steps) /\ list # <<>> /\ Head(list) = "test"
      /\ Range(list) = {"test"}
  BY AfterDomain, ShortSequences, RangeOne
<1>6. WellFormed(list \o t)
  <2>1. "test" \in Steps /\ t \in After["test"] /\ t \in Seq(Steps)
    BY <1>1, AfterDomain, AfterValues
  <2> HIDE DEF t
  <2> QED BY <2>1, OneMore
<1>7. loc[u].chan \in 0..Len(chan') /\ loc[u].chan # 0
  BY <1>1, <1>2, <1>4
<1> HIDE DEF list, t, o
<1> QED BY <1>0, <1>1, <1>4, <1>5, <1>6, <1>7, PlainPush DEF t

LEMMA LeaveKeeps ==
    ASSUME ServerInv, NEW u \in User, Leave(u) PROVE ServerInv'
<1> DEFINE x == Changed(frozen[u], mychans[u], RemoveFirst(mychans[u], loc[u].name))
<1>0. /\ At(u, "leave") /\ "leave" \in Plain /\ Then(u, <<>>, loc[u])
      /\ mychans' = [mychans EXCEPT ![u] = x]
      /\ UNCHANGED <<people, frozen, channels, locks, gone>>
  BY AfterDomain DEF Leave, Plain, Holding
<1>1. Typed /\ loc[u] \in Local
  BY <1>0, StepFacts
<1>2. x \in Seq(Name)
  <2>1. mychans[u] \in Seq(Name)
    BY <1>1 DEF Typed, MembersTyped
  <2>2. RemoveFirst(mychans[u], loc[u].name) \in Seq(Name)
    BY <2>1, RemoveFirstSeq
  <2> QED BY <2>1, <2>2 DEF Changed
<1> HIDE DEF x
<1>3. Surroundings(u) /\ LocksKept(u) /\ chan' = chan
  BY <1>0, <1>2, MychansSurroundings
<1> QED BY <1>0, <1>1, <1>3, PlainPop

(* A chan_lock is taken or released. *)
LEMMA ChanLockTyped ==
    ASSUME ServerInv, NEW o \in 1..Len(chan), NEW h \in User \union {NoOne},
           chanLock' = [chanLock EXCEPT ![o] = h]
    PROVE  /\ chanLock' \in Seq(User \union {NoOne}) /\ Len(chanLock') = Len(chan)
           /\ chanLock'[o] = h
           /\ \A i \in 1..Len(chan) : i # o => chanLock'[i] = chanLock[i]
<1>1. chanLock \in Seq(User \union {NoOne}) /\ Len(chanLock) = Len(chan)
  BY DEF ServerInv, Typed, ChannelsTyped
<1> QED BY <1>1, ExceptSeq

LEMMA DestroyKeeps ==
    ASSUME ServerInv, NEW u \in User, Destroy(u) PROVE ServerInv'
<1> DEFINE o == loc[u].chan
           list == <<"unlist">>
           t == Tail(todo[u])
<1>0. /\ At(u, "destroy") /\ "destroy" \in Plain
      /\ UNCHANGED <<people, members, channels, lock, cLock, gone>>
  BY AfterDomain DEF Destroy, Plain, Holding, outside
<1>1. /\ Typed /\ TaskSound(u) /\ LocksSound(u) /\ Top(u) = "destroy"
      /\ loc[u] \in Local
      /\ o \in 0..Len(chan) /\ Len(chan) \in Nat
      /\ t \in DecTails /\ t \in Seq(Steps)
      /\ Pending(u) = {"destroy"} \union Range(t)
  BY <1>0, StepFacts, AfterValues
<1>2. o \in 1..Len(chan) /\ o # 0
  BY <1>1 DEF TaskSound, ChanSteps
<1>3. CASE Then(u, <<>>, loc[u]) /\ UNCHANGED chanLock
  <2>1. Same
    BY <1>0, <1>3 DEF Same, locks
  <2> QED BY <1>0, <1>3, <2>1, SamePop
<1>4. CASE chanLock' = [chanLock EXCEPT ![o] = u] /\ Then(u, list, loc[u])
  <2>1. /\ chanLock' \in Seq(User \union {NoOne}) /\ Len(chanLock') = Len(chan)
        /\ chanLock'[o] = u
        /\ \A i \in 1..Len(chan) : i # o => chanLock'[i] = chanLock[i]
    BY <1>2, <1>4, ChanLockTyped
  <2>2. chan' = chan /\ chanlist' = chanlist /\ iter' = iter
    BY <1>0 DEF channels
  <2>3. MembersTyped' /\ ChannelsTyped'
    BY <1>0, <1>1, <2>1, <2>2 DEF Typed, MembersTyped, ChannelsTyped, members
  <2>4. Surroundings(u)
    <3>1. \A i \in 1..Len(chan') :
              \/ chanLock'[i] \in {NoOne, u}
              \/ i \in 1..Len(chan) /\ chanLock'[i] = chanLock[i]
      BY <2>1, <2>2
    <3>2. Len(chan) <= Len(chan')
      BY <1>1, <2>2
    <3> QED BY <1>0, <2>3, <3>1, <3>2, ChannelSurroundings
  <2>5. /\ list \in Seq(Steps) /\ list # <<>> /\ Head(list) = "unlist"
        /\ Range(list) = {"unlist"}
    BY AfterDomain, ShortSequences, RangeOne
  <2>6. WellFormed(list \o t)
    <3>1. "unlist" \in Steps /\ t \in After["unlist"] /\ t \in Seq(Steps)
      BY <1>1, AfterDomain, AfterValues
    <3> HIDE DEF t
    <3> QED BY <3>1, OneMore
  <2> HIDE DEF list
  <2>7. /\ Top(u)' = "unlist" /\ loc'[u] = loc[u]
        /\ Pending(u)' = {"unlist"} \union Range(t)
    BY <1>0, <1>1, <1>4, <2>5, PushFacts DEF Typed, TaskSound
  <2>8. LocksSound(u)'
    <3>1. lock' # u
      BY <1>0, <1>1 DEF LocksSound
    <3>2. ASSUME NEW v \in User, cLock'[v] = u
          PROVE  v = u /\ Holding \intersect Pending(u)' # {}
      <4>1. v = u /\ Holding \intersect Pending(u) # {}
        BY <1>0, <1>1, <3>2 DEF LocksSound
      <4> QED BY <1>1, <2>7, <4>1 DEF Holding
    <3>3. ASSUME NEW i \in 1..Len(chan'), chanLock'[i] = u PROVE i = o
      <4>1. chanLock[i] # u
        BY <1>1, <2>2 DEF LocksSound
      <4> QED BY <2>1, <2>2, <3>3, <4>1
    <3> QED BY <2>7, <3>1, <3>2, <3>3 DEF LocksSound
  <2> HIDE DEF t
  <2> QED BY <1>0, <1>1, <1>2, <1>4, <2>2, <2>4, <2>5, <2>6, <2>8, PushStep DEF t
<1> QED BY <1>3, <1>4 DEF Destroy

LEMMA UnlistKeeps ==
    ASSUME ServerInv, NEW u \in User, Unlist(u) PROVE ServerInv'
<1> DEFINE o == loc[u].chan
           t == Tail(todo[u])
<1>0. /\ At(u, "unlist") /\ Then(u, <<>>, loc[u])
      /\ chanlist' = Changed(iter.active, chanlist, RemoveFirst(chanlist, o))
      /\ chanLock' = [chanLock EXCEPT ![o] = NoOne]
      /\ UNCHANGED <<people, members, chan, iter, lock, cLock, gone>>
  BY DEF Unlist
<1>1. /\ Typed /\ TaskSound(u) /\ LocksSound(u) /\ Top(u) = "unlist"
      /\ loc[u] \in Local
      /\ o \in 0..Len(chan) /\ Len(chan) \in Nat
      /\ t \in Seq(Steps) /\ Pending(u) = {"unlist"} \union Range(t)
  BY <1>0, StepFacts
<1>2. o \in 1..Len(chan)
  BY <1>1 DEF TaskSound, ChanSteps
<1>3. /\ chanLock' \in Seq(User \union {NoOne}) /\ Len(chanLock') = Len(chan)
      /\ chanLock'[o] = NoOne
      /\ \A i \in 1..Len(chan) : i # o => chanLock'[i] = chanLock[i]
  BY <1>0, <1>2, ChanLockTyped
<1>4. chanlist' \in Seq(1..Len(chan))
  <2>1. chanlist \in Seq(1..Len(chan))
    BY <1>1 DEF Typed, ChannelsTyped
  <2>2. RemoveFirst(chanlist, o) \in Seq(1..Len(chan))
    BY <2>1, RemoveFirstSeq
  <2> QED BY <1>0, <2>1, <2>2 DEF Changed
<1>5. MembersTyped' /\ ChannelsTyped'
  BY <1>0, <1>1, <1>3, <1>4 DEF Typed, MembersTyped, ChannelsTyped, members
<1>6. Surroundings(u)
  <2>1. \A i \in 1..Len(chan') :
            \/ chanLock'[i] \in {NoOne, u}
            \/ i \in 1..Len(chan) /\ chanLock'[i] = chanLock[i]
    BY <1>0, <1>3
  <2>2. Len(chan) <= Len(chan')
    BY <1>0, <1>1
  <2> QED BY <1>0, <1>5, <2>1, <2>2, ChannelSurroundings
<1>7. Pending(u)' = Range(t)
  BY <1>0, <1>1, PopFacts DEF Typed, TaskSound
<1>8. LocksSound(u)'
  <2>1. lock' # u
    BY <1>0, <1>1 DEF LocksSound
  <2>2. ASSUME NEW v \in User, cLock'[v] = u
        PROVE  v = u /\ Holding \intersect Pending(u)' # {}
    <3>1. v = u /\ Holding \intersect Pending(u) # {}
      BY <1>0, <1>1, <2>2 DEF LocksSound
    <3> QED BY <1>1, <1>7, <3>1 DEF Holding
  <2>3. ASSUME NEW i \in 1..Len(chan'), chanLock'[i] = u PROVE FALSE
    <3>1. chanLock[i] = u => i = o
      BY <1>0, <1>1 DEF LocksSound
    <3> QED BY <1>0, <1>3, <2>3, <3>1, ChircAssumption
  <2> QED BY <2>1, <2>2, <2>3 DEF LocksSound
<1> QED BY <1>0, <1>1, <1>6, <1>8, PopStep

---------------------------------------------------------------------------
(* The end of a connection. *)
LEMMA EndOfFileKeeps ==
    ASSUME ServerInv, NEW u \in User, EndOfFile(u) PROVE ServerInv'
<1> DEFINE steps == <<"exit">>
<1>1. Startable(steps)
  BY StartLists
<1>2. /\ steps # <<>> /\ Head(steps) = "exit" /\ Range(steps) = {"exit"}
      /\ Idle(u) /\ Same /\ Goto(u, steps, Blank)
  BY RangeOne DEF EndOfFile, Same, outside
<1>3. Blank \in Local /\ Blank.chan \in 0..Len(chan)
  BY BlankFacts, LenProperties DEF ServerInv, Typed, ChannelsTyped
<1> HIDE DEF steps
<1> QED BY <1>1, <1>2, <1>3, IdleKeeps DEF ChanSteps

LEMMA ExitKeeps ==
    ASSUME ServerInv, NEW u \in User, Exit(u) PROVE ServerInv'
<1> DEFINE list == <<"drop">>
           l == [loc[u] EXCEPT !.chans = Iterated(u)]
           t == Tail(todo[u])
<1>0. /\ At(u, "exit") /\ cLock' = [cLock EXCEPT ![u] = u] /\ Then(u, list, l)
      /\ UNCHANGED <<people, mychans, frozen, chanlist, chan, iter, lock, chanLock, gone>>
  BY DEF Exit, members, channels
<1>1. /\ Typed /\ TaskSound(u) /\ LocksSound(u) /\ Top(u) = "exit"
      /\ loc[u] \in Local /\ loc[u].chan \in 0..Len(chan)
      /\ t = <<>> /\ t \in Seq(Steps)
  BY <1>0, StepFacts, AfterValues
<1>2. /\ list \in Seq(Steps) /\ list # <<>> /\ Head(list) = "drop"
      /\ Range(list) = {"drop"}
  BY AfterDomain, ShortSequences, RangeOne
<1>3. WellFormed(list \o t)
  BY <1>1, AfterDomain, AfterValues, OneMore
<1>4. l \in Local /\ l.chan = loc[u].chan /\ l.skip = loc[u].skip
  <2>1. Iterated(u) \in Seq(Name) /\ loc[u] \in Local
    BY <1>1, EmptySeq DEF Iterated, Typed, MembersTyped
  <2>2. l = [loc[u] EXCEPT !.chans = Iterated(u)]
    OBVIOUS
  <2> HIDE DEF l
  <2>3. l \in Local
    BY <2>1, <2>2, LocalChans
  <2>4. l.chan = loc[u].chan /\ l.skip = loc[u].skip
    BY <2>1, <2>2 DEF Local
  <2> QED BY <2>3, <2>4
<1> HIDE DEF list, l, t
<1>5. /\ cLock' \in [User -> User \union {NoOne}]
      /\ \A v \in User : cLock'[v] \in {u, cLock[v]}
  BY <1>0, <1>1 DEF Typed, LocksTyped
<1>6. Surroundings(u) /\ chan' = chan
  BY <1>0, <1>1, <1>5, MutexSurroundings DEF Typed, MembersTyped, ChannelsTyped
<1>7. Top(u)' = "drop" /\ "drop" \in Pending(u)'
  BY <1>0, <1>1, <1>2, <1>4, PushFacts DEF Typed, TaskSound, t
<1>8. LocksSound(u)'
  <2>1. lock' # u /\ \A o \in 1..Len(chan') : chanLock'[o] # u
    BY <1>0, <1>1 DEF LocksSound
  <2>2. ASSUME NEW v \in User, cLock'[v] = u PROVE v = u
    <3>1. cLock[v] = u => v = u
      BY <1>1 DEF LocksSound
    <3>2. v # u => cLock'[v] = cLock[v]
      BY <1>0, <1>1 DEF Typed, LocksTyped
    <3> QED BY <2>2, <3>1, <3>2
  <2> QED BY <1>7, <2>1, <2>2 DEF LocksSound, Holding
<1> QED BY <1>0, <1>1, <1>2, <1>3, <1>4, <1>6, <1>8, PushStep DEF ChanSteps, t

LEMMA DropKeeps ==
    ASSUME ServerInv, NEW u \in User, Drop(u) PROVE ServerInv'
<1> DEFINE chans == loc[u].chans
           o == SeekChan(Head(chans))
           t == Tail(todo[u])
           l == [loc[u] EXCEPT !.chan = o, !.chans = Tail(chans)]
<1>0. At(u, "drop") /\ UNCHANGED <<people, channels, locks, gone>>
  BY DEF Drop, outside
<1>1. /\ Typed /\ TaskSound(u) /\ LocksSound(u) /\ Top(u) = "drop"
      /\ loc[u] \in Local /\ loc[u].chan \in 0..Len(chan)
      /\ t = <<>> /\ t \in Seq(Steps)
  BY <1>0, StepFacts, AfterValues
<1>6. <<"drop">> \o t = <<"drop">>
  <2>1. <<"drop">> \in Seq(Steps)
    BY AfterDomain, ShortSequences
  <2> QED BY <1>1, <2>1, ConcatEmptySeq
<1>2. CASE /\ mychans' = [mychans EXCEPT ![u] = <<>>]
           /\ frozen' = [frozen EXCEPT ![u] = FALSE]
           /\ Then(u, <<"forget">>, loc[u])
  <2> DEFINE list == <<"forget">>
  <2>1. /\ list \in Seq(Steps) /\ list # <<>> /\ Head(list) = "forget"
        /\ Range(list) = {"forget"}
    BY AfterDomain, ShortSequences, RangeOne
  <2>2. WellFormed(list \o t)
    BY <1>1, AfterDomain, AfterValues, OneMore
  <2>3. Then(u, list, loc[u])
    BY <1>2
  <2> HIDE DEF list, t
  <2>4. /\ chan' = chan /\ chanlist' = chanlist /\ iter' = iter
        /\ lock' = lock /\ cLock' = cLock /\ chanLock' = chanLock
    BY <1>0 DEF channels, locks
  <2>5. MembersTyped' /\ ChannelsTyped'
    BY <1>1, <1>2, <2>4, EmptySeq DEF Typed, MembersTyped, ChannelsTyped
  <2>6. Surroundings(u) /\ LocksKept(u)
    <3>1. Len(chan) <= Len(chan')
      BY <1>1, <2>4, LenProperties DEF Typed, ChannelsTyped
    <3> QED BY <1>0, <2>4, <2>5, <3>1, ChannelSurroundings
  <2>7. Top(u)' = "forget" /\ "forget" \in Pending(u)'
    BY <1>0, <1>1, <2>1, <2>3, PushFacts DEF Typed, TaskSound
  <2>8. LocksSound(u)'
    BY <1>1, <2>6, <2>7, KeptLocks DEF Holding
  <2> QED BY <1>0, <1>1, <2>1, <2>2, <2>3, <2>4, <2>6, <2>8, PushStep
          DEF ChanSteps, t
<1>3. CASE /\ chans # <<>> /\ UNCHANGED members
           /\ Then(u, IF o = 0 THEN <<"segv", "drop">> ELSE <<"dec", "drop">>, l)
  <2>1. Same
    BY <1>0, <1>3 DEF Same
  <2>2. Surroundings(u) /\ LocksKept(u) /\ chan' = chan
    BY <2>1, SameSurroundings
  <2>3. /\ l \in Local /\ l.chan = o /\ l.skip = loc[u].skip
        /\ o \in 0..Len(chan)
    <3>1. chans \in Seq(Name)
      BY <1>1 DEF Local
    <3>2. Tail(chans) \in Seq(Name)
      BY <1>3, <3>1, HeadTailProperties
    <3>3. o \in 0..Len(chan) /\ Len(chan) \in Nat
      BY <1>1, SeekChanFacts, LenProperties DEF Typed, ChannelsTyped
    <3>4. /\ loc[u] \in Local /\ l = [loc[u] EXCEPT !.chan = o, !.chans = Tail(chans)]
          /\ o \in Nat
      BY <1>1, <3>3
    <3> HIDE DEF l, o, chans
    <3>5. l \in Local
      BY <3>2, <3>4, LocalNextChan
    <3>6. l.chan = o /\ l.skip = loc[u].skip
      BY <3>4 DEF Local
    <3> QED BY <3>3, <3>5, <3>6
  <2> HIDE DEF l, o, chans
  <2>4. CASE o = 0
    <3> DEFINE list == <<"segv", "drop">>
    <3>1. /\ list \in Seq(Steps) /\ list # <<>> /\ Head(list) = "segv"
          /\ Range(list) = {"segv", "drop"}
      BY AfterDomain, ShortSequences, RangeTwo
    <3>2. WellFormed(list \o t)
      <4>1. <<"drop">> \o t \in After["segv"]
        BY <1>6, AfterValues
      <4>2. "segv" \in Steps /\ "drop" \in Steps /\ t \in Seq(Steps)
        BY <1>1, AfterDomain
      <4> HIDE DEF t
      <4> QED BY <4>1, <4>2, TwoMore
    <3>3. Then(u, list, l)
      BY <1>3, <2>4
    <3> HIDE DEF list, t
    <3>4. Top(u)' = "segv"
      BY <1>0, <1>1, <2>3, <3>1, <3>3, PushFacts DEF Typed, TaskSound
    <3>5. LocksSound(u)'
      BY <1>1, <2>2, <3>4, KeptLocks
    <3> QED BY <1>0, <1>1, <2>2, <2>3, <3>1, <3>2, <3>3, <3>5, PushStep
            DEF ChanSteps, t
  <2>5. CASE o # 0
    <3> DEFINE list == <<"dec", "drop">>
    <3>1. /\ list \in Seq(Steps) /\ list # <<>> /\ Head(list) = "dec"
          /\ Range(list) = {"dec", "drop"}
      BY AfterDomain, ShortSequences, RangeTwo
    <3>2. WellFormed(list \o t)
      <4>1. <<"drop">> \o t \in After["dec"]
        BY <1>6, AfterValues DEF DecTails
      <4>2. "dec" \in Steps /\ "drop" \in Steps /\ t \in Seq(Steps)
        BY <1>1, AfterDomain
      <4> HIDE DEF t
      <4> QED BY <4>1, <4>2, TwoMore
    <3>3. Then(u, list, l)
      BY <1>3, <2>5
    <3> HIDE DEF list, t
    <3>4. Top(u)' = "dec" /\ "drop" \in Pending(u)'
      BY <1>0, <1>1, <2>3, <3>1, <3>3, PushFacts DEF Typed, TaskSound
    <3>5. LocksSound(u)'
      BY <1>1, <2>2, <3>4, KeptLocks DEF Holding
    <3> QED BY <1>0, <1>1, <2>2, <2>3, <2>5, <3>1, <3>2, <3>3, <3>5, PushStep
            DEF t
  <2> QED BY <2>4, <2>5
<1> QED BY <1>2, <1>3 DEF Drop

(* Nothing is held between commands. *)
LEMMA IdleHolds ==
    ASSUME NEW u \in User, LocksSound(u), todo[u] = <<>>
    PROVE  /\ lock # u /\ \A v \in User : cLock[v] # u
           /\ \A o \in 1..Len(chan) : chanLock[o] # u
<1>1. Top(u) = "" /\ Pending(u) = {}
  BY RangeEmpty DEF Top, Pending
<1> QED BY <1>1 DEF LocksSound

LEMMA IdleSound ==
    ASSUME NEW u \in User, todo'[u] = <<>>, loc'[u].chan \in 0..Len(chan'),
           lock' # u, \A v \in User : cLock'[v] # u,
           \A o \in 1..Len(chan') : chanLock'[o] # u
    PROVE  ThreadInv(u)'
<1>1. Top(u)' = "" /\ Pending(u)' = {}
  BY RangeEmpty DEF Top, Pending
<1>2. WellFormed(todo'[u])
  BY DEF WellFormed
<1>3. TaskSound(u)'
  BY <1>1, <1>2 DEF TaskSound, ChanSteps
<1>4. LocksSound(u)'
  BY <1>1 DEF LocksSound
<1> QED BY <1>3, <1>4 DEF ThreadInv

(* The invariant of every thread, when only that of u is in doubt. *)
LEMMA OtherThreads ==
    ASSUME ServerInv, NEW u \in User, ThreadInv(u)', Typed',
           Len(chan) <= Len(chan'),
           \A w \in User : w # u =>
               /\ todo'[w] = todo[w] /\ loc'[w] = loc[w] /\ conn'[w] = conn[w]
               /\ nick'[w] = nick[w] /\ named'[w] = named[w] /\ LocksKept(w)
    PROVE  \A w \in User : ThreadInv(w)'
<1>1. ASSUME NEW w \in User, w # u PROVE ThreadInv(w)'
  <2>1. Len(chan) \in Nat /\ Len(chan') \in Nat
    BY LenProperties DEF ServerInv, Typed, ChannelsTyped
  <2>2. ThreadInv(w)
    BY DEF ServerInv
  <2> QED BY <1>1, <2>1, <2>2, OtherThread
<1> QED BY <1>1

LEMMA ForgetKeeps ==
    ASSUME ServerInv, NEW u \in User, Forget(u) PROVE ServerInv'
<1>0. /\ At(u, "forget") /\ userlist' = RemoveFirst(userlist, u)
      /\ numregistered' = (numregistered - 1) % UINT_MOD
      /\ conn' = [conn EXCEPT ![u] = "exited"]
      /\ cLock' = [cLock EXCEPT ![u] = NoOne]
      /\ Goto(u, <<>>, Blank)
      /\ nick' = nick /\ named' = named /\ mychans' = mychans /\ frozen' = frozen
      /\ chanlist' = chanlist /\ chan' = chan /\ iter' = iter
      /\ lock' = lock /\ chanLock' = chanLock /\ gone' = gone
  BY DEF Forget, members, channels, outside
<1>1. /\ PeopleTyped /\ MembersTyped /\ ChannelsTyped /\ LocksTyped /\ ThreadsTyped
      /\ UserlistInv /\ LocksSound(u) /\ Top(u) = "forget" /\ Len(chan) \in Nat
  BY <1>0, StepFacts DEF ServerInv, Typed
<1>2. /\ todo' \in [User -> Seq(Steps)] /\ loc' \in [User -> Local]
      /\ todo'[u] = <<>> /\ loc'[u] = Blank
      /\ \A v \in User : v # u => todo'[v] = todo[v] /\ loc'[v] = loc[v]
  BY <1>0, <1>1, BlankFacts, ShortSequences, GotoFacts
<1>3. /\ userlist' \in Seq(User) /\ IsInjective(userlist')
      /\ Range(userlist') = Range(userlist) \ {u}
  BY <1>0, <1>1, RemoveFirstSeq, RemoveFirstInjective DEF PeopleTyped, UserlistInv
<1>4. /\ conn' \in [User -> {"new", "accepted", "up", "exited"}] /\ conn'[u] = "exited"
      /\ \A w \in User : w # u => conn'[w] = conn[w]
  BY <1>0, <1>1 DEF PeopleTyped
<1>5. numregistered' \in 0..(UINT_MOD - 1)
  <2>1. UINT_MOD \in Nat /\ UINT_MOD > 0 /\ numregistered \in 0..(UINT_MOD - 1)
    BY <1>1, ModulusPositive DEF PeopleTyped
  <2>2. (numregistered - 1) % UINT_MOD \in 0..(UINT_MOD - 1)
    BY <2>1
  <2> QED BY <1>0, <2>2
<1>6. PeopleTyped'
  BY <1>0, <1>1, <1>3, <1>4, <1>5 DEF PeopleTyped
<1>7. /\ cLock' \in [User -> User \union {NoOne}] /\ cLock'[u] = NoOne
      /\ \A w \in User : w # u => cLock'[w] = cLock[w]
  BY <1>0, <1>1 DEF LocksTyped
<1>8. Typed'
  <2>1. MembersTyped' /\ ChannelsTyped'
    BY <1>0, <1>1 DEF MembersTyped, ChannelsTyped
  <2>2. LocksTyped' /\ ThreadsTyped'
    BY <1>0, <1>1, <1>2, <1>7 DEF LocksTyped, ThreadsTyped
  <2> QED BY <1>6, <2>1, <2>2 DEF Typed
<1>9. UserlistInv'
  <2>1. Range(userlist') = {w \in User : conn'[w] = "up"}
    BY <1>1, <1>3, <1>4 DEF UserlistInv
  <2>2. ASSUME NEW w \in User, conn'[w] \in {"new", "accepted"}
        PROVE  nick'[w] = "" /\ ~named'[w] /\ todo'[w] = <<>>
    <3>1. w # u
      BY <1>4, <2>2
    <3> QED BY <1>0, <1>1, <1>2, <1>4, <2>2, <3>1 DEF UserlistInv
  <2> QED BY <1>3, <2>1, <2>2 DEF UserlistInv
<1>10. ThreadInv(u)'
  <2>1. lock' # u /\ \A o \in 1..Len(chan') : chanLock'[o] # u
    BY <1>0, <1>1 DEF LocksSound
  <2>2. ASSUME NEW v \in User, cLock'[v] = u PROVE FALSE
    <3>1. cLock[v] = u => v = u
      BY <1>1 DEF LocksSound
    <3> QED BY <1>7, <2>2, <3>1, ChircAssumption
  <2>3. loc'[u].chan \in 0..Len(chan')
    <3>1. loc'[u].chan = 0
      BY <1>2, BlankFacts
    <3>2. 0 \in 0..Len(chan')
      BY <1>0, <1>1
    <3> QED BY <3>1, <3>2, Zenon
  <2> QED BY <1>2, <2>1, <2>2, <2>3, IdleSound
<1>11. \A w \in User : ThreadInv(w)'
  <2>1. ASSUME NEW w \in User, w # u PROVE LocksKept(w)
    <3>1. \A v \in User : cLock'[v] = w => cLock[v] = w
      BY <1>7, <2>1, ChircAssumption
    <3> QED BY <1>0, <3>1 DEF LocksKept
  <2>2. Len(chan) <= Len(chan')
    BY <1>0, <1>1
  <2> QED BY <1>0, <1>2, <1>4, <1>8, <1>10, <2>1, <2>2, OtherThreads
<1> QED BY <1>8, <1>9, <1>11 DEF ServerInv

---------------------------------------------------------------------------
(* Walks over the userlist and over chanlist. *)
LEMMA SweepKeeps ==
    ASSUME ServerInv, NEW u \in User, Sweep(u) PROVE ServerInv'
<1> DEFINE list == <<"meet">>
           l == [loc[u] EXCEPT !.left = userlist]
           t == Tail(todo[u])
<1>0. /\ At(u, "sweep") /\ lock' = u /\ Then(u, list, l)
      /\ UNCHANGED <<people, mychans, frozen, chanlist, chan, iter, cLock, chanLock, gone>>
  BY DEF Sweep, members, channels, outside
<1>1. /\ Typed /\ TaskSound(u) /\ LocksSound(u) /\ Top(u) = "sweep"
      /\ loc[u] \in Local /\ loc[u].chan \in 0..Len(chan)
      /\ t \in WalkTails /\ t \in Seq(Steps)
      /\ Pending(u) = {"sweep"} \union Range(t)
  BY <1>0, StepFacts, AfterValues
<1>2. /\ list \in Seq(Steps) /\ list # <<>> /\ Head(list) = "meet"
      /\ Range(list) = {"meet"}
  BY AfterDomain, ShortSequences, RangeOne
<1>3. WellFormed(list \o t)
  <2>1. "meet" \in Steps /\ t \in After["meet"] /\ t \in Seq(Steps)
    BY <1>1, AfterDomain, AfterValues
  <2> HIDE DEF t
  <2> QED BY <2>1, OneMore
<1>4. l \in Local /\ l.chan = loc[u].chan /\ l.skip = loc[u].skip
  <2>1. /\ userlist \in Seq(User) /\ loc[u] \in Local
        /\ l = [loc[u] EXCEPT !.left = userlist]
    BY <1>1 DEF Typed, PeopleTyped
  <2> HIDE DEF l
  <2>2. l \in Local
    BY <2>1, LocalLeft
  <2>3. l.chan = loc[u].chan /\ l.skip = loc[u].skip
    BY <2>1 DEF Local
  <2> QED BY <2>2, <2>3
<1> HIDE DEF list, l
<1>5. Surroundings(u) /\ chan' = chan
  BY <1>0, <1>1, MutexSurroundings
     DEF Typed, MembersTyped, ChannelsTyped, LocksTyped
<1>6. Top(u)' = "meet" /\ Pending(u)' = {"meet"} \union Range(t)
  BY <1>0, <1>1, <1>2, <1>4, PushFacts DEF Typed, TaskSound
<1>7. LocksSound(u)'
  BY <1>0, <1>1, <1>5, <1>6, WalkLocks DEF Holding
<1> HIDE DEF t
<1> QED BY <1>0, <1>1, <1>2, <1>3, <1>4, <1>5, <1>7, PushStep DEF ChanSteps, t

LEMMA MeetKeeps ==
    ASSUME ServerInv, NEW u \in User, Meet(u) PROVE ServerInv'
<1> DEFINE left == loc[u].left
           l == [loc[u] EXCEPT !.left = Tail(left)]
           list == <<"meet">>
           t == Tail(todo[u])
<1>0. At(u, "meet")
  BY DEF Meet
<1>1. /\ Typed /\ TaskSound(u) /\ LocksSound(u) /\ Top(u) = "meet"
      /\ loc[u] \in Local /\ loc[u].chan \in 0..Len(chan)
      /\ t \in WalkTails /\ t \in Seq(Steps)
      /\ Pending(u) = {"meet"} \union Range(t)
  BY <1>0, StepFacts, AfterValues
<1>2. CASE /\ lock' = NoOne /\ Then(u, <<>>, loc[u])
           /\ UNCHANGED <<people, members, channels, cLock, chanLock, gone>>
  <2>1. Surroundings(u) /\ chan' = chan
    BY <1>1, <1>2, MutexSurroundings
       DEF Typed, MembersTyped, ChannelsTyped, LocksTyped, members, channels
  <2>2. Pending(u)' = Range(t)
    BY <1>0, <1>1, <1>2, PopFacts DEF Typed, TaskSound
  <2>3. lock' # u
    BY <1>2, ChircAssumption
  <2>4. LocksSound(u)'
    BY <1>1, <1>2, <2>1, <2>2, <2>3, WalkLocks DEF Holding
  <2> QED BY <1>0, <1>1, <1>2, <2>1, <2>4, PopStep
<1>3. CASE /\ left # <<>> /\ Then(u, list, l)
           /\ frozen' = [frozen EXCEPT ![Head(left)] =
                             @ /\ ~(loc[u].kind = "WHO" /\ Head(left) # u)]
           /\ UNCHANGED <<people, mychans, channels, locks, gone>>
  <2>0. left \in Seq(User) /\ Tail(left) \in Seq(User)
    <3>1. left \in Seq(User)
      BY <1>1 DEF Local
    <3> QED BY <1>3, <3>1, HeadTailProperties
  <2>1. /\ list \in Seq(Steps) /\ list # <<>> /\ Head(list) = "meet"
        /\ Range(list) = {"meet"}
    BY AfterDomain, ShortSequences, RangeOne
  <2>2. WellFormed(list \o t)
    <3>1. "meet" \in Steps /\ t \in After["meet"] /\ t \in Seq(Steps)
      BY <1>1, AfterDomain, AfterValues
    <3> HIDE DEF t
    <3> QED BY <3>1, OneMore
  <2>3. l \in Local /\ l.chan = loc[u].chan /\ l.skip = loc[u].skip
    <3>1. loc[u] \in Local /\ l = [loc[u] EXCEPT !.left = Tail(left)]
      BY <1>1
    <3> HIDE DEF l, left
    <3>2. l \in Local
      BY <2>0, <3>1, LocalLeft
    <3>3. l.chan = loc[u].chan /\ l.skip = loc[u].skip
      BY <3>1 DEF Local
    <3> QED BY <3>2, <3>3
  <2>4. frozen' \in [User -> BOOLEAN]
    BY <1>1, <1>3 DEF Typed, MembersTyped
  <2>5. Surroundings(u) /\ chan' = chan
    BY <1>1, <1>3, <2>4, MutexSurroundings
       DEF Typed, ChannelsTyped, LocksTyped, channels, locks
  <2> HIDE DEF list, l, left
  <2>6. Top(u)' = "meet" /\ Pending(u)' = {"meet"} \union Range(t)
    BY <1>0, <1>1, <1>3, <2>1, <2>3, PushFacts DEF Typed, TaskSound
  <2>7. LocksSound(u)'
    <3>1. cLock' = cLock /\ chanLock' = chanLock
      BY <1>3 DEF locks
    <3> QED BY <1>1, <2>5, <2>6, <3>1, WalkLocks DEF Holding
  <2> HIDE DEF t
  <2> QED BY <1>0, <1>1, <1>3, <2>1, <2>2, <2>3, <2>5, <2>7, PushStep DEF ChanSteps, t
<1>4. CASE Hang(u, u)
  BY <1>0, <1>4, HangKeeps
<1> QED BY <1>2, <1>3, <1>4 DEF Meet, outside

(* The next channel of LIST or NAMES. *)
LEMMA NextChannelKeeps ==
    ASSUME ServerInv, NEW u \in User, NEW s \in {"list", "listnext"}, At(u, s),
           NEW o \in 0..Len(chan),
           NEW list \in {<<"sweep", "reply", "listnext">>, <<"reply", "listnext">>},
           Then(u, list, [loc[u] EXCEPT !.chan = o]),
           iter' \in [active : BOOLEAN, pos : Nat],
           UNCHANGED <<people, members, chanlist, chan, locks, gone>>
    PROVE  ServerInv'
<1> DEFINE l == [loc[u] EXCEPT !.chan = o]
           t == Tail(todo[u])
<1>0. s \in Plain
  BY AfterDomain DEF Plain, Holding
<1>1. /\ Typed /\ TaskSound(u) /\ LocksSound(u) /\ loc[u] \in Local
      /\ t = <<>> /\ Len(chan) \in Nat
  <2>1. /\ Typed /\ TaskSound(u) /\ LocksSound(u) /\ loc[u] \in Local
        /\ t \in After[s] /\ Len(chan) \in Nat
    BY StepFacts
  <2>2. After[s] = {<<>>}
    BY AfterValues
  <2> QED BY <2>1, <2>2
<1>2. /\ mychans' = mychans /\ frozen' = frozen
      /\ lock' = lock /\ cLock' = cLock /\ chanLock' = chanLock
  BY DEF members, locks
<1>3. Surroundings(u) /\ chan' = chan
  BY <1>1, <1>2, MutexSurroundings DEF Typed, MembersTyped, LocksTyped
<1>4. LocksKept(u)
  BY <1>2 DEF LocksKept
<1>5. l \in Local /\ l.chan = o /\ l.skip = loc[u].skip
  <2>1. loc[u] \in Local /\ o \in Nat /\ l = [loc[u] EXCEPT !.chan = o]
    BY <1>1
  <2> HIDE DEF l
  <2>2. l \in Local
    BY <2>1, LocalChan
  <2>3. l.chan = o /\ l.skip = loc[u].skip
    BY <2>1 DEF Local
  <2> QED BY <2>2, <2>3
<1>6. /\ list \in Seq(Steps) /\ list # <<>> /\ Head(list) \in {"sweep", "reply"}
      /\ Range(list) \subseteq {"sweep", "reply", "listnext"} /\ WellFormed(list)
  <2>1. CASE list = <<"sweep", "reply", "listnext">>
    <3>1. WellFormed(<<"sweep", "reply", "listnext">>)
      BY AfterDomain, AfterValues DEF WellFormed, WalkTails
    <3> QED BY <2>1, <3>1, AfterDomain, ShortSequences, RangeThree
  <2>2. CASE list = <<"reply", "listnext">>
    <3>1. WellFormed(<<"reply", "listnext">>)
      BY AfterDomain, AfterValues DEF WellFormed
    <3> QED BY <2>2, <3>1, AfterDomain, ShortSequences, RangeTwo
  <2> QED BY <2>1, <2>2
<1>7. WellFormed(list \o t)
  BY <1>1, <1>6, ConcatEmptySeq
<1>8. Then(u, list, l) /\ l.chan \in 0..Len(chan')
  BY <1>3, <1>5
<1> HIDE DEF l, t
<1> QED BY <1>0, <1>1, <1>3, <1>4, <1>5, <1>6, <1>7, <1>8, PlainPush
        DEF ChanSteps, TaskSound, t

(* The end of the walk: NAMES goes on with the clients in no channel. *)
LEMMA LastChannelKeeps ==
    ASSUME ServerInv, NEW u \in User, NEW s \in {"list", "listnext"}, At(u, s),
           NEW x \in Seq(User), NEW list,
           \/ list \in {<<"meet", "bare">>, <<"meet", "reply", "bare">>} /\ lock' = u
           \/ list = <<"reply">> /\ lock' = NoOne,
           Then(u, list, [loc[u] EXCEPT !.left = x]),
           iter' \in [active : BOOLEAN, pos : Nat],
           UNCHANGED <<people, members, chanlist, chan, cLock, chanLock, gone>>
    PROVE  ServerInv'
<1> DEFINE l == [loc[u] EXCEPT !.left = x]
           t == Tail(todo[u])
<1>1. /\ Typed /\ TaskSound(u) /\ LocksSound(u) /\ loc[u] \in Local /\ Top(u) = s
      /\ t = <<>> /\ Len(chan) \in Nat /\ loc[u].chan \in 0..Len(chan)
      /\ Pending(u) = {s} \union Range(t)
  <2>1. /\ Typed /\ TaskSound(u) /\ LocksSound(u) /\ loc[u] \in Local /\ Top(u) = s
        /\ t \in After[s] /\ Len(chan) \in Nat /\ loc[u].chan \in 0..Len(chan)
        /\ Pending(u) = {s} \union Range(t)
    BY StepFacts
  <2>2. After[s] = {<<>>}
    BY AfterValues
  <2> QED BY <2>1, <2>2
<1>2. mychans' = mychans /\ frozen' = frozen
  BY DEF members
<1>3. Surroundings(u) /\ chan' = chan
  BY <1>1, <1>2, MutexSurroundings DEF Typed, MembersTyped, LocksTyped
<1>4. l \in Local /\ l.chan = loc[u].chan /\ l.skip = loc[u].skip
  <2>1. loc[u] \in Local /\ l = [loc[u] EXCEPT !.left = x]
    BY <1>1
  <2> HIDE DEF l
  <2>2. l \in Local
    BY <2>1, LocalLeft
  <2>3. l.chan = loc[u].chan /\ l.skip = loc[u].skip
    BY <2>1 DEF Local
  <2> QED BY <2>2, <2>3
<1>5. /\ list \in Seq(Steps) /\ list # <<>>
      /\ lock' = u => Head(list) = "meet"
      /\ Head(list) \in {"meet", "reply"}
      /\ Range(list) \subseteq {"meet", "reply", "bare"} /\ WellFormed(list)
  <2>1. CASE list = <<"meet", "bare">>
    <3>1. WellFormed(<<"meet", "bare">>)
      BY AfterDomain, AfterValues DEF WellFormed, WalkTails
    <3> QED BY <2>1, <3>1, AfterDomain, ShortSequences, RangeTwo
  <2>3. CASE list = <<"meet", "reply", "bare">>
    <3>1. WellFormed(<<"meet", "reply", "bare">>)
      BY AfterDomain, AfterValues DEF WellFormed, WalkTails
    <3> QED BY <2>3, <3>1, AfterDomain, ShortSequences, RangeThree
  <2>2. CASE list = <<"reply">> /\ lock' = NoOne
    <3>1. WellFormed(<<"reply">>)
      BY AfterDomain, AfterValues DEF WellFormed
    <3>2. lock' # u
      BY <2>2, ChircAssumption
    <3> QED BY <2>2, <3>1, <3>2, AfterDomain, ShortSequences, RangeOne
  <2> QED BY <2>1, <2>2, <2>3
<1>6. WellFormed(list \o t)
  BY <1>1, <1>5, ConcatEmptySeq
<1>7. Then(u, list, l) /\ l.chan \in 0..Len(chan')
  BY <1>1, <1>3, <1>4
<1> HIDE DEF l
<1>8. Top(u)' = Head(list) /\ Range(t) \subseteq Pending(u)'
  BY <1>1, <1>4, <1>5, <1>7, PushFacts DEF Typed, TaskSound
<1>9. LocksSound(u)'
  BY <1>1, <1>3, <1>5, <1>8, WalkLocks DEF Holding
<1> HIDE DEF t
<1> QED BY <1>1, <1>3, <1>4, <1>5, <1>6, <1>7, <1>9, PushStep DEF ChanSteps, t

LEMMA NextListedKeeps ==
    ASSUME ServerInv, NEW u \in User, NEW s \in {"list", "listnext"},
           NEW it \in [active : BOOLEAN, pos : Nat], NextListed(u, s, it)
    PROVE  ServerInv'
<1> DEFINE names == loc[u].kind = "NAMES"
<1>0. /\ At(u, s) /\ lock = NoOne
      /\ UNCHANGED <<people, members, chanlist, chan, cLock, chanLock, gone>>
  BY DEF NextListed, outside
<1>1. ChannelsTyped /\ Len(chan) \in Nat /\ userlist \in Seq(User)
  BY LenProperties DEF ServerInv, Typed, ChannelsTyped, PeopleTyped
<1>2. CASE /\ it.pos < Len(chanlist) /\ iter' = [it EXCEPT !.pos = @ + 1]
           /\ Then(u, IF names THEN <<"sweep", "reply", "listnext">>
                      ELSE <<"reply", "listnext">>,
                   [loc[u] EXCEPT !.chan = IF names THEN chanlist[it.pos + 1] ELSE 0])
           /\ UNCHANGED lock
  <2> DEFINE o == IF names THEN chanlist[it.pos + 1] ELSE 0
             list == IF names THEN <<"sweep", "reply", "listnext">>
                     ELSE <<"reply", "listnext">>
  <2>1. o \in 0..Len(chan)
    <3>1. chanlist \in Seq(1..Len(chan)) /\ Len(chanlist) \in Nat
      BY <1>1, LenProperties DEF ChannelsTyped
    <3>2. it.pos + 1 \in 1..Len(chanlist)
      BY <1>2, <3>1
    <3>3. chanlist[it.pos + 1] \in 1..Len(chan)
      BY <3>1, <3>2, ElementOfSeq
    <3>4. 0 \in 0..Len(chan)
      BY <1>1
    <3> QED BY <1>1, <3>3, <3>4
  <2>2. list \in {<<"sweep", "reply", "listnext">>, <<"reply", "listnext">>}
    OBVIOUS
  <2>3. iter' \in [active : BOOLEAN, pos : Nat]
    BY <1>2
  <2>4. Then(u, list, [loc[u] EXCEPT !.chan = o])
    BY <1>2
  <2>5. UNCHANGED <<people, members, chanlist, chan, locks, gone>>
    BY <1>0, <1>2 DEF locks
  <2> HIDE DEF o, list
  <2> QED BY <1>0, <2>1, <2>2, <2>3, <2>4, <2>5, NextChannelKeeps
<1>3. CASE /\ iter' = [active |-> FALSE, pos |-> 0]
           /\ lock' = IF names THEN u ELSE NoOne
           /\ \E last \in IF names THEN {<<"meet", "bare">>, <<"meet", "reply", "bare">>}
                          ELSE {<<"reply">>} :
                  Then(u, last, [loc[u] EXCEPT !.left = IF names THEN userlist ELSE <<>>])
  <2> DEFINE x == IF names THEN userlist ELSE <<>>
  <2>0. PICK list \in IF names THEN {<<"meet", "bare">>, <<"meet", "reply", "bare">>}
                       ELSE {<<"reply">>} :
                 Then(u, list, [loc[u] EXCEPT !.left = x])
    BY <1>3
  <2>1. x \in Seq(User)
    BY <1>1, EmptySeq
  <2>2. \/ list \in {<<"meet", "bare">>, <<"meet", "reply", "bare">>} /\ lock' = u
        \/ list = <<"reply">> /\ lock' = NoOne
    BY <1>3, <2>0
  <2>3. iter' \in [active : BOOLEAN, pos : Nat]
    BY <1>3
  <2>4. Then(u, list, [loc[u] EXCEPT !.left = x])
    BY <2>0
  <2> HIDE DEF x
  <2> QED BY <1>0, <2>1, <2>2, <2>3, <2>4, LastChannelKeeps
<1> QED BY <1>2, <1>3 DEF NextListed

LEMMA ListKeeps ==
    ASSUME ServerInv, NEW u \in User, List(u) \/ ListNext(u) PROVE ServerInv'
<1>1. iter \in [active : BOOLEAN, pos : Nat]
  BY DEF ServerInv, Typed, ChannelsTyped
<1>2. CASE List(u)
  <2> DEFINE it == IF iter.active THEN iter ELSE [active |-> TRUE, pos |-> 0]
  <2>1. it \in [active : BOOLEAN, pos : Nat]
    BY <1>1
  <2>2. NextListed(u, "list", it)
    BY <1>2 DEF List
  <2> HIDE DEF it
  <2> QED BY <2>1, <2>2, NextListedKeeps
<1>3. CASE ListNext(u)
  BY <1>1, <1>3, NextListedKeeps DEF ListNext
<1> QED BY <1>2, <1>3

---------------------------------------------------------------------------
(* Connections. *)
LEMMA ConnKeeps ==
    ASSUME ServerInv, NEW u \in User, NEW c \in {"accepted", "up"},
           conn' = [conn EXCEPT ![u] = c],
           \/ conn[u] = "new" /\ c = "accepted" /\ userlist' = userlist
           \/ conn[u] = "accepted" /\ c = "up" /\ userlist' = Append(userlist, u),
           UNCHANGED <<nick, named, numregistered, members, channels, locks, gone,
                       todo, loc>>
    PROVE  ServerInv'
<1>1. /\ PeopleTyped /\ MembersTyped /\ ChannelsTyped /\ LocksTyped /\ ThreadsTyped
      /\ UserlistInv /\ ThreadInv(u) /\ Len(chan) \in Nat
  BY LenProperties DEF ServerInv, Typed, ChannelsTyped
<1>2. /\ conn' \in [User -> {"new", "accepted", "up", "exited"}] /\ conn'[u] = c
      /\ \A w \in User : w # u => conn'[w] = conn[w]
  BY <1>1 DEF PeopleTyped
<1>3. u \notin Range(userlist) /\ todo[u] = <<>>
  BY <1>1 DEF UserlistInv
<1>4. /\ userlist' \in Seq(User) /\ IsInjective(userlist')
      /\ Range(userlist') = Range(userlist) \union (IF c = "up" THEN {u} ELSE {})
  <2>0. userlist \in Seq(User) /\ IsInjective(userlist)
    BY <1>1 DEF PeopleTyped, UserlistInv
  <2>1. CASE c = "accepted" /\ userlist' = userlist
    BY <2>0, <2>1
  <2>2. CASE c = "up" /\ userlist' = Append(userlist, u)
    BY <1>3, <2>0, <2>2, AppendNew
  <2> QED BY <2>1, <2>2
<1>5. /\ chan' = chan /\ chanlist' = chanlist /\ iter' = iter
      /\ mychans' = mychans /\ frozen' = frozen
      /\ lock' = lock /\ cLock' = cLock /\ chanLock' = chanLock
  BY DEF members, channels, locks
<1>6. Typed'
  <2>1. PeopleTyped'
    BY <1>1, <1>2, <1>4 DEF PeopleTyped
  <2>2. MembersTyped' /\ ChannelsTyped'
    BY <1>1, <1>5 DEF MembersTyped, ChannelsTyped
  <2>3. LocksTyped' /\ ThreadsTyped'
    BY <1>1, <1>5 DEF LocksTyped, ThreadsTyped
  <2> QED BY <2>1, <2>2, <2>3 DEF Typed
<1>7. UserlistInv'
  <2>1. Range(userlist') = {w \in User : conn'[w] = "up"}
    BY <1>1, <1>2, <1>4 DEF UserlistInv
  <2>2. ASSUME NEW w \in User, conn'[w] \in {"new", "accepted"}
        PROVE  nick'[w] = "" /\ ~named'[w] /\ todo'[w] = <<>>
    <3>1. conn[w] \in {"new", "accepted"}
      BY <1>2, <2>2
    <3> QED BY <1>1, <3>1 DEF UserlistInv
  <2> QED BY <1>4, <2>1, <2>2 DEF UserlistInv
<1>8. ThreadInv(u)'
  <2>1. loc'[u].chan \in 0..Len(chan') /\ todo'[u] = <<>>
    BY <1>1, <1>3, <1>5 DEF ThreadInv, TaskSound
  <2>2. /\ lock' # u /\ \A v \in User : cLock'[v] # u
        /\ \A o \in 1..Len(chan') : chanLock'[o] # u
    BY <1>1, <1>3, <1>5, IdleHolds DEF ThreadInv
  <2> QED BY <2>1, <2>2, IdleSound
<1>9. \A w \in User : ThreadInv(w)'
  <2>1. \A w \in User : LocksKept(w)
    BY <1>5 DEF LocksKept
  <2>2. Len(chan) <= Len(chan')
    BY <1>1, <1>5
  <2> QED BY <1>2, <1>6, <1>8, <2>1, <2>2, OtherThreads
<1> QED BY <1>6, <1>7, <1>9 DEF ServerInv

LEMMA HangUpKeeps ==
    ASSUME ServerInv, NEW u \in User, HangUp(u) PROVE ServerInv'
<1>1. /\ PeopleTyped /\ MembersTyped /\ ChannelsTyped /\ LocksTyped /\ ThreadsTyped
      /\ UserlistInv /\ Len(chan) \in Nat
  BY LenProperties DEF ServerInv, Typed, ChannelsTyped
<1>2. /\ conn' = conn /\ userlist' = userlist /\ nick' = nick /\ named' = named
      /\ numregistered' = numregistered /\ mychans' = mychans /\ frozen' = frozen
      /\ chan' = chan /\ chanlist' = chanlist /\ iter' = iter
      /\ lock' = lock /\ cLock' = cLock /\ chanLock' = chanLock
      /\ todo' = todo /\ loc' = loc /\ gone' = gone \union {u}
  BY DEF HangUp, people, members, channels, locks
<1>3. Typed'
  <2>1. PeopleTyped' /\ MembersTyped' /\ ChannelsTyped'
    BY <1>1, <1>2 DEF PeopleTyped, MembersTyped, ChannelsTyped
  <2>2. LocksTyped' /\ ThreadsTyped'
    BY <1>1, <1>2 DEF LocksTyped, ThreadsTyped
  <2> QED BY <2>1, <2>2 DEF Typed
<1>4. UserlistInv'
  BY <1>1, <1>2 DEF UserlistInv
<1>5. ASSUME NEW w \in User PROVE ThreadInv(w)'
  <2>1. LocksKept(w)
    BY <1>2 DEF LocksKept
  <2>2. ThreadInv(w) /\ Len(chan) <= Len(chan') /\ Len(chan') \in Nat
    BY <1>1, <1>2 DEF ServerInv
  <2> QED BY <1>1, <1>2, <2>1, <2>2, OtherThread
<1> QED BY <1>3, <1>4, <1>5 DEF ServerInv

---------------------------------------------------------------------------
(* The invariant. *)
LEMMA StepsKeep ==
    ASSUME ServerInv, NEW u \in User, Step(u) PROVE ServerInv'
<1>1. CASE Segv(u)
  BY <1>1, StutterKeeps DEF Segv, Same, outside
<1>8. CASE Bare(u) \/ Target(u)
  BY <1>8, BareKeeps, TargetKeeps
<1>2. CASE Reply(u) \/ Bye(u) \/ SetNick(u) \/ SetUser(u) \/ Register(u)
  BY <1>2, ReplyKeeps, ByeKeeps, SetNickKeeps, SetUserKeeps, RegisterKeeps
<1>3. CASE Relay(u) \/ Visit(u) \/ Send(u) \/ AllChans(u) \/ NextChan(u)
  BY <1>3, RelayKeeps, VisitKeeps, SendKeeps, AllChansKeeps, NextChanKeeps
<1>4. CASE Create(u) \/ Enter(u) \/ Inc(u) \/ Leave(u) \/ Dec(u)
  BY <1>4, CreateKeeps, EnterKeeps, IncKeeps, LeaveKeeps, DecKeeps
<1>5. CASE Test(u) \/ Destroy(u) \/ Unlist(u) \/ EndOfFile(u) \/ Exit(u)
  BY <1>5, TestKeeps, DestroyKeeps, UnlistKeeps, EndOfFileKeeps, ExitKeeps
<1>6. CASE Drop(u) \/ Forget(u) \/ Deliver(u) \/ Sweep(u) \/ Meet(u)
  BY <1>6, DropKeeps, ForgetKeeps, DeliverKeeps, SweepKeeps, MeetKeeps
<1>7. CASE List(u) \/ ListNext(u) \/ Whois(u)
  BY <1>7, ListKeeps, WhoisKeeps
<1> QED BY <1>1, <1>2, <1>3, <1>4, <1>5, <1>6, <1>7, <1>8 DEF Step

LEMMA NextKeeps == ServerInv /\ [Next]_vars => ServerInv'
<1> SUFFICES ASSUME ServerInv, [Next]_vars PROVE ServerInv'
  OBVIOUS
<1>1. CASE UNCHANGED vars
  BY <1>1, StutterKeeps DEF vars, Same, outside
<1>2. ASSUME NEW u \in User, accept_clients(u) \/ service_single_client(u)
      PROVE  ServerInv'
  BY <1>2, ConnKeeps DEF accept_clients, service_single_client, outside
<1>3. ASSUME NEW u \in User, HangUp(u) PROVE ServerInv'
  BY <1>3, HangUpKeeps
<1>4. ASSUME NEW u \in User, handle_chirc_message(u) PROVE ServerInv'
  BY <1>4, HandlersKeep
<1>5. ASSUME NEW u \in User, Step(u) PROVE ServerInv'
  BY <1>5, StepsKeep
<1> QED BY <1>1, <1>2, <1>3, <1>4, <1>5 DEF Next

(* The list of the veterans has each of them once. *)
LEMMA VeteransListed ==
    LET s == SetToSeq(Veterans) IN
    s \in Seq(User) /\ IsInjective(s) /\ Range(s) = Veterans
<1> DEFINE n == Cardinality(Veterans)
           s == SetToSeq(Veterans)
<1>1. IsFiniteSet(Veterans) /\ Veterans \subseteq User
  BY ChircAssumption, FS_Subset
<1>2. n \in Nat /\ ExistsBijection(1..n, Veterans)
  BY <1>1, FS_CardinalityType
<1>3. PICK b \in Bijection(1..n, Veterans) : TRUE
  BY <1>2 DEF ExistsBijection
<1>4. b \in [1..n -> Veterans] /\ IsInjective(b)
  BY <1>3 DEF Bijection, Injection
<1>5. s \in [1..n -> Veterans] /\ IsInjective(s)
  BY <1>4, Zenon DEF SetToSeq
<1> HIDE DEF s, n
<1>6. s \in Injection(1..n, Veterans)
  BY <1>5 DEF Injection
<1>7. Cardinality(1..n) = n /\ IsFiniteSet(1..n)
  BY <1>2, FS_Interval
<1>8. s \in Surjection(1..n, Veterans)
  BY <1>1, <1>6, <1>7, FS_Injection DEF n
<1>9. Range(s) = Veterans
  BY <1>8 DEF Surjection, Range
<1>10. s \in Seq(User)
  <2>1. s \in Seq(Veterans)
    BY <1>2, <1>5, SeqDef
  <2> QED BY <1>1, <2>1, SeqMonotonic
<1> QED BY <1>5, <1>9, <1>10 DEF s

LEMMA InitServer == Init => ServerInv
<1> SUFFICES ASSUME Init PROVE ServerInv
  OBVIOUS
<1> DEFINE n == Cardinality(Veterans)
<1>0. /\ Veterans \subseteq User /\ Lobby \in Chan /\ NickOf \in [Veterans -> Nick]
      /\ "" \notin Nick /\ NoOne \notin User
  BY ChircAssumption
<1>1. n \in Nat /\ IsFiniteSet(Veterans)
  <2>1. IsFiniteSet(Veterans)
    BY ChircAssumption, FS_Subset
  <2> QED BY <2>1, FS_CardinalityType
<1>2. userlist \in Seq(User) /\ IsInjective(userlist) /\ Range(userlist) = Veterans
  BY VeteransListed DEF Init
<1>3. PeopleTyped
  <2>1. n \in 0..(UINT_MOD - 1)
    <3>1. n < UINT_MOD /\ UINT_MOD \in Nat
      BY ChircAssumption, Zenon
    <3> HIDE DEF n
    <3> QED BY <1>1, <3>1
  <2>2. conn \in [User -> {"new", "accepted", "up", "exited"}]
    BY DEF Init
  <2>4. named \in [User -> BOOLEAN]
    <3>1. named = [u \in User |-> u \in Veterans]
      BY Zenon DEF Init
    <3>2. \A u \in User : (u \in Veterans) \in BOOLEAN
      OBVIOUS
    <3>3. [u \in User |-> u \in Veterans] \in [User -> BOOLEAN]
      BY <3>2
    <3> QED BY <3>1, <3>3, Zenon
  <2>3. nick \in [User -> Nick \union {""}]
    BY <1>0 DEF Init
  <2> QED BY <1>2, <2>1, <2>2, <2>3, <2>4 DEF Init, PeopleTyped
<1>4. MembersTyped
  <2>1. <<Lobby>> \in Seq(Name) /\ <<>> \in Seq(Name)
    BY <1>0, ShortSequences DEF Name
  <2>2. mychans \in [User -> Seq(Name)]
    BY <2>1, Zenon DEF Init
  <2> QED BY <2>2 DEF Init, MembersTyped
<1>5. chan \in Seq(Channel) /\ Len(chan) \in Nat
  <2>1. [name |-> Lobby, numusers |-> n] \in Channel
    <3> HIDE DEF n
    <3>1. n \in Int
      <4>1. n \in Nat
        BY <1>1, Zenon
      <4> QED BY <4>1
    <3>2. Lobby \in Chan
      BY <1>0, Zenon
    <3>3. [name |-> Lobby, numusers |-> n] \in [name : Name, numusers : Int]
      BY <3>1, <3>2 DEF Name
    <3> QED BY <3>3 DEF Channel
  <2>2. chan \in Seq(Channel)
    <3>1. <<[name |-> Lobby, numusers |-> n]>> \in Seq(Channel)
      BY <2>1, ShortSequences
    <3>2. <<>> \in Seq(Channel)
      BY EmptySeq
    <3> QED BY <3>1, <3>2 DEF Init
  <2> QED BY <2>2, LenProperties
<1>6. ChannelsTyped
  <2>1. /\ chanlist = [i \in 1..Len(chan) |-> i]
        /\ chanLock = [i \in 1..Len(chan) |-> NoOne]
        /\ iter = [active |-> FALSE, pos |-> 0]
    BY DEF Init
  <2>2. chanlist \in Seq(1..Len(chan))
    <3>1. chanlist \in [1..Len(chan) -> 1..Len(chan)]
      BY <2>1
    <3> QED BY <1>5, <3>1, SeqDef
  <2>3. chanLock \in Seq(User \union {NoOne}) /\ Len(chanLock) = Len(chan)
    <3>1. chanLock \in [1..Len(chan) -> User \union {NoOne}]
      BY <2>1
    <3>2. chanLock \in Seq(User \union {NoOne})
      BY <1>5, <3>1, SeqDef
    <3>3. DOMAIN chanLock = 1..Len(chan)
      BY <2>1
    <3> QED BY <1>5, <3>2, <3>3, LenProperties
  <2> QED BY <1>5, <2>1, <2>2, <2>3 DEF ChannelsTyped
<1>7. LocksTyped
  BY DEF Init, LocksTyped
<1>8. ThreadsTyped
  <2>1. todo \in [User -> Seq(Steps)]
    BY EmptySeq DEF Init
  <2>2. loc \in [User -> Local]
    BY BlankFacts DEF Init
  <2> QED BY <2>1, <2>2 DEF Init, ThreadsTyped
<1>9. UserlistInv
  <2>1. Range(userlist) = {u \in User : conn[u] = "up"}
    BY <1>0, <1>2 DEF Init
  <2>2. ASSUME NEW u \in User, conn[u] \in {"new", "accepted"}
        PROVE  nick[u] = "" /\ ~named[u] /\ todo[u] = <<>>
    BY <2>2 DEF Init
  <2> QED BY <1>2, <2>1, <2>2 DEF UserlistInv
<1>10. ASSUME NEW u \in User PROVE ThreadInv(u)
  <2>1. todo[u] = <<>> /\ loc[u] = Blank /\ lock # u
        /\ (\A v \in User : cLock[v] # u) /\ \A o \in 1..Len(chan) : chanLock[o] # u
    BY <1>0 DEF Init
  <2>2. Top(u) = "" /\ Pending(u) = {}
    BY <2>1, RangeEmpty DEF Top, Pending
  <2>3. loc[u].chan \in 0..Len(chan)
    <3>1. loc[u].chan = 0
      BY <2>1, BlankFacts
    <3>2. 0 \in 0..Len(chan)
      BY <1>5
    <3> QED BY <3>1, <3>2, Zenon
  <2>4. WellFormed(todo[u])
    BY <2>1 DEF WellFormed
  <2>5. TaskSound(u)
    BY <2>1, <2>2, <2>3, <2>4 DEF TaskSound, ChanSteps
  <2>6. LocksSound(u)
    BY <2>1, <2>2 DEF LocksSound
  <2> QED BY <2>5, <2>6 DEF ThreadInv
<1> QED BY <1>3, <1>4, <1>6, <1>7, <1>8, <1>9, <1>10 DEF ServerInv, Typed

(* A mutex that is held belongs to a thread that still has the steps it    *)
(* needs it for, whoever joins, leaves or hangs up meanwhile.              *)
THEOREM ServerInvariant == Spec => []ServerInv
<1>1. Init => ServerInv
  BY InitServer
<1>2. ServerInv /\ [Next]_vars => ServerInv'
  BY NextKeeps
<1> QED BY <1>1, <1>2, PTL DEF Spec

LEMMA ServerTypeOK == ServerInv => TypeOK
<1> SUFFICES ASSUME ServerInv PROVE TypeOK
  OBVIOUS
<1>1. /\ PeopleTyped /\ MembersTyped /\ ChannelsTyped /\ LocksTyped /\ ThreadsTyped
      /\ UserlistInv /\ Len(chan) \in Nat
  BY LenProperties DEF ServerInv, Typed, ChannelsTyped
<1>2. Range(userlist) = {u \in User : conn[u] = "up"}
  BY <1>1 DEF UserlistInv
<1>3. \A u \in User : Range(mychans[u]) \subseteq Name
  BY <1>1, RangeOfSeq DEF MembersTyped
<1>4. Listed \subseteq 1..Len(chan)
  <2>1. chanlist \in Seq(1..Len(chan))
    BY <1>1 DEF ChannelsTyped
  <2> QED BY <2>1, RangeOfSeq DEF Listed
<1>5. numregistered \in 0..(UINT_MOD - 1)
  BY <1>1 DEF PeopleTyped
<1>6. ASSUME NEW h \in {lock} \union Range(cLock) \union Range(chanLock), h # NoOne
      PROVE  todo[h] # <<>>
  <2>1. h \in User
    <3>1. Range(chanLock) \subseteq User \union {NoOne}
      BY <1>1, RangeOfSeq DEF ChannelsTyped
    <3>2. Range(cLock) \subseteq User \union {NoOne}
      BY <1>1 DEF LocksTyped, Range
    <3> QED BY <1>1, <1>6, <3>1, <3>2 DEF LocksTyped
  <2>2. LocksSound(h)
    BY <2>1 DEF ServerInv, ThreadInv
  <2>3. ASSUME todo[h] = <<>> PROVE FALSE
    <3>1. /\ lock # h /\ \A v \in User : cLock[v] # h
          /\ \A o \in 1..Len(chan) : chanLock[o] # h
      BY <2>1, <2>2, <2>3, IdleHolds
    <3>2. h \notin Range(cLock)
      BY <1>1, <3>1 DEF LocksTyped, Range
    <3>3. h \notin Range(chanLock)
      <4>1. Range(chanLock) = {chanLock[i] : i \in 1..Len(chan)}
        BY <1>1, RangeEquality DEF ChannelsTyped
      <4> QED BY <3>1, <4>1
    <3> QED BY <1>6, <3>1, <3>2, <3>3
  <2> QED BY <2>3
<1> QED BY <1>2, <1>3, <1>4, <1>5, <1>6 DEF TypeOK

(* The userlist is the clients whose thread runs, and every held mutex     *)
(* belongs to a thread in the middle of a command (server.c, handlers.c).  *)
THEOREM TypeCorrect == Spec => []TypeOK
<1>1. ServerInv => TypeOK
  BY ServerTypeOK
<1> QED BY <1>1, ServerInvariant, PTL

LEMMA ServerSelfDeadlock == ServerInv => NoSelfDeadlock
<1> SUFFICES ASSUME ServerInv, NEW u \in User, todo[u] # <<>>
             PROVE  LET s == Head(todo[u]) IN
                    /\ s \in LockSteps => lock # u
                    /\ s \in OwnSteps => cLock[u] # u
                    /\ s \in {"send", "meet"} /\ loc[u].left # <<>> =>
                           cLock[Head(loc[u].left)] # u
                    /\ s = "target" => cLock[loc[u].to] # u
                    /\ s \in {"inc", "dec", "destroy"} => chanLock[loc[u].chan] # u
  BY DEF NoSelfDeadlock
<1> DEFINE s == Head(todo[u])
           t == Tail(todo[u])
<1>1. /\ TaskSound(u) /\ LocksSound(u) /\ WellFormed(todo[u]) /\ Top(u) = s
      /\ todo[u] \in Seq(Steps) /\ loc[u] \in Local /\ Len(chan) \in Nat
  BY LenProperties
     DEF ServerInv, ThreadInv, TaskSound, Top, Typed, ThreadsTyped, ChannelsTyped
<1>2. s \in Steps /\ t \in After[s] /\ t \in Seq(Steps)
      /\ Pending(u) = {s} \union Range(t)
  BY <1>1, RangeHeadTail DEF WellFormed, Pending
<1> HIDE DEF s, t
<1>3. s \in LockSteps => lock # u
  BY <1>1 DEF LocksSound, LockSteps
<1>4. ASSUME s \in OwnSteps PROVE Holding \intersect Pending(u) = {}
  <2>1. Holding \intersect Range(t) = {}
    <3>1. CASE s = "reply"
      <4>1. t \in {<<>>, <<"chans", "setnick">>, <<"sweep", "reply">>,
                   <<"listnext">>, <<"whois", "reply">>, <<"bare">>}
        BY <1>2, <3>1, AfterValues
      <4>2. Range(t) \subseteq {"chans", "setnick", "sweep", "reply", "listnext", "whois",
                                "bare"}
        BY <4>1, RangeEmpty, RangeOne, RangeTwo
      <4> QED BY <4>2 DEF Holding
    <3>2. CASE s \in {"bye", "chans", "leave", "exit", "deliver"}
      <4>1. t \in {<<>>, <<"exit">>, <<"dec">>, <<"setnick">>, <<"bye", "exit">>}
        BY <1>2, <3>2, AfterValues DEF AllChansTails
      <4>2. Range(t) \subseteq {"exit", "dec", "setnick", "bye"}
        BY <4>1, RangeEmpty, RangeOne, RangeTwo
      <4> QED BY <4>2 DEF Holding
    <3> QED BY <1>4, <3>1, <3>2 DEF OwnSteps
  <2>2. s \notin Holding
    BY <1>4 DEF OwnSteps, Holding
  <2> QED BY <1>2, <2>1, <2>2
<1>5. s \in OwnSteps => cLock[u] # u
  BY <1>1, <1>4 DEF LocksSound, OwnSteps
<1>6. ASSUME s \in {"send", "meet"}, loc[u].left # <<>>
      PROVE  cLock[Head(loc[u].left)] # u
  <2>1. Head(loc[u].left) \in User
    <3>1. loc[u].left \in Seq(User)
      BY <1>1 DEF Local
    <3> QED BY <1>6, <3>1, HeadTailProperties
  <2>2. ASSUME cLock[Head(loc[u].left)] = u
        PROVE  Head(loc[u].left) = u /\ Holding \intersect Pending(u) # {}
    BY <1>1, <1>6, <2>1, <2>2 DEF LocksSound
  <2>3. CASE s = "meet"
    <3>1. t \in WalkTails
      BY <1>2, <2>3, AfterValues
    <3>2. Range(t) \subseteq {"reply", "listnext", "bare"}
      BY <3>1, RangeOne, RangeTwo DEF WalkTails
    <3> QED BY <1>2, <2>2, <2>3, <3>2 DEF Holding
  <2>4. CASE s = "send"
    <3>1. PICK r \in RelayTails : t = <<"visit">> \o r
      BY <1>2, <2>4, AfterValues
    <3>2. r \in Seq(Steps)
      BY <3>1, RelayTailsSound
    <3>3. Range(t) = {"visit"} \union Range(r)
      <4>1. <<"visit">> \in Seq(Steps)
        BY AfterDomain, ShortSequences
      <4>2. Range(<<"visit">> \o r) = Range(<<"visit">>) \union Range(r)
        BY <3>2, <4>1, RangeConcat
      <4>3. Range(<<"visit">>) = {"visit"}
        BY RangeOne
      <4> QED BY <3>1, <4>2, <4>3, Zenon
    <3>4. Range(r) \intersect Holding # {} => "nextchan" \in Range(r)
      <4>1. Range(r) \subseteq {"reply", "sweep", "leave", "dec", "nextchan",
                                "setnick", "bye", "exit"}
        BY <3>1, RangeEmpty, RangeOne, RangeTwo, RangeThree DEF RelayTails
      <4> QED BY <4>1 DEF Holding
    <3>5. "nextchan" \in Pending(u) => Head(loc[u].left) # u
      BY <1>1, <2>4 DEF TaskSound
    <3> QED BY <1>2, <2>2, <2>4, <3>3, <3>4, <3>5 DEF Holding
  <2> QED BY <1>6, <2>3, <2>4
<1>7. ASSUME s \in {"inc", "dec", "destroy"} PROVE chanLock[loc[u].chan] # u
  <2>1. loc[u].chan \in 1..Len(chan)
    BY <1>1, <1>7 DEF TaskSound, ChanSteps
  <2> QED BY <1>1, <1>7, <2>1 DEF LocksSound
<1>8. ASSUME s = "target" PROVE cLock[loc[u].to] # u
  <2>1. loc[u].to \in User
    BY <1>1, <1>8 DEF TaskSound
  <2>2. Pending(u) = {"target", "relay"}
    BY <1>2, <1>8, AfterValues, RangeOne
  <2> QED BY <1>1, <1>8, <2>1, <2>2 DEF LocksSound, Holding
<1> QED BY <1>3, <1>5, <1>6, <1>7, <1>8 DEF s

(* No handler asks for a mutex its thread has: QUIT and NICK, which hold   *)
(* the client's c_lock while they relay, skip the client itself, and no    *)
(* reply is sent while it is held (sendtoallchans(), sendtochannel()).     *)
THEOREM SelfDeadlockFree == Spec => []NoSelfDeadlock
<1>1. ServerInv => NoSelfDeadlock
  BY ServerSelfDeadlock
<1> QED BY <1>1, ServerInvariant, PTL
=============================================================================
