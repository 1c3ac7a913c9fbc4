------------------------- MODULE FileTransferProofs -------------------------
(***************************************************************************)
(* Proofs about the file-transfer client and server, for any files, names  *)
(* and buffers: a file that was fetched is the file, and the client is     *)
(* back at its prompt with nothing left to read.                           *)
(***************************************************************************)
EXTENDS FileTransfer, SequenceTheorems, FiniteSetTheorems, TLAPS

LF == "\n"

(* What has been sent to s and it has not read.                            *)
Unread(s) == SubSeq(text[Other(s)], taken[s] + 1, Len(text[Other(s)]))

(* The byte stream: what has arrived is the beginning of what was sent.    *)
StreamSound ==
    /\ text \in [Side -> Seq(Char)] /\ taken \in [Side -> Nat]
    /\ got \in [Side -> Seq(Nat)]
    /\ offered = [s \in Side |-> Len(text[s])]
    /\ \A s \in Side :
         /\ \A i \in 1 .. Len(got[s]) : got[s][i] = i
         /\ taken[s] <= Len(got[s]) /\ Len(got[s]) <= Len(text[Other(s)])

(* Files only grow, by bytes that end no line and separate nothing.        *)
FilesSound ==
    /\ DOMAIN files = DOMAIN Contents
    /\ \A n \in DOMAIN Contents :
         /\ files[n] \in Seq(Char) /\ Len(files[n]) \in Len(Contents[n]) .. MaxLength
         /\ \A i \in 1 .. Len(Contents[n]) : files[n][i] = Contents[n][i]
         /\ \A i \in Len(Contents[n]) + 1 .. Len(files[n]) : files[n][i] \in FileByte

Typed ==
    /\ client \in [at : {"prompt", "line", "body", "done", "failed"},
                   line : Seq(Char), name : Seq(Char), length : Int,
                   file : Seq(Char), stored : BOOLEAN]
    /\ server \in [at : {"line", "file", "closed"}, line : Seq(Char),
                   name : Seq(Char), off : Nat]
    /\ closed \in [Side -> BOOLEAN]
    /\ closed["client"] <=> client.at \in {"done", "failed"}
    /\ closed["server"] <=> server.at = "closed"
    /\ client.at \in {"line", "body"} => client.name \in Names
    /\ server.at = "file" => /\ server.name \in DOMAIN Contents
                             /\ server.off <= Len(files[server.name])

NoLF(s) == \A i \in 1 .. Len(s) : s[i] # LF

(* Bytes by which a file has grown.                                        *)
Leftover(s) ==
    /\ \A i \in 1 .. Len(s) : s[i] \in FileByte
    /\ files = Contents => s = <<>>

(* The server is done with the requests it has received, but for what a    *)
(* file has grown by.                                                      *)
Beyond == server.at = "file" => server.off >= Len(Contents[server.name])

Waiting ==
    server.at # "closed" => server.line = <<>> /\ Unread("server") = <<>>

(* What the client has of the line it reads, and what is to come.          *)
Incoming == client.line \o Unread("client")

(* No answer yet: the request is on its way.                               *)
Asked ==
    /\ Leftover(Incoming)
    /\ Beyond
    /\ server.at # "closed" =>
         server.line \o Unread("server") = client.name \o CRLF
    /\ server.at = "line" => NoLF(server.line)
    /\ server.at = "file" => server.line = <<>>

(* The server has announced length bytes of the file asked for and sent    *)
(* part.                                                                   *)
Sending(name, length, part) ==
    \/ /\ name \in DOMAIN Contents
       /\ length \in Len(Contents[name]) .. Len(files[name])
       /\ Len(part) <= Len(files[name])
       /\ \A i \in 1 .. Len(part) : part[i] = files[name][i]
       /\ server.at = "file" => server.name = name /\ server.off = Len(part)
       /\ server.at = "line" => Len(part) >= length
    \/ /\ name \notin DOMAIN Contents
       /\ length = -1 /\ part = <<>> /\ server.at = "line"

(* After k bytes of z that some other file has grown by comes the line     *)
(* that announces length.                                                  *)
AnswerAt(z, k, name, length) ==
    LET p == k + Len(name)
    IN  /\ p + 6 <= Len(z)
        /\ \A i \in 1 .. k : z[i] \in FileByte
        /\ files = Contents => k = 0
        /\ \A i \in 1 .. Len(name) : z[k + i] = name[i]
        /\ z[p + 1] = COMMA /\ z[p + 2] = ToString(length) /\ z[p + 3] = COMMA
        /\ z[p + 4] = VERDICT /\ z[p + 5] = "\r" /\ z[p + 6] = LF

After(z, k, name) == SubSeq(z, k + Len(name) + 7, Len(z))

AnswerIn(z, name) ==
    \E k \in 0 .. Len(z), length \in -1 .. MaxLength :
        AnswerAt(z, k, name, length) /\ Sending(name, length, After(z, k, name))

Answered ==
    /\ NoLF(client.line)
    /\ Waiting
    /\ AnswerIn(Incoming, client.name)

Fetching ==
    /\ client.length \in Nat \ {0}
    /\ client.name \in DOMAIN Contents
    /\ Waiting
    /\ Sending(client.name, Len(client.file) + client.length,
               client.file \o Unread("client"))

Prompted ==
    /\ Leftover(Unread("client"))
    /\ Beyond
    /\ Waiting
    /\ client.stored => /\ client.name \in DOMAIN Contents
                        /\ Len(client.file) \in
                             Len(Contents[client.name]) .. Len(files[client.name])
                        /\ \A i \in 1 .. Len(client.file) :
                             client.file[i] = files[client.name][i]

Dialogue ==
    /\ client.at = "prompt" => Prompted
    /\ client.at = "line" => client.file = <<>> /\ ~client.stored /\ (Asked \/ Answered)
    /\ client.at = "body" => Fetching

(* What is appended has no line end and no comma, or nothing was appended. *)
Plain == {COMMA, LF} \intersect FileByte = {}

Clean == Plain \/ files = Contents

DialogueInv == StreamSound /\ FilesSound /\ Typed /\ Dialogue

FileInv == FilesSound /\ (Clean => DialogueInv)

---------------------------------------------------------------------------
(* Sequences. *)

LEMMA TailIsRest ==
    ASSUME NEW S, NEW s \in Seq(S), NEW n \in 0 .. Len(s)
    PROVE  /\ SubSeq(s, n + 1, Len(s)) \in Seq(S)
           /\ Len(SubSeq(s, n + 1, Len(s))) = Len(s) - n
           /\ \A i \in 1 .. Len(s) - n : SubSeq(s, n + 1, Len(s))[i] = s[n + i]
<1>1. \A i \in n + 1 .. Len(s) : s[i] \in S
  BY LenProperties
<1> QED BY <1>1, SubSeqProperties, LenProperties, Z3

LEMMA PartIsStart ==
    ASSUME NEW S, NEW s \in Seq(S), NEW n \in 0 .. Len(s)
    PROVE  /\ SubSeq(s, 1, n) \in Seq(S)
           /\ Len(SubSeq(s, 1, n)) = n
           /\ \A i \in 1 .. n : SubSeq(s, 1, n)[i] = s[i]
<1>1. \A i \in 1 .. n : s[i] \in S
  BY LenProperties
<1> QED BY <1>1, SubSeqProperties, LenProperties, Z3

(* One character passes from what is unread to the line. *)
LEMMA PassOne ==
    ASSUME NEW S, NEW line \in Seq(S), NEW un \in Seq(S), un # <<>>
    PROVE  /\ Head(un) \in S /\ Head(un) = un[1]
           /\ Append(line, Head(un)) \in Seq(S)
           /\ Append(line, Head(un)) \o Tail(un) = line \o un
           /\ Tail(un) = SubSeq(un, 2, Len(un)) /\ Tail(un) \in Seq(S)
<1> DEFINE c == Head(un)
           t == Tail(un)
<1>1. c \in S /\ t \in Seq(S) /\ Len(t) = Len(un) - 1 /\ Len(un) \in Nat \ {0}
      /\ \A i \in 1 .. Len(t) : t[i] = un[i + 1]
  BY HeadTailProperties, EmptySeq
<1>2. c = un[1]
  OBVIOUS
<1>3. /\ Append(line, c) \in Seq(S) /\ Len(Append(line, c)) = Len(line) + 1
      /\ \A i \in 1 .. Len(line) : Append(line, c)[i] = line[i]
      /\ Append(line, c)[Len(line) + 1] = c
  BY <1>1, AppendProperties
<1>4. t = SubSeq(un, 2, Len(un))
  BY TailIsSubSeq
<1> HIDE DEF c, t
<1>5. Append(line, c) \o t = line \o un
  <2> DEFINE a == Append(line, c) \o t
             b == line \o un
  <2>1. /\ a \in Seq(S) /\ Len(a) = Len(line) + 1 + Len(t)
        /\ \A i \in 1 .. Len(line) + 1 + Len(t) :
             a[i] = IF i <= Len(line) + 1 THEN Append(line, c)[i] ELSE t[i - (Len(line) + 1)]
    <3>1. ASSUME NEW r \in Seq(S), Len(r) = Len(line) + 1
          PROVE  /\ r \o t \in Seq(S) /\ Len(r \o t) = Len(line) + 1 + Len(t)
                 /\ \A i \in 1 .. Len(line) + 1 + Len(t) :
                      (r \o t)[i] = IF i <= Len(line) + 1 THEN r[i]
                                     ELSE t[i - (Len(line) + 1)]
      <4>1. /\ r \o t \in Seq(S) /\ Len(r \o t) = Len(r) + Len(t)
            /\ \A i \in 1 .. Len(r) + Len(t) :
                 (r \o t)[i] = IF i <= Len(r) THEN r[i] ELSE t[i - Len(r)]
        BY <1>1, ConcatProperties
      <4> QED BY <3>1, <4>1
    <3> QED BY <1>3, <3>1
  <2>2. /\ b \in Seq(S) /\ Len(b) = Len(line) + Len(un)
        /\ \A i \in 1 .. Len(line) + Len(un) :
             b[i] = IF i <= Len(line) THEN line[i] ELSE un[i - Len(line)]
    BY ConcatProperties
  <2>3. Len(line) \in Nat
    BY LenProperties
  <2>4. ASSUME NEW i \in 1 .. Len(a) PROVE a[i] = b[i]
    <3>1. i \in Int /\ 1 <= i /\ i <= Len(line) + Len(un)
      BY <1>1, <2>1, <2>3
    <3>2. CASE i <= Len(line)
      BY <1>1, <1>3, <2>1, <2>2, <2>3, <3>1, <3>2
    <3>3. CASE i = Len(line) + 1
      BY <1>1, <1>2, <1>3, <2>1, <2>2, <2>3, <3>1, <3>3
    <3>4. CASE i > Len(line) + 1
      <4> DEFINE j == i - (Len(line) + 1)
      <4>1. j \in 1 .. Len(t) /\ j + 1 = i - Len(line)
        BY <1>1, <2>3, <3>1, <3>4
      <4>2. a[i] = t[j] /\ b[i] = un[j + 1]
        BY <1>1, <2>1, <2>2, <2>3, <3>1, <3>4, <4>1
      <4> QED BY <1>1, <4>1, <4>2
    <3> QED BY <2>3, <3>1, <3>2, <3>3, <3>4
  <2>5. Len(a) = Len(b)
    BY <1>1, <2>1, <2>2, <2>3
  <2> HIDE DEF a, b
  <2>6. a = b
    BY <2>1, <2>2, <2>4, <2>5, SeqEqual
  <2> QED BY <2>6 DEF a, b
<1> QED BY <1>1, <1>2, <1>3, <1>4, <1>5 DEF c, t

---------------------------------------------------------------------------
(* The stream. *)
LEMMA SideFacts ==
    /\ Side = {"client", "server"} /\ Other("client") = "server"
    /\ Other("server") = "client"
    /\ \A s \in Side : Other(s) \in Side /\ Other(s) # s /\ Other(Other(s)) = s
BY TransferAssumption

LEMMA UnreadFacts ==
    ASSUME StreamSound, NEW s \in Side
    PROVE  /\ Unread(s) \in Seq(Char)
           /\ Len(Unread(s)) = Len(text[Other(s)]) - taken[s]
           /\ \A i \in 1 .. Len(Unread(s)) : Unread(s)[i] = text[Other(s)][taken[s] + i]
           /\ taken[s] \in 0 .. Len(text[Other(s)]) /\ text[Other(s)] \in Seq(Char)
           /\ Len(text[Other(s)]) \in Nat
<1>1. Other(s) \in Side
  BY SideFacts
<1>2. /\ text[Other(s)] \in Seq(Char) /\ taken[s] \in 0 .. Len(got[s])
      /\ Len(got[s]) <= Len(text[Other(s)]) /\ got[s] \in Seq(Nat)
  BY <1>1 DEF StreamSound
<1>3. Len(text[Other(s)]) \in Nat /\ Len(got[s]) \in Nat
  BY <1>2, LenProperties
<1>4. taken[s] \in 0 .. Len(text[Other(s)])
  BY <1>2, <1>3
<1> QED BY <1>2, <1>3, <1>4, TailIsRest DEF Unread

(* What has arrived is the beginning of what is unread. *)
LEMMA ArrivedFacts ==
    ASSUME StreamSound, NEW s \in Side
    PROVE  /\ Arrived(s) \in Seq(Char)
           /\ Len(Arrived(s)) = Len(got[s]) - taken[s]
           /\ Len(Arrived(s)) \in 0 .. Len(Unread(s))
           /\ \A i \in 1 .. Len(Arrived(s)) : Arrived(s)[i] = Unread(s)[i]
<1> DEFINE m == Len(got[s]) - taken[s]
<1>1. /\ got[s] \in Seq(Nat) /\ Len(got[s]) \in Nat /\ taken[s] \in 0 .. Len(got[s])
      /\ Len(got[s]) <= Len(text[Other(s)])
      /\ \A i \in 1 .. Len(got[s]) : got[s][i] = i
  BY LenProperties DEF StreamSound
<1>2. m \in 0 .. Len(Unread(s))
  BY <1>1, UnreadFacts
<1>3. ASSUME NEW i \in 1 .. m
      PROVE  text[Other(s)][got[s][taken[s] + i]] = Unread(s)[i]
  <2>1. taken[s] + i \in 1 .. Len(got[s]) /\ i \in 1 .. Len(Unread(s))
    BY <1>1, <1>2, <1>3
  <2>2. got[s][taken[s] + i] = taken[s] + i
    BY <1>1, <2>1
  <2> QED BY <2>1, <2>2, UnreadFacts
<1>4. m \in Nat /\ Len(Unread(s)) \in Nat
  BY <1>1, <1>2
<1> HIDE DEF m
<1>5. Arrived(s) = [i \in 1 .. m |-> Unread(s)[i]]
  <2>1. Arrived(s) = [i \in 1 .. m |-> text[Other(s)][got[s][taken[s] + i]]]
    BY DEF Arrived, m
  <2> QED BY <1>3, <2>1
<1>6. \A i \in 1 .. m : Unread(s)[i] \in Char
  BY <1>2, <1>4, UnreadFacts, LenProperties
<1>7. Arrived(s) \in Seq(Char) /\ Len(Arrived(s)) = m
  BY <1>4, <1>5, <1>6
<1> QED BY <1>2, <1>5, <1>7 DEF m

LEMMA StreamKept ==
    ASSUME StreamSound, got' = got,
           NoWrite \/ \E s \in Side, b \in Seq(Char) : Write(s, b),
           taken' \in [Side -> Nat], \A s \in Side : taken'[s] <= Len(got[s])
    PROVE  StreamSound'
<1>1. CASE NoWrite
  BY <1>1 DEF NoWrite, StreamSound
<1>2. CASE \E s \in Side, b \in Seq(Char) : Write(s, b)
  <2>1. PICK s \in Side, b \in Seq(Char) : Write(s, b)
    BY <1>2
  <2>2. /\ text \in [Side -> Seq(Char)] /\ offered = [t \in Side |-> Len(text[t])]
        /\ text' = [text EXCEPT ![s] = text[s] \o b]
        /\ offered' = [offered EXCEPT ![s] = offered[s] + Len(b)]
    BY <2>1 DEF Write, StreamSound
  <2>3. /\ text[s] \in Seq(Char) /\ text[s] \o b \in Seq(Char)
        /\ Len(text[s] \o b) = Len(text[s]) + Len(b) /\ Len(b) \in Nat
        /\ Len(text[s]) \in Nat
    BY <2>2, ConcatProperties, LenProperties
  <2>4. text' \in [Side -> Seq(Char)] /\ \A t \in Side : Len(text'[t]) >= Len(text[t])
    <3>1. text' \in [Side -> Seq(Char)]
      BY <2>2, <2>3
    <3>2. ASSUME NEW t \in Side PROVE Len(text'[t]) >= Len(text[t])
      <4>1. Len(text[t]) \in Nat
        BY <2>2, LenProperties
      <4>2. text'[t] = IF t = s THEN text[s] \o b ELSE text[t]
        BY <2>2
      <4> QED BY <2>3, <4>1, <4>2
    <3> QED BY <3>1, <3>2
  <2>5. offered' = [t \in Side |-> Len(text'[t])]
    <3>1. ASSUME NEW t \in Side PROVE offered'[t] = Len(text'[t])
      BY <2>2, <2>3
    <3>2. offered' = [t \in Side |-> offered'[t]]
      BY <2>2
    <3> QED BY <3>1, <3>2
  <2>6. ASSUME NEW t \in Side
        PROVE  Len(got[t]) <= Len(text'[Other(t)])
    <3>1. Other(t) \in Side
      BY SideFacts
    <3>2. Len(got[t]) \in Nat /\ Len(text[Other(t)]) \in Nat /\ Len(text'[Other(t)]) \in Nat
      BY <2>2, <2>4, <3>1, LenProperties DEF StreamSound
    <3>3. Len(got[t]) <= Len(text[Other(t)])
      BY DEF StreamSound
    <3> QED BY <2>4, <3>1, <3>2, <3>3
  <2> QED BY <2>4, <2>5, <2>6 DEF StreamSound
<1> QED BY <1>1, <1>2

LEMMA UnreadSame ==
    ASSUME NEW s, text'[Other(s)] = text[Other(s)], taken'[s] = taken[s]
    PROVE  Unread(s)' = Unread(s)
BY DEF Unread

LEMMA WriteUnread ==
    ASSUME StreamSound, NEW s \in Side, NEW b \in Seq(Char), Write(Other(s), b),
           taken'[s] = taken[s]
    PROVE  Unread(s)' = Unread(s) \o b
<1> DEFINE t == text[Other(s)]
           k == taken[s]
<1>1. /\ t \in Seq(Char) /\ k \in 0 .. Len(t) /\ Len(t) \in Nat /\ Len(b) \in Nat
      /\ Other(s) \in Side
  BY UnreadFacts, SideFacts, LenProperties
<1>2. text'[Other(s)] = t \o b
  BY <1>1 DEF Write, StreamSound
<1>3. Unread(s)' = SubSeq(t \o b, k + 1, Len(t \o b))
      /\ Unread(s) = SubSeq(t, k + 1, Len(t))
  BY <1>2 DEF Unread
<1> HIDE DEF t, k
<1> DEFINE u == SubSeq(t, k + 1, Len(t))
           v == SubSeq(t \o b, k + 1, Len(t \o b))
<1>4. /\ t \o b \in Seq(Char) /\ Len(t \o b) = Len(t) + Len(b)
      /\ \A i \in 1 .. Len(t) + Len(b) :
           (t \o b)[i] = IF i <= Len(t) THEN t[i] ELSE b[i - Len(t)]
  BY <1>1, ConcatProperties
<1>5. /\ u \in Seq(Char) /\ Len(u) = Len(t) - k
      /\ \A i \in 1 .. Len(t) - k : u[i] = t[k + i]
  BY <1>1, TailIsRest
<1>6. /\ v \in Seq(Char) /\ Len(v) = Len(t \o b) - k
      /\ \A i \in 1 .. Len(t \o b) - k : v[i] = (t \o b)[k + i]
  <2>1. k \in 0 .. Len(t \o b)
    BY <1>1, <1>4
  <2> QED BY <1>4, <2>1, TailIsRest
<1> HIDE DEF u, v
<1>7. /\ u \o b \in Seq(Char) /\ Len(u \o b) = Len(u) + Len(b)
      /\ \A i \in 1 .. Len(u) + Len(b) :
           (u \o b)[i] = IF i <= Len(u) THEN u[i] ELSE b[i - Len(u)]
  BY <1>5, ConcatProperties
<1>8. Len(v) = Len(u \o b)
  BY <1>1, <1>4, <1>5, <1>6, <1>7
<1>9. ASSUME NEW i \in 1 .. Len(v) PROVE v[i] = (u \o b)[i]
  <2>1. i \in Int /\ 1 <= i /\ i <= Len(t) + Len(b) - k
    BY <1>1, <1>4, <1>6
  <2>2. v[i] = (t \o b)[k + i]
    BY <1>6, <1>9
  <2>3. CASE i <= Len(t) - k
    <3>1. (t \o b)[k + i] = t[k + i]
      BY <1>1, <1>4, <2>1, <2>3
    <3>2. (u \o b)[i] = u[i] /\ u[i] = t[k + i]
      BY <1>1, <1>5, <1>7, <2>1, <2>3
    <3> QED BY <2>2, <3>1, <3>2
  <2>4. CASE i > Len(t) - k
    <3>1. (t \o b)[k + i] = b[k + i - Len(t)]
      BY <1>1, <1>4, <2>1, <2>4
    <3>2. (u \o b)[i] = b[i - Len(u)] /\ i - Len(u) = k + i - Len(t)
      BY <1>1, <1>5, <1>7, <2>1, <2>4
    <3> QED BY <2>2, <3>1, <3>2
  <2>5. i <= Len(t) - k \/ i > Len(t) - k
    BY <1>1, <2>1
  <2> QED BY <2>3, <2>4, <2>5
<1>10. v = u \o b
  BY <1>6, <1>7, <1>8, <1>9, SeqEqual
<1> QED BY <1>3, <1>10 DEF u, v

LEMMA ReadUnread ==
    ASSUME StreamSound, NEW s \in Side, NEW n \in 1 .. Len(Arrived(s)), Read(s, n),
           text'[Other(s)] = text[Other(s)]
    PROVE  /\ Unread(s)' = SubSeq(Unread(s), n + 1, Len(Unread(s)))
           /\ n \in 1 .. Len(Unread(s))
           /\ taken' \in [Side -> Nat] /\ \A t \in Side : taken'[t] <= Len(got[t])
           /\ taken'[Other(s)] = taken[Other(s)]
<1> DEFINE t == text[Other(s)]
           k == taken[s]
<1>1. /\ t \in Seq(Char) /\ k \in 0 .. Len(t) /\ Len(t) \in Nat
      /\ Len(got[s]) \in Nat /\ n \in Nat /\ n >= 1 /\ k + n <= Len(got[s])
      /\ k + n <= Len(t) /\ n \in 1 .. Len(Unread(s))
  <2>1. /\ Len(got[s]) \in Nat /\ Len(Arrived(s)) = Len(got[s]) - k
        /\ Len(Arrived(s)) \in 0 .. Len(Unread(s))
    BY ArrivedFacts, LenProperties DEF StreamSound
  <2>2. /\ t \in Seq(Char) /\ k \in 0 .. Len(t) /\ Len(t) \in Nat
        /\ Len(Unread(s)) = Len(t) - k
    BY UnreadFacts
  <2>3. n \in Nat /\ n >= 1 /\ n <= Len(got[s]) - k
    BY <2>1, <2>2
  <2> HIDE DEF t, k
  <2> QED BY <2>1, <2>2, <2>3
<1>2. /\ taken' = [taken EXCEPT ![s] = k + n] /\ taken \in [Side -> Nat]
      /\ \A r \in Side : taken[r] <= Len(got[r])
  BY DEF Read, StreamSound
<1>3. taken'[s] = k + n /\ taken'[Other(s)] = taken[Other(s)] /\ taken' \in [Side -> Nat]
  BY <1>1, <1>2, SideFacts
<1>4. \A r \in Side : taken'[r] <= Len(got[r])
  BY <1>1, <1>2
<1>5. Unread(s)' = SubSeq(t, k + n + 1, Len(t)) /\ Unread(s) = SubSeq(t, k + 1, Len(t))
  BY <1>3 DEF Unread
<1> HIDE DEF t, k
<1> DEFINE u == SubSeq(t, k + 1, Len(t))
           v == SubSeq(t, k + n + 1, Len(t))
           w == SubSeq(u, n + 1, Len(u))
<1>6. /\ u \in Seq(Char) /\ Len(u) = Len(t) - k
      /\ \A i \in 1 .. Len(t) - k : u[i] = t[k + i]
  BY <1>1, TailIsRest
<1>7. /\ v \in Seq(Char) /\ Len(v) = Len(t) - (k + n)
      /\ \A i \in 1 .. Len(t) - (k + n) : v[i] = t[k + n + i]
  <2>1. k + n \in 0 .. Len(t)
    BY <1>1
  <2> QED BY <1>1, <2>1, TailIsRest
<1> HIDE DEF u
<1>8. /\ w \in Seq(Char) /\ Len(w) = Len(u) - n
      /\ \A i \in 1 .. Len(u) - n : w[i] = u[n + i]
  <2>1. n \in 0 .. Len(u)
    BY <1>1, <1>6
  <2> QED BY <1>6, <2>1, TailIsRest
<1> HIDE DEF v, w
<1>9. v = w
  <2>1. Len(v) = Len(w)
    BY <1>1, <1>6, <1>7, <1>8
  <2>2. ASSUME NEW i \in 1 .. Len(v) PROVE v[i] = w[i]
    <3>1. i \in Int /\ 1 <= i /\ i <= Len(t) - (k + n)
      BY <1>1, <1>7
    <3>2. v[i] = t[k + n + i] /\ w[i] = u[n + i] /\ u[n + i] = t[k + (n + i)]
      BY <1>1, <1>6, <1>7, <1>8, <3>1
    <3>3. k + (n + i) = k + n + i
      BY <1>1, <3>1
    <3> QED BY <3>2, <3>3
  <2> QED BY <1>7, <1>8, <2>1, <2>2, SeqEqual
<1> QED BY <1>1, <1>3, <1>4, <1>5, <1>9 DEF u, v, w

LEMMA EofUnread ==
    ASSUME StreamSound, NEW s \in Side, AtEof(s)
    PROVE  Unread(s) = <<>> /\ closed[Other(s)]
<1>1. taken[s] = Len(text[Other(s)]) /\ taken[s] \in Nat /\ closed[Other(s)]
  BY DEF AtEof, StreamSound
<1>2. Len(text[Other(s)]) < taken[s] + 1 /\ Len(text[Other(s)]) \in Int
      /\ taken[s] + 1 \in Int
  BY <1>1
<1> QED BY <1>1, <1>2, SubSeqEmpty DEF Unread

LEMMA DeliverKeeps ==
    ASSUME StreamSound, NEW s \in Side, Deliver(s), text' = text, taken' = taken
    PROVE  StreamSound' /\ \A t : Unread(t)' = Unread(t)
<1>1. /\ Other(s) \in Side /\ text \in [Side -> Seq(Char)] /\ got \in [Side -> Seq(Nat)]
      /\ offered[Other(s)] = Len(text[Other(s)]) /\ Len(text[Other(s)]) \in Nat
  BY SideFacts, LenProperties DEF StreamSound
<1>2. PICK n \in 1 .. Len(text[Other(s)]) - Len(got[s]) :
          got' = [got EXCEPT ![s] = got[s] \o [i \in 1 .. n |-> Len(got[s]) + i]]
  BY <1>1 DEF Deliver
<1> DEFINE g == got[s]
           e == [i \in 1 .. n |-> Len(g) + i]
           h == g \o e
<1>3. /\ g \in Seq(Nat) /\ Len(g) \in Nat /\ \A i \in 1 .. Len(g) : g[i] = i
      /\ taken[s] \in Nat /\ taken[s] <= Len(g)
  BY <1>1, LenProperties DEF StreamSound
<1>4. n \in Nat /\ Len(g) + n <= Len(text[Other(s)])
  BY <1>1, <1>3
<1>5. e \in Seq(Nat) /\ Len(e) = n
  BY <1>3, <1>4
<1>6. \A i \in 1 .. n : e[i] = Len(g) + i
  OBVIOUS
<1> HIDE DEF e
<1>7. /\ h \in Seq(Nat) /\ Len(h) = Len(g) + n
      /\ \A i \in 1 .. Len(g) + n : h[i] = IF i <= Len(g) THEN g[i] ELSE e[i - Len(g)]
  BY <1>3, <1>5, ConcatProperties
<1>8. got' = [got EXCEPT ![s] = h]
  BY <1>2 DEF e
<1> HIDE DEF h, g
<1>9. ASSUME NEW i \in 1 .. Len(h) PROVE h[i] = i
  <2>1. i \in Int /\ 1 <= i /\ i <= Len(g) + n
    BY <1>3, <1>4, <1>7
  <2>2. CASE i <= Len(g)
    BY <1>3, <1>4, <1>7, <2>1, <2>2
  <2>3. CASE i > Len(g)
    <3>1. i - Len(g) \in 1 .. n
      BY <1>3, <1>4, <2>1, <2>3
    <3>2. h[i] = e[i - Len(g)]
      BY <1>3, <1>4, <1>7, <2>1, <2>3
    <3> QED BY <1>3, <1>6, <2>1, <3>1, <3>2
  <2> QED BY <1>3, <2>1, <2>2, <2>3
<1>10. got' \in [Side -> Seq(Nat)] /\ \A t \in Side : got'[t] = IF t = s THEN h ELSE got[t]
  BY <1>1, <1>7, <1>8
<1>11. ASSUME NEW t \in Side
       PROVE  /\ \A i \in 1 .. Len(got'[t]) : got'[t][i] = i
              /\ taken[t] <= Len(got'[t]) /\ Len(got'[t]) <= Len(text[Other(t)])
  <2>1. CASE t = s
    BY <1>1, <1>3, <1>4, <1>7, <1>9, <1>10, <2>1
  <2>2. CASE t # s
    BY <1>10, <2>2 DEF StreamSound
  <2> QED BY <2>1, <2>2
<1> QED BY <1>10, <1>11 DEF StreamSound, Deliver, Unread

---------------------------------------------------------------------------
(* The end of a line. *)
LEMMA LineEnd ==
    ASSUME NEW line \in Seq(Char), NEW c
    PROVE  /\ EndsLine(line, c) <=> line # <<>> /\ line[Len(line)] = "\r" /\ c = LF
           /\ EndsLine(line, c) => c = LF
BY DEF EndsLine, CRLF, Last, LF

(* The next character of a stream that begins with a whole line either     *)
(* ends this line or goes on with it.                                      *)
LEMMA FirstLine ==
    ASSUME NEW line \in Seq(Char), NEW un \in Seq(Char), NoLF(line),
           NEW m \in Nat, m >= 2, m <= Len(line \o un),
           (line \o un)[m - 1] = "\r", (line \o un)[m] = LF,
           \A i \in 1 .. m - 1 : (line \o un)[i] # LF
    PROVE  /\ un # <<>>
           /\ EndsLine(line, Head(un)) =>
                /\ Front(line) = SubSeq(line \o un, 1, m - 2)
                /\ Tail(un) = SubSeq(line \o un, m + 1, Len(line \o un))
           /\ ~EndsLine(line, Head(un)) => NoLF(Append(line, Head(un)))
<1> DEFINE z == line \o un
<1>1. /\ z \in Seq(Char) /\ Len(z) = Len(line) + Len(un) /\ Len(line) \in Nat
      /\ Len(un) \in Nat
      /\ \A i \in 1 .. Len(line) + Len(un) :
           z[i] = IF i <= Len(line) THEN line[i] ELSE un[i - Len(line)]
  BY ConcatProperties, LenProperties
<1>2. z[m - 1] = "\r" /\ z[m] = LF /\ (\A i \in 1 .. m - 1 : z[i] # LF) /\ m <= Len(z)
  OBVIOUS
<1> HIDE DEF z
<1>3. Len(line) < m
  <2> SUFFICES ASSUME m <= Len(line) PROVE FALSE
    BY <1>1
  <2> QED BY <1>1, <1>2 DEF NoLF
<1>4. un # <<>> /\ Len(un) >= 1
  BY <1>1, <1>2, <1>3
<1>5. Head(un) = un[1] /\ un[1] = z[Len(line) + 1] /\ Head(un) \in Char
  BY <1>1, <1>4, PassOne
<1>6. ASSUME EndsLine(line, Head(un))
      PROVE  /\ Front(line) = SubSeq(z, 1, m - 2)
             /\ Tail(un) = SubSeq(z, m + 1, Len(z))
  <2>1. z[Len(line) + 1] = LF
    BY <1>5, <1>6, LineEnd
  <2>2. Len(line) + 1 = m
    <3>1. Len(line) + 1 \notin 1 .. m - 1
      BY <1>2, <2>1
    <3> QED BY <1>1, <1>3, <3>1
  <2>3. Front(line) = SubSeq(z, 1, m - 2)
    <3> DEFINE a == SubSeq(line, 1, m - 2)
               b == SubSeq(z, 1, m - 2)
    <3>1. m - 2 \in 0 .. Len(line) /\ m - 2 \in 0 .. Len(z) /\ m - 2 = Len(line) - 1
      BY <1>1, <1>2, <2>2
    <3>2. /\ a \in Seq(Char) /\ Len(a) = m - 2 /\ \A i \in 1 .. m - 2 : a[i] = line[i]
          /\ b \in Seq(Char) /\ Len(b) = m - 2 /\ \A i \in 1 .. m - 2 : b[i] = z[i]
      BY <1>1, <3>1, PartIsStart
    <3> HIDE DEF a, b
    <3>3. ASSUME NEW i \in 1 .. Len(a) PROVE a[i] = b[i]
      <4>1. i \in 1 .. m - 2 /\ i \in 1 .. Len(line) + Len(un) /\ i <= Len(line)
        BY <1>1, <3>1, <3>2
      <4>2. z[i] = line[i]
        BY <1>1, <4>1
      <4> QED BY <3>2, <4>1, <4>2
    <3>4. a = b
      BY <3>2, <3>3, SeqEqual
    <3> QED BY <3>1, <3>4 DEF a, b, Front
  <2>4. Tail(un) = SubSeq(z, m + 1, Len(z))
    <3> DEFINE a == Tail(un)
               b == SubSeq(z, m + 1, Len(z))
    <3>1. m \in 0 .. Len(z)
      BY <1>1, <1>2
    <3>2. /\ a \in Seq(Char) /\ Len(a) = Len(un) - 1
          /\ \A i \in 1 .. Len(a) : a[i] = un[i + 1]
      BY <1>4, HeadTailProperties
    <3>3. b \in Seq(Char) /\ Len(b) = Len(z) - m
          /\ \A i \in 1 .. Len(z) - m : b[i] = z[m + i]
      BY <1>1, <3>1, TailIsRest
    <3> HIDE DEF a, b
    <3>0. /\ Len(z) = Len(line) + Len(un) /\ Len(line) \in Nat /\ Len(un) \in Nat
          /\ m = Len(line) + 1
      BY <1>1, <2>2
    <3>4. Len(a) = Len(b)
      <4>1. Len(a) = Len(un) - 1 /\ Len(b) = Len(z) - m
        BY <3>2, <3>3
      <4> QED BY <3>0, <4>1
    <3>5. ASSUME NEW i \in 1 .. Len(a) PROVE a[i] = b[i]
      <4>1. i \in Int /\ 1 <= i /\ i <= Len(un) - 1
        BY <1>1, <3>2
      <4>2. /\ m + i - Len(line) = i + 1 /\ m + i \in 1 .. Len(line) + Len(un)
            /\ ~(m + i <= Len(line))
        BY <3>0, <4>1
      <4>3. z[m + i] = un[m + i - Len(line)]
        BY <1>1, <4>2
      <4>4. i \in 1 .. Len(z) - m
        BY <3>0, <4>1
      <4> QED BY <3>2, <3>3, <3>5, <4>2, <4>3, <4>4
    <3>6. a = b
      BY <3>2, <3>3, <3>4, <3>5, SeqEqual
    <3> QED BY <3>6 DEF a, b
  <2> QED BY <2>3, <2>4
<1>7. ASSUME ~EndsLine(line, Head(un)) PROVE NoLF(Append(line, Head(un)))
  <2>1. Head(un) # LF
    <3> SUFFICES ASSUME Head(un) = LF PROVE FALSE
      OBVIOUS
    <3>1. Len(line) + 1 = m
      <4>1. Len(line) + 1 \notin 1 .. m - 1
        BY <1>2, <1>5
      <4> QED BY <1>1, <1>3, <4>1
    <3>2. line # <<>> /\ line[Len(line)] = "\r"
      <4>1. Len(line) = m - 1 /\ Len(line) >= 1
        BY <1>1, <3>1
      <4>2. z[Len(line)] = line[Len(line)]
        BY <1>1, <4>1
      <4> QED BY <1>2, <4>1, <4>2
    <3> QED BY <1>7, <3>2, LineEnd
  <2>2. /\ Len(Append(line, Head(un))) = Len(line) + 1
        /\ \A i \in 1 .. Len(line) : Append(line, Head(un))[i] = line[i]
        /\ Append(line, Head(un))[Len(line) + 1] = Head(un)
    BY <1>5, AppendProperties
  <2> QED BY <1>1, <2>1, <2>2 DEF NoLF
<1> QED BY <1>4, <1>6, <1>7 DEF z

---------------------------------------------------------------------------
(* The answer. *)
LEMMA LargestOf ==
    ASSUME NEW S \in SUBSET Int, NEW n \in S, \A j \in S : j <= n
    PROVE  LastOf(S) = n
<1>1. \A i \in S : (\A j \in S : j <= i) => i = n
  OBVIOUS
<1> QED BY <1>1 DEF LastOf

LEMMA AtLeastTwo ==
    ASSUME NEW S, IsFiniteSet(S), NEW a \in S, NEW b \in S, a # b
    PROVE  Cardinality(S) >= 2 /\ Cardinality(S) \in Nat
<1>1. IsFiniteSet({a}) /\ Cardinality({a}) = 1
  BY FS_Singleton
<1>2. Cardinality({a} \union {b}) = 2
  <2>1. b \notin {a}
    OBVIOUS
  <2>2. Cardinality({a} \union {b}) = Cardinality({a}) + 1
    BY <1>1, <2>1, FS_AddElement
  <2> QED BY <1>1, <2>2
<1>3. Cardinality({a} \union {b}) <= Cardinality(S)
  <2>1. {a} \union {b} \in SUBSET S
    OBVIOUS
  <2> QED BY <2>1, FS_Subset
<1>4. Cardinality(S) \in Nat
  BY FS_CardinalityType
<1> QED BY <1>2, <1>3, <1>4

(* The length that was announced is the one the client reads. *)
LEMMA AnswerRead ==
    ASSUME NEW line \in Seq(Char), NEW p \in Nat, NEW length \in -1 .. MaxLength,
           Len(line) = p + 4, line[p + 1] = COMMA, line[p + 2] = ToString(length),
           line[p + 3] = COMMA, line[p + 4] = VERDICT, Answer(line)
    PROVE  /\ client' = [client EXCEPT
                           !.at = IF length > 0 THEN "body" ELSE "prompt",
                           !.length = length, !.line = <<>>, !.stored = length = 0]
           /\ UNCHANGED closed
<1> DEFINE c == Commas(line)
           resp == LastOf(c)
           lenstr == LastOf(c \ {resp})
<1>1. ToString(length) # COMMA /\ VERDICT # COMMA
  <2>1. ToString(length) \in Char \ {COMMA, "\r", "\n"}
    BY NumeralAssumption
  <2> QED BY <2>1 DEF COMMA, VERDICT
<1>2. p \in Int /\ p >= 0 /\ Len(line) = p + 4
  OBVIOUS
<1>3. /\ c \subseteq 1 .. p + 4 /\ p + 1 \in c /\ p + 3 \in c
      /\ p + 2 \notin c /\ p + 4 \notin c
  <2>1. \A i : i \in c <=> i \in 1 .. p + 4 /\ line[i] = COMMA
    BY <1>2 DEF Commas
  <2>2. p + 1 \in 1 .. p + 4 /\ p + 3 \in 1 .. p + 4
    BY <1>2
  <2> HIDE DEF c
  <2> QED BY <1>1, <2>1, <2>2
<1> HIDE DEF c
<1>4. \A j \in c : j \in Int /\ j <= p + 3 /\ j # p + 2
  <2>1. \A j \in c : j \in Int /\ 1 <= j /\ j <= p + 4 /\ j # p + 4 /\ j # p + 2
    BY <1>2, <1>3
  <2> QED BY <1>2, <2>1
<1>5. resp = p + 3
  <2>1. c \in SUBSET Int
    BY <1>4
  <2> QED BY <1>3, <1>4, <2>1, LargestOf
<1>6. lenstr = p + 1
  <2>1. c \ {resp} \in SUBSET Int /\ p + 1 \in c \ {resp}
    BY <1>2, <1>3, <1>4, <1>5
  <2>2. \A j \in c \ {resp} : j <= p + 1
    BY <1>2, <1>4, <1>5
  <2> HIDE DEF resp
  <2> QED BY <2>1, <2>2, LargestOf
<1>7. ~(Cardinality(c) < 2)
  <2>1. IsFiniteSet(c)
    <3>1. IsFiniteSet(1 .. p + 4)
      <4>1. 1 \in Int /\ p + 4 \in Int
        BY <1>2
      <4> QED BY <4>1, FS_Interval
    <3> QED BY <1>3, <3>1, FS_Subset
  <2>2. p + 1 # p + 3
    BY <1>2
  <2>3. Cardinality(c) >= 2 /\ Cardinality(c) \in Nat
    BY <1>3, <2>1, <2>2, AtLeastTwo
  <2> QED BY <2>3
<1>8. (CHOOSE n \in -1 .. MaxLength : ToString(n) = line[lenstr + 1]) = length
  <2>1. line[lenstr + 1] = ToString(length)
    <3>1. lenstr + 1 = p + 2
      BY <1>2, <1>6
    <3> QED BY <3>1
  <2>2. \A n \in -1 .. MaxLength : ToString(n) = ToString(length) => n = length
    BY NumeralAssumption
  <2> HIDE DEF lenstr
  <2> QED BY <2>1, <2>2
<1> QED BY <1>7, <1>8 DEF Answer, c

LEMMA AnswerMalformed ==
    ASSUME NEW line, \A i \in 1 .. Len(line) : line[i] # COMMA, Answer(line)
    PROVE  client' = [client EXCEPT !.at = "done"] /\ Close("client")
<1>1. Commas(line) = {}
  BY DEF Commas
<1>2. Cardinality(Commas(line)) < 2
  BY <1>1, FS_EmptySet
<1> QED BY <1>2 DEF Answer

---------------------------------------------------------------------------
(* What is written and what is read, byte by byte. *)
LEMMA JoinFacts ==
    ASSUME NEW a \in Seq(Char), NEW b \in Seq(Char)
    PROVE  /\ a \o b \in Seq(Char) /\ Len(a) \in Nat /\ Len(b) \in Nat
           /\ Len(a \o b) = Len(a) + Len(b)
           /\ \A i \in 1 .. Len(a) : (a \o b)[i] = a[i]
           /\ \A i \in 1 .. Len(b) : (a \o b)[Len(a) + i] = b[i]
<1>1. /\ a \o b \in Seq(Char) /\ Len(a) \in Nat /\ Len(b) \in Nat
      /\ Len(a \o b) = Len(a) + Len(b)
      /\ \A i \in 1 .. Len(a) + Len(b) :
           (a \o b)[i] = IF i <= Len(a) THEN a[i] ELSE b[i - Len(a)]
  BY ConcatProperties, LenProperties
<1>2. ASSUME NEW i \in 1 .. Len(a) PROVE (a \o b)[i] = a[i]
  <2>1. i \in 1 .. Len(a) + Len(b) /\ i <= Len(a)
    BY <1>1
  <2> QED BY <1>1, <2>1
<1>3. ASSUME NEW i \in 1 .. Len(b) PROVE (a \o b)[Len(a) + i] = b[i]
  <2>1. /\ Len(a) + i \in 1 .. Len(a) + Len(b) /\ ~(Len(a) + i <= Len(a))
        /\ Len(a) + i - Len(a) = i
    BY <1>1
  <2> QED BY <1>1, <2>1
<1> QED BY <1>1, <1>2, <1>3

LEMMA LineEndText ==
    CRLF \in Seq(Char) /\ Len(CRLF) = 2 /\ CRLF[1] = "\r" /\ CRLF[2] = LF
BY TransferAssumption DEF CRLF, LF

LEMMA RequestText ==
    ASSUME NEW name \in Names
    PROVE  LET r == name \o CRLF
               m == Len(name)
           IN  /\ name \in Seq(Char) /\ name # <<>> /\ m \in Nat /\ m >= 2
               /\ r \in Seq(Char) /\ Len(r) = m + 2
               /\ r[m + 1] = "\r" /\ r[m + 2] = LF
               /\ \A i \in 1 .. m + 1 : r[i] # LF
               /\ SubSeq(r, 1, m) = name
<1> DEFINE r == name \o CRLF
           m == Len(name)
<1>1. name \in Seq(Char) /\ m \in Nat /\ m >= 2 /\ \A i \in 1 .. m : name[i] # LF
  <2>1. name \in Seq(Char) /\ m > 1 /\ \A i \in 1 .. m : name[i] # LF
    BY TransferAssumption DEF LF
  <2>2. m \in Nat
    BY <2>1, LenProperties
  <2> QED BY <2>1, <2>2
<1>2. CRLF \in Seq(Char) /\ Len(CRLF) = 2 /\ CRLF[1] = "\r" /\ CRLF[2] = LF
  BY LineEndText
<1>3. /\ r \in Seq(Char) /\ Len(r) = m + 2 /\ \A i \in 1 .. m : r[i] = name[i]
      /\ \A i \in 1 .. 2 : r[m + i] = CRLF[i]
  <2>1. /\ r \in Seq(Char) /\ Len(r) = m + Len(CRLF) /\ \A i \in 1 .. m : r[i] = name[i]
        /\ \A i \in 1 .. Len(CRLF) : r[m + i] = CRLF[i]
    BY <1>1, <1>2, JoinFacts
  <2> HIDE DEF r, m
  <2> QED BY <1>2, <2>1
<1>4. name # <<>>
  BY <1>1
<1> HIDE DEF r, m
<1>5. r[m + 1] = "\r" /\ r[m + 2] = LF
  BY <1>2, <1>3
<1>6. "\r" # LF
  BY DEF LF
<1>7. ASSUME NEW i \in 1 .. m + 1 PROVE r[i] # LF
  <2>1. CASE i = m + 1
    BY <1>5, <1>6, <2>1
  <2>2. CASE i # m + 1
    <3>1. i \in 1 .. m
      BY <1>1, <2>2
    <3> QED BY <1>1, <1>3, <3>1
  <2> QED BY <2>1, <2>2
<1>8. SubSeq(r, 1, m) = name
  <2>1. m \in 0 .. Len(r)
    BY <1>1, <1>3
  <2>2. /\ SubSeq(r, 1, m) \in Seq(Char) /\ Len(SubSeq(r, 1, m)) = m
        /\ \A i \in 1 .. m : SubSeq(r, 1, m)[i] = r[i]
    BY <1>3, <2>1, PartIsStart
  <2>3. m = Len(name)
    BY DEF m
  <2> QED BY <1>1, <1>3, <2>2, <2>3, SeqEqual
<1> QED BY <1>1, <1>3, <1>4, <1>5, <1>7, <1>8 DEF r, m

LEMMA ReplyText ==
    ASSUME NEW name \in Seq(Char), NEW length \in -1 .. MaxLength
    PROVE  LET r == name \o <<COMMA, ToString(length), COMMA, VERDICT>> \o CRLF
               m == Len(name)
           IN  /\ r \in Seq(Char) /\ m \in Nat /\ Len(r) = m + 6
               /\ \A i \in 1 .. m : r[i] = name[i]
               /\ r[m + 1] = COMMA /\ r[m + 2] = ToString(length) /\ r[m + 3] = COMMA
               /\ r[m + 4] = VERDICT /\ r[m + 5] = "\r" /\ r[m + 6] = LF
<1> DEFINE a == <<COMMA, ToString(length), COMMA, VERDICT>>
           q == name \o a
           r == name \o a \o CRLF
           m == Len(name)
<1>1. /\ a \in Seq(Char) /\ Len(a) = 4 /\ a[1] = COMMA /\ a[2] = ToString(length)
      /\ a[3] = COMMA /\ a[4] = VERDICT
  <2>1. ToString(length) \in Char /\ COMMA \in Char /\ VERDICT \in Char
    BY NumeralAssumption, TransferAssumption
  <2> QED BY <2>1
<1>2. CRLF \in Seq(Char) /\ Len(CRLF) = 2 /\ CRLF[1] = "\r" /\ CRLF[2] = LF
  BY LineEndText
<1> HIDE DEF a
<1>3. /\ q \in Seq(Char) /\ m \in Nat /\ Len(q) = m + 4
      /\ \A i \in 1 .. m : q[i] = name[i]
      /\ \A i \in 1 .. 4 : q[m + i] = a[i]
  <2>1. /\ q \in Seq(Char) /\ m \in Nat /\ Len(q) = m + Len(a)
        /\ \A i \in 1 .. m : q[i] = name[i]
        /\ \A i \in 1 .. Len(a) : q[m + i] = a[i]
    BY <1>1, JoinFacts
  <2> HIDE DEF q, m
  <2> QED BY <1>1, <2>1
<1>4. /\ r \in Seq(Char) /\ Len(r) = m + 4 + 2
      /\ \A i \in 1 .. m + 4 : r[i] = q[i]
      /\ \A i \in 1 .. 2 : r[m + 4 + i] = CRLF[i]
  <2> HIDE DEF m
  <2>1. /\ q \o CRLF \in Seq(Char) /\ Len(q \o CRLF) = Len(q) + Len(CRLF)
        /\ \A i \in 1 .. Len(q) : (q \o CRLF)[i] = q[i]
        /\ \A i \in 1 .. Len(CRLF) : (q \o CRLF)[Len(q) + i] = CRLF[i]
    BY <1>2, <1>3, JoinFacts
  <2>2. r = q \o CRLF
    OBVIOUS
  <2> HIDE DEF q, r
  <2> QED BY <1>2, <1>3, <2>1, <2>2
<1> HIDE DEF q, r, m
<1>5. \A i \in 1 .. m : r[i] = name[i]
  <2>1. \A i \in 1 .. m : i \in 1 .. m + 4
    BY <1>3
  <2> QED BY <1>3, <1>4, <2>1
<1>6. \A i \in 1 .. 4 : m + i \in 1 .. m + 4
  BY <1>3
<1>7. \A i \in 1 .. 4 : r[m + i] = a[i]
  BY <1>3, <1>4, <1>6
<1>8. /\ r[m + 1] = COMMA /\ r[m + 2] = ToString(length) /\ r[m + 3] = COMMA
      /\ r[m + 4] = VERDICT
  BY <1>1, <1>7
<1>9. r[m + 5] = "\r" /\ r[m + 6] = LF
  <2>1. m + 4 + 1 = m + 5 /\ m + 4 + 2 = m + 6
    BY <1>3
  <2> QED BY <1>2, <1>4, <2>1
<1>10. m + 4 + 2 = m + 6
  BY <1>3
<1> QED BY <1>3, <1>4, <1>5, <1>8, <1>9, <1>10 DEF r, m, a

(* Nothing a file grows by is mistaken for an answer. *)
LEMMA LeftoverPlain ==
    ASSUME Plain \/ files = Contents, NEW z, Leftover(z)
    PROVE  \A i \in 1 .. Len(z) : z[i] # COMMA /\ z[i] # LF
<1>1. CASE Plain
  BY <1>1 DEF Plain, Leftover
<1>2. CASE files = Contents
  BY <1>2 DEF Leftover
<1> QED BY <1>1, <1>2

---------------------------------------------------------------------------
(* Reading and writing in a dialogue. *)
LEMMA ReadOne ==
    ASSUME StreamSound, NEW s \in Side, Arrived(s) # <<>>, Read(s, 1),
           text'[Other(s)] = text[Other(s)]
    PROVE  /\ Unread(s) # <<>> /\ Head(Arrived(s)) = Head(Unread(s))
           /\ Unread(s)' = Tail(Unread(s))
           /\ taken' \in [Side -> Nat] /\ \A t \in Side : taken'[t] <= Len(got[t])
           /\ taken'[Other(s)] = taken[Other(s)]
<1> DEFINE a == Arrived(s)
           u == Unread(s)
<1>1. /\ a \in Seq(Char) /\ u \in Seq(Char) /\ Len(a) \in 0 .. Len(u)
      /\ \A i \in 1 .. Len(a) : a[i] = u[i]
  BY ArrivedFacts, UnreadFacts
<1>2. 1 \in 1 .. Len(a) /\ Len(u) >= 1 /\ Len(u) \in Nat
  <2>1. Len(a) \in Nat /\ Len(a) # 0 /\ Len(u) \in Nat
    BY <1>1, EmptySeq, LenProperties
  <2> QED BY <1>1, <2>1
<1>3. /\ Unread(s)' = SubSeq(u, 1 + 1, Len(u))
      /\ taken' \in [Side -> Nat] /\ \A t \in Side : taken'[t] <= Len(got[t])
      /\ taken'[Other(s)] = taken[Other(s)]
  BY <1>2, ReadUnread
<1> HIDE DEF a, u
<1>4. u # <<>> /\ a # <<>>
  BY <1>1, <1>2, EmptySeq
<1>5. Head(a) = a[1] /\ Head(u) = u[1] /\ a[1] = u[1]
  BY <1>1, <1>2, <1>4
<1>6. Tail(u) = SubSeq(u, 2, Len(u))
  BY <1>1, <1>4, PassOne
<1> QED BY <1>3, <1>4, <1>5, <1>6 DEF a, u

LEMMA IncomingFacts ==
    ASSUME StreamSound, Typed
    PROVE  /\ client.line \in Seq(Char) /\ server.line \in Seq(Char)
           /\ Unread("client") \in Seq(Char) /\ Unread("server") \in Seq(Char)
           /\ Incoming \in Seq(Char)
<1>1. client.line \in Seq(Char) /\ server.line \in Seq(Char)
  BY DEF Typed
<1>2. Unread("client") \in Seq(Char) /\ Unread("server") \in Seq(Char)
  BY SideFacts, UnreadFacts
<1> QED BY <1>1, <1>2, JoinFacts DEF Incoming

(* What comes after an answer changes nothing of it. *)
LEMMA AnswerGoesOn ==
    ASSUME NEW z \in Seq(Char), NEW b \in Seq(Char), NEW name \in Seq(Char),
           NEW k \in 0 .. Len(z), NEW length, AnswerAt(z, k, name, length)
    PROVE  /\ AnswerAt(z \o b, k, name, length)
           /\ After(z, k, name) \in Seq(Char)
           /\ After(z \o b, k, name) = After(z, k, name) \o b
           /\ Len(After(z, k, name)) \in Nat
<1> DEFINE p == k + Len(name)
           y == z \o b
<1>1. /\ y \in Seq(Char) /\ Len(z) \in Nat /\ Len(b) \in Nat
      /\ Len(y) = Len(z) + Len(b)
      /\ \A i \in 1 .. Len(z) : y[i] = z[i]
      /\ \A i \in 1 .. Len(b) : y[Len(z) + i] = b[i]
  BY JoinFacts
<1>2. Len(name) \in Nat /\ k \in Nat /\ p \in Nat /\ p + 6 <= Len(z)
  BY <1>1, LenProperties DEF AnswerAt
<1> HIDE DEF y
<1>3. AnswerAt(y, k, name, length)
  <2>1. \A i \in 1 .. p + 6 : y[i] = z[i]
    BY <1>1, <1>2
  <2>2. p + 6 <= Len(y)
    BY <1>1, <1>2
  <2>3. \A i \in 1 .. k : y[i] \in FileByte
    <3>1. \A i \in 1 .. k : i \in 1 .. p + 6
      BY <1>2
    <3> QED BY <2>1, <3>1 DEF AnswerAt
  <2>4. \A i \in 1 .. Len(name) : y[k + i] = name[i]
    <3>1. \A i \in 1 .. Len(name) : k + i \in 1 .. p + 6
      BY <1>2
    <3> QED BY <2>1, <3>1 DEF AnswerAt
  <2>5. /\ y[p + 1] = z[p + 1] /\ y[p + 2] = z[p + 2] /\ y[p + 3] = z[p + 3]
        /\ y[p + 4] = z[p + 4] /\ y[p + 5] = z[p + 5] /\ y[p + 6] = z[p + 6]
    <3>1. \A j \in 1 .. 6 : p + j \in 1 .. p + 6
      BY <1>2
    <3>2. \A j \in 1 .. 6 : y[p + j] = z[p + j]
      BY <2>1, <3>1
    <3>3. 1 \in 1 .. 6 /\ 2 \in 1 .. 6 /\ 3 \in 1 .. 6 /\ 4 \in 1 .. 6 /\ 5 \in 1 .. 6
          /\ 6 \in 1 .. 6
      OBVIOUS
    <3> HIDE DEF p
    <3> QED BY <3>2, <3>3, Zenon
  <2> QED BY <2>2, <2>3, <2>4, <2>5 DEF AnswerAt
<1>4. After(z, k, name) = SubSeq(z, p + 6 + 1, Len(z))
      /\ After(y, k, name) = SubSeq(y, p + 6 + 1, Len(y))
  <2>1. p + 6 + 1 = k + Len(name) + 7
    BY <1>2
  <2> QED BY <2>1 DEF After
<1> DEFINE u == SubSeq(z, p + 6 + 1, Len(z))
           v == SubSeq(y, p + 6 + 1, Len(y))
<1>5. u \in Seq(Char) /\ v = u \o b /\ Len(u) \in Nat
  <2> DEFINE m == p + 6
  <2>1. m \in 0 .. Len(z) /\ m \in 0 .. Len(y) /\ m \in Nat
    BY <1>1, <1>2
  <2> HIDE DEF m
  <2> DEFINE uu == SubSeq(z, m + 1, Len(z))
             vv == SubSeq(y, m + 1, Len(y))
  <2>2. uu \in Seq(Char) /\ Len(uu) = Len(z) - m
        /\ \A i \in 1 .. Len(z) - m : uu[i] = z[m + i]
    BY <2>1, TailIsRest
  <2>3. vv \in Seq(Char) /\ Len(vv) = Len(y) - m
        /\ \A i \in 1 .. Len(y) - m : vv[i] = y[m + i]
    BY <1>1, <2>1, TailIsRest
  <2> HIDE DEF uu, vv
  <2>4. /\ uu \o b \in Seq(Char) /\ Len(uu \o b) = Len(uu) + Len(b)
        /\ \A i \in 1 .. Len(uu) : (uu \o b)[i] = uu[i]
        /\ \A i \in 1 .. Len(b) : (uu \o b)[Len(uu) + i] = b[i]
    BY <2>2, JoinFacts
  <2>5. Len(vv) = Len(uu \o b)
    BY <1>1, <2>1, <2>2, <2>3, <2>4
  <2>6. ASSUME NEW i \in 1 .. Len(vv) PROVE vv[i] = (uu \o b)[i]
    <3>1. i \in Int /\ 1 <= i /\ i <= Len(z) + Len(b) - m
      BY <1>1, <2>1, <2>3
    <3>2. vv[i] = y[m + i]
      BY <2>3, <2>6
    <3>3. CASE i <= Len(z) - m
      <4>1. i \in 1 .. Len(z) - m /\ m + i \in 1 .. Len(z)
        BY <1>1, <2>1, <3>1, <3>3
      <4>2. i \in 1 .. Len(uu)
        BY <2>2, <4>1
      <4> QED BY <1>1, <2>2, <2>4, <3>2, <4>1, <4>2
    <3>4. CASE i > Len(z) - m
      <4> DEFINE j == i - (Len(z) - m)
      <4>1. j \in 1 .. Len(b) /\ m + i = Len(z) + j
        BY <1>1, <2>1, <3>1, <3>4
      <4>2. i = Len(uu) + j
        BY <1>1, <2>1, <2>2, <3>1
      <4> HIDE DEF j
      <4> QED BY <1>1, <2>4, <3>2, <4>1, <4>2
    <3>5. i <= Len(z) - m \/ i > Len(z) - m
      BY <1>1, <2>1, <3>1
    <3> QED BY <3>3, <3>4, <3>5
  <2>7. vv = uu \o b
    BY <2>3, <2>4, <2>5, <2>6, SeqEqual
  <2>8. Len(uu) \in Nat
    BY <2>2, LenProperties
  <2> QED BY <2>2, <2>7, <2>8 DEF uu, vv, m
<1> QED BY <1>3, <1>4, <1>5 DEF y

LEMMA SameFiles ==
    ASSUME FilesSound, files' = files
    PROVE  FilesSound' /\ (Clean' <=> Clean)
BY DEF FilesSound, Clean, Plain

LEMMA SameDialogue ==
    ASSUME Dialogue, client' = client, server' = server, files' = files,
           Unread("client")' = Unread("client"), Unread("server")' = Unread("server")
    PROVE  Dialogue'
<1>1. Prompted => Prompted'
  BY DEF Prompted, Leftover, Beyond, Waiting
<1>2. Asked => Asked'
  BY DEF Asked, Incoming, Leftover, Beyond, NoLF
<1>3. Answered => Answered'
  <2>1. Incoming' = Incoming
    BY DEF Incoming
  <2>2. \A k, length : /\ AnswerAt(Incoming, k, client.name, length)'
                            <=> AnswerAt(Incoming, k, client.name, length)
                       /\ Sending(client.name, length, After(Incoming, k, client.name))'
                            <=> Sending(client.name, length, After(Incoming, k, client.name))
    BY <2>1 DEF AnswerAt, Sending, After
  <2> QED BY <2>1, <2>2 DEF Answered, AnswerIn, Waiting, NoLF
<1>4. Fetching => Fetching'
  BY DEF Fetching, Sending, Waiting
<1> QED BY <1>1, <1>2, <1>3, <1>4 DEF Dialogue

---------------------------------------------------------------------------
(* The steps. *)
LEMMA RequestKeeps ==
    ASSUME DialogueInv, NEW name \in Names, Request(name)
    PROVE  DialogueInv'
<1>1. /\ client.at = "prompt" /\ Write("client", name \o CRLF)
      /\ UNCHANGED <<taken, closed, server, files>>
      /\ client' = [at |-> "line", line |-> <<>>, name |-> name, length |-> 0,
                    file |-> <<>>, stored |-> FALSE]
      /\ StreamSound /\ FilesSound /\ Typed /\ Dialogue
  BY DEF Request, DialogueInv
<1>2. name \o CRLF \in Seq(Char) /\ name \in Seq(Char)
  BY RequestText
<1>3. StreamSound'
  <2>1. \E s \in Side, b \in Seq(Char) : Write(s, b)
    BY <1>1, <1>2, SideFacts
  <2>2. got' = got /\ taken' \in [Side -> Nat] /\ \A s \in Side : taken'[s] <= Len(got[s])
    BY <1>1 DEF Write, StreamSound
  <2> QED BY <1>1, <2>1, <2>2, StreamKept
<1>4. Unread("client")' = Unread("client")
  <2>1. text'[Other("client")] = text[Other("client")]
    BY <1>1, SideFacts DEF Write, StreamSound
  <2> QED BY <1>1, <2>1, UnreadSame
<1>5. Unread("server")' = Unread("server") \o (name \o CRLF)
  <2>1. Write(Other("server"), name \o CRLF) /\ "server" \in Side
        /\ taken'["server"] = taken["server"]
    BY <1>1, SideFacts
  <2> QED BY <1>1, <1>2, <2>1, WriteUnread
<1>6. FilesSound' /\ Typed'
  BY <1>1, <1>2, SameFiles DEF Typed
<1>7. Asked'
  <2>1. Prompted
    BY <1>1 DEF Dialogue
  <2>2. Incoming' = Unread("client")
    <3>1. Incoming' = <<>> \o Unread("client")
      BY <1>1, <1>4 DEF Incoming
    <3>2. Unread("client") \in Seq(Char)
      BY <1>1, IncomingFacts
    <3> QED BY <3>1, <3>2, ConcatEmptySeq
  <2>3. Leftover(Incoming)' /\ Beyond'
    BY <1>1, <2>1, <2>2 DEF Prompted, Leftover, Beyond
  <2>4. server.at # "closed" => server.line = <<>> /\ Unread("server") = <<>>
    BY <2>1 DEF Prompted, Waiting
  <2>5. server'.at # "closed" => server'.line \o Unread("server")' = name \o CRLF
    <3>1. \A s \in Seq(Char) : <<>> \o s = s
      BY ConcatEmptySeq
    <3> QED BY <1>1, <1>2, <1>5, <2>4, <3>1
  <2>6. server'.at = "line" => NoLF(server'.line)
    BY <1>1, <2>4 DEF NoLF
  <2> QED BY <1>1, <2>3, <2>4, <2>5, <2>6 DEF Asked, NoLF
<1> QED BY <1>1, <1>3, <1>6, <1>7 DEF Dialogue, DialogueInv

(* A connection the client has left. *)
LEMMA LeavingKeeps ==
    ASSUME DialogueInv, client.at \in {"prompt", "line", "body"},
           \E at \in {"done", "failed"} : client' = [client EXCEPT !.at = at],
           Close("client"), UNCHANGED <<server, files, text, offered, got>>,
           taken' \in [Side -> Nat], \A s \in Side : taken'[s] <= Len(got[s])
    PROVE  DialogueInv'
<1>1. StreamSound'
  <2>1. gaveUp' = gaveUp => NoWrite
    BY DEF NoWrite
  <2> QED BY DEF DialogueInv, StreamSound
<1>2. closed' = [closed EXCEPT !["client"] = TRUE] /\ "client" \in Side /\ "server" \in Side
  BY SideFacts DEF Close
<1>3. Typed'
  BY <1>2 DEF Typed, DialogueInv
<1> QED BY <1>1, <1>3, SameFiles DEF DialogueInv, Dialogue, Typed

LEMMA QuitKeeps ==
    ASSUME DialogueInv, Quit PROVE DialogueInv'
<1>1. taken' \in [Side -> Nat] /\ \A s \in Side : taken'[s] <= Len(got[s])
  BY DEF Quit, DialogueInv, StreamSound
<1> QED BY <1>1, LeavingKeeps DEF Quit, NoWrite

LEMMA ClientBodyEofKeeps ==
    ASSUME DialogueInv, ClientBodyEof PROVE DialogueInv'
<1>1. taken' \in [Side -> Nat] /\ \A s \in Side : taken'[s] <= Len(got[s])
  BY DEF ClientBodyEof, DialogueInv, StreamSound
<1> QED BY <1>1, LeavingKeeps DEF ClientBodyEof, NoWrite

(* The server closes in the middle of a line: there is no answer in it. *)
LEMMA ClientLineEofKeeps ==
    ASSUME DialogueInv, Clean, ClientLineEof PROVE DialogueInv'
<1>1. /\ client.at = "line" /\ AtEof("client") /\ Answer(client.line) /\ NoWrite
      /\ UNCHANGED <<taken, server, files>>
      /\ StreamSound /\ Typed /\ Dialogue
  BY DEF ClientLineEof, DialogueInv
<1>2. Unread("client") = <<>>
  BY <1>1, SideFacts, EofUnread
<1>3. Incoming = client.line
  BY <1>1, <1>2, IncomingFacts, ConcatEmptySeq DEF Incoming
<1>4. CASE Asked
  <2>1. \A i \in 1 .. Len(client.line) : client.line[i] # COMMA
    BY <1>3, <1>4, LeftoverPlain DEF Asked, Clean
  <2>2. client' = [client EXCEPT !.at = "done"] /\ Close("client")
    BY <1>1, <2>1, AnswerMalformed
  <2>3. taken' \in [Side -> Nat] /\ \A s \in Side : taken'[s] <= Len(got[s])
    BY <1>1 DEF StreamSound
  <2> QED BY <1>1, <2>2, <2>3, LeavingKeeps DEF NoWrite
<1>5. CASE Answered
  <2>1. PICK k \in 0 .. Len(client.line), length \in -1 .. MaxLength :
            AnswerAt(client.line, k, client.name, length)
    BY <1>3, <1>5 DEF Answered, AnswerIn
  <2>2. /\ client.line \in Seq(Char) /\ Len(client.line) \in Nat /\ Len(client.name) \in Nat
        /\ NoLF(client.line)
    BY <1>1, <1>5, LenProperties DEF Typed, Answered
  <2>3. /\ k + Len(client.name) + 6 <= Len(client.line)
        /\ client.line[k + Len(client.name) + 6] = LF
    BY <2>1 DEF AnswerAt
  <2>4. k + Len(client.name) + 6 \in 1 .. Len(client.line)
    BY <2>2, <2>3
  <2> QED BY <2>2, <2>3, <2>4 DEF NoLF
<1> QED BY <1>1, <1>4, <1>5 DEF Dialogue

LEMMA ReadErrorKeeps ==
    ASSUME DialogueInv, ServerReadError PROVE DialogueInv'
<1>1. /\ server.at = "file" /\ server' = [server EXCEPT !.at = "closed"]
      /\ closed' = [closed EXCEPT !["server"] = TRUE] /\ NoWrite
      /\ UNCHANGED <<taken, client, files>>
      /\ StreamSound /\ FilesSound /\ Typed /\ Dialogue
  BY DEF ServerReadError, DialogueInv, Close
<1>2. StreamSound'
  BY <1>1 DEF NoWrite, StreamSound
<1>3. FilesSound' /\ Typed'
  BY <1>1, SameFiles, SideFacts DEF Typed
<1>4. Unread("client")' = Unread("client") /\ Unread("server")' = Unread("server")
  BY <1>1, UnreadSame DEF NoWrite
<1>5. server'.at = "closed"
  BY <1>1 DEF Typed
<1>6. Prompted => Prompted'
  BY <1>1, <1>4, <1>5 DEF Prompted, Leftover, Beyond, Waiting
<1>7. Asked => Asked'
  BY <1>1, <1>4, <1>5 DEF Asked, Incoming, Leftover, Beyond
<1>8. Answered => Answered'
  <2>1. Incoming' = Incoming
    BY <1>1, <1>4 DEF Incoming
  <2>2. \A k, length : /\ AnswerAt(Incoming, k, client.name, length)'
                            <=> AnswerAt(Incoming, k, client.name, length)
                       /\ Sending(client.name, length, After(Incoming, k, client.name))
                            => Sending(client.name, length, After(Incoming, k, client.name))'
    BY <1>1, <1>5, <2>1 DEF AnswerAt, Sending, After
  <2> QED BY <1>1, <1>5, <2>1, <2>2 DEF Answered, AnswerIn, Waiting
<1>9. Fetching => Fetching'
  BY <1>1, <1>4, <1>5 DEF Fetching, Sending, Waiting
<1> QED BY <1>1, <1>2, <1>3, <1>6, <1>7, <1>8, <1>9 DEF Dialogue, DialogueInv

LEMMA ArriveKeeps ==
    ASSUME DialogueInv, NEW s \in Side, Arrive(s) PROVE DialogueInv'
<1>1. /\ Deliver(s) /\ UNCHANGED <<text, taken, closed, client, server, files>>
      /\ StreamSound /\ FilesSound /\ Typed /\ Dialogue
  BY DEF Arrive, DialogueInv
<1>2. StreamSound' /\ \A t : Unread(t)' = Unread(t)
  BY <1>1, DeliverKeeps
<1>3. Typed'
  BY <1>1 DEF Typed
<1> QED BY <1>1, <1>2, <1>3, SameFiles, SameDialogue DEF DialogueInv

(* A file grows by bytes that end no line and separate nothing. *)
LEMMA GrowFiles ==
    ASSUME FilesSound, NEW n \in DOMAIN Contents, NEW b \in FileByte, Grow(n, b)
    PROVE  /\ FilesSound' /\ files' # Contents
           /\ DOMAIN files' = DOMAIN files
           /\ \A m \in DOMAIN Contents :
                /\ Len(files[m]) \in Nat /\ Len(files'[m]) \in Nat
                /\ Len(files[m]) <= Len(files'[m])
                /\ \A i \in 1 .. Len(files[m]) : files'[m][i] = files[m][i]
<1>1. /\ Len(files[n]) < MaxLength
      /\ files' = [files EXCEPT ![n] = Append(files[n], b)]
      /\ DOMAIN files = DOMAIN Contents /\ b \in Char
  BY TransferAssumption DEF Grow, FilesSound
<1>2. \A m \in DOMAIN Contents : files'[m] = IF m = n THEN Append(files[n], b) ELSE files[m]
  BY <1>1
<1>3. /\ files[n] \in Seq(Char) /\ Len(files[n]) \in Nat
      /\ Append(files[n], b) \in Seq(Char)
      /\ Len(Append(files[n], b)) = Len(files[n]) + 1
      /\ \A i \in 1 .. Len(files[n]) : Append(files[n], b)[i] = files[n][i]
      /\ Append(files[n], b)[Len(files[n]) + 1] = b
  BY <1>1, LenProperties, AppendProperties DEF FilesSound
<1> DEFINE f == Append(files[n], b)
<1> HIDE DEF f
<1>4. \A m \in DOMAIN Contents : Len(files[m]) \in Nat /\ Len(Contents[m]) \in Nat
  BY LenProperties, TransferAssumption DEF FilesSound
<1>5. ASSUME NEW m \in DOMAIN Contents
      PROVE  /\ files'[m] \in Seq(Char)
             /\ Len(files[m]) \in Nat /\ Len(files'[m]) \in Nat
             /\ Len(files[m]) <= Len(files'[m]) /\ Len(files'[m]) <= MaxLength
             /\ \A i \in 1 .. Len(files[m]) : files'[m][i] = files[m][i]
             /\ \A i \in Len(files[m]) + 1 .. Len(files'[m]) : files'[m][i] \in FileByte
  <2>1. CASE m = n
    <3>1. files'[m] = f
      BY <1>2, <2>1 DEF f
    <3>2. /\ f \in Seq(Char) /\ Len(f) = Len(files[n]) + 1
          /\ \A i \in 1 .. Len(files[n]) : f[i] = files[n][i]
          /\ f[Len(files[n]) + 1] = b
      BY <1>3 DEF f
    <3>3. Len(f) <= MaxLength
      BY <1>1, <1>3, <3>2, TransferAssumption
    <3>4. \A i \in Len(files[n]) + 1 .. Len(f) : i = Len(files[n]) + 1
      BY <1>3, <3>2
    <3> QED BY <1>3, <2>1, <3>1, <3>2, <3>3, <3>4
  <2>2. CASE m # n
    <3>1. files'[m] = files[m]
      BY <1>2, <2>2
    <3>2. files[m] \in Seq(Char) /\ Len(files[m]) <= MaxLength
      BY DEF FilesSound
    <3>3. Len(files[m]) + 1 .. Len(files[m]) = {}
      BY <1>4
    <3> QED BY <1>4, <3>1, <3>2, <3>3
  <2> QED BY <2>1, <2>2
<1>6. ASSUME NEW m \in DOMAIN Contents
      PROVE  /\ Len(files'[m]) \in Len(Contents[m]) .. MaxLength
             /\ \A i \in 1 .. Len(Contents[m]) : files'[m][i] = Contents[m][i]
             /\ \A i \in Len(Contents[m]) + 1 .. Len(files'[m]) : files'[m][i] \in FileByte
  <2>1. /\ Len(Contents[m]) <= Len(files[m])
        /\ \A i \in 1 .. Len(Contents[m]) : files[m][i] = Contents[m][i]
        /\ \A i \in Len(Contents[m]) + 1 .. Len(files[m]) : files[m][i] \in FileByte
    BY DEF FilesSound
  <2>2. Len(files'[m]) \in Len(Contents[m]) .. MaxLength
    BY <1>4, <1>5, <2>1
  <2>3. \A i \in 1 .. Len(Contents[m]) : i \in 1 .. Len(files[m])
    BY <1>4, <2>1
  <2>4. \A i \in Len(Contents[m]) + 1 .. Len(files'[m]) :
            \/ i \in Len(Contents[m]) + 1 .. Len(files[m]) /\ i \in 1 .. Len(files[m])
            \/ i \in Len(files[m]) + 1 .. Len(files'[m])
    BY <1>4, <1>5, <2>1
  <2> QED BY <1>5, <2>1, <2>2, <2>3, <2>4
<1>7. files' # Contents
  <2>1. Len(files'[n]) = Len(files[n]) + 1
    BY <1>2, <1>3 DEF f
  <2>2. Len(files[n]) \in Len(Contents[n]) .. MaxLength
    BY DEF FilesSound
  <2> QED BY <1>4, <2>1, <2>2
<1>8. FilesSound' /\ DOMAIN files' = DOMAIN files
  BY <1>1, <1>5, <1>6 DEF FilesSound
<1> QED BY <1>5, <1>7, <1>8

LEMMA GrowKeeps ==
    ASSUME DialogueInv, NEW n \in DOMAIN Contents, NEW b \in FileByte, Grow(n, b)
    PROVE  DialogueInv'
<1>1. /\ NoWrite /\ UNCHANGED <<taken, closed, client, server>>
      /\ StreamSound /\ FilesSound /\ Typed /\ Dialogue
  BY DEF Grow, DialogueInv
<1>2. /\ FilesSound' /\ files' # Contents
      /\ \A m \in DOMAIN Contents :
                /\ Len(files[m]) \in Nat /\ Len(files'[m]) \in Nat
                /\ Len(files[m]) <= Len(files'[m])
                /\ \A i \in 1 .. Len(files[m]) : files'[m][i] = files[m][i]
  BY <1>1, GrowFiles
<1>3. StreamSound'
  BY <1>1 DEF NoWrite, StreamSound
<1>4. Typed'
  BY <1>1, <1>2 DEF Typed
<1>5. Unread("client")' = Unread("client") /\ Unread("server")' = Unread("server")
  BY <1>1, UnreadSame DEF NoWrite
<1>6. Prompted => Prompted'
  <2>1. ASSUME Prompted, client.stored
        PROVE  /\ Len(client.file) \in
                    Len(Contents[client.name]) .. Len(files'[client.name])
               /\ \A i \in 1 .. Len(client.file) :
                    client.file[i] = files'[client.name][i]
    <3>1. /\ client.name \in DOMAIN Contents
          /\ Len(client.file) \in Len(Contents[client.name]) .. Len(files[client.name])
          /\ \A i \in 1 .. Len(client.file) : client.file[i] = files[client.name][i]
      BY <2>1 DEF Prompted
    <3>2. Len(client.file) \in Int /\ Len(client.file) <= Len(files[client.name])
      BY <3>1
    <3>3. \A i \in 1 .. Len(client.file) : i \in 1 .. Len(files[client.name])
      BY <1>2, <3>1, <3>2
    <3> QED BY <1>2, <3>1, <3>2, <3>3
  <2> QED BY <1>1, <1>2, <1>5, <2>1 DEF Prompted, Leftover, Beyond, Waiting
<1>7. Asked => Asked'
  BY <1>1, <1>2, <1>5 DEF Asked, Incoming, Leftover, Beyond, NoLF
<1>8. ASSUME NEW name, NEW length, NEW part, Len(part) \in Nat, Sending(name, length, part)
      PROVE  Sending(name, length, part)'
  <2>1. CASE name \notin DOMAIN Contents
    BY <1>1, <1>8, <2>1 DEF Sending
  <2>2. CASE name \in DOMAIN Contents
    <3>1. /\ length \in Len(Contents[name]) .. Len(files[name])
          /\ Len(part) <= Len(files[name])
          /\ \A i \in 1 .. Len(part) : part[i] = files[name][i]
      BY <1>8, <2>2 DEF Sending
    <3>2. length \in Len(Contents[name]) .. Len(files'[name])
          /\ Len(part) <= Len(files'[name])
      BY <1>2, <1>8, <2>2, <3>1
    <3>3. \A i \in 1 .. Len(part) : i \in 1 .. Len(files[name])
      BY <1>2, <1>8, <2>2, <3>1
    <3>4. \A i \in 1 .. Len(part) : part[i] = files'[name][i]
      BY <1>2, <2>2, <3>1, <3>3
    <3> QED BY <1>1, <1>8, <2>2, <3>2, <3>4 DEF Sending
  <2> QED BY <2>1, <2>2
<1>9. Answered => Answered'
  <2>1. PICK z : z = Incoming
    OBVIOUS
  <2>2. PICK name : name = client.name
    OBVIOUS
  <2>3. z \in Seq(Char) /\ name \in Seq(Char)
    BY <1>1, <2>1, <2>2, IncomingFacts DEF Typed
  <2>4. SUFFICES ASSUME Answered PROVE Answered'
    OBVIOUS
  <2>5. PICK k \in 0 .. Len(z), length \in -1 .. MaxLength :
            AnswerAt(z, k, name, length) /\ Sending(name, length, After(z, k, name))
    BY <2>1, <2>2, <2>4 DEF Answered, AnswerIn
  <2>6. Len(After(z, k, name)) \in Nat
    <3>1. After(z, k, name) \in Seq(Char)
      <4>1. <<>> \in Seq(Char)
        OBVIOUS
      <4> QED BY <2>3, <2>5, <4>1, AnswerGoesOn
    <3> QED BY <3>1, LenProperties
  <2>7. PICK part : part = After(z, k, name)
    OBVIOUS
  <2>8. Sending(name, length, part)'
    BY <1>8, <2>5, <2>6, <2>7
  <2>9. AnswerAt(z, k, name, length)'
    BY <1>2, <2>5 DEF AnswerAt
  <2>10. Incoming' = z /\ client'.name = name
    BY <1>1, <1>5, <2>1, <2>2 DEF Incoming
  <2>11. AnswerIn(Incoming, client.name)'
    BY <2>5, <2>7, <2>8, <2>9, <2>10 DEF AnswerIn, AnswerAt, Sending, After
  <2> QED BY <1>1, <1>5, <2>4, <2>11 DEF Answered, Waiting, NoLF
<1>10. Fetching => Fetching'
  <2>1. PICK part : part = client.file \o Unread("client")
    OBVIOUS
  <2>2. Len(part) \in Nat
    <3>1. part \in Seq(Char)
      BY <1>1, <2>1, IncomingFacts, JoinFacts DEF Typed
    <3> QED BY <3>1, LenProperties
  <2>3. PICK name, length : name = client.name /\ length = Len(client.file) + client.length
    OBVIOUS
  <2>4. SUFFICES ASSUME Fetching PROVE Fetching'
    OBVIOUS
  <2>5. Sending(name, length, part)'
    BY <1>8, <2>1, <2>2, <2>3, <2>4 DEF Fetching
  <2>6. /\ (client.file \o Unread("client"))' = part /\ client'.name = name
        /\ Len(client'.file) + client'.length = length
    BY <1>1, <1>5, <2>1, <2>3
  <2> QED BY <1>1, <1>5, <2>4, <2>5, <2>6 DEF Fetching, Waiting, Sending
<1> QED BY <1>1, <1>2, <1>3, <1>4, <1>6, <1>7, <1>9, <1>10 DEF Dialogue, DialogueInv

(* The first line end of an incoming answer is its own. *)
LEMMA AnswerShape ==
    ASSUME Clean, NEW z \in Seq(Char), NEW name \in Names, NEW k \in 0 .. Len(z),
           NEW length \in -1 .. MaxLength, AnswerAt(z, k, name, length)
    PROVE  LET m == k + Len(name) + 6
           IN  /\ m \in Nat /\ m >= 2 /\ m <= Len(z)
               /\ z[m - 1] = "\r" /\ z[m] = LF
               /\ \A i \in 1 .. m - 1 : z[i] # LF
<1> DEFINE q == Len(name)
           p == k + q
<1>1. k \in Nat /\ q \in Nat /\ q >= 2 /\ p \in Nat /\ p >= 2
  <2>1. k \in Nat /\ q \in Nat /\ q >= 2
    BY RequestText, LenProperties
  <2> HIDE DEF q
  <2> QED BY <2>1
<1>2. /\ p + 6 <= Len(z) /\ z[p + 5] = "\r" /\ z[p + 6] = LF
      /\ z[p + 1] = COMMA /\ z[p + 2] = ToString(length) /\ z[p + 3] = COMMA
      /\ z[p + 4] = VERDICT
      /\ \A i \in 1 .. k : z[i] \in FileByte
      /\ files = Contents => k = 0
      /\ \A i \in 1 .. q : z[k + i] = name[i]
  BY DEF AnswerAt
<1>3. COMMA # LF /\ VERDICT # LF /\ "\r" # LF /\ ToString(length) # LF
  <2>1. ToString(length) \in Char \ {COMMA, "\r", "\n"}
    BY NumeralAssumption
  <2> QED BY <2>1 DEF COMMA, VERDICT, LF
<1>4. \A i \in 1 .. q : name[i] # LF
  BY TransferAssumption DEF LF
<1> HIDE DEF q
<1>5. ASSUME NEW i \in 1 .. p + 5 PROVE z[i] # LF
  <2>1. CASE i <= k
    <3>1. i \in 1 .. k
      BY <1>1, <2>1
    <3>2. z[i] \in FileByte
      BY <1>2, <3>1
    <3>3. Plain
      BY <1>1, <1>2, <2>1 DEF Clean
    <3> QED BY <3>2, <3>3 DEF Plain
  <2>2. CASE k < i /\ i <= p
    <3>1. i - k \in 1 .. q /\ k + (i - k) = i
      BY <1>1, <2>2
    <3>2. z[i] = name[i - k]
      BY <1>2, <3>1
    <3> QED BY <1>4, <3>1, <3>2
  <2>3. CASE i \in {p + 1, p + 2, p + 3, p + 4, p + 5}
    <3> HIDE DEF p
    <3> QED BY <1>2, <1>3, <2>3
  <2>4. i <= k \/ (k < i /\ i <= p) \/ i \in {p + 1, p + 2, p + 3, p + 4, p + 5}
    BY <1>1
  <2> QED BY <2>1, <2>2, <2>3, <2>4
<1> HIDE DEF p
<1> DEFINE m == k + Len(name) + 6
<1>6. m = p + 6 /\ m - 1 = p + 5 /\ m \in Nat /\ m >= 2
  <2>1. m = p + 6
    BY DEF p, q
  <2> HIDE DEF m
  <2> QED BY <1>1, <2>1
<1> HIDE DEF m
<1>7. /\ m <= Len(z) /\ z[m - 1] = "\r" /\ z[m] = LF
      /\ \A i \in 1 .. m - 1 : z[i] # LF
  BY <1>2, <1>5, <1>6, Zenon
<1> QED BY <1>6, <1>7 DEF m

(* The client has read the line end of an answer. *)
LEMMA AnswerTaken ==
    ASSUME Clean, FilesSound, NEW z \in Seq(Char), NEW name \in Names,
           NEW k \in 0 .. Len(z), NEW length \in -1 .. MaxLength,
           AnswerAt(z, k, name, length),
           NEW line, line = SubSeq(z, 1, k + Len(name) + 4), Answer(line)
    PROVE  /\ client' = [client EXCEPT
                           !.at = IF length > 0 THEN "body" ELSE "prompt",
                           !.length = length, !.line = <<>>, !.stored = length = 0]
           /\ UNCHANGED closed
<1> DEFINE p == k + Len(name)
<1>1. k \in Nat /\ Len(name) \in Nat /\ p \in Nat /\ Len(z) \in Nat
  BY RequestText, LenProperties
<1>2. /\ z[p + 1] = COMMA /\ z[p + 2] = ToString(length) /\ z[p + 3] = COMMA
      /\ z[p + 4] = VERDICT
  BY DEF AnswerAt
<1>3. line = SubSeq(z, 1, p + 4)
  OBVIOUS
<1> HIDE DEF p
<1>4. p + 4 \in 0 .. Len(z)
  <2>1. p + 6 <= Len(z)
    BY DEF AnswerAt, p
  <2> QED BY <1>1, <2>1
<1>5. line \in Seq(Char) /\ Len(line) = p + 4 /\ \A i \in 1 .. p + 4 : line[i] = z[i]
  <2>1. PICK n : n = p + 4
    OBVIOUS
  <2>2. /\ SubSeq(z, 1, n) \in Seq(Char) /\ Len(SubSeq(z, 1, n)) = n
        /\ \A i \in 1 .. n : SubSeq(z, 1, n)[i] = z[i]
    BY <1>4, <2>1, PartIsStart
  <2> QED BY <1>3, <2>1, <2>2
<1>6. /\ p + 1 \in 1 .. p + 4 /\ p + 2 \in 1 .. p + 4 /\ p + 3 \in 1 .. p + 4
      /\ p + 4 \in 1 .. p + 4
  BY <1>1
<1>7. /\ line[p + 1] = COMMA /\ line[p + 2] = ToString(length) /\ line[p + 3] = COMMA
      /\ line[p + 4] = VERDICT
  BY <1>2, <1>5, <1>6
<1> QED BY <1>1, <1>5, <1>7, AnswerRead

LEMMA ClientCharKeeps ==
    ASSUME DialogueInv, Clean, ClientChar PROVE DialogueInv'
<1>1. /\ client.at = "line" /\ Arrived("client") # <<>> /\ Read("client", 1) /\ NoWrite
      /\ UNCHANGED <<server, files>>
      /\ StreamSound /\ FilesSound /\ Typed /\ Dialogue
  BY DEF ClientChar, DialogueInv
<1>2. /\ Unread("client") # <<>> /\ Head(Arrived("client")) = Head(Unread("client"))
      /\ Unread("client")' = Tail(Unread("client"))
      /\ taken' \in [Side -> Nat] /\ \A t \in Side : taken'[t] <= Len(got[t])
      /\ taken'["server"] = taken["server"]
  BY <1>1, ReadOne, SideFacts DEF NoWrite
<1>3. StreamSound'
  BY <1>1, <1>2, StreamKept DEF NoWrite
<1>4. Unread("server")' = Unread("server")
  BY <1>1, <1>2, UnreadSame DEF NoWrite
<1>5. PICK line, un, name : line = client.line /\ un = Unread("client") /\ name = client.name
  OBVIOUS
<1>6. line \in Seq(Char) /\ un \in Seq(Char) /\ name \in Names /\ un # <<>>
      /\ Incoming = line \o un
  BY <1>1, <1>2, <1>5, IncomingFacts DEF Typed, Incoming
<1>7. PICK z : z = line \o un
  OBVIOUS
<1>8. z \in Seq(Char) /\ Incoming = z
  BY <1>6, <1>7, JoinFacts
<1>9. PICK c : c = Head(un)
  OBVIOUS
<1>10. /\ c \in Char /\ c = un[1] /\ Append(line, c) \in Seq(Char)
       /\ Append(line, c) \o Tail(un) = z
  BY <1>6, <1>7, <1>9, PassOne
<1>11. FilesSound'
  BY <1>1, SameFiles
<1>12. \A k, length, part :
          /\ AnswerAt(z, k, name, length)' <=> AnswerAt(z, k, name, length)
          /\ Sending(name, length, part)' <=> Sending(name, length, part)
  BY <1>1 DEF AnswerAt, Sending
<1>13. client.at = "line" => client.file = <<>> /\ ~client.stored /\ (Asked \/ Answered)
  BY <1>1 DEF Dialogue
<1>14. CASE ~EndsLine(line, c)
  <2>1. client' = [client EXCEPT !.line = Append(client.line, c)] /\ closed' = closed
    BY <1>2, <1>5, <1>9, <1>14 DEF ClientChar
  <2>2. Typed'
    BY <1>1, <1>5, <1>10, <2>1 DEF Typed
  <2>3. Incoming' = z /\ client'.line = Append(line, c) /\ client'.name = name
        /\ client'.at = "line" /\ client'.file = client.file
        /\ client'.stored = client.stored
    BY <1>1, <1>2, <1>5, <1>10, <2>1 DEF Incoming, Typed
  <2>4. CASE Asked
    <3>1. Asked'
      BY <1>1, <1>4, <1>5, <1>8, <2>3, <2>4 DEF Asked, Leftover, Beyond, NoLF
    <3> QED BY <1>3, <1>11, <1>1, <1>13, <2>2, <2>3, <3>1 DEF DialogueInv, Dialogue
  <2>5. CASE Answered
    <3>1. PICK k \in 0 .. Len(z), length \in -1 .. MaxLength :
              AnswerAt(z, k, name, length) /\ Sending(name, length, After(z, k, name))
      BY <1>5, <1>8, <2>5 DEF Answered, AnswerIn
    <3>2. PICK m : m = k + Len(name) + 6
      OBVIOUS
    <3>3. /\ m \in Nat /\ m >= 2 /\ m <= Len(z) /\ z[m - 1] = "\r" /\ z[m] = LF
          /\ \A i \in 1 .. m - 1 : z[i] # LF
      BY <1>6, <1>8, <3>1, <3>2, AnswerShape
    <3>4. NoLF(line)
      BY <1>5, <2>5 DEF Answered
    <3>5. NoLF(Append(line, c))
      BY <1>6, <1>7, <1>9, <1>14, <3>3, <3>4, FirstLine
    <3>6. PICK part : part = After(z, k, name)
      OBVIOUS
    <3>7. After(z, k, name)' = part
      BY <3>6 DEF After
    <3>8. AnswerIn(Incoming, client.name)'
      BY <1>12, <2>3, <3>1, <3>6, <3>7 DEF AnswerIn
    <3>9. Answered'
      BY <1>1, <1>4, <2>3, <2>5, <3>5, <3>8 DEF Answered, Waiting, NoLF
    <3> QED BY <1>3, <1>11, <1>1, <1>13, <2>2, <2>3, <3>9 DEF DialogueInv, Dialogue
  <2> QED BY <1>1, <1>13, <2>4, <2>5
<1>15. CASE EndsLine(line, c)
  <2>1. c = LF
    BY <1>6, <1>15, LineEnd
  <2>2. Answer(Front(line))
    BY <1>2, <1>5, <1>9, <1>15 DEF ClientChar
  <2>3. ~Asked
    <3> SUFFICES ASSUME Asked PROVE FALSE
      OBVIOUS
    <3>1. \A i \in 1 .. Len(z) : z[i] # LF
      BY <1>8, LeftoverPlain DEF Asked, Clean
    <3>2. 1 \in 1 .. Len(un)
      BY <1>6, EmptySeq, LenProperties
    <3>3. Len(line) + 1 \in 1 .. Len(z) /\ z[Len(line) + 1] = un[1]
      BY <1>6, <1>7, <3>2, JoinFacts
    <3> QED BY <1>10, <2>1, <3>1, <3>3
  <2>4. Answered
    BY <1>1, <1>13, <2>3
  <2>5. PICK k \in 0 .. Len(z), length \in -1 .. MaxLength :
            AnswerAt(z, k, name, length) /\ Sending(name, length, After(z, k, name))
    BY <1>5, <1>8, <2>4 DEF Answered, AnswerIn
  <2>6. PICK m : m = k + Len(name) + 6
    OBVIOUS
  <2>7. /\ m \in Nat /\ m >= 2 /\ m <= Len(z) /\ z[m - 1] = "\r" /\ z[m] = LF
        /\ \A i \in 1 .. m - 1 : z[i] # LF
    BY <1>6, <1>8, <2>5, <2>6, AnswerShape
  <2>8. NoLF(line)
    BY <1>5, <2>4 DEF Answered
  <2>9. Front(line) = SubSeq(z, 1, m - 2) /\ Tail(un) = SubSeq(z, m + 1, Len(z))
    BY <1>6, <1>7, <1>9, <1>15, <2>7, <2>8, FirstLine
  <2>10. m - 2 = k + Len(name) + 4 /\ m + 1 = k + Len(name) + 7
    <3>1. k \in Nat /\ Len(name) \in Nat
      BY <1>6, RequestText
    <3> QED BY <2>6, <3>1
  <2>11. PICK part : part = After(z, k, name)
    OBVIOUS
  <2>12. Unread("client")' = part /\ part \in Seq(Char)
    <3>1. Tail(un) = part
      BY <2>9, <2>10, <2>11 DEF After
    <3>2. Tail(un) \in Seq(Char)
      BY <1>6, PassOne
    <3> QED BY <1>2, <1>5, <3>1, <3>2
  <2>13. /\ client' = [client EXCEPT
                           !.at = IF length > 0 THEN "body" ELSE "prompt",
                           !.length = length, !.line = <<>>, !.stored = length = 0]
         /\ closed' = closed
    <3>1. Front(line) = SubSeq(z, 1, k + Len(name) + 4)
      BY <2>9, <2>10
    <3> QED BY <1>1, <1>6, <1>8, <2>2, <2>5, <3>1, AnswerTaken
  <2>14. length \in Int /\ MaxLength \in Int
    BY TransferAssumption
  <2>15. Typed'
    <3>1. PICK to : to = IF length > 0 THEN "body" ELSE "prompt"
      OBVIOUS
    <3>2. to \in {"prompt", "line", "body", "done", "failed"} /\ to \in {"body", "prompt"}
      BY <3>1
    <3>3. <<>> \in Seq(Char)
      OBVIOUS
    <3>4. closed' = closed
      BY <2>13
    <3>5. /\ client \in [at : {"prompt", "line", "body", "done", "failed"},
                        line : Seq(Char), name : Seq(Char), length : Int,
                        file : Seq(Char), stored : BOOLEAN]
          /\ closed["client"] = FALSE /\ client.name \in Names
      BY <1>1, <1>5, <1>6 DEF Typed
    <3>6. ASSUME NEW st \in BOOLEAN,
                 client' = [client EXCEPT !.at = to, !.length = length, !.line = <<>>,
                                          !.stored = st]
          PROVE  /\ client' \in [at : {"prompt", "line", "body", "done", "failed"},
                                 line : Seq(Char), name : Seq(Char), length : Int,
                                 file : Seq(Char), stored : BOOLEAN]
                 /\ client'.at = to /\ client'.name = client.name
      BY <2>14, <3>2, <3>3, <3>5, <3>6
    <3>7. \E st \in BOOLEAN :
              client' = [client EXCEPT !.at = to, !.length = length, !.line = <<>>,
                                       !.stored = st]
      <4>1. (length = 0) \in BOOLEAN
        OBVIOUS
      <4> QED BY <2>13, <3>1, <4>1, Zenon
    <3>8. /\ client' \in [at : {"prompt", "line", "body", "done", "failed"},
                         line : Seq(Char), name : Seq(Char), length : Int,
                         file : Seq(Char), stored : BOOLEAN]
          /\ client'.at \in {"body", "prompt"} /\ client'.name = client.name
      BY <3>2, <3>6, <3>7
    <3> QED BY <1>1, <3>4, <3>5, <3>8 DEF Typed
  <2>16. /\ client'.at = (IF length > 0 THEN "body" ELSE "prompt")
         /\ client'.length = length /\ client'.stored = (length = 0)
         /\ client'.file = <<>> /\ client'.name = name
    BY <1>1, <1>5, <1>13, <2>13 DEF Typed
  <2>17. Waiting'
    BY <1>1, <1>4, <2>4 DEF Answered, Waiting
  <2>18. Sending(name, length, part)
    BY <2>5, <2>11
  <2>19. CASE length > 0
    <3>1. name \in DOMAIN Contents
      BY <2>18, <2>19 DEF Sending
    <3>2. Len(client'.file) + client'.length = length
      BY <2>14, <2>16
    <3>3. client'.file \o Unread("client")' = part
      BY <2>12, <2>16, ConcatEmptySeq
    <3>4. Fetching'
      BY <1>12, <2>14, <2>16, <2>17, <2>18, <2>19, <3>1, <3>2, <3>3 DEF Fetching
    <3> QED BY <1>3, <1>11, <2>15, <2>16, <2>19, <3>4 DEF DialogueInv, Dialogue
  <2>20. CASE ~(length > 0)
    <3>1. PICK n : n = Len(part)
      OBVIOUS
    <3>2. n \in Nat
      BY <2>12, <3>1, LenProperties
    <3>3. CASE name \in DOMAIN Contents
      <4>1. /\ length \in Len(Contents[name]) .. Len(files[name])
            /\ n <= Len(files[name])
            /\ \A i \in 1 .. n : part[i] = files[name][i]
            /\ server.at = "file" => server.name = name /\ server.off = n
        BY <2>18, <3>1, <3>3 DEF Sending
      <4>2. /\ Len(Contents[name]) \in Nat /\ files[name] \in Seq(Char)
            /\ Len(files[name]) \in Nat
            /\ \A i \in Len(Contents[name]) + 1 .. Len(files[name]) : files[name][i] \in FileByte
        BY <1>1, <3>3, LenProperties, TransferAssumption DEF FilesSound
      <4>3. Len(Contents[name]) = 0 /\ length = 0
        BY <2>14, <2>20, <4>1, <4>2
      <4>4. Leftover(part)
        <5>1. \A i \in 1 .. n : i \in Len(Contents[name]) + 1 .. Len(files[name])
          BY <3>2, <4>1, <4>2, <4>3
        <5>2. files = Contents => n = 0
          BY <3>2, <4>1, <4>3
        <5> QED BY <2>12, <3>1, <4>1, <4>2, <5>1, <5>2, EmptySeq DEF Leftover
      <4>5. server.at = "file" => server.off >= Len(Contents[server.name])
        BY <3>2, <4>1, <4>3
      <4>6. Len(client'.file) = 0
            /\ Len(client'.file) \in Len(Contents[name]) .. Len(files[name])
        BY <2>16, <4>2, <4>3
      <4>7. \A i \in 1 .. Len(client'.file) : client'.file[i] = files[name][i]
        BY <4>6
      <4> QED BY <1>1, <2>12, <2>16, <2>17, <3>3, <4>4, <4>5, <4>6, <4>7, <1>3, <1>11,
                 <2>15, <2>20
             DEF Prompted, Leftover, Beyond, DialogueInv, Dialogue
    <3>4. CASE name \notin DOMAIN Contents
      <4>1. length = -1 /\ part = <<>> /\ server.at = "line"
        BY <2>18, <3>4 DEF Sending
      <4>2. ~client'.stored
        <5>1. length # 0
          BY <4>1
        <5> QED BY <2>16, <5>1, Zenon
      <4>3. Prompted'
        BY <1>1, <2>12, <2>17, <4>1, <4>2 DEF Prompted, Leftover, Beyond
      <4> QED BY <1>3, <1>11, <2>15, <2>16, <2>20, <4>3 DEF DialogueInv, Dialogue
    <3> QED BY <3>3, <3>4
  <2> QED BY <2>19, <2>20
<1> QED BY <1>14, <1>15

LEMMA PassMany ==
    ASSUME NEW file \in Seq(Char), NEW un \in Seq(Char), NEW n \in 1 .. Len(un)
    PROVE  LET new == file \o SubSeq(un, 1, n)
               rest == SubSeq(un, n + 1, Len(un))
           IN  /\ new \in Seq(Char) /\ rest \in Seq(Char)
               /\ Len(new) = Len(file) + n /\ Len(rest) = Len(un) - n
               /\ new \o rest = file \o un
<1> DEFINE some == SubSeq(un, 1, n)
           rest == SubSeq(un, n + 1, Len(un))
           new == file \o some
           x == new \o rest
           y == file \o un
<1>1. n \in 0 .. Len(un) /\ n \in Nat /\ Len(un) \in Nat /\ Len(file) \in Nat
  BY LenProperties
<1>2. some \in Seq(Char) /\ Len(some) = n /\ \A i \in 1 .. n : some[i] = un[i]
  BY <1>1, PartIsStart
<1>3. /\ rest \in Seq(Char) /\ Len(rest) = Len(un) - n
      /\ \A i \in 1 .. Len(un) - n : rest[i] = un[n + i]
  BY <1>1, TailIsRest
<1> HIDE DEF some, rest
<1>4. /\ new \in Seq(Char) /\ Len(new) = Len(file) + Len(some)
      /\ \A i \in 1 .. Len(file) : new[i] = file[i]
      /\ \A i \in 1 .. Len(some) : new[Len(file) + i] = some[i]
  BY <1>2, JoinFacts
<1> HIDE DEF new
<1>5. /\ x \in Seq(Char) /\ Len(x) = Len(new) + Len(rest)
      /\ \A i \in 1 .. Len(new) : x[i] = new[i]
      /\ \A i \in 1 .. Len(rest) : x[Len(new) + i] = rest[i]
  BY <1>3, <1>4, JoinFacts
<1>6. /\ y \in Seq(Char) /\ Len(y) = Len(file) + Len(un)
      /\ \A i \in 1 .. Len(file) : y[i] = file[i]
      /\ \A i \in 1 .. Len(un) : y[Len(file) + i] = un[i]
  BY JoinFacts
<1> HIDE DEF x, y
<1>7. Len(x) = Len(y) /\ Len(new) = Len(file) + n
  BY <1>1, <1>2, <1>3, <1>4, <1>5, <1>6
<1>8. ASSUME NEW i \in 1 .. Len(x) PROVE x[i] = y[i]
  <2>1. i \in Int /\ 1 <= i /\ i <= Len(file) + Len(un)
    BY <1>1, <1>6, <1>7
  <2>2. CASE i <= Len(file)
    <3>1. i \in 1 .. Len(file) /\ i \in 1 .. Len(new)
      BY <1>1, <1>7, <2>1, <2>2
    <3> QED BY <1>4, <1>5, <1>6, <3>1
  <2>3. CASE Len(file) < i /\ i <= Len(file) + n
    <3> DEFINE j == i - Len(file)
    <3>1. j \in 1 .. n /\ j \in 1 .. Len(un) /\ i = Len(file) + j /\ i \in 1 .. Len(new)
      BY <1>1, <1>7, <2>1, <2>3
    <3> HIDE DEF j
    <3> QED BY <1>2, <1>4, <1>5, <1>6, <3>1
  <2>4. CASE Len(file) + n < i
    <3> DEFINE j == i - (Len(file) + n)
    <3>1. /\ j \in 1 .. Len(un) - n /\ n + j \in 1 .. Len(un)
          /\ i = Len(file) + (n + j) /\ i = Len(file) + n + j
      BY <1>1, <2>1, <2>4
    <3> HIDE DEF j
    <3>2. x[i] = rest[j]
      BY <1>3, <1>5, <1>7, <3>1
    <3>3. y[i] = un[n + j]
      BY <1>6, <3>1
    <3> QED BY <1>3, <3>1, <3>2, <3>3
  <2>5. i <= Len(file) \/ (Len(file) < i /\ i <= Len(file) + n) \/ Len(file) + n < i
    BY <1>1, <2>1
  <2> QED BY <2>2, <2>3, <2>4, <2>5
<1>9. x = y
  BY <1>5, <1>6, <1>7, <1>8, SeqEqual
<1> QED BY <1>3, <1>4, <1>7, <1>9 DEF x, y, new, some, rest

LEMMA ClientBodyKeeps ==
    ASSUME DialogueInv, ClientBody PROVE DialogueInv'
<1>1. /\ client.at = "body" /\ NoWrite /\ UNCHANGED <<closed, server, files>>
      /\ StreamSound /\ FilesSound /\ Typed /\ Dialogue
  BY DEF ClientBody, DialogueInv
<1>2. PICK to_read : to_read = IF client.length < CLIENT_BUF THEN client.length
                               ELSE CLIENT_BUF
  OBVIOUS
<1>3. PICK n \in 1 .. to_read :
         /\ n <= Len(Arrived("client"))
         /\ Read("client", n)
         /\ client' = [client EXCEPT
                       !.file = client.file \o SubSeq(Arrived("client"), 1, n),
                       !.length = client.length - n,
                       !.at = IF client.length - n = 0 THEN "prompt" ELSE "body",
                       !.stored = client.length - n = 0]
  BY <1>2 DEF ClientBody, Count
<1>4. Fetching
  BY <1>1 DEF Dialogue
<1>5. PICK un, file, name, arrived, length :
          /\ un = Unread("client") /\ file = client.file /\ name = client.name
          /\ arrived = Arrived("client") /\ length = client.length
  OBVIOUS
<1>6. /\ un \in Seq(Char) /\ file \in Seq(Char) /\ name \in DOMAIN Contents
      /\ name \in Names
      /\ length \in Nat /\ length > 0
      /\ Len(un) \in Nat /\ Len(file) \in Nat
  BY <1>1, <1>4, <1>5, IncomingFacts, LenProperties DEF Typed, Fetching
<1>7. n \in Nat /\ n >= 1 /\ n <= length /\ n <= Len(arrived)
  <2>1. CLIENT_BUF \in Nat
    BY TransferAssumption
  <2>2. n <= Len(arrived)
    BY <1>3, <1>5
  <2> QED BY <1>2, <1>5, <1>6, <2>1, <2>2
<1>8. /\ arrived \in Seq(Char) /\ Len(arrived) \in 0 .. Len(un) /\ Len(arrived) \in Nat
      /\ \A i \in 1 .. Len(arrived) : arrived[i] = un[i]
  BY <1>1, <1>5, SideFacts, ArrivedFacts, LenProperties
<1>9. n \in 1 .. Len(arrived) /\ n \in 1 .. Len(un)
  BY <1>6, <1>7, <1>8
<1>10. SubSeq(arrived, 1, n) = SubSeq(un, 1, n)
  <2>1. n \in 0 .. Len(arrived) /\ n \in 0 .. Len(un)
    BY <1>6, <1>7, <1>8
  <2> DEFINE a == SubSeq(arrived, 1, n)
             b == SubSeq(un, 1, n)
  <2>2. /\ a \in Seq(Char) /\ Len(a) = n /\ \A i \in 1 .. n : a[i] = arrived[i]
        /\ b \in Seq(Char) /\ Len(b) = n /\ \A i \in 1 .. n : b[i] = un[i]
    BY <1>6, <1>8, <2>1, PartIsStart
  <2>3. \A i \in 1 .. n : i \in 1 .. Len(arrived)
    BY <1>7, <1>8
  <2> HIDE DEF a, b
  <2>4. a = b
    BY <1>8, <2>2, <2>3, SeqEqual
  <2> QED BY <2>4 DEF a, b
<1>11. PICK new, rest : new = file \o SubSeq(un, 1, n) /\ rest = SubSeq(un, n + 1, Len(un))
  OBVIOUS
<1>12. /\ new \in Seq(Char) /\ rest \in Seq(Char)
       /\ Len(new) = Len(file) + n /\ Len(rest) = Len(un) - n /\ new \o rest = file \o un
  BY <1>6, <1>9, <1>11, PassMany
<1>13. /\ Unread("client")' = rest /\ taken' \in [Side -> Nat]
       /\ \A t \in Side : taken'[t] <= Len(got[t])
       /\ taken'["server"] = taken["server"]
  <2>1. n \in 1 .. Len(Arrived("client"))
    BY <1>5, <1>9
  <2> QED BY <1>1, <1>3, <1>5, <1>11, <2>1, SideFacts, ReadUnread DEF NoWrite
<1>14. StreamSound'
  BY <1>1, <1>13, StreamKept DEF NoWrite
<1>15. Unread("server")' = Unread("server")
  BY <1>1, <1>13, UnreadSame DEF NoWrite
<1>16. PICK left : left = length - n
  OBVIOUS
<1>17. left \in Nat /\ Len(new) + left = Len(file) + length /\ Len(new) \in Nat
  BY <1>6, <1>7, <1>12, <1>16
<1>18. PICK to : to = IF left = 0 THEN "prompt" ELSE "body"
  OBVIOUS
<1>19. to \in {"prompt", "body"} /\ to \in {"prompt", "line", "body", "done", "failed"}
  BY <1>18
<1>20. PICK st \in BOOLEAN : (st <=> left = 0) /\ client' = [client EXCEPT !.file = new,
                           !.length = left, !.at = to, !.stored = st]
  <2>1. (left = 0) \in BOOLEAN
    OBVIOUS
  <2>2. new = client.file \o SubSeq(Arrived("client"), 1, n)
    BY <1>5, <1>10, <1>11
  <2>3. client.length - n = left
    BY <1>5, <1>16
  <2> QED BY <1>3, <1>18, <2>1, <2>2, <2>3, Zenon
<1>21. /\ client \in [at : {"prompt", "line", "body", "done", "failed"},
                      line : Seq(Char), name : Seq(Char), length : Int,
                      file : Seq(Char), stored : BOOLEAN]
       /\ closed["client"] = FALSE
  BY <1>1 DEF Typed
<1>22. /\ client' \in [at : {"prompt", "line", "body", "done", "failed"},
                       line : Seq(Char), name : Seq(Char), length : Int,
                       file : Seq(Char), stored : BOOLEAN]
       /\ client'.at = to /\ client'.name = name /\ client'.file = new
       /\ client'.length = left
  <2>1. client' = [client EXCEPT !.file = new, !.length = left, !.at = to, !.stored = st]
    BY <1>20
  <2>2. left \in Int /\ st \in BOOLEAN /\ new \in Seq(Char)
    BY <1>12, <1>17
  <2> QED BY <1>5, <1>19, <1>21, <2>1, <2>2
<1>23. FilesSound' /\ Typed'
  BY <1>1, <1>6, <1>19, <1>21, <1>22, SameFiles DEF Typed
<1>24. Waiting'
  BY <1>1, <1>4, <1>15 DEF Fetching, Waiting
<1>25. PICK part, total : part = file \o un /\ total = Len(file) + length
  OBVIOUS
<1>26. Sending(name, total, part)
  BY <1>4, <1>5, <1>25 DEF Fetching
<1>27. Sending(name, total, part)'
  BY <1>1, <1>26 DEF Sending
<1>28. CASE left # 0
  <2>1. client'.at = "body"
    BY <1>18, <1>22, <1>28
  <2>2. Fetching'
    BY <1>6, <1>12, <1>13, <1>17, <1>22, <1>24, <1>25, <1>27, <1>28 DEF Fetching
  <2> QED BY <1>14, <1>23, <2>1, <2>2 DEF DialogueInv, Dialogue
<1>29. CASE left = 0
  <2>1. client'.at = "prompt"
    BY <1>18, <1>22, <1>29
  <2>2. /\ total \in Len(Contents[name]) .. Len(files[name])
        /\ Len(part) <= Len(files[name])
        /\ \A i \in 1 .. Len(part) : part[i] = files[name][i]
        /\ server.at = "file" => server.name = name /\ server.off = Len(part)
    BY <1>6, <1>26 DEF Sending
  <2>3. /\ Len(Contents[name]) \in Nat /\ Len(files[name]) \in Nat
        /\ \A i \in Len(Contents[name]) + 1 .. Len(files[name]) : files[name][i] \in FileByte
    BY <1>1, <1>6, LenProperties, TransferAssumption DEF FilesSound
  <2>4. /\ part = new \o rest /\ part \in Seq(Char) /\ Len(part) = Len(new) + Len(rest)
        /\ Len(rest) \in Nat
        /\ \A i \in 1 .. Len(new) : part[i] = new[i]
        /\ \A i \in 1 .. Len(rest) : part[Len(new) + i] = rest[i]
    <3>1. part = new \o rest
      BY <1>12, <1>25
    <3>2. /\ new \o rest \in Seq(Char) /\ Len(new \o rest) = Len(new) + Len(rest)
          /\ Len(rest) \in Nat
          /\ \A i \in 1 .. Len(new) : (new \o rest)[i] = new[i]
          /\ \A i \in 1 .. Len(rest) : (new \o rest)[Len(new) + i] = rest[i]
      BY <1>12, JoinFacts
    <3> QED BY <3>1, <3>2
  <2>5. Len(new) = total
    BY <1>17, <1>25, <1>29
  <2>6. Leftover(rest)
    <3>1. ASSUME NEW i \in 1 .. Len(rest) PROVE rest[i] \in FileByte
      <4>1. /\ Len(new) + i \in 1 .. Len(part)
            /\ Len(new) + i \in Len(Contents[name]) + 1 .. Len(files[name])
        BY <1>17, <2>2, <2>3, <2>4, <2>5
      <4>2. rest[i] = files[name][Len(new) + i]
        BY <2>2, <2>4, <4>1
      <4> QED BY <2>3, <4>1, <4>2
    <3>2. ASSUME files = Contents PROVE rest = <<>>
      <4>1. Len(rest) = 0
        BY <1>17, <2>2, <2>3, <2>4, <2>5, <3>2
      <4> QED BY <1>12, <4>1, EmptySeq
    <3> QED BY <3>1, <3>2 DEF Leftover
  <2>7. server.at = "file" => server.off >= Len(Contents[server.name])
    BY <1>17, <2>2, <2>3, <2>4, <2>5
  <2>8. \A i \in 1 .. Len(new) : new[i] = files[name][i]
    <3>1. \A i \in 1 .. Len(new) : i \in 1 .. Len(part)
      BY <1>17, <2>4
    <3> QED BY <2>2, <2>4, <3>1
  <2>9. Leftover(Unread("client"))' /\ Beyond'
    BY <1>1, <1>13, <2>6, <2>7 DEF Leftover, Beyond
  <2>10. Prompted'
    BY <1>1, <1>6, <1>22, <1>24, <2>2, <2>5, <2>8, <2>9 DEF Prompted
  <2> QED BY <1>14, <1>23, <2>1, <2>10 DEF DialogueInv, Dialogue
<1> QED BY <1>28, <1>29

(* The answer to a line, as it is written. *)
LEMMA ReplyFacts ==
    ASSUME FilesSound, NEW line \in Seq(Char)
    PROVE  \E length \in -1 .. MaxLength :
              /\ line \in DOMAIN Contents => length = Len(files[line])
              /\ line \notin DOMAIN Contents => length = -1
              /\ Reply(line) =
                   line \o <<COMMA, ToString(length), COMMA, VERDICT>> \o CRLF
              /\ Reply(line) \in Seq(Char)
<1> DEFINE length == IF line \in DOMAIN files THEN Len(files[line]) ELSE -1
<1>1. length \in -1 .. MaxLength
  <2>1. MaxLength \in Nat
    BY TransferAssumption
  <2>2. CASE line \in DOMAIN files
    <3>1. Len(files[line]) \in Nat /\ Len(files[line]) <= MaxLength
      BY <2>2, LenProperties DEF FilesSound
    <3> QED BY <2>1, <2>2, <3>1
  <2>3. CASE line \notin DOMAIN files
    BY <2>1, <2>3
  <2> QED BY <2>2, <2>3
<1>2. Reply(line) = line \o <<COMMA, ToString(length), COMMA, VERDICT>> \o CRLF
  BY DEF Reply
<1>3. /\ line \in DOMAIN Contents => length = Len(files[line])
      /\ line \notin DOMAIN Contents => length = -1
  BY DEF FilesSound
<1> HIDE DEF length
<1>4. Reply(line) \in Seq(Char)
  BY <1>1, <1>2, ReplyText
<1> QED BY <1>1, <1>2, <1>3, <1>4

LEMMA ProcessLineKeeps ==
    ASSUME StreamSound, FilesSound, Typed, server.at = "line",
           NEW line \in Seq(Char), ProcessLine(line), UNCHANGED <<client, files>>,
           taken' \in [Side -> Nat], \A s \in Side : taken'[s] <= Len(got[s])
    PROVE  StreamSound' /\ Typed' /\ text'["client"] = text["client"]
<1>1. "client" \in Side /\ "server" \in Side
  BY SideFacts
<1>2. CASE line = <<>>
  <2>1. /\ server' = [server EXCEPT !.at = "closed"]
        /\ closed' = [closed EXCEPT !["server"] = TRUE] /\ NoWrite
    BY <1>2 DEF ProcessLine, Close
  <2>2. StreamSound'
    BY <2>1, StreamKept DEF NoWrite
  <2>3. Typed'
    BY <1>1, <2>1 DEF Typed
  <2> QED BY <2>1, <2>2, <2>3 DEF NoWrite
<1>3. CASE line # <<>>
  <2>1. /\ Write("server", Reply(line)) /\ closed' = closed
        /\ server' = [at |-> IF line \in DOMAIN files THEN "file" ELSE "line",
                      line |-> <<>>, name |-> line, off |-> 0]
    BY <1>3 DEF ProcessLine
  <2>2. Reply(line) \in Seq(Char)
    BY ReplyFacts
  <2>3. StreamSound'
    <3>1. got' = got
      BY <2>1 DEF Write
    <3> QED BY <1>1, <2>1, <2>2, <3>1, StreamKept
  <2>4. line \in DOMAIN files => line \in DOMAIN Contents /\ 0 <= Len(files[line])
    BY LenProperties DEF FilesSound
  <2>5. Typed'
    BY <1>1, <2>1, <2>4 DEF Typed
  <2>6. text'["client"] = text["client"]
    BY <1>1, <2>1 DEF Write, StreamSound
  <2> QED BY <2>3, <2>5, <2>6
<1> QED BY <1>2, <1>3

LEMMA ServerLineEofKeeps ==
    ASSUME DialogueInv, ServerLineEof PROVE DialogueInv'
<1>1. /\ server.at = "line" /\ AtEof("server") /\ ProcessLine(server.line)
      /\ UNCHANGED <<taken, client, files>>
      /\ StreamSound /\ FilesSound /\ Typed
  BY DEF ServerLineEof, DialogueInv
<1>2. client.at \in {"done", "failed"}
  BY <1>1, SideFacts, EofUnread DEF Typed
<1>3. taken' \in [Side -> Nat] /\ \A s \in Side : taken'[s] <= Len(got[s])
  BY <1>1 DEF StreamSound
<1>4. StreamSound' /\ Typed'
  BY <1>1, <1>3, IncomingFacts, ProcessLineKeeps
<1> QED BY <1>1, <1>2, <1>4, SameFiles DEF DialogueInv, Dialogue

(* The answer follows what the client has not read of the last file. *)
LEMMA AnswerStarts ==
    ASSUME NEW z \in Seq(Char), Leftover(z), NEW name \in Names,
           NEW length \in -1 .. MaxLength,
           NEW r, r = name \o <<COMMA, ToString(length), COMMA, VERDICT>> \o CRLF
    PROVE  /\ AnswerAt(z \o r, Len(z), name, length)
           /\ After(z \o r, Len(z), name) = <<>>
           /\ Len(z) \in 0 .. Len(z \o r)
<1> DEFINE k == Len(z)
           m == Len(name)
           y == z \o r
<1>1. /\ r \in Seq(Char) /\ m \in Nat /\ Len(r) = m + 6
      /\ \A i \in 1 .. m : r[i] = name[i]
      /\ r[m + 1] = COMMA /\ r[m + 2] = ToString(length) /\ r[m + 3] = COMMA
      /\ r[m + 4] = VERDICT /\ r[m + 5] = "\r" /\ r[m + 6] = LF
  <2>1. name \in Seq(Char)
    BY RequestText
  <2> QED BY <2>1, ReplyText
<1>2. /\ y \in Seq(Char) /\ k \in Nat /\ Len(y) = k + Len(r)
      /\ \A i \in 1 .. k : y[i] = z[i]
      /\ \A i \in 1 .. Len(r) : y[k + i] = r[i]
  BY <1>1, JoinFacts
<1>3. (\A i \in 1 .. k : z[i] \in FileByte) /\ (files = Contents => k = 0)
  BY DEF Leftover
<1> HIDE DEF k, m, y
<1>4. m \in Nat /\ Len(r) = m + 6
  BY <1>1
<1>5. k \in Nat /\ Len(y) = k + m + 6 /\ k + m \in Nat
  <2>1. k \in Nat /\ Len(y) = k + Len(r)
    BY <1>2
  <2> QED BY <1>4, <2>1
<1>6. \A j \in 1 .. 6 : y[k + m + j] = r[m + j]
  <2>1. ASSUME NEW j \in 1 .. 6 PROVE y[k + m + j] = r[m + j]
    <3>1. m + j \in 1 .. Len(r) /\ k + m + j = k + (m + j)
      BY <1>4, <1>5
    <3> QED BY <1>2, <3>1
  <2> QED BY <2>1
<1>7. \A i \in 1 .. m : y[k + i] = name[i]
  <2>1. \A i \in 1 .. m : i \in 1 .. Len(r)
    BY <1>4
  <2> QED BY <1>1, <1>2, <2>1
<1>8. 1 \in 1 .. 6 /\ 2 \in 1 .. 6 /\ 3 \in 1 .. 6 /\ 4 \in 1 .. 6 /\ 5 \in 1 .. 6
      /\ 6 \in 1 .. 6
  OBVIOUS
<1>9. /\ y[k + m + 1] = COMMA /\ y[k + m + 2] = ToString(length) /\ y[k + m + 3] = COMMA
      /\ y[k + m + 4] = VERDICT /\ y[k + m + 5] = "\r" /\ y[k + m + 6] = LF
  BY <1>1, <1>6, <1>8, Zenon
<1>10. k + m + 6 <= Len(y) /\ k \in 0 .. Len(y)
  BY <1>4, <1>5
<1>11. AnswerAt(y, k, name, length)
  BY <1>2, <1>3, <1>7, <1>9, <1>10, Zenon DEF AnswerAt, m
<1>12. After(y, k, name) = <<>>
  <2>1. k + m + 7 \in Int /\ Len(y) \in Int /\ Len(y) < k + m + 7
    BY <1>4, <1>5
  <2> QED BY <1>2, <2>1, SubSeqEmpty DEF After, m
<1> QED BY <1>10, <1>11, <1>12 DEF k, y

LEMMA ServerCharKeeps ==
    ASSUME DialogueInv, Clean, ServerChar PROVE DialogueInv'
<1>1. /\ server.at = "line" /\ Arrived("server") # <<>> /\ Read("server", 1)
      /\ UNCHANGED <<client, files>>
      /\ StreamSound /\ FilesSound /\ Typed /\ Dialogue
  BY DEF ServerChar, DialogueInv
<1>2. PICK line, un, c : line = server.line /\ un = Unread("server") /\ c = Head(un)
  OBVIOUS
<1>3. line \in Seq(Char) /\ un \in Seq(Char)
  BY <1>1, <1>2, IncomingFacts
<1>4. \/ /\ EndsLine(line, Head(Arrived("server")))
         /\ ProcessLine(Front(line))
      \/ /\ ~EndsLine(line, Head(Arrived("server")))
         /\ server' = [server EXCEPT !.line = Append(line, Head(Arrived("server")))]
         /\ NoWrite /\ closed' = closed
  BY <1>2 DEF ServerChar
<1>5. text'["client"] = text["client"]
  <2>1. CASE NoWrite
    BY <2>1 DEF NoWrite
  <2>2. CASE ProcessLine(Front(line))
    BY <1>1, <2>2, SideFacts DEF ProcessLine, NoWrite, Write, StreamSound
  <2> QED BY <1>4, <2>1, <2>2
<1>6. /\ un # <<>> /\ Head(Arrived("server")) = c /\ Unread("server")' = Tail(un)
      /\ taken' \in [Side -> Nat] /\ \A t \in Side : taken'[t] <= Len(got[t])
      /\ taken'["client"] = taken["client"]
  <2>1. text'[Other("server")] = text[Other("server")]
    BY <1>5, SideFacts
  <2> QED BY <1>1, <1>2, <2>1, ReadOne, SideFacts
<1>7. /\ c \in Char /\ Append(line, c) \in Seq(Char)
      /\ Append(line, c) \o Tail(un) = line \o un
      /\ Tail(un) \in Seq(Char)
  BY <1>2, <1>3, <1>6, PassOne
<1>8. client.at \in {"done", "failed"} \/ (client.at = "line" /\ Asked)
  BY <1>1, <1>2, <1>6 DEF Dialogue, Prompted, Answered, Fetching, Waiting, Typed
<1>9. CASE ~EndsLine(line, c)
  <2>1. server' = [server EXCEPT !.line = Append(line, c)] /\ NoWrite /\ closed' = closed
    BY <1>4, <1>6, <1>9
  <2>2. StreamSound'
    BY <1>1, <1>6, <2>1, StreamKept DEF NoWrite
  <2>3. FilesSound' /\ Typed'
    BY <1>1, <1>7, <2>1, SameFiles DEF Typed
  <2>4. CASE client.at \in {"done", "failed"}
    BY <1>1, <2>2, <2>3, <2>4 DEF DialogueInv, Dialogue
  <2>5. CASE client.at = "line" /\ Asked
    <3>1. Unread("client")' = Unread("client") /\ Incoming' = Incoming
      BY <1>1, <1>6, <2>1, UnreadSame DEF NoWrite, Incoming
    <3>2. PICK name : name = client.name
      OBVIOUS
    <3>3. name \in Names /\ line \o un = name \o CRLF /\ NoLF(line)
      BY <1>1, <1>2, <2>5, <3>2 DEF Asked, Typed
    <3>4. PICK m : m = Len(name) + 2
      OBVIOUS
    <3>5. /\ m \in Nat /\ m >= 2 /\ m <= Len(line \o un)
          /\ (line \o un)[m - 1] = "\r" /\ (line \o un)[m] = LF
          /\ \A i \in 1 .. m - 1 : (line \o un)[i] # LF
      <4>1. /\ Len(name) \in Nat /\ Len(name \o CRLF) = Len(name) + 2
            /\ (name \o CRLF)[Len(name) + 1] = "\r" /\ (name \o CRLF)[Len(name) + 2] = LF
            /\ \A i \in 1 .. Len(name) + 1 : (name \o CRLF)[i] # LF
        BY <3>3, RequestText
      <4>2. m - 1 = Len(name) + 1 /\ m \in Nat /\ m >= 2
        BY <3>4, <4>1
      <4> QED BY <3>3, <3>4, <4>1, <4>2
    <3>6. NoLF(Append(line, c))
      BY <1>2, <1>3, <1>9, <3>3, <3>5, FirstLine
    <3>7. server'.line = Append(line, c) /\ server'.at = "line"
      BY <1>1, <2>1 DEF Typed
    <3>8. Asked'
      BY <1>1, <1>6, <1>7, <2>5, <3>1, <3>2, <3>3, <3>6, <3>7
      DEF Asked, Leftover, Beyond, NoLF
    <3> QED BY <1>1, <2>2, <2>3, <2>5, <3>8 DEF DialogueInv, Dialogue
  <2> QED BY <1>8, <2>4, <2>5
<1>10. CASE EndsLine(line, c)
  <2>1. ProcessLine(Front(line))
    BY <1>4, <1>6, <1>10
  <2>2. line # <<>>
    BY <1>3, <1>10, LineEnd
  <2>3. Front(line) \in Seq(Char)
    <3>1. Len(line) \in Nat /\ Len(line) # 0
      BY <1>3, <2>2, EmptySeq, LenProperties
    <3>2. Len(line) - 1 \in 0 .. Len(line)
      BY <3>1
    <3> QED BY <1>3, <3>2, PartIsStart DEF Front
  <2>4. StreamSound' /\ Typed'
    BY <1>1, <1>6, <2>1, <2>3, ProcessLineKeeps
  <2>5. CASE client.at \in {"done", "failed"}
    BY <1>1, <2>4, <2>5, SameFiles DEF DialogueInv, Dialogue
  <2>6. CASE client.at = "line" /\ Asked
    <3>1. PICK name, z, u, cline :
              name = client.name /\ z = Incoming /\ u = Unread("client")
              /\ cline = client.line
      OBVIOUS
    <3>2. /\ name \in Names /\ line \o un = name \o CRLF /\ NoLF(line) /\ Leftover(z)
          /\ z \in Seq(Char) /\ u \in Seq(Char) /\ cline \in Seq(Char) /\ z = cline \o u
      BY <1>1, <1>2, <2>6, <3>1, IncomingFacts DEF Asked, Typed, Incoming
    <3>3. PICK k : k = Len(name)
      OBVIOUS
    <3>4. /\ k \in Nat /\ k >= 2 /\ name # <<>> /\ Len(line \o un) = k + 2
          /\ (line \o un)[k + 1] = "\r" /\ (line \o un)[k + 2] = LF
          /\ (\A i \in 1 .. k + 1 : (line \o un)[i] # LF)
          /\ SubSeq(line \o un, 1, k) = name
      BY <3>2, <3>3, RequestText
    <3>5. Front(line) = name /\ Tail(un) = <<>>
      <4>1. PICK m : m = k + 2
        OBVIOUS
      <4>2. m \in Nat /\ m >= 2 /\ m - 1 = k + 1 /\ m - 2 = k /\ m <= k + 2
        BY <3>4, <4>1
      <4>3. /\ m <= Len(line \o un) /\ (line \o un)[m - 1] = "\r" /\ (line \o un)[m] = LF
            /\ (\A i \in 1 .. m - 1 : (line \o un)[i] # LF)
        BY <3>4, <4>1, <4>2
      <4>4. /\ Front(line) = SubSeq(line \o un, 1, m - 2)
            /\ Tail(un) = SubSeq(line \o un, m + 1, Len(line \o un))
        BY <1>2, <1>3, <1>10, <3>2, <4>2, <4>3, FirstLine
      <4>5. SubSeq(line \o un, m + 1, Len(line \o un)) = <<>>
        <5>1. line \o un \in Seq(Char)
          BY <1>3, JoinFacts
        <5>2. m + 1 \in Int /\ Len(line \o un) \in Int /\ Len(line \o un) < m + 1
          BY <3>4, <4>1
        <5> QED BY <5>1, <5>2, SubSeqEmpty
      <4> QED BY <3>4, <4>2, <4>4, <4>5
    <3>6. /\ Write("server", Reply(name)) /\ closed' = closed
          /\ server' = [at |-> IF name \in DOMAIN files THEN "file" ELSE "line",
                        line |-> <<>>, name |-> name, off |-> 0]
      BY <2>1, <3>4, <3>5 DEF ProcessLine
    <3>7. name \in Seq(Char)
      BY <3>2, RequestText
    <3>8. PICK length \in -1 .. MaxLength :
              /\ name \in DOMAIN Contents => length = Len(files[name])
              /\ name \notin DOMAIN Contents => length = -1
              /\ Reply(name) =
                   name \o <<COMMA, ToString(length), COMMA, VERDICT>> \o CRLF
              /\ Reply(name) \in Seq(Char)
      BY <1>1, <3>7, ReplyFacts
    <3>9. PICK r : r = Reply(name)
      OBVIOUS
    <3>10. /\ AnswerAt(z \o r, Len(z), name, length)
           /\ After(z \o r, Len(z), name) = <<>>
           /\ Len(z) \in 0 .. Len(z \o r)
      BY <3>2, <3>8, <3>9, AnswerStarts
    <3>11. Unread("client")' = u \o r
      <4>1. Write(Other("client"), r) /\ "client" \in Side /\ r \in Seq(Char)
        BY <3>6, <3>8, <3>9, SideFacts
      <4> QED BY <1>1, <1>6, <3>1, <4>1, WriteUnread
    <3>12. Incoming' = z \o r /\ client'.name = name /\ client'.line = cline
      <4>1. (cline \o u) \o r = cline \o (u \o r)
        <5>1. r \in Seq(Char)
          BY <3>8, <3>9
        <5> QED BY <3>2, <5>1, ConcatAssociative
      <4> QED BY <1>1, <3>1, <3>2, <3>11, <4>1 DEF Incoming
    <3>13. PICK y, k2 : y = z \o r /\ k2 = Len(z)
      OBVIOUS
    <3>14. AnswerAt(y, k2, name, length)' /\ After(y, k2, name)' = <<>>
      BY <1>1, <3>10, <3>13 DEF AnswerAt, After
    <3>15. PICK part : part = <<>>
      OBVIOUS
    <3>16. Sending(name, length, part)'
      <4>1. CASE name \in DOMAIN Contents
        <5>1. /\ Len(files[name]) \in Nat
              /\ Len(files[name]) \in Len(Contents[name]) .. MaxLength
          BY <1>1, <4>1, LenProperties DEF FilesSound
        <5>2. length \in Len(Contents[name]) .. Len(files[name])
          <6>1. Len(Contents[name]) \in Nat
            BY <4>1, LenProperties, TransferAssumption
          <6> QED BY <3>8, <4>1, <5>1, <6>1
        <5>3. server'.at = "file" /\ server'.name = name /\ server'.off = 0
          BY <1>1, <3>6, <4>1 DEF FilesSound
        <5>4. Len(part) = 0
          BY <3>15
        <5> QED BY <1>1, <4>1, <5>1, <5>2, <5>3, <5>4 DEF Sending
      <4>2. CASE name \notin DOMAIN Contents
        <5>1. server'.at = "line"
          BY <1>1, <3>6, <4>2 DEF FilesSound
        <5> QED BY <3>8, <3>15, <4>2, <5>1 DEF Sending
      <4> QED BY <4>1, <4>2
    <3>17. AnswerIn(Incoming, client.name)'
      <4>1. k2 \in 0 .. Len(y) /\ Incoming' = y /\ client'.name = name
        BY <3>10, <3>12, <3>13
      <4>2. AnswerAt(Incoming, k2, client.name, length)'
        BY <3>14, <4>1 DEF AnswerAt
      <4>3. After(Incoming, k2, client.name)' = part
        BY <3>14, <3>15, <4>1 DEF After
      <4>4. Sending(client.name, length, After(Incoming, k2, client.name))'
        BY <3>16, <4>1, <4>3 DEF Sending
      <4>5. k2 \in 0 .. Len(Incoming')
        BY <4>1
      <4> QED BY <4>2, <4>4, <4>5 DEF AnswerIn
    <3>18. NoLF(cline)
      <4>1. \A i \in 1 .. Len(z) : z[i] # LF
        BY <3>2, LeftoverPlain DEF Clean
      <4>2. \A i \in 1 .. Len(cline) : i \in 1 .. Len(z) /\ z[i] = cline[i]
        BY <3>2, JoinFacts
      <4> QED BY <4>1, <4>2 DEF NoLF
    <3>19. Waiting'
      BY <1>6, <3>5, <3>6 DEF Waiting
    <3>20. Answered'
      BY <3>12, <3>17, <3>18, <3>19 DEF Answered, NoLF
    <3> QED BY <1>1, <2>4, <2>6, <3>20, SameFiles DEF DialogueInv, Dialogue
  <2> QED BY <1>8, <2>5, <2>6
<1> QED BY <1>9, <1>10

(* What a file has grown by goes to what is left over. *)
LEMMA MoreLeftover ==
    ASSUME FilesSound, NEW n \in DOMAIN Contents, NEW off \in Nat,
           off >= Len(Contents[n]), NEW b \in Seq(Char), b # <<>>,
           off + Len(b) <= Len(files[n]),
           \A i \in 1 .. Len(b) : b[i] = files[n][off + i],
           NEW u \in Seq(Char), Leftover(u)
    PROVE  Leftover(u \o b)
<1>1. /\ Len(Contents[n]) \in Nat /\ Len(files[n]) \in Nat /\ Len(b) \in Nat /\ Len(b) >= 1
      /\ Len(u) \in Nat
  <2>1. Len(b) \in Nat /\ Len(b) # 0
    BY EmptySeq, LenProperties
  <2> QED BY <2>1, LenProperties, TransferAssumption DEF FilesSound
<1>2. \A i \in Len(Contents[n]) + 1 .. Len(files[n]) : files[n][i] \in FileByte
  BY DEF FilesSound
<1>3. \A i \in 1 .. Len(b) : off + i \in Len(Contents[n]) + 1 .. Len(files[n])
  BY <1>1
<1>4. \A i \in 1 .. Len(b) : b[i] \in FileByte
  BY <1>2, <1>3
<1>5. files # Contents
  BY <1>1
<1> DEFINE y == u \o b
<1>6. /\ Len(y) = Len(u) + Len(b) /\ \A i \in 1 .. Len(u) : y[i] = u[i]
      /\ \A i \in 1 .. Len(b) : y[Len(u) + i] = b[i]
  BY JoinFacts
<1> HIDE DEF y
<1>7. ASSUME NEW i \in 1 .. Len(y) PROVE y[i] \in FileByte
  <2>1. CASE i <= Len(u)
    <3>1. i \in 1 .. Len(u)
      BY <1>1, <1>6, <2>1
    <3> QED BY <1>6, <3>1 DEF Leftover
  <2>2. CASE i > Len(u)
    <3> DEFINE j == i - Len(u)
    <3>1. j \in 1 .. Len(b) /\ i = Len(u) + j
      BY <1>1, <1>6, <2>2
    <3> HIDE DEF j
    <3> QED BY <1>4, <1>6, <3>1
  <2>3. i <= Len(u) \/ i > Len(u)
    BY <1>1, <1>6
  <2> QED BY <2>1, <2>2, <2>3
<1>8. Leftover(y)
  BY <1>5, <1>7 DEF Leftover
<1> QED BY <1>8 DEF y

(* The server sends b, the next bytes of the file. *)
LEMMA SendingMore ==
    ASSUME FilesSound, Typed, server.at = "file", files' = files,
           NEW b \in Seq(Char), NEW off \in Nat, off = server.off,
           off + Len(b) <= Len(files[server.name]),
           \A i \in 1 .. Len(b) : b[i] = files[server.name][off + i],
           server' = [server EXCEPT !.off = off + Len(b)],
           NEW name, NEW length, NEW part \in Seq(Char), Sending(name, length, part)
    PROVE  Sending(name, length, part \o b)'
<1>1. /\ name \in DOMAIN Contents
      /\ length \in Len(Contents[name]) .. Len(files[name])
      /\ \A i \in 1 .. Len(part) : part[i] = files[name][i]
      /\ server.name = name /\ off = Len(part)
  BY DEF Sending
<1>2. Len(b) \in Nat /\ Len(part) \in Nat /\ off + Len(b) <= Len(files[name])
  BY <1>1, LenProperties
<1>3. \A i \in 1 .. Len(b) : b[i] = files[name][off + i]
  BY <1>1
<1> DEFINE y == part \o b
<1>4. /\ Len(y) = Len(part) + Len(b) /\ \A i \in 1 .. Len(part) : y[i] = part[i]
      /\ \A i \in 1 .. Len(b) : y[Len(part) + i] = b[i]
  BY JoinFacts
<1> HIDE DEF y
<1>5. ASSUME NEW i \in 1 .. Len(y) PROVE y[i] = files[name][i]
  <2>1. CASE i <= Len(part)
    <3>1. i \in 1 .. Len(part)
      BY <1>2, <1>4, <2>1
    <3> QED BY <1>1, <1>4, <3>1
  <2>2. CASE i > Len(part)
    <3> DEFINE j == i - Len(part)
    <3>1. j \in 1 .. Len(b) /\ i = Len(part) + j
      BY <1>2, <1>4, <2>2
    <3> HIDE DEF j
    <3> QED BY <1>1, <1>3, <1>4, <3>1
  <2>3. i <= Len(part) \/ i > Len(part)
    BY <1>2, <1>4
  <2> QED BY <2>1, <2>2, <2>3
<1>6. server'.at = "file" /\ server'.name = name /\ server'.off = off + Len(b)
  BY <1>1 DEF Typed
<1>7. Len(y) <= Len(files[name]) /\ server'.off = Len(y)
  BY <1>1, <1>2, <1>4, <1>6
<1>8. "file" # "line"
  OBVIOUS
<1>9. PICK z : z = y
  OBVIOUS
<1>10. Sending(name, length, z)'
  BY <1>1, <1>5, <1>6, <1>7, <1>8, <1>9 DEF Sending
<1> QED BY <1>9, <1>10 DEF y

LEMMA FileEndKeeps ==
    ASSUME DialogueInv, server.at = "file", server.off = Len(files[server.name]),
           server' = [server EXCEPT !.at = "line"], NoWrite,
           UNCHANGED <<taken, closed, client, files>>
    PROVE  DialogueInv'
<1>1. StreamSound /\ FilesSound /\ Typed /\ Dialogue
  BY DEF DialogueInv
<1>2. StreamSound'
  BY <1>1 DEF NoWrite, StreamSound
<1>3. FilesSound' /\ Typed'
  BY <1>1, SameFiles DEF Typed
<1>4. Unread("client")' = Unread("client") /\ Unread("server")' = Unread("server")
  BY UnreadSame DEF NoWrite
<1>5. server'.at = "line" /\ server'.line = server.line
  BY <1>1 DEF Typed
<1>6. Prompted => Prompted'
  BY <1>4, <1>5 DEF Prompted, Leftover, Beyond, Waiting
<1>7. Asked => Asked'
  <2>1. \A s : s = <<>> => NoLF(s)
    BY DEF NoLF
  <2> QED BY <1>4, <1>5, <2>1 DEF Asked, Incoming, Leftover, Beyond, NoLF
<1>8. ASSUME NEW name, NEW length, NEW part, Sending(name, length, part)
      PROVE  Sending(name, length, part)'
  <2>1. /\ name \in DOMAIN Contents
        /\ length \in Len(Contents[name]) .. Len(files[name])
        /\ Len(part) = Len(files[name])
        /\ \A i \in 1 .. Len(part) : part[i] = files[name][i]
    BY <1>8 DEF Sending
  <2>2. Len(Contents[name]) \in Nat /\ Len(files[name]) \in Nat
    BY <1>1, <2>1, LenProperties, TransferAssumption DEF FilesSound
  <2>3. Len(part) <= Len(files[name]) /\ Len(part) >= length
    BY <2>1, <2>2
  <2> QED BY <1>5, <2>1, <2>3 DEF Sending
<1>9. Answered => Answered'
  <2>1. SUFFICES ASSUME Answered PROVE Answered'
    OBVIOUS
  <2>2. PICK z, name : z = Incoming /\ name = client.name
    OBVIOUS
  <2>3. PICK k \in 0 .. Len(z), length \in -1 .. MaxLength :
            AnswerAt(z, k, name, length) /\ Sending(name, length, After(z, k, name))
    BY <2>1, <2>2 DEF Answered, AnswerIn
  <2>4. PICK part : part = After(z, k, name)
    OBVIOUS
  <2>5. Sending(name, length, part)'
    BY <1>8, <2>3, <2>4
  <2>6. k \in 0 .. Len(Incoming') /\ Incoming' = z /\ client'.name = name
    BY <1>4, <2>2 DEF Incoming
  <2>7. AnswerAt(Incoming, k, client.name, length)'
    BY <2>3, <2>6 DEF AnswerAt
  <2>8. After(Incoming, k, client.name)' = part
    BY <2>4, <2>6 DEF After
  <2>9. Sending(client.name, length, After(Incoming, k, client.name))'
    BY <2>5, <2>6, <2>8 DEF Sending
  <2>10. AnswerIn(Incoming, client.name)'
    BY <2>6, <2>7, <2>9 DEF AnswerIn
  <2> QED BY <1>4, <1>5, <2>1, <2>10 DEF Answered, Waiting, NoLF
<1>10. Fetching => Fetching'
  <2>1. PICK name, length, part :
          /\ name = client.name /\ length = Len(client.file) + client.length
          /\ part = client.file \o Unread("client")
    OBVIOUS
  <2>2. SUFFICES ASSUME Fetching PROVE Fetching'
    OBVIOUS
  <2>3. Sending(name, length, part)'
    BY <1>8, <2>1, <2>2 DEF Fetching
  <2> QED BY <1>4, <1>5, <2>1, <2>2, <2>3 DEF Fetching, Waiting, Sending
<1> QED BY <1>2, <1>3, <1>6, <1>7, <1>9, <1>10 DEF DialogueInv, Dialogue

LEMMA FilePieceKeeps ==
    ASSUME DialogueInv, server.at = "file",
           NEW b \in Seq(Char), b # <<>>, NEW off \in Nat, off = server.off,
           off + Len(b) <= Len(files[server.name]),
           \A i \in 1 .. Len(b) : b[i] = files[server.name][off + i],
           server' = [server EXCEPT !.off = off + Len(b)], Write("server", b),
           UNCHANGED <<taken, closed, client, files>>
    PROVE  DialogueInv'
<1>1. StreamSound /\ FilesSound /\ Typed /\ Dialogue
  BY DEF DialogueInv
<1>2. PICK sname : sname = server.name
  OBVIOUS
<1>3. /\ sname \in DOMAIN Contents /\ Len(b) \in Nat /\ Len(b) >= 1
      /\ Len(Contents[sname]) \in Nat
  <2>1. Len(b) \in Nat /\ Len(b) # 0
    BY EmptySeq, LenProperties
  <2> QED BY <1>1, <1>2, <2>1, LenProperties, TransferAssumption DEF Typed
<1>4. /\ off + Len(b) <= Len(files[sname])
      /\ \A i \in 1 .. Len(b) : b[i] = files[sname][off + i]
  BY <1>2
<1>5. StreamSound'
  <2>1. got' = got /\ \E s \in Side, d \in Seq(Char) : Write(s, d)
    BY SideFacts DEF Write
  <2>2. taken' \in [Side -> Nat] /\ \A s \in Side : taken'[s] <= Len(got[s])
    BY <1>1 DEF StreamSound
  <2> QED BY <1>1, <2>1, <2>2, StreamKept
<1>6. /\ server'.at = "file" /\ server'.name = sname /\ server'.line = server.line
      /\ server'.off = off + Len(b)
  BY <1>1, <1>2 DEF Typed
<1>7. FilesSound' /\ Typed'
  <2>1. off + Len(b) \in Nat
    BY <1>3
  <2> QED BY <1>1, <1>2, <1>3, <1>4, <2>1, SameFiles DEF Typed
<1>8. PICK u : u = Unread("client")
  OBVIOUS
<1>9. u \in Seq(Char) /\ Unread("client")' = u \o b
  <2>1. Write(Other("client"), b) /\ "client" \in Side /\ taken'["client"] = taken["client"]
    BY SideFacts
  <2> QED BY <1>1, <1>8, <2>1, IncomingFacts, WriteUnread
<1>10. Unread("server")' = Unread("server")
  <2>1. text'[Other("server")] = text[Other("server")]
    BY <1>1, SideFacts DEF Write, StreamSound
  <2> QED BY <2>1, UnreadSame
<1>11. PICK z : z = Incoming
  OBVIOUS
<1>12. z \in Seq(Char) /\ Incoming' = z \o b
  <2>1. PICK line : line = client.line
    OBVIOUS
  <2>2. line \in Seq(Char) /\ u \in Seq(Char)
    BY <1>1, <1>9, <2>1, IncomingFacts
  <2>3. (line \o u) \o b = line \o (u \o b)
    BY <2>2, ConcatAssociative
  <2> QED BY <1>1, <1>8, <1>9, <1>11, <2>1, <2>3, IncomingFacts DEF Incoming
<1>13. Beyond => /\ Beyond'
                 /\ \A x \in Seq(Char) : Leftover(x) => Leftover(x \o b)
  <2>1. SUFFICES ASSUME Beyond PROVE Beyond' /\ \A x \in Seq(Char) : Leftover(x) => Leftover(x \o b)
    OBVIOUS
  <2>2. off >= Len(Contents[sname])
    BY <1>2, <2>1 DEF Beyond
  <2>3. off + Len(b) >= Len(Contents[sname])
    BY <1>3, <2>2
  <2>4. \A x \in Seq(Char) : Leftover(x) => Leftover(x \o b)
    BY <1>1, <1>3, <1>4, <2>2, MoreLeftover
  <2> QED BY <1>6, <2>3, <2>4 DEF Beyond
<1>14. PICK name : name = client.name
  OBVIOUS
<1>15. ASSUME NEW length, NEW part \in Seq(Char), Sending(name, length, part)
       PROVE  Sending(name, length, part \o b)'
  BY <1>1, <1>15, SendingMore
<1>16. Prompted => Prompted'
  <2>1. SUFFICES ASSUME Prompted PROVE Prompted'
    OBVIOUS
  <2>2. Leftover(u \o b) /\ Beyond'
    BY <1>8, <1>9, <1>13, <2>1 DEF Prompted
  <2>3. Leftover(Unread("client"))'
    BY <1>9, <2>2 DEF Leftover
  <2> QED BY <1>6, <1>10, <2>1, <2>2, <2>3 DEF Prompted, Waiting
<1>17. Asked => Asked'
  <2>1. SUFFICES ASSUME Asked PROVE Asked'
    OBVIOUS
  <2>2. Leftover(z \o b) /\ Beyond'
    BY <1>11, <1>12, <1>13, <2>1 DEF Asked
  <2>3. Leftover(Incoming)'
    BY <1>12, <2>2 DEF Leftover
  <2> QED BY <1>6, <1>10, <2>1, <2>2, <2>3 DEF Asked
<1>18. Answered => Answered'
  <2>1. SUFFICES ASSUME Answered PROVE Answered'
    OBVIOUS
  <2>2. PICK k \in 0 .. Len(z), length \in -1 .. MaxLength :
            AnswerAt(z, k, name, length) /\ Sending(name, length, After(z, k, name))
    BY <1>11, <1>14, <2>1 DEF Answered, AnswerIn
  <2>3. name \in Seq(Char)
    BY <1>1, <1>14 DEF Typed
  <2>4. /\ AnswerAt(z \o b, k, name, length)
        /\ After(z, k, name) \in Seq(Char)
        /\ After(z \o b, k, name) = After(z, k, name) \o b
    BY <1>12, <2>2, <2>3, AnswerGoesOn
  <2>5. PICK part, y : part = After(z, k, name) /\ y = z \o b
    OBVIOUS
  <2>6. Sending(name, length, part \o b)'
    BY <1>15, <2>2, <2>4, <2>5
  <2>7. k \in 0 .. Len(y) /\ Incoming' = y /\ client'.name = name
    <3>1. Len(z) \in Nat /\ Len(y) = Len(z) + Len(b)
      BY <1>12, <2>5, JoinFacts
    <3>2. k \in 0 .. Len(y)
      BY <1>3, <3>1
    <3> QED BY <1>12, <1>14, <2>5, <3>2
  <2>8. AnswerAt(Incoming, k, client.name, length)'
    BY <2>4, <2>5, <2>7 DEF AnswerAt
  <2>9. After(Incoming, k, client.name)' = part \o b
    BY <2>4, <2>5, <2>7 DEF After
  <2>10. Sending(client.name, length, After(Incoming, k, client.name))'
    BY <2>6, <2>7, <2>9 DEF Sending
  <2>11. k \in 0 .. Len(Incoming')
    BY <2>7
  <2>12. AnswerIn(Incoming, client.name)'
    BY <2>8, <2>10, <2>11 DEF AnswerIn
  <2> QED BY <1>6, <1>10, <2>1, <2>12 DEF Answered, Waiting, NoLF
<1>19. Fetching => Fetching'
  <2>1. SUFFICES ASSUME Fetching PROVE Fetching'
    OBVIOUS
  <2>2. PICK file, length, part :
          /\ file = client.file /\ length = Len(client.file) + client.length
          /\ part = file \o u
    OBVIOUS
  <2>3. file \in Seq(Char) /\ part \in Seq(Char)
    BY <1>1, <1>9, <2>2, JoinFacts DEF Typed
  <2>4. Sending(name, length, part \o b)'
    BY <1>8, <1>14, <1>15, <2>1, <2>2, <2>3 DEF Fetching
  <2>5. client'.file \o Unread("client")' = part \o b
    <3>1. u \in Seq(Char)
      BY <1>9
    <3>2. (file \o u) \o b = file \o (u \o b)
      BY <2>3, <3>1, ConcatAssociative
    <3> QED BY <1>9, <2>2, <3>2
  <2> QED BY <1>6, <1>10, <1>14, <2>1, <2>2, <2>4, <2>5 DEF Fetching, Waiting, Sending
<1> QED BY <1>1, <1>5, <1>7, <1>16, <1>17, <1>18, <1>19 DEF DialogueInv, Dialogue

LEMMA ServerFileKeeps ==
    ASSUME DialogueInv, ServerFile PROVE DialogueInv'
<1>1. PICK f, off, more, n :
        /\ f = files[server.name] /\ off = server.off
        /\ more = SubSeq(f, off + 1, Len(f))
        /\ n = IF Len(more) < SERVER_BUF THEN Len(more) ELSE SERVER_BUF
  OBVIOUS
<1>2. /\ server.at = "file" /\ UNCHANGED <<taken, closed, client, files>>
      /\ \/ /\ more = <<>> /\ server' = [server EXCEPT !.at = "line"] /\ NoWrite
         \/ /\ more # <<>> /\ Write("server", SubSeq(more, 1, n))
            /\ server' = [server EXCEPT !.off = off + n]
  BY <1>1 DEF ServerFile, RestOfFile
<1>3. f \in Seq(Char) /\ Len(f) \in Nat /\ off \in 0 .. Len(f) /\ off \in Nat
  <2>1. f \in Seq(Char) /\ off \in Nat /\ off <= Len(f)
    BY <1>1, <1>2 DEF DialogueInv, Typed, FilesSound
  <2> QED BY <2>1, LenProperties
<1>4. /\ more \in Seq(Char) /\ Len(more) = Len(f) - off
      /\ \A i \in 1 .. Len(f) - off : more[i] = f[off + i]
  BY <1>1, <1>3, TailIsRest
<1>5. CASE more = <<>>
  <2>1. off = Len(f)
    BY <1>3, <1>4, <1>5
  <2> QED BY <1>1, <1>2, <1>5, <2>1, FileEndKeeps
<1>6. CASE more # <<>>
  <2>1. n \in 1 .. Len(more) /\ n \in 0 .. Len(more) /\ n \in Nat /\ Len(more) \in Nat
    <3>1. Len(more) \in Nat /\ Len(more) # 0
      BY <1>4, <1>6, EmptySeq, LenProperties
    <3>2. SERVER_BUF \in Nat \ {0}
      BY TransferAssumption
    <3>3. n = IF Len(more) < SERVER_BUF THEN Len(more) ELSE SERVER_BUF
      BY <1>1
    <3> QED BY <3>1, <3>2, <3>3
  <2>2. PICK b : b = SubSeq(more, 1, n)
    OBVIOUS
  <2>3. b \in Seq(Char) /\ Len(b) = n /\ \A i \in 1 .. n : b[i] = more[i]
    BY <1>4, <2>1, <2>2, PartIsStart
  <2>4. b # <<>>
    BY <2>1, <2>3
  <2>5. off + n <= Len(f) /\ \A i \in 1 .. n : i \in 1 .. Len(f) - off
    BY <1>3, <1>4, <2>1
  <2>6. \A i \in 1 .. Len(b) : b[i] = f[off + i]
    BY <1>4, <2>3, <2>5
  <2>7. off + Len(b) <= Len(f)
    BY <2>3, <2>5
  <2>8. Write("server", b) /\ server' = [server EXCEPT !.off = off + Len(b)]
    BY <1>2, <1>6, <2>2, <2>3
  <2> QED BY <1>1, <1>2, <1>3, <2>3, <2>4, <2>6, <2>7, <2>8, FilePieceKeeps
<1> QED BY <1>5, <1>6

---------------------------------------------------------------------------
LEMMA FileInitially ==
    ASSUME FileInit PROVE FileInv /\ DialogueInv
<1>1. /\ text = [s \in Side |-> <<>>] /\ taken = [s \in Side |-> 0]
      /\ got = [s \in Side |-> <<>>] /\ offered = [s \in Side |-> 0]
      /\ closed = [s \in Side |-> FALSE] /\ files = Contents
      /\ client = [at |-> "prompt", line |-> <<>>, name |-> <<>>, length |-> 0,
                   file |-> <<>>, stored |-> FALSE]
      /\ server = [at |-> "line", line |-> <<>>, name |-> <<>>, off |-> 0]
  BY DEF FileInit, StreamInit
<1>2. StreamSound
  <2>1. \A s \in Side : Other(s) \in Side /\ text[s] = <<>> /\ got[s] = <<>> /\ taken[s] = 0
    BY <1>1, SideFacts
  <2>2. Len(<<>>) = 0 /\ <<>> \in Seq(Char) /\ <<>> \in Seq(Nat) /\ 1 .. 0 = {}
    OBVIOUS
  <2>3. offered = [s \in Side |-> Len(text[s])]
    BY <1>1, <2>1, <2>2
  <2> QED BY <1>1, <2>1, <2>2, <2>3 DEF StreamSound
<1>3. FilesSound
  <2>1. ASSUME NEW n \in DOMAIN Contents
        PROVE  /\ Contents[n] \in Seq(Char)
               /\ Len(Contents[n]) \in Len(Contents[n]) .. MaxLength
               /\ Len(Contents[n]) + 1 .. Len(Contents[n]) = {}
    <3>1. Contents[n] \in Seq(Char) /\ Len(Contents[n]) \in Nat
          /\ Len(Contents[n]) <= MaxLength
          /\ MaxLength \in Nat
      BY LenProperties, TransferAssumption
    <3> QED BY <3>1
  <2> QED BY <1>1, <2>1 DEF FilesSound
<1>4. Typed
  BY <1>1, SideFacts DEF Typed
<1>5. Dialogue
  <2>1. Unread("client") = <<>> /\ Unread("server") = <<>>
    <3>1. "client" \in Side /\ "server" \in Side
      BY SideFacts
    <3>2. \A s \in Side : Other(s) \in Side /\ text[Other(s)] = <<>> /\ taken[s] = 0
      BY <1>1, SideFacts
    <3>3. \A s \in Side : Len(Unread(s)) = 0 /\ Unread(s) \in Seq(Char)
      <4>1. ASSUME NEW s \in Side PROVE Len(Unread(s)) = 0 /\ Unread(s) \in Seq(Char)
        <5>1. /\ Len(Unread(s)) = Len(text[Other(s)]) - taken[s]
              /\ Unread(s) \in Seq(Char)
          BY <1>2, UnreadFacts
        <5>2. Len(text[Other(s)]) = 0 /\ taken[s] = 0
          BY <3>2
        <5> QED BY <5>1, <5>2
      <4> QED BY <4>1
    <3> QED BY <3>1, <3>3, EmptySeq
  <2>2. Prompted
    BY <1>1, <2>1 DEF Prompted, Leftover, Beyond, Waiting
  <2> QED BY <1>1, <2>2 DEF Dialogue
<1> QED BY <1>2, <1>3, <1>4, <1>5 DEF FileInv, DialogueInv

LEMMA FileStep ==
    ASSUME FileInv, [FileNext]_fileVars PROVE FileInv'
<1>1. CASE UNCHANGED fileVars
  <2>1. FilesSound' /\ (Clean' <=> Clean)
    BY <1>1, SameFiles DEF fileVars, FileInv
  <2>2. ASSUME Clean PROVE DialogueInv'
    <3>1. StreamSound /\ Typed /\ Dialogue
      BY <2>2 DEF FileInv, DialogueInv
    <3>2. StreamSound' /\ Typed'
      BY <1>1, <3>1 DEF fileVars, StreamSound, Typed
    <3>3. Dialogue'
      BY <1>1, <3>1, SameDialogue DEF fileVars, Unread
    <3> QED BY <2>1, <3>2, <3>3 DEF DialogueInv
  <2> QED BY <2>1, <2>2 DEF FileInv
<1>2. CASE \E n \in DOMAIN Contents, b \in FileByte : Grow(n, b)
  <2>1. PICK n \in DOMAIN Contents, b \in FileByte : Grow(n, b)
    BY <1>2
  <2>2. FilesSound' /\ files' # Contents
    BY <2>1, GrowFiles DEF FileInv
  <2>3. ASSUME Clean' PROVE DialogueInv'
    <3>1. Clean
      BY <2>2, <2>3 DEF Clean, Plain
    <3> QED BY <2>1, <3>1, GrowKeeps DEF FileInv
  <2> QED BY <2>2, <2>3 DEF FileInv
<1>3. CASE ~\E n \in DOMAIN Contents, b \in FileByte : Grow(n, b)
  <2>1. CASE FileNext
    <3>1. files' = files
      BY <1>3, <2>1 DEF FileNext, Request, Quit, ClientStep, ClientChar, ClientLineEof,
            ClientBody, ClientBodyEof, ServerStep, ServerChar, ServerLineEof, ServerFile,
            ServerReadError, Arrive
    <3>2. FilesSound' /\ (Clean' <=> Clean)
      BY <3>1, SameFiles DEF FileInv
    <3>3. ASSUME Clean PROVE DialogueInv'
      BY <1>3, <2>1, <3>3, RequestKeeps, QuitKeeps, ClientCharKeeps,
         ClientLineEofKeeps, ClientBodyKeeps, ClientBodyEofKeeps, ServerCharKeeps,
         ServerLineEofKeeps, ServerFileKeeps, ReadErrorKeeps, ArriveKeeps
      DEF FileInv, FileNext, ClientStep, ServerStep
    <3> QED BY <3>2, <3>3 DEF FileInv
  <2> QED BY <1>1, <2>1
<1> QED BY <1>2, <1>3

LEMMA FileInvariance == FileSpec => []FileInv
<1>1. FileInit => FileInv
  BY FileInitially
<1>2. FileInv /\ [FileNext]_fileVars => FileInv'
  BY FileStep
<1> QED BY <1>1, <1>2, PTL DEF FileSpec

(* At its prompt the client has read all that the server has sent, unless  *)
(* a file grew after its length was announced: the next line it reads is   *)
(* the next answer.                                                        *)
THEOREM PromptsInStep == FileSpec => []PromptInStep
<1>1. FileInv => PromptInStep
  <2>1. SUFFICES ASSUME FileInv, client.at = "prompt", files = Contents
                 PROVE  taken["client"] = Len(text["server"])
    BY DEF PromptInStep
  <2>2. StreamSound /\ Dialogue
    BY <2>1 DEF FileInv, Clean, DialogueInv
  <2>3. Unread("client") = <<>>
    BY <2>1, <2>2 DEF Dialogue, Prompted, Leftover
  <2>4. /\ Len(Unread("client")) = Len(text["server"]) - taken["client"]
        /\ taken["client"] \in 0 .. Len(text["server"]) /\ Len(text["server"]) \in Nat
    BY <2>2, UnreadFacts, SideFacts
  <2> QED BY <2>3, <2>4
<1> QED BY <1>1, FileInvariance, PTL

(* A file that was stored is the beginning of the file asked for, and all  *)
(* of it unless it grew, however its bytes were cut up on the way, as long *)
(* as what is appended to files has no line ends and no commas.            *)
THEOREM FilesFaithful ==
    ASSUME Plain
    PROVE  FileSpec => []FileFaithful
<1>1. FileInv => FileFaithful
  <2>1. SUFFICES ASSUME FileInv, client.at = "prompt", client.stored
                 PROVE  /\ IsPrefix(client.file, files[client.name])
                        /\ Len(client.file) >= Len(Contents[client.name])
    BY DEF FileFaithful
  <2>2. FilesSound /\ Typed /\ Prompted
    BY <2>1 DEF FileInv, Clean, DialogueInv, Dialogue
  <2>3. PICK name, file, f, n : /\ name = client.name /\ file = client.file
                                /\ f = files[client.name] /\ n = Len(client.file)
    OBVIOUS
  <2>4. /\ name \in DOMAIN Contents /\ n \in Len(Contents[name]) .. Len(f)
        /\ \A i \in 1 .. n : file[i] = f[i]
    BY <2>1, <2>2, <2>3 DEF Prompted
  <2>5. /\ file \in Seq(Char) /\ f \in Seq(Char) /\ n \in Nat /\ Len(f) \in Nat
        /\ Len(Contents[name]) \in Nat
    BY <2>2, <2>3, <2>4, LenProperties, TransferAssumption DEF Typed, FilesSound
  <2>6. n \in 0 .. Len(f) /\ n \in 0 .. n /\ n >= Len(Contents[name]) /\ n <= Len(f)
    BY <2>4, <2>5
  <2> DEFINE a == SubSeq(file, 1, n)
             b == SubSeq(f, 1, n)
  <2>7. /\ a \in Seq(Char) /\ Len(a) = n /\ \A i \in 1 .. n : a[i] = file[i]
        /\ b \in Seq(Char) /\ Len(b) = n /\ \A i \in 1 .. n : b[i] = f[i]
    BY <2>3, <2>5, <2>6, PartIsStart
  <2> HIDE DEF a, b
  <2>8. a = b
    BY <2>4, <2>7, SeqEqual
  <2>9. Len(file) <= Len(f) /\ SubSeq(file, 1, Len(file)) = SubSeq(f, 1, Len(file))
    BY <2>3, <2>6, <2>8 DEF a, b
  <2> QED BY <2>3, <2>6, <2>9 DEF IsPrefix
<1> QED BY <1>1, FileInvariance, PTL
=============================================================================
