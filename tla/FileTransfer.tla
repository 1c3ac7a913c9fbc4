--------------------------- MODULE FileTransfer ---------------------------
(***************************************************************************)
(* stcp/client.c and stcp/server.c: a client asks for files by name and    *)
(* the server answers each request with a line that holds the length of    *)
(* the file, then the file.  They talk over a connection of the kind       *)
(* ByteStream promises, which is the one Stcp is shown to implement: the   *)
(* bytes of an answer come in any number of pieces.                        *)
(*                                                                         *)
(* One step is one call of myread(), mywrite() or read().  A connection    *)
(* that the transport layer gives up is left out.  Lines are shorter than  *)
(* the arrays they are read into, which the code does not check.           *)
(***************************************************************************)
EXTENDS ByteStream, SequencesExt, TLC

CONSTANTS
    Char,          \* what lines and files are made of; a numeral is one of them
    Names,         \* names a user may ask for: sequences of characters
    Contents,      \* the files there are at first, by name
    FileByte,      \* what a file may be extended by
    MaxLength,     \* bound: bytes of a file
    MaxRequests,   \* bound: requests of a client
    CLIENT_BUF,    \* sizeof(line) in the client: 1000
    SERVER_BUF     \* sizeof(resp) in the server: 5000

CRLF == <<"\r", "\n">>
COMMA == ","
VERDICT == "verdict"   \* the words for success or failure, which are only shown

(* A name is a line that was typed, without its end; the prompt ignores    *)
(* names of one character.                                                 *)
ASSUME TransferAssumption ==
    /\ Side = {"client", "server"}
    /\ Other("client") = "server" /\ Other("server") = "client"
    /\ \A n \in Names : n \in Seq(Char) /\ Len(n) > 1
    /\ \A n \in Names : \A i \in 1 .. Len(n) : n[i] # "\n"
    /\ {"\r", "\n", COMMA, VERDICT} \subseteq Char
    /\ DOMAIN Contents \subseteq Names
    /\ \A n \in DOMAIN Contents :
         Contents[n] \in Seq(Char) /\ Len(Contents[n]) <= MaxLength
    /\ FileByte \subseteq Char
    /\ MaxLength \in Nat /\ MaxRequests \in Nat
    /\ CLIENT_BUF \in Nat \ {0} /\ SERVER_BUF \in Nat \ {0}

(* "%d" writes different numbers differently, without commas or line ends. *)
ASSUME NumeralAssumption ==
    \A m, n \in -1 .. MaxLength :
        /\ ToString(m) \in Char \ {COMMA, "\r", "\n"}
        /\ ToString(m) = ToString(n) => m = n

VARIABLES
    text,      \* what each end has written
    taken,     \* how much of the other's each end has read
    closed,    \* myclose() was called
    client,    \* the local variables of loop_until_end()
    server,    \* those of do_connection() and process_line()
    files,     \* the server's file system
    requests   \* requests so far

fileVars ==
    <<offered, got, gaveUp, text, taken, closed, client, server, files, requests>>

---------------------------------------------------------------------------
(* The two calls of mysock.h, in terms of the byte stream. *)

(* Mywrite *)
Write(s, bytes) ==
    /\ text' = [text EXCEPT ![s] = @ \o bytes]
    /\ offered' = [offered EXCEPT ![s] = @ + Len(bytes)]
    /\ UNCHANGED <<got, gaveUp>>

(* Myread: n bytes that have arrived, or the end of the stream. *)
Arrived(s) ==
    [i \in 1 .. Len(got[s]) - taken[s] |-> text[Other(s)][got[s][taken[s] + i]]]

Read(s, n) == taken' = [taken EXCEPT ![s] = @ + n]

AtEof(s) ==
    /\ closed[Other(s)]
    /\ taken[s] = Len(text[Other(s)])

Close(s) == closed' = [closed EXCEPT ![s] = TRUE]

NoWrite == UNCHANGED <<offered, got, gaveUp, text>>

(* get_nvt_line(): the LF after a CR ends the line. *)
EndsLine(line, c) == line # <<>> /\ <<Last(line), c>> = CRLF

---------------------------------------------------------------------------
(* loop_until_end() *)

(* A name is typed at the prompt, or was given with -f. *)
Request(name) ==
    /\ client.at = "prompt"
    /\ requests < MaxRequests
    /\ requests' = requests + 1
    /\ Write("client", name \o CRLF)
    /\ client' = [at |-> "line", line |-> <<>>, name |-> name, length |-> 0,
                  file |-> <<>>, stored |-> FALSE]
    /\ UNCHANGED <<taken, closed, server, files>>

(* End of input, or the one file of -f was fetched. *)
Quit ==
    /\ client.at = "prompt"
    /\ client' = [client EXCEPT !.at = "done"]
    /\ Close("client")
    /\ NoWrite
    /\ UNCHANGED <<taken, server, files, requests>>

Commas(line) == {i \in 1 .. Len(line) : line[i] = COMMA}

LastOf(S) == CHOOSE i \in S : \A j \in S : j <= i

(* The answer is cut at its last two commas; without two it is malformed   *)
(* and the client leaves.  The number between them is read back.           *)
Answer(line) ==
    LET c == Commas(line)
        resp == LastOf(c)
        lenstr == LastOf(c \ {resp})
        length == CHOOSE n \in -1 .. MaxLength : ToString(n) = line[lenstr + 1]
    IN  IF Cardinality(c) < 2
        THEN /\ client' = [client EXCEPT !.at = "done"]
             /\ Close("client")
        ELSE /\ client' = [client EXCEPT
                             !.at = IF length > 0 THEN "body" ELSE "prompt",
                             !.length = length, !.line = <<>>,
                             !.stored = length = 0]
             /\ UNCHANGED closed

ClientChar ==
    /\ client.at = "line"
    /\ Arrived("client") # <<>>
    /\ Read("client", 1)
    /\ LET c == Head(Arrived("client")) IN
       \/ /\ EndsLine(client.line, c)
          /\ Answer(Front(client.line))
       \/ /\ ~EndsLine(client.line, c)
          /\ client' = [client EXCEPT !.line = Append(@, c)]
          /\ UNCHANGED closed
    /\ NoWrite
    /\ UNCHANGED <<server, files, requests>>

(* The stream ends inside the line: what there is of it is the answer. *)
ClientLineEof ==
    /\ client.at = "line"
    /\ AtEof("client")
    /\ Answer(client.line)
    /\ NoWrite
    /\ UNCHANGED <<taken, server, files, requests>>

(* Mutant: what was asked for is counted, not what came. *)
CountAsked(got_, to_read) == to_read

(* got < to_read: only what came is counted. *)
Count(got_, to_read) == got_

ClientBody ==
    /\ client.at = "body"
    /\ LET to_read == IF client.length < CLIENT_BUF THEN client.length
                      ELSE CLIENT_BUF
       IN  \E n \in 1 .. to_read :
             /\ n <= Len(Arrived("client"))
             /\ Read("client", n)
             /\ LET left == client.length - Count(n, to_read)
                IN  client' = [client EXCEPT
                       !.file = @ \o SubSeq(Arrived("client"), 1, n),
                       !.length = left,
                       !.at = IF left = 0 THEN "prompt" ELSE "body",
                       !.stored = left = 0]
    /\ NoWrite
    /\ UNCHANGED <<closed, server, files, requests>>

(* The stream ends inside the file: "read bad number of bytes", exit(). *)
ClientBodyEof ==
    /\ client.at = "body"
    /\ AtEof("client")
    /\ client' = [client EXCEPT !.at = "failed"]
    /\ Close("client")
    /\ NoWrite
    /\ UNCHANGED <<taken, server, files, requests>>

---------------------------------------------------------------------------
(* do_connection() *)

(* Mutant: the length is asked for in a way that fails. *)
ReplyUnsized(line) ==
    line \o <<COMMA, ToString(-1), COMMA, VERDICT>> \o CRLF

(* process_line(): the length is that of the file as it is opened. *)
Reply(line) ==
    LET length == IF line \in DOMAIN files THEN Len(files[line]) ELSE -1
    IN  line \o <<COMMA, ToString(length), COMMA, VERDICT>> \o CRLF

(* A complete line: an empty one ends the connection. *)
ProcessLine(line) ==
    \/ /\ line = <<>>
       /\ server' = [server EXCEPT !.at = "closed"]
       /\ Close("server")
       /\ NoWrite
    \/ /\ line # <<>>
       /\ Write("server", Reply(line))
       /\ server' = [at |-> IF line \in DOMAIN files THEN "file" ELSE "line",
                     line |-> <<>>, name |-> line, off |-> 0]
       /\ UNCHANGED closed

ServerChar ==
    /\ server.at = "line"
    /\ Arrived("server") # <<>>
    /\ Read("server", 1)
    /\ LET c == Head(Arrived("server")) IN
       \/ /\ EndsLine(server.line, c)
          /\ ProcessLine(Front(server.line))
       \/ /\ ~EndsLine(server.line, c)
          /\ server' = [server EXCEPT !.line = Append(@, c)]
          /\ NoWrite
          /\ UNCHANGED closed
    /\ UNCHANGED <<client, files, requests>>

(* Mutant: at the end of the stream the server waits for the rest of a     *)
(* line.                                                                   *)
ServerLineEofWaits ==
    server.at = "line" /\ AtEof("server") /\ server.line # <<>>
    /\ ProcessLine(server.line)
    /\ UNCHANGED <<taken, client, files, requests>>

ServerLineEof ==
    /\ server.at = "line"
    /\ AtEof("server")
    /\ ProcessLine(server.line)
    /\ UNCHANGED <<taken, client, files, requests>>

(* What read() has not returned yet. *)
RestOfFile(f, off) == SubSeq(f, off + 1, Len(f))

(* A round of the loop that sends the file. *)
ServerFile ==
    /\ server.at = "file"
    /\ LET more == RestOfFile(files[server.name], server.off)
           n == IF Len(more) < SERVER_BUF THEN Len(more) ELSE SERVER_BUF
       IN  \/ /\ more = <<>>
              /\ server' = [server EXCEPT !.at = "line"]
              /\ NoWrite
           \/ /\ more # <<>>
              /\ Write("server", SubSeq(more, 1, n))
              /\ server' = [server EXCEPT !.off = @ + n]
    /\ UNCHANGED <<taken, closed, client, files, requests>>

(* read() fails. *)
ServerReadError ==
    /\ server.at = "file"
    /\ server' = [server EXCEPT !.at = "closed"]
    /\ Close("server")
    /\ NoWrite
    /\ UNCHANGED <<taken, client, files, requests>>

(* Somebody appends to a file. *)
Grow(name, b) ==
    /\ Len(files[name]) < MaxLength
    /\ files' = [files EXCEPT ![name] = Append(@, b)]
    /\ NoWrite
    /\ UNCHANGED <<taken, closed, client, server, requests>>

---------------------------------------------------------------------------
Arrive(s) ==
    /\ Deliver(s)
    /\ UNCHANGED <<text, taken, closed, client, server, files, requests>>

FileInit ==
    /\ StreamInit
    /\ text = [s \in Side |-> <<>>]
    /\ taken = [s \in Side |-> 0]
    /\ closed = [s \in Side |-> FALSE]
    /\ client = [at |-> "prompt", line |-> <<>>, name |-> <<>>, length |-> 0,
                 file |-> <<>>, stored |-> FALSE]
    /\ server = [at |-> "line", line |-> <<>>, name |-> <<>>, off |-> 0]
    /\ files = Contents
    /\ requests = 0

ClientStep == ClientChar \/ ClientLineEof \/ ClientBody \/ ClientBodyEof
ServerStep == ServerChar \/ ServerLineEof \/ ServerFile

FileNext ==
    \/ \E name \in Names : Request(name)
    \/ Quit
    \/ ClientStep
    \/ ServerStep
    \/ ServerReadError
    \/ \E name \in DOMAIN Contents, b \in FileByte : Grow(name, b)
    \/ \E s \in Side : Arrive(s)

FileSpec == FileInit /\ [][FileNext]_fileVars

(* Both programs run, and the connection delivers.  The user need not ask  *)
(* for anything, nor leave.                                                *)
FileFairness ==
    /\ WF_fileVars(ClientStep)
    /\ WF_fileVars(ServerStep)
    /\ \A s \in Side : WF_fileVars(Arrive(s))

---------------------------------------------------------------------------
(* Properties. *)

(* A file the client has stored is, however its bytes were cut up, the     *)
(* beginning of the file asked for, and all of it if it has not grown.     *)
FileFaithful ==
    client.at = "prompt" /\ client.stored =>
        /\ IsPrefix(client.file, files[client.name])
        /\ Len(client.file) >= Len(Contents[client.name])

(* At the prompt the client has read all that the server has sent, so the  *)
(* next line it reads is the next answer, unless a file grew after its     *)
(* length was announced.                                                   *)
PromptInStep ==
    client.at = "prompt" /\ files = Contents =>
        taken["client"] = Len(text["server"])

(* Every request comes to an end for the client: the file, an error or a   *)
(* closed connection.                                                      *)
RequestsEnd ==
    client.at \in {"line", "body"} ~> client.at \in {"prompt", "done", "failed"}

(* The server, which serves one connection at a time, is done with a       *)
(* client that has left.                                                   *)
ServerMovesOn == closed["client"] ~> server.at = "closed"

(* Neither end waits for ever: a request is answered or fails, and the     *)
(* server gets to its next connection.                                     *)
DialogueEnds == RequestsEnd /\ ServerMovesOn
===========================================================================
