------------------------------ MODULE Parser ------------------------------
(***************************************************************************)
(* parse_message() and parse() of src/parser.c: the thread of one client   *)
(* cuts what recv() returns into lines and each line into parameters.      *)
(*                                                                         *)
(* TCP may end a recv() anywhere, so between two of them part of a line is *)
(* kept in msg, and two flags remember that the CR of a CRLF came last or  *)
(* that a line was too long and its end is to be skipped.  One recv() with *)
(* what is done before the loop over complete lines is one action, each    *)
(* round of that loop another, and what is done with the rest a third.     *)
(*                                                                         *)
(* The arrays have the size they have in the code: a write outside of one  *)
(* may go unnoticed or end the thread's ordinary life ("overrun").         *)
(***************************************************************************)
EXTENDS Integers, SequencesExt

CONSTANTS
    MAXMSG,      \* 512 in the code; msg has MAXMSG - 1 bytes
    MAXPARAMS,   \* 16
    Inputs       \* what a client may send: sequences of characters

CR == "\r"
LF == "\n"
SPACE == " "
COLON == ":"

ASSUME ParserAssumption ==
    /\ MAXMSG \in Nat /\ MAXMSG > 2
    /\ MAXPARAMS \in Nat \ {0}
    /\ \A s \in Inputs : s \in Seq(STRING)

VARIABLES
    input,       \* what the client sends in this behaviour
    pos,         \* how much of it recv() has returned
    cuts,        \* history: where a recv() ended
    at,          \* "recv" or, when buf is to be read, "lines"
    rest,        \* buf from msgstart on
    msg,         \* the line so far; msglength is its length
    CRLFsplit,
    truncated,
    parsed,      \* history: the messages given to parse()
    pstatus      \* "up", "exited", "overrun" or "crashed"

parserVars ==
    <<input, pos, cuts, at, rest, msg, CRLFsplit, truncated, parsed, pstatus>>

---------------------------------------------------------------------------
(* strstr(s, "\r\n") *)
StrStrCRLF(s) ==
    {i \in 1 .. Len(s) - 1 : /\ s[i] = CR /\ s[i + 1] = LF
                             /\ \A j \in 1 .. i - 1 : s[j] # CR \/ s[j + 1] # LF}

From(s, i) == SubSeq(s, i, Len(s))
FirstOf(s, n) == IF n < Len(s) THEN SubSeq(s, 1, n) ELSE s

(* What a string of n characters written to msg may do. *)
Written(n) == IF n + 1 > MAXMSG - 1 THEN {"up", "overrun"} ELSE {"up"}

---------------------------------------------------------------------------
(* parse(): the parameters are filled one character at a time. *)

(* Mutant: a colon begins the last parameter wherever it stands. *)
BeginsTrailingAnywhere(p, c) == c = COLON

BeginsTrailing(p, c) == c = COLON /\ Last(p.params) = <<>>

(* One round of the loop; "done" is its break. *)
ParseChar(p, i, m) ==
    IF p.done THEN p
    ELSE IF m[i] = SPACE THEN [p EXCEPT !.params = Append(@, <<>>)]
    ELSE IF BeginsTrailing(p, m[i])
    THEN [params |-> ReplaceAt(p.params, Len(p.params), From(m, i)),
          done |-> TRUE]
    ELSE [p EXCEPT !.params[Len(p.params)] = Append(@, m[i])]

Params(m) ==
    FoldLeft(LAMBDA p, i : ParseChar(p, i, m),
             [params |-> <<<<>>>>, done |-> FALSE],
             [i \in 1 .. Len(m) |-> i]).params

(* params has MAXPARAMS rows and nothing checks their number. *)
Parsed(m) ==
    IF Len(Params(m)) > MAXPARAMS THEN {"up", "overrun"} ELSE {"up"}

---------------------------------------------------------------------------
(* The LF of a CRLF whose CR came at the end of the last recv(). *)
EndsSplitLine(chunk) == CRLFsplit /\ chunk[1] = LF

(* msg[msglength - 2] = '\0' takes the CR and the character before it. *)
SplitMessage == IF Len(msg) = 1 THEN msg ELSE FirstOf(msg, Len(msg) - 2)

(* Where the loop begins: after that LF, or, if the end of a line that was *)
(* too long is to be skipped, after the first CRLF of buf; strstr() + 2 is *)
(* never NULL, and followed when there is no CRLF.                         *)
Skipped(chunk) ==
    IF truncated THEN {From(chunk, i + 2) : i \in StrStrCRLF(chunk)}
    ELSE {IF EndsSplitLine(chunk) THEN Tail(chunk) ELSE chunk}

Recv(n) ==
    /\ pstatus = "up"
    /\ at = "recv"
    /\ n \in 1 .. MAXMSG
    /\ pos + n <= Len(input)
    /\ LET chunk == SubSeq(input, pos + 1, pos + n) IN
       /\ pos' = pos + n
       /\ cuts' = cuts \union {pos + n}
       /\ CRLFsplit' = FALSE
       /\ truncated' = FALSE
       /\ LET ends == EndsSplitLine(chunk) /\ msg # <<>> IN
          /\ parsed' = IF ends THEN Append(parsed, SplitMessage) ELSE parsed
          /\ msg' = IF ends THEN <<>> ELSE msg
          /\ \/ /\ Skipped(chunk) = {}
                /\ pstatus' = "crashed"
                /\ UNCHANGED <<at, rest>>
             \/ /\ rest' \in Skipped(chunk)
                /\ at' = "lines"
                \* msg[-1] is written when the line is empty
                /\ pstatus' \in IF ends /\ Len(msg) = 1 THEN {"up", "overrun"}
                                ELSE IF ends THEN Parsed(SplitMessage)
                                ELSE {"up"}
    /\ UNCHANGED input

(* The loop over the complete lines of buf.  A line that is too long is    *)
(* ended MAXMSG - msglength characters after msgstart, wherever that is.   *)
Line ==
    /\ pstatus = "up"
    /\ at = "lines"
    /\ \E i \in StrStrCRLF(rest) :
         LET tooLong == Len(msg) + (i - 1) > MAXMSG - 2
             text == IF tooLong THEN FirstOf(rest, MAXMSG - Len(msg))
                     ELSE FirstOf(rest, i - 1)
         IN  /\ parsed' = Append(parsed, msg \o text)
             /\ pstatus' \in Written(Len(msg \o text)) \union Parsed(msg \o text)
             /\ rest' = From(rest, i + 2)
    /\ msg' = <<>>
    /\ UNCHANGED <<input, pos, cuts, at, CRLFsplit, truncated>>

(* Mutant: a CR at the end is kept as an ordinary character. *)
EndsInCRNever(s) == FALSE

EndsInCR(s) == s # <<>> /\ Last(s) = CR

(* The rest of buf is kept, or as much of it as fits is parsed. *)
Rest ==
    /\ pstatus = "up"
    /\ at = "lines"
    /\ StrStrCRLF(rest) = {}
    /\ at' = "recv"
    /\ rest' = <<>>
    /\ CRLFsplit' = EndsInCR(rest)
    /\ LET remaind == MAXMSG - Len(msg) - 1
           text == msg \o FirstOf(rest, remaind)
       IN  \/ /\ Len(rest) <= remaind
              /\ msg' = text
              /\ pstatus' \in Written(Len(text))
              /\ UNCHANGED <<parsed, truncated>>
           \/ /\ Len(rest) > remaind
              /\ msg' = <<>>
              /\ parsed' = Append(parsed, text)
              /\ truncated' = TRUE
              /\ pstatus' \in Written(Len(text)) \union Parsed(text)
    /\ UNCHANGED <<input, pos, cuts>>

(* recv() returns 0 once the client has closed, or -1 when it is gone:     *)
(* user_exit().                                                            *)
HangUp ==
    /\ pstatus = "up"
    /\ at = "recv"
    /\ pstatus' = "exited"
    /\ UNCHANGED <<input, pos, cuts, at, rest, msg, CRLFsplit, truncated, parsed>>

ParserInit ==
    /\ input \in Inputs
    /\ pos = 0
    /\ cuts = {}
    /\ at = "recv"
    /\ rest = <<>>
    /\ msg = <<>>
    /\ CRLFsplit = FALSE
    /\ truncated = FALSE
    /\ parsed = <<>>
    /\ pstatus = "up"

ParserNext == (\E n \in 1 .. MAXMSG : Recv(n)) \/ Line \/ Rest \/ HangUp

---------------------------------------------------------------------------
(* Properties, against what was sent. *)

(* The places of CR in the CRLFs of what was received, in order. *)
LineEnds ==
    SetToSortSeq({i \in 1 .. pos - 1 : input[i] = CR /\ input[i + 1] = LF}, <)

StartOf(k) == IF k = 1 THEN 1 ELSE LineEnds[k - 1] + 2

SentLine(k) == SubSeq(input, StartOf(k), LineEnds[k] - 1)

(* What has come after the last complete line. *)
SentTail == SubSeq(input, StartOf(Len(LineEnds) + 1), pos)

LinesFit ==
    /\ \A k \in 1 .. Len(LineEnds) : Len(SentLine(k)) <= MAXMSG - 2
    /\ Len(SentTail) < MAXMSG

(* However recv() cuts up what a client sends, if its lines are not too    *)
(* long parse() is called once for each of them, in order, with the whole  *)
(* line if its CRLF came in one piece; what is not a line yet is kept; and *)
(* the thread does not crash.                                              *)
LinesKept ==
    LinesFit /\ at = "recv" =>
        /\ pstatus # "crashed"
        /\ pstatus = "up" =>
             /\ Len(parsed) = Len(LineEnds)
             /\ \A k \in 1 .. Len(parsed) :
                    LineEnds[k] \notin cuts => parsed[k] = SentLine(k)
             /\ msg = SentTail
             /\ ~truncated

(* "procedure to deal with \r\n split across messages" (parser.c:72): lines *)
(* are whole wherever recv() ends.  The code cuts msg two characters short *)
(* where only the CR is to be removed.                                     *)
SplitLinesWhole ==
    LinesFit /\ at = "recv" /\ pstatus = "up" =>
        \A k \in 1 .. Len(LineEnds) : parsed[k] = SentLine(k)

(* The first place at which a trailing parameter begins. *)
TrailingAt(m) ==
    {i \in 1 .. Len(m) : /\ m[i] = COLON
                         /\ i = 1 \/ m[i - 1] = SPACE
                         /\ \A j \in 1 .. i - 1 :
                               m[j] # COLON \/ (j > 1 /\ m[j - 1] # SPACE)}

(* Spaces separate parameters up to the trailing one, which is the rest. *)
IsSplitOf(p, m) ==
    LET t == TrailingAt(m)
        head == IF t = {} THEN m ELSE FirstOf(m, (CHOOSE i \in t : TRUE) - 1)
        joined == FoldLeft(LAMBDA a, b : a \o <<SPACE>> \o b, Head(p), Tail(p))
    IN  /\ joined = m
        /\ Len(p) = 1 + Cardinality({i \in 1 .. Len(head) : head[i] = SPACE})

(* parse() cuts every message it is given into the parameters it has: put  *)
(* together again they are the message, and a colon ends the cutting only  *)
(* at the start of a parameter.                                            *)
ParamsKept == \A k \in 1 .. Len(parsed) : IsSplitOf(Params(parsed[k]), parsed[k])
===========================================================================
