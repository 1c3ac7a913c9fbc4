----------------------------- MODULE MCReaders -----------------------------
(* The programs that read lines from a stream: the parser of chirc over    *)
(* TCP, and the file-transfer client and server over mysock.  A behaviour  *)
(* exercises one of them.                                                  *)
EXTENDS Parser, FileTransfer

CONSTANTS
    MaxInput,     \* bound: what a chirc client sends
    MaxMessage    \* bound: messages with parameters

VARIABLE program

readerVars == <<parserVars, fileVars, program>>

(* Any mixture of a character and line ends, and any message with spaces   *)
(* and colons.                                                             *)
Lines == UNION {[1 .. n -> {"a", CR, LF}] : n \in 0 .. MaxInput}
Messages ==
    {m \o <<CR, LF>> :
        m \in UNION {[1 .. n -> {"a", SPACE, COLON}] : n \in 1 .. MaxMessage}}
ChircInputs == Lines \union Messages

OtherEnd(s) == IF s = "client" THEN "server" ELSE "client"

(* A file, an empty one that may grow, and one that is not there. *)
SomeNames == {<<"f", "1">>, <<"f", "2">>, <<"f", "3">>}
SomeChars ==
    {"f", "1", "2", "3", "x", "\r", "\n", COMMA, VERDICT} \union
    {ToString(n) : n \in -1 .. MaxLength}
SomeFiles == (<<"f", "1">> :> <<"x", "\r">>) @@ (<<"f", "2">> :> <<>>)

Init ==
    /\ program \in {"parser", "file transfer"}
    /\ ParserInit /\ (program = "file transfer" => input = <<>>)
    /\ FileInit

Next ==
    \/ /\ program = "parser"
       /\ ParserNext
       /\ UNCHANGED <<fileVars, program>>
    \/ /\ program = "file transfer"
       /\ FileNext
       /\ UNCHANGED <<parserVars, program>>

Spec == Init /\ [][Next]_readerVars /\ FileFairness
============================================================================
