------------------------------ MODULE ZmodemWire ------------------------------
(***************************************************************************)
(* The terminal line between a program and the ZMODEM peer behind its      *)
(* standard input and output, and what parseFrame makes of the bytes that  *)
(* arrived.  A token is a frame header, a data subpacket, the subpacket of *)
(* a ZFILE header, or a letter "O" of the farewell.  A read may end inside *)
(* a header or a subpacket: its first bytes are then a "part" token of the *)
(* buffer, and the bytes still to come a "rest" token of the line.  A      *)
(* header the data parser has run over is "torn".                          *)
(***************************************************************************)
EXTENDS Naturals, Sequences, SequencesExt

VARIABLES
    toProgram,   \* tokens written by the peer and not read by the program
    toTerminal   \* tokens written by the program and not read by the peer

wireVars == <<toProgram, toTerminal>>

\* Mutant: ZCOMMAND is not a frame the program knows.
HeaderTypesWithoutCommand ==
    {"ZRQINIT", "ZRINIT", "ZACK", "ZFILE", "ZSKIP", "ZFIN", "ZRPOS", "ZDATA",
     "ZEOF", "ZCOMPL", "ZHEARTBEAT"}

HeaderTypes ==
    {"ZRQINIT", "ZRINIT", "ZACK", "ZFILE", "ZSKIP", "ZFIN", "ZRPOS", "ZDATA",
     "ZEOF", "ZCOMPL", "ZCOMMAND", "ZHEARTBEAT"}

\* A header with the position, the version or the file its flag bytes (and,
\* for ZFILE, its subpacket) carry.
Frame(type, arg) == [type |-> type, arg |-> arg]

\* A data subpacket: len bytes of the file from offset from, ended by ZCRCG or
\* ZCRCE (send_zsda32).
Subpacket(from, len, end) == [type |-> "DATA", from |-> from, len |-> len, end |-> end]

\* The subpacket of a ZFILE header: the name and the length of file f.
NameOf(f) == [type |-> "NAME", arg |-> f]

Farewell == <<[type |-> "O"], [type |-> "O"]>>

Part(token) == [type |-> "part", arg |-> token]
Torn(token) == [type |-> "torn", arg |-> token]
RestOfToken == [type |-> "rest"]

TokenTypes == HeaderTypes \cup {"DATA", "NAME", "O", "part", "torn"}

WireInit == toProgram = <<>> /\ toTerminal = <<>>

-----------------------------------------------------------------------------
\* The buffer after the bytes of the tokens ts were added to it: the rest of a
\* token completes its part if the part is still there, else it is noise.
Received(buffer, ts) ==
    IF ts = <<>> \/ Head(ts).type # "rest" THEN buffer \o ts
    ELSE IF buffer # <<>> /\ Last(buffer).type = "part"
         THEN Front(buffer) \o <<Last(buffer).arg>> \o Tail(ts)
         ELSE buffer \o Tail(ts)

\* What one read of standard input may take off the line: the tokens that have
\* arrived, the last of them a token of which only a part has.
Reads(line) ==
    {[taken |-> SubSeq(line, 1, n), left |-> SubSeq(line, n + 1, Len(line))] :
        n \in 1..Len(line)}
    \cup {[taken |-> Append(SubSeq(line, 1, n - 1), Part(line[n])),
           left  |-> <<RestOfToken>> \o SubSeq(line, n + 1, Len(line))] :
        n \in {k \in 1..Len(line) : line[k].type \in HeaderTypes \cup {"DATA", "NAME"}}}

\* The token at which parseFrame stops skipping: the first with a ZPAD.
HasPad(t) == t.type \in HeaderTypes
             \/ (t.type \in {"part", "torn"} /\ t.arg.type \in HeaderTypes)
PadAt(buffer) == SelectInSeq(buffer, HasPad)

\* What a call of parseFrame may find in the buffer when the last frame it
\* parsed is frame: the farewell, no frame, a frame (a heartbeat or not), a
\* format error or, for a header that is not all there yet, either nothing or
\* an error.  The bytes it skipped or began to parse are never looked at again.
Parsed(buffer, frame) ==
    LET i     == PadAt(buffer)
        after == SubSeq(buffer, i + 1, Len(buffer))
        Found(what, header, left) == [what |-> what, frame |-> header, left |-> left]
    IN  IF frame.type = "ZFIN" /\ buffer = Farewell
        THEN {Found("over", frame, buffer)}
        ELSE IF i = 0 THEN {Found("nothing", frame, <<>>)}
        ELSE CASE buffer[i].type = "part" -> {Found(w, frame, after) : w \in {"nothing", "error"}}
               [] buffer[i].type = "torn" -> {Found("error", frame, after)}
               [] buffer[i].type = "ZHEARTBEAT" -> {Found("heartbeat", buffer[i], after)}
               [] OTHER -> {Found("frame", buffer[i], after)}
=============================================================================
