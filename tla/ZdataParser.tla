------------------------------ MODULE ZdataParser ------------------------------
(***************************************************************************)
(* ZmodemSession::handleZdata byte by byte: the subpackets of one ZDATA    *)
(* frame are unescaped in place, in the input buffer, however the line     *)
(* cuts them into reads.  A step of the scan is one turn of its loop; the  *)
(* indices count from 0, as in the code.  RzSession has the same function  *)
(* as one step on whole subpackets.                                        *)
(*                                                                         *)
(* A byte is <<kind, n, i, flipped>>: its sixth bit can be flipped (^0x40) *)
(* and the CRC of subpacket n is four bytes named for it, which no other   *)
(* data has.                                                               *)
(***************************************************************************)
EXTENDS Naturals, Sequences, SequencesExt

CONSTANTS
    Frames,     \* what the sender may encode: sequences of subpackets
                \* [data, end, hidden], hidden the CRC bytes that are escaped
    Fragile,    \* the frames of which the line may change, lose or add a byte
    Block,      \* bytes of a full subpacket (1024 in the code)
    MaxEvents   \* bound: queued events at which no more input arrives

ASSUME ParserAssumption ==
    /\ Fragile \subseteq Frames /\ Block \in Nat \ {0} /\ MaxEvents \in Nat \ {0}

VARIABLES
    frame,      \* the one it sends
    line,       \* the bytes that have not arrived
    bufferM,    \* the bytes that have, up to bufferLenM; decodeIndexM is 0
    lastCheckExcapedM,       \* where the loop looks
    lastCheckExcapedSavedM,  \* where it puts the next byte of data
    dataCrcM,   \* the bytes the running CRC covers
    file,       \* what has been written
    acks,       \* the ZACK frames sent
    events,     \* queued NETWORK_INPUT_EVTs
    scanning,   \* handleZdata is running
    outcome     \* "data", or how the state is left: "next", "reset", "aborted"

indexVars == <<lastCheckExcapedM, lastCheckExcapedSavedM>>
vars == <<frame, line, bufferM, indexVars, dataCrcM, file, acks, events, scanning, outcome>>

-----------------------------------------------------------------------------
Ends == {"ZCRCE", "ZCRCG", "ZCRCQ", "ZCRCW"}
Byte == (Ends \cup {"data", "crc", "ZDLE", "XON", "ZPAD"}) \X Nat \X (0..4) \X BOOLEAN

Data(v)       == <<"data", v, 0, FALSE>>
CrcByte(n, i) == <<"crc", n, i, FALSE>>
Code(kind)    == <<kind, 0, 0, FALSE>>
ZDLE          == Code("ZDLE")
Flipped(b)    == <<b[1], b[2], b[3], ~b[4]>>

\* The CRC of a sequence of bytes, when it is that of a subpacket.
Crc(bytes) ==
    {[i \in 1..4 |-> CrcByte(n, i)] :
        n \in {m \in 1..Len(frame) : Append(frame[m].data, Code(frame[m].end)) = bytes}}

\* send_zsda32 of subpacket n of frame f.
Encoded(f, n) ==
    LET Escaped(b, does) == IF does THEN <<ZDLE, Flipped(b)>> ELSE <<b>>
        data == [i \in 1..Len(f[n].data) |-> Escaped(f[n].data[i], f[n].data[i] = ZDLE)]
        crc  == [i \in 1..4 |-> Escaped(CrcByte(n, i), i \in f[n].hidden)]
    IN  FlattenSeq(data) \o <<ZDLE, Code(f[n].end)>> \o FlattenSeq(crc)
        \o (IF f[n].end = "ZCRCW" THEN <<Code("XON")>> ELSE <<>>)

\* The first bytes of the header behind the frame.
Header  == <<Code("ZPAD"), ZDLE>>
Sent(f) == FlattenSeq([n \in 1..Len(f) |-> Encoded(f, n)]) \o Header

\* What a bad line may make of it.
Damaged(bytes) ==
    LET Odd   == {Data(0), ZDLE, Code("ZCRCE")}
        At(i) == {RemoveAt(bytes, i)} \cup {ReplaceAt(bytes, i, b) : b \in Odd}
                                     \cup {InsertAt(bytes, i, b) : b \in Odd}
    IN  UNION {At(i) : i \in 1..Len(bytes)}

ASSUME FramesAssumption == \A f \in Frames : Sent(f) \in Seq(Byte)

-----------------------------------------------------------------------------
bufferLenM == Len(bufferM)
ByteAt(i)  == bufferM[i + 1]

Init ==
    /\ frame \in Frames
    /\ line \in {Sent(frame)} \cup (IF frame \in Fragile THEN Damaged(Sent(frame)) ELSE {})
    /\ bufferM = <<>> /\ lastCheckExcapedM = 0 /\ lastCheckExcapedSavedM = 0
    /\ dataCrcM = <<>> /\ file = <<>> /\ acks = 0
    /\ events = 1 /\ scanning = FALSE /\ outcome = "data"

\* One read of the input callback.
Arrive ==
    /\ ~scanning /\ outcome = "data" /\ events < MaxEvents
    /\ \E n \in 1..Len(line) :
           /\ bufferM' = bufferM \o SubSeq(line, 1, n)
           /\ line' = SubSeq(line, n + 1, Len(line))
    /\ events' = events + 1
    /\ UNCHANGED <<frame, indexVars, dataCrcM, file, acks, scanning, outcome>>

\* HANDLE_ZDATA_STATE is entered (again).
Start ==
    /\ ~scanning /\ outcome = "data" /\ events > 0
    /\ scanning' = TRUE /\ events' = events - 1
    /\ UNCHANGED <<frame, line, bufferM, indexVars, dataCrcM, file, acks, outcome>>

\* The loop looks at a byte while there is one behind it.
Looking  == scanning /\ lastCheckExcapedM + 1 < bufferLenM
AtEscape == Looking /\ ByteAt(lastCheckExcapedM) = ZDLE

\* An escape may begin the end of a subpacket, of six bytes at least.
AtEnd(type) == AtEscape /\ lastCheckExcapedM + 6 <= bufferLenM
                        /\ ByteAt(lastCheckExcapedM + 1) = Code(type)

\* decodeCrc32 at index i: the bytes of the CRC and what they take of the
\* buffer, nothing when they are not all there.
DecodeCrc32(i) ==
    LET After(k) == k + (IF k < bufferLenM /\ ByteAt(k) = ZDLE THEN 2 ELSE 1)
        Value(k) == IF ByteAt(k) = ZDLE THEN Flipped(ByteAt(k + 1)) ELSE ByteAt(k)
        second   == After(i)
        third    == After(second)
        fourth   == After(third)
    IN  IF After(fourth) > bufferLenM THEN [bytes |-> <<>>, len |-> 0]
        ELSE [bytes |-> <<Value(i), Value(second), Value(third), Value(fourth)>>,
              len |-> After(fourth) - i]

\* Mutant: the CRC is not compared.
GoodCrcAny(type) == TRUE

RecvCrc       == DecodeCrc32(lastCheckExcapedM + 2)
GoodCrc(type) == RecvCrc.bytes \in Crc(Append(dataCrcM, Code(type)))

\* A byte of data is stored behind those before it and added to the CRC; it
\* took so many bytes of the buffer.
Keep(byte, took) ==
    /\ bufferM' = [bufferM EXCEPT ![lastCheckExcapedSavedM + 1] = byte]
    /\ dataCrcM' = Append(dataCrcM, byte)
    /\ lastCheckExcapedM' = lastCheckExcapedM + took
    /\ lastCheckExcapedSavedM' = lastCheckExcapedSavedM + 1
    /\ UNCHANGED <<frame, line, file, acks, events, scanning, outcome>>

PlainByte == Looking /\ ~AtEscape /\ Keep(ByteAt(lastCheckExcapedM), 1)

EscapedByte ==
    /\ AtEscape /\ lastCheckExcapedM + 6 <= bufferLenM
    /\ \A type \in Ends : ~AtEnd(type)
    /\ Keep(Flipped(ByteAt(lastCheckExcapedM + 1)), 2)

Return(how) ==
    /\ scanning' = FALSE /\ outcome' = how
    /\ UNCHANGED <<frame, line, bufferM, indexVars, dataCrcM, file, acks, events>>

WaitForEnd == AtEscape /\ lastCheckExcapedM + 6 > bufferLenM /\ Return("data")

WaitForCrc == \E type \in Ends : AtEnd(type) /\ RecvCrc.len = 0 /\ Return("data")

CrcError ==
    \E type \in Ends : AtEnd(type) /\ RecvCrc.len > 0 /\ ~GoodCrc(type) /\ Return("reset")

Good(type) == AtEnd(type) /\ RecvCrc.len > 0 /\ GoodCrc(type)

\* What the loop has stored since the buffer was last eaten.
Kept == SubSeq(bufferM, 1, lastCheckExcapedSavedM)

\* What eatBuffer leaves of the buffer behind a subpacket.
Eaten == SubSeq(bufferM, lastCheckExcapedM + RecvCrc.len + 3, bufferLenM)

\* Mutant: the running CRC is not reset.
ConsumeKeepsCrc(next) ==
    /\ file' = file \o Kept
    /\ bufferM' = Eaten
    /\ lastCheckExcapedM' = next /\ lastCheckExcapedSavedM' = next
    /\ UNCHANGED <<frame, line, dataCrcM>>

\* A good subpacket is written (RzSession has the write that fails), and the
\* loop is to look at the given index of the rest.
Consume(next) ==
    /\ file' = file \o Kept
    /\ bufferM' = Eaten
    /\ lastCheckExcapedM' = next /\ lastCheckExcapedSavedM' = next
    /\ dataCrcM' = <<>>
    /\ UNCHANGED <<frame, line>>

GoodZcrce ==
    /\ Good("ZCRCE")
    /\ Consume(0)
    /\ scanning' = FALSE /\ outcome' = "next"
    /\ UNCHANGED <<acks, events>>

\* Mutants: the rest of the buffer is left until more input arrives; an event
\* is queued for the subpacket and one for the rest.
GoodZcrcgQuiet ==
    /\ Good("ZCRCG") /\ Len(Kept) = Block
    /\ Consume(0)
    /\ scanning' = FALSE
    /\ UNCHANGED <<acks, events, outcome>>

GoodZcrcgTwice ==
    /\ Good("ZCRCG") /\ Len(Kept) = Block
    /\ Consume(0)
    /\ scanning' = FALSE /\ events' = events + 2
    /\ UNCHANGED <<acks, outcome>>

\* The next subpacket is left to another event.
GoodZcrcg ==
    /\ Good("ZCRCG") /\ Len(Kept) = Block
    /\ Consume(0)
    /\ scanning' = FALSE /\ events' = events + 1
    /\ UNCHANGED <<acks, outcome>>

\* assert(lastCheckExcapedSavedM - decodeIndexM == 1024).
AssertFails == Good("ZCRCG") /\ Len(Kept) # Block /\ Return("aborted")

\* An answer is sent and the loop goes on; its increment passes over the first
\* byte of the rest.
GoodZcrcqOrZcrcw ==
    /\ \E type \in {"ZCRCQ", "ZCRCW"} : Good(type)
    /\ Consume(1)
    /\ acks' = acks + 1
    /\ UNCHANGED <<events, scanning, outcome>>

\* The last byte is left for another call; there is nothing to eat.
LoopEnds == scanning /\ ~Looking /\ Return("data")

Scan ==
    \/ PlainByte \/ EscapedByte \/ WaitForEnd \/ WaitForCrc \/ CrcError
    \/ GoodZcrce \/ GoodZcrcg \/ AssertFails \/ GoodZcrcqOrZcrcw \/ LoopEnds

Next == Arrive \/ Start \/ Scan

Spec == Init /\ [][Next]_vars /\ WF_vars(Start \/ Scan) /\ WF_vars(Arrive)

-----------------------------------------------------------------------------
TypeOK ==
    /\ {line, bufferM, dataCrcM, file} \subseteq Seq(Byte)
    /\ {lastCheckExcapedM, lastCheckExcapedSavedM, acks} \subseteq Nat
    /\ events \in 0..MaxEvents
    /\ scanning \in BOOLEAN
    /\ outcome \in {"data", "next", "reset", "aborted"}

DataUpTo(n) == FlattenSeq([k \in 1..n |-> frame[k].data])

\* Decoding in place loses nothing, however the reads cut the escapes: what is
\* stored at the head of the buffer is what the running CRC covers, and the
\* loop stores behind where it looks (before it has answered with a ZACK, after
\* which it is off by one).
KeptIsCovered ==
    acks = 0 =>
        /\ lastCheckExcapedSavedM <= lastCheckExcapedM
        /\ lastCheckExcapedM <= bufferLenM
        /\ Kept = dataCrcM

\* Whatever the line does to a byte, what is written is the data of the frame,
\* a subpacket at a time, in order.
WritesSubpackets ==
    [][\A n \in 0..Len(frame) : file = DataUpTo(n) =>
           \/ file' = file
           \/ n < Len(frame) /\ file' = DataUpTo(n + 1)]_vars

\* The frames sendZdata sends: full subpackets that go on, and a last one.
Regular(f) ==
    \A n \in 1..Len(f) :
        IF n < Len(f) THEN f[n].end = "ZCRCG" /\ Len(f[n].data) = Block
        ELSE f[n].end = "ZCRCE"

\* A frame of sz that arrives undamaged is taken whole, without waiting for
\* bytes that belong to the next one, and the header behind it is left to
\* parseFrame, however the line cuts it into reads.
FrameIsTaken ==
    (Regular(frame) /\ line = Sent(frame)) =>
        <>(outcome = "next" /\ file = DataUpTo(Len(frame)) /\ bufferM \o line = Header)

\* "ZCRCQ: CRC next, frame continues, ZACK expected" (zmodem/zmodem.h:52): an
\* undamaged frame goes on behind its ZACK.
ContinuesAfterZack == (line = Sent(frame)) => [](outcome # "reset")
=============================================================================
