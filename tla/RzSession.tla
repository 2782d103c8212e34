------------------------------ MODULE RzSession ------------------------------
(***************************************************************************)
(* rz: ZmodemSession with the session functions only the table of          *)
(* RzSession::getZmodemFsm names, the file being received and the disk it  *)
(* is written to.  What there is of a file is its length and whether it    *)
(* is sound, a prefix of the file the sender has.  The end of the open     *)
(* file may still be in the buffer of its stream, until that is closed.    *)
(***************************************************************************)
EXTENDS ZmodemSession

CONSTANTS
    Files,      \* the files a sender may offer
    NoFile,     \* the null pointer
    Size,       \* Size[f]: the length the sender announces for f
    OnDisk,     \* what the disk may hold before, each [f |-> [len, sound]]
    Chunk,      \* bytes the stream writes at once; fewer wait in its buffer
    DiskFails,  \* whether opening, writing and closing a file may fail
    Preset      \* whether files are preset on the command line

ASSUME RzAssumption ==
    /\ NoFile \notin Files /\ Size \in [Files -> Nat]
    /\ OnDisk \subseteq [Files -> [len : Nat, sound : BOOLEAN]]
    /\ \A d \in OnDisk : \A f \in Files : d[f].sound => d[f].len <= Size[f]
    /\ Chunk \in Nat \ {0} /\ {DiskFails, Preset} \subseteq BOOLEAN
    /\ FirstEvent = "ENTRY_EVT"
    /\ FirstState = "IDLE_STATE" /\ LastState = "DESTROY_STATE"
    /\ States = RzStates /\ Table = RzTable

VARIABLES
    zmodemFileM,   \* the file announced last
    peerVersionM,  \* ZVERSION of the sender
    posM,          \* write position of the file
    stream,        \* its fstream: "closed" or "open"
    disk,          \* disk[f]: what was written of f, [len, sound]
    tail,          \* how much of the end of it waits in the open stream
    lost,          \* the files closed without all that waited: nobody looks
    crcSound       \* dataCrcM belongs to the subpacket at the head of bufferM

fileVars == <<zmodemFileM, peerVersionM, posM, stream, disk, tail, lost, crcSound>>
rzVars   == <<sessionVars, fileVars>>

\* No file is longer than the sender has it, or the disk had it before.
Lengths == {n \in Nat : \E f \in Files : n <= Size[f] \/ \E d \in OnDisk : n <= d[f].len}

RzTypeOK ==
    /\ SessionTypeOK
    /\ zmodemFileM \in Files \cup {NoFile}
    /\ posM \in Lengths /\ stream \in {"closed", "open"}
    /\ disk \in [Files -> [len : Lengths, sound : BOOLEAN]]
    /\ tail \in Nat /\ lost \subseteq Files /\ crcSound \in BOOLEAN

\* main: the constructor has queued ENTRY_EVT.
RzInit ==
    /\ SessionInit
    /\ zmodemFileM = NoFile /\ peerVersionM = 0 /\ posM = 0 /\ stream = "closed"
    /\ disk \in OnDisk /\ tail = 0 /\ lost = {} /\ crcSound = TRUE

-----------------------------------------------------------------------------
\* The head of the buffer is the whole subpacket of the given type.
Ready(type) == bufferM # <<>> /\ Head(bufferM).type = type

\* What the data parsers may leave of the token t they run over without
\* finding the end of a subpacket: escapes are resolved in place, so a header
\* is torn; a part of one may be short enough to be left alone.
RunOver(t) ==
    CASE t.type \in HeaderTypes -> {Torn(t)}
      [] t.type = "part" /\ t.arg.type \in HeaderTypes -> {t, Torn(t.arg)}
      [] OTHER -> {t}

\* They are called on the tokens in the buffer, which do not begin with a whole
\* subpacket: the CRC of the next one is lost when a byte of a header was seen.
Swallows ==
    /\ bufferM' \in {b \in [1..Len(bufferM) -> UNION {RunOver(bufferM[i]) : i \in 1..Len(bufferM)}] :
                        \A i \in 1..Len(bufferM) : b[i] \in RunOver(bufferM[i])}
    /\ crcSound' \in IF \E i \in 1..Len(bufferM) : bufferM'[i].type = "torn" THEN {FALSE}
                     ELSE IF \E i \in 1..Len(bufferM) : HasPad(bufferM[i]) THEN {crcSound, FALSE}
                     ELSE {crcSound}

\* A subpacket behind a header they run over ends in a CRC error.
SwallowsToError == \E i \in 1..Len(bufferM) : bufferM[i].type \in {"DATA", "NAME"}

\* sendPresetFiles.
SendPresetFiles ==
    /\ Running("sendPresetFiles")
    /\ Sends(IF Preset THEN <<Frame("ZCOMMAND", "preset paths")>> ELSE <<>>)
    /\ Returns
    /\ UNCHANGED <<fileVars, inputVars, signaled>>

SendZrinit ==
    /\ Running("sendZrinit")
    /\ Sends(<<Frame("ZRINIT", 1)>>)
    /\ Returns
    /\ UNCHANGED <<fileVars, inputVars, signaled>>

\* What closing the stream may leave of the file: all of it, or less when what
\* waits cannot be written, which neither openWrite nor ~ZmodemFile looks at.
Cuts ==
    IF DiskFails /\ zmodemFileM # NoFile /\ stream = "open"
    THEN LET written == disk[zmodemFileM].len IN {n \in 0..written - 1 : written <= n + tail}
    ELSE {}
Closed ==
    {[disk |-> disk, lost |-> lost]} \cup
    {[disk |-> [disk EXCEPT ![zmodemFileM].len = n], lost |-> lost \cup {zmodemFileM}] : n \in Cuts}

\* Mutant: a file is never truncated.
OpenedAppending(had, f, resume) == had

\* The disk, had before, after file f was opened to be resumed or written anew.
Opened(had, f, resume) ==
    IF resume THEN had ELSE [had EXCEPT ![f] = [len |-> 0, sound |-> TRUE]]

Opens(had, f, resume) ==
    \/ stream' = "open" /\ disk' = Opened(had, f, resume)
    \/ DiskFails /\ stream' = "closed" /\ disk' = had

\* ZmodemFile::openWrite of file f, which closes an open stream and may fail.
OpenWrite(f, resume) ==
    \E c \in Closed :
        /\ Opens(c.disk, f, resume)
        /\ tail' = 0 /\ lost' = c.lost

\* ZmodemFile::getExistLen of a file the disk has so; it gives up on a signal.
ExistLen(had) == IF signaled THEN 0 ELSE had.len

\* sendZCommand: whether the part of a file on disk is sound, by length and CRC.
Question(had) ==
    <<Frame("ZCOMMAND", "check last break"),
      [type |-> "DATA", len |-> had.len, sound |-> had.sound]>>

\* The answers to a frame in SEND_ZRINIT_STATE or, after a skipped file,
\* WAIT_ZDATA_STATE.
HandleZfile ==
    LET f == Head(bufferM).arg IN
    /\ Running("handleZfile")
    /\ \/ /\ inputFrameM.type # "ZFILE"
          /\ ReturnsPosting(IF inputFrameM.type = "ZCOMPL" THEN "SKIP_EVT" ELSE "DESTROY_EVT")
          /\ UNCHANGED <<wireVars, fileVars, bufferM>>
       \/ /\ inputFrameM.type = "ZFILE" /\ ~Ready("NAME")
          /\ peerVersionM' = inputFrameM.arg
          /\ Swallows
          /\ IF SwallowsToError THEN ReturnsPosting("DESTROY_EVT") ELSE Returns
          /\ UNCHANGED <<wireVars, zmodemFileM, posM, stream, disk, tail, lost>>
       \/ /\ inputFrameM.type = "ZFILE" /\ Ready("NAME") /\ ~crcSound
          /\ peerVersionM' = inputFrameM.arg
          /\ ReturnsPosting("DESTROY_EVT")
          /\ UNCHANGED <<wireVars, zmodemFileM, posM, stream, disk, tail, lost, crcSound, bufferM>>
       \/ /\ inputFrameM.type = "ZFILE" /\ Ready("NAME") /\ crcSound
          /\ peerVersionM' = inputFrameM.arg
          /\ bufferM' = Tail(bufferM)
          /\ zmodemFileM' = f /\ posM' = 0
          /\ \E c \in Closed :
                /\ IF ExistLen(c.disk[f]) > 0 /\ peerVersionM' > 0
                   THEN /\ Sends(Question(c.disk[f]))
                        /\ stream' = "closed" /\ disk' = c.disk
                   ELSE Opens(c.disk, f, FALSE) /\ Sends(<<Frame("ZRPOS", 0)>>)
                /\ tail' = 0 /\ lost' = c.lost
          /\ ReturnsPosting("NEXT_EVT")
          /\ UNCHANGED crcSound
    /\ UNCHANGED <<inputFrameM, signaled>>

\* ZmodemFile::isGood of a file whose writes have not failed.
IsGood == ~signaled /\ stream = "open"

\* Mutants: a resumed file is opened to be truncated; a file of which any sound
\* part exists is skipped.
StartsAtTruncating(pos) ==
    /\ OpenWrite(zmodemFileM, FALSE)
    /\ posM' = IF pos > 0 THEN pos ELSE posM
    /\ Sends(<<Frame("ZRPOS", posM')>>)

StartsAtSkips(pos) ==
    IF pos > 0 THEN Sends(<<Frame("ZSKIP", 0)>>) /\ UNCHANGED <<posM, stream, disk, tail, lost>>
    ELSE OpenWrite(zmodemFileM, FALSE) /\ Sends(<<Frame("ZRPOS", posM)>>) /\ UNCHANGED posM

\* A ZACK answers the question whether the part on disk is sound.  One that
\* comes when the file is open already, or claims more than the file has,
\* starts the file again, but not its position.
StartsAt(pos) ==
    CASE ~IsGood /\ pos < Size[zmodemFileM] ->
           /\ OpenWrite(zmodemFileM, pos > 0)
           /\ posM' = IF pos > 0 THEN pos ELSE posM
           /\ Sends(<<Frame("ZRPOS", posM')>>)
      [] ~IsGood /\ pos = Size[zmodemFileM] ->
           /\ Sends(<<Frame("ZSKIP", 0)>>)
           /\ UNCHANGED <<posM, stream, disk, tail, lost>>
      [] OTHER ->
           /\ OpenWrite(zmodemFileM, FALSE)
           /\ Sends(<<Frame("ZRPOS", posM)>>)
           /\ UNCHANGED posM

WaitZdata ==
    /\ Running("waitZdata")
    /\ \/ /\ inputFrameM.type = "ZDATA"
          /\ FuncReturns(fsmTimer, jobs, <<Call("handle", "NEXT_EVT")>>)
          /\ UNCHANGED <<wireVars, posM, stream, disk, tail, lost>>
       \/ /\ inputFrameM.type \notin {"ZDATA", "ZACK"}
          /\ ReturnsPosting(CASE inputFrameM.type = "ZFILE"  -> "SKIP_EVT"
                              [] inputFrameM.type = "ZCOMPL" -> "NETWORK_INPUT_EVT"
                              [] OTHER -> "DESTROY_EVT")
          /\ UNCHANGED <<wireVars, posM, stream, disk, tail, lost>>
       \/ /\ inputFrameM.type = "ZACK"
          /\ StartsAt(inputFrameM.arg)
          /\ Returns
    /\ UNCHANGED <<zmodemFileM, peerVersionM, crcSound, inputVars, signaled>>

-----------------------------------------------------------------------------
\* The file after n bytes of the subpacket data were written at its end.
Extended(had, data, n) ==
    [len   |-> had.len + n,
     sound |-> had.sound /\ (n > 0 => data.of = zmodemFileM /\ data.from = had.len)]

\* ZmodemFile::write: what may come of writing data.  tellp counts what waits in
\* the buffer, so less than a chunk, the end of a file, is written in any case.
Write(data) ==
    LET Wrote(ok, n, waits) == [ok |-> ok, pos |-> IF ok THEN posM + n ELSE posM,
                                file |-> Extended(disk[zmodemFileM], data, n), tail |-> waits]
    IN  IF stream # "open" THEN {Wrote(FALSE, 0, tail)}
        ELSE IF data.len < Chunk THEN {Wrote(TRUE, data.len, tail + data.len)}
        ELSE {Wrote(TRUE, data.len, 0)} \cup
             (IF DiskFails THEN {Wrote(FALSE, n, 0) : n \in 0..data.len - 1} ELSE {})

\* A good subpacket was written: the next one is looked for in a later call,
\* the end of the frame is handled at once.  (The code asserts that a ZCRCG
\* subpacket has 1024 bytes: ZdataParser.)
Ends(data) ==
    IF data.end = "ZCRCG" THEN ReturnsPosting("NETWORK_INPUT_EVT")
    ELSE FuncReturns(fsmTimer, jobs, <<Call("handle", "NEXT_EVT")>>)

HandleZdata ==
    LET data == Head(bufferM)
        Resets == FuncReturns(fsmTimer, jobs, <<Call("handle", "RESET_EVT")>>)
    IN
    /\ Running("handleZdata")
    /\ IF inputFrameM.type # "ZDATA"
       THEN ReturnsPosting("DESTROY_EVT") /\ UNCHANGED <<bufferM, posM, disk, tail, crcSound>>
       ELSE IF ~Ready("DATA")
       THEN /\ Swallows /\ UNCHANGED <<posM, disk, tail>>
            /\ IF SwallowsToError THEN Resets ELSE Returns
       ELSE IF ~crcSound THEN Resets /\ UNCHANGED <<bufferM, posM, disk, tail, crcSound>>
       ELSE \E w \in Write(data) :
                /\ posM' = w.pos /\ tail' = w.tail
                /\ disk' = [disk EXCEPT ![zmodemFileM] = w.file]
                /\ UNCHANGED crcSound
                /\ IF w.ok THEN bufferM' = Tail(bufferM) /\ Ends(data)
                   ELSE Resets /\ UNCHANGED bufferM
    /\ UNCHANGED <<wireVars, zmodemFileM, peerVersionM, stream, lost, inputFrameM, signaled>>

SessionFunction ==
    \/ CommonFunction /\ UNCHANGED fileVars
    \/ SendPresetFiles \/ SendZrinit \/ HandleZfile \/ WaitZdata \/ HandleZdata

\* ~ZmodemSession deletes the file, whose destructor closes the stream.
DeletesFile ==
    /\ \E c \in Closed : disk' = c.disk /\ lost' = c.lost
    /\ stream' = "closed" /\ tail' = 0
    /\ UNCHANGED <<zmodemFileM, peerVersionM, posM, crcSound>>

ThreadStep ==
    \/ EngineStep /\ IF deleted' = deleted THEN UNCHANGED fileVars ELSE DeletesFile
    \/ SessionFunction
=============================================================================
