------------------------------ MODULE SzSession ------------------------------
(***************************************************************************)
(* sz: ZmodemSession with the session functions only the table of          *)
(* SzSession::getZmodemFsm names, the files still to be sent and the file  *)
(* being sent.                                                             *)
(***************************************************************************)
EXTENDS ZmodemSession

CONSTANTS
    Files,        \* the files named on the command line
    NoFile,       \* the null pointer
    FileList,     \* the files in the order of filesM
    Size,         \* Size[f]: bytes of file f
    Large,        \* the files of 4 GB or more
    Block         \* bytes of a data subpacket (1024 in the code)

ASSUME SzAssumption ==
    /\ NoFile \notin Files
    /\ FileList \in Seq(Files) /\ Size \in [Files -> Nat] /\ Large \subseteq Files
    /\ Block \in Nat \ {0}
    /\ FirstEvent = "SEND_FILE_EVT"
    /\ States = SzStates /\ Table = SzTable
    /\ FirstState = "IDLE_STATE" /\ LastState = "DESTROY_STATE"

VARIABLES
    filesM,       \* the files still to be offered; the last one is next
    zmodemFileM,  \* the file offered or sent
    posM,         \* its read position
    stream        \* its fstream: "closed", "good", or at the "end"

fileVars == <<filesM, zmodemFileM, posM, stream>>
szVars   == <<sessionVars, fileVars>>

Positions == 0..IF zmodemFileM = NoFile THEN 0 ELSE Size[zmodemFileM]

SzTypeOK ==
    /\ SessionTypeOK
    /\ filesM \in Seq(Files) /\ zmodemFileM \in Files \cup {NoFile}
    /\ posM \in Positions /\ stream \in {"closed", "good", "end"}

\* main: the files are handed over, SEND_FILE_EVT is queued (SzSession::sz).
SzInit ==
    /\ SessionInit
    /\ filesM = FileList /\ zmodemFileM = NoFile /\ posM = 0 /\ stream = "closed"

-----------------------------------------------------------------------------
SendZrqinit ==
    /\ Running("sendZrqinit")
    /\ IF filesM = <<>>
       THEN ReturnsPosting("DESTROY_EVT") /\ UNCHANGED wireVars
       ELSE Returns /\ Sends(<<Frame("ZRQINIT", 0)>>)
    /\ UNCHANGED <<fileVars, inputVars, signaled>>

\* Mutant: the file offered first is never replaced.
SendZfileKeepsFile ==
    /\ Running("sendZfile")
    /\ IF inputFrameM.type # "ZRINIT" \/ filesM = <<>>
       THEN ReturnsPosting("DESTROY_EVT") /\ UNCHANGED <<wireVars, fileVars>>
       ELSE /\ zmodemFileM' = IF zmodemFileM = NoFile THEN Last(filesM) ELSE zmodemFileM
            /\ filesM' = Front(filesM)
            /\ posM' = 0 /\ stream' = "closed"
            /\ Returns
            /\ Sends(<<Frame("ZFILE", Last(filesM))>>)
    /\ UNCHANGED <<inputVars, signaled>>

SendZfile ==
    /\ Running("sendZfile")
    /\ IF inputFrameM.type # "ZRINIT" \/ filesM = <<>>
       THEN ReturnsPosting("DESTROY_EVT") /\ UNCHANGED <<wireVars, fileVars>>
       ELSE /\ zmodemFileM' = Last(filesM) /\ filesM' = Front(filesM)
            /\ posM' = 0 /\ stream' = "closed"
            /\ IF Last(filesM) \in Large /\ inputFrameM.arg = 0
               THEN ReturnsPosting("DESTROY_EVT") /\ UNCHANGED wireVars
               ELSE Returns /\ Sends(<<Frame("ZFILE", Last(filesM))>>)
    /\ UNCHANGED <<inputVars, signaled>>

\* Mutant: the CRC is not compared.
ValidLenAnyCrc(held) ==
    IF held.len > Size[zmodemFileM] \/ signaled THEN 0 ELSE held.len

\* ZmodemFile::validateFileCrc of what the peer says it has of the file.
ValidLen(held) ==
    IF held.len > Size[zmodemFileM] \/ ~held.sound \/ signaled THEN 0 ELSE held.len

\* Mutant: setReadPos does not open the file.
OpenedNever == stream

\* ZmodemFile::setReadPos opens the file, and seeks to a position within it.
Opened == IF stream = "closed" THEN "good" ELSE stream
Sought(pos) == IF pos > Size[zmodemFileM] THEN posM ELSE pos

\* The answers to a ZFILE frame.  The string of a ZCOMMAND must follow it in
\* the buffer: else the function returns and leaves the rest to parseFrame.
HandleZfileRsp ==
    LET pos == inputFrameM.arg IN
    /\ Running("handleZfileRsp")
    /\ \/ /\ zmodemFileM = NoFile \/ inputFrameM.type \notin {"ZSKIP", "ZCOMMAND", "ZRPOS"}
          /\ ReturnsPosting("DESTROY_EVT")
          /\ UNCHANGED <<wireVars, posM, stream, bufferM>>
       \/ /\ zmodemFileM # NoFile /\ inputFrameM.type = "ZSKIP"
          /\ ReturnsPosting("SKIP_EVT")
          /\ UNCHANGED <<wireVars, posM, stream, bufferM>>
       \/ /\ zmodemFileM # NoFile /\ inputFrameM.type = "ZCOMMAND"
          /\ Returns
          /\ IF bufferM # <<>> /\ Head(bufferM).type = "DATA"
             THEN Sends(<<Frame("ZACK", ValidLen(Head(bufferM)))>>) /\ bufferM' = Tail(bufferM)
             ELSE UNCHANGED <<wireVars, bufferM>>
          /\ UNCHANGED <<posM, stream>>
       \/ /\ zmodemFileM # NoFile /\ inputFrameM.type = "ZRPOS"
          /\ posM' = Sought(pos) /\ stream' = Opened
          /\ Sends(<<Frame("ZDATA", pos)>>)
          /\ ReturnsPosting("SEND_ZDATA_EVT")
          /\ UNCHANGED bufferM
    /\ UNCHANGED <<filesM, zmodemFileM, inputFrameM, signaled>>

\* Mutant: the bytes asked for, not the bytes read.
ReadLenAsked == IF stream = "good" THEN Block ELSE 0

\* ZmodemFile::read of at most Block bytes.
ReadLen == IF stream = "good" THEN Min({Block, Size[zmodemFileM] - posM}) ELSE 0

\* Sends one subpacket, and ZEOF after the last one.  isGood is called once to
\* choose the end of the subpacket and once more to see whether to go on; a
\* signal may arrive in between.
SendZdata ==
    LET len  == ReadLen
        more == stream = "good" /\ posM + Block <= Size[zmodemFileM]
        Data(end) == Subpacket(posM, len, end)
    IN
    /\ Running("sendZdata")
    /\ posM' = posM + len
    /\ stream' = IF stream = "good" /\ ~more THEN "end" ELSE stream
    /\ signaled' \in {signaled, signaled \/ Signals}
    /\ LET data == <<Data(IF more /\ ~signaled THEN "ZCRCG" ELSE "ZCRCE")>> IN
       IF more /\ ~signaled'
       THEN ReturnsPosting("SEND_ZDATA_EVT") /\ Sends(data)
       ELSE /\ Returns
            /\ \E sent \in Written(data, signaled), eof \in Written(<<Frame("ZEOF", posM')>>, signaled') :
                   toTerminal' = toTerminal \o sent \o eof
            /\ UNCHANGED toProgram
    /\ UNCHANGED <<filesM, zmodemFileM, inputVars>>

SessionFunction ==
    \/ CommonFunction /\ UNCHANGED fileVars
    \/ SendZrqinit \/ SendZfile \/ HandleZfileRsp \/ SendZdata

ThreadStep == (EngineStep /\ UNCHANGED fileVars) \/ SessionFunction
=============================================================================
