------------------------------ MODULE SfSession ------------------------------
(***************************************************************************)
(* sf: OscSession with the files it sends.  A file is known by the number  *)
(* its constructor gives it, so zmodemFileMapM is read in that order.      *)
(***************************************************************************)
EXTENDS OscSession

CONSTANTS
    Files,      \* the numbers of the files named on the command line
    FileList,   \* these files in the order they were named, and numbered
    Size,       \* Size[f]: bytes of file f
    Block,      \* bytes of a FileContent package (4096 in the code)
    EmptyDirs   \* whether empty directories are sent

ASSUME SfAssumption ==
    /\ Files \subseteq Nat \ {0} /\ FileList \in Seq(Files)
    /\ \A i, j \in 1..Len(FileList) : i < j => FileList[i] < FileList[j]
    /\ Size \in [Files -> Nat] /\ Block \in Nat \ {0}
    /\ EmptyDirs \in BOOLEAN
    /\ States = SfStates /\ Table = SfTable

VARIABLES
    filesM,          \* the files not announced yet; the last one is next
    zmodemFileMapM   \* the files announced and not acknowledged: [pos, stream]

fileVars == <<filesM, zmodemFileMapM>>
sfVars   == <<oscVars, fileVars>>

SfInit ==
    /\ OscInit
    /\ filesM = FileList
    /\ zmodemFileMapM = <<>>

Known(f) == f \in DOMAIN zmodemFileMapM
Announced(f) ==
    [g \in DOMAIN zmodemFileMapM \cup {f} |->
        IF g = f THEN [pos |-> 0, stream |-> "closed"] ELSE zmodemFileMapM[g]]
Forgetting(f) == [g \in DOMAIN zmodemFileMapM \ {f} |-> zmodemFileMapM[g]]

-----------------------------------------------------------------------------
SendEmptyDirs ==
    /\ SendsAndReturns("sendEmptyDirs", EmptyDirs, Plain("EmptyDir"))
    /\ UNCHANGED fileVars

SendFileInfo ==
    /\ Running("sendFileInfo")
    /\ IF filesM = <<>>
       THEN ReturnsPosting("OK_EVT") /\ UNCHANGED <<toTerminal, fileVars>>
       ELSE /\ zmodemFileMapM' = Announced(Last(filesM))
            /\ filesM' = Front(filesM)
            /\ Sends([type |-> "FileInfo", id |-> Last(filesM)])
            /\ Returns
    /\ UNCHANGED <<toProgram, bufferM, signaled>>

\* Mutant: the CRC is not compared.
ValidLenAnyCrc(p) == IF p.len > Size[p.id] \/ signaled THEN 0 ELSE p.len

\* ZmodemFile::validateFileCrc of what the peer says it has of the file.
ValidLen(p) == IF p.len > Size[p.id] \/ ~p.sound \/ signaled THEN 0 ELSE p.len

\* A file of which nothing is to be sent is complete.
HandlesFileProposeStart ==
    LET p == Head(bufferM)
        pos == ValidLen(p)
    IN
    /\ Parses("FileProposeStart")
    /\ IF ~Known(p.id)
       THEN Handled(<<"RESET_EVT">>) /\ UNCHANGED <<toTerminal, zmodemFileMapM>>
       ELSE IF pos = Size[p.id]
       THEN /\ Handled(<<>>) /\ UNCHANGED zmodemFileMapM
            /\ Sends([type |-> "FileComplete", id |-> p.id])
       ELSE /\ Handled(<<"SEND_DATA_EVT">>)
            /\ zmodemFileMapM' = [zmodemFileMapM EXCEPT ![p.id] = [pos |-> pos, stream |-> "good"]]
            /\ Sends([type |-> "FileInitPos", id |-> p.id, pos |-> pos])
    /\ UNCHANGED filesM

\* The file after a read of Block bytes; a shorter read ends its stream.
AfterRead(file, f) ==
    [pos |-> file.pos + Min({Block, Size[f] - file.pos}),
     stream |-> IF file.pos + Block <= Size[f] THEN "good" ELSE "end"]

\* The first file that is good and not at its end has its next block sent; those
\* before it are found to be at their end.  isGood is called again afterwards,
\* and a signal may have arrived in between.
SendFileContent ==
    LET good   == {f \in DOMAIN zmodemFileMapM : zmodemFileMapM[f].stream = "good" /\ ~signaled}
        unread == {f \in good : zmodemFileMapM[f].pos < Size[f]}
        next   == Min(unread)
        tried  == IF unread = {} THEN good ELSE {f \in good : f <= next}
    IN
    /\ Running("sendFileContent")
    /\ signaled' \in {signaled, signaled \/ (Signals /\ unread # {})}
    /\ zmodemFileMapM' = [f \in DOMAIN zmodemFileMapM |->
                             IF f \in tried THEN AfterRead(zmodemFileMapM[f], f)
                             ELSE zmodemFileMapM[f]]
    /\ IF unread = {} THEN ReturnsPosting("NEXT_EVT") /\ UNCHANGED toTerminal
       ELSE LET file    == zmodemFileMapM[next]
                content == [type |-> "FileContent", id |-> next, pos |-> file.pos,
                            len |-> zmodemFileMapM'[next].pos - file.pos]
            IN  IF zmodemFileMapM'[next].stream = "good" /\ ~signaled'
                THEN ReturnsPosting("SEND_DATA_EVT") /\ toTerminal' = Append(toTerminal, content)
                ELSE /\ Returns
                     /\ \E sent \in Written(content, signaled'),
                           end \in Written([type |-> "FileComplete", id |-> next], signaled') :
                            toTerminal' = toTerminal \o sent \o end
    /\ UNCHANGED <<toProgram, bufferM, filesM>>

HandlesFileCompleteAck ==
    LET f == Head(bufferM).id IN
    /\ Parses("FileCompleteAck")
    /\ Handled(<<IF Known(f) THEN "NEXT_EVT" ELSE "RESET_EVT">>)
    /\ zmodemFileMapM' = Forgetting(f)
    /\ UNCHANGED <<toTerminal, filesM>>

SessionFunction ==
    \/ CommonFunction /\ UNCHANGED fileVars
    \/ SendEmptyDirs \/ SendFileInfo \/ SendFileContent
    \/ HandlesFileProposeStart \/ HandlesFileCompleteAck

ThreadStep == (EngineStep /\ UNCHANGED fileVars) \/ SessionFunction
=============================================================================
