------------------------------ MODULE RfSession ------------------------------
(***************************************************************************)
(* rf: OscSession with the files it receives and the disk it writes them   *)
(* to.  A file is known by the number the terminal gives it.  What there   *)
(* is of a file is its length and whether it is sound, a prefix of the     *)
(* file the terminal has; what still waits in the stream counts as on the  *)
(* disk.  (A disk that fails may lose it when the stream is closed: the    *)
(* file is shorter then, and rf does not open it again.)                   *)
(***************************************************************************)
EXTENDS OscSession

CONSTANTS
    Files,      \* the files the terminal may send
    Size,       \* Size[f]: the length it announces for f
    OnDisk      \* what the disk may hold before, each [f |-> [len, sound]]

ASSUME RfAssumption ==
    /\ Size \in [Files -> Nat]
    /\ OnDisk \subseteq [Files -> [len : Nat, sound : BOOLEAN]]
    /\ States = RfStates /\ Table = RfTable
    /\ FirstState = "INIT_STATE" /\ LastState = "DESTROY_STATE"

VARIABLES
    zmodemFileMapM,  \* the files announced and not complete: [pos, open]
    disk,            \* disk[f]: what is stored of f, [len, sound]
    diskFails        \* opening and writing may fail

fileVars == <<zmodemFileMapM, disk, diskFails>>
rfVars   == <<oscVars, fileVars>>

RfInit ==
    /\ OscInit
    /\ zmodemFileMapM = <<>> /\ disk \in OnDisk /\ diskFails \in BOOLEAN

P == Head(bufferM)
Known == P.id \in DOMAIN zmodemFileMapM

Announced(f) ==
    [g \in DOMAIN zmodemFileMapM \cup {f} |->
        IF g = f THEN [pos |-> 0, open |-> FALSE] ELSE zmodemFileMapM[g]]
Forgetting(f) == [g \in DOMAIN zmodemFileMapM \ {f} |-> zmodemFileMapM[g]]

\* ZmodemFile::getExistLen, which gives up on a signal.
ExistLen(f) == IF signaled THEN 0 ELSE disk[f].len

-----------------------------------------------------------------------------
SendInitRecv ==
    /\ SendsAndReturns("sendInitRecv", TRUE, Plain("InitRecv"))
    /\ UNCHANGED fileVars

HandlesFileInfo ==
    /\ Parses("FileInfo")
    /\ IF Known THEN Refused /\ UNCHANGED <<toTerminal, zmodemFileMapM>>
       ELSE /\ Handled(<<>>)
            /\ zmodemFileMapM' = Announced(P.id)
            /\ Sends([type |-> "FileProposeStart", id |-> P.id, len |-> ExistLen(P.id),
                      sound |-> disk[P.id].sound])
    /\ UNCHANGED <<disk, diskFails>>

\* Mutant: a resumed file is truncated, and a new one is not.
OpenedFor(pos, had) == IF pos = 0 THEN had ELSE [len |-> 0, sound |-> TRUE]

\* ZmodemFile::openWrite to append, or from nothing.
Opened(pos, had) == IF pos > 0 THEN had ELSE [len |-> 0, sound |-> TRUE]

\* openWrite, and setWritePos to a position within the announced size.
HandlesFileInitPos ==
    /\ Parses("FileInitPos")
    /\ IF ~Known THEN Refused /\ UNCHANGED <<zmodemFileMapM, disk>>
       ELSE \E open \in {TRUE} \cup (IF diskFails THEN {FALSE} ELSE {}) :
              /\ Handled(<<>>)
              /\ disk' = IF open THEN [disk EXCEPT ![P.id] = Opened(P.pos, @)] ELSE disk
              /\ zmodemFileMapM' = [zmodemFileMapM EXCEPT ![P.id] =
                     [pos |-> IF P.pos > Size[P.id] THEN @.pos ELSE P.pos, open |-> open]]
    /\ UNCHANGED <<toTerminal, diskFails>>

\* The file after n bytes of the package were written to its stream.
Extended(had, n) ==
    [len |-> had.len + n, sound |-> had.sound /\ (n > 0 => P.pos = had.len /\ P.intact)]

\* How many bytes of the package may be written.
Writes(file) ==
    IF ~file.open THEN {0} ELSE IF diskFails THEN 0..P.len ELSE {P.len}

\* Mutant: the offset of the package is not compared with the position.
OffsetIgnored(file) == TRUE

Expected(file) == file.pos = P.pos

\* Mutant: the checksum is not compared with the content.
CrcIgnored == TRUE

\* The content is the one crc32 was computed of.
CrcMatches == P.intact

\* A block at another place or with another content than it was sent with is
\* refused.  A write that fails leaves the position, and nothing else is done
\* about it.
HandlesFileContent ==
    LET file == zmodemFileMapM[P.id] IN
    /\ Parses("FileContent")
    /\ IF ~Known \/ ~Expected(file) \/ ~CrcMatches
       THEN Refused /\ UNCHANGED <<zmodemFileMapM, disk>>
       ELSE \E n \in Writes(file) :
              /\ Handled(<<>>)
              /\ disk' = [disk EXCEPT ![P.id] = Extended(@, n)]
              /\ zmodemFileMapM' = [zmodemFileMapM EXCEPT ![P.id].pos =
                                       IF n = P.len THEN @ + n ELSE @]
    /\ UNCHANGED <<toTerminal, diskFails>>

\* It is acknowledged however much of it was written.
HandlesFileComplete ==
    /\ Parses("FileComplete")
    /\ IF ~Known THEN Refused /\ UNCHANGED <<toTerminal, zmodemFileMapM>>
       ELSE /\ Handled(<<>>)
            /\ Sends([type |-> "FileCompleteAck", id |-> P.id])
            /\ zmodemFileMapM' = Forgetting(P.id)
    /\ UNCHANGED <<disk, diskFails>>

SessionFunction ==
    \/ CommonFunction /\ UNCHANGED fileVars
    \/ SendInitRecv \/ HandlesFileInfo \/ HandlesFileInitPos
    \/ HandlesFileContent \/ HandlesFileComplete

ThreadStep == (EngineStep /\ UNCHANGED fileVars) \/ SessionFunction
=============================================================================
