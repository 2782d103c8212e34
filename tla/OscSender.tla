------------------------------- MODULE OscSender -------------------------------
(***************************************************************************)
(* The terminal emulator rf talks to, as a sender of files (external;      *)
(* modelled from the packages rf sends and expects, and from how sf sends  *)
(* a file).  Its user takes time to choose the files and may cancel.       *)
(***************************************************************************)
EXTENDS OscLine

CONSTANTS
    Batches,   \* the sequences of files its user may choose
    Length,    \* Length[f]: bytes of file f
    SBlock,    \* bytes of a FileContent package
    Troubles   \* what may disturb the session, once: "beat", "cancel", "damage"

VARIABLES
    phase,     \* "ready", "choosing", "offered", "sending", "complete", "over"
    left,      \* the files still to be announced
    offer,     \* the file announced last
    at,        \* the position it sends from
    done,      \* the files rf acknowledged
    trouble    \* what has disturbed the session, or "none"

senderVars == <<phase, left, offer, at, done, trouble>>

SenderInit ==
    /\ phase = "ready" /\ left \in Batches /\ offer = 0 /\ at = 0
    /\ done = {} /\ trouble = "none"

About(type, f) == [type |-> type, id |-> f]

GetsInitReq ==
    /\ Gets({"InitReq"})
    /\ Says(<<Plain("InitRsp")>>)
    /\ UNCHANGED senderVars

GetsInitRecv ==
    /\ Gets({"InitRecv"})
    /\ phase' = IF phase = "ready" THEN "choosing" ELSE phase
    /\ UNCHANGED <<toProgram, left, offer, at, done, trouble>>

Announce ==
    /\ phase = "choosing" /\ left # <<>>
    /\ phase' = "offered" /\ offer' = Head(left) /\ left' = Tail(left)
    /\ Says(<<Plain("EmptyDir"), About("FileInfo", offer')>>)
    /\ UNCHANGED <<toTerminal, at, done, trouble>>

\* A sound part is resumed; a whole file is complete at once.
GetsFileProposeStart ==
    LET p   == Head(toTerminal)
        pos == IF p.sound /\ p.len <= Length[p.id] THEN p.len ELSE 0
    IN
    /\ Gets({"FileProposeStart"})
    /\ IF phase # "offered" THEN UNCHANGED <<toProgram, phase, at>>
       ELSE IF pos = Length[p.id]
       THEN Says(<<About("FileComplete", p.id)>>) /\ phase' = "complete" /\ UNCHANGED at
       ELSE /\ Says(<<[type |-> "FileInitPos", id |-> p.id, pos |-> pos]>>)
            /\ phase' = "sending" /\ at' = pos
    /\ UNCHANGED <<left, offer, done, trouble>>

\* One block; the last one is followed by FileComplete.
SendBlock ==
    LET len == Min({SBlock, Length[offer] - at})
        content == [type |-> "FileContent", id |-> offer, pos |-> at, len |-> len,
                    intact |-> TRUE]
    IN
    /\ phase = "sending"
    /\ at' = at + len
    /\ IF at' = Length[offer]
       THEN Says(<<content, About("FileComplete", offer)>>) /\ phase' = "complete"
       ELSE Says(<<content>>) /\ UNCHANGED phase
    /\ UNCHANGED <<toTerminal, left, offer, done, trouble>>

GetsFileCompleteAck ==
    /\ Gets({"FileCompleteAck"})
    /\ done' = done \cup {Head(toTerminal).id}
    /\ phase' = IF phase = "complete" THEN "choosing" ELSE phase
    /\ UNCHANGED <<toProgram, left, offer, at, trouble>>

\* The last file was acknowledged.
Finish ==
    /\ phase = "choosing" /\ left = <<>>
    /\ phase' = "over"
    /\ Says(<<Plain("Bye")>>)
    /\ UNCHANGED <<toTerminal, left, offer, at, done, trouble>>

GetsBye ==
    /\ Gets({"Bye"})
    /\ phase' = "over"
    /\ Says(<<Plain("ByeBye")>>)
    /\ UNCHANGED <<left, offer, at, done, trouble>>

GetsOther ==
    /\ Gets({"SetClientWorkingDir", "ByeBye"})
    /\ UNCHANGED <<toProgram, senderVars>>

\* The session is disturbed by t, and by nothing else.
Disturbed(t) ==
    /\ t \in Troubles /\ trouble = "none" /\ phase # "over"
    /\ trouble' = t

Cancel ==
    /\ Disturbed("cancel")
    /\ phase' = "over"
    /\ Says(<<Plain("ErrMsg"), Plain("Bye")>>)
    /\ UNCHANGED <<toTerminal, left, offer, at, done>>

Heartbeat ==
    /\ Disturbed("beat")
    /\ Says(<<Plain("Heartbeat")>>)
    /\ UNCHANGED <<toTerminal, phase, left, offer, at, done>>

\* What damage makes of a package: one that does not decode or, of a block, one
\* whose content is not the one its crc32 was computed of.  (A changed number in
\* a package that still decodes is left out: nothing guards them.)
Damaged(p) ==
    {Plain("Broken")} \cup (IF p.type = "FileContent" THEN {[p EXCEPT !.intact = FALSE]} ELSE {})

\* The next package rf reads is damaged.
Damage ==
    /\ Disturbed("damage") /\ toProgram # <<>>
    /\ \E p \in Damaged(Head(toProgram)) : toProgram' = <<p>> \o Tail(toProgram)
    /\ UNCHANGED <<toTerminal, phase, left, offer, at, done>>

SenderStep ==
    \/ GetsInitReq \/ GetsInitRecv \/ Announce \/ GetsFileProposeStart \/ SendBlock
    \/ GetsFileCompleteAck \/ Finish \/ GetsBye \/ GetsOther
Disturbance == Cancel \/ Heartbeat \/ Damage
=============================================================================
