-------------------------------- MODULE Sender --------------------------------
(***************************************************************************)
(* The program at the other end of rz's terminal line: a terminal emulator *)
(* that sends files (external; modelled from what rz expects of it and     *)
(* from the diagrams of the README).  Its user takes time to choose the    *)
(* files; it answers the question whether the part on the server is sound  *)
(* as sz does; it ends the batch with or without ZCOMPL and says "OO", as  *)
(* its flavour has it.                                                     *)
(***************************************************************************)
EXTENDS ZmodemWire, FiniteSetsExt

CONSTANTS
    SFiles,    \* the files it has
    Batches,   \* the sequences of files its user may choose
    Length,    \* Length[f]: bytes of file f
    SBlock,    \* bytes of a data subpacket
    Flavours,  \* ways to behave, each [version, completes, farewell]
    MaxBeats   \* bound: heartbeats it sends

VARIABLES
    flavour,   \* its way to behave
    phase,     \* "ready", "choosing", "offered", "sending", "eof", "fin", "over"
    left,      \* the files still to be offered
    offer,     \* the file it offered last
    at,        \* the position it sends from
    done,      \* the files it knows to be received
    skipped,   \* the files rz did not want
    beats      \* heartbeats sent

senderVars == <<flavour, phase, left, offer, at, done, skipped, beats>>

SenderInit ==
    /\ flavour \in Flavours /\ phase = "ready"
    /\ left \in Batches /\ offer \in SFiles /\ at = 0
    /\ done = {} /\ skipped = {} /\ beats = 0

Says(ts) == toProgram' = toProgram \o ts

\* The next token is of the given type, and is taken off the line.
Gets(type) ==
    /\ toTerminal # <<>> /\ Head(toTerminal).type = type
    /\ toTerminal' = Tail(toTerminal)

\* The first one, or the one that says that a file was received.
GetsZrinit ==
    /\ Gets("ZRINIT")
    /\ phase' = IF phase \in {"ready", "eof"} THEN "choosing" ELSE phase
    /\ done' = IF phase = "eof" THEN done \cup {offer} ELSE done
    /\ UNCHANGED <<toProgram, flavour, left, offer, at, skipped, beats>>

\* While the user decides, before the first file.
Heartbeat ==
    /\ phase = "choosing" /\ done \cup skipped = {} /\ beats < MaxBeats
    /\ beats' = beats + 1
    /\ Says(<<Frame("ZHEARTBEAT", 0)>>)
    /\ UNCHANGED <<toTerminal, flavour, phase, left, offer, at, done, skipped>>

Offer ==
    /\ phase = "choosing" /\ left # <<>>
    /\ phase' = "offered" /\ offer' = Head(left) /\ left' = Tail(left)
    /\ Says(<<Frame("ZFILE", flavour.version), NameOf(Head(left))>>)
    /\ UNCHANGED <<toTerminal, flavour, at, done, skipped, beats>>

Finish ==
    /\ phase = "choosing" /\ left = <<>>
    /\ phase' = "fin"
    /\ Says((IF flavour.completes THEN <<Frame("ZCOMPL", 0)>> ELSE <<>>) \o <<Frame("ZFIN", 0)>>)
    /\ UNCHANGED <<toTerminal, flavour, left, offer, at, done, skipped, beats>>

\* ZmodemFile::validateFileCrc's answer; a question cut short gets none.
GetsQuestion ==
    LET asked == Head(toTerminal).arg = "check last break"
        held  == toTerminal[2]
    IN
    /\ toTerminal # <<>> /\ Head(toTerminal).type = "ZCOMMAND"
    /\ asked => Len(toTerminal) > 1
    /\ toTerminal' = IF asked /\ held.type = "DATA" THEN SubSeq(toTerminal, 3, Len(toTerminal))
                     ELSE Tail(toTerminal)
    /\ Says(IF asked /\ held.type = "DATA"
            THEN <<Frame("ZACK", IF held.sound /\ held.len <= Length[offer] THEN held.len ELSE 0)>>
            ELSE <<>>)
    /\ UNCHANGED senderVars

GetsZskip ==
    /\ Gets("ZSKIP")
    /\ phase' = "choosing" /\ skipped' = skipped \cup {offer}
    /\ UNCHANGED <<toProgram, flavour, left, offer, at, done, beats>>

GetsZrpos ==
    /\ Gets("ZRPOS")
    /\ phase' = "sending" /\ at' = Head(toTerminal).arg
    /\ Says(<<Frame("ZDATA", at')>>)
    /\ UNCHANGED <<flavour, left, offer, done, skipped, beats>>

\* One subpacket.  The last one is ZCRCE, whether it is short, full or empty,
\* and ZEOF follows.
SendBlock ==
    LET rest == Length[offer] - at
        len  == Min({SBlock, rest})
        Data(end) == [type |-> "DATA", of |-> offer, from |-> at, len |-> len, end |-> end]
    IN
    /\ phase = "sending"
    /\ at' = at + len
    /\ \/ /\ rest >= SBlock
          /\ Says(<<Data("ZCRCG")>>)
          /\ UNCHANGED phase
       \/ /\ rest <= SBlock
          /\ Says(<<Data("ZCRCE"), Frame("ZEOF", at')>>)
          /\ phase' = "eof"
    /\ UNCHANGED <<toTerminal, flavour, left, offer, done, skipped, beats>>

\* rz has answered the end of the batch, or gives up.
GetsZfin ==
    /\ Gets("ZFIN")
    /\ phase' = "over"
    /\ Says(CASE phase # "fin"        -> <<Frame("ZFIN", 0)>>
              [] flavour.farewell     -> Farewell
              [] OTHER                -> <<>>)
    /\ UNCHANGED <<flavour, left, offer, at, done, skipped, beats>>

\* The farewell; a question's string whose header was lost.
GetsOther(type) ==
    /\ Gets(type)
    /\ UNCHANGED <<toProgram, senderVars>>

SenderStep ==
    \/ GetsZrinit \/ Offer \/ Finish \/ GetsQuestion \/ GetsZskip
    \/ GetsZrpos \/ SendBlock \/ GetsZfin
    \/ GetsOther("O") \/ GetsOther("DATA")
=============================================================================
