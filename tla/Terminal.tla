------------------------------- MODULE Terminal -------------------------------
(***************************************************************************)
(* The program at the other end of sz's terminal line: a terminal emulator *)
(* that receives files (external; modelled from how sz and the README's    *)
(* diagrams use it, and from the resume rules rz applies to its own        *)
(* peers).  Its user may refuse a file, and takes time to answer; it keeps *)
(* what an earlier, broken transfer left of a file.                        *)
(***************************************************************************)
EXTENDS ZmodemWire

CONSTANTS
    TFiles,    \* the files it may be offered
    Holdings,  \* what it may have of the files, each [f |-> [len, sound]];
               \* sound if it is a prefix of f
    Length,    \* Length[f]: the length ZFILE announces for f
    Versions,  \* ZVERSIONs of its ZRINIT; 0 is a receiver without extensions
    MaxBeats   \* bound: heartbeats it sends

VARIABLES
    version, \* its ZVERSION
    phase,   \* "ready", "asked", "checking", "waiting", "receiving", "over"
    offer,   \* the file it was offered last
    store,   \* store[f]: what it has of f now, [len, sound]
    done,    \* the files it has closed as received
    refused, \* the files it has skipped
    beats    \* heartbeats sent

termVars == <<version, phase, offer, store, done, refused, beats>>

TerminalInit ==
    /\ phase = "ready" /\ offer \in TFiles
    /\ store \in Holdings /\ version \in Versions
    /\ done = {} /\ refused = {} /\ beats = 0

Replies(ts) == toProgram' = toProgram \o ts

\* The next token is of the given type, and is taken off the line.
Gets(type) ==
    /\ toTerminal # <<>> /\ Head(toTerminal).type = type
    /\ toTerminal' = Tail(toTerminal)

GetsZrqinit ==
    /\ Gets("ZRQINIT")
    /\ Replies(<<Frame("ZRINIT", version)>>)
    /\ phase' = "ready"
    /\ UNCHANGED <<offer, store, done, refused, beats>>

GetsZfile ==
    /\ Gets("ZFILE")
    /\ phase' = "asked" /\ offer' = Head(toTerminal).arg
    /\ UNCHANGED <<toProgram, store, done, refused, beats>>

\* While the user decides.
Heartbeat ==
    /\ phase = "asked" /\ beats < MaxBeats
    /\ beats' = beats + 1
    /\ Replies(<<Frame("ZHEARTBEAT", 0)>>)
    /\ UNCHANGED <<toTerminal, version, phase, offer, store, done, refused>>

Refuse ==
    /\ phase = "asked"
    /\ phase' = "ready" /\ refused' = refused \cup {offer}
    /\ Replies(<<Frame("ZSKIP", 0)>>)
    /\ UNCHANGED <<toTerminal, offer, store, done, beats>>

Starts(from) ==
    /\ phase' = "waiting"
    /\ store' = IF from = 0 THEN [store EXCEPT ![offer] = [len |-> 0, sound |-> TRUE]]
                ELSE store
    /\ Replies(<<Frame("ZRPOS", from)>>)

\* A new file, or a receiver that does not know how to resume.
Accept ==
    /\ phase = "asked" /\ (store[offer].len = 0 \/ version = 0)
    /\ Starts(0)
    /\ UNCHANGED <<toTerminal, offer, done, refused, beats>>

\* The length and the CRC of what it has of the file.
AskToResume ==
    /\ phase = "asked" /\ store[offer].len > 0 /\ version > 0
    /\ phase' = "checking"
    /\ Replies(<<Frame("ZCOMMAND", "check last break"),
                 [type |-> "DATA", len |-> store[offer].len, sound |-> store[offer].sound]>>)
    /\ UNCHANGED <<toTerminal, offer, store, done, refused, beats>>

GetsZack ==
    /\ Gets("ZACK")
    /\ IF phase # "checking" THEN UNCHANGED <<toProgram, phase, store, refused>>
       ELSE IF Head(toTerminal).arg = Length[offer] /\ Length[offer] > 0
       THEN /\ phase' = "ready" /\ refused' = refused \cup {offer}
            /\ Replies(<<Frame("ZSKIP", 0)>>)
            /\ UNCHANGED store
       ELSE Starts(Head(toTerminal).arg) /\ UNCHANGED refused
    /\ UNCHANGED <<offer, done, beats>>

\* Data at a position it did not ask for is asked for again.
GetsZdata ==
    /\ Gets("ZDATA")
    /\ IF phase = "waiting" /\ Head(toTerminal).arg = store[offer].len
       THEN phase' = "receiving" /\ UNCHANGED toProgram
       ELSE Replies(<<Frame("ZRPOS", store[offer].len)>>) /\ UNCHANGED phase
    /\ UNCHANGED <<offer, store, done, refused, beats>>

GetsSubpacket ==
    LET data == Head(toTerminal) IN
    /\ Gets("DATA")
    /\ IF phase = "receiving"
       THEN /\ store' = [store EXCEPT ![offer] =
                   [len |-> @.len + data.len, sound |-> @.sound /\ data.from = @.len]]
            /\ phase' = IF data.end = "ZCRCE" THEN "waiting" ELSE "receiving"
       ELSE UNCHANGED <<store, phase>>
    /\ UNCHANGED <<toProgram, offer, done, refused, beats>>

\* A ZEOF at another offset is ignored (doc/zmodem.txt:1231-1233).
GetsZeof ==
    /\ Gets("ZEOF")
    /\ IF phase = "waiting" /\ Head(toTerminal).arg = store[offer].len
       THEN /\ phase' = "ready" /\ done' = done \cup {offer}
            /\ Replies(<<Frame("ZRINIT", version)>>)
       ELSE UNCHANGED <<toProgram, phase, done>>
    /\ UNCHANGED <<offer, store, refused, beats>>

GetsZfin ==
    /\ Gets("ZFIN")
    /\ phase' = "over"
    /\ Replies(<<Frame("ZFIN", 0)>>)
    /\ UNCHANGED <<offer, store, done, refused, beats>>

\* The working directory, the farewell.
GetsOther(type) ==
    /\ Gets(type)
    /\ UNCHANGED <<toProgram, phase, offer, store, done, refused, beats>>

TerminalStep ==
    /\ \/ GetsZrqinit \/ GetsZfile \/ Refuse \/ Accept \/ AskToResume \/ GetsZack
       \/ GetsZdata \/ GetsSubpacket \/ GetsZeof \/ GetsZfin
       \/ GetsOther("ZCOMMAND") \/ GetsOther("O")
    /\ UNCHANGED version
=============================================================================
