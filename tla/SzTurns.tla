------------------------------- MODULE SzTurns --------------------------------
(***************************************************************************)
(* The integrity of the files.  sz and the terminal take turns: a turn is  *)
(* a request on its way to the terminal, a question to its user, an answer *)
(* on its way to sz, or a call or an event of sz that will end in the next *)
(* request.  There is one turn at most, and who has it knows what the      *)
(* other did last.  Once sz is about to end nobody relies on it any more.  *)
(***************************************************************************)
EXTENDS SzTransfer

AskTypes    == {"ZRQINIT", "ZFILE", "ZACK", "ZEOF"}
StreamTypes == {"ZDATA", "DATA", "ZEOF"}
AnswerTypes == {"ZRINIT", "ZSKIP", "ZRPOS", "ZCOMMAND", "ZFIN"}

Gone  == {"END_STATE", "DESTROY_STATE"}
Alive == curState \notin Gone

\* Events that are handled; ENTRY_EVT and EXIT_EVT only name lists of actions.
Handled == ZEvents \ {"ENTRY_EVT", "EXIT_EVT"}

\* What a turn of sz will end in: a new start ("again"), the answer to a frame
\* ("frame") or the next block ("data").
TurnOfEvent(e) ==
    CASE e \in {"SEND_FILE_EVT", "SKIP_EVT"} -> "again"
      [] e = "HANDLE_FRAME_EVT" -> "frame"
      [] e = "SEND_ZDATA_EVT" -> "data"
      [] OTHER -> "none"
TurnOfState(s) ==
    CASE s = "SEND_ZRQINIT_STATE" -> "again"
      [] s \in {"SEND_ZFILE_STATE", "HANDLE_ZFILE_RSP_STATE"} -> "frame"
      [] s = "SEND_ZDATA_STATE" -> "data"
      [] OTHER -> "none"
TurnOfFunc(f) ==
    CASE f = "sendZrqinit" -> "again"
      [] f \in {"sendZfile", "handleZfileRsp"} -> "frame"
      [] f = "sendZdata" -> "data"
      [] OTHER -> "none"
TurnOf(c) ==
    CASE c.op \in {"handle", "initialized"} -> TurnOfEvent(c.arg)
      [] c.op \in {"change", "enter"} -> TurnOfState(c.arg)
      [] c.op = "func" -> TurnOfFunc(c.arg)
      [] OTHER -> "none"

Called(k) == \E i \in 1..Len(agenda) : TurnOf(agenda[i]) = k
Queued(k) == \E i \in 1..Len(jobs) : TurnOfEvent(jobs[i]) = k
Turns     == {"again", "frame", "data"}
Has(k)    == Called(k) \/ Queued(k)
SzTurn    == \E k \in Turns : Has(k)

\* A call that may lead to another state, or to a function that has a turn.
Moves(c) ==
    \/ c.op \in {"handle", "initialized", "change", "enter"}
    \/ c.op = "func" /\ (c.arg = "parseFrame" \/ TurnOfFunc(c.arg) # "none")

\* Such a call is the last on the stack, but for arming the timer.
OneMove(calls) ==
    \A i, j \in 1..Len(calls) : i < j /\ Moves(calls[i]) => calls[j].op = "newTimer"

\* A call that may be on the stack in state s.
Fits(c, s, started) ==
    /\ c.op \in {"handle", "initialized"} => c.arg \in Handled
    /\ s \in Gone /\ c.op \in {"change", "enter"} => c.arg \in Gone
    /\ s \in Gone /\ c.op = "func" => TurnOfFunc(c.arg) = "none"
    /\ c.op = "func" /\ c.arg \in {"sendZfin", "sendOO"} => s \in Gone
    /\ c.op = "func" /\ c.arg = "sendClientWorkingDir" => s = "IDLE_STATE"
    /\ ~started /\ Moves(c) => c.op \in {"handle", "initialized"}
    /\ s = "IDLE_STATE" /\ Moves(c) => c.op # "func"
    /\ c.op \in {"change", "enter"} /\ c.arg = "IDLE_STATE" => s = "IDLE_STATE"

CallsInv ==
    /\ OneMove(agenda)
    /\ \A i \in 1..Len(agenda) : Fits(agenda[i], curState, initialized)
    /\ \A i \in 1..Len(jobs) : jobs[i] \in Handled \ {"HANDLE_FRAME_EVT"}
    /\ ~initialized => curState = "IDLE_STATE"

\* sz has one turn at most.
SzOne ==
    /\ \A i, j \in 1..Len(jobs) :
           TurnOfEvent(jobs[i]) # "none" /\ TurnOfEvent(jobs[j]) # "none" => i = j
    /\ \A k, l \in Turns : ~(Called(k) /\ Queued(l))

\* Tokens of some types in a sequence.
No(T, u)    == \A i \in 1..Len(u) : u[i].type \notin T
OneOf(T, u) == \A i, j \in 1..Len(u) : u[i].type \in T /\ u[j].type \in T => i = j

\* Where the file goes on behind a token of the stream.
End(t) == IF t.type = "ZDATA" THEN t.arg ELSE t.from + t.len
NoStreamBefore(u, i) == \A j \in 1..Len(u) : j < i => u[j].type \notin StreamTypes
NoStreamAfter(u, i)  == \A j \in 1..Len(u) : i < j => u[j].type \notin StreamTypes
Follows(u, i) == i > 1 /\ u[i - 1].type \in {"ZDATA", "DATA"}

\* What a request on its way says to the terminal, at its place.
Due(u, i) ==
    /\ u[i].type \in StreamTypes => /\ phase \in {"waiting", "receiving", "over"}
                                    /\ No({"ZRQINIT", "ZFILE", "ZACK"}, u)
    /\ u[i].type = "ZRQINIT" => phase \in {"ready", "over"}
    /\ u[i].type = "ZFILE" => phase \in {"ready", "over"} /\ u[i].arg = zmodemFileM
    /\ u[i].type = "ZACK" =>
           /\ phase \in {"checking", "over"}
           /\ phase = "checking" /\ u[i].arg # 0 =>
                  u[i].arg = store[offer].len /\ store[offer].sound /\ u[i].arg <= Size[offer]
    /\ u[i].type = "ZDATA" =>
           /\ NoStreamBefore(u, i)
           /\ phase = "over" \/ (phase = "waiting" /\ u[i].arg = store[offer].len)
    /\ u[i].type = "DATA" =>
           \/ Follows(u, i) /\ u[i].from = End(u[i - 1])
           \/ NoStreamBefore(u, i) /\ (phase = "receiving" => u[i].from = store[offer].len)
    /\ u[i].type = "ZEOF" => NoStreamAfter(u, i)

Requested(u) == OneOf(AskTypes, u) /\ \A i \in 1..Len(u) : Due(u, i)
RequestInv   == Requested(toTerminal)

PhaseInv ==
    /\ phase \in {"ready", "asked", "checking", "waiting", "receiving", "over"}
    /\ phase \in {"waiting", "receiving"} => store[offer].sound
    /\ phase \notin {"ready", "over"} => offer = zmodemFileM
    /\ done \subseteq Files /\ \A f \in done : store[f].sound
    /\ phase = "over" \/ ~No({"ZFIN"}, toTerminal) => ~Alive

Silent == No(StreamTypes \cup AskTypes, toTerminal)

\* Before the first request.
BootInv == curState = "IDLE_STATE" => phase = "ready" /\ Silent

\* The tokens on the line to sz and in its buffer, where they may be in part.
Core(t)    == IF t.type \in {"part", "torn"} THEN t.arg ELSE t
Lined      == {Core(bufferM[i]) : i \in 1..Len(bufferM)}
              \cup {Core(toProgram[i]) : i \in 1..Len(toProgram)}
LineNo(T)  == \A t \in Lined : t.type \notin T
LineOne(T) ==
    /\ \A i, j \in 1..Len(bufferM) :
           Core(bufferM[i]).type \in T /\ Core(bufferM[j]).type \in T => i = j
    /\ \A i, j \in 1..Len(toProgram) :
           Core(toProgram[i]).type \in T /\ Core(toProgram[j]).type \in T => i = j
    /\ \A i \in 1..Len(bufferM), j \in 1..Len(toProgram) :
           ~(Core(bufferM[i]).type \in T /\ Core(toProgram[j]).type \in T)

\* What an answer says.
Tells(t) ==
    /\ t.type # "ZFIN"
    /\ t.type \in {"ZRINIT", "ZSKIP"} => phase = "ready"
    /\ t.type = "ZCOMMAND" => phase = "checking"
    /\ t.type = "ZRPOS" => phase = "waiting" /\ t.arg = store[offer].len /\ t.arg <= Size[zmodemFileM]

\* An answer on the line is the only one, and tells where the terminal is.
AnswerInv ==
    /\ LineOne(AnswerTypes)
    /\ ~LineNo(AnswerTypes) => phase # "asked" /\ Silent
    /\ \A t \in Lined : t.type \in AnswerTypes => Tells(t)

\* So is the subpacket of a resume request, which sz reads before it answers.
ResumeInv ==
    /\ LineOne({"DATA"})
    /\ \A t \in Lined : t.type = "DATA" =>
           phase = "checking" /\ t.len = store[offer].len /\ t.sound = store[offer].sound
    /\ ~No({"ZACK"}, toTerminal) => LineNo({"DATA"})

\* The next block goes on where those on their way end.
GoesOn ==
    IF toTerminal # <<>> /\ Last(toTerminal).type \in {"ZDATA", "DATA"}
    THEN posM = End(Last(toTerminal))
    ELSE No(StreamTypes, toTerminal) /\ (phase = "receiving" => posM = store[offer].len)

\* Who has the turn of sz knows what the terminal did last.
HolderInv ==
    /\ SzTurn => phase # "asked" /\ No(AskTypes, toTerminal) /\ LineNo(AnswerTypes)
    /\ Called("frame") => Tells(inputFrameM) /\ Silent
    /\ Has("again") => phase = "ready" /\ Silent
    /\ Has("data") => phase \in {"waiting", "receiving"} /\ GoesOn /\ stream # "closed"

TurnInv == SzOne /\ AnswerInv /\ ResumeInv /\ HolderInv

ProtocolInv == CallsInv /\ RequestInv /\ PhaseInv /\ BootInv /\ (Alive => TurnInv)

-----------------------------------------------------------------------------
(***************************************************************************)
(* The length of the files, when no signal comes and no file is named      *)
(* twice.  The stream is opened once for each file: it is closed while the *)
(* terminal has still to say where it starts.                              *)
(***************************************************************************)
Opening ==
    \/ phase \in {"asked", "checking"}
    \/ ~No({"ZFILE"}, toTerminal)
    \/ ~LineNo({"ZRPOS"})
    \/ Called("frame") /\ inputFrameM.type = "ZRPOS"

NamedOnce(files) == \A i, j \in 1..Len(files) : files[i] = files[j] => i = j
Left             == {filesM[i] : i \in 1..Len(filesM)}

WholeInv ==
    /\ ~signaled
    /\ NamedOnce(filesM) /\ zmodemFileM \notin Left /\ done \cap Left = {}
    /\ \A f \in done : store[f].len = Size[f]
    /\ phase \notin {"ready", "over"} => offer \notin done
    /\ ~No({"ZFILE"}, toTerminal) => zmodemFileM \notin done
    /\ stream = "end" => posM = Size[zmodemFileM]
    /\ Alive /\ Opening => stream = "closed"
    /\ \A i \in 1..Len(toTerminal) :
           toTerminal[i].type = "ZEOF" => toTerminal[i].arg = Size[zmodemFileM]
=============================================================================
