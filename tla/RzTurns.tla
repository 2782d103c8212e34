-------------------------------- MODULE RzTurns --------------------------------
(***************************************************************************)
(* The integrity of the files rz receives.  rz and the terminal take       *)
(* turns: rz greets, the terminal offers a file, rz asks or says where it  *)
(* starts, the terminal sends the file, rz takes it and greets again.  A   *)
(* turn is a token on the line, or a call or an event of rz.  Each says    *)
(* what the other did last, and where the file on the disk, the write      *)
(* position and the data on their way meet.  Once rz is about to end       *)
(* nobody relies on it any more.                                           *)
(***************************************************************************)
EXTENDS RzTransfer

Gone    == {"END_STATE", "DESTROY_STATE"}
Leaving == {"TIMEOUT_EVT", "RESET_EVT", "DESTROY_EVT"}

\* A call that will end the session.
Leaves(c) ==
    \/ c.op = "handle" /\ c.arg \in Leaving
    \/ c.op \in {"change", "enter"} /\ c.arg \in Gone

Alive == curState \notin Gone /\ \A i \in 1..Len(agenda) : ~Leaves(agenda[i])

\* Events that are handled.
Handled == {"NEXT_EVT", "NETWORK_INPUT_EVT", "HANDLE_FRAME_EVT", "SKIP_EVT"} \cup Leaving

\* The turn a call of rz has in state s: it goes to wait for the answer ("go"),
\* handles that answer ("hear"), takes the data ("take"), or greets ("greet").
TurnOfEvent(e, s) ==
    CASE e = "NEXT_EVT" /\ s = "HANDLE_ZFILE_STATE" -> "go"
      [] e = "NEXT_EVT" /\ s = "WAIT_ZDATA_STATE" -> "take"
      [] e = "NEXT_EVT" /\ s = "HANDLE_ZDATA_STATE" -> "greet"
      [] e = "HANDLE_FRAME_EVT" /\ s = "WAIT_ZDATA_STATE" -> "hear"
      [] OTHER -> "none"
TurnOfState(s) ==
    CASE s = "WAIT_ZDATA_STATE" -> "go"
      [] s = "HANDLE_ZDATA_STATE" -> "take"
      [] s \in {"SEND_ZRINIT_STATE", "ZEOF_STATE"} -> "greet"
      [] OTHER -> "none"
TurnOfFunc(f) ==
    CASE f = "waitZdata" -> "hear"
      [] f = "handleZdata" -> "take"
      [] f = "sendZrinit" -> "greet"
      [] OTHER -> "none"
TurnOf(c, s) ==
    CASE c.op = "handle" -> TurnOfEvent(c.arg, s)
      [] c.op \in {"change", "enter"} -> TurnOfState(c.arg)
      [] c.op = "func" -> TurnOfFunc(c.arg)
      [] OTHER -> "none"

\* The turn rz has because of the state it is in.
TurnIn(s) ==
    CASE s = "HANDLE_ZDATA_STATE" -> "take"
      [] s \in {"IDLE_STATE", "ZEOF_STATE"} -> "greet"
      [] OTHER -> "none"

Called(k) == \E i \in 1..Len(agenda) : TurnOf(agenda[i], curState) = k
Queued    == \E i \in 1..Len(jobs) : jobs[i] = "NEXT_EVT"
Turns     == {"go", "hear", "take", "greet"}
Holds(k)  == Called(k) \/ TurnIn(curState) = k \/ (k = "go" /\ Queued)

\* Data are taken from the moment their header is heard.
Going    == Holds("go")
Hearing  == Holds("hear")
Taking   == Holds("take") \/ (Hearing /\ inputFrameM.type = "ZDATA")
Greeting == Holds("greet")

\* A call that may lead to another state, or to a function that has a turn.
Movers   == {"parseFrame", "handleZfile", "waitZdata", "handleZdata", "sendZrinit"}
Moves(c) == c.op \in {"handle", "change", "enter"} \/ (c.op = "func" /\ c.arg \in Movers)

\* Behind such a call the timer is armed, or the first event ends, which is the
\* last thing it does.
OneMove(calls) ==
    \A i, j \in 1..Len(calls) : i < j =>
        /\ Moves(calls[i]) => calls[j].op \in {"newTimer", "initialized"}
        /\ calls[i].op # "initialized"

\* The states that follow each other.
Edges ==
    {<<"IDLE_STATE", "SEND_ZRINIT_STATE">>, <<"SEND_ZRINIT_STATE", "HANDLE_ZFILE_STATE">>,
     <<"HANDLE_ZFILE_STATE", "HANDLE_ZFILE_STATE">>, <<"HANDLE_ZFILE_STATE", "WAIT_ZDATA_STATE">>,
     <<"WAIT_ZDATA_STATE", "HANDLE_ZFILE_STATE">>, <<"WAIT_ZDATA_STATE", "HANDLE_ZDATA_STATE">>,
     <<"HANDLE_ZDATA_STATE", "HANDLE_ZDATA_STATE">>, <<"HANDLE_ZDATA_STATE", "ZEOF_STATE">>,
     <<"ZEOF_STATE", "SEND_ZRINIT_STATE">>}

\* Where a function of the table may run.
Homes(f) ==
    CASE f = "handleZfile" -> {"HANDLE_ZFILE_STATE"}
      [] f = "waitZdata"   -> {"WAIT_ZDATA_STATE"}
      [] f = "handleZdata" -> {"HANDLE_ZDATA_STATE"}
      [] f = "sendZrinit"  -> {"SEND_ZRINIT_STATE"}
      [] f = "parseFrame"  -> {"SEND_ZRINIT_STATE", "WAIT_ZDATA_STATE", "ZEOF_STATE", "END_STATE"}
      [] f \in {"sendZfin", "sendOO"} -> Gone
      [] OTHER -> {"IDLE_STATE"}

\* A call that may be on the stack in state s; the first event leads to the
\* first greeting.
Fits(c, s, started) ==
    /\ c.op = "handle" => c.arg \in Handled \cup {"ENTRY_EVT"}
    /\ c.op = "handle" /\ c.arg = "ENTRY_EVT" => ~started
    /\ c.op = "initialized" => c.arg = "ENTRY_EVT" /\ ~started
    /\ c.op \in {"change", "enter"} => c.arg \in Gone \/ <<s, c.arg>> \in Edges
    /\ c.op = "func" => s \in Homes(c.arg)
    /\ c.op \in {"destroy", "delete"} => s = "DESTROY_STATE"
    /\ ~started /\ c.op = "handle" => s = "IDLE_STATE" /\ c.arg = "ENTRY_EVT"
    /\ ~started /\ c.op \in {"change", "enter"} => s = "IDLE_STATE" /\ c.arg = "SEND_ZRINIT_STATE"
    /\ ~started /\ c.op = "func" => c.arg \notin Movers \ {"sendZrinit"}
    /\ Moves(c) => c.guard \in {AnyState, s}

\* Until the first event is done there is nothing else to do.
Booting ==
    /\ curState \in {"IDLE_STATE", "SEND_ZRINIT_STATE"} /\ ~deleted
    /\ IF agenda = <<>> THEN worker = "poll" /\ jobs = <<"ENTRY_EVT">> /\ curState = "IDLE_STATE"
       ELSE /\ jobs = <<>> /\ agenda[Len(agenda)].arg = "ENTRY_EVT"
            /\ \A i \in 1..Len(agenda) : agenda[i].op = "handle" => Len(agenda) = 1

CallsInv ==
    /\ OneMove(agenda)
    /\ \A i \in 1..Len(agenda) : Fits(agenda[i], curState, initialized)
    /\ initialized => \A i \in 1..Len(jobs) : jobs[i] \in Handled \ {"HANDLE_FRAME_EVT"}
    /\ ~initialized => Booting
    /\ Alive /\ Going => curState = "HANDLE_ZFILE_STATE"
    /\ \A i, j \in 1..Len(jobs) : jobs[i] = "NEXT_EVT" /\ jobs[j] = "NEXT_EVT" => i = j
    /\ ~(Queued /\ Called("go"))

-----------------------------------------------------------------------------
\* Tokens of some types in a sequence.
No(T, u) == \A i \in 1..Len(u) : u[i].type \notin T

\* What the terminal has written and rz has not yet made use of: the buffer and
\* the line, with the tokens that are there in part.
Core(t)      == IF t.type = "part" THEN t.arg ELSE t
Cores(u)     == [i \in 1..Len(u) |-> Core(u[i])]
Coming(line) == IF line # <<>> /\ Head(line).type = "rest" THEN Tail(line) ELSE line
Inc          == Cores(bufferM) \o Coming(toProgram)

\* What is behind place i of it.
After(u, i) == SubSeq(u, i + 1, Len(u))

\* The tokens that answer rz, and those that ask the terminal for an answer.
Offers  == {"ZFILE", "NAME"}
Replies == Offers \cup {"ZACK", "ZDATA", "DATA"}

IsQuestion(t) == t.type = "ZCOMMAND" /\ t.arg = "check last break"
Asks(t)       == t.type \in {"ZRINIT", "ZSKIP", "ZRPOS", "DATA"} \/ IsQuestion(t)
NoAsk(u)      == \A i \in 1..Len(u) : ~Asks(u[i])

\* There is one answer, of one token or one after the other, ...
Ordered(u) ==
    \A i, j \in 1..Len(u) : i < j /\ u[i].type \in Replies /\ u[j].type \in Replies =>
        \/ u[i].type = "ZFILE" /\ u[j].type = "NAME"
        \/ u[i].type \in {"ZDATA", "DATA"} /\ u[j].type = "DATA"

\* ... and one request, or a question and the part it is about.
OneAsk(u) ==
    \A i, j \in 1..Len(u) : i < j /\ Asks(u[i]) /\ Asks(u[j]) =>
        IsQuestion(u[i]) /\ u[j].type = "DATA"

\* The file on its way: the data in u begin at position base, follow each other
\* without a gap, and end where the terminal is or where the file ends.
End(t) == t.from + t.len
Linked(u, base, f, when, pos) ==
    /\ \A i \in 1..Len(u) : u[i].type = "DATA" =>
           /\ u[i].of = f /\ u[i].len \in Nat /\ End(u[i]) <= Size[f]
           /\ u[i].len < SBlock => u[i].end = "ZCRCE"
           /\ i = 1 => u[i].from = base
           /\ i > 1 => /\ u[i - 1].type = "DATA" /\ u[i - 1].end = "ZCRCG"
                       /\ u[i].from = End(u[i - 1])
           /\ u[i].end = "ZCRCE" => /\ End(u[i]) = Size[f] /\ when = "eof"
                                    /\ No({"DATA"}, After(u, i))
    /\ when = "sending" =>
           IF u = <<>> THEN pos = base
           ELSE /\ u[Len(u)].type = "DATA" /\ u[Len(u)].end = "ZCRCG"
                /\ pos = End(u[Len(u)])
Chain(u, base) == Linked(u, base, offer, phase, at)

\* The part on the disk of the file being received.
Stored      == disk[offer]
Streaming   == phase \in {"sending", "eof"}
StartsAtEnd(pos) == stream = "open" => Stored.sound /\ Stored.len = pos /\ posM = pos

\* The answer a to the question whether that part is sound.
AckFits(a) ==
    /\ phase = "offered" /\ zmodemFileM = offer /\ posM = 0 /\ stream = "closed"
    /\ a <= Size[offer]
    /\ a # 0 => Stored.sound /\ Stored.len = a
    /\ a = 0 /\ Stored.sound => Stored.len = 0

\* What an answer on its way says, at its place.
Tells(u, i) ==
    /\ u[i].type \in Offers => phase = "offered"
    /\ u[i].type = "ZFILE" => u[i].arg = flavour.version
    /\ u[i].type = "NAME" => u[i].arg = offer
    /\ u[i].type = "ZACK" => AckFits(u[i].arg)
    /\ u[i].type \in {"ZDATA", "DATA"} => Streaming
    /\ u[i].type = "ZDATA" =>
           /\ zmodemFileM = offer /\ StartsAtEnd(u[i].arg)
           /\ stream = "open" => Chain(After(u, i), u[i].arg)

\* What a request on its way says.
Means(t) ==
    /\ IsQuestion(t) \/ t.type = "DATA" =>
           phase = "offered" /\ zmodemFileM = offer /\ posM = 0 /\ stream = "closed"
    /\ t.type = "DATA" => t.len = Stored.len /\ t.sound = Stored.sound
    /\ t.type = "ZRPOS" => phase = "offered" /\ zmodemFileM = offer /\ StartsAtEnd(t.arg)

LineInv ==
    /\ NoAsk(toTerminal) \/ No(Replies, Inc)
    /\ Ordered(Inc)
    /\ \A i \in 1..Len(Inc) : Tells(Inc, i)
    /\ inputFrameM.type = "ZFILE" => inputFrameM.arg = flavour.version
    /\ \A i \in 1..Len(toTerminal) : Means(toTerminal[i])

\* rz says that a file was received only when it was, or before the first.
MayGreet == phase = "ready" \/ (phase = "eof" /\ Delivered(offer))

HolderInv ==
    /\ Greeting => NoAsk(toTerminal) /\ No(Replies, Inc) /\ ~Going /\ MayGreet
    /\ Going => /\ phase \in {"offered", "sending", "eof"} /\ zmodemFileM = offer
                /\ No(Offers, Inc) /\ No({"ZRINIT", "ZSKIP"}, toTerminal)
    /\ Hearing /\ inputFrameM.type = "ZACK" =>
           NoAsk(toTerminal) /\ No(Replies, Inc) /\ AckFits(inputFrameM.arg)
    /\ Taking => /\ Streaming /\ zmodemFileM = offer
                 /\ NoAsk(toTerminal) /\ No(Replies \ {"DATA"}, Inc)
                 /\ stream = "open" => StartsAtEnd(posM) /\ Chain(Inc, posM)

\* What a request says even when rz is gone.
Due(t) ==
    /\ t.type = "ZRINIT" => phase = "over" \/ MayGreet
    /\ t.type = "ZSKIP" =>
           /\ phase \in {"offered", "over"} /\ zmodemFileM = offer /\ stream = "closed"
           /\ Size[offer] > 0 => Whole(offer)
    /\ t.type = "ZRPOS" => phase \in {"offered", "over"} /\ t.arg <= Size[offer]

DiskInv ==
    /\ posM \in Lengths
    /\ \A f \in Files : disk[f].len \in Lengths /\ (disk[f].sound => disk[f].len <= Size[f])

PeerInv ==
    /\ DiskInv
    /\ OneAsk(toTerminal) /\ \A i \in 1..Len(toTerminal) : Due(toTerminal[i])
    /\ Streaming => at <= Size[offer]
    /\ phase = "over" \/ ~No({"ZFIN"}, toTerminal) => ~Alive

\* What waits in the stream is the end of the file that is open.
StreamInv ==
    /\ tail \in Nat /\ tail < Chunk
    /\ stream = "closed" => tail = 0
    /\ stream = "open" => zmodemFileM \in Files /\ disk[zmodemFileM].sound
    /\ stream = "open" /\ tail > 0 => disk[zmodemFileM].len = Size[zmodemFileM]

ProtocolInv == CallsInv /\ PeerInv /\ (Alive => LineInv /\ HolderInv)

-----------------------------------------------------------------------------
(***************************************************************************)
(* What rz said of a file stays true, when no file is offered twice: the   *)
(* disk changes only where the file of the turn is stored, and at the end  *)
(* of the open file when that is closed.  What rz still has to say of a    *)
(* file, on the line, is of that file, too.                                *)
(***************************************************************************)
NamedOnce(files) == \A i, j \in 1..Len(files) : files[i] = files[j] => i = j
Left             == {left[i] : i \in 1..Len(left)}

FateInv ==
    /\ NamedOnce(left) /\ (done \cup skipped) \cap Left = {}
    /\ Streaming \/ phase = "offered" \/ ~No({"ZSKIP", "ZRPOS"}, toTerminal) =>
           offer \notin done \cup skipped \cup Left
    /\ AcknowledgedFilesAreWhole /\ SkippedFilesAreWhole
    /\ zmodemFileM \in skipped => stream = "closed"
=============================================================================
