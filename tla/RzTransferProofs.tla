--------------------------- MODULE RzTransferProofs ---------------------------
(***************************************************************************)
(* rz implements the control skeleton FsmSession, for every disk, every    *)
(* sender and every line; its variables keep their types; rz and the       *)
(* terminal take turns (RzTurns); and what rz says of a file, and does to  *)
(* the disk, is right.                                                     *)
(***************************************************************************)
EXTENDS RzTurns, ZmodemSessionProofs

\* Every session function of rz.
LEMMA FunctionsMap == SessionFunction => Skeleton!SessionFunction
<1>1. SendPresetFiles \/ SendZrinit => Skeleton!SessionFunction
  BY ReturnsMaps DEF SendPresetFiles, SendZrinit
<1>2. HandleZfile => Skeleton!SessionFunction
  BY ReturnsMaps, PostingMaps, PostsLemma DEF HandleZfile
<1>3. WaitZdata => Skeleton!SessionFunction
  BY ReturnsMaps, PostingMaps, HandlingMaps, PostsLemma DEF WaitZdata
<1>4. HandleZdata => Skeleton!SessionFunction
  BY ReturnsMaps, PostingMaps, HandlingMaps, PostsLemma DEF HandleZdata, Ends
<1> QED
  BY <1>1, <1>2, <1>3, <1>4, CommonMaps DEF SessionFunction

-----------------------------------------------------------------------------
\* Every step of rz is a step of the skeleton, and the steps of the terminal
\* and the signal leave the engine alone: what FsmSessionProofs proves of the
\* skeleton holds of rz.
THEOREM RzImplementsSkeleton == ProgramSpec => ImplementsSkeleton
<1>1. Init => Skeleton!Init
  BY DEF Init, RzInit, SessionInit, EngineInit, Skeleton!Init, Skeleton!EngineInit, NoTimer,
         Skeleton!NoTimer
<1>2. [Next]_transferVars => [Skeleton!Next]_(Skeleton!engineVars)
  <2> SUFFICES ASSUME [Next]_transferVars
               PROVE  Skeleton!Next \/ UNCHANGED engineVars
    BY DEF engineVars, Skeleton!engineVars
  <2>1. CASE RzThread
    BY <2>1, WorkerMaps, CallsMap, FunctionsMap
    DEF RzThread, ThreadStep, EngineStep, Skeleton!Next, Skeleton!ThreadStep
  <2>2. CASE RzRead \/ RzSignal
    BY <2>2, TicksMap DEF RzRead, RzSignal, Skeleton!Next
  <2>3. CASE RzTimer
    BY <2>3, FireMaps DEF RzTimer, SessionTimer, Skeleton!Next
  <2>4. CASE Interrupt \/ PeerStep
    BY <2>4 DEF Interrupt, PeerStep, SigHandler
  <2>5. CASE UNCHANGED transferVars
    BY <2>5 DEF transferVars, rzVars, sessionVars
  <2> QED
    BY <2>1, <2>2, <2>3, <2>4, <2>5 DEF Next
<1> QED
  BY <1>1, <1>2, PTL DEF ProgramSpec, ImplementsSkeleton, Skeleton!Safety

\* What is proved of the skeleton holds of rz: its thread stops only when the
\* session was freed and the terminal restored, a call on a freed session needs
\* a second DESTROY_EVT, a session timer belongs to the state that armed it, the
\* thread never waits without a deadline, no timer fires before initState, and
\* destroy() is final (Session.cpp:78-146, CppWorker.cpp:51-183).
THEOREM RzShutdown ==
    ProgramSpec =>
        /\ []Skeleton!StopsOnlyAfterDelete
        /\ []Skeleton!CrashNeedsSecondDestroy
        /\ []Skeleton!TimerOfCurrentState
        /\ []Skeleton!NeverWaitsForever
        /\ []Skeleton!TimersAfterInit
        /\ Skeleton!DestroyIsFinal
BY RzImplementsSkeleton, SkeletonHolds, PTL DEF ImplementsSkeleton

-----------------------------------------------------------------------------
(***************************************************************************)
(* The types of the line, of the file and of the terminal.  Positions are  *)
(* only integers here: that they are in the files is part of the protocol. *)
(***************************************************************************)

\* What the disk may have of a file.
Parts == [len : Int, sound : BOOLEAN]

\* What rz and the terminal write.
Requests ==
    [type : {"ZRINIT", "ZRPOS", "ZSKIP", "ZFIN"}, arg : Int]
    \cup [type : {"ZCOMMAND"}, arg : {"check last break", "preset paths", "workdir"}]
    \cup [type : {"DATA"}, len : Int, sound : BOOLEAN] \cup [type : {"O"}]

Answers ==
    [type : {"ZFILE", "ZACK", "ZDATA", "ZEOF", "ZFIN", "ZCOMPL", "ZHEARTBEAT"}, arg : Int]
    \cup [type : {"NAME"}, arg : Files] \cup [type : {"O"}]
    \cup [type : {"DATA"}, of : Files, from : Int, len : Int, end : {"ZCRCG", "ZCRCE"}]

\* The types of the line and the input, of the files, and of the terminal.
LineTypeOK ==
    /\ toTerminal \in Seq(Requests) /\ toProgram \in Lines(Answers)
    /\ bufferM \in Seq(Buffered(Answers))
    /\ inputFrameM \in Answers \cup {Frame("ZRQINIT", 0)} /\ inputFrameM.type \in HeaderTypes
    /\ signaled \in BOOLEAN

FileTypeOK ==
    /\ zmodemFileM \in Files \cup {NoFile} /\ posM \in Int
    /\ stream \in {"closed", "open"} /\ crcSound \in BOOLEAN
    /\ disk \in [Files -> Parts] /\ tail \in Int /\ lost \subseteq Files

SenderTypeOK ==
    /\ flavour \in Flavours /\ left \in Seq(Files) /\ offer \in Files /\ at \in Int
    /\ phase \in {"ready", "choosing", "offered", "sending", "eof", "fin", "over"}
    /\ done \subseteq Files /\ skipped \subseteq Files

DataTypeOK == LineTypeOK /\ FileTypeOK /\ SenderTypeOK

\* The tokens of both are whole.
LEMMA TokensLemma ==
    /\ Writable(Answers)
    /\ \A t \in Requests : /\ t.type \in {"ZRINIT", "ZRPOS", "ZSKIP", "ZFIN"} => t.arg \in Int
                           /\ t.type = "DATA" => t.len \in Int /\ t.sound \in BOOLEAN
    /\ \A t \in Answers : /\ t.type \in {"ZACK", "ZDATA"} => t.arg \in Int
                          /\ t.type = "NAME" => t.arg \in Files
                          /\ t.type = "DATA" => /\ t.of \in Files /\ t.from \in Int /\ t.len \in Int
                                                /\ t.end \in {"ZCRCG", "ZCRCE"}
BY DEF Writable, HeaderTypes, Requests, Answers

\* What rz may send at once.
LEMMA RequestsLemma ==
    /\ \A n \in Int : /\ <<Frame("ZRINIT", n)>> \in Seq(Requests)
                      /\ <<Frame("ZRPOS", n)>> \in Seq(Requests)
                      /\ <<Frame("ZSKIP", n)>> \in Seq(Requests)
                      /\ <<Frame("ZFIN", n)>> \in Seq(Requests)
    /\ <<Frame("ZCOMMAND", "workdir")>> \in Seq(Requests)
    /\ Farewell \in Seq(Requests)
<1>1. ASSUME NEW n \in Int
      PROVE  {Frame("ZRINIT", n), Frame("ZRPOS", n), Frame("ZSKIP", n), Frame("ZFIN", n)} \subseteq Requests
  BY DEF Requests, Frame
<1>2. Frame("ZCOMMAND", "workdir") \in Requests
  BY DEF Requests, Frame
<1>3. [type |-> "O"] \in Requests
  BY DEF Requests
<1>4. Farewell \in Seq(Requests)
  BY <1>3 DEF Farewell
<1>5. \A s, t \in Requests : <<s>> \in Seq(Requests) /\ <<s, t>> \in Seq(Requests)
  OBVIOUS
<1> QED
  BY <1>1, <1>2, <1>4, <1>5

\* The commands.
LEMMA CommandsLemma ==
    /\ <<Frame("ZCOMMAND", "preset paths")>> \in Seq(Requests)
    /\ \A had \in Parts : Question(had) \in Seq(Requests)
<1>1. /\ Frame("ZCOMMAND", "preset paths") \in Requests
      /\ Frame("ZCOMMAND", "check last break") \in Requests
  BY DEF Requests, Frame
<1>2. \A s, t \in Requests : <<s>> \in Seq(Requests) /\ <<s, t>> \in Seq(Requests)
  OBVIOUS
<1>3. ASSUME NEW had \in Parts
      PROVE  Question(had) \in Seq(Requests)
  <2>1. [type |-> "DATA", len |-> had.len, sound |-> had.sound] \in Requests
    BY DEF Parts, Requests
  <2> QED
    BY <1>1, <1>2, <2>1, Zenon DEF Question
<1> QED
  BY <1>1, <1>2, <1>3, Zenon

\* And what the terminal may answer.
LEMMA AnswersLemma ==
    /\ \A n \in Int : /\ Frame("ZFILE", n) \in Answers /\ Frame("ZACK", n) \in Answers
                      /\ Frame("ZDATA", n) \in Answers /\ Frame("ZEOF", n) \in Answers
                      /\ Frame("ZFIN", n) \in Answers /\ Frame("ZCOMPL", n) \in Answers
                      /\ Frame("ZHEARTBEAT", n) \in Answers
    /\ \A f \in Files : NameOf(f) \in Answers
    /\ \A f \in Files, from, len \in Int, end \in {"ZCRCG", "ZCRCE"} :
           [type |-> "DATA", of |-> f, from |-> from, len |-> len, end |-> end] \in Answers
    /\ Farewell \in Seq(Answers)
<1>1. ASSUME NEW n \in Int
      PROVE  /\ Frame("ZFILE", n) \in Answers /\ Frame("ZACK", n) \in Answers
             /\ Frame("ZDATA", n) \in Answers /\ Frame("ZEOF", n) \in Answers
             /\ Frame("ZFIN", n) \in Answers /\ Frame("ZCOMPL", n) \in Answers
             /\ Frame("ZHEARTBEAT", n) \in Answers
  BY DEF Answers, Frame
<1>2. \A f \in Files : NameOf(f) \in Answers
  BY DEF Answers, NameOf
<1>3. \A f \in Files, from, len \in Int, end \in {"ZCRCG", "ZCRCE"} :
          [type |-> "DATA", of |-> f, from |-> from, len |-> len, end |-> end] \in Answers
  BY DEF Answers
<1>4. [type |-> "O"] \in Answers
  BY DEF Answers
<1>5. Farewell \in Seq(Answers)
  BY <1>4 DEF Farewell
<1> QED
  BY <1>1, <1>2, <1>3, <1>5

\* Initially nothing is on the line, and no file is open.
LEMMA DataInit == Init => DataTypeOK
<1> SUFFICES ASSUME Init PROVE DataTypeOK
  OBVIOUS
<1>1. toTerminal = <<>> /\ toProgram = <<>> /\ bufferM = <<>>
  BY DEF Init, RzInit, SessionInit, WireInit
<1>2. <<>> \in Seq(Answers) /\ <<>> \in Lines(Answers)
  BY EmptySeq, LinesLemma
<1>3. /\ inputFrameM = Frame("ZRQINIT", 0) /\ inputFrameM.type \in HeaderTypes
      /\ signaled \in BOOLEAN
  BY DEF Init, RzInit, SessionInit, Frame, HeaderTypes
<1>4. LineTypeOK
  BY <1>1, <1>2, <1>3 DEF LineTypeOK
<1>5. FileTypeOK
  BY RzAssumption DEF Init, RzInit, FileTypeOK, Parts
<1>6. SenderTypeOK
  BY TransferAssumption DEF Init, SenderInit, SenderTypeOK
<1> QED
  BY <1>4, <1>5, <1>6 DEF DataTypeOK

\* What rz sends is a request, and touches nothing else of the line.
LEMMA Sent ==
    ASSUME LineTypeOK, NEW ts \in Seq(Requests), Sends(ts)
    PROVE  toTerminal' \in Seq(Requests) /\ toProgram' \in Lines(Answers)
<1>1. toTerminal' \in Seq(Requests) /\ toProgram' = toProgram
  BY SendsLemma DEF Sends, LineTypeOK
<1> QED
  BY <1>1 DEF LineTypeOK

\* The functions that are in both tables.
LEMMA CommonTypes ==
    ASSUME LineTypeOK, CommonFunction
    PROVE  LineTypeOK'
<1> USE DEF wireVars, inputVars
<1>1. CASE InitState
  BY <1>1 DEF InitState, LineTypeOK
<1>2. CASE SendLeadingMsg
  BY <1>2 DEF SendLeadingMsg, LineTypeOK
<1>3. CASE SendClientWorkingDir
  <2>1. (IF ClientDir THEN <<Frame("ZCOMMAND", "workdir")>> ELSE <<>>) \in Seq(Requests)
    BY RequestsLemma
  <2> QED
    BY <1>3, <2>1, Sent DEF SendClientWorkingDir, LineTypeOK
<1>4. CASE SendZfin
  <2>1. <<Frame("ZFIN", 0)>> \in Seq(Requests)
    BY RequestsLemma
  <2> QED
    BY <1>4, <2>1, Sent DEF SendZfin, LineTypeOK
<1>5. CASE SendOO
  <2>1. CASE inputFrameM.type # "ZFIN"
    BY <1>5, <2>1 DEF SendOO, LineTypeOK
  <2>2. CASE inputFrameM.type = "ZFIN"
    BY <1>5, <2>2, RequestsLemma, Sent DEF SendOO, LineTypeOK
  <2> QED
    BY <2>1, <2>2
<1>6. CASE ParseFrame
  <2>1. PICK found \in Parsed(bufferM, inputFrameM) :
            bufferM' = found.left /\ inputFrameM' = found.frame
    BY <1>6 DEF ParseFrame
  <2>2. /\ found.left \in Seq(Buffered(Answers))
        /\ \/ found.frame = inputFrameM
           \/ found.frame \in Answers /\ found.frame.type \in HeaderTypes
    BY TokensLemma, FoundLemma DEF LineTypeOK
  <2> QED
    BY <1>6, <2>1, <2>2 DEF ParseFrame, LineTypeOK
<1> QED
  BY <1>1, <1>2, <1>3, <1>4, <1>5, <1>6 DEF CommonFunction

\* What is left of a token they run over.
LEMMA RunOverLemma ==
    ASSUME NEW t, NEW x \in RunOver(t)
    PROVE  /\ t.type \in HeaderTypes => x = Torn(t)
           /\ t.type = "part" => x = t \/ (t.arg.type \in HeaderTypes /\ x = Torn(t.arg))
           /\ t.type \notin HeaderTypes \cup {"part"} => x = t
<1>1. CASE t.type \in HeaderTypes
  <2>1. RunOver(t) = {Torn(t)}
    BY <1>1 DEF RunOver, HeaderTypes
  <2> QED
    BY <1>1, <2>1 DEF HeaderTypes
<1>2. CASE t.type \notin HeaderTypes /\ t.type = "part" /\ t.arg.type \in HeaderTypes
  <2>1. RunOver(t) = {t, Torn(t.arg)}
    BY <1>2 DEF RunOver
  <2> QED
    BY <1>2, <2>1
<1>3. CASE t.type \notin HeaderTypes /\ ~(t.type = "part" /\ t.arg.type \in HeaderTypes)
  <2>1. RunOver(t) = {t}
    BY <1>3 DEF RunOver
  <2> QED
    BY <1>3, <2>1
<1> QED
  BY <1>1, <1>2, <1>3

\* What the data parsers tear are tokens of the buffer.
LEMMA SwallowsTypes ==
    ASSUME bufferM \in Seq(Buffered(Answers)), crcSound \in BOOLEAN, Swallows
    PROVE  /\ bufferM' \in Seq(Buffered(Answers)) /\ crcSound' \in BOOLEAN
           /\ Len(bufferM') = Len(bufferM)
           /\ \A i \in 1..Len(bufferM) : bufferM'[i] \in RunOver(bufferM[i])
<1> DEFINE n == Len(bufferM)
<1>1. n \in Nat
  BY LenProperties
<1>2. PICK b \in [1..n -> UNION {RunOver(bufferM[i]) : i \in 1..n}] :
          bufferM' = b /\ \A i \in 1..n : b[i] \in RunOver(bufferM[i])
  BY DEF Swallows
<1>3. ASSUME NEW i \in 1..n
      PROVE  b[i] \in Buffered(Answers)
  <2>1. bufferM[i] \in Buffered(Answers) /\ b[i] \in RunOver(bufferM[i])
    BY <1>2, ElementOfSeq
  <2>2. ASSUME bufferM[i].type \in HeaderTypes
        PROVE  bufferM[i] \in Answers
    BY <2>1, <2>2, KindsDiffer, TokensLemma DEF HeaderTypes
  <2>3. bufferM[i].type = "part" => bufferM[i].arg \in Answers
    BY <2>1, KindsDiffer, TokensLemma
  <2>4. b[i] = bufferM[i] \/ \E t \in Answers : b[i] = Torn(t)
    <3>1. CASE bufferM[i].type \in HeaderTypes
      <4>1. b[i] = Torn(bufferM[i])
        BY <2>1, <3>1, RunOverLemma
      <4>2. bufferM[i] \in Answers
        BY <2>2, <3>1
      <4> QED
        BY <4>1, <4>2, Zenon
    <3>2. CASE bufferM[i].type \notin HeaderTypes /\ bufferM[i].type = "part" /\ bufferM[i].arg.type \in HeaderTypes
      BY <2>1, <2>3, <3>2 DEF RunOver
    <3>3. CASE ~(bufferM[i].type \in HeaderTypes)
               /\ ~(bufferM[i].type = "part" /\ bufferM[i].arg.type \in HeaderTypes)
      BY <2>1, <3>3 DEF RunOver
    <3> QED
      BY <3>1, <3>2, <3>3
  <2> QED
    BY <2>1, <2>4 DEF Buffered
<1>4. b \in [1..n -> Buffered(Answers)]
  BY <1>2, <1>3
<1>5. b \in Seq(Buffered(Answers)) /\ Len(b) = n
  BY <1>1, <1>4, SeqDef, LenProperties
<1>6. crcSound' \in BOOLEAN
  BY DEF Swallows
<1> QED
  BY <1>2, <1>5, <1>6

\* The file had in the place of the one there was cut at its end.
Cut(had, cut) ==
    /\ cut.sound = had.sound
    /\ 0 <= cut.len /\ cut.len < had.len /\ had.len <= cut.len + tail

\* Closing leaves the disk as it is, or cuts the file that is open.
LEMMA ClosedLemma ==
    ASSUME FileTypeOK, NEW c \in Closed
    PROVE  /\ c.disk \in [Files -> Parts] /\ c.lost \subseteq Files /\ lost \subseteq c.lost
           /\ c.disk = disk \/ (stream = "open" /\ zmodemFileM \in Files)
           /\ \A f \in Files : f # zmodemFileM => c.disk[f] = disk[f]
           /\ \A f \in Files : c.disk[f] = disk[f] \/ (Cut(disk[f], c.disk[f]) /\ f \in c.lost)
<1>1. CASE c = [disk |-> disk, lost |-> lost]
  BY <1>1 DEF FileTypeOK
<1>2. CASE \E n \in Cuts : c = [disk |-> [disk EXCEPT ![zmodemFileM].len = n], lost |-> lost \cup {zmodemFileM}]
  <2> DEFINE g == zmodemFileM
  <2>1. PICK n \in Cuts : c = [disk |-> [disk EXCEPT ![g].len = n], lost |-> lost \cup {g}]
    BY <1>2
  <2>2. g # NoFile /\ stream = "open" /\ n \in 0..disk[g].len - 1 /\ disk[g].len <= n + tail
    BY <2>1 DEF Cuts
  <2>3. g \in Files
    BY <2>2 DEF FileTypeOK
  <2>4. disk[g] \in Parts /\ disk[g].len \in Int
    BY <2>3 DEF FileTypeOK, Parts
  <2>5. n \in Int /\ 0 <= n /\ n < disk[g].len
    BY <2>2, <2>4
  <2>6. [disk[g] EXCEPT !.len = n] \in Parts
    BY <2>4, <2>5 DEF Parts
  <2>7. c.disk = [disk EXCEPT ![g] = [disk[g] EXCEPT !.len = n]] /\ c.lost = lost \cup {g}
    BY <2>1
  <2>8. c.disk \in [Files -> Parts] /\ c.disk[g] = [disk[g] EXCEPT !.len = n]
    BY <2>3, <2>6, <2>7 DEF FileTypeOK
  <2>9. Cut(disk[g], c.disk[g])
    BY <2>2, <2>4, <2>5, <2>8 DEF Cut, Parts
  <2>10. \A f \in Files : f # g => c.disk[f] = disk[f]
    BY <2>7 DEF FileTypeOK
  <2> QED
    BY <2>2, <2>3, <2>7, <2>8, <2>9, <2>10 DEF FileTypeOK
<1> QED
  BY <1>1, <1>2 DEF Closed

\* Opening a file leaves the rest of the disk alone.
LEMMA OpensTypes ==
    ASSUME FileTypeOK, NEW had \in [Files -> Parts], NEW f, NEW resume, Opens(had, f, resume)
    PROVE  /\ stream' \in {"closed", "open"}
           /\ disk' \in [Files -> Parts]
<1>1. [len |-> 0, sound |-> TRUE] \in Parts
  BY DEF Parts
<1>2. Opened(had, f, resume) \in [Files -> Parts]
  BY <1>1 DEF Opened
<1> QED
  BY <1>2 DEF Opens

LEMMA OpenTypes ==
    ASSUME FileTypeOK, NEW f, NEW resume, OpenWrite(f, resume)
    PROVE  /\ stream' \in {"closed", "open"}
           /\ disk' \in [Files -> Parts] /\ tail' = 0 /\ lost' \subseteq Files
<1>1. PICK c \in Closed : Opens(c.disk, f, resume) /\ tail' = 0 /\ lost' = c.lost
  BY DEF OpenWrite
<1>2. c.disk \in [Files -> Parts] /\ c.lost \subseteq Files
  BY ClosedLemma
<1> QED
  BY <1>1, <1>2, OpensTypes

\* The file of a name is asked about or opened, when the one before is closed.
AnswersNameAs(f, c) ==
    /\ IF ExistLen(c.disk[f]) > 0 /\ peerVersionM' > 0
       THEN Sends(Question(c.disk[f])) /\ stream' = "closed" /\ disk' = c.disk
       ELSE Opens(c.disk, f, FALSE) /\ Sends(<<Frame("ZRPOS", 0)>>)
    /\ tail' = 0 /\ lost' = c.lost
AnswersName(f) == \E c \in Closed : AnswersNameAs(f, c)

\* handleZfile leaves the file alone or takes the one named.
LEMMA HandleZfileCases ==
    ASSUME HandleZfile
    PROVE  \/ /\ UNCHANGED <<wireVars, zmodemFileM, posM, stream, disk, tail, lost>>
              /\ UNCHANGED <<bufferM, crcSound>> \/ Swallows
           \/ /\ inputFrameM.type = "ZFILE" /\ Ready("NAME") /\ crcSound
              /\ peerVersionM' = inputFrameM.arg
              /\ bufferM' = Tail(bufferM) /\ zmodemFileM' = Head(bufferM).arg /\ posM' = 0
              /\ AnswersName(Head(bufferM).arg)
              /\ ReturnsPosting("NEXT_EVT")
              /\ UNCHANGED crcSound
BY Zenon DEF HandleZfile, fileVars, AnswersName, AnswersNameAs

\* handleZfile.
LEMMA HandleZfileTypes ==
    ASSUME LineTypeOK, FileTypeOK, HandleZfile
    PROVE  LineTypeOK' /\ FileTypeOK'
<1>1. UNCHANGED <<inputFrameM, signaled>>
  BY DEF HandleZfile
<1>2. CASE /\ UNCHANGED <<wireVars, zmodemFileM, posM, stream, disk, tail, lost>>
           /\ UNCHANGED <<bufferM, crcSound>> \/ Swallows
  <2>2. bufferM' \in Seq(Buffered(Answers)) /\ crcSound' \in BOOLEAN
    BY <1>2, SwallowsTypes DEF LineTypeOK, FileTypeOK
  <2> QED
    BY <1>1, <1>2, <2>2 DEF LineTypeOK, FileTypeOK, wireVars
<1>3. CASE /\ Ready("NAME") /\ crcSound
           /\ bufferM' = Tail(bufferM) /\ zmodemFileM' = Head(bufferM).arg /\ posM' = 0
           /\ AnswersName(Head(bufferM).arg)
           /\ UNCHANGED crcSound
  <2> DEFINE f == Head(bufferM).arg
  <2>1. Head(bufferM) \in Buffered(Answers) /\ Tail(bufferM) \in Seq(Buffered(Answers))
    BY <1>3, HeadTailProperties DEF LineTypeOK, Ready
  <2>2. f \in Files
    BY <1>3, <2>1, KindsDiffer, TokensLemma DEF Ready
  <2> HIDE DEF f
  <2>3. PICK c \in Closed : AnswersNameAs(f, c)
    BY <1>3 DEF f, AnswersName
  <2>4. c.disk \in [Files -> Parts] /\ c.lost \subseteq Files /\ c.disk[f] \in Parts
    BY <2>2, ClosedLemma
  <2>5. /\ tail' = 0 /\ lost' = c.lost
        /\ \/ Sends(Question(c.disk[f])) /\ stream' = "closed" /\ disk' = c.disk
           \/ Opens(c.disk, f, FALSE) /\ Sends(<<Frame("ZRPOS", 0)>>)
    BY <2>3, Zenon DEF AnswersNameAs
  <2>6. stream' \in {"closed", "open"} /\ disk' \in [Files -> Parts]
    BY <2>4, <2>5, OpensTypes
  <2>7. <<Frame("ZRPOS", 0)>> \in Seq(Requests) /\ Question(c.disk[f]) \in Seq(Requests)
    <3>1. Question(c.disk[f]) \in Seq(Requests)
      BY <2>4, CommandsLemma, Zenon
    <3> QED
      BY <3>1, RequestsLemma
  <2>8. toTerminal' \in Seq(Requests) /\ toProgram' \in Lines(Answers)
    BY <2>5, <2>7, Sent
  <2> QED
    BY <1>1, <1>3, <2>1, <2>2, <2>4, <2>5, <2>6, <2>8 DEF LineTypeOK, FileTypeOK, f
<1> QED
  BY <1>2, <1>3, HandleZfileCases

\* waitZdata.
LEMMA WaitZdataTypes ==
    ASSUME LineTypeOK, FileTypeOK, WaitZdata
    PROVE  LineTypeOK' /\ FileTypeOK'
<1>1. UNCHANGED <<zmodemFileM, crcSound, inputVars, signaled>>
  BY DEF WaitZdata
<1>2. CASE UNCHANGED <<wireVars, posM, stream, disk, tail, lost>>
  BY <1>1, <1>2 DEF LineTypeOK, FileTypeOK, wireVars, inputVars
<1>3. CASE inputFrameM.type = "ZACK" /\ StartsAt(inputFrameM.arg)
  <2>1. inputFrameM.arg \in Int
    BY <1>3, TokensLemma DEF LineTypeOK, Frame
  <2>2. /\ posM' \in {posM, inputFrameM.arg}
        /\ stream' \in {"closed", "open"} /\ disk' \in [Files -> Parts]
        /\ tail' \in Int /\ lost' \subseteq Files
        /\ Sends(<<Frame("ZRPOS", posM')>>) \/ Sends(<<Frame("ZSKIP", 0)>>) \/ Sends(<<Frame("ZRPOS", posM)>>)
    <3>1. /\ \/ UNCHANGED <<stream, disk, tail, lost>>
             \/ OpenWrite(zmodemFileM, inputFrameM.arg > 0) \/ OpenWrite(zmodemFileM, FALSE)
          /\ posM' \in {posM, inputFrameM.arg}
          /\ Sends(<<Frame("ZRPOS", posM')>>) \/ Sends(<<Frame("ZSKIP", 0)>>) \/ Sends(<<Frame("ZRPOS", posM)>>)
      BY <1>3 DEF StartsAt
    <3>2. CASE UNCHANGED <<stream, disk, tail, lost>>
      BY <3>1, <3>2 DEF FileTypeOK
    <3>3. CASE OpenWrite(zmodemFileM, inputFrameM.arg > 0) \/ OpenWrite(zmodemFileM, FALSE)
      <4>1. 0 \in Int
        OBVIOUS
      <4>2. stream' \in {"closed", "open"} /\ disk' \in [Files -> Parts] /\ tail' = 0 /\ lost' \subseteq Files
        BY <3>3, OpenTypes
      <4> QED
        BY <3>1, <4>1, <4>2
    <3> QED
      BY <3>1, <3>2, <3>3
  <2>3. /\ <<Frame("ZRPOS", posM')>> \in Seq(Requests) /\ <<Frame("ZSKIP", 0)>> \in Seq(Requests)
        /\ <<Frame("ZRPOS", posM)>> \in Seq(Requests) /\ posM' \in Int
    BY <2>1, <2>2, RequestsLemma DEF FileTypeOK
  <2>4. toTerminal' \in Seq(Requests) /\ toProgram' \in Lines(Answers)
    BY <2>2, <2>3, Sent
  <2> QED
    BY <1>1, <2>2, <2>3, <2>4 DEF LineTypeOK, FileTypeOK, inputVars
<1> QED
  BY <1>2, <1>3 DEF WaitZdata

\* handleZdata.
LEMMA HandleZdataTypes ==
    ASSUME LineTypeOK, FileTypeOK, HandleZdata
    PROVE  LineTypeOK' /\ FileTypeOK'
<1>1. UNCHANGED <<wireVars, zmodemFileM, stream, lost, inputFrameM, signaled>>
  BY DEF HandleZdata
<1>2. CASE UNCHANGED <<posM, disk, tail>>
  <2>1. UNCHANGED <<bufferM, crcSound>> \/ (Swallows /\ ~Ready("DATA"))
        \/ (Ready("DATA") /\ bufferM' = Tail(bufferM) /\ UNCHANGED crcSound)
    BY DEF HandleZdata
  <2>2. bufferM' \in Seq(Buffered(Answers)) /\ crcSound' \in BOOLEAN
    BY <2>1, SwallowsTypes, HeadTailProperties DEF LineTypeOK, FileTypeOK, Ready
  <2> QED
    BY <1>1, <1>2, <2>2 DEF LineTypeOK, FileTypeOK, wireVars
<1>3. CASE Ready("DATA") /\ ~UNCHANGED <<posM, disk, tail>>
  <2> DEFINE data == Head(bufferM)
  <2>1. PICK w \in Write(data) :
            /\ posM' = w.pos /\ tail' = w.tail
            /\ disk' = [disk EXCEPT ![zmodemFileM] = w.file]
            /\ UNCHANGED crcSound /\ bufferM' \in {Tail(bufferM), bufferM}
    BY <1>3 DEF HandleZdata
  <2>2. data \in Buffered(Answers) /\ Tail(bufferM) \in Seq(Buffered(Answers))
    BY <1>3, HeadTailProperties DEF LineTypeOK, Ready
  <2>3. data.len \in Int
    BY <1>3, <2>2, KindsDiffer, TokensLemma DEF Ready
  <2> HIDE DEF data
  <2>4. PICK n \in Int : /\ w.pos \in {posM + n, posM} /\ w.tail \in {0, tail, tail + n}
                         /\ w.file = Extended(disk[zmodemFileM], data, n)
    BY <2>1, <2>3, RzAssumption DEF Write
  <2>5. zmodemFileM \in Files => w.file \in Parts
    BY <2>4 DEF Extended, FileTypeOK, Parts
  <2>6. disk' \in [Files -> Parts]
    BY <2>1, <2>5 DEF FileTypeOK
  <2>7. posM' \in Int /\ tail' \in Int
    BY <2>1, <2>4 DEF FileTypeOK
  <2>8. bufferM' \in Seq(Buffered(Answers))
    BY <2>1, <2>2 DEF LineTypeOK
  <2> QED
    BY <1>1, <2>1, <2>6, <2>7, <2>8 DEF LineTypeOK, FileTypeOK, wireVars
<1>4. Ready("DATA") \/ UNCHANGED <<posM, disk, tail>>
  BY DEF HandleZdata
<1> QED
  BY <1>2, <1>3, <1>4

\* The thread of rz.
LEMMA ThreadTypes ==
    ASSUME LineTypeOK, FileTypeOK, ThreadStep
    PROVE  LineTypeOK' /\ FileTypeOK'
<1>1. CASE EngineStep /\ (UNCHANGED fileVars \/ DeletesFile)
  <2>1. LineTypeOK'
    BY <1>1 DEF EngineStep, wireVars, inputVars, LineTypeOK
  <2>2. CASE UNCHANGED fileVars
    BY <2>1, <2>2 DEF fileVars, FileTypeOK
  <2>3. CASE DeletesFile
    BY <2>1, <2>3, ClosedLemma DEF DeletesFile, FileTypeOK
  <2> QED
    BY <1>1, <2>2, <2>3
<1>2. CASE CommonFunction /\ UNCHANGED fileVars
  BY <1>2, CommonTypes DEF fileVars, FileTypeOK
<1>3. CASE SendPresetFiles
  <2>1. (IF Preset THEN <<Frame("ZCOMMAND", "preset paths")>> ELSE <<>>) \in Seq(Requests)
    <3>1. <<>> \in Seq(Requests)
      BY EmptySeq
    <3> QED
      BY <3>1, CommandsLemma, Zenon
  <2> QED
    BY <1>3, <2>1, Sent DEF SendPresetFiles, LineTypeOK, FileTypeOK, fileVars, inputVars
<1>4. CASE SendZrinit
  <2>1. <<Frame("ZRINIT", 1)>> \in Seq(Requests)
    BY RequestsLemma
  <2> QED
    BY <1>4, <2>1, Sent DEF SendZrinit, LineTypeOK, FileTypeOK, fileVars, inputVars
<1> QED
  BY <1>1, <1>2, <1>3, <1>4, HandleZfileTypes, WaitZdataTypes, HandleZdataTypes
  DEF ThreadStep, SessionFunction

\* The tick of the input timer takes tokens off the line.
LEMMA ReadTickTypes ==
    ASSUME LineTypeOK, ReadTick
    PROVE  LineTypeOK'
<1>1. UNCHANGED <<toTerminal, inputFrameM, signaled>>
  BY DEF ReadTick
<1>2. CASE toProgram = <<>>
  BY <1>1, <1>2 DEF ReadTick, LineTypeOK
<1>3. CASE toProgram # <<>>
  <2>1. PICK r \in IF Splits THEN Reads(toProgram) ELSE {[taken |-> toProgram, left |-> <<>>]} :
            bufferM' = Received(bufferM, r.taken) /\ toProgram' = r.left
    BY <1>3 DEF ReadTick
  <2>2. r.taken \in Lines(Buffered(Answers)) /\ r.left \in Lines(Answers)
    <3>1. CASE Splits
      BY <2>1, <3>1, TokensLemma, ReadsLemma DEF LineTypeOK
    <3>2. CASE ~Splits
      <4>1. <<>> \in Lines(Answers)
        BY EmptySeq, LinesLemma
      <4>2. r.taken = toProgram /\ r.left = <<>>
        BY <2>1, <3>2
      <4> QED
        BY <4>1, <4>2, BufferedLines DEF LineTypeOK
    <3> QED
      BY <3>1, <3>2
  <2>3. bufferM' \in Seq(Buffered(Answers))
    BY <2>1, <2>2, TokensLemma, ReceivedLemma DEF LineTypeOK
  <2> QED
    BY <1>1, <2>1, <2>2, <2>3 DEF LineTypeOK
<1> QED
  BY <1>2, <1>3

\* The terminal answers in its own tokens.
LEMMA SaysTypes ==
    ASSUME LineTypeOK, NEW ts \in Seq(Answers), Says(ts), UNCHANGED <<inputVars, signaled>>,
           toTerminal' \in Seq(Requests)
    PROVE  LineTypeOK'
<1>1. toProgram' \in Lines(Answers)
  BY LinesLemma DEF Says, LineTypeOK
<1> QED
  BY <1>1 DEF LineTypeOK, inputVars

\* What the terminal takes off the line.
LEMMA GetsTypes ==
    ASSUME LineTypeOK, NEW type, Gets(type)
    PROVE  /\ Head(toTerminal) \in Requests /\ Head(toTerminal).type = type
           /\ toTerminal' \in Seq(Requests)
BY HeadTailProperties DEF Gets, LineTypeOK

\* A block is some integer of bytes.
LEMMA BlockTypes ==
    ASSUME SenderTypeOK
    PROVE  Min({SBlock, Length[offer] - at}) \in Int
<1>1. SBlock \in Int /\ Length[offer] - at \in Int
  BY TransferAssumption, RzAssumption DEF SenderTypeOK
<1> QED
  BY <1>1, SmallerOfTwo

\* The steps of the terminal.
LEMMA PeerTypes ==
    ASSUME LineTypeOK, SenderTypeOK, PeerStep
    PROVE  LineTypeOK' /\ SenderTypeOK'
<1>1. UNCHANGED <<inputVars, signaled>> /\ toTerminal \in Seq(Requests)
  BY DEF PeerStep, LineTypeOK
<1>2. ASSUME UNCHANGED toProgram, toTerminal' \in Seq(Requests)
      PROVE  LineTypeOK'
  BY <1>1, <1>2 DEF LineTypeOK, inputVars
<1>3. CASE GetsZrinit
  <2>1. LineTypeOK'
    BY <1>2, <1>3, GetsTypes DEF GetsZrinit
  <2> QED
    BY <1>3, <2>1 DEF GetsZrinit, SenderTypeOK
<1>4. CASE Heartbeat
  <2>1. <<Frame("ZHEARTBEAT", 0)>> \in Seq(Answers)
    BY AnswersLemma
  <2> QED
    BY <1>1, <1>4, <2>1, SaysTypes DEF Heartbeat, SenderTypeOK
<1>5. CASE Offer
  <2>1. Head(left) \in Files /\ Tail(left) \in Seq(Files) /\ flavour.version \in Int
    BY <1>5, HeadTailProperties, TransferAssumption DEF Offer, SenderTypeOK
  <2>2. Frame("ZFILE", flavour.version) \in Answers /\ NameOf(Head(left)) \in Answers
    BY <2>1, AnswersLemma
  <2>3. <<Frame("ZFILE", flavour.version), NameOf(Head(left))>> \in Seq(Answers)
    BY <2>2
  <2>4. LineTypeOK'
    BY <1>1, <1>5, <2>3, SaysTypes DEF Offer
  <2> QED
    BY <1>5, <2>1, <2>4 DEF Offer, SenderTypeOK
<1>6. CASE Finish
  <2> DEFINE c == IF flavour.completes THEN <<Frame("ZCOMPL", 0)>> ELSE <<>>
             z == <<Frame("ZFIN", 0)>>
  <2>1. c \in Seq(Answers) /\ z \in Seq(Answers)
    BY AnswersLemma
  <2>2. Says(c \o z)
    BY <1>6 DEF Finish
  <2> HIDE DEF c, z
  <2>3. c \o z \in Seq(Answers)
    BY <2>1, ConcatProperties
  <2> QED
    BY <1>1, <1>6, <2>2, <2>3, SaysTypes DEF Finish, SenderTypeOK
<1>7. CASE GetsQuestion
  <2> DEFINE held == toTerminal[2]
             asked == Head(toTerminal).arg = "check last break"
             a == IF held.sound /\ held.len <= Length[offer] THEN held.len ELSE 0
  <2>1. toTerminal # <<>> /\ UNCHANGED senderVars /\ (asked => Len(toTerminal) > 1)
    BY <1>7 DEF GetsQuestion
  <2>2. CASE asked /\ held.type = "DATA"
    <3>1. toTerminal' = SubSeq(toTerminal, 3, Len(toTerminal)) /\ Says(<<Frame("ZACK", a)>>)
      BY <1>7, <2>2 DEF GetsQuestion
    <3>2. Len(toTerminal) \in Nat /\ 2 \in 1..Len(toTerminal)
      <4>1. Len(toTerminal) > 1
        BY <2>1, <2>2
      <4>2. Len(toTerminal) \in Nat
        BY <1>1, LenProperties
      <4> QED
        BY <4>1, <4>2
    <3>3. held \in Requests
      BY <1>1, <3>2, ElementOfSeq
    <3>4. a \in Int
      <4>1. held.len \in Int
        BY <2>2, <3>3, TokensLemma
      <4>2. a \in {held.len, 0}
        BY Zenon
      <4> QED
        BY <4>1, <4>2
    <3> HIDE DEF held, a
    <3>5. toTerminal' \in Seq(Requests)
      BY <1>1, <3>1, <3>2, SubSeqProperties
    <3>6. <<Frame("ZACK", a)>> \in Seq(Answers)
      BY <3>4, AnswersLemma
    <3> QED
      BY <1>1, <2>1, <3>1, <3>5, <3>6, SaysTypes DEF SenderTypeOK, senderVars
  <2>3. CASE ~(asked /\ held.type = "DATA")
    <3>1. toTerminal' = Tail(toTerminal) /\ Says(<<>>)
      BY <1>7, <2>3 DEF GetsQuestion
    <3>2. <<>> \in Seq(Answers) /\ toTerminal' \in Seq(Requests)
      BY <1>1, <2>1, <3>1, EmptySeq, HeadTailProperties
    <3> QED
      BY <1>1, <2>1, <3>1, <3>2, SaysTypes DEF SenderTypeOK, senderVars
  <2> QED
    BY <2>2, <2>3
<1>8. CASE GetsZskip
  <2>1. LineTypeOK'
    BY <1>2, <1>8, GetsTypes DEF GetsZskip
  <2> QED
    BY <1>8, <2>1 DEF GetsZskip, SenderTypeOK
<1>9. CASE GetsZrpos
  <2>1. Head(toTerminal).arg \in Int /\ toTerminal' \in Seq(Requests)
    BY <1>9, GetsTypes, TokensLemma DEF GetsZrpos
  <2>2. <<Frame("ZDATA", at')>> \in Seq(Answers)
    BY <1>9, <2>1, AnswersLemma DEF GetsZrpos
  <2>3. LineTypeOK'
    BY <1>1, <1>9, <2>1, <2>2, SaysTypes DEF GetsZrpos
  <2> QED
    BY <1>9, <2>1, <2>3 DEF GetsZrpos, SenderTypeOK
<1>10. CASE SendBlock
  <2> DEFINE len == Min({SBlock, Length[offer] - at})
             Data(end) == [type |-> "DATA", of |-> offer, from |-> at, len |-> len, end |-> end]
  <2>1. /\ at' = at + len /\ UNCHANGED <<toTerminal, flavour, left, offer, done, skipped>>
        /\ phase' \in {phase, "eof"}
        /\ Says(<<Data("ZCRCG")>>) \/ Says(<<Data("ZCRCE"), Frame("ZEOF", at')>>)
    BY <1>10 DEF SendBlock
  <2>2. len \in Int /\ at \in Int /\ offer \in Files
    BY BlockTypes DEF SenderTypeOK
  <2> HIDE DEF len
  <2>3. Data("ZCRCG") \in Answers /\ Data("ZCRCE") \in Answers /\ Frame("ZEOF", at') \in Answers
    BY <2>1, <2>2, AnswersLemma
  <2> HIDE DEF Data
  <2>4. <<Data("ZCRCG")>> \in Seq(Answers) /\ <<Data("ZCRCE"), Frame("ZEOF", at')>> \in Seq(Answers)
    BY <2>3
  <2>5. LineTypeOK'
    BY <1>1, <2>1, <2>4, SaysTypes
  <2> QED
    BY <2>1, <2>2, <2>5 DEF SenderTypeOK
<1>11. CASE GetsZfin
  <2> DEFINE ts == CASE phase # "fin"    -> <<Frame("ZFIN", 0)>>
                     [] flavour.farewell -> Farewell
                     [] OTHER            -> <<>>
  <2>1. Says(ts) /\ toTerminal' \in Seq(Requests)
    BY <1>11, GetsTypes DEF GetsZfin
  <2>2. <<Frame("ZFIN", 0)>> \in Seq(Answers) /\ Farewell \in Seq(Answers) /\ <<>> \in Seq(Answers)
    BY AnswersLemma, EmptySeq
  <2>3. ts \in Seq(Answers)
    BY <2>2
  <2> HIDE DEF ts
  <2>4. LineTypeOK'
    BY <1>1, <2>1, <2>3, SaysTypes
  <2> QED
    BY <1>11, <2>4 DEF GetsZfin, SenderTypeOK
<1>12. CASE GetsOther("O") \/ GetsOther("DATA")
  <2>1. UNCHANGED <<toProgram, senderVars>> /\ toTerminal' \in Seq(Requests)
    BY <1>12, GetsTypes DEF GetsOther
  <2> QED
    BY <1>2, <2>1 DEF SenderTypeOK, senderVars
<1> QED
  BY <1>3, <1>4, <1>5, <1>6, <1>7, <1>8, <1>9, <1>10, <1>11, <1>12
  DEF PeerStep, SenderActs, SenderStep

\* Every step keeps the types.
LEMMA DataNext == DataTypeOK /\ [Next]_transferVars => DataTypeOK'
<1> SUFFICES ASSUME DataTypeOK, [Next]_transferVars PROVE DataTypeOK'
  OBVIOUS
<1>1. LineTypeOK /\ FileTypeOK /\ SenderTypeOK
  BY DEF DataTypeOK
<1>2. UNCHANGED fileVars => FileTypeOK'
  BY <1>1 DEF fileVars, FileTypeOK
<1>3. UNCHANGED senderVars => SenderTypeOK'
  BY <1>1 DEF senderVars, SenderTypeOK
<1>4. UNCHANGED <<wireVars, inputVars, signaled>> => LineTypeOK'
  BY <1>1 DEF wireVars, inputVars, LineTypeOK
<1>5. CASE RzThread
  BY <1>1, <1>3, <1>5, ThreadTypes DEF RzThread, DataTypeOK
<1>6. CASE RzRead
  BY <1>1, <1>2, <1>3, <1>6, ReadTickTypes DEF RzRead, DataTypeOK
<1>7. CASE RzSignal
  BY <1>2, <1>3, <1>4, <1>7 DEF RzSignal, SignalTick, DataTypeOK
<1>8. CASE RzTimer
  BY <1>2, <1>3, <1>4, <1>8 DEF RzTimer, SessionTimer, DataTypeOK
<1>9. CASE Interrupt
  BY <1>1, <1>2, <1>3, <1>9 DEF Interrupt, SigHandler, DataTypeOK, LineTypeOK, wireVars, inputVars
<1>10. CASE PeerStep
  BY <1>1, <1>2, <1>10, PeerTypes DEF PeerStep, DataTypeOK
<1>11. CASE UNCHANGED transferVars
  BY <1>2, <1>3, <1>4, <1>11 DEF transferVars, rzVars, sessionVars, DataTypeOK
<1> QED
  BY <1>5, <1>6, <1>7, <1>8, <1>9, <1>10, <1>11 DEF Next

-----------------------------------------------------------------------------
(***************************************************************************)
(* The calls of rz.  One call at most can lead to another turn (OneMove):  *)
(* the table says where each event leads, and so does each step of the     *)
(* engine.                                                                 *)
(***************************************************************************)

\* The table of rz, state by state.
LEMMA TableOf ==
    /\ Table["IDLE_STATE"]["ENTRY_EVT"] =
           <<SeFunc("initState"), SeFunc("sendLeadingMsg"), ToState("SEND_ZRINIT_STATE")>>
    /\ Table["IDLE_STATE"]["EXIT_EVT"] = <<SeFunc("sendClientWorkingDir"), SeFunc("sendPresetFiles")>>
    /\ Table["SEND_ZRINIT_STATE"]["ENTRY_EVT"] = <<SeFunc("sendZrinit"), NEW_TIMER>>
    /\ Table["HANDLE_ZFILE_STATE"]["ENTRY_EVT"] = <<SeFunc("handleZfile"), NEW_TIMER>>
    /\ Table["WAIT_ZDATA_STATE"]["ENTRY_EVT"] = <<>>
    /\ Table["HANDLE_ZDATA_STATE"]["ENTRY_EVT"] = <<SeFunc("handleZdata")>>
    /\ Table["ZEOF_STATE"]["ENTRY_EVT"] = <<SeFunc("parseFrame")>>
    /\ Table["END_STATE"]["ENTRY_EVT"] = <<SeFunc("sendZfin")>>
    /\ Table["DESTROY_STATE"]["ENTRY_EVT"] = <<DESTROY>>
    /\ Table["DESTROY_STATE"]["EXIT_EVT"] = <<>>
    /\ \A s \in RzStates \ {"IDLE_STATE", "DESTROY_STATE"} :
           Table[s]["EXIT_EVT"] = <<CANCEL_TIMER>>
<1> USE RzAssumption DEF RzTable, RzRules, Complete, RzStates, ZEvents
<1>1. /\ Table["IDLE_STATE"]["ENTRY_EVT"] =
             <<SeFunc("initState"), SeFunc("sendLeadingMsg"), ToState("SEND_ZRINIT_STATE")>>
      /\ Table["IDLE_STATE"]["EXIT_EVT"] =
             <<SeFunc("sendClientWorkingDir"), SeFunc("sendPresetFiles")>>
  OBVIOUS
<1>2. /\ Table["SEND_ZRINIT_STATE"]["ENTRY_EVT"] = <<SeFunc("sendZrinit"), NEW_TIMER>>
      /\ Table["HANDLE_ZFILE_STATE"]["ENTRY_EVT"] = <<SeFunc("handleZfile"), NEW_TIMER>>
      /\ Table["WAIT_ZDATA_STATE"]["ENTRY_EVT"] = <<>>
  OBVIOUS
<1>3. /\ Table["HANDLE_ZDATA_STATE"]["ENTRY_EVT"] = <<SeFunc("handleZdata")>>
      /\ Table["ZEOF_STATE"]["ENTRY_EVT"] = <<SeFunc("parseFrame")>>
  OBVIOUS
<1>4. /\ Table["END_STATE"]["ENTRY_EVT"] = <<SeFunc("sendZfin")>>
      /\ Table["DESTROY_STATE"]["ENTRY_EVT"] = <<DESTROY>>
      /\ Table["DESTROY_STATE"]["EXIT_EVT"] = <<>>
  OBVIOUS
<1>5. /\ Table["SEND_ZRINIT_STATE"]["EXIT_EVT"] = <<CANCEL_TIMER>>
      /\ Table["HANDLE_ZFILE_STATE"]["EXIT_EVT"] = <<CANCEL_TIMER>>
      /\ Table["WAIT_ZDATA_STATE"]["EXIT_EVT"] = <<CANCEL_TIMER>>
  OBVIOUS
<1>6. /\ Table["HANDLE_ZDATA_STATE"]["EXIT_EVT"] = <<CANCEL_TIMER>>
      /\ Table["ZEOF_STATE"]["EXIT_EVT"] = <<CANCEL_TIMER>>
      /\ Table["END_STATE"]["EXIT_EVT"] = <<CANCEL_TIMER>>
  OBVIOUS
<1> QED
  BY ONLY <1>1, <1>2, <1>3, <1>4, <1>5, <1>6 DEF RzStates

\* The one action of an event that state s lists, and what it leads to.
LeadsTo(s, e, a) ==
    /\ \/ /\ a.op = "change" /\ a.arg \in RzStates
          /\ a.arg \in Gone \/ <<s, a.arg>> \in Edges
          /\ TurnOfState(a.arg) \in {"none", TurnOfEvent(e, s), TurnIn(s)}
       \/ a = SeFunc("parseFrame") /\ s \in Homes("parseFrame")
       \/ a = SeFunc("waitZdata") /\ s \in Homes("waitZdata") /\ TurnOfEvent(e, s) = "hear"
       \/ a = SeFunc("sendOO") /\ s \in Gone
       \/ a = DELETE_SELF /\ s = "DESTROY_STATE"
       \/ a = IGNORE_EVT
    /\ e \in Leaving => s \in Gone \/ (a.op = "change" /\ a.arg \in Gone)

\* What a state says of an event: nothing, or one action of that kind.
Leads(s, e) == Table[s][e] = <<>> \/ \E a \in Action : Table[s][e] = <<a>> /\ LeadsTo(s, e, a)

\* An event a state lists leads where its turn goes, and to no other turn.
LEMMA Listed ==
    ASSUME NEW s \in RzStates, NEW e \in Handled
    PROVE  Leads(s, e)
<1> DEFINE Quits == <<ToState("END_STATE")>>
           Parse == <<SeFunc("parseFrame")>>
<1>1. Table = RzTable /\ States = RzStates /\ Funcs = ZFuncs
  BY RzAssumption, ZmodemAssumption
<1>2. \A t \in RzStates : ToState(t) \in Action
  BY <1>1 DEF Action
<1>3. /\ {SeFunc("parseFrame"), SeFunc("sendOO"), SeFunc("waitZdata")} \subseteq Action
      /\ DELETE_SELF \in Action /\ IGNORE_EVT \in Action
  BY <1>1 DEF Action, ZFuncs
<1>4. ASSUME NEW t \in RzStates, Table[s][e] = <<ToState(t)>>, t \in Gone \/ <<s, t>> \in Edges,
             TurnOfState(t) \in {"none", TurnOfEvent(e, s), TurnIn(s)},
             e \in Leaving => s \in Gone \/ t \in Gone
      PROVE  Leads(s, e)
  BY <1>2, <1>4 DEF Leads, LeadsTo, ToState
<1>5. ASSUME Table[s][e] = Quits, s \notin Gone
      PROVE  Leads(s, e)
  <2>1. "END_STATE" \in RzStates /\ "END_STATE" \in Gone /\ TurnOfState("END_STATE") = "none"
    BY DEF RzStates, Gone, TurnOfState
  <2> QED
    BY <1>4, <1>5, <2>1
<1>6. ASSUME Table[s][e] = Parse, s \in Homes("parseFrame"), e \notin Leaving
      PROVE  Leads(s, e)
  BY <1>3, <1>6 DEF Leads, LeadsTo
<1>7. ASSUME Table[s][e] = <<>> PROVE Leads(s, e)
  BY <1>7 DEF Leads
<1> USE DEF RzTable, RzRules, Complete, RzStates, ZEvents, Handled, Leaving
<1>8. CASE s = "IDLE_STATE"
  <2>1. Table[s][e] = <<>>
    BY <1>1, <1>8
  <2> QED
    BY <1>7, <2>1
<1>9. CASE s = "SEND_ZRINIT_STATE"
  <2>1. Table[s][e] = CASE e \in Leaving -> Quits
                        [] e = "NETWORK_INPUT_EVT" -> Parse
                        [] e = "HANDLE_FRAME_EVT" -> <<ToState("HANDLE_ZFILE_STATE")>>
                        [] OTHER -> <<>>
    BY <1>1, <1>9
  <2> QED
    BY <1>4, <1>5, <1>6, <1>7, <1>9, <2>1 DEF TurnOfState, Gone, Edges, Homes
<1>10. CASE s = "HANDLE_ZFILE_STATE"
  <2>1. Table[s][e] = CASE e \in {"TIMEOUT_EVT", "DESTROY_EVT", "SKIP_EVT"} -> Quits
                        [] e = "NETWORK_INPUT_EVT" -> <<ToState("HANDLE_ZFILE_STATE")>>
                        [] e = "NEXT_EVT" -> <<ToState("WAIT_ZDATA_STATE")>>
                        [] OTHER -> <<>>
    BY <1>1, <1>10
  <2> QED
    BY <1>4, <1>5, <1>7, <1>10, <2>1 DEF TurnOfState, TurnOfEvent, Gone, Edges
<1>11. CASE s = "WAIT_ZDATA_STATE"
  <2>1. Table[s][e] = CASE e \in {"TIMEOUT_EVT", "DESTROY_EVT"} -> Quits
                        [] e = "NETWORK_INPUT_EVT" -> Parse
                        [] e = "HANDLE_FRAME_EVT" -> <<SeFunc("waitZdata")>>
                        [] e = "NEXT_EVT" -> <<ToState("HANDLE_ZDATA_STATE")>>
                        [] e = "SKIP_EVT" -> <<ToState("HANDLE_ZFILE_STATE")>>
                        [] OTHER -> <<>>
    BY <1>1, <1>11
  <2>2. CASE e = "HANDLE_FRAME_EVT"
    BY <1>3, <1>11, <2>1, <2>2 DEF Leads, LeadsTo, Homes, TurnOfEvent
  <2> QED
    BY <1>4, <1>5, <1>6, <1>7, <1>11, <2>1, <2>2 DEF TurnOfState, TurnOfEvent, Gone, Edges, Homes
<1>12. CASE s = "HANDLE_ZDATA_STATE"
  <2>1. Table[s][e] = CASE e \in Leaving -> Quits
                        [] e = "NETWORK_INPUT_EVT" -> <<ToState("HANDLE_ZDATA_STATE")>>
                        [] e = "NEXT_EVT" -> <<ToState("ZEOF_STATE")>>
                        [] OTHER -> <<>>
    BY <1>1, <1>12
  <2> QED
    BY <1>4, <1>5, <1>7, <1>12, <2>1 DEF TurnOfState, TurnOfEvent, TurnIn, Gone, Edges
<1>13. CASE s = "ZEOF_STATE"
  <2>1. Table[s][e] = CASE e \in {"TIMEOUT_EVT", "DESTROY_EVT"} -> Quits
                        [] e = "NETWORK_INPUT_EVT" -> Parse
                        [] e = "HANDLE_FRAME_EVT" -> <<ToState("SEND_ZRINIT_STATE")>>
                        [] OTHER -> <<>>
    BY <1>1, <1>13
  <2> QED
    BY <1>4, <1>5, <1>6, <1>7, <1>13, <2>1 DEF TurnOfState, TurnIn, Gone, Edges, Homes
<1>14. CASE s = "END_STATE"
  <2>1. Table[s][e] = CASE e \in Leaving -> <<ToState("DESTROY_STATE")>>
                        [] e = "NETWORK_INPUT_EVT" -> Parse
                        [] e = "HANDLE_FRAME_EVT" -> <<SeFunc("sendOO")>>
                        [] e = "SKIP_EVT" -> <<IGNORE_EVT>>
                        [] OTHER -> <<>>
    BY <1>1, <1>14
  <2>2. CASE e \in {"HANDLE_FRAME_EVT", "SKIP_EVT"}
    BY <1>3, <1>14, <2>1, <2>2 DEF Leads, LeadsTo, Gone
  <2> QED
    BY <1>4, <1>6, <1>7, <1>14, <2>1, <2>2 DEF TurnOfState, Gone, Homes
<1>15. CASE s = "DESTROY_STATE"
  <2>1. Table[s][e] = CASE e = "DESTROY_EVT" -> <<DELETE_SELF>>
                        [] e = "SKIP_EVT" -> <<IGNORE_EVT>>
                        [] OTHER -> <<>>
    BY <1>1, <1>15
  <2> QED
    BY <1>3, <1>7, <1>15, <2>1 DEF Leads, LeadsTo, Gone
<1> QED
  BY <1>8, <1>9, <1>10, <1>11, <1>12, <1>13, <1>14, <1>15

\* The entry and exit actions: only entry actions move, in the state they enter.
LEMMA EntriesAndExits ==
    ASSUME NEW s \in RzStates
    PROVE  /\ s # "IDLE_STATE" =>
                  /\ OneMove(Table[s]["ENTRY_EVT"])
                  /\ \A i \in 1..Len(Table[s]["ENTRY_EVT"]) : LET a == Table[s]["ENTRY_EVT"][i] IN
                        /\ a.op \in {"func", "newTimer", "destroy"}
                        /\ a.op = "destroy" => s = "DESTROY_STATE"
                        /\ a.op = "func" =>
                               /\ s \in Homes(a.arg)
                               /\ TurnOfFunc(a.arg) \in {"none", TurnOfState(s)}
                               /\ s = "SEND_ZRINIT_STATE" => a.arg = "sendZrinit"
           /\ \A i \in 1..Len(Table[s]["EXIT_EVT"]) : LET a == Table[s]["EXIT_EVT"][i] IN
                  /\ a.op \in {"func", "cancelTimer"} /\ ~Moves(a)
                  /\ a.op = "func" => s \in Homes(a.arg)
<1> USE DEF OneMove, Moves, Movers, Homes, TurnOfFunc, TurnOfState, SeFunc, NEW_TIMER, CANCEL_TIMER,
            DESTROY, Gone
<1>1. CASE s = "IDLE_STATE"
  BY <1>1, TableOf
<1>2. CASE s = "SEND_ZRINIT_STATE"
  BY <1>2, TableOf DEF RzStates
<1>3. CASE s = "HANDLE_ZFILE_STATE"
  BY <1>3, TableOf DEF RzStates
<1>4. CASE s = "WAIT_ZDATA_STATE"
  BY <1>4, TableOf DEF RzStates
<1>5. CASE s = "HANDLE_ZDATA_STATE"
  BY <1>5, TableOf DEF RzStates
<1>6. CASE s = "ZEOF_STATE"
  BY <1>6, TableOf DEF RzStates
<1>7. CASE s = "END_STATE"
  BY <1>7, TableOf DEF RzStates
<1>8. CASE s = "DESTROY_STATE"
  BY <1>8, TableOf
<1> QED
  BY ONLY <1>1, <1>2, <1>3, <1>4, <1>5, <1>6, <1>7, <1>8, s \in RzStates DEF RzStates

-----------------------------------------------------------------------------
\* What has a turn moves; what may be behind a call that moves does not.
LEMMA TurnsMove ==
    /\ \A c, s : TurnOf(c, s) # "none" => Moves(c)
    /\ \A c : Leaves(c) => Moves(c)
    /\ \A c : c.op \in {"newTimer", "initialized"} =>
           ~Moves(c) /\ ~Leaves(c) /\ \A s : TurnOf(c, s) = "none"
    /\ \A c : c.op = "newTimer" => \A s, started : Fits(c, s, started)
    /\ \A c, s, t, started : c.op = "initialized" /\ Fits(c, s, started) => Fits(c, t, started)
BY DEF TurnOf, Moves, Movers, Fits, TurnOfFunc, Leaves

\* The next call is replaced by the calls cs it makes.
LEMMA Replaced ==
    ASSUME agenda \in Seq(CallSet), agenda # <<>>, NEW cs \in Seq(CallSet), agenda' = cs \o Rest,
           OneMove(agenda), OneMove(cs),
           Moves(Head(agenda)) \/ \A i \in 1..Len(cs) : ~Moves(cs[i]),
           \A i \in 1..Len(cs) : cs[i].op = "initialized" => Len(agenda) = 1
    PROVE  /\ OneMove(agenda') /\ Len(agenda') = Len(cs) + Len(agenda) - 1
           /\ agenda' \in Seq(CallSet)
           /\ \A i \in 1..Len(agenda') :
                  \/ \E j \in 1..Len(cs) : agenda'[i] = cs[j]
                  \/ \E j \in 2..Len(agenda) :
                         /\ agenda'[i] = agenda[j]
                         /\ Moves(Head(agenda)) => agenda[j].op \in {"newTimer", "initialized"}
           /\ \A j \in 1..Len(cs) : \E i \in 1..Len(agenda') : agenda'[i] = cs[j]
           /\ \A j \in 2..Len(agenda) :
                  /\ Moves(Head(agenda)) => agenda[j].op \in {"newTimer", "initialized"}
                  /\ \E i \in 1..Len(agenda') : agenda'[i] = agenda[j]
           /\ Len(agenda) > 1 => agenda'[Len(agenda')] = agenda[Len(agenda)]
           /\ Len(agenda) = 1 /\ cs # <<>> => agenda'[Len(agenda')] = cs[Len(cs)]
<1>1. /\ Len(agenda) \in Nat \ {0} /\ Len(cs) \in Nat /\ Head(agenda) = agenda[1]
      /\ Rest \in Seq(CallSet) /\ Len(Rest) = Len(agenda) - 1
      /\ \A i \in 1..Len(Rest) : Rest[i] = agenda[i + 1]
  BY HeadTailProperties, EmptySeq, LenProperties DEF Rest
<1>2. /\ agenda' \in Seq(CallSet) /\ Len(agenda') = Len(cs) + Len(agenda) - 1
      /\ \A i \in 1..Len(agenda') : agenda'[i] = IF i <= Len(cs) THEN cs[i]
                                                 ELSE agenda[i - Len(cs) + 1]
  <2>1. /\ agenda' \in Seq(CallSet) /\ Len(agenda') = Len(cs) + Len(Rest)
        /\ \A i \in 1..Len(agenda') :
               agenda'[i] = IF i <= Len(cs) THEN cs[i] ELSE Rest[i - Len(cs)]
    BY ONLY <1>1, ConcatProperties, agenda' = cs \o Rest, cs \in Seq(CallSet)
  <2>2. Len(agenda') = Len(cs) + Len(agenda) - 1
    BY <1>1, <2>1
  <2>3. ASSUME NEW i \in 1..Len(agenda'), ~(i <= Len(cs))
        PROVE  agenda'[i] = agenda[i - Len(cs) + 1]
    <3>1. i - Len(cs) \in 1..Len(Rest) /\ agenda'[i] = Rest[i - Len(cs)]
      BY <1>1, <2>1, <2>3
    <3> QED
      BY <1>1, <3>1
  <2> QED
    BY <2>1, <2>2, <2>3
<1>3. ASSUME NEW j \in 2..Len(agenda)
      PROVE  /\ Moves(Head(agenda)) => agenda[j].op \in {"newTimer", "initialized"}
             /\ j + Len(cs) - 1 \in 1..Len(agenda') /\ agenda'[j + Len(cs) - 1] = agenda[j]
             /\ agenda[1].op # "initialized"
  <2>1. 1 \in 1..Len(agenda) /\ j \in 1..Len(agenda) /\ 1 < j
    BY <1>1
  <2>2. j + Len(cs) - 1 \in 1..Len(agenda') /\ agenda'[j + Len(cs) - 1] = agenda[j]
    BY <1>1, <1>2, <2>1
  <2> QED
    BY <1>1, <2>1, <2>2 DEF OneMove
<1>4. ASSUME NEW i \in 1..Len(agenda'), NEW j \in 1..Len(agenda'), i < j
      PROVE  /\ Moves(agenda'[i]) => agenda'[j].op \in {"newTimer", "initialized"}
             /\ agenda'[i].op # "initialized"
  <2>1. CASE j <= Len(cs)
    <3>1. i \in 1..Len(cs) /\ j \in 1..Len(cs) /\ agenda'[i] = cs[i] /\ agenda'[j] = cs[j]
      BY <1>1, <1>2, <1>4, <2>1
    <3> QED
      BY <1>4, <3>1 DEF OneMove
  <2>2. CASE i > Len(cs)
    <3>1. /\ agenda'[i] = agenda[i - Len(cs) + 1] /\ agenda'[j] = agenda[j - Len(cs) + 1]
          /\ i - Len(cs) + 1 \in 1..Len(agenda) /\ j - Len(cs) + 1 \in 1..Len(agenda)
          /\ i - Len(cs) + 1 < j - Len(cs) + 1
      <4>1. ~(i <= Len(cs)) /\ ~(j <= Len(cs)) /\ Len(cs) < i /\ i < j
        BY <1>1, <1>4, <2>2
      <4>2. agenda'[i] = agenda[i - Len(cs) + 1] /\ agenda'[j] = agenda[j - Len(cs) + 1]
        BY <1>2, <4>1
      <4>3. i \in Int /\ j \in Int /\ j <= Len(cs) + Len(agenda) - 1
        BY <1>1, <1>2
      <4> QED
        BY ONLY <1>1, <4>1, <4>2, <4>3
    <3> QED
      BY <3>1 DEF OneMove
  <2>3. CASE i <= Len(cs) /\ j > Len(cs)
    <3>1. /\ agenda'[i] = cs[i] /\ agenda'[j] = agenda[j - Len(cs) + 1] /\ i \in 1..Len(cs)
          /\ j - Len(cs) + 1 \in 2..Len(agenda) /\ Len(agenda) > 1
      BY <1>1, <1>2, <1>4, <2>3
    <3>2. agenda'[i].op # "initialized"
      BY <3>1
    <3>3. ASSUME Moves(agenda'[i]) PROVE agenda'[j].op \in {"newTimer", "initialized"}
      <4>1. Moves(Head(agenda))
        BY <3>1, <3>3
      <4> QED
        BY <1>3, <3>1, <4>1
    <3> QED
      BY <3>2, <3>3
  <2> QED
    BY <1>1, <1>2, <2>1, <2>2, <2>3
<1>5. ASSUME NEW i \in 1..Len(agenda')
      PROVE  \/ \E j \in 1..Len(cs) : agenda'[i] = cs[j]
             \/ \E j \in 2..Len(agenda) :
                    /\ agenda'[i] = agenda[j]
                    /\ Moves(Head(agenda)) => agenda[j].op \in {"newTimer", "initialized"}
  <2>1. CASE i <= Len(cs)
    BY <1>1, <1>2, <2>1
  <2>2. CASE i > Len(cs)
    <3>1. agenda'[i] = agenda[i - Len(cs) + 1] /\ i - Len(cs) + 1 \in 2..Len(agenda)
      BY <1>1, <1>2, <2>2
    <3> QED
      BY <1>3, <3>1
  <2> QED
    BY <1>1, <1>2, <2>1, <2>2
<1>6. \A j \in 1..Len(cs) : j \in 1..Len(agenda') /\ agenda'[j] = cs[j]
  BY <1>1, <1>2
<1>7. Len(agenda) > 1 => agenda'[Len(agenda')] = agenda[Len(agenda)]
  <2> SUFFICES ASSUME Len(agenda) > 1 PROVE agenda'[Len(agenda')] = agenda[Len(agenda)]
    OBVIOUS
  <2>1. /\ Len(agenda') \in 1..Len(agenda') /\ ~(Len(agenda') <= Len(cs))
        /\ Len(agenda') - Len(cs) + 1 = Len(agenda)
    BY <1>1, <1>2
  <2> QED
    BY <1>2, <2>1
<1>8. Len(agenda) = 1 /\ cs # <<>> => agenda'[Len(agenda')] = cs[Len(cs)]
  <2> SUFFICES ASSUME Len(agenda) = 1, cs # <<>> PROVE agenda'[Len(agenda')] = cs[Len(cs)]
    OBVIOUS
  <2>1. Len(cs) # 0
    BY EmptySeq, LenProperties
  <2>2. Len(agenda') = Len(cs) /\ Len(cs) \in 1..Len(cs)
    BY <1>1, <1>2, <2>1
  <2> QED
    BY <1>6, <2>2
<1> QED
  <2>1. \A j \in 1..Len(cs) : \E i \in 1..Len(agenda') : agenda'[i] = cs[j]
    BY <1>6
  <2>2. \A j \in 2..Len(agenda) :
            /\ Moves(Head(agenda)) => agenda[j].op \in {"newTimer", "initialized"}
            /\ \E i \in 1..Len(agenda') : agenda'[i] = agenda[j]
    BY <1>3
  <2>3. OneMove(agenda')
    BY <1>4 DEF OneMove
  <2> QED
    BY <1>2, <1>5, <1>7, <1>8, <2>1, <2>2, <2>3

-----------------------------------------------------------------------------
\* Events that are no turn of the queue.
Idles == Handled \ {"NEXT_EVT", "HANDLE_FRAME_EVT"}

\* The queue still is as CallsInv has it, and the turn is not queued anew.
QueueOK   == initialized => \A i \in 1..Len(jobs) : jobs[i] \in Handled \ {"HANDLE_FRAME_EVT"}
QueueOne  == \A i, j \in 1..Len(jobs) : jobs[i] = "NEXT_EVT" /\ jobs[j] = "NEXT_EVT" => i = j
QueueKept == QueueOK' /\ QueueOne' /\ (Queued' => Queued)

\* What an event posted adds to the queue, if it is posted.
LEMMA PostedLemma ==
    ASSUME jobs \in Seq(Events), NEW es \in Seq(Handled), jobs' = Posted(jobs, es)
    PROVE  /\ jobs' \in Seq(Events) /\ Len(jobs) \in Nat /\ Len(es) \in Nat
           /\ \A i \in 1..Len(jobs') : \/ i \in 1..Len(jobs) /\ jobs'[i] = jobs[i]
                                       \/ i - Len(jobs) \in 1..Len(es) /\ jobs'[i] = es[i - Len(jobs)]
<1>1. es \in Seq(Events) /\ Len(es) \in Nat /\ Len(jobs) \in Nat
  <2>1. Handled \subseteq Events
    BY ZmodemAssumption DEF Handled, Leaving, ZEvents
  <2> QED
    BY <2>1, SeqMonotonic, LenProperties
<1>2. CASE toDelete \/ waitStop
  BY <1>1, <1>2 DEF Posted
<1>3. CASE ~(toDelete \/ waitStop)
  <2>1. /\ jobs' \in Seq(Events) /\ Len(jobs') = Len(jobs) + Len(es)
        /\ \A i \in 1..Len(jobs') : jobs'[i] = IF i <= Len(jobs) THEN jobs[i] ELSE es[i - Len(jobs)]
    BY <1>1, <1>3, ConcatProperties DEF Posted
  <2> QED
    BY <1>1, <2>1
<1> QED
  BY <1>2, <1>3

\* Events without a turn, posted behind the others.
LEMMA PostedIdle ==
    ASSUME CallsInv, jobs \in Seq(Events), NEW es \in Seq(Idles), jobs' = Posted(jobs, es),
           initialized' = initialized
    PROVE  QueueKept
<1>1. es \in Seq(Handled) /\ \A i \in 1..Len(es) : es[i] \in Idles
  <2>1. Idles \subseteq Handled
    BY DEF Idles
  <2> QED
    BY <2>1, SeqMonotonic, ElementOfSeq
<1>2. ASSUME NEW i \in 1..Len(jobs')
      PROVE  (i \in 1..Len(jobs) /\ jobs'[i] = jobs[i]) \/ jobs'[i] \in Idles
  BY <1>1, PostedLemma
<1>3. "NEXT_EVT" \notin Idles
  BY DEF Idles
<1>4. QueueOK'
  BY <1>2 DEF QueueOK, CallsInv, Idles
<1>5. QueueOne' /\ (Queued' => Queued)
  BY <1>2, <1>3 DEF QueueOne, CallsInv, Queued
<1> QED
  BY <1>4, <1>5 DEF QueueKept

\* A queue left alone.
LEMMA QueueSame == CallsInv /\ UNCHANGED <<jobs, initialized>> => QueueKept
BY DEF QueueKept, QueueOK, QueueOne, Queued, CallsInv

\* No turn is new, and what is about to end still is.
TurnsKept == (Alive' => Alive) /\ \A k \in Turns : Holds(k)' => Holds(k)

\* Until the first event is done the calls that are left lead to its end.
LEMMA BootKept ==
    ASSUME CallsInv, ~initialized, agenda \in Seq(CallSet), agenda # <<>>,
           NEW cs \in Seq(CallSet), agenda' = cs \o Rest, OneMove(cs),
           Moves(Head(agenda)) \/ \A i \in 1..Len(cs) : ~Moves(cs[i]),
           \A i \in 1..Len(cs) : cs[i].op = "initialized" => Len(agenda) = 1,
           \A i \in 1..Len(cs) : cs[i].op # "handle",
           Len(agenda) > 1 \/ (cs # <<>> /\ cs[Len(cs)].arg = "ENTRY_EVT"),
           curState' \in {"IDLE_STATE", "SEND_ZRINIT_STATE"}, UNCHANGED <<jobs, deleted>>
    PROVE  Booting'
<1>1. /\ jobs = <<>> /\ agenda[Len(agenda)].arg = "ENTRY_EVT" /\ OneMove(agenda) /\ ~deleted
      /\ \A i \in 1..Len(agenda) : agenda[i].op = "handle" => Len(agenda) = 1
  BY DEF CallsInv, Booting
<1>2. Len(agenda) \in Nat \ {0} /\ Len(cs) \in Nat
  BY EmptySeq, LenProperties
<1>3. /\ Len(agenda') = Len(cs) + Len(agenda) - 1
      /\ \A i \in 1..Len(agenda') : \/ \E j \in 1..Len(cs) : agenda'[i] = cs[j]
                                    \/ \E j \in 2..Len(agenda) : agenda'[i] = agenda[j]
      /\ Len(agenda) > 1 => agenda'[Len(agenda')] = agenda[Len(agenda)]
      /\ Len(agenda) = 1 /\ cs # <<>> => agenda'[Len(agenda')] = cs[Len(cs)]
  BY <1>1, Replaced
<1>4. agenda'[Len(agenda')].arg = "ENTRY_EVT"
  BY <1>1, <1>2, <1>3
<1>5. agenda' # <<>>
  <2>1. cs # <<>> => Len(cs) # 0
    BY EmptySeq, LenProperties
  <2>2. Len(agenda') # 0
    BY <1>2, <1>3, <2>1
  <2> QED
    BY <2>2
<1>6. ASSUME NEW i \in 1..Len(agenda') PROVE agenda'[i].op # "handle"
  <2>1. ASSUME NEW j \in 2..Len(agenda) PROVE agenda[j].op # "handle"
    <3>1. j \in 1..Len(agenda) /\ Len(agenda) # 1
      <4>1. \A n \in Nat : j \in 2..n => j \in 1..n /\ n # 1
        OBVIOUS
      <4> QED
        BY ONLY <1>2, <4>1, j \in 2..Len(agenda)
    <3> QED
      BY <1>1, <3>1
  <2> QED
    BY <1>3, <2>1
<1> QED
  BY <1>1, <1>4, <1>5, <1>6 DEF Booting

\* A call that makes calls with a turn rz has, and leads to no other turn.
LEMMA SwapTurns ==
    ASSUME CallsInv, agenda \in Seq(CallSet), agenda # <<>>,
           NEW cs \in Seq(CallSet), agenda' = cs \o Rest, OneMove(cs), QueueKept,
           Moves(Head(agenda)) \/ \A i \in 1..Len(cs) : ~Moves(cs[i]),
           Moves(Head(agenda)) \/ UNCHANGED curState,
           initialized' = initialized,
           \A i \in 1..Len(cs) : cs[i].op = "initialized" => Len(agenda) = 1,
           \A i \in 1..Len(cs) :
               /\ Fits(cs[i], curState', initialized')
               /\ TurnOf(cs[i], curState') \in
                      {"none", TurnOf(Head(agenda), curState), TurnIn(curState)},
           TurnIn(curState') \in {"none", TurnOf(Head(agenda), curState), TurnIn(curState)},
           curState \in Gone => curState' \in Gone,
           Leaves(Head(agenda)) => curState' \in Gone \/ \E i \in 1..Len(cs) : Leaves(cs[i]),
           \/ curState' = curState
           \/ /\ Queued /\ curState = "HANDLE_ZFILE_STATE" =>
                     curState' \in Gone \cup {"HANDLE_ZFILE_STATE"}
              /\ \A i \in 1..Len(cs) : TurnOf(cs[i], curState') # "go",
           ~initialized' => Booting'
    PROVE  CallsInv' /\ TurnsKept
<1>1. /\ OneMove(agenda')
      /\ \A i \in 1..Len(agenda') :
             \/ \E j \in 1..Len(cs) : agenda'[i] = cs[j]
             \/ \E j \in 2..Len(agenda) :
                    /\ agenda'[i] = agenda[j]
                    /\ Moves(Head(agenda)) => agenda[j].op \in {"newTimer", "initialized"}
      /\ \A j \in 1..Len(cs) : \E i \in 1..Len(agenda') : agenda'[i] = cs[j]
      /\ \A j \in 2..Len(agenda) :
             /\ Moves(Head(agenda)) => agenda[j].op \in {"newTimer", "initialized"}
             /\ \E i \in 1..Len(agenda') : agenda'[i] = agenda[j]
  <2>1. OneMove(agenda)
    BY DEF CallsInv
  <2> QED
    BY <2>1, Replaced
<1>2. /\ Len(agenda) \in Nat \ {0} /\ Head(agenda) = agenda[1] /\ 1 \in 1..Len(agenda)
      /\ 2..Len(agenda) \subseteq 1..Len(agenda)
      /\ \A j \in 1..Len(agenda) : j = 1 \/ j \in 2..Len(agenda)
  BY EmptySeq, LenProperties
<1>3. ASSUME NEW i \in 1..Len(agenda')
      PROVE  Fits(agenda'[i], curState', initialized')
  <2>1. CASE \E j \in 1..Len(cs) : agenda'[i] = cs[j]
    BY <2>1
  <2>2. ASSUME NEW j \in 2..Len(agenda), agenda'[i] = agenda[j],
               Moves(Head(agenda)) => agenda[j].op \in {"newTimer", "initialized"}
        PROVE  Fits(agenda'[i], curState', initialized')
    <3>1. Fits(agenda[j], curState, initialized)
      BY <1>2 DEF CallsInv
    <3> QED
      BY <2>2, <3>1, TurnsMove
  <2> QED
    BY <1>1, <2>1, <2>2
<1>4. ASSUME NEW k \in Turns, Called(k)'
      PROVE  /\ Called(k) \/ TurnIn(curState) = k
             /\ k = "go" => curState' = curState
  <2>1. PICK i \in 1..Len(agenda') : TurnOf(agenda'[i], curState') = k
    BY <1>4 DEF Called
  <2>2. k # "none"
    BY DEF Turns
  <2>3. CASE \E j \in 1..Len(cs) : agenda'[i] = cs[j]
    BY <1>2, <2>1, <2>2, <2>3 DEF Called
  <2>4. CASE \E j \in 2..Len(agenda) :
                 /\ agenda'[i] = agenda[j]
                 /\ Moves(Head(agenda)) => agenda[j].op \in {"newTimer", "initialized"}
    <3>1. ~Moves(Head(agenda))
      BY <2>1, <2>2, <2>4, TurnsMove
    <3> QED
      BY <1>2, <2>1, <2>4, <3>1 DEF Called
  <2> QED
    BY <1>1, <2>3, <2>4
<1>5. \A k \in Turns : TurnIn(curState') = k => Called(k) \/ TurnIn(curState) = k
  BY <1>2 DEF Called, Turns
<1>6. Queued' => Queued
  BY DEF QueueKept
<1>7. \A k \in Turns : Holds(k)' => Holds(k)
  BY <1>4, <1>5, <1>6 DEF Holds
<1>8. ASSUME ~Alive PROVE ~Alive'
  <2>1. CASE curState \in Gone
    BY <2>1 DEF Alive
  <2>2. CASE curState \notin Gone
    <3>1. PICK j \in 1..Len(agenda) : Leaves(agenda[j])
      BY <1>8, <2>2 DEF Alive
    <3>2. CASE j = 1
      BY <1>1, <1>2, <3>1, <3>2 DEF Alive
    <3>3. CASE j \in 2..Len(agenda)
      BY <1>1, <3>1, <3>3 DEF Alive
    <3> QED
      BY <1>2, <3>2, <3>3
  <2> QED
    BY <2>1, <2>2
<1>9. ~(Queued' /\ Called("go")')
  <2>1. "go" \in Turns /\ TurnIn(curState) # "go"
    BY DEF Turns, TurnIn
  <2> QED
    BY <1>4, <1>6, <2>1 DEF CallsInv
<1>10. ASSUME Alive', Going' PROVE curState' = "HANDLE_ZFILE_STATE"
  <2>1. "go" \in Turns /\ TurnIn(curState') # "go"
    BY DEF Turns, TurnIn
  <2>2. Alive /\ Going
    BY <1>7, <1>8, <1>10, <2>1 DEF Going
  <2>3. curState = "HANDLE_ZFILE_STATE" /\ curState' \notin Gone
    BY <1>10, <2>2 DEF CallsInv, Alive
  <2>4. CASE Called("go")'
    BY <1>4, <2>1, <2>3, <2>4
  <2>5. CASE Queued'
    BY <1>6, <2>3, <2>5
  <2> QED
    BY <1>10, <2>1, <2>4, <2>5 DEF Going, Holds
<1>11. QueueOK' /\ QueueOne'
  BY DEF QueueKept
<1> QED
  BY <1>1, <1>3, <1>7, <1>8, <1>9, <1>10, <1>11 DEF CallsInv, TurnsKept, QueueOK, QueueOne

-----------------------------------------------------------------------------
\* Actions of the table as calls.
LEMMA CallsLemma ==
    ASSUME NEW acts \in Seq(Action), NEW guard \in States \cup {AnyState}
    PROVE  /\ Calls(acts, guard) \in Seq(CallSet) /\ Len(Calls(acts, guard)) = Len(acts)
           /\ \A i \in 1..Len(acts) : /\ Calls(acts, guard)[i].op = acts[i].op
                                      /\ Calls(acts, guard)[i].arg = acts[i].arg
                                      /\ Calls(acts, guard)[i].guard = guard
           /\ OneMove(acts) => OneMove(Calls(acts, guard))
<1>1. \A i \in 1..Len(acts) : acts[i] \in Action
  BY ElementOfSeq
<1>2. ASSUME NEW a \in Action
      PROVE  [op |-> a.op, arg |-> a.arg, guard |-> guard] \in CallSet
  BY <1>2 DEF Action, CallSet, ToState, SeFunc, NEW_TIMER, CANCEL_TIMER, IGNORE_EVT, DESTROY,
              DELETE_SELF
<1>3. Calls(acts, guard) \in [1..Len(acts) -> CallSet] /\ Len(acts) \in Nat
  BY <1>1, <1>2, LenProperties DEF Calls
<1>4. Calls(acts, guard) \in Seq(CallSet) /\ Len(Calls(acts, guard)) = Len(acts)
  BY <1>3, SeqDef, LenProperties
<1>5. \A i \in 1..Len(acts) : /\ Calls(acts, guard)[i].op = acts[i].op
                              /\ Calls(acts, guard)[i].arg = acts[i].arg
                              /\ Calls(acts, guard)[i].guard = guard
  BY DEF Calls
<1>6. OneMove(acts) => OneMove(Calls(acts, guard))
  BY <1>4, <1>5 DEF OneMove, Moves
<1> QED
  BY <1>4, <1>5, <1>6

\* The next call is in the call set, and first on the stack; while the first
\* event is not done another one is behind it, unless it is that event.
LEMMA HeadCall ==
    ASSUME agenda \in Seq(CallSet), agenda # <<>>, CallsInv
    PROVE  /\ Head(agenda) = agenda[1] /\ 1 \in 1..Len(agenda) /\ Head(agenda) \in CallSet
           /\ Fits(Head(agenda), curState, initialized) /\ Len(agenda) \in Nat
           /\ ~initialized =>
                  /\ Head(agenda).op \notin {"handle", "initialized"} => Len(agenda) > 1
                  /\ Head(agenda).op = "handle" => Len(agenda) = 1
                  /\ curState \in {"IDLE_STATE", "SEND_ZRINIT_STATE"}
<1>1. Head(agenda) = agenda[1] /\ 1 \in 1..Len(agenda) /\ Head(agenda) \in CallSet /\ Len(agenda) \in Nat
  BY HeadTailProperties, EmptySeq, LenProperties
<1>2. ASSUME ~initialized
      PROVE  /\ agenda[Len(agenda)].arg = "ENTRY_EVT"
             /\ \A i \in 1..Len(agenda) : agenda[i].op = "handle" => Len(agenda) = 1
             /\ curState \in {"IDLE_STATE", "SEND_ZRINIT_STATE"}
  BY <1>2 DEF CallsInv, Booting
<1>3. ASSUME NEW c \in CallSet, c.arg = "ENTRY_EVT" PROVE c.op \in {"handle", "initialized"}
  <2>1. "ENTRY_EVT" \notin States \cup Funcs \cup {"-"}
    BY RzAssumption, ZmodemAssumption DEF RzStates, ZFuncs
  <2> QED
    BY <1>3, <2>1 DEF CallSet
<1>4. ASSUME ~initialized, Head(agenda).op \notin {"handle", "initialized"}
      PROVE  Len(agenda) > 1
  <2>1. Len(agenda) # 1
    BY <1>1, <1>2, <1>3, <1>4
  <2>2. \A n \in Nat : 1 \in 1..n /\ n # 1 => n > 1
    OBVIOUS
  <2> QED
    BY ONLY <1>1, <2>1, <2>2
<1> QED
  BY <1>1, <1>2, <1>4 DEF CallsInv

\* A call with nothing to call.
LEMMA DropKeeps ==
    ASSUME CallsInv, agenda \in Seq(CallSet), agenda # <<>>, agenda' = Rest, QueueKept,
           Head(agenda).op \notin {"handle", "initialized", "change", "enter"},
           UNCHANGED <<curState, initialized>>,
           initialized \/ UNCHANGED <<jobs, deleted>>
    PROVE  CallsInv' /\ TurnsKept
<1> DEFINE cs == <<>>
<1>1. cs \in Seq(CallSet) /\ Len(cs) = 0
  OBVIOUS
<1>2. agenda' = cs \o Rest
  <2>1. Rest \in Seq(CallSet)
    BY HeadTailProperties DEF Rest
  <2> QED
    BY <2>1, ConcatEmptySeq
<1>3. OneMove(cs) /\ \A i \in 1..Len(cs) : FALSE
  BY <1>1 DEF OneMove
<1>4. ~Leaves(Head(agenda))
  BY DEF Leaves
<1> HIDE DEF cs
<1>5. ~initialized' => Booting'
  BY <1>1, <1>2, <1>3, HeadCall, BootKept
<1> QED
  BY <1>1, <1>2, <1>3, <1>4, <1>5, SwapTurns

\* A call that makes one other call.
LEMMA OneKeeps ==
    ASSUME CallsInv, agenda \in Seq(CallSet), agenda # <<>>, Moves(Head(agenda)),
           NEW c \in CallSet, agenda' = <<c>> \o Rest, initialized,
           UNCHANGED <<curState, jobs, initialized>>,
           Fits(c, curState, TRUE), c.op # "initialized",
           TurnOf(c, curState) \in {"none", TurnOf(Head(agenda), curState), TurnIn(curState)},
           Leaves(Head(agenda)) => curState \in Gone \/ Leaves(c)
    PROVE  CallsInv' /\ TurnsKept
<1> DEFINE cs == <<c>>
<1>1. cs \in Seq(CallSet) /\ Len(cs) = 1 /\ cs[1] = c /\ \A i \in 1..Len(cs) : cs[i] = c
  OBVIOUS
<1>2. OneMove(cs) /\ agenda' = cs \o Rest /\ 1 \in 1..Len(cs)
  BY <1>1 DEF OneMove
<1>3. \A i \in 1..Len(cs) :
          /\ Fits(cs[i], curState', initialized') /\ cs[i].op # "initialized"
          /\ TurnOf(cs[i], curState') \in {"none", TurnOf(Head(agenda), curState), TurnIn(curState)}
  BY <1>1
<1>4. Leaves(Head(agenda)) => curState' \in Gone \/ \E i \in 1..Len(cs) : Leaves(cs[i])
  BY <1>1, <1>2
<1>5. QueueKept
  BY QueueSame
<1> HIDE DEF cs
<1> QED
  BY <1>1, <1>2, <1>3, <1>4, <1>5, SwapTurns

\* A call behind others.
LEMMA Behind ==
    ASSUME NEW pre \in Seq(CallSet), NEW c \in CallSet, NEW cs, cs = pre \o <<c>>
    PROVE  /\ cs \in Seq(CallSet) /\ Len(cs) = Len(pre) + 1 /\ Len(pre) \in Nat
           /\ \A i \in 1..Len(cs) : IF i <= Len(pre) THEN cs[i] = pre[i] ELSE cs[i] = c
           /\ cs[Len(cs)] = c /\ cs # <<>>
<1>1. <<c>> \in Seq(CallSet) /\ Len(<<c>>) = 1 /\ <<c>>[1] = c /\ Len(pre) \in Nat
  BY LenProperties
<1>2. cs \in Seq(CallSet) /\ Len(cs) = Len(pre) + 1
  BY <1>1, ConcatProperties
<1>3. \A i \in 1..Len(cs) : IF i <= Len(pre) THEN cs[i] = pre[i] ELSE cs[i] = c
  <2>1. \A i \in 1..Len(cs) : cs[i] = IF i <= Len(pre) THEN pre[i] ELSE <<c>>[i - Len(pre)]
    BY <1>1, <1>2, ConcatProperties
  <2>2. \A i \in 1..Len(cs) : ~(i <= Len(pre)) => i - Len(pre) = 1
    BY <1>1, <1>2
  <2> QED
    BY <1>1, <2>1, <2>2
<1>4. cs # <<>>
  BY <1>1, <1>2, EmptySeq
<1>5. cs[Len(cs)] = c
  BY <1>1, <1>2, <1>3
<1> QED
  BY <1>1, <1>2, <1>3, <1>4, <1>5

\* Calls that do not move, and one behind them.
LEMMA BeforeLast ==
    ASSUME NEW pre \in Seq(CallSet), NEW c \in CallSet,
           \A i \in 1..Len(pre) : ~Moves(pre[i]) /\ pre[i].op # "initialized"
    PROVE  /\ pre \o <<c>> \in Seq(CallSet) /\ OneMove(pre \o <<c>>)
           /\ \A i \in 1..Len(pre \o <<c>>) : \/ (pre \o <<c>>)[i] = c
                                              \/ \E j \in 1..Len(pre) : (pre \o <<c>>)[i] = pre[j]
           /\ \E i \in 1..Len(pre \o <<c>>) : (pre \o <<c>>)[i] = c
<1> DEFINE cs == pre \o <<c>>
<1>1. /\ cs \in Seq(CallSet) /\ Len(cs) = Len(pre) + 1 /\ Len(pre) \in Nat
      /\ \A i \in 1..Len(cs) : IF i <= Len(pre) THEN cs[i] = pre[i] ELSE cs[i] = c
  BY Behind
<1> HIDE DEF cs
<1>2. OneMove(cs)
  BY <1>1 DEF OneMove
<1>3. \A i \in 1..Len(cs) : cs[i] = c \/ \E j \in 1..Len(pre) : cs[i] = pre[j]
  BY <1>1
<1>4. Len(pre) + 1 \in 1..Len(cs) /\ cs[Len(pre) + 1] = c
  BY <1>1
<1> QED
  BY <1>1, <1>2, <1>3, <1>4 DEF cs

\* The first event enters the first state before it is handled.
LEMMA EnterFirstStateKeeps ==
    ASSUME CallsInv, EngineTypeOK, EnterFirstState
    PROVE  CallsInv' /\ TurnsKept
<1>1. /\ agenda \in Seq(CallSet) /\ agenda # <<>> /\ Head(agenda).op = "handle" /\ ~initialized
      /\ UNCHANGED <<curState, initialized, jobs, deleted>> /\ curState \in States
  BY DEF EnterFirstState, Calling, EngineTypeOK
<1>2. /\ Fits(Head(agenda), curState, initialized) /\ Moves(Head(agenda))
      /\ Len(agenda) = 1 /\ curState \in {"IDLE_STATE", "SEND_ZRINIT_STATE"}
  BY <1>1, HeadCall DEF Moves
<1>3. Arg = "ENTRY_EVT" /\ curState = "IDLE_STATE" /\ Arg \in Events /\ ~Leaves(Head(agenda))
  BY <1>1, <1>2, ZmodemAssumption DEF Fits, Arg, ZEvents, Leaves, Leaving
<1> DEFINE acts == Table["IDLE_STATE"]["ENTRY_EVT"]
           pre  == Calls(acts, curState)
           c    == Call("initialized", Arg)
           cs   == pre \o <<c>>
<1>4. acts \in Seq(Action)
  BY <1>1, <1>3, TableAssumption
<1>5. acts = <<SeFunc("initState"), SeFunc("sendLeadingMsg"), ToState("SEND_ZRINIT_STATE")>>
  BY TableOf
<1>6. /\ pre \in Seq(CallSet) /\ Len(pre) = 3
      /\ pre[1].op = "func" /\ pre[1].arg = "initState"
      /\ pre[2].op = "func" /\ pre[2].arg = "sendLeadingMsg"
      /\ pre[3].op = "change" /\ pre[3].arg = "SEND_ZRINIT_STATE" /\ pre[3].guard = curState
  <2>1. /\ Len(acts) = 3 /\ acts[1] = SeFunc("initState") /\ acts[2] = SeFunc("sendLeadingMsg")
        /\ acts[3] = ToState("SEND_ZRINIT_STATE")
    BY <1>5
  <2> HIDE DEF acts
  <2> QED
    BY <1>1, <1>4, <2>1, CallsLemma DEF SeFunc, ToState
<1>7. c \in CallSet /\ c.op = "initialized" /\ c.arg = "ENTRY_EVT" /\ c.guard = AnyState
  BY <1>3 DEF Call, CallSet
<1>8. agenda' = cs \o Rest
  BY <1>1, <1>3 DEF EnterFirstState
<1> HIDE DEF acts, pre, c
<1>9. /\ cs \in Seq(CallSet) /\ Len(cs) = 4 /\ cs[1] = pre[1] /\ cs[2] = pre[2] /\ cs[3] = pre[3]
      /\ cs[4] = c /\ cs # <<>>
  <2> HIDE DEF cs
  <2>1. /\ cs \in Seq(CallSet) /\ Len(cs) = Len(pre) + 1 /\ Len(pre) \in Nat
        /\ \A i \in 1..Len(cs) : IF i <= Len(pre) THEN cs[i] = pre[i] ELSE cs[i] = c
        /\ cs[Len(cs)] = c /\ cs # <<>>
    <3>1. cs = pre \o <<c>>
      BY DEF cs
    <3>2. pre \in Seq(CallSet) /\ c \in CallSet
      BY <1>6, <1>7
    <3> QED
      BY ONLY <3>1, <3>2, Behind
  <2>2. /\ Len(cs) = 4 /\ 1 \in 1..Len(cs) /\ 2 \in 1..Len(cs) /\ 3 \in 1..Len(cs)
        /\ 4 \in 1..Len(cs) /\ 1 <= Len(pre) /\ 2 <= Len(pre) /\ 3 <= Len(pre) /\ ~(4 <= Len(pre))
    BY ONLY <1>6, <2>1
  <2> QED
    BY <2>1, <2>2, Zenon
<1> HIDE DEF cs
<1>10. 1..Len(cs) = {1, 2, 3, 4}
  BY <1>9
<1>11. \A i \in 1..Len(cs) :
           /\ Moves(cs[i]) => i = 3
           /\ cs[i].op = "initialized" => i = 4
           /\ cs[i].op # "handle"
  BY <1>6, <1>7, <1>9, <1>10 DEF Moves, Movers
<1>12. OneMove(cs)
  BY <1>7, <1>9, <1>10, <1>11 DEF OneMove
<1>13. \A i \in 1..Len(cs) :
           /\ Fits(cs[i], "IDLE_STATE", FALSE)
           /\ TurnOf(cs[i], "IDLE_STATE") \in {"none", "greet"}
  BY <1>3, <1>6, <1>7, <1>9, <1>10
  DEF Fits, Edges, Homes, Movers, Moves, TurnOf, TurnOfFunc, TurnOfState
<1>14. TurnIn(curState) = "greet" /\ curState \notin Gone
  BY <1>3 DEF TurnIn, Gone
<1>15. Booting'
  <2>1. cs # <<>> /\ cs[Len(cs)].arg = "ENTRY_EVT"
    BY ONLY <1>7, <1>9
  <2> QED
    BY <1>1, <1>2, <1>3, <1>8, <1>9, <1>11, <1>12, <2>1, BootKept
<1>16. QueueKept
  BY <1>1, QueueSame
<1>17. ASSUME NEW i \in 1..Len(cs)
       PROVE  /\ Fits(cs[i], curState', initialized')
              /\ TurnOf(cs[i], curState') \in {"none", TurnOf(Head(agenda), curState), TurnIn(curState)}
  <2>1. curState' = "IDLE_STATE" /\ initialized' = FALSE
    BY <1>1, <1>3
  <2> QED
    BY ONLY <1>13, <1>14, <2>1
<1> QED
  BY <1>1, <1>2, <1>3, <1>8, <1>9, <1>12, <1>14, <1>15, <1>16, <1>17, SwapTurns

\* Then it is done: there was nothing else to handle.
LEMMA MarkInitializedKeeps ==
    ASSUME CallsInv, EngineTypeOK, MarkInitialized
    PROVE  CallsInv' /\ TurnsKept
<1>1. /\ agenda \in Seq(CallSet) /\ agenda # <<>> /\ Head(agenda).op = "initialized"
      /\ UNCHANGED <<curState, jobs>> /\ initialized' = TRUE
  BY DEF MarkInitialized, Calling, EngineTypeOK
<1>2. /\ Fits(Head(agenda), curState, initialized) /\ Head(agenda) = agenda[1]
      /\ 1 \in 1..Len(agenda) /\ Len(agenda) \in Nat
  BY <1>1, HeadCall
<1>3. Arg = "ENTRY_EVT" /\ ~initialized
  BY <1>1, <1>2 DEF Fits, Arg
<1>4. jobs = <<>> /\ curState \in {"IDLE_STATE", "SEND_ZRINIT_STATE"}
  BY <1>1, <1>3 DEF CallsInv, Booting
<1>5. Len(agenda) = 1
  <2>1. \A i \in 1..Len(agenda) : ~(1 < i)
    BY <1>1, <1>2 DEF CallsInv, OneMove
  <2>2. \A n \in Nat : 1 \in 1..n /\ (\A i \in 1..n : ~(1 < i)) => n = 1
    OBVIOUS
  <2> QED
    BY ONLY <1>2, <2>1, <2>2
<1>6. agenda' = Rest /\ Rest \in Seq(CallSet) /\ Len(Rest) = 0
  BY <1>1, <1>2, <1>3, <1>5, HeadTailProperties DEF MarkInitialized, Rest
<1>7. Len(agenda') = 0 /\ Len(jobs') = 0 /\ Len(jobs) = 0
  BY <1>1, <1>4, <1>6
<1>8. Alive
  <2>1. ~Leaves(agenda[1]) /\ \A i \in 1..Len(agenda) : i = 1
    BY <1>1, <1>2, <1>5 DEF Leaves
  <2> QED
    BY <1>4, <2>1 DEF Alive, Gone
<1>9. ~Queued' /\ \A k : ~Called(k)'
  BY <1>7 DEF Queued, Called
<1>10. \A k \in Turns : Holds(k)' => Holds(k)
  BY <1>1, <1>9 DEF Holds
<1>11. ~Going'
  BY <1>1, <1>4, <1>9 DEF Going, Holds, TurnIn
<1> QED
  BY <1>1, <1>7, <1>8, <1>9, <1>10, <1>11 DEF CallsInv, TurnsKept, OneMove

\* handleEvent calls the one action its state lists.
LEMMA HandleEventKeeps ==
    ASSUME CallsInv, EngineTypeOK, HandleEvent
    PROVE  CallsInv' /\ TurnsKept
<1>1. /\ agenda \in Seq(CallSet) /\ agenda # <<>> /\ Head(agenda).op = "handle"
      /\ UNCHANGED <<curState, jobs, initialized>> /\ initialized /\ curState \in RzStates
      /\ Table[curState][Arg] # <<>>
  BY RzAssumption DEF HandleEvent, Calling, EngineTypeOK
<1>2. Fits(Head(agenda), curState, initialized)
  BY <1>1, HeadCall
<1>3. Arg \in Handled
  BY <1>1, <1>2 DEF Fits, Arg
<1>4. PICK a \in Action : Table[curState][Arg] = <<a>> /\ LeadsTo(curState, Arg, a)
  BY <1>1, <1>3, Listed DEF Leads
<1> DEFINE c == [op |-> a.op, arg |-> a.arg, guard |-> curState]
<1>5. Calls(<<a>>, curState) = <<c>>
  BY DEF Calls
<1>6. agenda' = <<c>> \o Rest
  BY <1>4, <1>5 DEF HandleEvent
<1>7. c \in CallSet
  <2>1. <<a>> \in Seq(Action) /\ curState \in States \cup {AnyState}
    BY <1>1, RzAssumption
  <2>2. <<c>> \in Seq(CallSet)
    BY <1>5, <2>1, CallsLemma
  <2>3. Len(<<c>>) = 1 /\ <<c>>[1] = c
    OBVIOUS
  <2> HIDE DEF c
  <2> QED
    BY <2>2, <2>3, ElementOfSeq
<1>8. c.op = a.op /\ c.arg = a.arg /\ c.guard = curState
  OBVIOUS
<1> HIDE DEF c
<1>9. TurnOf(Head(agenda), curState) = TurnOfEvent(Arg, curState) /\ Moves(Head(agenda))
  BY <1>1 DEF TurnOf, Arg, Moves
<1>10. Fits(c, curState, TRUE) /\ c.op # "initialized"
  BY <1>4, <1>8 DEF LeadsTo, Fits, SeFunc, DELETE_SELF, IGNORE_EVT, Homes
<1>11. TurnOf(c, curState) \in {"none", TurnOfEvent(Arg, curState), TurnIn(curState)}
  BY <1>4, <1>8 DEF LeadsTo, TurnOf, TurnOfFunc, SeFunc, DELETE_SELF, IGNORE_EVT
<1>12. Leaves(Head(agenda)) => curState \in Gone \/ Leaves(c)
  BY <1>1, <1>4, <1>8 DEF LeadsTo, Leaves, Arg
<1> QED
  BY <1>1, <1>6, <1>7, <1>9, <1>10, <1>11, <1>12, OneKeeps

\* An event the state does not list ends the session.
LEMMA UndefinedKeeps ==
    ASSUME CallsInv, EngineTypeOK, HandleUndefinedEvent
    PROVE  CallsInv' /\ TurnsKept
<1>1. /\ agenda \in Seq(CallSet) /\ agenda # <<>> /\ Head(agenda).op = "handle"
      /\ UNCHANGED <<curState, jobs, initialized>> /\ initialized
  BY DEF HandleUndefinedEvent, Calling, EngineTypeOK
<1> DEFINE c == Call("change", "DESTROY_STATE")
<1>2. agenda' = <<c>> \o Rest
  BY RzAssumption DEF HandleUndefinedEvent
<1>3. c \in CallSet /\ c.op = "change" /\ c.arg = "DESTROY_STATE" /\ c.guard = AnyState
  BY RzAssumption DEF Call, CallSet, RzStates
<1> HIDE DEF c
<1>4. /\ Fits(c, curState, TRUE) /\ TurnOf(c, curState) = "none" /\ Moves(Head(agenda))
      /\ Leaves(c)
  BY <1>1, <1>3 DEF Fits, TurnOf, TurnOfState, Moves, Gone, Leaves
<1> QED
  BY <1>1, <1>2, <1>3, <1>4, OneKeeps

\* changeState runs the exit actions, which do not move, and enters.
LEMMA ChangeStateKeeps ==
    ASSUME CallsInv, EngineTypeOK, ChangeState
    PROVE  CallsInv' /\ TurnsKept
<1>1. /\ agenda \in Seq(CallSet) /\ agenda # <<>> /\ Head(agenda).op = "change"
      /\ UNCHANGED <<curState, initialized, jobs, deleted>>
      /\ curState \in States /\ curState \in RzStates
  BY RzAssumption DEF ChangeState, Calling, EngineTypeOK
<1>2. /\ Fits(Head(agenda), curState, initialized) /\ Head(agenda) \in CallSet
      /\ ~initialized => Len(agenda) > 1 /\ curState \in {"IDLE_STATE", "SEND_ZRINIT_STATE"}
  BY <1>1, HeadCall
<1>3. Arg \in States
  BY <1>1, <1>2 DEF CallSet, Arg
<1> DEFINE acts == Table[curState]["EXIT_EVT"]
           pre  == Calls(acts, AnyState)
           c    == Call("enter", Arg)
           cs   == pre \o <<c>>
<1>4. acts \in Seq(Action)
  BY <1>1, TableAssumption
<1>5. agenda' = cs \o Rest
  BY DEF ChangeState
<1>6. \A i \in 1..Len(acts) : /\ acts[i].op \in {"func", "cancelTimer"} /\ ~Moves(acts[i])
                              /\ acts[i].op = "func" => curState \in Homes(acts[i].arg)
  BY <1>1, EntriesAndExits
<1> HIDE DEF acts
<1>7. /\ pre \in Seq(CallSet) /\ Len(pre) = Len(acts)
      /\ \A i \in 1..Len(acts) : pre[i].op = acts[i].op /\ pre[i].arg = acts[i].arg
  BY <1>4, CallsLemma
<1>8. c \in CallSet /\ c.op = "enter" /\ c.arg = Arg /\ c.guard = AnyState
  BY <1>3 DEF Call, CallSet
<1> HIDE DEF pre, c
<1>9. ASSUME NEW j \in 1..Len(pre)
      PROVE  /\ ~Moves(pre[j]) /\ pre[j].op \in {"func", "cancelTimer"}
             /\ TurnOf(pre[j], curState) = "none" /\ Fits(pre[j], curState, initialized)
  <2>1. ~Moves(pre[j]) /\ pre[j].op \in {"func", "cancelTimer"}
    BY <1>6, <1>7 DEF Moves
  <2>2. TurnOf(pre[j], curState) = "none"
    BY <2>1, TurnsMove
  <2>3. Fits(pre[j], curState, initialized)
    BY <1>6, <1>7, <2>1 DEF Fits, Moves
  <2> QED
    BY <2>1, <2>2, <2>3
<1>10. /\ Fits(c, curState, initialized) /\ Moves(Head(agenda)) /\ c.op # "initialized"
       /\ TurnOf(c, curState) = TurnOf(Head(agenda), curState)
       /\ Leaves(Head(agenda)) => Leaves(c)
  BY <1>1, <1>2, <1>8 DEF Fits, Moves, TurnOf, Arg, Leaves
<1>11. /\ cs \in Seq(CallSet) /\ OneMove(cs)
       /\ \A i \in 1..Len(cs) : cs[i] = c \/ \E j \in 1..Len(pre) : cs[i] = pre[j]
       /\ \E i \in 1..Len(cs) : cs[i] = c
       /\ cs # <<>>
  <2>1. \A i \in 1..Len(pre) : ~Moves(pre[i]) /\ pre[i].op # "initialized"
    BY <1>9
  <2>2. pre \in Seq(CallSet) /\ c \in CallSet
    BY <1>7, <1>8
  <2>3. /\ cs \in Seq(CallSet) /\ OneMove(cs)
        /\ \A i \in 1..Len(cs) : cs[i] = c \/ \E j \in 1..Len(pre) : cs[i] = pre[j]
        /\ \E i \in 1..Len(cs) : cs[i] = c
    BY ONLY <2>1, <2>2, BeforeLast, Zenon
  <2> HIDE DEF cs
  <2>4. cs # <<>>
    <3>1. PICK i \in 1..Len(cs) : TRUE
      BY <2>3
    <3>2. Len(cs) # 0
      BY <3>1
    <3> QED
      BY <3>2
  <2> QED
    BY <2>3, <2>4
<1> HIDE DEF cs
<1>12. ASSUME NEW i \in 1..Len(cs)
       PROVE  /\ Fits(cs[i], curState', initialized')
              /\ TurnOf(cs[i], curState') \in {"none", TurnOf(Head(agenda), curState)}
              /\ cs[i].op # "initialized" /\ cs[i].op # "handle"
  <2>1. CASE cs[i] = c
    BY <1>1, <1>8, <1>10, <2>1
  <2>2. ASSUME NEW j \in 1..Len(pre), cs[i] = pre[j]
        PROVE  /\ Fits(cs[i], curState', initialized') /\ TurnOf(cs[i], curState') = "none"
               /\ cs[i].op # "initialized" /\ cs[i].op # "handle"
    BY <1>1, <1>9, <2>2
  <2> QED
    BY <1>11, <2>1, <2>2
<1>13. QueueKept /\ (Leaves(Head(agenda)) => \E i \in 1..Len(cs) : Leaves(cs[i]))
  BY <1>1, <1>10, <1>11, QueueSame
<1>14. ~initialized' => Booting'
  BY <1>1, <1>2, <1>5, <1>10, <1>11, <1>12, BootKept
<1> QED
  BY <1>1, <1>5, <1>10, <1>11, <1>12, <1>13, <1>14, SwapTurns

\* The new state runs its entry actions, of which one may move.
LEMMA EnterStateKeeps ==
    ASSUME CallsInv, EngineTypeOK, EnterState
    PROVE  CallsInv' /\ TurnsKept
<1>1. /\ agenda \in Seq(CallSet) /\ agenda # <<>> /\ Head(agenda).op = "enter"
      /\ UNCHANGED <<initialized, jobs, deleted>> /\ curState' = Arg
  BY DEF EnterState, Calling, EngineTypeOK
<1>2. /\ Fits(Head(agenda), curState, initialized) /\ Head(agenda) \in CallSet
      /\ ~initialized => Len(agenda) > 1
      /\ Head(agenda) = agenda[1] /\ 1 \in 1..Len(agenda)
  BY <1>1, HeadCall
<1>3. /\ Arg \in States /\ Arg \in RzStates /\ Moves(Head(agenda))
      /\ Arg \in Gone \/ <<curState, Arg>> \in Edges
      /\ ~initialized => Arg = "SEND_ZRINIT_STATE"
      /\ TurnOf(Head(agenda), curState) = TurnOfState(Arg)
      /\ Leaves(Head(agenda)) => Arg \in Gone
  BY <1>1, <1>2, RzAssumption DEF CallSet, Arg, Moves, Fits, TurnOf, Leaves
<1>4. Arg # "IDLE_STATE" /\ (curState \in Gone => Arg \in Gone)
  BY <1>3 DEF Edges, Gone
<1> DEFINE acts == Table[Arg]["ENTRY_EVT"]
           cs   == Calls(acts, AnyState)
<1>5. acts \in Seq(Action)
  BY <1>3, TableAssumption
<1>6. agenda' = cs \o Rest
  BY DEF EnterState
<1>7. /\ OneMove(acts)
      /\ \A i \in 1..Len(acts) :
             /\ acts[i].op \in {"func", "newTimer", "destroy"}
             /\ acts[i].op = "destroy" => Arg = "DESTROY_STATE"
             /\ acts[i].op = "func" => /\ Arg \in Homes(acts[i].arg)
                                       /\ TurnOfFunc(acts[i].arg) \in {"none", TurnOfState(Arg)}
                                       /\ Arg = "SEND_ZRINIT_STATE" => acts[i].arg = "sendZrinit"
  BY <1>3, <1>4, EntriesAndExits
<1> HIDE DEF acts
<1>8. /\ cs \in Seq(CallSet) /\ Len(cs) = Len(acts) /\ OneMove(cs)
      /\ \A i \in 1..Len(acts) :
             cs[i].op = acts[i].op /\ cs[i].arg = acts[i].arg /\ cs[i].guard = AnyState
  BY <1>5, <1>7, CallsLemma
<1> HIDE DEF cs
<1>9. ASSUME NEW i \in 1..Len(cs)
      PROVE  /\ Fits(cs[i], curState', initialized')
             /\ TurnOf(cs[i], curState') \in {"none", TurnOf(Head(agenda), curState)}
             /\ TurnOf(cs[i], curState') # "go"
             /\ cs[i].op # "initialized" /\ cs[i].op # "handle"
  <2>1. /\ cs[i].op \in {"func", "newTimer", "destroy"} /\ cs[i].guard = AnyState
        /\ cs[i].op = "destroy" => Arg = "DESTROY_STATE"
        /\ cs[i].op = "func" => /\ Arg \in Homes(cs[i].arg)
                                /\ TurnOfFunc(cs[i].arg) \in {"none", TurnOfState(Arg)}
                                /\ Arg = "SEND_ZRINIT_STATE" => cs[i].arg = "sendZrinit"
    BY <1>7, <1>8
  <2>2. TurnOf(cs[i], curState') \in {"none", TurnOf(Head(agenda), curState)}
    BY <1>3, <2>1 DEF TurnOf
  <2>3. TurnOf(cs[i], curState') # "go"
    BY <2>1 DEF TurnOf, TurnOfFunc
  <2>4. Fits(cs[i], Arg, initialized)
    BY <1>3, <2>1 DEF Fits
  <2> QED
    BY <1>1, <2>1, <2>2, <2>3, <2>4
<1>10. TurnIn(Arg) \in {"none", TurnOfState(Arg)}
  BY <1>4 DEF TurnIn, TurnOfState
<1>11. ASSUME Queued, curState = "HANDLE_ZFILE_STATE"
       PROVE  Arg \in Gone \cup {"HANDLE_ZFILE_STATE"}
  <2>1. Arg \in Gone \/ Arg \in {"HANDLE_ZFILE_STATE", "WAIT_ZDATA_STATE"}
    BY <1>3, <1>11 DEF Edges
  <2>2. Arg = "WAIT_ZDATA_STATE" => TurnOf(Head(agenda), curState) = "go"
    BY <1>3 DEF TurnOfState
  <2>3. TurnOf(Head(agenda), curState) = "go" => Called("go")
    BY <1>2 DEF Called
  <2> QED
    BY <1>11, <2>1, <2>2, <2>3 DEF CallsInv
<1>12. ~initialized' => Booting'
  BY <1>1, <1>2, <1>3, <1>6, <1>8, <1>9, BootKept
<1>13. QueueKept
  BY <1>1, QueueSame
<1> QED
  BY <1>1, <1>3, <1>4, <1>6, <1>8, <1>9, <1>10, <1>11, <1>12, <1>13, SwapTurns

\* A job starts: an event is a call now.
LEMMA PollKeeps ==
    ASSUME CallsInv, EngineTypeOK, PollJob
    PROVE  CallsInv' /\ TurnsKept
<1> DEFINE c == Call("handle", Head(jobs))
<1>1. /\ agenda = <<>> /\ jobs # <<>> /\ jobs' = Tail(jobs) /\ agenda' = <<c>>
      /\ UNCHANGED <<curState, initialized, deleted>> /\ jobs \in Seq(Events)
  BY DEF PollJob, Idle, EngineTypeOK
<1>2. /\ Len(jobs) \in Nat \ {0} /\ Head(jobs) = jobs[1] /\ Len(jobs') = Len(jobs) - 1
      /\ \A i \in 1..Len(jobs') : i + 1 \in 1..Len(jobs) /\ jobs'[i] = jobs[i + 1]
      /\ 1 \in 1..Len(jobs)
  BY <1>1, HeadTailProperties, EmptySeq, LenProperties
<1>3. c.op = "handle" /\ c.arg = Head(jobs) /\ c.guard = AnyState
  BY DEF Call
<1> HIDE DEF c
<1>4. Len(agenda') = 1 /\ agenda'[1] = c /\ Len(agenda) = 0 /\ agenda' # <<>>
  BY <1>1
<1>5. initialized => Head(jobs) \in Handled \ {"HANDLE_FRAME_EVT"}
  BY <1>2 DEF CallsInv
<1>6. ~initialized => /\ jobs = <<"ENTRY_EVT">> /\ curState = "IDLE_STATE" /\ ~deleted
                      /\ Head(jobs) = "ENTRY_EVT" /\ jobs' = <<>>
  BY <1>1 DEF CallsInv, Booting
<1>7. Fits(c, curState', initialized')
  BY <1>1, <1>3, <1>5, <1>6 DEF Fits, Handled, Leaving
<1>8. ~initialized' => Booting'
  <2> SUFFICES ASSUME ~initialized PROVE Booting'
    BY <1>1
  <2>1. agenda'[Len(agenda')].arg = "ENTRY_EVT"
    BY <1>3, <1>4, <1>6
  <2> QED
    BY <1>1, <1>4, <1>6, <2>1 DEF Booting
<1>9. Alive' => Alive
  BY <1>1, <1>4 DEF Alive
<1>10. Queued' => Queued
  BY <1>2 DEF Queued
<1>11. ASSUME Alive', Queued PROVE curState = "HANDLE_ZFILE_STATE"
  BY <1>9, <1>11 DEF CallsInv, Going, Holds
<1>12. ASSUME NEW k \in Turns, Called(k)'
       PROVE  jobs[1] = "NEXT_EVT" /\ Queued /\ k = "go"
  <2>1. TurnOf(c, curState) = k /\ k # "none"
    BY <1>1, <1>4, <1>12 DEF Called, Turns
  <2>2. TurnOfEvent(Head(jobs), curState) = k
    BY <1>3, <2>1 DEF TurnOf
  <2>3. Head(jobs) = "NEXT_EVT" /\ curState \in {"HANDLE_ZFILE_STATE", "WAIT_ZDATA_STATE", "HANDLE_ZDATA_STATE"}
    <3>1. Head(jobs) # "HANDLE_FRAME_EVT"
      BY <1>5, <1>6
    <3> QED
      BY <2>1, <2>2, <3>1 DEF TurnOfEvent
  <2>4. Queued
    BY <1>2, <2>3 DEF Queued
  <2>5. Alive
    BY <1>4, <2>3 DEF Alive, Gone
  <2>6. curState = "HANDLE_ZFILE_STATE"
    BY <2>4, <2>5 DEF CallsInv, Going, Holds
  <2> QED
    BY <1>2, <2>2, <2>3, <2>4, <2>6 DEF TurnOfEvent
<1>13. \A k \in Turns : Holds(k)' => Holds(k)
  BY <1>1, <1>10, <1>12 DEF Holds
<1>14. "go" \in Turns /\ TurnIn(curState) # "go"
  BY DEF Turns, TurnIn
<1>15. ASSUME Alive', Going' PROVE curState' = "HANDLE_ZFILE_STATE"
  BY <1>1, <1>10, <1>11, <1>12, <1>14, <1>15 DEF Going, Holds
<1>16. ~(Queued' /\ Called("go")')
  <2> SUFFICES ASSUME Queued', Called("go")' PROVE FALSE
    OBVIOUS
  <2>1. PICK i \in 1..Len(jobs') : jobs'[i] = "NEXT_EVT"
    BY DEF Queued
  <2>2. i + 1 \in 1..Len(jobs) /\ jobs[i + 1] = "NEXT_EVT" /\ jobs[1] = "NEXT_EVT" /\ i + 1 # 1
    BY <1>2, <1>12, <1>14, <2>1
  <2> QED
    BY <1>2, <2>2 DEF CallsInv
<1>17. QueueOK' /\ QueueOne'
  <2>1. QueueOK'
    BY <1>1, <1>2 DEF CallsInv, QueueOK
  <2>2. QueueOne'
    BY <1>2 DEF CallsInv, QueueOne
  <2> QED
    BY <2>1, <2>2
<1>18. OneMove(agenda') /\ \A i \in 1..Len(agenda') : Fits(agenda'[i], curState', initialized')
  BY <1>4, <1>7 DEF OneMove
<1> QED
  BY <1>8, <1>9, <1>13, <1>15, <1>16, <1>17, <1>18 DEF CallsInv, TurnsKept, QueueOK, QueueOne

\* A step of the thread between two calls.
LEMMA WorkerKeeps ==
    ASSUME CallsInv, RunFreedJob \/ LeaveLoop \/ NextTurn
    PROVE  CallsInv' /\ TurnsKept
<1>1. UNCHANGED <<curState, initialized, deleted, jobs, agenda>>
  BY DEF RunFreedJob, LeaveLoop, NextTurn
<1>2. ASSUME ~initialized PROVE Booting'
  <2>1. Booting
    BY <1>2 DEF CallsInv
  <2>2. jobs = <<"ENTRY_EVT">> => jobs # <<>>
    OBVIOUS
  <2>3. agenda = <<>> => FALSE
    BY <2>1, <2>2 DEF RunFreedJob, LeaveLoop, NextTurn, Booting
  <2> QED
    BY <1>1, <2>1, <2>3 DEF Booting
<1>3. (Alive' <=> Alive) /\ (Queued' <=> Queued) /\ \A k \in Turns : Called(k)' <=> Called(k)
  BY <1>1 DEF Alive, Queued, Called
<1>4. "go" \in Turns
  BY DEF Turns
<1>5. \A k \in Turns : Holds(k)' <=> Holds(k)
  BY <1>1, <1>3 DEF Holds
<1> QED
  BY <1>1, <1>2, <1>3, <1>4, <1>5 DEF CallsInv, TurnsKept, Going

\* Every step of the engine but those of the timers.
LEMMA EngineKeeps ==
    ASSUME CallsInv, EngineTypeOK, EngineStep
    PROVE  CallsInv' /\ TurnsKept
<1>1. CASE WorkerStep
  BY <1>1, PollKeeps, WorkerKeeps DEF WorkerStep
<1>2. ASSUME agenda # <<>>, agenda' = Rest,
             UNCHANGED <<curState, initialized, jobs, deleted>>,
             Head(agenda).op \notin {"handle", "initialized", "change", "enter"}
      PROVE  CallsInv' /\ TurnsKept
  <2>1. QueueKept /\ agenda \in Seq(CallSet)
    BY <1>2, QueueSame DEF EngineTypeOK
  <2> QED
    BY <1>2, <2>1, DropKeeps
<1>3. CASE IgnoreRest
  <2>1. /\ agenda # <<>> /\ agenda' = Rest /\ UNCHANGED <<curState, initialized, jobs, deleted>>
        /\ Head(agenda).guard \notin {AnyState, curState}
    BY <1>3 DEF IgnoreRest
  <2>2. Fits(Head(agenda), curState, initialized) /\ Head(agenda) \in CallSet
    BY <2>1, HeadCall DEF EngineTypeOK
  <2>3. ~Moves(Head(agenda))
    BY <2>1, <2>2 DEF Fits
  <2>4. Head(agenda).op # "initialized"
    BY <2>1, <2>2 DEF CallSet
  <2> QED
    BY <1>2, <2>1, <2>3, <2>4 DEF Moves
<1>4. CASE NewTimer \/ CancelTimer \/ IgnoreEvent
  BY <1>2, <1>4 DEF NewTimer, CancelTimer, IgnoreEvent, Calling
<1>5. CASE Destroy \/ DeleteSelf
  <2>1. /\ agenda # <<>> /\ agenda' = Rest /\ UNCHANGED <<curState, initialized>>
        /\ Head(agenda).op \in {"destroy", "delete"} /\ agenda \in Seq(CallSet)
        /\ jobs' = jobs \/ jobs' = Posted(jobs, <<"DESTROY_EVT">>)
    BY <1>5 DEF Destroy, DeleteSelf, Calling, EngineTypeOK
  <2>2. initialized
    BY <2>1, HeadCall DEF Fits
  <2>3. <<"DESTROY_EVT">> \in Seq(Idles)
    <3>1. "DESTROY_EVT" \in Idles
      BY DEF Idles, Handled, Leaving
    <3> QED
      BY <3>1
  <2>4. QueueKept
    BY <2>1, <2>3, PostedIdle, QueueSame DEF EngineTypeOK
  <2> QED
    BY <2>1, <2>2, <2>4, DropKeeps
<1> QED
  BY <1>1, <1>3, <1>4, <1>5, EnterFirstStateKeeps, MarkInitializedKeeps, HandleEventKeeps,
     UndefinedKeeps, ChangeStateKeeps, EnterStateKeeps DEF EngineStep, CallStep

\* The session timer ends the session.
LEMMA TimerKeeps ==
    ASSUME CallsInv, EngineTypeOK, FireFsmTimer
    PROVE  CallsInv' /\ TurnsKept
<1> DEFINE c == Call("handle", "TIMEOUT_EVT")
<1>1. /\ agenda = <<>> /\ agenda' = <<c>> /\ UNCHANGED <<curState, initialized, jobs>>
      /\ worker = "timers"
  BY DEF FireFsmTimer, Idle
<1>2. initialized
  BY <1>1 DEF CallsInv, Booting
<1>3. c.op = "handle" /\ c.arg = "TIMEOUT_EVT" /\ c.guard = AnyState
  BY DEF Call
<1> HIDE DEF c
<1>4. Len(agenda') = 1 /\ agenda'[1] = c /\ \A i \in 1..Len(agenda') : i = 1 /\ agenda'[i] = c
  BY <1>1
<1>5. /\ Fits(c, curState, TRUE) /\ TurnOf(c, curState) = "none" /\ Leaves(c)
  BY <1>3 DEF Fits, TurnOf, TurnOfEvent, Handled, Leaving, Leaves
<1>6. ~Alive'
  BY <1>4, <1>5 DEF Alive
<1>7. \A k \in Turns : ~Called(k)'
  BY <1>1, <1>4, <1>5 DEF Called, Turns
<1>8. (Queued' <=> Queued) /\ "go" \in Turns
  BY <1>1 DEF Queued, Turns
<1>9. OneMove(agenda') /\ \A i \in 1..Len(agenda') : Fits(agenda'[i], curState', initialized')
  <2>1. OneMove(agenda')
    BY <1>4 DEF OneMove
  <2>2. curState' = curState /\ initialized' = TRUE
    BY <1>1, <1>2
  <2> QED
    BY <1>4, <1>5, <2>1, <2>2, Zenon
<1> QED
  BY <1>1, <1>2, <1>6, <1>7, <1>8, <1>9 DEF CallsInv, TurnsKept, Holds

\* The input timer posts events without a turn.
LEMMA TickKeeps ==
    ASSUME CallsInv, EngineTypeOK, NEW es \in Seq(Idles), FireInputTimer(es)
    PROVE  CallsInv' /\ TurnsKept
<1>1. /\ agenda = <<>> /\ UNCHANGED <<curState, initialized, agenda>> /\ worker = "timers"
      /\ jobs' = Posted(jobs, es) /\ jobs \in Seq(Events)
  BY DEF FireInputTimer, Idle, EngineTypeOK
<1>2. initialized
  BY <1>1 DEF CallsInv, Booting
<1>3. QueueKept
  BY <1>1, PostedIdle
<1>4. (Alive' <=> Alive) /\ (Queued' => Queued) /\ \A k \in Turns : Called(k)' <=> Called(k)
  BY <1>1, <1>3 DEF Alive, QueueKept, Called
<1>5. "go" \in Turns
  BY DEF Turns
<1>6. \A k \in Turns : Holds(k)' => Holds(k)
  BY <1>1, <1>4 DEF Holds
<1> QED
  BY <1>1, <1>2, <1>3, <1>4, <1>5, <1>6 DEF CallsInv, TurnsKept, Going, QueueKept, QueueOK, QueueOne

-----------------------------------------------------------------------------
\* A function of the table runs, in a state that calls it.
LEMMA RunningLemma ==
    ASSUME CallsInv, EngineTypeOK, NEW f, Running(f)
    PROVE  /\ agenda \in Seq(CallSet) /\ agenda # <<>> /\ Head(agenda).op = "func"
           /\ curState \in Homes(f)
           /\ TurnOf(Head(agenda), curState) = TurnOfFunc(f) /\ Head(agenda) = agenda[1]
           /\ 1 \in 1..Len(agenda) /\ Len(agenda) \in Nat
           /\ \A k \in Turns : TurnOfFunc(f) = k => Called(k) /\ Holds(k)
           /\ f \in Movers =>
                  /\ Moves(Head(agenda)) /\ (curState \notin Gone => Alive)
                  /\ f # "sendZrinit" => initialized
                  /\ \A j \in 2..Len(agenda) : agenda[j].op \in {"newTimer", "initialized"}
           /\ ~initialized => curState \in {"IDLE_STATE", "SEND_ZRINIT_STATE"}
<1>1. agenda \in Seq(CallSet) /\ agenda # <<>> /\ Head(agenda).op = "func" /\ Head(agenda).arg = f
  BY DEF Running, Calling, EngineTypeOK, Arg
<1>2. /\ Head(agenda) = agenda[1] /\ 1 \in 1..Len(agenda) /\ Len(agenda) \in Nat
      /\ Fits(Head(agenda), curState, initialized)
      /\ ~initialized => curState \in {"IDLE_STATE", "SEND_ZRINIT_STATE"}
  BY <1>1, HeadCall
<1>3. curState \in Homes(f) /\ TurnOf(Head(agenda), curState) = TurnOfFunc(f)
  BY <1>1, <1>2 DEF Fits, TurnOf
<1>4. \A k \in Turns : TurnOfFunc(f) = k => Called(k) /\ Holds(k)
  BY <1>2, <1>3 DEF Called, Holds
<1>5. ASSUME f \in Movers
      PROVE  /\ Moves(Head(agenda)) /\ (curState \notin Gone => Alive)
             /\ f # "sendZrinit" => initialized
             /\ \A j \in 2..Len(agenda) : agenda[j].op \in {"newTimer", "initialized"}
  <2>1. Moves(Head(agenda)) /\ ~Leaves(Head(agenda))
    BY <1>1, <1>5 DEF Moves, Leaves
  <2>2. f # "sendZrinit" => initialized
    BY <1>1, <1>2, <1>5 DEF Fits
  <2>3. ASSUME NEW j \in 2..Len(agenda) PROVE agenda[j].op \in {"newTimer", "initialized"}
    <3>1. j \in 1..Len(agenda) /\ 1 < j
      BY <1>2
    <3> QED
      BY <1>2, <2>1, <3>1 DEF CallsInv, OneMove
  <2>4. \A j \in 1..Len(agenda) : j = 1 \/ j \in 2..Len(agenda)
    BY <1>2
  <2>5. curState \notin Gone => Alive
    BY <1>2, <2>1, <2>3, <2>4, TurnsMove DEF Alive
  <2> QED
    BY <2>1, <2>2, <2>3, <2>5
<1> QED
  BY <1>1, <1>2, <1>3, <1>4, <1>5

\* It returns: what is behind it is left.
LEMMA FuncKeeps ==
    ASSUME CallsInv, EngineTypeOK, NEW f, Running(f), NEW t, NEW q, FuncReturns(t, q, <<>>),
           q = jobs \/ (initialized /\ \E es \in Seq(Idles) : q = Posted(jobs, es))
    PROVE  /\ CallsInv' /\ TurnsKept
           /\ f \in Movers => \A k \in Turns : ~Called(k)'
<1>1. /\ agenda \in Seq(CallSet) /\ agenda # <<>> /\ Head(agenda).op = "func"
      /\ f \in Movers => \A j \in 2..Len(agenda) : agenda[j].op \in {"newTimer", "initialized"}
      /\ Len(agenda) \in Nat /\ 1 \in 1..Len(agenda)
  BY RunningLemma
<1>2. /\ jobs' = q /\ UNCHANGED <<curState, initialized, deleted>>
      /\ agenda' = <<>> \o Rest
  BY DEF FuncReturns
<1>3. /\ Rest \in Seq(CallSet) /\ Len(Rest) = Len(agenda) - 1
      /\ \A i \in 1..Len(Rest) : Rest[i] = agenda[i + 1]
  BY <1>1, HeadTailProperties DEF Rest
<1>4. agenda' = Rest
  BY <1>2, <1>3, ConcatEmptySeq
<1>5. QueueKept
  BY <1>2, PostedIdle, QueueSame DEF EngineTypeOK
<1>6. CallsInv' /\ TurnsKept
  BY <1>1, <1>2, <1>4, <1>5, DropKeeps
<1>7. ASSUME f \in Movers, NEW k \in Turns PROVE ~Called(k)'
  <2>1. ASSUME NEW i \in 1..Len(Rest) PROVE Rest[i].op \in {"newTimer", "initialized"}
    <3>1. i + 1 \in 2..Len(agenda)
      BY <1>1, <1>3
    <3> QED
      BY <1>1, <1>3, <1>7, <3>1
  <2>2. k # "none"
    BY DEF Turns
  <2> QED
    BY <1>4, <2>1, <2>2, TurnsMove DEF Called
<1> QED
  BY <1>6, <1>7

\* The ways a function may return without a turn.
LEMMA ReturnKeeps ==
    ASSUME CallsInv, EngineTypeOK, NEW f, Running(f),
           Returns \/ (initialized /\ \E e \in Idles : ReturnsPosting(e))
    PROVE  /\ CallsInv' /\ TurnsKept /\ UNCHANGED curState
           /\ f \in Movers => \A k \in Turns : ~Called(k)'
<1>1. UNCHANGED curState
  BY DEF Returns, ReturnsPosting, FuncReturns
<1>2. CASE Returns
  <2>1. FuncReturns(fsmTimer, jobs, <<>>)
    BY <1>2 DEF Returns
  <2> QED
    BY <1>1, <2>1, FuncKeeps
<1>3. ASSUME initialized, NEW e \in Idles, ReturnsPosting(e)
      PROVE  CallsInv' /\ TurnsKept /\ (f \in Movers => \A k \in Turns : ~Called(k)')
  <2>1. FuncReturns(fsmTimer, Posted(jobs, <<e>>), <<>>) /\ <<e>> \in Seq(Idles)
    BY <1>3 DEF ReturnsPosting
  <2> QED
    BY <1>3, <2>1, FuncKeeps
<1> QED
  BY <1>1, <1>2, <1>3

\* handleZfile has asked, or says where it starts: it goes to wait, next.
LEMMA NextPosted ==
    ASSUME CallsInv, EngineTypeOK, Running("handleZfile"), ReturnsPosting("NEXT_EVT"), ~Queued
    PROVE  /\ CallsInv' /\ (Alive' => Alive)
           /\ \A k \in Turns : Holds(k)' => k = "go"
<1>1. /\ agenda \in Seq(CallSet) /\ agenda # <<>> /\ Head(agenda).op = "func"
      /\ curState = "HANDLE_ZFILE_STATE" /\ initialized
      /\ UNCHANGED <<curState, initialized>>
  BY RunningLemma DEF Movers, Homes, ReturnsPosting, FuncReturns
<1>2. jobs' = Posted(jobs, <<"NEXT_EVT">>) /\ jobs \in Seq(Events)
  BY DEF ReturnsPosting, FuncReturns, EngineTypeOK
<1>3. /\ \A i \in 1..Len(jobs') : \/ i \in 1..Len(jobs) /\ jobs'[i] = jobs[i]
                                  \/ i - Len(jobs) = 1 /\ jobs'[i] = "NEXT_EVT"
      /\ Len(jobs) \in Nat
  <2>1. <<"NEXT_EVT">> \in Seq(Handled) /\ Len(<<"NEXT_EVT">>) = 1 /\ <<"NEXT_EVT">>[1] = "NEXT_EVT"
    BY DEF Handled
  <2>2. /\ Len(jobs) \in Nat
        /\ \A i \in 1..Len(jobs') : \/ i \in 1..Len(jobs) /\ jobs'[i] = jobs[i]
                                    \/ /\ i - Len(jobs) \in 1..Len(<<"NEXT_EVT">>)
                                       /\ jobs'[i] = <<"NEXT_EVT">>[i - Len(jobs)]
    BY <1>2, <2>1, PostedLemma
  <2> QED
    BY <2>1, <2>2
<1>4. QueueOK' /\ QueueOne'
  <2>1. QueueOK'
    BY <1>1, <1>3 DEF QueueOK, CallsInv, Handled
  <2>2. ASSUME NEW i \in 1..Len(jobs'), jobs'[i] = "NEXT_EVT" PROVE i = Len(jobs) + 1
    BY <1>3, <2>2 DEF Queued
  <2>3. QueueOne'
    BY <2>2 DEF QueueOne
  <2> QED
    BY <2>1, <2>3
<1>5. OneMove(agenda') /\ (\A i \in 1..Len(agenda') : Fits(agenda'[i], curState', initialized'))
      /\ (\A k \in Turns : ~Called(k)')
  <2>1. /\ \A j \in 2..Len(agenda) : agenda[j].op \in {"newTimer", "initialized"}
        /\ Len(agenda) \in Nat /\ 1 \in 1..Len(agenda)
    BY RunningLemma DEF Movers
  <2>2. /\ agenda' = Rest /\ Rest \in Seq(CallSet) /\ Len(Rest) = Len(agenda) - 1
        /\ \A i \in 1..Len(Rest) : Rest[i] = agenda[i + 1]
    <3>1. /\ Rest \in Seq(CallSet) /\ Len(Rest) = Len(agenda) - 1
          /\ \A i \in 1..Len(Rest) : Rest[i] = agenda[i + 1]
      BY <1>1, HeadTailProperties DEF Rest
    <3>2. agenda' = <<>> \o Rest
      BY DEF ReturnsPosting, FuncReturns
    <3> QED
      BY <3>1, <3>2, ConcatEmptySeq
  <2>3. ASSUME NEW i \in 1..Len(Rest)
        PROVE  i + 1 \in 1..Len(agenda) /\ i + 1 \in 2..Len(agenda) /\ agenda'[i] = agenda[i + 1]
    BY <2>1, <2>2
  <2>4. OneMove(agenda')
    <3>1. ASSUME NEW i \in 1..Len(Rest), NEW j \in 1..Len(Rest), i < j
          PROVE  i + 1 < j + 1
      BY <2>1, <2>2, <3>1
    <3> QED
      BY <2>2, <2>3, <3>1 DEF OneMove, CallsInv
  <2>5. \A k \in Turns : ~Called(k)'
    <3>1. \A k \in Turns : k # "none"
      BY DEF Turns
    <3> QED
      BY <2>1, <2>2, <2>3, <3>1, TurnsMove DEF Called
  <2>6. \A i \in 1..Len(agenda') : Fits(agenda'[i], curState', initialized')
    <3>1. curState' = curState /\ initialized' = initialized
      BY <1>1
    <3> QED
      BY <2>2, <2>3, <3>1 DEF CallsInv
  <2> QED
    BY <2>4, <2>5, <2>6
<1>6. Alive
  BY <1>1, RunningLemma DEF Movers, Gone
<1>7. "go" \in Turns /\ TurnIn(curState) = "none" /\ \A k \in Turns : k # "none"
  BY <1>1 DEF Turns, TurnIn
<1>8. CallsInv'
  BY <1>1, <1>4, <1>5, <1>7 DEF CallsInv, QueueOK, QueueOne
<1> QED
  BY <1>1, <1>5, <1>6, <1>7, <1>8 DEF Holds

\* A function handles an event as the last thing it does.
LEMMA HandsOver ==
    ASSUME CallsInv, EngineTypeOK, NEW f \in Movers \ {"sendZrinit"}, Running(f),
           NEW e \in {"NEXT_EVT", "RESET_EVT", "HANDLE_FRAME_EVT"},
           FuncReturns(fsmTimer, jobs, <<Call("handle", e)>>), TurnOfEvent(e, curState) # "go"
    PROVE  /\ CallsInv' /\ (Alive' => Alive) /\ (e = "RESET_EVT" => ~Alive')
           /\ \A k \in Turns : Called(k)' => k = TurnOfEvent(e, curState)
           /\ UNCHANGED <<curState, jobs>>
<1> DEFINE c == Call("handle", e)
           cs == <<c>>
<1>1. /\ agenda \in Seq(CallSet) /\ agenda # <<>> /\ Moves(Head(agenda)) /\ initialized
      /\ (curState \notin Gone => Alive)
  BY RunningLemma
<1>2. /\ UNCHANGED <<curState, initialized, jobs>> /\ agenda' = cs \o Rest
  BY DEF FuncReturns
<1>3. c \in CallSet /\ c.op = "handle" /\ c.arg = e /\ c.guard = AnyState
  BY TableAssumption, ZmodemAssumption DEF Call, CallSet, ZEvents
<1> HIDE DEF c
<1>4. cs \in Seq(CallSet) /\ Len(cs) = 1 /\ \A i \in 1..Len(cs) : cs[i] = c
  BY <1>3
<1>5. 1 \in 1..Len(cs) /\ OneMove(cs) /\ \A i \in 1..Len(cs) : cs[i].op # "initialized"
  BY <1>3, <1>4 DEF OneMove
<1> HIDE DEF cs
<1>6. /\ OneMove(agenda')
      /\ \A i \in 1..Len(agenda') :
             \/ \E j \in 1..Len(cs) : agenda'[i] = cs[j]
             \/ \E j \in 2..Len(agenda) :
                    /\ agenda'[i] = agenda[j]
                    /\ Moves(Head(agenda)) => agenda[j].op \in {"newTimer", "initialized"}
      /\ \A j \in 1..Len(cs) : \E i \in 1..Len(agenda') : agenda'[i] = cs[j]
  <2>1. OneMove(agenda)
    BY DEF CallsInv
  <2> QED
    BY <1>1, <1>2, <1>4, <1>5, <2>1, Replaced
<1>7. Fits(c, curState, TRUE) /\ TurnOf(c, curState) = TurnOfEvent(e, curState)
      /\ (e = "RESET_EVT" => Leaves(c))
  BY <1>3 DEF Fits, TurnOf, Handled, Leaving, Leaves
<1>8. ASSUME NEW i \in 1..Len(agenda')
      PROVE  agenda'[i] = c \/ \E j \in 2..Len(agenda) : agenda'[i] = agenda[j]
                                         /\ agenda[j].op \in {"newTimer", "initialized"}
  BY <1>1, <1>4, <1>6
<1>9. \A j \in 2..Len(agenda) : j \in 1..Len(agenda)
  OBVIOUS
<1>10. \A i \in 1..Len(agenda') : Fits(agenda'[i], curState', initialized')
  <2>1. curState' = curState /\ initialized' = TRUE /\ initialized = TRUE
    BY <1>1, <1>2 DEF EngineTypeOK
  <2>2. \A j \in 1..Len(agenda) : Fits(agenda[j], curState, initialized)
    BY DEF CallsInv
  <2> QED
    BY <1>7, <1>8, <1>9, <2>1, <2>2
<1>11. ASSUME NEW k \in Turns, Called(k)' PROVE k = TurnOfEvent(e, curState)
  <2>1. k # "none"
    BY DEF Turns
  <2>2. PICK i \in 1..Len(agenda') : TurnOf(agenda'[i], curState) = k
    BY <1>2, <1>11 DEF Called
  <2> QED
    BY <1>7, <1>8, <2>1, <2>2, TurnsMove
<1>12. e = "RESET_EVT" => ~Alive'
  BY <1>4, <1>5, <1>6, <1>7 DEF Alive
<1>13. Alive' => Alive
  BY <1>1, <1>2 DEF Alive
<1>14. (Queued' <=> Queued) /\ "go" \in Turns /\ TurnIn(curState) # "go"
  BY <1>2 DEF Queued, Turns, TurnIn
<1>15. ~Called("go")'
  BY <1>11, <1>14
<1>16. Going' => Going
  BY <1>2, <1>14, <1>15 DEF Going, Holds
<1>17. CallsInv'
  BY <1>1, <1>2, <1>6, <1>10, <1>13, <1>14, <1>15, <1>16 DEF CallsInv
<1> QED
  BY <1>2, <1>11, <1>12, <1>13, <1>17

-----------------------------------------------------------------------------
(***************************************************************************)
(* What is on its way to rz.  Reading takes nothing from it and adds       *)
(* nothing; the terminal adds to its end; rz takes from its front, or      *)
(* tears a header that is in it.                                           *)
(***************************************************************************)

\* The tokens on their way, whole again.
Wholes == Answers \cup {Torn(t) : t \in Answers}

\* The whole token of each, and its type.
LEMMA WholesLemma ==
    /\ \A t \in Buffered(Answers) : Core(t) \in Wholes
    /\ \A t \in Answers : Core(t) = t /\ Core(Part(t)) = t /\ t.type \notin {"part", "torn", "rest"}
    /\ \A t \in Wholes : t.type = "torn" \/ t \in Answers
    /\ Answers \subseteq Wholes
<1>1. ASSUME NEW t \in Answers
      PROVE  /\ t.type \notin {"part", "torn", "rest"} /\ Core(t) = t /\ Core(Part(t)) = t
             /\ Torn(t).type = "torn" /\ Core(Torn(t)) = Torn(t)
  BY TokensLemma DEF Writable, HeaderTypes, Core, Part, Torn
<1>2. ASSUME NEW t \in Buffered(Answers) PROVE Core(t) \in Wholes
  BY <1>1 DEF Buffered, Wholes
<1> QED
  BY <1>1, <1>2 DEF Wholes

\* The tokens of a buffer.
LEMMA CoresLemma ==
    ASSUME NEW u \in Seq(Buffered(Answers))
    PROVE  /\ Cores(u) \in Seq(Wholes) /\ Len(Cores(u)) = Len(u)
           /\ \A i \in 1..Len(u) : Cores(u)[i] = Core(u[i])
           /\ u \in Seq(Answers) => Cores(u) = u
<1>1. Len(u) \in Nat
  BY LenProperties
<1>2. Cores(u) \in [1..Len(u) -> Wholes]
  <2>1. \A i \in 1..Len(u) : Core(u[i]) \in Wholes
    BY ElementOfSeq, WholesLemma
  <2> QED
    BY <2>1 DEF Cores
<1>3. Cores(u) \in Seq(Wholes) /\ Len(Cores(u)) = Len(u)
  BY <1>1, <1>2, SeqDef, LenProperties
<1>4. \A i \in 1..Len(u) : Cores(u)[i] = Core(u[i])
  BY DEF Cores
<1>5. ASSUME u \in Seq(Answers) PROVE Cores(u) = u
  <2>1. u \in Seq(Wholes)
    BY <1>5, WholesLemma, SeqMonotonic
  <2>2. \A i \in 1..Len(u) : Cores(u)[i] = u[i]
    BY <1>4, <1>5, ElementOfSeq, WholesLemma
  <2> QED
    BY <1>3, <2>1, <2>2, SeqEqual
<1> QED
  BY <1>3, <1>4, <1>5

\* The tokens of two.
LEMMA CoresConcat ==
    ASSUME NEW u \in Seq(Buffered(Answers)), NEW v \in Seq(Buffered(Answers))
    PROVE  Cores(u \o v) = Cores(u) \o Cores(v)
<1>1. /\ u \o v \in Seq(Buffered(Answers)) /\ Len(u \o v) = Len(u) + Len(v)
      /\ \A i \in 1..Len(u) + Len(v) : (u \o v)[i] = IF i <= Len(u) THEN u[i] ELSE v[i - Len(u)]
      /\ Len(u) \in Nat /\ Len(v) \in Nat
  BY ConcatProperties, LenProperties
<1>2. /\ Cores(u \o v) \in Seq(Wholes) /\ Len(Cores(u \o v)) = Len(u) + Len(v)
      /\ \A i \in 1..Len(u) + Len(v) : Cores(u \o v)[i] = Core((u \o v)[i])
  BY <1>1, CoresLemma
<1>3. /\ Cores(u) \in Seq(Wholes) /\ Len(Cores(u)) = Len(u)
      /\ \A i \in 1..Len(u) : Cores(u)[i] = Core(u[i])
      /\ Cores(v) \in Seq(Wholes) /\ Len(Cores(v)) = Len(v)
      /\ \A i \in 1..Len(v) : Cores(v)[i] = Core(v[i])
  BY CoresLemma
<1>4. /\ Cores(u) \o Cores(v) \in Seq(Wholes) /\ Len(Cores(u) \o Cores(v)) = Len(u) + Len(v)
      /\ \A i \in 1..Len(u) + Len(v) :
             (Cores(u) \o Cores(v))[i] = IF i <= Len(u) THEN Cores(u)[i] ELSE Cores(v)[i - Len(u)]
  <2> DEFINE cu == Cores(u)
             cv == Cores(v)
  <2>1. cu \in Seq(Wholes) /\ cv \in Seq(Wholes) /\ Len(cu) = Len(u) /\ Len(cv) = Len(v)
    BY <1>3
  <2> HIDE DEF cu, cv
  <2>2. /\ cu \o cv \in Seq(Wholes) /\ Len(cu \o cv) = Len(cu) + Len(cv)
        /\ \A i \in 1..Len(cu) + Len(cv) : (cu \o cv)[i] = IF i <= Len(cu) THEN cu[i] ELSE cv[i - Len(cu)]
    BY ONLY <2>1, ConcatProperties
  <2>3. /\ cu \o cv \in Seq(Wholes) /\ Len(cu \o cv) = Len(u) + Len(v)
        /\ \A i \in 1..Len(u) + Len(v) : (cu \o cv)[i] = IF i <= Len(u) THEN cu[i] ELSE cv[i - Len(u)]
    BY ONLY <2>1, <2>2
  <2> QED
    BY <2>3 DEF cu, cv
<1>5. ASSUME NEW i \in 1..Len(u) + Len(v)
      PROVE  Cores(u \o v)[i] = (Cores(u) \o Cores(v))[i]
  <2>1. CASE i <= Len(u)
    BY <1>1, <1>2, <1>3, <1>4, <2>1
  <2>2. CASE ~(i <= Len(u))
    <3>1. i - Len(u) \in 1..Len(v)
      BY <1>1, <2>2
    <3> QED
      BY <1>1, <1>2, <1>3, <1>4, <2>2, <3>1
  <2> QED
    BY <2>1, <2>2
<1> QED
  BY <1>2, <1>4, <1>5, SeqEqual

\* The part of the tokens u behind place k.
LEMMA AfterLemma ==
    ASSUME NEW S, NEW u \in Seq(S), NEW k \in 0..Len(u)
    PROVE  /\ After(u, k) \in Seq(S) /\ Len(After(u, k)) = Len(u) - k /\ Len(u) \in Nat
           /\ \A i \in 1..Len(u) - k : After(u, k)[i] = u[k + i]
           /\ k = 0 => After(u, k) = u
<1>1. Len(u) \in Nat /\ k + 1 \in Int /\ Len(u) \in Int
  BY LenProperties
<1>2. \A i \in k + 1..Len(u) : u[i] \in S
  BY <1>1, ElementOfSeq
<1>3. /\ After(u, k) \in Seq(S)
      /\ Len(After(u, k)) = IF k + 1 <= Len(u) THEN Len(u) - (k + 1) + 1 ELSE 0
      /\ \A i \in 1..Len(u) - (k + 1) + 1 : After(u, k)[i] = u[k + 1 + i - 1]
  BY <1>1, <1>2, SubSeqProperties DEF After
<1>4. Len(After(u, k)) = Len(u) - k
  BY <1>1, <1>3
<1>5. \A i \in 1..Len(u) - k : After(u, k)[i] = u[k + i]
  <2>1. ASSUME NEW i \in 1..Len(u) - k PROVE After(u, k)[i] = u[k + i]
    <3>1. i \in 1..Len(u) - (k + 1) + 1 /\ k + 1 + i - 1 = k + i
      BY <1>1
    <3> QED
      BY <1>3, <3>1
  <2> QED
    BY <2>1
<1>6. k = 0 => After(u, k) = u
  BY SubSeqFull DEF After
<1> QED
  BY <1>1, <1>3, <1>4, <1>5, <1>6

\* The tokens of a line of the terminal.
LEMMA ComingLemma ==
    ASSUME NEW S, NEW line \in Lines(S)
    PROVE  /\ Coming(line) \in Seq(S) /\ Coming(line) \in Seq(Buffered(S))
           /\ \/ Coming(line) = line /\ line \in Seq(S)
              \/ /\ line # <<>> /\ Head(line).type = "rest" /\ Coming(line) = Tail(line)
                 /\ Coming(line) = After(line, 1)
           /\ Len(line) \in Nat
<1>1. line \in Seq(S \cup {RestOfToken}) /\ \A i \in 2..Len(line) : line[i] \in S
  BY DEF Lines
<1>2. Len(line) \in Nat
  BY <1>1, LenProperties
<1>3. CASE line # <<>> /\ Head(line).type = "rest"
  <2>1. /\ Tail(line) \in Seq(S \cup {RestOfToken}) /\ Len(Tail(line)) = Len(line) - 1
        /\ \A i \in 1..Len(Tail(line)) : Tail(line)[i] = line[i + 1]
    BY <1>1, <1>3, HeadTailProperties
  <2>2. ASSUME NEW i \in 1..Len(Tail(line)) PROVE Tail(line)[i] \in S
    <3>1. i + 1 \in 2..Len(line)
      BY <1>2, <2>1
    <3> QED
      BY <1>1, <2>1, <3>1
  <2>3. Tail(line) \in Seq(S)
    BY <2>1, <2>2, SeqOver
  <2>4. Tail(line) = After(line, 1)
    BY <1>1, <1>3, TailIsSubSeq DEF After
  <2>5. Tail(line) \in Seq(Buffered(S))
    BY <2>3, SeqMonotonic DEF Buffered
  <2> QED
    BY <1>2, <1>3, <2>3, <2>4, <2>5 DEF Coming
<1>4. CASE ~(line # <<>> /\ Head(line).type = "rest")
  <2>1. ASSUME NEW i \in 1..Len(line) PROVE line[i] \in S
    <3>1. CASE i = 1
      <4>1. line # <<>> /\ Head(line) = line[1]
        BY <1>1, <1>2, <3>1, EmptySeq
      <4>2. line[1] \in S \cup {RestOfToken}
        BY <1>1, <3>1, ElementOfSeq
      <4>3. RestOfToken.type = "rest"
        BY DEF RestOfToken
      <4> QED
        BY <1>4, <3>1, <4>1, <4>2, <4>3
    <3>2. CASE i # 1
      <4>1. i \in 2..Len(line)
        BY <1>2, <3>2
      <4> QED
        BY <1>1, <4>1
    <3> QED
      BY <3>1, <3>2
  <2>2. line \in Seq(S)
    BY <1>1, <2>1, SeqOver
  <2>3. line \in Seq(Buffered(S))
    BY <2>2, SeqMonotonic DEF Buffered
  <2> QED
    BY <1>2, <1>4, <2>2, <2>3 DEF Coming
<1> QED
  BY <1>3, <1>4

\* What is on its way is a sequence of whole tokens.
LEMMA IncLemma ==
    ASSUME LineTypeOK
    PROVE  /\ Inc \in Seq(Wholes) /\ Len(Inc) \in Nat
           /\ Cores(bufferM) \in Seq(Wholes) /\ Coming(toProgram) \in Seq(Wholes)
           /\ Len(Inc) = Len(bufferM) + Len(Coming(toProgram)) /\ Len(bufferM) \in Nat
           /\ Len(Coming(toProgram)) \in Nat
           /\ \A i \in 1..Len(Inc) : Inc[i] = IF i <= Len(bufferM) THEN Core(bufferM[i])
                                              ELSE Coming(toProgram)[i - Len(bufferM)]
<1>1. bufferM \in Seq(Buffered(Answers)) /\ toProgram \in Lines(Answers)
  BY DEF LineTypeOK
<1>2. /\ Cores(bufferM) \in Seq(Wholes) /\ Len(Cores(bufferM)) = Len(bufferM)
      /\ \A i \in 1..Len(bufferM) : Cores(bufferM)[i] = Core(bufferM[i])
      /\ Len(bufferM) \in Nat
  BY <1>1, CoresLemma, LenProperties
<1>3. Coming(toProgram) \in Seq(Wholes) /\ Len(Coming(toProgram)) \in Nat
  BY <1>1, ComingLemma, WholesLemma, SeqMonotonic, LenProperties
<1>4. /\ Inc \in Seq(Wholes) /\ Len(Inc) = Len(bufferM) + Len(Coming(toProgram))
      /\ \A i \in 1..Len(Inc) : Inc[i] = IF i <= Len(bufferM) THEN Cores(bufferM)[i]
                                         ELSE Coming(toProgram)[i - Len(bufferM)]
  <2> DEFINE cu == Cores(bufferM)
             cv == Coming(toProgram)
  <2>1. cu \in Seq(Wholes) /\ cv \in Seq(Wholes) /\ Len(cu) = Len(bufferM) /\ Inc = cu \o cv
    BY <1>2, <1>3 DEF Inc
  <2> HIDE DEF cu, cv
  <2>2. /\ cu \o cv \in Seq(Wholes) /\ Len(cu \o cv) = Len(cu) + Len(cv)
        /\ \A i \in 1..Len(cu) + Len(cv) : (cu \o cv)[i] = IF i <= Len(cu) THEN cu[i] ELSE cv[i - Len(cu)]
    BY ONLY <2>1, ConcatProperties
  <2>3. /\ Inc \in Seq(Wholes) /\ Len(Inc) = Len(bufferM) + Len(cv)
        /\ \A i \in 1..Len(Inc) : Inc[i] = IF i <= Len(bufferM) THEN cu[i] ELSE cv[i - Len(bufferM)]
    BY ONLY <2>1, <2>2
  <2> QED
    BY <2>3 DEF cu, cv
<1> QED
  BY <1>2, <1>3, <1>4

\* A read takes the first n tokens off the line; of the last it may leave a rest
\* there.
Takes(line, n, taken, rest) ==
    /\ n \in 1..Len(line) /\ taken \in Lines(Buffered(Answers)) /\ Len(taken) = n
    /\ rest = After(line, n) \/ rest = <<RestOfToken>> \o After(line, n)
    /\ \A i \in 1..n : \/ taken[i] = line[i]
                       \/ line[i] \in Answers /\ taken[i] = Part(line[i])

\* None of them is lost, and none is there twice.
LEMMA TakenLemma ==
    ASSUME NEW line \in Lines(Answers), line # <<>>, NEW n, NEW taken, NEW rest,
           Takes(line, n, taken, rest)
    PROVE  Cores(Coming(taken)) \o Coming(rest) = Coming(line)
<1> USE DEF Takes
<1> DEFINE k == IF Head(line).type = "rest" THEN 1 ELSE 0
           v == After(line, n)
<1>1. /\ Len(line) \in Nat /\ n \in Nat /\ n <= Len(line) /\ n >= 1 /\ n \in 0..Len(line)
      /\ k \in {0, 1} /\ k <= n /\ k \in 0..n /\ k \in 0..Len(line)
      /\ line \in Seq(Answers \cup {RestOfToken})
  BY LenProperties DEF Lines
<1>2. Head(line) = line[1] /\ Head(taken) = taken[1] /\ taken # <<>>
  <2>1. Len(taken) # 0
    BY <1>1
  <2> QED
    BY <2>1
<1>3. /\ Coming(line) = After(line, k) /\ Coming(line) \in Seq(Answers)
      /\ \A i \in 1..Len(line) : i > k => line[i] \in Answers
  <2>1. Coming(line) \in Seq(Answers)
    BY ComingLemma
  <2>2. CASE k = 1
    <3>1. \A i \in 1..Len(line) : i > 1 => i \in 2..Len(line)
      BY <1>1
    <3>2. Coming(line) = After(line, 1)
      BY <2>2, TailIsSubSeq, <1>1 DEF Coming, After
    <3> QED
      BY <2>1, <2>2, <3>1, <3>2 DEF Lines
  <2>3. CASE k = 0
    <3>1. Coming(line) = line
      BY <2>3 DEF Coming
    <3>2. After(line, 0) = line
      BY <1>1, SubSeqFull DEF After
    <3> QED
      BY <2>1, <2>3, <3>1, <3>2, ElementOfSeq
  <2> QED
    BY <1>1, <2>2, <2>3
<1>4. Coming(taken) = After(taken, k) /\ Coming(taken) \in Seq(Buffered(Answers))
  <2>1. Head(taken).type = "rest" <=> Head(line).type = "rest"
    <3>1. CASE taken[1] = line[1]
      BY <1>2, <3>1
    <3>2. CASE line[1] \in Answers /\ taken[1] = Part(line[1])
      BY <1>2, <3>2, WholesLemma DEF Part
    <3> QED
      BY <1>1, <3>1, <3>2
  <2>2. Coming(taken) \in Seq(Buffered(Answers))
    BY ComingLemma
  <2>3. taken \in Seq(Buffered(Answers) \cup {RestOfToken})
    BY DEF Lines
  <2>4. CASE k = 1
    BY <1>2, <2>1, <2>2, <2>3, <2>4, TailIsSubSeq DEF Coming, After
  <2>5. CASE k = 0
    <3>1. Coming(taken) = taken
      BY <2>1, <2>5 DEF Coming
    <3>2. After(taken, 0) = taken
      BY <2>3, SubSeqFull DEF After
    <3> QED
      BY <2>2, <2>5, <3>1, <3>2
  <2> QED
    BY <1>1, <2>4, <2>5
<1>5. /\ v \in Seq(Answers) /\ Len(v) = Len(line) - n
      /\ \A i \in 1..Len(line) - n : v[i] = line[n + i]
  <2>1. /\ v \in Seq(Answers \cup {RestOfToken}) /\ Len(v) = Len(line) - n
        /\ \A i \in 1..Len(line) - n : v[i] = line[n + i]
    BY <1>1, AfterLemma
  <2>2. \A i \in 1..Len(v) : v[i] \in Answers
    <3>1. \A i \in 1..Len(line) - n : n + i \in 1..Len(line) /\ n + i > k
      BY <1>1
    <3> QED
      BY <1>3, <2>1, <3>1
  <2> QED
    BY <2>1, <2>2, SeqOver
<1>6. Coming(rest) = v
  <2>1. CASE rest = v
    <3>1. v # <<>> => Head(v).type # "rest"
      BY <1>5, HeadTailProperties, WholesLemma
    <3> QED
      BY <2>1, <3>1 DEF Coming
  <2>2. CASE rest = <<RestOfToken>> \o v
    <3> HIDE DEF v
    <3>1. rest # <<>> /\ Head(rest) = RestOfToken /\ Tail(rest) = v
      BY <1>5, <2>2
    <3> QED
      BY <3>1 DEF Coming, RestOfToken
  <2> QED
    BY <2>1, <2>2
<1>7. /\ Len(After(taken, k)) = n - k
      /\ \A i \in 1..n - k : After(taken, k)[i] = taken[k + i]
  <2>1. taken \in Seq(Buffered(Answers) \cup {RestOfToken}) /\ k \in 0..Len(taken)
    BY <1>1 DEF Lines
  <2> HIDE DEF k
  <2>2. /\ Len(After(taken, k)) = Len(taken) - k
        /\ \A i \in 1..Len(taken) - k : After(taken, k)[i] = taken[k + i]
    BY ONLY <2>1, AfterLemma
  <2> QED
    BY <2>2
<1> DEFINE w == Cores(Coming(taken))
<1>8. /\ w \in Seq(Wholes) /\ Len(w) = n - k /\ \A i \in 1..n - k : w[i] = line[k + i]
  <2>1. /\ w \in Seq(Wholes) /\ Len(w) = n - k /\ \A i \in 1..n - k : w[i] = Core(taken[k + i])
    <3> DEFINE u == Coming(taken)
    <3>1. u \in Seq(Buffered(Answers)) /\ Len(u) = n - k /\ \A i \in 1..n - k : u[i] = taken[k + i]
      BY <1>4, <1>7
    <3> HIDE DEF u
    <3>2. /\ Cores(u) \in Seq(Wholes) /\ Len(Cores(u)) = Len(u)
          /\ \A i \in 1..Len(u) : Cores(u)[i] = Core(u[i])
      BY ONLY <3>1, CoresLemma
    <3> QED
      BY <3>1, <3>2 DEF u
  <2>2. ASSUME NEW i \in 1..n - k PROVE Core(taken[k + i]) = line[k + i]
    <3>1. k + i \in 1..n /\ k + i \in 1..Len(line) /\ k + i > k
      BY <1>1
    <3>2. line[k + i] \in Answers
      BY <1>3, <3>1
    <3> QED
      BY <3>1, <3>2, WholesLemma
  <2> QED
    BY <2>1, <2>2
<1>9. /\ Coming(line) \in Seq(Wholes) /\ Len(Coming(line)) = Len(line) - k
      /\ \A i \in 1..Len(line) - k : Coming(line)[i] = line[k + i]
  <2>1. line \in Seq(Answers \cup {RestOfToken}) /\ k \in 0..Len(line)
    BY <1>1
  <2>2. Coming(line) \in Seq(Wholes) /\ Coming(line) = After(line, k)
    BY <1>3, WholesLemma, SeqMonotonic
  <2> HIDE DEF k
  <2>3. /\ Len(After(line, k)) = Len(line) - k
        /\ \A i \in 1..Len(line) - k : After(line, k)[i] = line[k + i]
    BY ONLY <2>1, AfterLemma
  <2> QED
    BY <2>2, <2>3
<1> HIDE DEF w, v, k
<1>10. v \in Seq(Wholes)
  BY <1>5, WholesLemma, SeqMonotonic
<1>11. /\ w \o v \in Seq(Wholes) /\ Len(w \o v) = Len(w) + Len(v)
       /\ \A i \in 1..Len(w) + Len(v) : (w \o v)[i] = IF i <= Len(w) THEN w[i] ELSE v[i - Len(w)]
  BY ONLY <1>8, <1>10, ConcatProperties
<1>12. Len(w) + Len(v) = Len(line) - k
  BY <1>1, <1>5, <1>8
<1>13. ASSUME NEW i \in 1..Len(line) - k
       PROVE  (w \o v)[i] = line[k + i]
  <2>1. (w \o v)[i] = IF i <= n - k THEN w[i] ELSE v[i - (n - k)]
    BY <1>8, <1>11, <1>12
  <2>2. CASE i <= n - k
    <3>1. i \in 1..n - k
      BY <1>1, <2>2
    <3> QED
      BY <1>8, <2>1, <2>2, <3>1
  <2>3. CASE ~(i <= n - k)
    <3>1. i - (n - k) \in 1..Len(line) - n /\ n + (i - (n - k)) = k + i
      BY <1>1, <2>3
    <3> QED
      BY <1>5, <2>1, <2>3, <3>1
  <2> QED
    BY <2>2, <2>3
<1>14. w \o v = Coming(line)
  BY <1>9, <1>11, <1>12, <1>13, SeqEqual
<1> QED
  BY <1>6, <1>14 DEF w

\* The buffer after a read.
LEMMA ReceivedCores ==
    ASSUME NEW buffer \in Seq(Buffered(Answers)), NEW taken \in Lines(Buffered(Answers))
    PROVE  Cores(Received(buffer, taken)) = Cores(buffer) \o Cores(Coming(taken))
<1>1. Coming(taken) \in Seq(Buffered(Answers))
  BY ComingLemma
<1>2. CASE taken = <<>> \/ Head(taken).type # "rest"
  <2>1. Received(buffer, taken) = buffer \o Coming(taken)
    BY <1>2 DEF Received, Coming
  <2> QED
    BY <1>1, <2>1, CoresConcat
<1>3. CASE taken # <<>> /\ Head(taken).type = "rest" /\ buffer # <<>> /\ Last(buffer).type = "part"
  <2> DEFINE a == Front(buffer)  b == <<Last(buffer).arg>>  c == Tail(taken)
             n == Len(buffer)
  <2>1. Received(buffer, taken) = (a \o b) \o c /\ c = Coming(taken)
    BY <1>3 DEF Received, Coming
  <2>2. n \in Nat \ {0} /\ Last(buffer) = buffer[n] /\ buffer[n] \in Buffered(Answers)
    BY <1>3, EmptySeq, ElementOfSeq DEF Last
  <2>3. buffer[n].arg \in Answers
    BY <1>3, <2>2, KindsDiffer, TokensLemma
  <2>4. b \in Seq(Buffered(Answers)) /\ Len(b) = 1 /\ b[1] = buffer[n].arg
    <3>1. buffer[n].arg \in Buffered(Answers)
      BY <2>3 DEF Buffered
    <3> QED
      BY <2>2, <3>1
  <2>5. a \in Seq(Buffered(Answers)) /\ Len(a) = n - 1 /\ \A i \in 1..n - 1 : a[i] = buffer[i]
    <3>1. /\ 1 \in Int /\ n - 1 \in Int /\ \A i \in 1..n - 1 : buffer[i] \in Buffered(Answers)
      BY <2>2, ElementOfSeq
    <3>2. /\ a \in Seq(Buffered(Answers)) /\ Len(a) = IF 1 <= n - 1 THEN n - 1 - 1 + 1 ELSE 0
          /\ \A i \in 1..n - 1 - 1 + 1 : a[i] = buffer[1 + i - 1]
      BY <3>1, SubSeqProperties DEF Front
    <3>3. \A i \in 1..n - 1 : i \in 1..n - 1 - 1 + 1 /\ 1 + i - 1 = i
      BY <2>2
    <3>4. (IF 1 <= n - 1 THEN n - 1 - 1 + 1 ELSE 0) = n - 1
      <4>1. \A m \in Nat \ {0} : (IF 1 <= m - 1 THEN m - 1 - 1 + 1 ELSE 0) = m - 1
        OBVIOUS
      <4> QED
        BY ONLY <2>2, <4>1
    <3> HIDE DEF a
    <3>5. Len(a) = n - 1
      BY <3>2, <3>4
    <3>6. \A i \in 1..n - 1 : a[i] = buffer[i]
      BY <3>2, <3>3
    <3> QED
      BY <3>2, <3>5, <3>6
  <2>6. c \in Seq(Buffered(Answers))
    BY <1>1, <2>1
  <2> HIDE DEF a, b, c
  <2>7. /\ a \o b \in Seq(Buffered(Answers)) /\ Len(a \o b) = n
        /\ \A i \in 1..n : (a \o b)[i] = IF i < n THEN buffer[i] ELSE buffer[n].arg
    <3>1. /\ a \o b \in Seq(Buffered(Answers)) /\ Len(a \o b) = Len(a) + Len(b)
          /\ \A i \in 1..Len(a) + Len(b) : (a \o b)[i] = IF i <= Len(a) THEN a[i] ELSE b[i - Len(a)]
      BY ONLY <2>4, <2>5, ConcatProperties
    <3>2. \A i \in 1..n : i < n => i \in 1..n - 1
      BY <2>2
    <3>3. ASSUME NEW i \in 1..n PROVE (a \o b)[i] = IF i < n THEN buffer[i] ELSE buffer[n].arg
      <4>1. i \in 1..Len(a) + Len(b) /\ (i <= Len(a) <=> i < n) /\ (~(i < n) => i - Len(a) = 1)
        BY <2>2, <2>4, <2>5
      <4> QED
        BY <2>4, <2>5, <3>1, <3>2, <4>1
    <3>4. Len(a) + Len(b) = n
      BY <2>2, <2>4, <2>5
    <3> QED
      BY <3>1, <3>3, <3>4
  <2>8. Cores(a \o b) = Cores(buffer)
    <3>1. /\ Cores(a \o b) \in Seq(Wholes) /\ Len(Cores(a \o b)) = n
          /\ \A i \in 1..n : Cores(a \o b)[i] = Core((a \o b)[i])
          /\ Cores(buffer) \in Seq(Wholes) /\ Len(Cores(buffer)) = n
          /\ \A i \in 1..n : Cores(buffer)[i] = Core(buffer[i])
      <4>1. a \o b \in Seq(Buffered(Answers)) /\ Len(a \o b) = n
        BY <2>7
      <4>2. /\ Cores(a \o b) \in Seq(Wholes) /\ Len(Cores(a \o b)) = Len(a \o b)
            /\ \A i \in 1..Len(a \o b) : Cores(a \o b)[i] = Core((a \o b)[i])
        BY ONLY <4>1, CoresLemma
      <4> QED
        BY <4>1, <4>2, CoresLemma
    <3>2. Core(buffer[n].arg) = Core(buffer[n])
      BY <1>3, <2>2, <2>3, WholesLemma DEF Core
    <3>3. ASSUME NEW i \in 1..n PROVE Core((a \o b)[i]) = Core(buffer[i])
      <4>1. i < n \/ i = n
        BY <2>2
      <4> QED
        BY <2>7, <3>2, <4>1
    <3>4. \A i \in 1..n : Cores(a \o b)[i] = Cores(buffer)[i]
      BY <3>1, <3>3
    <3> QED
      BY ONLY <3>1, <3>4, SeqEqual
  <2>9. Cores((a \o b) \o c) = Cores(a \o b) \o Cores(c)
    BY <2>6, <2>7, CoresConcat
  <2> QED
    BY <2>1, <2>8, <2>9
<1>4. CASE taken # <<>> /\ Head(taken).type = "rest" /\ ~(buffer # <<>> /\ Last(buffer).type = "part")
  <2>1. Received(buffer, taken) = buffer \o Coming(taken)
    BY <1>4 DEF Received, Coming
  <2> QED
    BY <1>1, <2>1, CoresConcat
<1> QED
  BY <1>2, <1>3, <1>4

\* A read leaves what is on its way as it is.
LEMMA ReadInc ==
    ASSUME LineTypeOK, ReadTick
    PROVE  Inc' = Inc
<1>1. bufferM \in Seq(Buffered(Answers)) /\ toProgram \in Lines(Answers)
  BY DEF LineTypeOK
<1>2. CASE toProgram = <<>>
  BY <1>2 DEF ReadTick, Inc
<1>3. CASE toProgram # <<>>
  <2>0. ASSUME NEW n, NEW taken, NEW rest, Takes(toProgram, n, taken, rest)
        PROVE  Cores(Coming(taken)) \o Coming(rest) = Coming(toProgram)
    BY <1>1, <1>3, <2>0, TakenLemma
  <2>1. PICK r \in IF Splits THEN Reads(toProgram) ELSE {[taken |-> toProgram, left |-> <<>>]} :
            bufferM' = Received(bufferM, r.taken) /\ toProgram' = r.left
    BY <1>3 DEF ReadTick
  <2>2. Cores(Coming(r.taken)) \o Coming(r.left) = Coming(toProgram)
        /\ r.taken \in Lines(Buffered(Answers)) /\ r.left \in Lines(Answers)
    <3>1. /\ Len(toProgram) \in Nat \ {0} /\ toProgram \in Seq(Answers \cup {RestOfToken})
          /\ \A i \in 2..Len(toProgram) : toProgram[i] \in Answers
      BY <1>1, <1>3, EmptySeq DEF Lines
    <3>2. CASE ~Splits
      <4>1. r.taken = toProgram /\ r.left = <<>>
        BY <2>1, <3>2
      <4>2. <<>> = After(toProgram, Len(toProgram))
        BY <3>1, SubSeqEmpty DEF After
      <4>3. toProgram \in Lines(Buffered(Answers)) /\ Len(toProgram) \in 1..Len(toProgram)
        BY <1>1, <3>1, BufferedLines
      <4>4. <<>> \in Lines(Answers)
        BY EmptySeq, LinesLemma
      <4> DEFINE n == Len(toProgram)
      <4>5. Takes(toProgram, n, r.taken, r.left)
        BY <4>1, <4>2, <4>3 DEF Takes
      <4> HIDE DEF n
      <4>6. Cores(Coming(r.taken)) \o Coming(r.left) = Coming(toProgram)
        BY <2>0, <4>5
      <4> QED
        BY <4>1, <4>3, <4>4, <4>6
    <3>3. CASE Splits
      <4>1. r \in Reads(toProgram)
        BY <2>1, <3>3
      <4>2. r.taken \in Lines(Buffered(Answers)) /\ r.left \in Lines(Answers)
        BY <1>1, <4>1, ReadsLemma, TokensLemma
      <4>3. ASSUME NEW n \in 1..Len(toProgram),
                   r = [taken |-> SubSeq(toProgram, 1, n), left |-> SubSeq(toProgram, n + 1, Len(toProgram))]
            PROVE  Cores(Coming(r.taken)) \o Coming(r.left) = Coming(toProgram)
        <5>1. Len(r.taken) = n /\ \A i \in 1..n : r.taken[i] = toProgram[i]
          BY <3>1, <4>3, SubSeqProperties, ElementOfSeq
        <5>2. r.left = After(toProgram, n)
          BY <4>3 DEF After
        <5>3. Takes(toProgram, n, r.taken, r.left)
          BY <4>2, <5>1, <5>2 DEF Takes
        <5> QED
          BY <2>0, <5>3
      <4>4. ASSUME NEW n \in 1..Len(toProgram), toProgram[n].type \in HeaderTypes \cup {"DATA", "NAME"},
                   r = [taken |-> Append(SubSeq(toProgram, 1, n - 1), Part(toProgram[n])),
                        left  |-> <<RestOfToken>> \o SubSeq(toProgram, n + 1, Len(toProgram))]
            PROVE  Cores(Coming(r.taken)) \o Coming(r.left) = Coming(toProgram)
        <5>1. toProgram[n] \in Answers
          <6>1. toProgram[n] \in Answers \cup {RestOfToken}
            BY <3>1, ElementOfSeq
          <6> QED
            BY <4>4, <6>1, KindsDiffer, TokensLemma DEF HeaderTypes
        <5> DEFINE u == SubSeq(toProgram, 1, n - 1)
                   B == Answers \cup {RestOfToken, Part(toProgram[n])}
        <5>2. u \in Seq(B) /\ Len(u) = n - 1 /\ \A i \in 1..n - 1 : u[i] = toProgram[i]
          <6>1. n - 1 \in Nat /\ 1 \in Int /\ n - 1 \in Int /\ \A i \in 1..n - 1 : i \in 1..Len(toProgram)
            BY <3>1
          <6>2. \A i \in 1..n - 1 : toProgram[i] \in B
            BY <3>1, <6>1, ElementOfSeq
          <6>3. /\ u \in Seq(B) /\ Len(u) = IF 1 <= n - 1 THEN n - 1 - 1 + 1 ELSE 0
                /\ \A i \in 1..n - 1 - 1 + 1 : u[i] = toProgram[1 + i - 1]
            BY <6>1, <6>2, SubSeqProperties
          <6>4. (IF 1 <= n - 1 THEN n - 1 - 1 + 1 ELSE 0) = n - 1
            BY <6>1
          <6>5. \A i \in 1..n - 1 : i \in 1..n - 1 - 1 + 1 /\ 1 + i - 1 = i
            BY <6>1
          <6> HIDE DEF u, B
          <6> QED
            BY <6>3, <6>4, <6>5
        <5>3. r.taken = Append(u, Part(toProgram[n])) /\ Part(toProgram[n]) \in B
          BY <4>4
        <5> HIDE DEF u, B
        <5>4. /\ Len(r.taken) = n - 1 + 1 /\ \A i \in 1..n - 1 : r.taken[i] = toProgram[i]
              /\ r.taken[n - 1 + 1] = Part(toProgram[n])
          BY <5>2, <5>3, AppendProperties
        <5>5. n - 1 + 1 = n /\ \A i \in 1..n : i = n \/ i \in 1..n - 1
          BY <3>1
        <5>6. Len(r.taken) = n /\ \A i \in 1..n : \/ r.taken[i] = toProgram[i]
                                                  \/ toProgram[i] \in Answers /\ r.taken[i] = Part(toProgram[i])
          BY <5>1, <5>4, <5>5
        <5>7. r.left = <<RestOfToken>> \o After(toProgram, n)
          BY <4>4 DEF After
        <5>8. Takes(toProgram, n, r.taken, r.left)
          BY <4>2, <5>6, <5>7 DEF Takes
        <5> QED
          BY <2>0, <5>8
      <4> QED
        BY <4>1, <4>2, <4>3, <4>4 DEF Reads
    <3> QED
      BY <3>2, <3>3
  <2>3. Cores(bufferM') = Cores(bufferM) \o Cores(Coming(r.taken))
    BY <1>1, <2>1, <2>2, ReceivedCores
  <2>4. /\ Cores(bufferM) \in Seq(Wholes) /\ Cores(Coming(r.taken)) \in Seq(Wholes)
        /\ Coming(r.left) \in Seq(Wholes)
    <3>1. Coming(r.taken) \in Seq(Buffered(Answers)) /\ Coming(r.left) \in Seq(Answers)
      BY <2>2, ComingLemma
    <3> QED
      BY <1>1, <3>1, CoresLemma, WholesLemma, SeqMonotonic
  <2> DEFINE a == Cores(bufferM)  b == Cores(Coming(r.taken))  c == Coming(r.left)
  <2>5. Inc' = (a \o b) \o c
    BY <2>1, <2>3 DEF Inc
  <2>6. a \in Seq(Wholes) /\ b \in Seq(Wholes) /\ c \in Seq(Wholes)
    BY <2>4
  <2>7. b \o c = Coming(toProgram) /\ Inc = a \o Coming(toProgram)
    BY <2>2 DEF Inc
  <2> HIDE DEF a, b, c
  <2>8. (a \o b) \o c = a \o (b \o c)
    BY ONLY <2>6, ConcatAssociative
  <2> QED
    BY <2>5, <2>7, <2>8
<1> QED
  BY <1>2, <1>3

\* What the terminal says comes behind it.
LEMMA SaysInc ==
    ASSUME LineTypeOK, NEW ts \in Seq(Answers), Says(ts), UNCHANGED bufferM
    PROVE  /\ Inc' = Inc \o ts /\ Len(Inc') = Len(Inc) + Len(ts) /\ Len(ts) \in Nat
           /\ \A i \in 1..Len(Inc) : Inc'[i] = Inc[i]
           /\ \A i \in 1..Len(ts) : Inc'[Len(Inc) + i] = ts[i]
<1>1. toProgram \in Lines(Answers) /\ toProgram' = toProgram \o ts
  BY DEF LineTypeOK, Says
<1>2. toProgram \in Seq(Answers \cup {RestOfToken}) /\ ts \in Seq(Answers \cup {RestOfToken})
  BY <1>1, SeqMonotonic DEF Lines
<1>3. Coming(toProgram \o ts) = Coming(toProgram) \o ts
  <2>1. CASE toProgram = <<>>
    <3>1. toProgram \o ts = ts
      BY <2>1, ConcatEmptySeq
    <3>2. ts # <<>> => Head(ts).type # "rest"
      BY HeadTailProperties, WholesLemma
    <3> QED
      BY <2>1, <3>1, <3>2 DEF Coming
  <2>2. CASE toProgram # <<>>
    <3>1. /\ Head(toProgram \o ts) = Head(toProgram) /\ toProgram \o ts # <<>>
          /\ Tail(toProgram \o ts) = Tail(toProgram) \o ts
      BY <1>2, <2>2
    <3> QED
      BY <2>2, <3>1 DEF Coming
  <2> QED
    BY <2>1, <2>2
<1> DEFINE a == Cores(bufferM)  b == Coming(toProgram)
<1>4. a \in Seq(Wholes) /\ b \in Seq(Wholes) /\ ts \in Seq(Wholes)
  BY IncLemma, WholesLemma, SeqMonotonic
<1>5. Inc = a \o b /\ Inc' = a \o (b \o ts)
  BY <1>1, <1>3 DEF Inc
<1> HIDE DEF a, b
<1>6. Inc' = Inc \o ts
  BY <1>4, <1>5, ConcatAssociative
<1>7. Inc \in Seq(Wholes)
  BY IncLemma
<1> DEFINE u == Inc
<1>8. u \in Seq(Wholes) /\ Inc' = u \o ts
  BY <1>6, <1>7
<1> HIDE DEF u
<1>9. /\ Len(u \o ts) = Len(u) + Len(ts) /\ Len(ts) \in Nat /\ Len(u) \in Nat
      /\ \A i \in 1..Len(u) + Len(ts) : (u \o ts)[i] = IF i <= Len(u) THEN u[i] ELSE ts[i - Len(u)]
  BY ONLY <1>4, <1>8, ConcatProperties, LenProperties
<1>10. \A i \in 1..Len(u) : (u \o ts)[i] = u[i]
  BY ONLY <1>9
<1>11. ASSUME NEW i \in 1..Len(ts) PROVE (u \o ts)[Len(u) + i] = ts[i]
  <2>1. Len(u) + i \in 1..Len(u) + Len(ts) /\ ~(Len(u) + i <= Len(u)) /\ Len(u) + i - Len(u) = i
    BY ONLY <1>9, i \in 1..Len(ts)
  <2> QED
    BY ONLY <1>9, <2>1
<1> QED
  BY <1>6, <1>8, <1>9, <1>10, <1>11 DEF u

\* rz takes tokens off its front.
LEMMA DropsInc ==
    ASSUME LineTypeOK, NEW k \in 0..Len(bufferM), bufferM' = After(bufferM, k), UNCHANGED toProgram
    PROVE  Inc' = After(Inc, k) /\ k \in 0..Len(Inc)
<1>1. bufferM \in Seq(Buffered(Answers))
  BY DEF LineTypeOK
<1>2. /\ bufferM' \in Seq(Buffered(Answers)) /\ Len(bufferM') = Len(bufferM) - k
      /\ \A i \in 1..Len(bufferM) - k : bufferM'[i] = bufferM[k + i]
  BY <1>1, AfterLemma
<1>3. /\ Inc \in Seq(Wholes) /\ Len(bufferM) \in Nat /\ Len(Coming(toProgram)) \in Nat
      /\ Len(Inc) = Len(bufferM) + Len(Coming(toProgram)) /\ Coming(toProgram) \in Seq(Wholes)
      /\ \A i \in 1..Len(Inc) : Inc[i] = IF i <= Len(bufferM) THEN Core(bufferM[i])
                                         ELSE Coming(toProgram)[i - Len(bufferM)]
  BY IncLemma
<1>4. k \in 0..Len(Inc)
  BY <1>3
<1>5. /\ After(Inc, k) \in Seq(Wholes) /\ Len(After(Inc, k)) = Len(Inc) - k
      /\ \A i \in 1..Len(Inc) - k : After(Inc, k)[i] = Inc[k + i]
  <2>1. Inc \in Seq(Wholes)
    BY <1>3
  <2> QED
    BY ONLY <1>4, <2>1, AfterLemma
<1> DEFINE w == Cores(bufferM')  c == Coming(toProgram)  n == Len(bufferM)  m == n + Len(c) - k
<1>6. /\ w \in Seq(Wholes) /\ Len(w) = n - k /\ c \in Seq(Wholes) /\ Inc' = w \o c
      /\ \A i \in 1..n - k : w[i] = Core(bufferM[k + i])
  <2>1. /\ Cores(bufferM') \in Seq(Wholes) /\ Len(Cores(bufferM')) = n - k
        /\ \A i \in 1..n - k : Cores(bufferM')[i] = Core(bufferM'[i])
    BY <1>2, CoresLemma
  <2>2. Inc' = w \o c
    BY DEF Inc
  <2> QED
    BY <1>2, <1>3, <2>1, <2>2
<1>7. n \in Nat /\ Len(c) \in Nat /\ k \in Nat /\ k <= n /\ Len(Inc) - k = m
  BY <1>3
<1> HIDE DEF w, c, n
<1>8. /\ w \o c \in Seq(Wholes) /\ Len(w \o c) = Len(w) + Len(c)
      /\ \A i \in 1..Len(w) + Len(c) : (w \o c)[i] = IF i <= Len(w) THEN w[i] ELSE c[i - Len(w)]
  BY ONLY <1>6, ConcatProperties
<1>9. Len(w) + Len(c) = m
  BY <1>6, <1>7
<1>10. ASSUME NEW i \in 1..m PROVE (w \o c)[i] = After(Inc, k)[i]
  <2>1. After(Inc, k)[i] = Inc[k + i] /\ k + i \in 1..Len(Inc)
    BY <1>3, <1>5, <1>7
  <2>2. /\ k + i <= n => Inc[k + i] = Core(bufferM[k + i])
        /\ ~(k + i <= n) => Inc[k + i] = c[k + i - n]
    <3>1. ASSUME NEW j \in 1..Len(Inc)
          PROVE  /\ j <= n => Inc[j] = Core(bufferM[j])
                 /\ ~(j <= n) => Inc[j] = c[j - n]
      BY <1>3 DEF n, c
    <3>2. ASSUME NEW j \in 1..Len(Inc), j = k + i
          PROVE  /\ k + i <= n => Inc[k + i] = Core(bufferM[k + i])
                 /\ ~(k + i <= n) => Inc[k + i] = c[k + i - n]
      <4>1. j <= n => Inc[j] = Core(bufferM[j])
        BY <3>1
      <4>2. ~(j <= n) => Inc[j] = c[j - n]
        BY <3>1
      <4>3. k + i <= n => Inc[k + i] = Core(bufferM[k + i])
        BY ONLY <3>2, <4>1, Zenon
      <4>4. ~(k + i <= n) => Inc[k + i] = c[k + i - n]
        <5>1. j - n = k + i - n
          BY <1>7, <3>2
        <5>2. c[j - n] = c[k + i - n]
          BY ONLY <5>1, Zenon
        <5>3. ~(k + i <= n) => ~(j <= n)
          BY ONLY <3>2, Zenon
        <5>4. Inc[j] = Inc[k + i]
          BY ONLY <3>2, Zenon
        <5> QED
          BY ONLY <4>2, <5>2, <5>3, <5>4, Zenon
      <4> QED
        BY ONLY <4>3, <4>4
    <3> QED
      BY ONLY <2>1, <3>2
  <2>3. (w \o c)[i] = IF i <= n - k THEN w[i] ELSE c[i - (n - k)]
    BY <1>6, <1>8, <1>9
  <2>4. CASE i <= n - k
    <3>1. i \in 1..n - k /\ k + i <= n
      BY <1>7, <2>4
    <3> QED
      BY <1>6, <2>1, <2>2, <2>3, <2>4, <3>1
  <2>5. CASE ~(i <= n - k)
    <3>1. ~(k + i <= n) /\ i - (n - k) = k + i - n
      BY <1>7, <2>5
    <3> QED
      BY <2>1, <2>2, <2>3, <2>5, <3>1
  <2> QED
    BY <2>4, <2>5
<1>11. w \o c = After(Inc, k)
  <2>1. /\ w \o c \in Seq(Wholes) /\ After(Inc, k) \in Seq(Wholes) /\ Len(w \o c) = Len(After(Inc, k))
        /\ \A i \in 1..Len(w \o c) : (w \o c)[i] = After(Inc, k)[i]
    BY <1>5, <1>7, <1>8, <1>9, <1>10
  <2> QED
    BY ONLY <2>1, SeqEqual
<1> QED
  BY <1>4, <1>6, <1>11

\* The tokens v are those of u behind place k, of which some headers are torn.
Kept(k, u, v) ==
    /\ Len(v) = Len(u) - k
    /\ \A i \in 1..Len(v) : /\ k + i \in 1..Len(u)
                            /\ v[i] = u[k + i] \/ (u[k + i].type \in HeaderTypes /\ v[i].type = "torn")

\* Those behind place k are.
LEMMA AfterKept ==
    ASSUME NEW S, NEW u \in Seq(S), NEW k \in 0..Len(u)
    PROVE  Kept(k, u, After(u, k))
<1>1. /\ Len(After(u, k)) = Len(u) - k /\ Len(u) \in Nat
      /\ \A i \in 1..Len(u) - k : After(u, k)[i] = u[k + i]
  BY AfterLemma
<1>2. \A i \in 1..Len(u) - k : k + i \in 1..Len(u)
  BY <1>1
<1> QED
  BY <1>1, <1>2 DEF Kept

\* What rz took off the front of its buffer is no longer on its way.
LEMMA DropsKept ==
    ASSUME LineTypeOK, NEW k \in 0..Len(bufferM), bufferM' = After(bufferM, k), UNCHANGED toProgram
    PROVE  k \in 0..Len(Inc) /\ Inc' = After(Inc, k) /\ Kept(k, Inc, Inc')
<1>1. Inc' = After(Inc, k) /\ k \in 0..Len(Inc) /\ Inc \in Seq(Wholes)
  BY DropsInc, IncLemma
<1>2. Kept(k, Inc, After(Inc, k))
  BY ONLY <1>1, AfterKept
<1> QED
  BY <1>1, <1>2

\* Nothing changes, and the buffer stays.
LEMMA SameInc ==
    ASSUME LineTypeOK, UNCHANGED <<bufferM, toProgram>>
    PROVE  Inc' = Inc /\ Kept(0, Inc, Inc') /\ 0 \in 0..Len(Inc)
<1>1. Inc' = Inc
  BY DEF Inc
<1>2. Len(Inc) \in Nat
  BY IncLemma
<1>3. Kept(0, Inc, Inc)
  BY <1>2 DEF Kept
<1> QED
  BY <1>1, <1>2, <1>3

\* The search for a frame.
LEMMA ParsedInc ==
    ASSUME LineTypeOK, NEW found \in Parsed(bufferM, inputFrameM), bufferM' = found.left,
           UNCHANGED toProgram
    PROVE  \E k \in 0..Len(Inc) :
               /\ Inc' = After(Inc, k) /\ Kept(k, Inc, Inc')
               /\ found.what \in {"nothing", "over", "error"} => found.frame = inputFrameM
               /\ found.what = "heartbeat" => found.frame.type = "ZHEARTBEAT"
               /\ found.what = "frame" => k # 0 /\ found.frame = Inc[k]
               /\ found.what \in {"nothing", "over", "error", "heartbeat", "frame"}
<1> DEFINE p == PadAt(bufferM)
<1>1. bufferM \in Seq(Buffered(Answers)) /\ Len(bufferM) \in Nat
  BY LenProperties DEF LineTypeOK
<1>2. CASE found.frame = inputFrameM /\ found.what = "over" /\ found.left = bufferM
  <2>1. Inc' = Inc /\ Kept(0, Inc, Inc') /\ 0 \in 0..Len(Inc)
    BY <1>2, SameInc
  <2>2. Inc = After(Inc, 0)
    <3>1. Inc \in Seq(Wholes)
      BY IncLemma
    <3> QED
      BY ONLY <2>1, <3>1, AfterLemma
  <2> QED
    BY <1>2, <2>1, <2>2
<1>3. CASE found.frame = inputFrameM /\ found.what = "nothing" /\ found.left = <<>>
  <2>1. After(bufferM, Len(bufferM)) = <<>> /\ Len(bufferM) \in 0..Len(bufferM)
    BY <1>1, SubSeqEmpty DEF After
  <2>2. PICK k \in 0..Len(bufferM) : bufferM' = After(bufferM, k)
    BY <1>3, <2>1
  <2> QED
    BY <1>3, <2>2, DropsKept
<1>4. CASE /\ p # 0 /\ found.left = SubSeq(bufferM, p + 1, Len(bufferM))
           /\ \/ found.frame = inputFrameM /\ found.what \in {"nothing", "error"}
              \/ found.frame = bufferM[p] /\ found.what = "heartbeat" /\ bufferM[p].type = "ZHEARTBEAT"
              \/ found.frame = bufferM[p] /\ found.what = "frame" /\ bufferM[p].type \notin {"part", "torn"}
  <2>1. p \in 1..Len(bufferM) /\ HasPad(bufferM[p])
    BY <1>1, <1>4, PadLemma
  <2>2. PICK k \in 1..Len(bufferM) : k = p
    BY <2>1
  <2>3. /\ k # 0 /\ k \in 0..Len(bufferM) /\ bufferM' = After(bufferM, k)
        /\ \/ found.frame = inputFrameM /\ found.what \in {"nothing", "error"}
           \/ found.frame = bufferM[k] /\ found.what = "heartbeat" /\ bufferM[k].type = "ZHEARTBEAT"
           \/ found.frame = bufferM[k] /\ found.what = "frame" /\ bufferM[k].type \notin {"part", "torn"}
    BY <1>4, <2>2 DEF After
  <2>4. k \in 0..Len(Inc) /\ Inc' = After(Inc, k) /\ Kept(k, Inc, Inc')
    BY <2>3, DropsKept
  <2>5. Inc[k] = Core(bufferM[k])
    BY <2>4, IncLemma
  <2>6. bufferM[k].type # "part" => Inc[k] = bufferM[k]
    BY <2>5 DEF Core
  <2> HIDE DEF p
  <2> QED
    BY <2>3, <2>4, <2>6
<1>5. \/ found.frame = inputFrameM /\ found.what = "over" /\ found.left = bufferM
      \/ found.frame = inputFrameM /\ found.what = "nothing" /\ found.left = <<>>
      \/ /\ p # 0 /\ found.left = SubSeq(bufferM, p + 1, Len(bufferM))
         /\ \/ found.frame = inputFrameM /\ found.what \in {"nothing", "error"}
            \/ found.frame = bufferM[p] /\ found.what = "heartbeat" /\ bufferM[p].type = "ZHEARTBEAT"
            \/ found.frame = bufferM[p] /\ found.what = "frame" /\ bufferM[p].type \notin {"part", "torn"}
  <2>1. CASE inputFrameM.type = "ZFIN" /\ bufferM = Farewell
    BY <2>1 DEF Parsed
  <2>2. CASE ~(inputFrameM.type = "ZFIN" /\ bufferM = Farewell) /\ p = 0
    BY <2>2 DEF Parsed
  <2>3. CASE ~(inputFrameM.type = "ZFIN" /\ bufferM = Farewell) /\ p # 0 /\ bufferM[p].type = "part"
    BY <2>3 DEF Parsed
  <2>4. CASE ~(inputFrameM.type = "ZFIN" /\ bufferM = Farewell) /\ p # 0 /\ bufferM[p].type = "torn"
    BY <2>4 DEF Parsed
  <2>5. CASE ~(inputFrameM.type = "ZFIN" /\ bufferM = Farewell) /\ p # 0 /\ bufferM[p].type = "ZHEARTBEAT"
    BY <2>5 DEF Parsed
  <2>6. CASE ~(inputFrameM.type = "ZFIN" /\ bufferM = Farewell) /\ p # 0
             /\ bufferM[p].type \notin {"part", "torn", "ZHEARTBEAT"}
    BY <2>6 DEF Parsed
  <2> QED
    BY <2>1, <2>2, <2>3, <2>4, <2>5, <2>6
<1> QED
  BY <1>2, <1>3, <1>4, <1>5

\* rz takes the subpacket at the head of its buffer.
LEMMA HeadInc ==
    ASSUME LineTypeOK, bufferM # <<>>, Head(bufferM).type \in {"NAME", "DATA"}
    PROVE  /\ 1 \in 1..Len(Inc) /\ 1 \in 0..Len(Inc) /\ Inc[1] = Head(bufferM) /\ Inc[1] \in Answers
           /\ bufferM' = Tail(bufferM) /\ UNCHANGED toProgram => Inc' = After(Inc, 1)
<1>1. bufferM \in Seq(Buffered(Answers)) /\ Len(bufferM) \in Nat \ {0} /\ Head(bufferM) = bufferM[1]
  BY EmptySeq, LenProperties DEF LineTypeOK
<1>2. 1 \in 1..Len(Inc) /\ 1 \in 0..Len(Inc) /\ 1 \in 0..Len(bufferM) /\ Inc[1] = Core(bufferM[1])
  BY <1>1, IncLemma
<1>3. Inc[1] = Head(bufferM) /\ Head(bufferM) \in Answers
  <2>1. bufferM[1] \in Buffered(Answers)
    BY <1>1, ElementOfSeq
  <2> QED
    BY <1>1, <1>2, <2>1, KindsDiffer, TokensLemma DEF Core
<1>4. ASSUME bufferM' = Tail(bufferM), UNCHANGED toProgram
      PROVE  Inc' = After(Inc, 1)
  <2>1. bufferM' = After(bufferM, 1)
    BY <1>1, <1>4, TailIsSubSeq DEF After
  <2> QED
    BY <1>2, <1>4, <2>1, DropsInc
<1> QED
  BY <1>2, <1>3, <1>4

\* The data parsers run over headers, and tear them.
LEMMA SwallowsInc ==
    ASSUME LineTypeOK, FileTypeOK, Swallows, UNCHANGED toProgram
    PROVE  Kept(0, Inc, Inc')
<1>1. /\ bufferM \in Seq(Buffered(Answers)) /\ bufferM' \in Seq(Buffered(Answers))
      /\ Len(bufferM') = Len(bufferM) /\ \A i \in 1..Len(bufferM) : bufferM'[i] \in RunOver(bufferM[i])
  BY SwallowsTypes DEF LineTypeOK, FileTypeOK
<1> DEFINE w == Cores(bufferM')  c == Coming(toProgram)  n == Len(bufferM)
<1>2. /\ Inc \in Seq(Wholes) /\ Len(Inc) \in Nat /\ n \in Nat /\ Len(c) \in Nat
      /\ Len(Inc) = n + Len(c) /\ c \in Seq(Wholes)
      /\ \A i \in 1..Len(Inc) : Inc[i] = IF i <= n THEN Core(bufferM[i]) ELSE c[i - n]
  BY IncLemma
<1>3. /\ w \in Seq(Wholes) /\ Len(w) = n /\ \A i \in 1..n : w[i] = Core(bufferM'[i])
  BY <1>1, CoresLemma
<1>4. Inc' = w \o c
  BY DEF Inc
<1>5. ASSUME NEW i \in 1..n
      PROVE  Core(bufferM'[i]) = Core(bufferM[i])
             \/ (Core(bufferM[i]).type \in HeaderTypes /\ Core(bufferM'[i]).type = "torn")
  <2>1. bufferM'[i] \in RunOver(bufferM[i])
    BY <1>1
  <2>2. PICK t : t = bufferM[i]
    OBVIOUS
  <2>3. PICK x : x = bufferM'[i]
    OBVIOUS
  <2>4. /\ t.type \in HeaderTypes => x = Torn(t)
        /\ t.type = "part" => x = t \/ (t.arg.type \in HeaderTypes /\ x = Torn(t.arg))
        /\ t.type \notin HeaderTypes \cup {"part"} => x = t
    BY <2>1, <2>2, <2>3, RunOverLemma
  <2>5. \A y : Torn(y).type = "torn" /\ Core(Torn(y)) = Torn(y)
    BY DEF Torn, Core
  <2>6. Core(x) = Core(t) \/ (Core(t).type \in HeaderTypes /\ Core(x).type = "torn")
    <3>1. CASE t.type \in HeaderTypes
      BY <2>4, <2>5, <3>1 DEF Core, HeaderTypes
    <3>2. CASE t.type = "part"
      BY <2>4, <2>5, <3>2 DEF Core
    <3>3. CASE t.type \notin HeaderTypes \cup {"part"}
      BY <2>4, <3>3
    <3> QED
      BY <3>1, <3>2, <3>3
  <2> QED
    BY <2>2, <2>3, <2>6
<1> HIDE DEF w, c, n
<1>6. /\ Len(w \o c) = Len(w) + Len(c)
      /\ \A i \in 1..Len(w) + Len(c) : (w \o c)[i] = IF i <= Len(w) THEN w[i] ELSE c[i - Len(w)]
  BY ONLY <1>2, <1>3, ConcatProperties
<1>7. ASSUME NEW i \in 1..Len(Inc)
      PROVE  (w \o c)[i] = Inc[i] \/ (Inc[i].type \in HeaderTypes /\ (w \o c)[i].type = "torn")
  <2>1. i \in 1..Len(w) + Len(c) /\ (i <= Len(w) <=> i <= n)
    BY <1>2, <1>3
  <2>2. CASE i <= n
    <3>1. (w \o c)[i] = w[i] /\ Inc[i] = Core(bufferM[i]) /\ i \in 1..n
      BY <1>2, <1>6, <2>1, <2>2
    <3> QED
      BY <1>3, <1>5, <3>1 DEF n
  <2>3. CASE ~(i <= n)
    BY <1>2, <1>3, <1>6, <2>1, <2>3
  <2> QED
    BY <2>2, <2>3
<1>8. Len(w \o c) = Len(Inc) - 0 /\ \A i \in 1..Len(w \o c) : 0 + i = i /\ i \in 1..Len(Inc)
  BY <1>2, <1>3, <1>6
<1> QED
  BY <1>4, <1>7, <1>8 DEF Kept

-----------------------------------------------------------------------------
\* What holds of the tokens on their way to rz holds of those that are left.
LEMMA KeptLemma ==
    ASSUME NEW u, NEW k, NEW v, Kept(k, u, v)
    PROVE  /\ \A T : "torn" \notin T /\ No(T, u) => No(T, v)
           /\ k \in Nat /\ Ordered(u) => Ordered(v)
<1>1. \A i \in 1..Len(v) : /\ k + i \in 1..Len(u)
                           /\ v[i].type # "torn" => v[i] = u[k + i]
  BY DEF Kept
<1>2. ASSUME NEW T, "torn" \notin T, No(T, u) PROVE No(T, v)
  BY <1>1, <1>2 DEF No
<1>3. ASSUME k \in Nat, Ordered(u) PROVE Ordered(v)
  <2>1. "torn" \notin Replies
    BY DEF Replies, Offers
  <2>2. ASSUME NEW i \in 1..Len(v), NEW j \in 1..Len(v), i < j, v[i].type \in Replies, v[j].type \in Replies
        PROVE  \/ v[i].type = "ZFILE" /\ v[j].type = "NAME"
               \/ v[i].type \in {"ZDATA", "DATA"} /\ v[j].type = "DATA"
    <3>1. v[i] = u[k + i] /\ v[j] = u[k + j] /\ k + i \in 1..Len(u) /\ k + j \in 1..Len(u)
      BY <1>1, <2>1, <2>2
    <3>2. k + i < k + j
      BY <1>3, <2>2
    <3>3. PICK a \in 1..Len(u) : a = k + i
      BY <3>1
    <3>4. PICK b \in 1..Len(u) : b = k + j
      BY <3>1
    <3>5. a < b /\ u[a].type \in Replies /\ u[b].type \in Replies /\ v[i] = u[a] /\ v[j] = u[b]
      BY <2>2, <3>1, <3>2, <3>3, <3>4
    <3> QED
      BY <1>3, <3>5 DEF Ordered
  <2> QED
    BY <2>2 DEF Ordered
<1> QED
  BY <1>2, <1>3

\* So are those behind one of them.
LEMMA KeptBehind ==
    ASSUME NEW u \in Seq(Wholes), NEW v \in Seq(Wholes), NEW k \in 0..Len(u), Kept(k, u, v),
           NEW i \in 0..Len(v)
    PROVE  /\ k + i \in 0..Len(u) /\ Kept(0, After(u, k + i), After(v, i))
           /\ After(u, k + i) \in Seq(Wholes) /\ After(v, i) \in Seq(Wholes)
<1>1. Len(u) \in Nat /\ Len(v) \in Nat /\ Len(v) = Len(u) - k
  BY LenProperties DEF Kept
<1>2. k + i \in 0..Len(u)
  BY <1>1
<1>3. /\ After(v, i) \in Seq(Wholes) /\ Len(After(v, i)) = Len(v) - i
      /\ \A j \in 1..Len(v) - i : After(v, i)[j] = v[i + j]
  BY ONLY v \in Seq(Wholes), i \in 0..Len(v), AfterLemma
<1> DEFINE m == k + i
<1>4. m \in 0..Len(u)
  BY <1>2
<1> HIDE DEF m
<1>5. /\ After(u, m) \in Seq(Wholes) /\ Len(After(u, m)) = Len(u) - m
      /\ \A j \in 1..Len(u) - m : After(u, m)[j] = u[m + j]
  BY ONLY u \in Seq(Wholes), <1>4, AfterLemma
<1>6. Len(v) - i = Len(u) - m /\ Len(u) - m \in Nat
  BY <1>1, <1>4 DEF m
<1>7. ASSUME NEW j \in 1..Len(After(v, i))
      PROVE  /\ 0 + j \in 1..Len(After(u, m)) /\ 0 + j = j
             /\ \/ After(v, i)[j] = After(u, m)[j]
                \/ After(u, m)[j].type \in HeaderTypes /\ After(v, i)[j].type = "torn"
  <2>1. j \in 1..Len(v) - i /\ j \in 1..Len(u) - m /\ i + j \in 1..Len(v) /\ m + j = k + (i + j)
    BY <1>1, <1>3, <1>6 DEF m
  <2>2. PICK n \in 1..Len(v) : n = i + j
    BY <2>1
  <2>3. v[n] = u[k + n] \/ (u[k + n].type \in HeaderTypes /\ v[n].type = "torn")
    BY DEF Kept
  <2>4. k + n = m + j
    BY <2>1, <2>2
  <2>5. After(v, i)[j] = v[n] /\ After(u, m)[j] = u[k + n]
    BY <1>3, <1>5, <2>1, <2>2, <2>4
  <2> QED
    BY <1>5, <2>1, <2>3, <2>5
<1>8. Kept(0, After(u, m), After(v, i))
  <2>1. Len(After(v, i)) = Len(After(u, m)) - 0
    BY <1>3, <1>5, <1>6
  <2> QED
    BY <1>7, <2>1 DEF Kept
<1> QED
  BY <1>2, <1>3, <1>5, <1>8 DEF m

\* Data are not torn: the file on its way is still without a gap.
LEMMA KeptLinked ==
    ASSUME NEW u \in Seq(Wholes), NEW v \in Seq(Wholes), Kept(0, u, v),
           NEW base, NEW f, NEW when, NEW pos, Linked(u, base, f, when, pos)
    PROVE  Linked(v, base, f, when, pos)
<1>1. /\ Len(u) \in Nat /\ Len(v) = Len(u)
      /\ \A i \in 1..Len(v) : v[i] = u[i] \/ (u[i].type \in HeaderTypes /\ v[i].type = "torn")
  BY LenProperties DEF Kept
<1>2. "DATA" \notin HeaderTypes
  BY DEF HeaderTypes
<1>3. \A i \in 1..Len(v) : (u[i].type = "DATA" \/ v[i].type = "DATA") => v[i] = u[i]
  BY <1>1, <1>2
<1>4. ASSUME NEW i \in 1..Len(v), No({"DATA"}, After(u, i)) PROVE No({"DATA"}, After(v, i))
  <2>1. i \in 0..Len(v) /\ 0 \in 0..Len(u) /\ 0 + i = i
    BY <1>1
  <2>2. Kept(0, After(u, i), After(v, i))
    BY <2>1, KeptBehind
  <2> QED
    BY <1>4, <2>2, KeptLemma
<1>5. ASSUME NEW i \in 1..Len(v), v[i].type = "DATA"
      PROVE  /\ v[i].of = f /\ v[i].len \in Nat /\ End(v[i]) <= Size[f]
             /\ v[i].len < SBlock => v[i].end = "ZCRCE"
             /\ i = 1 => v[i].from = base
             /\ i > 1 => /\ v[i - 1].type = "DATA" /\ v[i - 1].end = "ZCRCG"
                         /\ v[i].from = End(v[i - 1])
             /\ v[i].end = "ZCRCE" => /\ End(v[i]) = Size[f] /\ when = "eof"
                                      /\ No({"DATA"}, After(v, i))
  <2>1. v[i] = u[i] /\ u[i].type = "DATA" /\ i \in 1..Len(u)
    BY <1>1, <1>3, <1>5
  <2>2. i > 1 => i - 1 \in 1..Len(v)
    BY <1>1
  <2>3. i > 1 => u[i - 1].type = "DATA" /\ v[i - 1] = u[i - 1]
    BY <1>3, <2>1, <2>2 DEF Linked
  <2> QED
    BY <1>4, <2>1, <2>3 DEF Linked
<1>6. ASSUME when = "sending"
      PROVE  IF v = <<>> THEN pos = base
             ELSE v[Len(v)].type = "DATA" /\ v[Len(v)].end = "ZCRCG" /\ pos = End(v[Len(v)])
  <2>1. v = <<>> <=> u = <<>>
    BY <1>1, EmptySeq
  <2>2. v # <<>> => Len(v) \in 1..Len(v)
    BY <1>1, EmptySeq
  <2> QED
    BY <1>1, <1>3, <1>6, <2>1, <2>2 DEF Linked
<1> QED
  BY <1>5, <1>6 DEF Linked

\* Without data there is no gap, unless they are still to come.
LEMMA NoneLinked ==
    ASSUME NEW u, No({"DATA"}, u), NEW base, NEW f, NEW when, when # "sending", NEW pos
    PROVE  Linked(u, base, f, when, pos)
BY DEF Linked, No

-----------------------------------------------------------------------------
\* Of the requests u some are taken, and what comes in addition asks for nothing.
Heard(u, v) == \A i \in 1..Len(v) : ~Asks(v[i]) \/ \E k \in 1..Len(u) : v[i] = u[k]

\* It asks for nothing that was not asked for.
LEMMA HeardLemma ==
    ASSUME NEW u, NEW v, Heard(u, v)
    PROVE  /\ NoAsk(u) => NoAsk(v)
           /\ \A T \in SUBSET {"ZRINIT", "ZSKIP", "ZRPOS", "DATA"} : No(T, u) => No(T, v)
<1>1. ASSUME NoAsk(u) PROVE NoAsk(v)
  BY <1>1 DEF Heard, NoAsk
<1>2. ASSUME NEW T \in SUBSET {"ZRINIT", "ZSKIP", "ZRPOS", "DATA"}, No(T, u) PROVE No(T, v)
  BY <1>2 DEF Heard, No, Asks
<1> QED
  BY <1>1, <1>2

\* The requests ts follow those there are.
LEMMA Joined ==
    ASSUME NEW S, NEW u \in Seq(S), NEW w \in Seq(S)
    PROVE  /\ u \o w \in Seq(S) /\ Len(u \o w) = Len(u) + Len(w) /\ Len(u) \in Nat /\ Len(w) \in Nat
           /\ \A i \in 1..Len(u) : i \in 1..Len(u \o w) /\ (u \o w)[i] = u[i]
           /\ \A i \in 1..Len(u \o w) :
                  \/ i \in 1..Len(u) /\ (u \o w)[i] = u[i]
                  \/ i > Len(u) /\ i - Len(u) \in 1..Len(w) /\ (u \o w)[i] = w[i - Len(u)]
<1>1. /\ u \o w \in Seq(S) /\ Len(u \o w) = Len(u) + Len(w) /\ Len(u) \in Nat /\ Len(w) \in Nat
      /\ \A i \in 1..Len(u) + Len(w) : (u \o w)[i] = IF i <= Len(u) THEN u[i] ELSE w[i - Len(u)]
  BY ConcatProperties, LenProperties
<1>2. \A i \in 1..Len(u) + Len(w) :
          \/ i \in 1..Len(u) /\ i <= Len(u)
          \/ i > Len(u) /\ i - Len(u) \in 1..Len(w) /\ ~(i <= Len(u))
  BY ONLY <1>1
<1>3. \A i \in 1..Len(u) : i \in 1..Len(u) + Len(w) /\ i <= Len(u)
  BY ONLY <1>1
<1> QED
  BY <1>1, <1>2, <1>3

\* Of what rz sends some tokens may be lost after a signal; the order stays.
LEMMA SentPlaces ==
    ASSUME LineTypeOK, NEW ts \in Seq(Requests), Sends(ts)
    PROVE  \E sent \in Seq(Requests) : \E p \in [1..Len(sent) -> 1..Len(ts)] :
               /\ toTerminal' = toTerminal \o sent
               /\ \A i \in 1..Len(sent) : sent[i] = ts[p[i]]
               /\ \A i, j \in 1..Len(sent) : i < j => p[i] < p[j]
<1>1. PICK sent \in Written(ts, signaled) : toTerminal' = toTerminal \o sent
  BY DEF Sends
<1>2. sent \in Seq(Requests)
  BY WrittenLemma
<1>3. CASE ~signaled
  <2>1. sent = ts /\ Len(ts) \in Nat
    BY <1>1, <1>3, LenProperties DEF Written
  <2> DEFINE p == [i \in 1..Len(ts) |-> i]
  <2>2. p \in [1..Len(sent) -> 1..Len(ts)]
    BY <2>1
  <2> QED
    BY <1>1, <1>2, <2>1, <2>2
<1>4. CASE signaled
  <2>1. PICK n \in 0..Len(ts) :
            \E q \in {p \in [1..n -> 1..Len(ts)] : \A i, j \in 1..n : i < j => p[i] < p[j]} :
                sent = [i \in 1..n |-> ts[q[i]]]
    BY <1>4 DEF Written, Remains
  <2>2. PICK p \in [1..n -> 1..Len(ts)] :
            (\A i, j \in 1..n : i < j => p[i] < p[j]) /\ sent = [i \in 1..n |-> ts[p[i]]]
    BY <2>1
  <2>3. Len(sent) = n
    <3>1. DOMAIN sent = 1..n /\ DOMAIN sent = 1..Len(sent) /\ n \in Nat /\ Len(sent) \in Nat
      BY <1>2, <2>2, LenProperties
    <3> QED
      BY <3>1
  <2> QED
    BY <1>1, <1>2, <2>2, <2>3
<1> QED
  BY <1>3, <1>4 DEF LineTypeOK

\* What rz has asked for when it has sent the requests ts.
LEMMA Requested ==
    ASSUME LineTypeOK, NEW ts \in Seq(Requests), Sends(ts)
    PROVE  /\ toTerminal' \in Seq(Requests)
           /\ \A i \in 1..Len(toTerminal') :
                  \/ \E k \in 1..Len(toTerminal) : toTerminal'[i] = toTerminal[k]
                  \/ \E j \in 1..Len(ts) : toTerminal'[i] = ts[j]
           /\ OneAsk(toTerminal) /\ NoAsk(ts) => OneAsk(toTerminal')
           /\ NoAsk(toTerminal) /\ OneAsk(ts) => OneAsk(toTerminal')
<1> DEFINE u == toTerminal
<1>1. PICK sent \in Seq(Requests) : \E p \in [1..Len(sent) -> 1..Len(ts)] :
               /\ toTerminal' = u \o sent
               /\ \A i \in 1..Len(sent) : sent[i] = ts[p[i]]
               /\ \A i, j \in 1..Len(sent) : i < j => p[i] < p[j]
  BY SentPlaces
<1>2. PICK p \in [1..Len(sent) -> 1..Len(ts)] :
               /\ toTerminal' = u \o sent
               /\ \A i \in 1..Len(sent) : sent[i] = ts[p[i]]
               /\ \A i, j \in 1..Len(sent) : i < j => p[i] < p[j]
  BY <1>1
<1>3. u \in Seq(Requests)
  BY DEF LineTypeOK
<1> HIDE DEF u
<1> DEFINE v == u \o sent
<1>4. /\ v \in Seq(Requests) /\ Len(u) \in Nat
      /\ \A i \in 1..Len(v) : \/ i \in 1..Len(u) /\ v[i] = u[i]
                              \/ i > Len(u) /\ i - Len(u) \in 1..Len(sent) /\ v[i] = sent[i - Len(u)]
  BY ONLY <1>3, sent \in Seq(Requests), Joined
<1> HIDE DEF v
<1>5. ASSUME NEW i \in 1..Len(v)
      PROVE  \/ i \in 1..Len(u) /\ v[i] = u[i]
             \/ /\ i > Len(u) /\ i - Len(u) \in 1..Len(sent)
                /\ p[i - Len(u)] \in 1..Len(ts) /\ v[i] = ts[p[i - Len(u)]]
  BY <1>2, <1>4
<1>6. ASSUME OneAsk(u), NoAsk(ts) PROVE OneAsk(v)
  <2>1. ASSUME NEW i \in 1..Len(v), Asks(v[i]) PROVE i \in 1..Len(u) /\ v[i] = u[i]
    BY <1>5, <1>6, <2>1 DEF NoAsk
  <2> QED
    BY <1>6, <2>1 DEF OneAsk
<1>7. ASSUME NoAsk(u), OneAsk(ts) PROVE OneAsk(v)
  <2>1. ASSUME NEW i \in 1..Len(v), Asks(v[i])
        PROVE  /\ i - Len(u) \in 1..Len(sent) /\ p[i - Len(u)] \in 1..Len(ts)
               /\ v[i] = ts[p[i - Len(u)]]
    BY <1>5, <1>7, <2>1 DEF NoAsk
  <2>2. ASSUME NEW i \in 1..Len(v), NEW j \in 1..Len(v), i < j, Asks(v[i]), Asks(v[j])
        PROVE  IsQuestion(v[i]) /\ v[j].type = "DATA"
    <3>1. PICK a \in 1..Len(sent) : a = i - Len(u)
      BY <2>1, <2>2
    <3>2. PICK b \in 1..Len(sent) : b = j - Len(u)
      BY <2>1, <2>2
    <3>3. a < b /\ v[i] = ts[p[a]] /\ v[j] = ts[p[b]] /\ p[a] \in 1..Len(ts) /\ p[b] \in 1..Len(ts)
      BY <1>4, <2>1, <2>2, <3>1, <3>2
    <3>4. p[a] < p[b]
      BY <1>2, <3>3
    <3> QED
      BY <1>7, <2>2, <3>3, <3>4 DEF OneAsk
  <2> QED
    BY <2>2 DEF OneAsk
<1>8. toTerminal' = v
  BY <1>2 DEF v
<1>9. \A i \in 1..Len(v) : \/ \E k \in 1..Len(u) : v[i] = u[k]
                           \/ \E j \in 1..Len(ts) : v[i] = ts[j]
  BY <1>5
<1> QED
  BY <1>4, <1>6, <1>7, <1>8, <1>9 DEF u

\* What asks for nothing is sent.
LEMMA NoiseSent ==
    ASSUME LineTypeOK, OneAsk(toTerminal), NEW ts \in Seq(Requests), Sends(ts), NoAsk(ts)
    PROVE  /\ Heard(toTerminal, toTerminal') /\ OneAsk(toTerminal')
           /\ No({"ZFIN"}, toTerminal) /\ No({"ZFIN"}, ts) => No({"ZFIN"}, toTerminal')
<1>1. /\ \A i \in 1..Len(toTerminal') :
             \/ \E k \in 1..Len(toTerminal) : toTerminal'[i] = toTerminal[k]
             \/ \E j \in 1..Len(ts) : toTerminal'[i] = ts[j]
      /\ OneAsk(toTerminal')
  BY Requested
<1>2. Heard(toTerminal, toTerminal')
  BY <1>1 DEF Heard, NoAsk
<1>3. No({"ZFIN"}, toTerminal) /\ No({"ZFIN"}, ts) => No({"ZFIN"}, toTerminal')
  BY <1>1 DEF No
<1> QED
  BY <1>1, <1>2, <1>3

\* Nothing is sent.
LEMMA NothingSent ==
    ASSUME OneAsk(toTerminal), UNCHANGED toTerminal
    PROVE  /\ Heard(toTerminal, toTerminal') /\ OneAsk(toTerminal')
           /\ No({"ZFIN"}, toTerminal) => No({"ZFIN"}, toTerminal')
<1>1. Heard(toTerminal, toTerminal)
  BY DEF Heard
<1> QED
  BY <1>1

\* The terminal takes the first request.
LEMMA HeadHeard ==
    ASSUME NEW u \in Seq(Requests), u # <<>>, OneAsk(u)
    PROVE  /\ Tail(u) \in Seq(Requests) /\ Len(u) \in Nat /\ Len(Tail(u)) = Len(u) - 1
           /\ 1 \in 1..Len(u) /\ Head(u) = u[1]
           /\ \A i \in 1..Len(Tail(u)) : i + 1 \in 1..Len(u) /\ Tail(u)[i] = u[i + 1]
           /\ Heard(u, Tail(u)) /\ OneAsk(Tail(u))
           /\ Asks(Head(u)) /\ ~IsQuestion(Head(u)) => NoAsk(Tail(u))
           /\ \A T : No(T, u) => No(T, Tail(u))
<1>1. /\ Tail(u) \in Seq(Requests) /\ Len(u) \in Nat \ {0} /\ Len(Tail(u)) = Len(u) - 1
      /\ Head(u) = u[1] /\ \A i \in 1..Len(Tail(u)) : Tail(u)[i] = u[i + 1]
  BY HeadTailProperties, EmptySeq, LenProperties
<1> DEFINE v == Tail(u)
<1> HIDE DEF v
<1>2. ASSUME NEW i \in 1..Len(v)
      PROVE  i + 1 \in 1..Len(u) /\ v[i] = u[i + 1] /\ 1 < i + 1
  BY <1>1 DEF v
<1>3. 1 \in 1..Len(u)
  BY <1>1
<1>4. Heard(u, v) /\ \A T : No(T, u) => No(T, v)
  <2>1. \A i \in 1..Len(v) : \E k \in 1..Len(u) : v[i] = u[k]
    BY <1>2
  <2> QED
    BY <2>1 DEF Heard, No
<1>5. OneAsk(v)
  <2>1. ASSUME NEW i \in 1..Len(v), NEW j \in 1..Len(v), i < j, Asks(v[i]), Asks(v[j])
        PROVE  IsQuestion(v[i]) /\ v[j].type = "DATA"
    <3>1. PICK a \in 1..Len(u) : a = i + 1
      BY <1>2
    <3>2. PICK b \in 1..Len(u) : b = j + 1
      BY <1>2
    <3>3. a < b /\ v[i] = u[a] /\ v[j] = u[b]
      BY <1>2, <2>1, <3>1, <3>2
    <3> QED
      BY <2>1, <3>3 DEF OneAsk
  <2> QED
    BY <2>1 DEF OneAsk
<1>6. ASSUME Asks(u[1]), ~IsQuestion(u[1]) PROVE NoAsk(v)
  <2>1. ASSUME NEW i \in 1..Len(v), Asks(v[i]) PROVE FALSE
    <3>1. PICK a \in 1..Len(u) : a = i + 1
      BY <1>2
    <3>2. 1 < a /\ v[i] = u[a]
      BY <1>2, <3>1
    <3> QED
      BY <1>3, <1>6, <2>1, <3>2 DEF OneAsk
  <2> QED
    BY <2>1 DEF NoAsk
<1> QED
  BY <1>1, <1>2, <1>3, <1>4, <1>5, <1>6 DEF v

-----------------------------------------------------------------------------
\* What is on its way after a step is a sequence of whole tokens, too.
LEMMA IncTypes ==
    ASSUME LineTypeOK'
    PROVE  Inc' \in Seq(Wholes) /\ Len(Inc') \in Nat
<1>1. bufferM' \in Seq(Buffered(Answers)) /\ toProgram' \in Lines(Answers)
  BY DEF LineTypeOK
<1>2. Cores(bufferM') \in Seq(Wholes)
  BY <1>1, CoresLemma
<1>3. Coming(toProgram') \in Seq(Wholes)
  BY <1>1, ComingLemma, WholesLemma, SeqMonotonic
<1>4. Inc' = Cores(bufferM') \o Coming(toProgram')
  BY DEF Inc
<1>5. Inc' \in Seq(Wholes)
  BY <1>2, <1>3, <1>4, ConcatProperties
<1> QED
  BY <1>5, LenProperties

\* What rz and the terminal rely on while rz is not about to end.
TurnInv == Alive => LineInv /\ HolderInv

\* What the requests say even then stays so.
LEMMA PeerStays ==
    ASSUME PeerInv, Alive' => Alive,
           UNCHANGED <<phase, offer, at, zmodemFileM, posM, stream, disk, lost>>,
           Heard(toTerminal, toTerminal'), OneAsk(toTerminal'),
           Alive' /\ No({"ZFIN"}, toTerminal) => No({"ZFIN"}, toTerminal')
    PROVE  PeerInv'
<1>1. /\ phase' = phase /\ offer' = offer /\ at' = at /\ disk' = disk /\ posM' = posM
      /\ zmodemFileM' = zmodemFileM /\ stream' = stream /\ lost' = lost
  OBVIOUS
<1>2. DiskInv'
  BY <1>1 DEF PeerInv, DiskInv
<1>3. ASSUME NEW i \in 1..Len(toTerminal') PROVE Due(toTerminal[i])'
  <2>1. ~Asks(toTerminal'[i]) \/ \E k \in 1..Len(toTerminal) : toTerminal'[i] = toTerminal[k]
    BY DEF Heard
  <2> QED
    BY <1>1, <2>1 DEF PeerInv, Due, Asks, MayGreet, Whole, Delivered
<1>4. Streaming' => at' <= Size[offer']
  BY <1>1 DEF PeerInv, Streaming
<1>5. phase' = "over" \/ ~No({"ZFIN"}, toTerminal') => ~Alive'
  BY <1>1 DEF PeerInv
<1> QED
  BY <1>2, <1>3, <1>4, <1>5 DEF PeerInv

\* Nothing is said anew: what is on the line says what it said.
LEMMA LineStays ==
    ASSUME LineTypeOK, LineTypeOK', LineInv,
           UNCHANGED <<flavour, phase, offer, at, zmodemFileM, posM, stream, disk, lost>>,
           Heard(toTerminal, toTerminal'), NEW k \in 0..Len(Inc), Kept(k, Inc, Inc'),
           UNCHANGED inputFrameM \/ (inputFrameM'.type = "ZFILE" => inputFrameM'.arg = flavour.version)
    PROVE  /\ LineInv'
           /\ NoAsk(toTerminal) => NoAsk(toTerminal')
           /\ No({"ZRINIT", "ZSKIP"}, toTerminal) => No({"ZRINIT", "ZSKIP"}, toTerminal')
           /\ No(Replies, Inc) => No(Replies, Inc')
           /\ No(Offers, Inc) => No(Offers, Inc')
           /\ No(Replies \ {"DATA"}, Inc) => No(Replies \ {"DATA"}, Inc')
<1>1. /\ flavour' = flavour /\ phase' = phase /\ offer' = offer /\ at' = at
      /\ zmodemFileM' = zmodemFileM /\ posM' = posM /\ stream' = stream /\ disk' = disk
  OBVIOUS
<1>2. PICK u : u = Inc
  OBVIOUS
<1>3. PICK v : v = Inc'
  OBVIOUS
<1>4. u \in Seq(Wholes) /\ v \in Seq(Wholes) /\ k \in 0..Len(u) /\ Kept(k, u, v) /\ k \in Nat
  BY <1>2, <1>3, IncLemma, IncTypes
<1>5. /\ \A T : "torn" \notin T /\ No(T, u) => No(T, v)
      /\ Ordered(u) => Ordered(v)
  BY <1>4, KeptLemma
<1>6. "torn" \notin Replies /\ "torn" \notin Offers /\ "torn" \notin Replies \ {"DATA"}
  BY DEF Replies, Offers
<1>7. /\ No(Replies, Inc) => No(Replies, Inc')
      /\ No(Offers, Inc) => No(Offers, Inc')
      /\ No(Replies \ {"DATA"}, Inc) => No(Replies \ {"DATA"}, Inc')
  BY <1>2, <1>3, <1>5, <1>6, Zenon
<1>8. /\ NoAsk(toTerminal) => NoAsk(toTerminal')
      /\ No({"ZRINIT", "ZSKIP"}, toTerminal) => No({"ZRINIT", "ZSKIP"}, toTerminal')
  <2>1. {"ZRINIT", "ZSKIP"} \in SUBSET {"ZRINIT", "ZSKIP", "ZRPOS", "DATA"}
    OBVIOUS
  <2> QED
    BY <2>1, HeardLemma
<1>9. ASSUME NEW i \in 1..Len(v) PROVE Tells(Inc, i)'
  <2>1. k + i \in 1..Len(u) /\ (v[i] = u[k + i] \/ v[i].type = "torn")
    BY <1>4 DEF Kept
  <2>2. PICK m \in 1..Len(u) : m = k + i
    BY <2>1
  <2>3. CASE v[i].type = "torn"
    BY <1>3, <2>3 DEF Tells, Offers
  <2>4. CASE v[i] = u[m]
    <3>1. Tells(Inc, m)
      BY <1>2 DEF LineInv
    <3>2. ASSUME NEW base, Chain(After(u, m), base) PROVE Chain(After(v, i), base)
      <4>1. i \in 0..Len(v)
        BY <1>4, LenProperties
      <4>2. After(u, m) \in Seq(Wholes) /\ After(v, i) \in Seq(Wholes) /\ Kept(0, After(u, m), After(v, i))
        BY <1>4, <2>2, <4>1, KeptBehind
      <4> DEFINE a == After(u, m)  b == After(v, i)
      <4>3. a \in Seq(Wholes) /\ b \in Seq(Wholes) /\ Kept(0, a, b) /\ Linked(a, base, offer, phase, at)
        BY <3>2, <4>2 DEF Chain
      <4> HIDE DEF a, b
      <4>4. Linked(b, base, offer, phase, at)
        BY ONLY <4>3, KeptLinked
      <4> QED
        BY <4>4 DEF b, Chain
    <3>3. Inc'[i] = Inc[m] /\ After(Inc', i) = After(v, i) /\ After(Inc, m) = After(u, m)
      BY <1>2, <1>3, <2>4
    <3> QED
      BY <1>1, <3>1, <3>2, <3>3 DEF Tells, AckFits, Streaming, StartsAtEnd, Stored, Chain
  <2> QED
    BY <2>1, <2>2, <2>3, <2>4
<1>10. ASSUME NEW i \in 1..Len(toTerminal') PROVE Means(toTerminal[i])'
  <2>1. ~Asks(toTerminal'[i]) \/ \E j \in 1..Len(toTerminal) : toTerminal'[i] = toTerminal[j]
    BY DEF Heard
  <2>2. CASE ~Asks(toTerminal'[i])
    BY <2>2 DEF Means, Asks
  <2>3. ASSUME NEW j \in 1..Len(toTerminal), toTerminal'[i] = toTerminal[j] PROVE Means(toTerminal[i])'
    <3>1. Means(toTerminal[j])
      BY DEF LineInv
    <3> QED
      BY <1>1, <2>3, <3>1 DEF Means, StartsAtEnd, Stored
  <2> QED
    BY <2>1, <2>2, <2>3
<1>11. LineInv'
  <2>1. NoAsk(toTerminal') \/ No(Replies, Inc')
    BY <1>7, <1>8 DEF LineInv
  <2>2. Ordered(Inc')
    BY <1>2, <1>3, <1>5 DEF LineInv
  <2>3. inputFrameM'.type = "ZFILE" => inputFrameM'.arg = flavour'.version
    BY <1>1 DEF LineInv
  <2> QED
    BY <1>3, <1>9, <1>10, <2>1, <2>2, <2>3 DEF LineInv
<1> QED
  BY <1>7, <1>8, <1>11

\* Nobody comes to hold a turn.
RolesKept ==
    /\ Alive' => Alive
    /\ Greeting' => Greeting
    /\ Going' => Going
    /\ Hearing' => Hearing
    /\ Taking' => Taking

\* Nothing is said anew, and the turns are as they were.
LEMMA TurnStays ==
    ASSUME LineTypeOK, LineTypeOK', TurnInv, RolesKept,
           UNCHANGED <<flavour, phase, offer, at, zmodemFileM, posM, stream, disk, lost>>,
           Heard(toTerminal, toTerminal'), NEW k \in 0..Len(Inc), Kept(k, Inc, Inc'),
           k = 0 \/ ~Taking' \/ Greeting',
           \/ UNCHANGED inputFrameM
           \/ (inputFrameM'.type = "ZFILE" => inputFrameM'.arg = flavour.version) /\ ~Hearing'
    PROVE  TurnInv'
<1> SUFFICES ASSUME Alive'
             PROVE  LineInv' /\ HolderInv'
  BY DEF TurnInv
<1>1. /\ flavour' = flavour /\ phase' = phase /\ offer' = offer /\ at' = at
      /\ zmodemFileM' = zmodemFileM /\ posM' = posM /\ stream' = stream /\ disk' = disk
      /\ lost' = lost
  OBVIOUS
<1>2. LineInv /\ HolderInv
  BY DEF TurnInv, RolesKept
<1>3. /\ Greeting' => Greeting
      /\ Going' => Going
      /\ Hearing' => Hearing
      /\ Taking' => Taking
  BY DEF RolesKept
<1>4. /\ LineInv'
      /\ NoAsk(toTerminal) => NoAsk(toTerminal')
      /\ No({"ZRINIT", "ZSKIP"}, toTerminal) => No({"ZRINIT", "ZSKIP"}, toTerminal')
      /\ No(Replies, Inc) => No(Replies, Inc')
      /\ No(Offers, Inc) => No(Offers, Inc')
      /\ No(Replies \ {"DATA"}, Inc) => No(Replies \ {"DATA"}, Inc')
  BY <1>2, LineStays
<1>5. PICK u : u = Inc
  OBVIOUS
<1>6. PICK v : v = Inc'
  OBVIOUS
<1>7. u \in Seq(Wholes) /\ v \in Seq(Wholes) /\ Kept(k, u, v)
  BY <1>5, <1>6, IncLemma, IncTypes
<1>8. Greeting' => NoAsk(toTerminal') /\ No(Replies, Inc') /\ ~Going' /\ MayGreet'
  BY <1>1, <1>2, <1>3, <1>4 DEF HolderInv, MayGreet, Delivered
<1>9. Going' => /\ phase' \in {"offered", "sending", "eof"} /\ zmodemFileM' = offer'
                 /\ No(Offers, Inc') /\ No({"ZRINIT", "ZSKIP"}, toTerminal')
  BY <1>1, <1>2, <1>3, <1>4 DEF HolderInv
<1>10. Hearing' /\ inputFrameM'.type = "ZACK" =>
           NoAsk(toTerminal') /\ No(Replies, Inc') /\ AckFits(inputFrameM.arg)'
  BY <1>1, <1>2, <1>3, <1>4 DEF HolderInv, AckFits, Stored
<1>11. ASSUME Taking'
       PROVE  /\ Streaming' /\ zmodemFileM' = offer'
              /\ NoAsk(toTerminal') /\ No(Replies \ {"DATA"}, Inc')
              /\ stream' = "open" => StartsAtEnd(posM)' /\ Chain(Inc, posM)'
  <2>1. /\ Streaming /\ zmodemFileM = offer /\ NoAsk(toTerminal) /\ No(Replies \ {"DATA"}, Inc)
        /\ stream = "open" => StartsAtEnd(posM) /\ Chain(Inc, posM)
    BY <1>2, <1>3, <1>11 DEF HolderInv, Taking
  <2>2. ASSUME stream = "open" PROVE Linked(v, posM, offer, phase, at)
    <3>1. CASE k = 0
      <4>1. Linked(u, posM, offer, phase, at) /\ Kept(0, u, v)
        BY <1>5, <1>7, <2>1, <2>2, <3>1 DEF Chain
      <4> QED
        BY <1>7, <4>1, KeptLinked
    <3>2. CASE Greeting'
      <4>1. No(Replies, v) /\ phase # "sending"
        BY <1>2, <1>3, <1>4, <1>6, <3>2 DEF HolderInv, MayGreet
      <4>2. No({"DATA"}, v)
        BY <4>1 DEF No, Replies
      <4> QED
        BY <4>1, <4>2, NoneLinked
    <3> QED
      BY <1>11, <3>1, <3>2
  <2>3. stream' = "open" => StartsAtEnd(posM)' /\ Chain(Inc, posM)'
    BY <1>1, <1>6, <2>1, <2>2 DEF StartsAtEnd, Stored, Chain
  <2> QED
    BY <1>1, <1>4, <2>1, <2>3 DEF Streaming
<1>12. HolderInv'
  BY <1>8, <1>9, <1>10, <1>11 DEF HolderInv
<1> QED
  BY <1>4, <1>12

-----------------------------------------------------------------------------
\* What does not touch the engine leaves the turns as they are.
LEMMA TurnsStay ==
    ASSUME CallsInv, UNCHANGED engineVars
    PROVE  CallsInv' /\ TurnsKept /\ (Alive' <=> Alive) /\ \A k \in Turns : Holds(k)' <=> Holds(k)
<1>1. UNCHANGED <<curState, initialized, agenda, jobs, worker, deleted>>
  BY DEF engineVars
<1>2. (Alive' <=> Alive) /\ (Queued' <=> Queued)
  BY <1>1 DEF Alive, Queued
<1>3. \A k : Called(k)' <=> Called(k)
  BY <1>1 DEF Called
<1>4. \A k : Holds(k)' <=> Holds(k)
  BY <1>1, <1>2, <1>3 DEF Holds
<1>5. CallsInv'
  <2>1. Booting' <=> Booting
    BY <1>1 DEF Booting
  <2>2. Going' <=> Going
    BY <1>4 DEF Going
  <2> QED
    BY <1>1, <1>2, <1>3, <2>1, <2>2 DEF CallsInv
<1> QED
  BY <1>2, <1>4, <1>5 DEF TurnsKept

\* A step by which nothing new is asked for or said of the file.
LEMMA Noise ==
    ASSUME LineTypeOK, LineTypeOK', ProtocolInv, CallsInv', TurnsKept,
           UNCHANGED <<flavour, phase, offer, at, zmodemFileM, posM, stream, disk, lost>>,
           Heard(toTerminal, toTerminal'), OneAsk(toTerminal'),
           Alive' /\ No({"ZFIN"}, toTerminal) => No({"ZFIN"}, toTerminal'),
           NEW k \in 0..Len(Inc), Kept(k, Inc, Inc'), k = 0 \/ ~Taking' \/ Greeting',
           \/ UNCHANGED inputFrameM
           \/ (inputFrameM'.type = "ZFILE" => inputFrameM'.arg = flavour.version) /\ ~Hearing'
    PROVE  ProtocolInv'
<1>1. PeerInv /\ TurnInv
  BY DEF ProtocolInv, TurnInv
<1>2. Alive' => Alive
  BY DEF TurnsKept
<1>3. PeerInv'
  BY <1>1, <1>2, PeerStays
<1>4. RolesKept
  BY DEF RolesKept, TurnsKept, Turns, Greeting, Going, Hearing, Taking
<1>5. TurnInv'
  BY <1>1, <1>4, TurnStays
<1> QED
  BY <1>3, <1>5 DEF ProtocolInv, TurnInv

\* A step of the engine or of a timer, and one of a function that only writes.
LEMMA Silence ==
    ASSUME LineTypeOK, LineTypeOK', ProtocolInv, CallsInv', TurnsKept,
           UNCHANGED <<flavour, phase, offer, at, zmodemFileM, posM, stream, disk, lost>>,
           UNCHANGED <<inputVars, wireVars>>
    PROVE  ProtocolInv'
<1>1. Inc' = Inc /\ Kept(0, Inc, Inc') /\ 0 \in 0..Len(Inc)
  BY SameInc DEF inputVars, wireVars
<1>2. OneAsk(toTerminal)
  BY DEF ProtocolInv, PeerInv
<1>3. Heard(toTerminal, toTerminal') /\ OneAsk(toTerminal')
      /\ (No({"ZFIN"}, toTerminal) => No({"ZFIN"}, toTerminal'))
  BY <1>2, NothingSent DEF wireVars
<1>4. UNCHANGED inputFrameM
  BY DEF inputVars
<1> QED
  BY <1>1, <1>3, <1>4, Noise

\* A function that writes what asks for nothing, and no goodbye while rz lives.
LEMMA Chatter ==
    ASSUME LineTypeOK, LineTypeOK', ProtocolInv, CallsInv', TurnsKept,
           UNCHANGED <<flavour, phase, offer, at, zmodemFileM, posM, stream, disk, lost>>,
           UNCHANGED inputVars, NEW ts \in Seq(Requests), Sends(ts), NoAsk(ts),
           ~Alive' \/ No({"ZFIN"}, ts)
    PROVE  ProtocolInv'
<1>1. Inc' = Inc /\ Kept(0, Inc, Inc') /\ 0 \in 0..Len(Inc)
  BY SameInc DEF inputVars, Sends
<1>2. OneAsk(toTerminal)
  BY DEF ProtocolInv, PeerInv
<1>3. Heard(toTerminal, toTerminal') /\ OneAsk(toTerminal')
      /\ (No({"ZFIN"}, toTerminal) /\ No({"ZFIN"}, ts) => No({"ZFIN"}, toTerminal'))
  BY <1>2, NoiseSent
<1>4. UNCHANGED inputFrameM
  BY DEF inputVars
<1>5. Alive' /\ No({"ZFIN"}, toTerminal) => No({"ZFIN"}, toTerminal')
  BY <1>3
<1> QED
  BY <1>1, <1>3, <1>4, <1>5, Noise

\* Nothing is open: nothing is closed.
LEMMA ClosedAlready ==
    ASSUME stream = "closed", NEW c \in Closed
    PROVE  c.disk = disk /\ c.lost = lost
BY DEF Closed, Cuts

\* What closing leaves of a file, had before, and whether it is still delivered.
Arrived(had, gone, f) ==
    /\ had[f].sound
    /\ had[f].len = Size[f] \/ (f \in gone /\ had[f].len + Chunk > Size[f])

\* Closing cuts less than a chunk at the end of a file that was written in full.
LEMMA CutLemma ==
    ASSUME FileTypeOK, StreamInv, DiskInv, NEW c \in Closed, NEW f \in Files
    PROVE  /\ c.disk[f].sound = disk[f].sound
           /\ c.disk[f].len \in Lengths /\ c.disk[f].len <= disk[f].len
           /\ stream = "closed" \/ f # zmodemFileM => c.disk[f] = disk[f]
           /\ Arrived(disk, lost, f) => Arrived(c.disk, c.lost, f)
           /\ c.disk[f].len >= IF f = zmodemFileM THEN disk[f].len - tail ELSE disk[f].len
<1> DEFINE old == disk[f]  new == c.disk[f]
<1>1. old \in Parts /\ new \in Parts /\ old.len \in Int /\ new.len \in Int /\ tail \in Nat
  BY ClosedLemma DEF FileTypeOK, StreamInv, Parts
<1>2. Size[f] \in Nat /\ Chunk \in Nat
  BY RzAssumption
<1>3. old.len \in Lengths
  BY DEF DiskInv
<1>4. CASE new = old
  <2>1. lost \subseteq c.lost
    BY ClosedLemma
  <2> QED
    BY <1>1, <1>3, <1>4, <2>1 DEF Arrived
<1>5. CASE Cut(old, new) /\ f \in c.lost /\ new # old
  <2>1. f = zmodemFileM /\ stream = "open"
    BY <1>5, ClosedLemma DEF FileTypeOK
  <2>2. new.sound = old.sound /\ 0 <= new.len /\ new.len < old.len /\ old.len <= new.len + tail
    BY <1>5 DEF Cut
  <2>3. tail > 0
    BY <1>1, <2>2
  <2>4. old.len = Size[f] /\ tail < Chunk
    BY <2>1, <2>3 DEF StreamInv
  <2>5. new.len + Chunk > Size[f] /\ new.len >= old.len - tail /\ new.len \in Nat
    BY <1>1, <1>2, <2>2, <2>4
  <2>6. new.len \in Lengths
    <3>1. new.len <= Size[f]
      BY <1>1, <1>2, <2>2, <2>4
    <3> QED
      BY <2>5, <3>1 DEF Lengths
  <2>7. Arrived(disk, lost, f) => Arrived(c.disk, c.lost, f)
    BY <1>5, <2>2, <2>5 DEF Arrived
  <2>8. stream = "closed" \/ f # zmodemFileM => c.disk[f] = disk[f]
    BY <2>1
  <2>9. new.len <= old.len
    BY <1>1, <2>2
  <2>10. c.disk[f].len >= IF f = zmodemFileM THEN disk[f].len - tail ELSE disk[f].len
    BY <2>1, <2>5
  <2> QED
    BY <2>2, <2>6, <2>7, <2>8, <2>9, <2>10
<1>6. new = old \/ (Cut(old, new) /\ f \in c.lost)
  BY ClosedLemma
<1> QED
  BY <1>4, <1>5, <1>6

\* The session is freed, and with it the file.
LEMMA DeletesProtocol ==
    ASSUME ProtocolInv, StreamInv, EngineTypeOK, DataTypeOK, DataTypeOK',
           EngineStep, deleted' # deleted, DeletesFile, UNCHANGED senderVars
    PROVE  ProtocolInv'
<1>1. CallsInv /\ PeerInv /\ FileTypeOK /\ SenderTypeOK
  BY DEF ProtocolInv, DataTypeOK
<1>2. CallsInv' /\ UNCHANGED toTerminal
  BY <1>1, EngineKeeps DEF EngineStep, wireVars
<1>3. ~Alive'
  <2>1. CASE DeleteSelf
    <3>1. agenda # <<>> /\ Head(agenda).op = "delete" /\ UNCHANGED curState
      BY <2>1 DEF DeleteSelf, Calling
    <3>2. curState = "DESTROY_STATE"
      BY <1>1, <3>1, HeadCall DEF EngineTypeOK, Fits
    <3> QED
      BY <3>1, <3>2 DEF Alive, Gone
  <2>2. CASE WorkerStep
    BY <2>2 DEF WorkerStep, PollJob, RunFreedJob, LeaveLoop, NextTurn
  <2>3. CASE \/ IgnoreRest \/ EnterFirstState \/ MarkInitialized \/ HandleEvent
             \/ HandleUndefinedEvent \/ ChangeState \/ EnterState
             \/ NewTimer \/ CancelTimer \/ IgnoreEvent \/ Destroy
    BY <2>3 DEF IgnoreRest, EnterFirstState, MarkInitialized, HandleEvent, HandleUndefinedEvent,
       ChangeState, EnterState, NewTimer, CancelTimer, IgnoreEvent, Destroy
  <2> QED
    BY <2>1, <2>2, <2>3 DEF EngineStep, CallStep
<1>4. PICK c \in Closed : disk' = c.disk /\ lost' = c.lost
  BY DEF DeletesFile
<1>5. /\ UNCHANGED <<phase, offer, at, zmodemFileM, posM>> /\ stream' = "closed" /\ offer \in Files
  BY <1>1 DEF DeletesFile, senderVars, SenderTypeOK
<1>6. DiskInv'
  <2>1. ASSUME NEW f \in Files
        PROVE  disk'[f].len \in Lengths /\ (disk'[f].sound => disk'[f].len <= Size[f])
    <3>1. /\ disk'[f].sound = disk[f].sound /\ disk'[f].len \in Lengths /\ disk'[f].len <= disk[f].len
      BY <1>1, <1>4, CutLemma DEF PeerInv
    <3>2. disk[f].sound => disk[f].len <= Size[f]
      BY <1>1 DEF PeerInv, DiskInv
    <3>3. disk'[f].len \in Int /\ disk[f].len \in Int /\ Size[f] \in Int
      BY <1>1, <3>1, RzAssumption DEF FileTypeOK, Parts, Lengths
    <3> QED
      BY <3>1, <3>2, <3>3
  <2> QED
    BY <1>1, <1>5, <2>1 DEF PeerInv, DiskInv
<1>7. /\ Arrived(disk, lost, offer) => Arrived(disk', lost', offer)
      /\ stream = "closed" => disk'[offer] = disk[offer]
  BY <1>1, <1>4, <1>5, CutLemma DEF PeerInv
<1>8. ASSUME NEW i \in 1..Len(toTerminal') PROVE Due(toTerminal[i])'
  <2>1. Due(toTerminal[i])
    BY <1>1, <1>2 DEF PeerInv
  <2>2. MayGreet => MayGreet'
    BY <1>5, <1>7 DEF MayGreet, Delivered, Arrived
  <2> QED
    BY <1>2, <1>5, <1>7, <2>1, <2>2 DEF Due, Whole
<1>9. OneAsk(toTerminal') /\ (Streaming' => at' <= Size[offer'])
  BY <1>1, <1>2, <1>5 DEF PeerInv, Streaming
<1> QED
  BY <1>2, <1>3, <1>6, <1>8, <1>9 DEF ProtocolInv, PeerInv

\* What the engine, the timers and the signal do.
LEMMA EngineProtocol ==
    ASSUME ProtocolInv, EngineTypeOK, DataTypeOK, DataTypeOK', UNCHANGED <<fileVars, senderVars>>,
           EngineStep \/ SessionTimer \/ SignalTick \/ SigHandler \/ ReadTick
    PROVE  ProtocolInv'
<1>1. CallsInv /\ PeerInv /\ LineTypeOK /\ LineTypeOK'
  BY DEF ProtocolInv, DataTypeOK
<1>2. UNCHANGED <<flavour, phase, offer, at, zmodemFileM, posM, stream, disk, lost>>
  BY DEF fileVars, senderVars
<1>3. CASE EngineStep
  <2>1. CallsInv' /\ TurnsKept
    BY <1>1, <1>3, EngineKeeps
  <2> QED
    BY <1>1, <1>2, <1>3, <2>1, Silence DEF EngineStep
<1>4. CASE SessionTimer
  <2>1. CallsInv' /\ TurnsKept
    BY <1>1, <1>4, TimerKeeps DEF SessionTimer
  <2> QED
    BY <1>1, <1>2, <1>4, <2>1, Silence DEF SessionTimer
<1>5. CASE SignalTick
  <2>1. <<"RESET_EVT">> \in Seq(Idles)
    BY DEF Idles, Handled, Leaving
  <2>2. CallsInv' /\ TurnsKept
    BY <1>1, <1>5, <2>1, TickKeeps DEF SignalTick
  <2> QED
    BY <1>1, <1>2, <1>5, <2>2, Silence DEF SignalTick
<1>6. CASE SigHandler
  <2>1. CallsInv' /\ TurnsKept
    BY <1>1, <1>6, TurnsStay DEF SigHandler
  <2> QED
    BY <1>1, <1>2, <1>6, <2>1, Silence DEF SigHandler
<1>7. CASE ReadTick
  <2>1. \E es \in Seq(Idles) : FireInputTimer(es)
    <3>1. <<>> \in Seq(Idles)
      OBVIOUS
    <3>2. \A n \in Nat : [i \in 1..n |-> "NETWORK_INPUT_EVT"] \in Seq(Idles)
      BY DEF Idles, Handled
    <3>3. \A n \in 1..(IF Splits THEN MaxReads ELSE 1) : n \in Nat
      BY ZmodemAssumption
    <3> QED
      BY <1>7, <3>1, <3>2, <3>3 DEF ReadTick
  <2>2. CallsInv' /\ TurnsKept
    BY <1>1, <2>1, TickKeeps
  <2>3. UNCHANGED <<toTerminal, inputFrameM>>
    BY <1>7 DEF ReadTick
  <2>4. Inc' = Inc
    BY <1>1, <1>7, ReadInc
  <2>5. 0 \in 0..Len(Inc) /\ Kept(0, Inc, Inc')
    <3>1. Len(Inc) \in Nat
      BY <1>1, IncLemma
    <3> QED
      BY <2>4, <3>1 DEF Kept
  <2>6. OneAsk(toTerminal)
    BY <1>1 DEF PeerInv
  <2>7. Heard(toTerminal, toTerminal') /\ OneAsk(toTerminal')
        /\ (No({"ZFIN"}, toTerminal) => No({"ZFIN"}, toTerminal'))
    BY <2>3, <2>6, NothingSent
  <2> QED
    BY <1>1, <1>2, <2>2, <2>3, <2>5, <2>7, Noise
<1> QED
  BY <1>3, <1>4, <1>5, <1>6, <1>7

-----------------------------------------------------------------------------
\* Which requests ask for an answer, by their type.
LEMMA AsksLemma ==
    /\ \A t : t.type \in {"ZRINIT", "ZSKIP", "ZRPOS", "DATA"} => Asks(t) /\ ~IsQuestion(t)
    /\ \A t : t.type \in {"ZFIN", "O"} => ~Asks(t) /\ ~IsQuestion(t)
    /\ \A t : t.type \notin {"ZRINIT", "ZSKIP", "ZRPOS", "DATA", "ZCOMMAND"} => ~Asks(t)
    /\ \A t : IsQuestion(t) => Asks(t) /\ t.type = "ZCOMMAND"
    /\ \A t : ~Asks(t) => NoAsk(<<t>>)
    /\ \A t : OneAsk(<<t>>)
<1>1. \A t : IsQuestion(t) => Asks(t) /\ t.type = "ZCOMMAND"
  BY Zenon DEF Asks, IsQuestion
<1>2. \A t : ~Asks(t) => NoAsk(<<t>>)
  BY DEF NoAsk
<1>3. \A t : OneAsk(<<t>>)
  BY DEF OneAsk
<1> QED
  BY <1>1, <1>2, <1>3 DEF Asks

\* The functions of the first state and of the end.
LEMMA OpeningProtocol ==
    ASSUME ProtocolInv, EngineTypeOK, DataTypeOK, DataTypeOK', UNCHANGED <<fileVars, senderVars>>,
           InitState \/ SendLeadingMsg \/ SendClientWorkingDir
    PROVE  ProtocolInv'
<1>1. CallsInv /\ PeerInv /\ LineTypeOK /\ LineTypeOK'
  BY DEF ProtocolInv, DataTypeOK
<1>2. UNCHANGED <<flavour, phase, offer, at, zmodemFileM, posM, stream, disk, lost>>
  BY DEF fileVars, senderVars
<1>3. CASE InitState
  <2>1. Running("initState") /\ Returns /\ bufferM' = <<>> /\ UNCHANGED <<wireVars, inputFrameM>>
    BY <1>3 DEF InitState
  <2>2. CallsInv' /\ TurnsKept /\ UNCHANGED curState /\ curState = "IDLE_STATE"
    BY <1>1, <2>1, ReturnKeeps, RunningLemma DEF Homes
  <2>3. Greeting'
    BY <2>2 DEF Greeting, Holds, TurnIn
  <2>4. bufferM \in Seq(Buffered(Answers)) /\ Len(bufferM) \in Nat
    BY <1>1, LenProperties DEF LineTypeOK
  <2>5. After(bufferM, Len(bufferM)) = <<>> /\ Len(bufferM) \in 0..Len(bufferM)
    BY <2>4, SubSeqEmpty DEF After
  <2>6. PICK k \in 0..Len(bufferM) : bufferM' = After(bufferM, k)
    BY <2>1, <2>5
  <2>7. k \in 0..Len(Inc) /\ Kept(k, Inc, Inc')
    BY <1>1, <2>1, <2>6, DropsKept DEF wireVars
  <2>8. Heard(toTerminal, toTerminal') /\ OneAsk(toTerminal')
        /\ (No({"ZFIN"}, toTerminal) => No({"ZFIN"}, toTerminal'))
    BY <1>1, <2>1, NothingSent DEF wireVars, PeerInv
  <2> QED
    BY <1>1, <1>2, <2>1, <2>2, <2>3, <2>7, <2>8, Noise
<1>4. CASE SendLeadingMsg
  <2>1. CallsInv' /\ TurnsKept
    BY <1>1, <1>4, ReturnKeeps DEF SendLeadingMsg
  <2> QED
    BY <1>1, <1>2, <1>4, <2>1, Silence DEF SendLeadingMsg
<1>5. CASE SendClientWorkingDir
  <2>1. CallsInv' /\ TurnsKept
    BY <1>1, <1>5, ReturnKeeps DEF SendClientWorkingDir
  <2>2. PICK ts : ts = IF ClientDir THEN <<Frame("ZCOMMAND", "workdir")>> ELSE <<>>
    OBVIOUS
  <2>3. Sends(ts)
    BY <1>5, <2>2, Zenon DEF SendClientWorkingDir
  <2>4. UNCHANGED inputVars
    BY <1>5 DEF SendClientWorkingDir
  <2>5. ts \in Seq(Requests) /\ NoAsk(ts) /\ No({"ZFIN"}, ts)
    <3>1. <<>> \in Seq(Requests) /\ NoAsk(<<>>) /\ No({"ZFIN"}, <<>>)
      BY DEF NoAsk, No
    <3>2. PICK t : t = Frame("ZCOMMAND", "workdir")
      OBVIOUS
    <3>3. t.type = "ZCOMMAND" /\ ~IsQuestion(t)
      <4>1. t.type = "ZCOMMAND" /\ t.arg = "workdir"
        BY <3>2 DEF Frame
      <4> QED
        BY <4>1, Zenon DEF IsQuestion
    <3>4. NoAsk(<<t>>) /\ No({"ZFIN"}, <<t>>)
      BY <3>3 DEF NoAsk, No, Asks
    <3>5. <<t>> \in Seq(Requests)
      BY <3>2, RequestsLemma, Zenon
    <3> QED
      BY <2>2, <3>1, <3>2, <3>4, <3>5, Zenon
  <2> QED
    BY <1>1, <1>2, <2>1, <2>3, <2>4, <2>5, Chatter
<1> QED
  BY <1>3, <1>4, <1>5

\* The paths of the files to be received are named to the terminal, if any.
LEMMA PresetProtocol ==
    ASSUME ProtocolInv, EngineTypeOK, DataTypeOK, DataTypeOK', UNCHANGED senderVars, SendPresetFiles
    PROVE  ProtocolInv'
<1>1. CallsInv /\ PeerInv /\ LineTypeOK /\ LineTypeOK'
  BY DEF ProtocolInv, DataTypeOK
<1>2. /\ UNCHANGED <<flavour, phase, offer, at, zmodemFileM, posM, stream, disk, lost>>
      /\ Running("sendPresetFiles") /\ Returns /\ UNCHANGED inputVars
  BY DEF fileVars, senderVars, SendPresetFiles
<1>3. CallsInv' /\ TurnsKept
  BY <1>1, <1>2, ReturnKeeps
<1>4. PICK ts : ts = IF Preset THEN <<Frame("ZCOMMAND", "preset paths")>> ELSE <<>>
  BY Zenon
<1>5. Sends(ts)
  BY <1>4, Zenon DEF SendPresetFiles
<1>6. ts \in Seq(Requests) /\ NoAsk(ts) /\ No({"ZFIN"}, ts)
  <2>1. <<>> \in Seq(Requests) /\ NoAsk(<<>>) /\ No({"ZFIN"}, <<>>)
    BY DEF NoAsk, No
  <2>2. PICK t : t = Frame("ZCOMMAND", "preset paths")
    BY Zenon
  <2>3. t.type = "ZCOMMAND" /\ ~IsQuestion(t)
    <3>1. t.type = "ZCOMMAND" /\ t.arg = "preset paths"
      BY <2>2 DEF Frame
    <3> QED
      BY <3>1, Zenon DEF IsQuestion
  <2>4. NoAsk(<<t>>) /\ No({"ZFIN"}, <<t>>)
    BY <2>3 DEF NoAsk, No, Asks
  <2>5. <<t>> \in Seq(Requests)
    BY <2>2, CommandsLemma, Zenon
  <2> QED
    BY <1>4, <2>1, <2>2, <2>4, <2>5, Zenon
<1> QED
  BY <1>1, <1>2, <1>3, <1>5, <1>6, Chatter

\* The functions of the end.
LEMMA EndingProtocol ==
    ASSUME ProtocolInv, EngineTypeOK, DataTypeOK, DataTypeOK', UNCHANGED <<fileVars, senderVars>>,
           SendZfin \/ SendOO
    PROVE  ProtocolInv'
<1>1. CallsInv /\ PeerInv /\ LineTypeOK /\ LineTypeOK'
  BY DEF ProtocolInv, DataTypeOK
<1>2. UNCHANGED <<flavour, phase, offer, at, zmodemFileM, posM, stream, disk, lost>>
  BY DEF fileVars, senderVars
<1>3. CASE SendZfin
  <2>1. Running("sendZfin") /\ Returns /\ UNCHANGED inputVars /\ Sends(<<Frame("ZFIN", 0)>>)
    BY <1>3 DEF SendZfin
  <2>2. CallsInv' /\ TurnsKept /\ ~Alive'
    BY <1>1, <2>1, ReturnKeeps, RunningLemma DEF Homes, Alive
  <2>3. <<Frame("ZFIN", 0)>> \in Seq(Requests) /\ NoAsk(<<Frame("ZFIN", 0)>>)
    <3>1. ~Asks(Frame("ZFIN", 0)) /\ 0 \in Int
      BY AsksLemma DEF Frame
    <3> QED
      BY <3>1, RequestsLemma, AsksLemma
  <2> QED
    BY <1>1, <1>2, <2>1, <2>2, <2>3, Chatter
<1>4. CASE SendOO
  <2>1. Running("sendOO") /\ UNCHANGED inputVars
    BY <1>4 DEF SendOO
  <2>2. curState \in Gone /\ initialized
    BY <1>1, <2>1, RunningLemma DEF Homes, Gone
  <2>3. ReturnsPosting("DESTROY_EVT") \/ ReturnsPosting("RESET_EVT")
    BY <1>4 DEF SendOO
  <2>4. CallsInv' /\ TurnsKept /\ ~Alive'
    <3>1. "DESTROY_EVT" \in Idles /\ "RESET_EVT" \in Idles
      BY DEF Idles, Handled, Leaving
    <3> QED
      BY <1>1, <2>1, <2>2, <2>3, <3>1, ReturnKeeps DEF Alive
  <2>5. Farewell \in Seq(Requests) /\ NoAsk(Farewell)
    BY RequestsLemma, AsksLemma DEF Farewell, NoAsk
  <2>6. CASE UNCHANGED wireVars
    BY <1>1, <1>2, <2>1, <2>4, <2>6, Silence
  <2>7. CASE Sends(Farewell)
    BY <1>1, <1>2, <2>1, <2>4, <2>5, <2>7, Chatter
  <2> QED
    BY <1>4, <2>6, <2>7 DEF SendOO
<1> QED
  BY <1>3, <1>4

-----------------------------------------------------------------------------
\* An answer has no other one behind it, but for its own subpackets.
LEMMA AnswerAlone ==
    ASSUME NEW u \in Seq(Wholes), Ordered(u), NEW k \in 1..Len(u), u[k].type \in Replies
    PROVE  /\ u[k].type \notin {"ZFILE", "ZDATA", "DATA"} => No(Replies, After(u, k))
           /\ u[k].type \in {"ZDATA", "DATA"} => No(Replies \ {"DATA"}, After(u, k))
           /\ u[k].type = "ZFILE" => No(Replies \ {"NAME"}, After(u, k))
<1>1. /\ Len(After(u, k)) = Len(u) - k /\ Len(u) \in Nat
      /\ \A i \in 1..Len(u) - k : After(u, k)[i] = u[k + i]
  <2>1. Len(u) \in Nat
    BY LenProperties
  <2>2. k \in 0..Len(u)
    BY <2>1
  <2> QED
    BY ONLY u \in Seq(Wholes), <2>2, AfterLemma
<1> DEFINE v == After(u, k)
<1> HIDE DEF v
<1>2. ASSUME NEW i \in 1..Len(v), v[i].type \in Replies
      PROVE  \/ u[k].type = "ZFILE" /\ v[i].type = "NAME"
             \/ u[k].type \in {"ZDATA", "DATA"} /\ v[i].type = "DATA"
  <2>1. k + i \in 1..Len(u) /\ k < k + i /\ v[i] = u[k + i]
    BY <1>1 DEF v
  <2>2. PICK j \in 1..Len(u) : j = k + i
    BY <2>1
  <2> QED
    BY <1>2, <2>1, <2>2 DEF Ordered
<1> QED
  BY <1>2 DEF v, No

\* A frame was parsed in another state: it is noted.
LEMMA NotesProtocol ==
    ASSUME ProtocolInv, LineTypeOK, LineTypeOK', Alive', CallsInv', Alive' => Alive,
           UNCHANGED <<curState, jobs, toTerminal, fileVars, senderVars>>,
           NEW k \in 1..Len(Inc), inputFrameM' = Inc[k], Inc' = After(Inc, k), Kept(k, Inc, Inc'),
           \A h \in Turns : ~Called(h)', TurnIn(curState) # "take"
    PROVE  ProtocolInv'
<1>1. LineInv /\ OneAsk(toTerminal)
  BY DEF ProtocolInv, PeerInv
<1>2. UNCHANGED <<flavour, phase, offer, at, zmodemFileM, posM, stream, disk, lost>>
  BY DEF fileVars, senderVars
<1>3. Queued' <=> Queued
  BY DEF Queued
<1>4. \A h \in Turns : Holds(h)' => Holds(h)
  BY <1>3 DEF Holds
<1>5. {"take", "hear"} \subseteq Turns /\ TurnIn(curState) # "hear"
  BY DEF Turns, TurnIn
<1>6. ~Hearing' /\ ~Taking'
  BY <1>5 DEF Hearing, Taking, Holds
<1>7. inputFrameM'.type = "ZFILE" => inputFrameM'.arg = flavour.version
  BY <1>1 DEF LineInv, Tells
<1>8. k \in 0..Len(Inc)
  OBVIOUS
<1>9. Heard(toTerminal, toTerminal') /\ OneAsk(toTerminal')
      /\ (No({"ZFIN"}, toTerminal) => No({"ZFIN"}, toTerminal'))
  BY <1>1, NothingSent
<1>10. TurnsKept
  BY <1>4 DEF TurnsKept
<1> QED
  BY <1>2, <1>6, <1>7, <1>8, <1>9, <1>10, Noise

\* rz hears the answer it waits for.
LEMMA HearsProtocol ==
    ASSUME ProtocolInv, LineTypeOK, LineTypeOK', Alive', CallsInv', Alive' => Alive,
           curState = "WAIT_ZDATA_STATE",
           UNCHANGED <<curState, jobs, toTerminal, fileVars, senderVars>>,
           NEW k \in 1..Len(Inc), inputFrameM' = Inc[k], Inc' = After(Inc, k), Kept(k, Inc, Inc'),
           \A h \in Turns : Called(h)' => h = "hear"
    PROVE  ProtocolInv'
<1>1. LineInv /\ HolderInv /\ PeerInv
  BY DEF ProtocolInv
<1>2. UNCHANGED <<flavour, phase, offer, at, zmodemFileM, posM, stream, disk, lost>>
  BY DEF fileVars, senderVars
<1>3. inputFrameM'.type = "ZFILE" => inputFrameM'.arg = flavour.version
  BY <1>1 DEF LineInv, Tells
<1>4. k \in 0..Len(Inc) /\ Inc \in Seq(Wholes)
  BY IncLemma
<1>5. Heard(toTerminal, toTerminal') /\ OneAsk(toTerminal')
      /\ (No({"ZFIN"}, toTerminal) => No({"ZFIN"}, toTerminal'))
  BY <1>1, NothingSent DEF PeerInv
<1>6. PeerInv'
  BY <1>1, <1>2, <1>5, PeerStays
<1>7. /\ LineInv'
      /\ No({"ZRINIT", "ZSKIP"}, toTerminal) => No({"ZRINIT", "ZSKIP"}, toTerminal')
      /\ No(Offers, Inc) => No(Offers, Inc')
  BY <1>1, <1>2, <1>3, <1>4, <1>5, LineStays
<1>8. {"take", "greet", "go", "hear"} \subseteq Turns /\ TurnIn(curState) = "none"
  BY DEF Turns, TurnIn
<1>9. ~Greeting' /\ ~Holds("take")'
  BY <1>8 DEF Greeting, Holds
<1>10. Going' => Going
  BY <1>8 DEF Going, Holds, Queued
<1>11. Going' => /\ phase' \in {"offered", "sending", "eof"} /\ zmodemFileM' = offer'
                 /\ No(Offers, Inc') /\ No({"ZRINIT", "ZSKIP"}, toTerminal')
  BY <1>1, <1>2, <1>7, <1>10 DEF HolderInv
<1>12. Inc[k].type \in Replies => NoAsk(toTerminal')
  BY <1>1 DEF LineInv, No
<1>13. Ordered(Inc) /\ Tells(Inc, k)
  BY <1>1 DEF LineInv
<1>14. Inc[k].type = "ZACK" => NoAsk(toTerminal') /\ No(Replies, Inc') /\ AckFits(inputFrameM.arg)'
  <2>1. ASSUME Inc[k].type = "ZACK" PROVE No(Replies, Inc') /\ AckFits(Inc[k].arg)
    BY <1>4, <1>13, <2>1, AnswerAlone DEF Replies, Offers, Tells
  <2> QED
    BY <1>2, <1>12, <2>1 DEF AckFits, Stored, Replies
<1>15. ASSUME Inc[k].type = "ZDATA"
       PROVE  /\ Streaming' /\ zmodemFileM' = offer'
              /\ NoAsk(toTerminal') /\ No(Replies \ {"DATA"}, Inc')
              /\ stream' = "open" => StartsAtEnd(posM)' /\ Chain(Inc, posM)'
  <2>1. No(Replies \ {"DATA"}, Inc') /\ Inc[k].type \in Replies
    BY <1>4, <1>13, <1>15, AnswerAlone DEF Replies
  <2>2. /\ Streaming /\ zmodemFileM = offer /\ StartsAtEnd(Inc[k].arg)
        /\ stream = "open" => Chain(After(Inc, k), Inc[k].arg)
    BY <1>13, <1>15 DEF Tells
  <2>3. stream = "open" => posM = Inc[k].arg
    BY <2>2 DEF StartsAtEnd
  <2>4. stream' = "open" => StartsAtEnd(posM)' /\ Chain(Inc, posM)'
    BY <1>2, <2>2, <2>3 DEF StartsAtEnd, Stored, Chain
  <2> QED
    BY <1>2, <1>12, <2>1, <2>2, <2>4 DEF Streaming
<1>16. HolderInv'
  BY <1>9, <1>11, <1>14, <1>15 DEF HolderInv, Taking
<1> QED
  BY <1>6, <1>7, <1>16 DEF ProtocolInv

\* parseFrame.
LEMMA ParseProtocol ==
    ASSUME ProtocolInv, EngineTypeOK, DataTypeOK, DataTypeOK', UNCHANGED <<fileVars, senderVars>>,
           ParseFrame
    PROVE  ProtocolInv'
<1>1. CallsInv /\ PeerInv /\ LineTypeOK /\ LineTypeOK' /\ OneAsk(toTerminal)
  BY DEF ProtocolInv, DataTypeOK, PeerInv
<1>2. UNCHANGED <<flavour, phase, offer, at, zmodemFileM, posM, stream, disk, lost>>
  BY DEF fileVars, senderVars
<1>3. /\ Running("parseFrame") /\ UNCHANGED <<toProgram, toTerminal>>
      /\ "parseFrame" \in Movers /\ "parseFrame" \in Movers \ {"sendZrinit"}
  BY DEF ParseFrame, wireVars, Movers
<1>4. /\ initialized /\ TurnIn(curState) \notin {"take", "hear"}
      /\ curState \in {"SEND_ZRINIT_STATE", "WAIT_ZDATA_STATE", "ZEOF_STATE", "END_STATE"}
  BY <1>1, <1>3, RunningLemma DEF Homes, TurnIn
<1>5. PICK found \in Parsed(bufferM, inputFrameM) :
           /\ bufferM' = found.left
           /\ inputFrameM' = found.frame
           /\ CASE found.what = "nothing"   -> Returns
                [] found.what = "over"      -> ReturnsPosting("DESTROY_EVT")
                [] found.what = "error"     -> FuncReturns(fsmTimer, jobs, <<Call("handle", "RESET_EVT")>>)
                [] found.what = "frame"     -> FuncReturns(fsmTimer, jobs, <<Call("handle", "HANDLE_FRAME_EVT")>>)
                [] found.what = "heartbeat" ->
                       FuncReturns(RestartedTimer,
                                   Posted(jobs, IF found.left = <<>> THEN <<>>
                                                ELSE <<"NETWORK_INPUT_EVT">>), <<>>)
  BY DEF ParseFrame
<1>6. PICK k \in 0..Len(Inc) :
           /\ Inc' = After(Inc, k) /\ Kept(k, Inc, Inc')
           /\ found.what \in {"nothing", "over", "error"} => found.frame = inputFrameM
           /\ found.what = "heartbeat" => found.frame.type = "ZHEARTBEAT"
           /\ found.what = "frame" => k # 0 /\ found.frame = Inc[k]
           /\ found.what \in {"nothing", "over", "error", "heartbeat", "frame"}
  BY <1>1, <1>3, <1>5, ParsedInc
<1>7. Heard(toTerminal, toTerminal') /\ OneAsk(toTerminal')
      /\ (No({"ZFIN"}, toTerminal) => No({"ZFIN"}, toTerminal'))
  BY <1>1, <1>3, NothingSent
<1>8. ASSUME CallsInv', TurnsKept, UNCHANGED curState, \A h \in Turns : ~Called(h)',
             UNCHANGED inputFrameM \/ inputFrameM'.type # "ZFILE"
      PROVE  ProtocolInv'
  <2>1. ~Hearing' /\ ~Taking'
    BY <1>4, <1>8 DEF Hearing, Taking, Holds, Turns
  <2> QED
    BY <1>1, <1>2, <1>6, <1>7, <1>8, <2>1, Noise
<1>9. CASE found.what \in {"nothing", "over"}
  <2>1. Returns \/ (initialized /\ \E e \in Idles : ReturnsPosting(e))
    BY <1>4, <1>5, <1>9 DEF Idles, Handled, Leaving
  <2>2. CallsInv' /\ TurnsKept /\ UNCHANGED curState /\ \A h \in Turns : ~Called(h)'
    BY <1>1, <1>3, <2>1, ReturnKeeps
  <2> QED
    BY <1>5, <1>6, <1>8, <1>9, <2>2
<1>10. CASE found.what = "heartbeat"
  <2>1. PICK q : q = Posted(jobs, IF found.left = <<>> THEN <<>> ELSE <<"NETWORK_INPUT_EVT">>)
    OBVIOUS
  <2>2. \E es \in Seq(Idles) : q = Posted(jobs, es)
    <3>1. <<>> \in Seq(Idles) /\ <<"NETWORK_INPUT_EVT">> \in Seq(Idles)
      BY DEF Idles, Handled
    <3> QED
      BY <2>1, <3>1
  <2>3. FuncReturns(RestartedTimer, q, <<>>)
    BY <1>5, <1>10, <2>1
  <2>4. CallsInv' /\ TurnsKept /\ \A h \in Turns : ~Called(h)'
    BY <1>1, <1>3, <1>4, <2>2, <2>3, FuncKeeps
  <2>5. UNCHANGED curState
    BY <2>3 DEF FuncReturns
  <2> QED
    BY <1>5, <1>6, <1>8, <1>10, <2>4, <2>5
<1>11. CASE found.what = "error"
  <2>1. FuncReturns(fsmTimer, jobs, <<Call("handle", "RESET_EVT")>>) /\ TurnOfEvent("RESET_EVT", curState) = "none"
    BY <1>5, <1>11 DEF TurnOfEvent
  <2>2. CallsInv' /\ ~Alive' /\ UNCHANGED <<curState, jobs>>
    BY <1>1, <1>3, <2>1, HandsOver
  <2>3. PeerInv'
    BY <1>1, <1>2, <1>7, <2>2, PeerStays
  <2> QED
    BY <2>2, <2>3 DEF ProtocolInv
<1>12. CASE found.what = "frame"
  <2>1. FuncReturns(fsmTimer, jobs, <<Call("handle", "HANDLE_FRAME_EVT")>>)
        /\ TurnOfEvent("HANDLE_FRAME_EVT", curState) = (IF curState = "WAIT_ZDATA_STATE" THEN "hear" ELSE "none")
    BY <1>5, <1>12 DEF TurnOfEvent
  <2>2. /\ CallsInv' /\ (Alive' => Alive) /\ UNCHANGED <<curState, jobs>>
        /\ \A h \in Turns : Called(h)' => h = TurnOfEvent("HANDLE_FRAME_EVT", curState)
    BY <1>1, <1>3, <2>1, HandsOver
  <2>3. k \in 1..Len(Inc) /\ inputFrameM' = Inc[k]
    BY <1>5, <1>6, <1>12
  <2>4. CASE ~Alive'
    <3>1. PeerInv'
      BY <1>1, <1>2, <1>7, <2>2, PeerStays
    <3> QED
      BY <2>2, <2>4, <3>1 DEF ProtocolInv
  <2>5. CASE Alive' /\ curState = "WAIT_ZDATA_STATE"
    BY <1>1, <1>3, <1>6, <2>1, <2>2, <2>3, <2>5, HearsProtocol
  <2>6. CASE Alive' /\ curState # "WAIT_ZDATA_STATE"
    <3>1. \A h \in Turns : ~Called(h)'
      BY <2>1, <2>2, <2>6 DEF Turns
    <3> QED
      BY <1>1, <1>3, <1>4, <1>6, <2>2, <2>3, <2>6, <3>1, NotesProtocol
  <2> QED
    BY <2>4, <2>5, <2>6
<1> QED
  BY <1>6, <1>9, <1>10, <1>11, <1>12

-----------------------------------------------------------------------------
\* rz sends requests when nothing of its own and no answer is on the way.
LEMMA Asking ==
    ASSUME LineTypeOK, LineTypeOK', ProtocolInv, Alive, CallsInv',
           NEW ts \in Seq(Requests), Sends(ts), NoAsk(toTerminal), OneAsk(ts), No({"ZFIN"}, ts),
           No(Replies, Inc'), DiskInv', UNCHANGED <<flavour, phase, offer, at, inputFrameM>>,
           \A j \in 1..Len(ts) : Due(ts[j])' /\ Means(ts[j])',
           ~Greeting', ~Hearing', ~Taking',
           Going' => /\ phase \in {"offered", "sending", "eof"} /\ zmodemFileM' = offer
                     /\ No({"ZRINIT", "ZSKIP"}, ts)
    PROVE  ProtocolInv'
<1>1. /\ OneAsk(toTerminal')
      /\ \A i \in 1..Len(toTerminal') :
             \/ \E k \in 1..Len(toTerminal) : toTerminal'[i] = toTerminal[k]
             \/ \E j \in 1..Len(ts) : toTerminal'[i] = ts[j]
  BY Requested
<1>2. LineInv /\ HolderInv /\ PeerInv
  BY DEF ProtocolInv
<1>3. \A t : ~Asks(t) => Due(t)' /\ Means(t)'
  <2>1. \A t : ~Asks(t) => ~IsQuestion(t) /\ t.type \notin {"ZRINIT", "ZSKIP", "ZRPOS", "DATA"}
    BY AsksLemma
  <2> QED
    BY <2>1 DEF Due, Means
<1>4. ASSUME NEW i \in 1..Len(toTerminal') PROVE Due(toTerminal[i])' /\ Means(toTerminal[i])'
  <2>1. PICK t : t = toTerminal'[i]
    OBVIOUS
  <2>2. Due(t)' /\ Means(t)'
    BY <1>1, <1>3, <2>1 DEF NoAsk
  <2> QED
    BY <2>1, <2>2 DEF Due, Means
<1>5. phase # "over" /\ No({"ZFIN"}, toTerminal)
  BY <1>2 DEF PeerInv
<1>6. No({"ZFIN"}, toTerminal')
  BY <1>1, <1>5 DEF No
<1>7. PeerInv'
  BY <1>1, <1>2, <1>4, <1>5, <1>6 DEF PeerInv, Streaming
<1>8. \A i \in 1..Len(Inc') : Tells(Inc, i)'
  BY DEF Tells, No, Replies, Offers
<1>9. Ordered(Inc')
  BY DEF Ordered, No
<1>10. LineInv'
  BY <1>2, <1>4, <1>8, <1>9 DEF LineInv
<1>11. No(Offers, Inc')
  BY DEF No, Replies
<1>12. Going' => No({"ZRINIT", "ZSKIP"}, toTerminal')
  <2>1. No({"ZRINIT", "ZSKIP"}, toTerminal)
    BY AsksLemma DEF NoAsk, No
  <2> QED
    BY <1>1, <2>1 DEF No
<1>13. HolderInv'
  BY <1>11, <1>12 DEF HolderInv
<1> QED
  BY <1>7, <1>10, <1>13 DEF ProtocolInv

\* What a call that waits for input holds.
LEMMA NobodyHolds ==
    ASSUME UNCHANGED curState, TurnIn(curState) = "none", \A h \in Turns : ~Called(h)'
    PROVE  ~Greeting' /\ ~Hearing' /\ ~Taking' /\ (Going' => Queued')
BY DEF Greeting, Hearing, Taking, Going, Holds, Turns

\* rz greets, and the terminal offers a file.
LEMMA SendZrinitProtocol ==
    ASSUME ProtocolInv, EngineTypeOK, DataTypeOK, DataTypeOK', UNCHANGED senderVars, SendZrinit
    PROVE  ProtocolInv'
<1>1. CallsInv /\ LineTypeOK /\ LineTypeOK'
  BY DEF ProtocolInv, DataTypeOK
<1>2. /\ Running("sendZrinit") /\ Returns /\ Sends(<<Frame("ZRINIT", 1)>>)
      /\ UNCHANGED <<fileVars, inputVars>>
  BY DEF SendZrinit
<1>3. /\ Alive /\ Holds("greet") /\ curState = "SEND_ZRINIT_STATE"
  BY <1>1, <1>2, RunningLemma DEF Homes, Gone, Movers, TurnOfFunc, Turns
<1>4. /\ CallsInv' /\ TurnsKept /\ UNCHANGED curState
      /\ \A h \in Turns : ~Called(h)'
  BY <1>1, <1>2, ReturnKeeps DEF Movers
<1>5. /\ NoAsk(toTerminal) /\ No(Replies, Inc) /\ ~Going /\ MayGreet /\ DiskInv
  BY <1>3 DEF ProtocolInv, HolderInv, Greeting, PeerInv
<1>6. ~Greeting' /\ ~Hearing' /\ ~Taking'
  BY <1>3, <1>4, NobodyHolds DEF TurnIn
<1>7. ~Going'
  BY <1>4, <1>5 DEF TurnsKept, Going, Turns
<1>8. UNCHANGED <<flavour, phase, offer, at, zmodemFileM, posM, stream, disk, lost, bufferM, inputFrameM, toProgram>>
  BY <1>2 DEF senderVars, fileVars, inputVars, Sends
<1>9. Inc' = Inc
  BY <1>8 DEF Inc
<1>10. DiskInv'
  BY <1>5, <1>8 DEF DiskInv
<1>11. PICK t : t = Frame("ZRINIT", 1)
  OBVIOUS
<1>12. /\ t.type = "ZRINIT" /\ ~IsQuestion(t) /\ <<t>> \in Seq(Requests) /\ OneAsk(<<t>>)
       /\ No({"ZFIN"}, <<t>>)
  <2>1. t.type = "ZRINIT"
    BY <1>11 DEF Frame
  <2>2. <<t>> \in Seq(Requests)
    BY <1>11, 1 \in Int, RequestsLemma
  <2> QED
    BY <2>1, <2>2, AsksLemma DEF No
<1>13. Due(t)' /\ Means(t)'
  BY <1>5, <1>8, <1>12 DEF Due, Means, MayGreet, Delivered
<1>14. \A j \in 1..Len(<<t>>) : Due(<<t>>[j])' /\ Means(<<t>>[j])'
  BY <1>13
<1>15. Sends(<<t>>) /\ No(Replies, Inc')
  BY <1>2, <1>5, <1>9, <1>11
<1> QED
  BY <1>1, <1>3, <1>4, <1>5, <1>6, <1>7, <1>8, <1>10, <1>12, <1>14, <1>15, Asking

\* waitZdata on the answer to the question.
LEMMA StartsProtocol ==
    ASSUME ProtocolInv, EngineTypeOK, DataTypeOK, DataTypeOK', UNCHANGED senderVars, WaitZdata,
           inputFrameM.type = "ZACK"
    PROVE  ProtocolInv'
<1>1. CallsInv /\ LineTypeOK /\ LineTypeOK' /\ FileTypeOK /\ SenderTypeOK
  BY DEF ProtocolInv, DataTypeOK
<1>2. /\ Running("waitZdata") /\ Returns /\ StartsAt(inputFrameM.arg)
      /\ UNCHANGED <<zmodemFileM, bufferM, inputFrameM>>
  BY DEF WaitZdata, inputVars
<1>3. Alive /\ Holds("hear") /\ curState = "WAIT_ZDATA_STATE"
  BY <1>1, <1>2, RunningLemma DEF Homes, Gone, Movers, TurnOfFunc, Turns
<1>4. /\ CallsInv' /\ TurnsKept /\ UNCHANGED curState
      /\ \A h \in Turns : ~Called(h)'
  BY <1>1, <1>2, ReturnKeeps DEF Movers
<1>5. NoAsk(toTerminal) /\ No(Replies, Inc) /\ AckFits(inputFrameM.arg) /\ DiskInv
  BY <1>3 DEF ProtocolInv, HolderInv, Hearing, PeerInv
<1>6. ~Greeting' /\ ~Hearing' /\ ~Taking'
  BY <1>3, <1>4, NobodyHolds DEF TurnIn
<1>7. ~Going'
  <2>1. ~Going
    BY <1>1, <1>3 DEF CallsInv
  <2> QED
    BY <1>4, <2>1 DEF TurnsKept, Going, Turns
<1>8. /\ UNCHANGED <<flavour, phase, offer, at>>
  BY DEF senderVars
<1>9. PICK a : a = inputFrameM.arg
  OBVIOUS
<1>10. a \in Int
  BY <1>1, <1>9, TokensLemma DEF LineTypeOK, Frame
<1>11. /\ phase = "offered" /\ zmodemFileM = offer /\ posM = 0 /\ stream = "closed"
       /\ a <= Size[offer] /\ (a # 0 => Stored.sound /\ Stored.len = a)
  BY <1>5, <1>9 DEF AckFits
<1>12. /\ offer \in Files /\ Size[offer] \in Nat /\ disk[offer] \in Parts /\ disk \in [Files -> Parts]
  BY <1>1, RzAssumption DEF FileTypeOK, SenderTypeOK
<1>13. a \in Nat /\ Stored.len \in Nat
  <2>1. Stored.len \in Nat
    BY <1>5, <1>12 DEF DiskInv, Lengths, Stored
  <2> QED
    BY <1>10, <1>11, <2>1
<1>14. a \in Lengths /\ 0 \in Lengths
  BY <1>11, <1>12, <1>13 DEF Lengths
<1>15. CASE a < Size[offer]
  <2>1. /\ posM' = a /\ Sends(<<Frame("ZRPOS", a)>>)
        /\ \/ stream' = "open"
              /\ disk' = (IF a > 0 THEN disk ELSE [disk EXCEPT ![offer] = [len |-> 0, sound |-> TRUE]])
           \/ stream' = "closed" /\ disk' = disk
    <3>1. StartsAt(a) /\ ~IsGood /\ a < Size[zmodemFileM] /\ a # Size[zmodemFileM]
      BY <1>2, <1>9, <1>11, <1>12, <1>13, <1>15 DEF IsGood
    <3>2. posM' = (IF a > 0 THEN a ELSE posM) /\ Sends(<<Frame("ZRPOS", posM')>>)
      BY ONLY <3>1 DEF StartsAt
    <3>3. OpenWrite(zmodemFileM, a > 0)
      BY ONLY <3>1 DEF StartsAt
    <3>4. Opens(disk, zmodemFileM, a > 0)
      BY <1>11, <3>3, ClosedAlready DEF OpenWrite
    <3>5. \/ stream' = "open"
             /\ disk' = (IF a > 0 THEN disk ELSE [disk EXCEPT ![zmodemFileM] = [len |-> 0, sound |-> TRUE]])
          \/ stream' = "closed" /\ disk' = disk
      BY ONLY <3>4 DEF Opens, Opened
    <3> QED
      BY <1>11, <1>13, <3>2, <3>5
  <2>2. PICK t : t = Frame("ZRPOS", a)
    OBVIOUS
  <2>3. /\ t.type = "ZRPOS" /\ t.arg = a /\ ~IsQuestion(t) /\ <<t>> \in Seq(Requests)
        /\ OneAsk(<<t>>) /\ No({"ZFIN"}, <<t>>)
    <3>1. t.type = "ZRPOS" /\ t.arg = a /\ <<t>> \in Seq(Requests)
      BY <1>10, <2>2, RequestsLemma DEF Frame
    <3> QED
      BY <3>1, AsksLemma DEF No
  <2>4. \/ stream' = "open"
           /\ disk' = (IF a > 0 THEN disk ELSE [disk EXCEPT ![offer] = [len |-> 0, sound |-> TRUE]])
        \/ stream' = "closed" /\ disk' = disk
    BY <2>1
  <2>5. DiskInv'
    BY <1>5, <1>12, <1>14, <2>1, <2>4 DEF DiskInv
  <2>6. stream' = "open" => disk'[offer].sound /\ disk'[offer].len = a
    BY <1>11, <1>12, <1>13, <2>4 DEF Stored
  <2>7. Due(t)' /\ Means(t)'
    BY <1>8, <1>11, <2>1, <2>3, <2>6, <1>2 DEF Due, Means, StartsAtEnd, Stored
  <2>8. \A j \in 1..Len(<<t>>) : Due(<<t>>[j])' /\ Means(<<t>>[j])'
    BY <2>7
  <2>9. Sends(<<t>>) /\ Inc' = Inc
    BY <1>2, <2>1, <2>2 DEF Inc, Sends
  <2> QED
    BY <1>1, <1>2, <1>3, <1>4, <1>5, <1>6, <1>7, <1>8, <2>3, <2>5, <2>8, <2>9, Asking
<1>16. CASE ~(a < Size[offer])
  <2>1. a = Size[offer]
    BY <1>11, <1>12, <1>13, <1>16
  <2>2. Sends(<<Frame("ZSKIP", 0)>>) /\ UNCHANGED <<posM, stream, disk, lost>>
    <3>1. StartsAt(a) /\ ~IsGood /\ a = Size[zmodemFileM] /\ ~(a < Size[zmodemFileM])
      BY <1>2, <1>9, <1>11, <1>16, <2>1 DEF IsGood
    <3> QED
      BY ONLY <3>1 DEF StartsAt
  <2>3. PICK t : t = Frame("ZSKIP", 0)
    OBVIOUS
  <2>4. /\ t.type = "ZSKIP" /\ ~IsQuestion(t) /\ <<t>> \in Seq(Requests)
        /\ OneAsk(<<t>>) /\ No({"ZFIN"}, <<t>>)
    <3>1. t.type = "ZSKIP"
      BY <2>3 DEF Frame
    <3>2. <<t>> \in Seq(Requests)
      BY <2>3, 0 \in Int, RequestsLemma
    <3> QED
      BY <3>1, <3>2, AsksLemma DEF No
  <2>5. DiskInv'
    BY <1>5, <2>2 DEF DiskInv
  <2>6. Size[offer] > 0 => disk'[offer] = [len |-> Size[offer], sound |-> TRUE]
    <3>1. disk[offer].sound \in BOOLEAN /\ disk[offer] = [len |-> disk[offer].len, sound |-> disk[offer].sound]
      BY <1>12 DEF Parts
    <3> QED
      BY <1>11, <2>1, <2>2, <3>1, <1>12 DEF Stored
  <2>7. Due(t)' /\ Means(t)'
    BY <1>2, <1>8, <1>11, <2>2, <2>4, <2>6 DEF Due, Means, Whole
  <2>8. \A j \in 1..Len(<<t>>) : Due(<<t>>[j])' /\ Means(<<t>>[j])'
    BY <2>7
  <2>9. Sends(<<t>>) /\ Inc' = Inc
    BY <1>2, <2>2, <2>3 DEF Inc, Sends
  <2> QED
    BY <1>1, <1>2, <1>3, <1>4, <1>5, <1>6, <1>7, <1>8, <2>4, <2>5, <2>8, <2>9, Asking
<1> QED
  BY <1>15, <1>16

\* waitZdata.
LEMMA WaitZdataProtocol ==
    ASSUME ProtocolInv, EngineTypeOK, DataTypeOK, DataTypeOK', UNCHANGED senderVars, WaitZdata
    PROVE  ProtocolInv'
<1>1. CallsInv /\ PeerInv /\ LineTypeOK /\ LineTypeOK' /\ OneAsk(toTerminal)
  BY DEF ProtocolInv, DataTypeOK, PeerInv
<1>2. Running("waitZdata") /\ UNCHANGED <<zmodemFileM, inputVars>>
  BY DEF WaitZdata
<1>3. initialized /\ curState = "WAIT_ZDATA_STATE" /\ Holds("hear")
  BY <1>1, <1>2, RunningLemma DEF Homes, Movers, TurnOfFunc, Turns
<1>4. CASE inputFrameM.type = "ZACK"
  BY <1>4, StartsProtocol
<1>5. CASE inputFrameM.type = "ZDATA"
  <2>1. /\ FuncReturns(fsmTimer, jobs, <<Call("handle", "NEXT_EVT")>>)
        /\ UNCHANGED <<wireVars, posM, stream, disk, lost>>
    BY <1>5 DEF WaitZdata
  <2>2. TurnOfEvent("NEXT_EVT", curState) = "take" /\ "waitZdata" \in Movers \ {"sendZrinit"}
    BY <1>3 DEF TurnOfEvent, Movers
  <2>3. /\ CallsInv' /\ (Alive' => Alive) /\ UNCHANGED <<curState, jobs>>
        /\ \A h \in Turns : Called(h)' => h = "take"
    BY <1>1, <1>2, <2>1, <2>2, HandsOver
  <2>4. RolesKept
    <3>1. TurnIn(curState) = "none" /\ (Queued' <=> Queued)
      BY <1>3, <2>3 DEF TurnIn, Queued
    <3>2. ~Greeting' /\ ~Hearing' /\ (Going' => Queued)
      BY <2>3, <3>1 DEF Greeting, Hearing, Going, Holds, Turns
    <3>3. Taking /\ (Queued => Going)
      BY <1>3, <1>5 DEF Taking, Hearing, Going, Holds
    <3> QED
      BY <2>3, <3>2, <3>3 DEF RolesKept
  <2>5. UNCHANGED <<flavour, phase, offer, at, zmodemFileM, posM, stream, disk, lost>>
    BY <1>2, <2>1 DEF senderVars
  <2>6. UNCHANGED <<bufferM, inputFrameM, toProgram, toTerminal>>
    BY <1>2, <2>1 DEF inputVars, wireVars
  <2>7. Kept(0, Inc, Inc') /\ 0 \in 0..Len(Inc)
    BY <1>1, <2>6, SameInc
  <2>8. Heard(toTerminal, toTerminal') /\ OneAsk(toTerminal')
        /\ (No({"ZFIN"}, toTerminal) => No({"ZFIN"}, toTerminal'))
    BY <1>1, <2>6, NothingSent
  <2>9. PeerInv'
    BY <1>1, <2>3, <2>5, <2>8, PeerStays
  <2>10. TurnInv'
    BY <1>1, <2>4, <2>5, <2>6, <2>7, <2>8, TurnStays DEF ProtocolInv, TurnInv
  <2> QED
    BY <2>3, <2>9, <2>10 DEF ProtocolInv, TurnInv
<1>6. CASE inputFrameM.type \notin {"ZDATA", "ZACK"}
  <2>1. /\ \E e \in Idles : ReturnsPosting(e)
        /\ UNCHANGED <<wireVars, posM, stream, disk, lost>>
    <3>1. {"SKIP_EVT", "NETWORK_INPUT_EVT", "DESTROY_EVT"} \subseteq Idles
      BY DEF Idles, Handled, Leaving
    <3> QED
      BY <1>6, <3>1 DEF WaitZdata
  <2>2. CallsInv' /\ TurnsKept
    BY <1>1, <1>2, <1>3, <2>1, ReturnKeeps
  <2>3. UNCHANGED <<flavour, phase, offer, at, zmodemFileM, posM, stream, disk, lost>>
    BY <1>2, <2>1 DEF senderVars
  <2> QED
    BY <1>1, <1>2, <2>1, <2>2, <2>3, Silence
<1> QED
  BY <1>4, <1>5, <1>6

-----------------------------------------------------------------------------
\* When nothing is asked for, there is nothing for the terminal to rely on.
LEMMA NoneAsked ==
    ASSUME NoAsk(toTerminal')
    PROVE  /\ OneAsk(toTerminal')
           /\ \A i \in 1..Len(toTerminal') : Due(toTerminal[i])' /\ Means(toTerminal[i])'
<1>1. OneAsk(toTerminal')
  BY DEF OneAsk, NoAsk
<1>2. ASSUME NEW i \in 1..Len(toTerminal') PROVE Due(toTerminal[i])' /\ Means(toTerminal[i])'
  <2>1. PICK t : t = toTerminal'[i]
    OBVIOUS
  <2>2. ~IsQuestion(t) /\ t.type \notin {"ZRINIT", "ZSKIP", "ZRPOS", "DATA"}
    BY <2>1, AsksLemma DEF NoAsk
  <2> QED
    BY <2>1, <2>2 DEF Due, Means
<1> QED
  BY <1>1, <1>2

\* A line on which nothing asks for an answer stays one.
LEMMA NothingAsked ==
    ASSUME NoAsk(toTerminal), UNCHANGED toTerminal
    PROVE  /\ OneAsk(toTerminal') /\ NoAsk(toTerminal')
           /\ \A i \in 1..Len(toTerminal') : Due(toTerminal[i])' /\ Means(toTerminal[i])'
<1>1. NoAsk(toTerminal')
  OBVIOUS
<1> QED
  BY <1>1, NoneAsked

\* The subpacket at the front is taken: the next one begins where it ends.
LEMMA LinkedTail ==
    ASSUME NEW u \in Seq(Wholes), 1 \in 1..Len(u), u[1].type = "DATA", End(u[1]) \in Int,
           NEW base, NEW f, NEW when, NEW pos, Linked(u, base, f, when, pos)
    PROVE  Linked(After(u, 1), End(u[1]), f, when, pos)
<1>1. /\ Len(u) \in Nat /\ Len(After(u, 1)) = Len(u) - 1 /\ After(u, 1) \in Seq(Wholes)
      /\ \A i \in 1..Len(u) - 1 : After(u, 1)[i] = u[1 + i]
  <2>1. Len(u) \in Nat
    BY LenProperties
  <2>2. 1 \in 0..Len(u)
    BY <2>1
  <2> QED
    BY ONLY u \in Seq(Wholes), <2>2, AfterLemma
<1>2. ASSUME NEW i \in 1..Len(u) - 1 PROVE After(After(u, 1), i) = After(u, 1 + i)
  <2>1. 1 + i \in 1..Len(u) /\ 1 + i \in 0..Len(u) /\ i \in 0..Len(After(u, 1))
    BY <1>1
  <2> DEFINE v == After(u, 1)
  <2>2. v \in Seq(Wholes) /\ i \in 0..Len(v) /\ Len(v) = Len(u) - 1
    BY <1>1, <2>1
  <2> HIDE DEF v
  <2>3. /\ After(v, i) \in Seq(Wholes) /\ Len(After(v, i)) = Len(v) - i
        /\ \A j \in 1..Len(v) - i : After(v, i)[j] = v[i + j]
    <3>1. v \in Seq(Wholes) /\ i \in 0..Len(v)
      BY <2>2
    <3> QED
      BY ONLY <3>1, AfterLemma
  <2>4. PICK m \in 0..Len(u) : m = 1 + i
    BY <2>1
  <2>5. /\ After(u, m) \in Seq(Wholes) /\ Len(After(u, m)) = Len(u) - m
        /\ \A j \in 1..Len(u) - m : After(u, m)[j] = u[m + j]
    BY ONLY u \in Seq(Wholes), m \in 0..Len(u), AfterLemma
  <2>6. Len(v) - i = Len(u) - m
    BY <1>1, <2>2, <2>4
  <2>7. ASSUME NEW j \in 1..Len(u) - m PROVE After(v, i)[j] = After(u, m)[j]
    <3>1. i + j \in 1..Len(u) - 1 /\ 1 + (i + j) = m + j
      <4>1. i \in Int /\ i >= 1 /\ j \in Int /\ j >= 1 /\ Len(u) \in Int /\ m = 1 + i /\ j <= Len(u) - m
        BY <1>1, <2>4
      <4> QED
        BY ONLY <4>1
    <3>2. v[i + j] = u[m + j]
      BY <1>1, <3>1 DEF v
    <3> QED
      BY <2>3, <2>5, <2>6, <3>2
  <2>8. After(v, i) = After(u, m)
    <3>1. Len(After(v, i)) = Len(After(u, m)) /\ Len(After(u, m)) = Len(u) - m
      BY <2>3, <2>5, <2>6
    <3>2. \A j \in 1..Len(After(v, i)) : After(v, i)[j] = After(u, m)[j]
      BY <2>7, <3>1
    <3> QED
      BY ONLY <2>3, <2>5, <3>1, <3>2, SeqEqual
  <2> QED
    BY <2>4, <2>8 DEF v
<1> DEFINE v == After(u, 1)
<1>3. /\ Len(v) = Len(u) - 1 /\ v \in Seq(Wholes)
      /\ \A i \in 1..Len(u) - 1 : v[i] = u[1 + i] /\ After(v, i) = After(u, 1 + i)
  BY <1>1, <1>2
<1> HIDE DEF v
<1>4. ASSUME NEW i \in 1..Len(v), v[i].type = "DATA"
      PROVE  /\ v[i].of = f /\ v[i].len \in Nat /\ End(v[i]) <= Size[f]
             /\ v[i].len < SBlock => v[i].end = "ZCRCE"
             /\ i = 1 => v[i].from = End(u[1])
             /\ i > 1 => /\ v[i - 1].type = "DATA" /\ v[i - 1].end = "ZCRCG"
                         /\ v[i].from = End(v[i - 1])
             /\ v[i].end = "ZCRCE" => /\ End(v[i]) = Size[f] /\ when = "eof"
                                      /\ No({"DATA"}, After(v, i))
  <2>1. i \in 1..Len(u) - 1 /\ 1 + i \in 1..Len(u)
    BY <1>1, <1>3
  <2>2. PICK j \in 1..Len(u) : j = 1 + i
    BY <2>1
  <2>3. v[i] = u[j] /\ After(v, i) = After(u, j) /\ j > 1 /\ j - 1 = i
    BY <1>3, <2>1, <2>2
  <2>4. /\ u[j].of = f /\ u[j].len \in Nat /\ End(u[j]) <= Size[f]
        /\ u[j].len < SBlock => u[j].end = "ZCRCE"
        /\ u[j - 1].type = "DATA" /\ u[j - 1].end = "ZCRCG" /\ u[j].from = End(u[j - 1])
        /\ u[j].end = "ZCRCE" => /\ End(u[j]) = Size[f] /\ when = "eof"
                                 /\ No({"DATA"}, After(u, j))
    BY <1>4, <2>3 DEF Linked
  <2>5. i > 1 => v[i - 1] = u[j - 1]
    <3>1. i > 1 => i - 1 \in 1..Len(u) - 1 /\ 1 + (i - 1) = j - 1
      BY <2>1, <2>3
    <3> QED
      BY <1>3, <3>1
  <2>6. i = 1 => u[j - 1] = u[1]
    BY <2>3
  <2> QED
    BY <2>3, <2>4, <2>5, <2>6
<1>5. ASSUME when = "sending"
      PROVE  IF v = <<>> THEN pos = End(u[1])
             ELSE v[Len(v)].type = "DATA" /\ v[Len(v)].end = "ZCRCG" /\ pos = End(v[Len(v)])
  <2>1. /\ u # <<>> /\ u[Len(u)].type = "DATA" /\ u[Len(u)].end = "ZCRCG" /\ pos = End(u[Len(u)])
    BY <1>1, <1>5, EmptySeq DEF Linked
  <2>2. CASE v = <<>>
    <3>1. Len(u) = 1
      BY <1>1, <1>3, <2>2, EmptySeq
    <3> QED
      BY <2>1, <2>2, <3>1
  <2>3. CASE v # <<>>
    <3>1. Len(v) \in 1..Len(u) - 1 /\ 1 + Len(v) = Len(u)
      BY <1>1, <1>3, <2>3, EmptySeq
    <3>2. v[Len(v)] = u[Len(u)]
      BY <1>3, <3>1
    <3> QED
      BY <2>1, <2>3, <3>2
  <2> QED
    BY <2>2, <2>3
<1>6. Linked(v, End(u[1]), f, when, pos)
  BY <1>4, <1>5 DEF Linked
<1> QED
  BY <1>6 DEF v

-----------------------------------------------------------------------------
\* A step that ends the session changes no file the terminal relies on.
LEMMA GoneProtocol ==
    ASSUME ProtocolInv, CallsInv', ~Alive', UNCHANGED <<phase, offer, at>>, DiskInv',
           UNCHANGED toTerminal,
           UNCHANGED <<zmodemFileM, stream, disk, lost>> \/ NoAsk(toTerminal)
    PROVE  ProtocolInv'
<1>1. PeerInv
  BY DEF ProtocolInv
<1>2. OneAsk(toTerminal') /\ \A i \in 1..Len(toTerminal') : Due(toTerminal[i])'
  <2>1. CASE UNCHANGED <<zmodemFileM, stream, disk, lost>>
    BY <1>1, <2>1 DEF PeerInv, Due, MayGreet, Whole, Delivered
  <2>2. CASE NoAsk(toTerminal)
    BY <2>2, NothingAsked
  <2> QED
    BY <2>1, <2>2
<1>3. Streaming' => at' <= Size[offer']
  BY <1>1 DEF PeerInv, Streaming
<1> QED
  BY <1>2, <1>3 DEF ProtocolInv, PeerInv

\* handleZfile on a file's name: it asks for the sound part, or for the file.
LEMMA TakesNameProtocol ==
    ASSUME ProtocolInv, StreamInv, EngineTypeOK, DataTypeOK, DataTypeOK', UNCHANGED senderVars,
           Running("handleZfile"), Ready("NAME"), UNCHANGED inputFrameM,
           bufferM' = Tail(bufferM), zmodemFileM' = Head(bufferM).arg, posM' = 0,
           AnswersName(Head(bufferM).arg), ReturnsPosting("NEXT_EVT")
    PROVE  ProtocolInv'
<1> DEFINE f == Head(bufferM).arg
<1>0. PICK c \in Closed : AnswersNameAs(f, c)
  BY DEF AnswersName
<1> HIDE DEF f
<1> DEFINE had == c.disk
<1>1. CallsInv /\ LineTypeOK /\ LineTypeOK' /\ FileTypeOK /\ SenderTypeOK
  BY DEF ProtocolInv, DataTypeOK
<1>2. Alive /\ curState = "HANDLE_ZFILE_STATE"
  BY <1>1, RunningLemma DEF Homes, Gone, Movers
<1>3. LineInv /\ HolderInv /\ DiskInv
  BY <1>2 DEF ProtocolInv, PeerInv
<1>4. UNCHANGED <<flavour, phase, offer, at>>
  BY DEF senderVars
<1>5. /\ 1 \in 1..Len(Inc) /\ Inc[1] = Head(bufferM) /\ Inc[1].type = "NAME" /\ Inc' = After(Inc, 1)
  <2>1. bufferM # <<>> /\ Head(bufferM).type \in {"NAME", "DATA"} /\ UNCHANGED toProgram
    BY <1>0 DEF Ready, Sends, AnswersNameAs
  <2> QED
    BY <1>1, <2>1, HeadInc DEF Ready
<1>6. phase = "offered" /\ f = offer
  BY <1>3, <1>5 DEF LineInv, Tells, Offers, f
<1>7. NoAsk(toTerminal) /\ No(Replies, Inc')
  <2>1. Inc[1].type \in Replies /\ Inc \in Seq(Wholes) /\ Ordered(Inc)
    BY <1>1, <1>3, <1>5, IncLemma DEF Replies, Offers, LineInv
  <2>2. NoAsk(toTerminal)
    BY <1>3, <1>5, <2>1 DEF LineInv, No
  <2>3. No(Replies, After(Inc, 1))
    BY <1>5, <2>1, AnswerAlone
  <2> QED
    BY <1>5, <2>2, <2>3
<1>8. ~Going
  BY <1>3, <1>5 DEF HolderInv, No, Offers
<1>9. ~Queued
  BY <1>8 DEF Going, Holds
<1>10. CallsInv' /\ \A k \in Turns : Holds(k)' => k = "go"
  BY <1>1, <1>9, NextPosted
<1>11. ~Greeting' /\ ~Hearing' /\ ~Taking'
  BY <1>10 DEF Greeting, Hearing, Taking, Turns
<1>12. /\ offer \in Files /\ Size[offer] \in Nat /\ had[offer] \in Parts /\ had \in [Files -> Parts]
       /\ 0 \in Lengths
       /\ \A g \in Files : had[g].len \in Lengths /\ (had[g].sound => had[g].len <= Size[g])
  <2>1. offer \in Files /\ Size[offer] \in Nat /\ had \in [Files -> Parts]
    BY <1>1, RzAssumption, ClosedLemma DEF SenderTypeOK
  <2>2. ASSUME NEW g \in Files
        PROVE  had[g].len \in Lengths /\ (had[g].sound => had[g].len <= Size[g])
    <3>1. had[g].sound = disk[g].sound /\ had[g].len \in Lengths /\ had[g].len <= disk[g].len
      BY <1>1, <1>3, CutLemma
    <3>2. disk[g].sound => disk[g].len <= Size[g]
      BY <1>3 DEF DiskInv
    <3>3. had[g].len \in Int /\ disk[g].len \in Int /\ Size[g] \in Int
      BY <1>1, <3>1, RzAssumption DEF FileTypeOK, Parts, Lengths
    <3> QED
      BY <3>1, <3>2, <3>3
  <2> QED
    BY <2>1, <2>2 DEF Lengths
<1> HIDE DEF had
<1>13. zmodemFileM' = offer /\ posM' = 0
  BY <1>6 DEF f
<1>14. CASE Sends(Question(had[offer])) /\ stream' = "closed" /\ disk' = had
  <2>1. PICK ts : ts = Question(had[offer])
    OBVIOUS
  <2>2. PICK ask : ask = Frame("ZCOMMAND", "check last break")
    BY Zenon
  <2>3. PICK part : part = [type |-> "DATA", len |-> had[offer].len, sound |-> had[offer].sound]
    OBVIOUS
  <2>4. ts = <<ask, part>> /\ ts \in Seq(Requests)
    BY <1>12, <2>1, <2>2, <2>3, CommandsLemma, Zenon DEF Question
  <2>5. /\ ask.type = "ZCOMMAND" /\ IsQuestion(ask)
        /\ part.type = "DATA" /\ part.len = had[offer].len /\ part.sound = had[offer].sound
        /\ ~IsQuestion(part)
    <3>1. IsQuestion(ask)
      BY <2>2, Zenon DEF IsQuestion, Frame
    <3> QED
      BY <2>3, <3>1, AsksLemma
  <2>6. OneAsk(ts) /\ No({"ZFIN"}, ts) /\ No({"ZRINIT", "ZSKIP"}, ts)
    BY <2>4, <2>5 DEF OneAsk, No
  <2>7. DiskInv'
    BY <1>12, <1>13, <1>14 DEF DiskInv
  <2>8. (Due(ask)' /\ Means(ask)') /\ (Due(part)' /\ Means(part)')
    BY <1>4, <1>6, <1>13, <1>14, <2>5 DEF Due, Means, Stored
  <2>9. \A j \in 1..Len(ts) : Due(ts[j])' /\ Means(ts[j])'
    BY <2>4, <2>8
  <2>10. Sends(ts) /\ (Going' => phase \in {"offered", "sending", "eof"} /\ zmodemFileM' = offer)
    BY <1>6, <1>13, <1>14, <2>1
  <2> QED
    BY <1>1, <1>2, <1>4, <1>7, <1>10, <1>11, <2>4, <2>6, <2>7, <2>9, <2>10, Asking
<1>15. CASE Opens(had, offer, FALSE) /\ Sends(<<Frame("ZRPOS", 0)>>)
  <2>1. PICK t : t = Frame("ZRPOS", 0)
    OBVIOUS
  <2>2. /\ t.type = "ZRPOS" /\ t.arg = 0 /\ ~IsQuestion(t) /\ <<t>> \in Seq(Requests)
        /\ OneAsk(<<t>>) /\ No({"ZFIN"}, <<t>>) /\ No({"ZRINIT", "ZSKIP"}, <<t>>)
    <3>1. t.type = "ZRPOS" /\ t.arg = 0
      BY <2>1 DEF Frame
    <3>2. <<t>> \in Seq(Requests)
      BY <2>1, 0 \in Int, RequestsLemma
    <3> QED
      BY <3>1, <3>2, AsksLemma DEF No
  <2>3. \/ stream' = "open" /\ disk' = [had EXCEPT ![offer] = [len |-> 0, sound |-> TRUE]]
        \/ stream' = "closed" /\ disk' = had
    BY <1>15 DEF Opens, Opened
  <2>4. DiskInv'
    BY <1>12, <1>13, <2>3 DEF DiskInv
  <2>5. stream' = "open" => disk'[offer].sound /\ disk'[offer].len = 0
    BY <1>12, <2>3
  <2>6. Due(t)' /\ Means(t)'
    BY <1>4, <1>6, <1>12, <1>13, <2>2, <2>5 DEF Due, Means, StartsAtEnd, Stored
  <2>7. \A j \in 1..Len(<<t>>) : Due(<<t>>[j])' /\ Means(<<t>>[j])'
    BY <2>6
  <2>8. Sends(<<t>>) /\ (Going' => phase \in {"offered", "sending", "eof"} /\ zmodemFileM' = offer)
    BY <1>6, <1>13, <1>15, <2>1
  <2> QED
    BY <1>1, <1>2, <1>4, <1>7, <1>10, <1>11, <2>2, <2>4, <2>7, <2>8, Asking
<1>16. \/ Sends(Question(had[offer])) /\ stream' = "closed" /\ disk' = had
       \/ Opens(had, offer, FALSE) /\ Sends(<<Frame("ZRPOS", 0)>>)
  <2>1. AnswersNameAs(offer, c)
    BY <1>0, <1>6
  <2> QED
    BY <2>1, Zenon DEF AnswersNameAs, had
<1> QED
  BY <1>14, <1>15, <1>16

\* handleZfile.
LEMMA HandleZfileProtocol ==
    ASSUME ProtocolInv, StreamInv, EngineTypeOK, DataTypeOK, DataTypeOK', UNCHANGED senderVars,
           HandleZfile
    PROVE  ProtocolInv'
<1>1. CallsInv /\ LineTypeOK /\ LineTypeOK' /\ FileTypeOK /\ OneAsk(toTerminal)
  BY DEF ProtocolInv, DataTypeOK, PeerInv
<1>2. Running("handleZfile") /\ UNCHANGED inputFrameM
  BY DEF HandleZfile
<1>3. initialized /\ {"SKIP_EVT", "DESTROY_EVT"} \subseteq Idles
  BY <1>1, <1>2, RunningLemma DEF Movers, Idles, Handled, Leaving
<1>4. UNCHANGED <<flavour, phase, offer, at>>
  BY DEF senderVars
<1>5. CASE /\ \E e \in Idles : ReturnsPosting(e)
           /\ UNCHANGED <<wireVars, zmodemFileM, posM, stream, disk, lost, bufferM>>
  <2>1. CallsInv' /\ TurnsKept
    BY <1>1, <1>2, <1>3, <1>5, ReturnKeeps
  <2> QED
    BY <1>1, <1>2, <1>4, <1>5, <2>1, Silence DEF inputVars
<1>6. CASE /\ Swallows /\ (Returns \/ ReturnsPosting("DESTROY_EVT"))
           /\ UNCHANGED <<wireVars, zmodemFileM, posM, stream, disk, lost>>
  <2>1. CallsInv' /\ TurnsKept
    BY <1>1, <1>2, <1>3, <1>6, ReturnKeeps
  <2>2. UNCHANGED <<toProgram, toTerminal>>
    BY <1>6 DEF wireVars
  <2>3. Kept(0, Inc, Inc') /\ 0 \in 0..Len(Inc)
    <3>1. Len(Inc) \in Nat
      BY <1>1, IncLemma
    <3> QED
      BY <1>1, <1>6, <2>2, <3>1, SwallowsInc
  <2>4. Heard(toTerminal, toTerminal') /\ OneAsk(toTerminal')
        /\ (No({"ZFIN"}, toTerminal) => No({"ZFIN"}, toTerminal'))
    BY <1>1, <2>2, NothingSent
  <2> QED
    BY <1>1, <1>2, <1>4, <1>6, <2>1, <2>3, <2>4, Noise
<1>7. CASE /\ Ready("NAME") /\ bufferM' = Tail(bufferM) /\ zmodemFileM' = Head(bufferM).arg /\ posM' = 0
           /\ AnswersName(Head(bufferM).arg) /\ ReturnsPosting("NEXT_EVT")
  BY <1>2, <1>7, TakesNameProtocol
<1>8. CASE inputFrameM.type # "ZFILE"
  <2>1. /\ ReturnsPosting("SKIP_EVT") \/ ReturnsPosting("DESTROY_EVT")
        /\ UNCHANGED <<wireVars, fileVars, bufferM>>
    BY <1>8 DEF HandleZfile
  <2> QED
    BY <1>3, <1>5, <2>1 DEF fileVars
<1>9. CASE inputFrameM.type = "ZFILE" /\ ~Ready("NAME")
  <2>1. /\ Swallows /\ (Returns \/ ReturnsPosting("DESTROY_EVT"))
        /\ UNCHANGED <<wireVars, zmodemFileM, posM, stream, disk, lost>>
    BY <1>9 DEF HandleZfile
  <2> QED
    BY <1>6, <2>1
<1>10. CASE inputFrameM.type = "ZFILE" /\ Ready("NAME") /\ ~crcSound
  <2>1. /\ ReturnsPosting("DESTROY_EVT")
        /\ UNCHANGED <<wireVars, zmodemFileM, posM, stream, disk, lost, bufferM>>
    BY <1>10 DEF HandleZfile
  <2> QED
    BY <1>3, <1>5, <2>1
<1>11. CASE inputFrameM.type = "ZFILE" /\ Ready("NAME") /\ crcSound
  <2>1. /\ bufferM' = Tail(bufferM) /\ zmodemFileM' = Head(bufferM).arg /\ posM' = 0
        /\ AnswersName(Head(bufferM).arg) /\ ReturnsPosting("NEXT_EVT")
    BY <1>11, Zenon DEF HandleZfile, AnswersName, AnswersNameAs
  <2> QED
    BY <1>7, <1>11, <2>1
<1> QED
  BY <1>8, <1>9, <1>10, <1>11

\* What comes of writing: all of the data, or a part of them.
LEMMA WriteLemma ==
    ASSUME NEW data, data.len \in Int, NEW w \in Write(data)
    PROVE  /\ w.ok => /\ stream = "open" /\ w.pos = posM + data.len
                      /\ w.file = Extended(disk[zmodemFileM], data, data.len)
                      /\ w.tail = IF data.len < Chunk THEN tail + data.len ELSE 0
           /\ ~w.ok => /\ w.pos = posM /\ w.tail = IF stream = "open" THEN 0 ELSE tail
                       /\ \E n \in Int : /\ w.file = Extended(disk[zmodemFileM], data, n)
                                         /\ n = 0 \/ (stream = "open" /\ n \in 0..data.len - 1)
<1> DEFINE W(ok, n, waits) == [ok |-> ok, pos |-> IF ok THEN posM + n ELSE posM,
                               file |-> Extended(disk[zmodemFileM], data, n), tail |-> waits]
<1>1. CASE stream # "open"
  <2>1. w = W(FALSE, 0, tail)
    BY <1>1 DEF Write
  <2> QED
    BY <1>1, <2>1
<1>2. CASE stream = "open" /\ w = W(TRUE, data.len, IF data.len < Chunk THEN tail + data.len ELSE 0)
  BY <1>2
<1>3. CASE stream = "open" /\ \E n \in 0..data.len - 1 : w = W(FALSE, n, 0)
  BY <1>3
<1>4. stream = "open" => \/ w = W(TRUE, data.len, IF data.len < Chunk THEN tail + data.len ELSE 0)
                         \/ \E n \in 0..data.len - 1 : w = W(FALSE, n, 0)
  BY DEF Write
<1> QED
  BY <1>1, <1>2, <1>3, <1>4

\* handleZdata writes the subpacket at the end of the file.
LEMMA WritesProtocol ==
    ASSUME ProtocolInv, EngineTypeOK, DataTypeOK, DataTypeOK', UNCHANGED senderVars,
           Running("handleZdata"), Ready("DATA"), NEW w \in Write(Head(bufferM)),
           UNCHANGED <<wireVars, zmodemFileM, stream, lost, inputFrameM>>, posM' = w.pos,
           disk' = [disk EXCEPT ![zmodemFileM] = w.file],
           IF w.ok THEN bufferM' = Tail(bufferM) /\ Ends(Head(bufferM))
           ELSE /\ FuncReturns(fsmTimer, jobs, <<Call("handle", "RESET_EVT")>>)
                /\ UNCHANGED bufferM
    PROVE  ProtocolInv'
<1>1. CallsInv /\ LineTypeOK /\ LineTypeOK' /\ FileTypeOK /\ SenderTypeOK
  BY DEF ProtocolInv, DataTypeOK
<1>2. Alive /\ initialized /\ curState = "HANDLE_ZDATA_STATE" /\ Holds("take")
  BY <1>1, RunningLemma DEF Homes, Gone, Movers, TurnOfFunc, Turns
<1>3. LineInv /\ HolderInv /\ DiskInv /\ PeerInv
  BY <1>2 DEF ProtocolInv, PeerInv
<1>4. UNCHANGED <<flavour, phase, offer, at>> /\ UNCHANGED <<toProgram, toTerminal>>
  BY DEF senderVars, wireVars
<1>5. PICK data : data = Head(bufferM)
  OBVIOUS
<1>6. /\ 1 \in 1..Len(Inc) /\ Inc[1] = data /\ data.type = "DATA" /\ data \in Answers
      /\ bufferM' = Tail(bufferM) => Inc' = After(Inc, 1)
  <2>1. bufferM # <<>> /\ Head(bufferM).type \in {"NAME", "DATA"}
    BY DEF Ready
  <2> QED
    BY <1>1, <1>4, <1>5, <2>1, HeadInc DEF Ready
<1>7. /\ Streaming /\ zmodemFileM = offer /\ NoAsk(toTerminal) /\ No(Replies \ {"DATA"}, Inc)
      /\ stream = "open" => StartsAtEnd(posM) /\ Chain(Inc, posM)
  BY <1>2, <1>3 DEF HolderInv, Taking
<1>8. ~Greeting /\ ~Going
  <2>1. ~No(Replies, Inc)
    BY <1>6 DEF No, Replies
  <2> QED
    BY <1>1, <1>2, <1>3, <2>1 DEF HolderInv, CallsInv
<1>9. /\ offer \in Files /\ Size[offer] \in Nat /\ disk[offer] \in Parts /\ disk \in [Files -> Parts]
      /\ Inc \in Seq(Wholes)
  BY <1>1, RzAssumption, IncLemma DEF FileTypeOK, SenderTypeOK
<1>10. /\ data.of \in Files /\ data.from \in Int /\ data.len \in Int /\ data.end \in {"ZCRCG", "ZCRCE"}
  BY <1>6, TokensLemma
<1>11. /\ posM \in Nat /\ disk[offer].len \in Nat /\ disk[offer].len \in Lengths /\ disk[offer].sound \in BOOLEAN
       /\ disk[offer].sound => disk[offer].len <= Size[offer]
  BY <1>3, <1>9 DEF DiskInv, Lengths, Parts
<1>12. \A n \in Nat : n <= Size[offer] => n \in Lengths
  BY <1>9 DEF Lengths
<1>13. stream = "open" =>
           /\ disk[offer].sound = TRUE /\ disk[offer].len = posM
           /\ data.of = offer /\ data.from = posM /\ data.len \in Nat /\ posM + data.len <= Size[offer]
           /\ End(data) = posM + data.len
  BY <1>6, <1>7, <1>11 DEF StartsAtEnd, Stored, Chain, Linked, End
<1>14. CASE ~w.ok
  <2>1. /\ FuncReturns(fsmTimer, jobs, <<Call("handle", "RESET_EVT")>>) /\ posM' = posM
        /\ TurnOfEvent("RESET_EVT", curState) = "none"
    BY <1>5, <1>10, <1>14, WriteLemma DEF TurnOfEvent
  <2>2. CallsInv' /\ ~Alive'
    BY <1>1, <2>1, HandsOver DEF Movers
  <2>3. \E n \in Int : /\ w.file = [len |-> disk[offer].len + n,
                                    sound |-> disk[offer].sound /\ (n > 0 => data.of = offer /\ data.from = disk[offer].len)]
                       /\ n = 0 \/ (stream = "open" /\ n \in 0..data.len - 1)
    <3>1. \E n \in Int : /\ w.file = Extended(disk[offer], data, n)
                         /\ n = 0 \/ (stream = "open" /\ n \in 0..data.len - 1)
      BY <1>5, <1>7, <1>10, <1>14, WriteLemma
    <3> QED
      BY <1>7, <1>10, <3>1 DEF Extended
  <2>4. PICK n \in Int : /\ w.file = [len |-> disk[offer].len + n,
                                      sound |-> disk[offer].sound /\ (n > 0 => data.of = offer /\ data.from = disk[offer].len)]
                         /\ n = 0 \/ (stream = "open" /\ n \in 0..data.len - 1)
    BY <2>3
  <2>5. w.file.len \in Lengths /\ (w.file.sound => w.file.len <= Size[offer])
    <3>1. CASE n = 0
      BY <1>11, <2>4, <3>1
    <3>2. CASE stream = "open" /\ n \in 0..data.len - 1
      <4>1. disk[offer].len + n \in Nat /\ disk[offer].len + n <= Size[offer]
        BY <1>9, <1>11, <1>13, <3>2
      <4> QED
        BY <1>12, <2>4, <4>1
    <3> QED
      BY <2>4, <3>1, <3>2
  <2>6. DiskInv'
    BY <1>3, <1>7, <1>9, <2>1, <2>5 DEF DiskInv
  <2> QED
    BY <1>4, <1>7, <2>2, <2>6, GoneProtocol
<1>15. CASE w.ok
  <2>1. /\ stream = "open" /\ bufferM' = Tail(bufferM) /\ Ends(data)
        /\ posM' = posM + data.len
        /\ disk' = [disk EXCEPT ![offer] = Extended(disk[offer], data, data.len)]
    <3>1. stream = "open" /\ w.pos = posM + data.len /\ w.file = Extended(disk[offer], data, data.len)
      BY <1>5, <1>7, <1>10, <1>15, WriteLemma
    <3> QED
      BY <1>5, <1>7, <1>15, <3>1
  <2>2. Inc' = After(Inc, 1)
    BY <1>6, <2>1
  <2>3. /\ posM' = End(data) /\ posM' \in Nat /\ posM' <= Size[offer] /\ posM' \in Lengths
    BY <1>9, <1>11, <1>12, <1>13, <2>1
  <2>4. disk'[offer] = [len |-> End(data), sound |-> TRUE]
    <3>1. Extended(disk[offer], data, data.len) = [len |-> End(data), sound |-> TRUE]
      BY <1>7, <1>13, <2>1 DEF Extended
    <3> QED
      BY <1>9, <2>1, <3>1
  <2>5. DiskInv'
    <3>1. \A f \in Files : f = offer \/ disk'[f] = disk[f]
      BY <1>9, <2>1
    <3> QED
      BY <1>3, <2>3, <2>4, <3>1 DEF DiskInv
  <2>6. Linked(Inc, posM, offer, phase, at) /\ End(data) \in Int
    BY <1>7, <2>1, <2>3 DEF Chain
  <2>7. Linked(After(Inc, 1), End(data), offer, phase, at)
    <3> DEFINE u == Inc
    <3>1. /\ u \in Seq(Wholes) /\ 1 \in 1..Len(u) /\ u[1].type = "DATA" /\ End(u[1]) \in Int
          /\ Linked(u, posM, offer, phase, at) /\ u[1] = data
      BY <1>6, <1>9, <2>6
    <3> HIDE DEF u
    <3>2. Linked(After(u, 1), End(u[1]), offer, phase, at)
      BY ONLY <3>1, LinkedTail
    <3> QED
      BY <3>1, <3>2 DEF u
  <2>8. Chain(Inc, posM)' /\ StartsAtEnd(posM)'
    BY <1>4, <1>7, <2>2, <2>3, <2>4, <2>7 DEF Chain, StartsAtEnd, Stored
  <2>9. Kept(1, Inc, Inc') /\ 1 \in 0..Len(Inc)
    <3>1. 1 \in 0..Len(Inc) /\ Kept(1, Inc, After(Inc, 1))
      BY <1>6, <1>9, AfterKept
    <3> QED
      BY <2>2, <3>1
  <2>10. Ordered(Inc') /\ No(Replies \ {"DATA"}, Inc')
    <3>1. "torn" \notin Replies \ {"DATA"} /\ Ordered(Inc)
      BY <1>3 DEF LineInv, Replies, Offers
    <3> QED
      BY <1>7, <2>9, <3>1, KeptLemma
  <2>11. \A i \in 1..Len(Inc') : Tells(Inc, i)'
    BY <1>4, <1>7, <2>10 DEF Tells, No, Replies, Offers, Streaming
  <2>12. /\ OneAsk(toTerminal') /\ NoAsk(toTerminal')
         /\ \A i \in 1..Len(toTerminal') : Due(toTerminal[i])' /\ Means(toTerminal[i])'
    BY <1>4, <1>7, NothingAsked
  <2>13. LineInv'
    BY <1>3, <1>4, <2>10, <2>11, <2>12 DEF LineInv
  <2>14. Streaming' /\ zmodemFileM' = offer'
    BY <1>4, <1>7 DEF Streaming
  <2>15. ASSUME Alive' => Alive
         PROVE  PeerInv'
    BY <1>2, <1>3, <1>4, <2>5, <2>12 DEF PeerInv, Streaming
  <2>16. CASE data.end = "ZCRCG"
    <3>1. ReturnsPosting("NETWORK_INPUT_EVT") /\ "NETWORK_INPUT_EVT" \in Idles
      BY <2>1, <2>16 DEF Ends, Idles, Handled
    <3>2. CallsInv' /\ TurnsKept /\ UNCHANGED curState /\ \A h \in Turns : ~Called(h)'
      BY <1>1, <1>2, <3>1, ReturnKeeps DEF Movers
    <3>3. ~Greeting' /\ ~Going' /\ ~Hearing'
      BY <1>2, <1>8, <3>2 DEF TurnsKept, Turns, Greeting, Going, Hearing, Holds, TurnIn
    <3>4. HolderInv'
      BY <2>8, <2>10, <2>12, <2>14, <3>3 DEF HolderInv
    <3> QED
      BY <1>2, <2>13, <2>15, <3>2, <3>4 DEF ProtocolInv, TurnsKept
  <2>17. CASE data.end = "ZCRCE"
    <3>1. FuncReturns(fsmTimer, jobs, <<Call("handle", "NEXT_EVT")>>) /\ TurnOfEvent("NEXT_EVT", curState) = "greet"
      BY <1>2, <2>1, <2>17 DEF Ends, TurnOfEvent
    <3>2. /\ CallsInv' /\ (Alive' => Alive) /\ UNCHANGED <<curState, jobs>>
          /\ \A h \in Turns : Called(h)' => h = "greet"
      BY <1>1, <3>1, HandsOver DEF Movers
    <3>3. ~Going' /\ ~Hearing'
      BY <1>2, <1>8, <3>2 DEF Turns, Going, Hearing, Holds, TurnIn, Queued
    <3>4. End(data) = Size[offer] /\ phase = "eof" /\ No({"DATA"}, After(Inc, 1))
      BY <1>6, <2>6, <2>17 DEF Linked
    <3>5. No(Replies, Inc')
      BY <2>2, <2>10, <3>4 DEF No
    <3>6. MayGreet'
      BY <1>4, <2>4, <3>4 DEF MayGreet, Delivered
    <3>7. HolderInv'
      BY <2>8, <2>10, <2>12, <2>14, <3>3, <3>5, <3>6 DEF HolderInv
    <3> QED
      BY <1>2, <2>13, <2>15, <3>2, <3>7 DEF ProtocolInv
  <2> QED
    BY <1>10, <2>16, <2>17
<1> QED
  BY <1>14, <1>15

\* handleZdata.
LEMMA HandleZdataProtocol ==
    ASSUME ProtocolInv, EngineTypeOK, DataTypeOK, DataTypeOK', UNCHANGED senderVars, HandleZdata
    PROVE  ProtocolInv'
<1>1. CallsInv /\ LineTypeOK /\ LineTypeOK' /\ FileTypeOK /\ OneAsk(toTerminal) /\ DiskInv
  BY DEF ProtocolInv, DataTypeOK, PeerInv
<1>2. Running("handleZdata") /\ UNCHANGED <<wireVars, zmodemFileM, stream, lost, inputFrameM>>
  BY DEF HandleZdata
<1>3. initialized /\ "DESTROY_EVT" \in Idles
  BY <1>1, <1>2, RunningLemma DEF Movers, Idles, Handled, Leaving
<1>4. UNCHANGED <<flavour, phase, offer, at>> /\ UNCHANGED <<toProgram, toTerminal>>
  BY <1>2 DEF senderVars, wireVars
<1>5. CASE /\ FuncReturns(fsmTimer, jobs, <<Call("handle", "RESET_EVT")>>)
           /\ UNCHANGED <<posM, disk>>
  <2>1. TurnOfEvent("RESET_EVT", curState) = "none"
    BY DEF TurnOfEvent
  <2>2. CallsInv' /\ ~Alive'
    BY <1>1, <1>2, <1>5, <2>1, HandsOver DEF Movers
  <2>3. DiskInv'
    BY <1>1, <1>5 DEF DiskInv
  <2> QED
    BY <1>2, <1>4, <1>5, <2>2, <2>3, GoneProtocol
<1>6. CASE inputFrameM.type # "ZDATA"
  <2>1. ReturnsPosting("DESTROY_EVT") /\ UNCHANGED <<bufferM, posM, disk>>
    BY <1>6 DEF HandleZdata
  <2>2. CallsInv' /\ TurnsKept
    BY <1>1, <1>2, <1>3, <2>1, ReturnKeeps
  <2> QED
    BY <1>1, <1>2, <1>4, <2>1, <2>2, Silence DEF inputVars
<1>7. CASE inputFrameM.type = "ZDATA" /\ ~Ready("DATA")
  <2>1. /\ Swallows /\ UNCHANGED <<posM, disk>>
        /\ Returns \/ FuncReturns(fsmTimer, jobs, <<Call("handle", "RESET_EVT")>>)
    BY <1>7 DEF HandleZdata
  <2>2. CASE Returns
    <3>1. CallsInv' /\ TurnsKept
      BY <1>1, <1>2, <2>2, ReturnKeeps
    <3>2. Kept(0, Inc, Inc') /\ 0 \in 0..Len(Inc)
      <4>1. Len(Inc) \in Nat
        BY <1>1, IncLemma
      <4> QED
        BY <1>1, <1>4, <2>1, <4>1, SwallowsInc
    <3>3. Heard(toTerminal, toTerminal') /\ OneAsk(toTerminal')
          /\ (No({"ZFIN"}, toTerminal) => No({"ZFIN"}, toTerminal'))
      BY <1>1, <1>4, NothingSent
    <3> QED
      BY <1>1, <1>2, <1>4, <2>1, <3>1, <3>2, <3>3, Noise
  <2> QED
    BY <1>5, <2>1, <2>2
<1>8. CASE inputFrameM.type = "ZDATA" /\ Ready("DATA") /\ ~crcSound
  <2>1. FuncReturns(fsmTimer, jobs, <<Call("handle", "RESET_EVT")>>) /\ UNCHANGED <<posM, disk>>
    BY <1>8 DEF HandleZdata
  <2> QED
    BY <1>5, <2>1
<1>9. CASE inputFrameM.type = "ZDATA" /\ Ready("DATA") /\ crcSound
  <2>1. PICK w \in Write(Head(bufferM)) :
            /\ posM' = w.pos
            /\ disk' = [disk EXCEPT ![zmodemFileM] = w.file]
            /\ IF w.ok THEN bufferM' = Tail(bufferM) /\ Ends(Head(bufferM))
               ELSE /\ FuncReturns(fsmTimer, jobs, <<Call("handle", "RESET_EVT")>>)
                    /\ UNCHANGED bufferM
    BY <1>9 DEF HandleZdata
  <2> QED
    BY <1>2, <1>9, <2>1, WritesProtocol
<1> QED
  BY <1>6, <1>7, <1>8, <1>9

-----------------------------------------------------------------------------
\* What the terminal does leaves rz, its files and its turns alone.
LEMMA PeerFrame ==
    ASSUME CallsInv, UNCHANGED <<engineVars, fileVars, inputVars>>
    PROVE  /\ CallsInv' /\ TurnsKept /\ (Alive' <=> Alive)
           /\ (Greeting' <=> Greeting) /\ (Going' <=> Going) /\ (Hearing' <=> Hearing)
           /\ (Taking' <=> Taking)
           /\ UNCHANGED <<zmodemFileM, posM, stream, disk, lost, bufferM, inputFrameM>>
           /\ DiskInv' <=> DiskInv
<1>1. CallsInv' /\ TurnsKept /\ (Alive' <=> Alive) /\ \A k \in Turns : Holds(k)' <=> Holds(k)
  BY TurnsStay
<1>2. UNCHANGED <<zmodemFileM, posM, stream, disk, lost, bufferM, inputFrameM>>
  BY DEF fileVars, inputVars
<1>3. /\ (Greeting' <=> Greeting) /\ (Going' <=> Going) /\ (Hearing' <=> Hearing)
      /\ (Taking' <=> Taking)
  BY <1>1, <1>2 DEF Greeting, Going, Hearing, Taking, Turns
<1>4. DiskInv' <=> DiskInv
  BY <1>2 DEF DiskInv
<1> QED
  BY <1>1, <1>2, <1>3, <1>4

\* The terminal passes over what asks it for nothing.
LEMMA IgnoresProtocol ==
    ASSUME ProtocolInv, LineTypeOK, LineTypeOK', UNCHANGED <<engineVars, fileVars, inputVars>>,
           UNCHANGED <<toProgram, senderVars>>, toTerminal # <<>>, toTerminal' = Tail(toTerminal)
    PROVE  ProtocolInv'
<1>1. CallsInv /\ OneAsk(toTerminal) /\ toTerminal \in Seq(Requests)
  BY DEF ProtocolInv, PeerInv, LineTypeOK
<1>2. CallsInv' /\ TurnsKept
  BY <1>1, PeerFrame
<1>3. UNCHANGED <<flavour, phase, offer, at, zmodemFileM, posM, stream, disk, lost, bufferM, inputFrameM>>
  BY DEF senderVars, fileVars, inputVars
<1>4. Kept(0, Inc, Inc') /\ 0 \in 0..Len(Inc)
  BY <1>3, SameInc
<1>5. /\ Heard(toTerminal, toTerminal') /\ OneAsk(toTerminal')
      /\ No({"ZFIN"}, toTerminal) => No({"ZFIN"}, toTerminal')
  BY <1>1, HeadHeard
<1> QED
  BY <1>2, <1>3, <1>4, <1>5, Noise

\* The terminal takes the request and answers it, or waits for its user.
LEMMA Answering ==
    ASSUME ProtocolInv, LineTypeOK, LineTypeOK', UNCHANGED <<engineVars, fileVars, inputVars>>,
           UNCHANGED <<flavour, offer>>, ~NoAsk(toTerminal), NoAsk(toTerminal'),
           No({"ZFIN"}, toTerminal) => No({"ZFIN"}, toTerminal'),
           NEW ts \in Seq(Answers), Says(ts), NEW t, ts = <<>> \/ ts = <<t>>,
           phase' = "over" => phase = "over", Streaming' => at' <= Size[offer],
           Alive /\ ts # <<>> =>
               /\ t.type \in {"ZACK", "ZDATA"}
               /\ t.type = "ZACK" => AckFits(t.arg)'
               /\ t.type = "ZDATA" => /\ Streaming' /\ zmodemFileM = offer /\ StartsAtEnd(t.arg)
                                      /\ at' = t.arg,
           Alive /\ Going => phase' \in {"offered", "sending", "eof"} /\ zmodemFileM = offer
    PROVE  ProtocolInv'
<1>1. CallsInv /\ PeerInv /\ DiskInv
  BY DEF ProtocolInv, PeerInv
<1>2. /\ CallsInv' /\ (Alive' <=> Alive)
      /\ (Greeting' <=> Greeting) /\ (Going' <=> Going) /\ (Hearing' <=> Hearing)
      /\ (Taking' <=> Taking)
      /\ UNCHANGED <<zmodemFileM, posM, stream, disk, lost, bufferM, inputFrameM>>
      /\ DiskInv'
  BY <1>1, PeerFrame
<1>3. OneAsk(toTerminal') /\ \A i \in 1..Len(toTerminal') : Due(toTerminal[i])' /\ Means(toTerminal[i])'
  BY NoneAsked
<1>4. PeerInv'
  BY <1>1, <1>2, <1>3 DEF PeerInv
<1>5. ASSUME Alive PROVE LineInv' /\ HolderInv'
  <2>1. LineInv /\ HolderInv /\ No(Replies, Inc)
    BY <1>5 DEF ProtocolInv, LineInv
  <2>2. ~Greeting /\ ~Taking /\ ~(Hearing /\ inputFrameM.type = "ZACK")
    BY <2>1 DEF HolderInv
  <2>3. PICK u : u = Inc
    OBVIOUS
  <2>4. PICK v : v = Inc'
    OBVIOUS
  <2>5. u \in Seq(Wholes) /\ v \in Seq(Wholes) /\ Len(u) \in Nat
    BY <2>3, <2>4, IncLemma, IncTypes
  <2>6. /\ Len(v) = Len(u) + Len(ts) /\ \A i \in 1..Len(u) : v[i] = u[i]
        /\ \A i \in 1..Len(ts) : v[Len(u) + i] = ts[i]
    BY <1>2, <2>3, <2>4, SaysInc
  <2>7. ASSUME NEW i \in 1..Len(v), v[i].type \in Replies PROVE i = Len(v) /\ v[i] = t /\ ts # <<>>
    <3>1. CASE i \in 1..Len(u)
      BY <2>1, <2>3, <2>6, <2>7, <3>1 DEF No
    <3>2. CASE i \notin 1..Len(u)
      <4>1. i - Len(u) \in 1..Len(ts) /\ Len(u) + (i - Len(u)) = i
        BY <2>5, <2>6, <3>2
      <4>2. ts # <<>> /\ i - Len(u) = 1 /\ ts[1] = t /\ Len(ts) = 1
        <5>1. PICK j \in 1..Len(ts) : j = i - Len(u)
          BY <4>1
        <5>2. ts # <<>>
          BY <5>1
        <5>3. ts = <<t>> /\ ts[1] = t /\ Len(ts) = 1
          BY <5>2
        <5> QED
          BY <5>1, <5>3
      <4>3. i = Len(v)
        BY <2>5, <2>6, <4>1, <4>2
      <4> QED
        BY <2>6, <4>1, <4>2, <4>3
    <3> QED
      BY <3>1, <3>2
  <2>8. Ordered(v)
    BY <2>5, <2>7 DEF Ordered
  <2>9. ASSUME NEW i \in 1..Len(v) PROVE Tells(Inc, i)'
    <3>1. CASE v[i].type \notin Replies
      BY <2>4, <3>1 DEF Tells, Replies, Offers
    <3>2. CASE v[i].type \in Replies
      <4>1. i = Len(v) /\ v[i] = t /\ ts # <<>>
        BY <2>7, <3>2
      <4>2. After(v, i) = <<>>
        BY <2>5, <4>1, SubSeqEmpty DEF After
      <4>3. t.type = "ZDATA" => /\ Streaming' /\ zmodemFileM' = offer' /\ StartsAtEnd(t.arg)' /\ at' = t.arg
        BY <1>2, <1>5, <4>1 DEF StartsAtEnd, Stored
      <4>4. Linked(<<>>, at', offer', phase', at')
        BY DEF Linked
      <4>5. t.type = "ZDATA" => Chain(After(Inc, i), t.arg)'
        BY <2>4, <4>2, <4>3, <4>4 DEF Chain
      <4>6. t.type \in {"ZACK", "ZDATA"} /\ (t.type = "ZACK" => AckFits(t.arg)')
        BY <1>5, <4>1
      <4>7. Inc'[i] = t
        BY <2>4, <4>1
      <4> QED
        BY <4>3, <4>5, <4>6, <4>7 DEF Tells, Offers, AckFits, Chain, StartsAtEnd, Stored
    <3> QED
      BY <3>1, <3>2
  <2>10. LineInv'
    BY <1>2, <1>3, <2>1, <2>4, <2>8, <2>9 DEF LineInv
  <2>11. No(Offers, v)
    <3>1. (ts # <<>> => t.type \notin Offers) /\ Offers \subseteq Replies
      BY <1>5 DEF Offers, Replies
    <3> QED
      BY <2>7, <3>1 DEF No
  <2>12. No({"ZRINIT", "ZSKIP"}, toTerminal')
    BY AsksLemma DEF NoAsk, No
  <2>13. HolderInv'
    BY <1>2, <1>5, <2>2, <2>4, <2>11, <2>12 DEF HolderInv
  <2> QED
    BY <2>10, <2>13
<1> QED
  BY <1>2, <1>4, <1>5 DEF ProtocolInv

-----------------------------------------------------------------------------
\* The request at the head of the line is taken; it is the only one.
LEMMA TakesOne ==
    ASSUME ProtocolInv, LineTypeOK, NEW type, Gets(type), type \in {"ZRINIT", "ZSKIP", "ZRPOS"}
    PROVE  /\ ~NoAsk(toTerminal) /\ NoAsk(toTerminal')
           /\ No({"ZFIN"}, toTerminal) => No({"ZFIN"}, toTerminal')
           /\ Head(toTerminal).type = type /\ Head(toTerminal) \in Requests
           /\ Due(Head(toTerminal)) /\ (Alive => Means(Head(toTerminal)))
           /\ Alive => LineInv /\ HolderInv /\ phase # "over"
           /\ Alive /\ type # "ZRPOS" => ~Going
<1>1. toTerminal # <<>> /\ Head(toTerminal).type = type /\ toTerminal' = Tail(toTerminal)
  BY DEF Gets
<1>2. toTerminal \in Seq(Requests) /\ OneAsk(toTerminal)
  BY DEF LineTypeOK, ProtocolInv, PeerInv
<1>3. /\ 1 \in 1..Len(toTerminal) /\ Head(toTerminal) = toTerminal[1]
      /\ Asks(Head(toTerminal)) /\ ~IsQuestion(Head(toTerminal)) => NoAsk(Tail(toTerminal))
      /\ \A T : No(T, toTerminal) => No(T, Tail(toTerminal))
  BY <1>1, <1>2, HeadHeard
<1>4. Asks(Head(toTerminal)) /\ ~IsQuestion(Head(toTerminal))
  BY <1>1, AsksLemma
<1>5. Head(toTerminal) \in Requests
  BY <1>2, <1>3, ElementOfSeq
<1>6. Due(Head(toTerminal)) /\ (Alive => Means(Head(toTerminal)))
  BY <1>3 DEF ProtocolInv, PeerInv, LineInv
<1>7. Alive => LineInv /\ HolderInv /\ phase # "over"
  BY DEF ProtocolInv, PeerInv
<1>8. Alive /\ type # "ZRPOS" => ~Going
  BY <1>1, <1>3, <1>7 DEF HolderInv, No
<1>9. ~NoAsk(toTerminal)
  BY <1>3, <1>4 DEF NoAsk
<1> QED
  BY <1>1, <1>3, <1>4, <1>5, <1>6, <1>7, <1>8, <1>9

\* It says that a file was received, or that rz has it already.
LEMMA GetsZrinitProtocol ==
    ASSUME ProtocolInv, LineTypeOK, LineTypeOK', UNCHANGED <<engineVars, fileVars, inputVars>>,
           GetsZrinit \/ GetsZskip
    PROVE  ProtocolInv'
<1>1. UNCHANGED <<flavour, offer>> /\ UNCHANGED toProgram
  BY DEF GetsZrinit, GetsZskip
<1>2. PICK type \in {"ZRINIT", "ZSKIP"} :
          /\ Gets(type)
          /\ type = "ZRINIT" => phase' = IF phase \in {"ready", "eof"} THEN "choosing" ELSE phase
          /\ type = "ZSKIP" => phase' = "choosing"
  BY DEF GetsZrinit, GetsZskip
<1>3. /\ ~NoAsk(toTerminal) /\ NoAsk(toTerminal')
      /\ No({"ZFIN"}, toTerminal) => No({"ZFIN"}, toTerminal')
      /\ type = "ZRINIT" => phase = "over" \/ MayGreet
      /\ Alive => ~Going
  BY <1>2, TakesOne DEF Due
<1>4. (phase' = "over" => phase = "over") /\ ~Streaming'
  BY <1>2, <1>3 DEF Streaming, MayGreet
<1>5. Says(<<>>) /\ <<>> \in Seq(Answers)
  <2>1. toProgram \in Seq(Answers \cup {RestOfToken})
    BY DEF LineTypeOK, Lines
  <2>2. toProgram \o <<>> = toProgram
    BY <2>1, ConcatEmptySeq
  <2> QED
    BY <1>1, <2>2 DEF Says
<1>6. PICK ts \in Seq(Answers) : ts = <<>> /\ Says(ts)
  BY <1>5
<1> QED
  BY <1>1, <1>3, <1>4, <1>6, Answering

\* It says where the file starts.
LEMMA GetsZrposProtocol ==
    ASSUME ProtocolInv, LineTypeOK, LineTypeOK', UNCHANGED <<engineVars, fileVars, inputVars>>, GetsZrpos
    PROVE  ProtocolInv'
<1>1. /\ Gets("ZRPOS") /\ UNCHANGED <<flavour, offer>> /\ phase' = "sending" /\ at' = Head(toTerminal).arg
      /\ Says(<<Frame("ZDATA", at')>>)
  BY DEF GetsZrpos
<1>2. PICK ask : ask = Head(toTerminal)
  OBVIOUS
<1>3. /\ ~NoAsk(toTerminal) /\ NoAsk(toTerminal')
      /\ No({"ZFIN"}, toTerminal) => No({"ZFIN"}, toTerminal')
      /\ ask.type = "ZRPOS" /\ ask \in Requests /\ Due(ask) /\ (Alive => Means(ask))
  BY <1>1, <1>2, TakesOne
<1>4. ask.arg \in Int /\ ask.arg <= Size[offer] /\ at' = ask.arg
  BY <1>1, <1>2, <1>3, TokensLemma DEF Due
<1>5. Alive => zmodemFileM = offer /\ StartsAtEnd(ask.arg)
  BY <1>3 DEF Means
<1>6. PICK t : t = Frame("ZDATA", ask.arg)
  OBVIOUS
<1>7. t.type = "ZDATA" /\ t.arg = ask.arg
  BY <1>6 DEF Frame
<1>8. <<t>> \in Seq(Answers) /\ Says(<<t>>)
  <2>1. t \in Answers
    BY <1>4, <1>6, AnswersLemma
  <2> QED
    BY <1>1, <1>4, <1>6, <2>1
<1>9. PICK ts \in Seq(Answers) : ts = <<t>> /\ Says(ts)
  BY <1>8
<1>10. Streaming' /\ (Streaming' => at' <= Size[offer])
  BY <1>1, <1>4 DEF Streaming
<1> QED
  BY <1>1, <1>3, <1>4, <1>5, <1>7, <1>9, <1>10, Answering

\* It answers the question by what rz says it has.
LEMMA GetsQuestionProtocol ==
    ASSUME ProtocolInv, LineTypeOK, LineTypeOK', SenderTypeOK,
           UNCHANGED <<engineVars, fileVars, inputVars>>, GetsQuestion
    PROVE  ProtocolInv'
<1> DEFINE asked == Head(toTerminal).arg = "check last break"
           held  == toTerminal[2]
           a     == IF held.sound /\ held.len <= Length[offer] THEN held.len ELSE 0
<1>1. /\ toTerminal # <<>> /\ Head(toTerminal).type = "ZCOMMAND" /\ UNCHANGED senderVars
      /\ asked => Len(toTerminal) > 1
      /\ toTerminal' = IF asked /\ held.type = "DATA" THEN SubSeq(toTerminal, 3, Len(toTerminal))
                       ELSE Tail(toTerminal)
      /\ Says(IF asked /\ held.type = "DATA" THEN <<Frame("ZACK", a)>> ELSE <<>>)
  BY Zenon DEF GetsQuestion
<1>2. asked => IsQuestion(Head(toTerminal))
  BY <1>1, Zenon DEF IsQuestion
<1> HIDE DEF asked, held, a
<1>3. /\ toTerminal \in Seq(Requests) /\ OneAsk(toTerminal) /\ Len(toTerminal) \in Nat
      /\ Head(toTerminal) = toTerminal[1] /\ 1 \in 1..Len(toTerminal)
  <2>1. toTerminal \in Seq(Requests) /\ OneAsk(toTerminal)
    BY DEF LineTypeOK, ProtocolInv, PeerInv
  <2> QED
    BY <1>1, <2>1, HeadHeard
<1>4. CASE ~(asked /\ held.type = "DATA")
  <2>1. toTerminal' = Tail(toTerminal) /\ Says(<<>>)
    BY <1>1, <1>4
  <2>2. UNCHANGED toProgram
    <3>1. toProgram \in Seq(Answers \cup {RestOfToken})
      BY DEF LineTypeOK, Lines
    <3> QED
      BY <2>1, <3>1, ConcatEmptySeq DEF Says
  <2> QED
    BY <1>1, <2>1, <2>2, IgnoresProtocol
<1>5. CASE asked /\ held.type = "DATA"
  <2>1. toTerminal' = SubSeq(toTerminal, 3, Len(toTerminal)) /\ Says(<<Frame("ZACK", a)>>) /\ Len(toTerminal) > 1
    BY <1>1, <1>5
  <2>2. 2 \in 1..Len(toTerminal) /\ held = toTerminal[2] /\ held \in Requests
    BY <1>3, <2>1, ElementOfSeq DEF held
  <2>3. Asks(toTerminal[1]) /\ Asks(held) /\ ~IsQuestion(held)
    BY <1>2, <1>3, <1>5, AsksLemma
  <2>4. held.len \in Int
    BY <1>5, <2>2, TokensLemma
  <2>5. PICK u : u = toTerminal
    OBVIOUS
  <2>6. /\ SubSeq(u, 3, Len(u)) \in Seq(Requests)
        /\ \A i \in 1..Len(SubSeq(u, 3, Len(u))) : i + 2 \in 1..Len(u) /\ SubSeq(u, 3, Len(u))[i] = u[i + 2]
    <3>1. u \in Seq(Requests) /\ Len(u) \in Nat /\ 2 \in 0..Len(u)
      BY <1>3, <2>2, <2>5
    <3>2. SubSeq(u, 3, Len(u)) = After(u, 2)
      BY DEF After
    <3>3. /\ After(u, 2) \in Seq(Requests) /\ Len(After(u, 2)) = Len(u) - 2
          /\ \A i \in 1..Len(u) - 2 : After(u, 2)[i] = u[2 + i]
      BY ONLY <3>1, AfterLemma
    <3> QED
      BY <3>1, <3>2, <3>3
  <2>7. ASSUME NEW i \in 1..Len(toTerminal') PROVE ~Asks(toTerminal'[i]) /\ \E k \in 1..Len(u) : toTerminal'[i] = u[k]
    <3>1. i + 2 \in 1..Len(u) /\ toTerminal'[i] = u[i + 2] /\ 2 < i + 2
      BY <2>1, <2>5, <2>6
    <3>2. PICK j \in 1..Len(u) : j = i + 2
      BY <3>1
    <3>3. ~Asks(u[j])
      BY <1>3, <2>2, <2>3, <2>5, <3>1, <3>2 DEF OneAsk
    <3> QED
      BY <3>1, <3>2, <3>3
  <2>8. NoAsk(toTerminal') /\ ~NoAsk(toTerminal) /\ (No({"ZFIN"}, toTerminal) => No({"ZFIN"}, toTerminal'))
    BY <1>3, <2>3, <2>5, <2>7 DEF NoAsk, No
  <2>9. PICK b : b = a
    OBVIOUS
  <2>10. b = IF held.sound /\ held.len <= Length[offer] THEN held.len ELSE 0
    BY <2>9 DEF a
  <2>11. b \in Int
    BY <2>4, <2>10
  <2>12. PICK t : t = Frame("ZACK", b)
    OBVIOUS
  <2>13. t.type = "ZACK" /\ t.arg = b
    BY <2>12 DEF Frame
  <2>14. <<t>> \in Seq(Answers) /\ Says(<<t>>)
    <3>1. t \in Answers
      BY <2>11, <2>12, AnswersLemma
    <3> QED
      BY <2>1, <2>9, <2>12, <3>1
  <2>15. PICK ts \in Seq(Answers) : ts = <<t>> /\ Says(ts)
    BY <2>14
  <2>16. UNCHANGED <<flavour, phase, offer, at, zmodemFileM, posM, stream, disk, lost>>
    BY <1>1 DEF senderVars, fileVars
  <2>17. ASSUME Alive PROVE AckFits(b)' /\ phase = "offered" /\ zmodemFileM = offer
    <3>1. Means(held)
      BY <1>3, <2>2, <2>17 DEF ProtocolInv, LineInv
    <3>2. /\ phase = "offered" /\ zmodemFileM = offer /\ posM = 0 /\ stream = "closed"
          /\ held.len = disk[offer].len /\ held.sound = disk[offer].sound
      BY <1>5, <3>1 DEF Means, Stored
    <3>3. /\ Size[offer] \in Nat /\ Length[offer] = Size[offer]
          /\ disk[offer].sound => disk[offer].len <= Size[offer]
      BY RzAssumption, TransferAssumption DEF ProtocolInv, PeerInv, DiskInv, SenderTypeOK
    <3>4. b <= Size[offer] /\ (b # 0 => disk[offer].sound /\ disk[offer].len = b)
          /\ (b = 0 /\ disk[offer].sound => disk[offer].len = 0)
      BY <2>4, <2>10, <3>2, <3>3
    <3> QED
      BY <2>16, <3>2, <3>4 DEF AckFits, Stored
  <2>18. Streaming' => at' <= Size[offer]
    BY <2>16 DEF ProtocolInv, PeerInv, Streaming
  <2> QED
    BY <2>8, <2>13, <2>15, <2>16, <2>17, <2>18, Answering
<1> QED
  BY <1>4, <1>5

-----------------------------------------------------------------------------
\* While its user chooses and while it sends, the terminal has nothing to answer.
LEMMA NothingDue ==
    ASSUME ProtocolInv, phase \in {"choosing", "sending", "fin"}
    PROVE  /\ \A i \in 1..Len(toTerminal) : toTerminal[i].type \notin {"ZRINIT", "ZSKIP", "ZRPOS"}
           /\ Alive => /\ LineInv /\ HolderInv /\ NoAsk(toTerminal) /\ No(Offers \cup {"ZACK"}, Inc)
                       /\ ~Greeting /\ ~(Hearing /\ inputFrameM.type = "ZACK")
           /\ Alive /\ phase # "sending" => No(Replies, Inc) /\ ~Going /\ ~Taking
<1>1. PeerInv
  BY DEF ProtocolInv
<1>2. ~MayGreet /\ phase # "over" /\ phase # "offered"
  BY DEF MayGreet
<1>3. ASSUME NEW i \in 1..Len(toTerminal)
      PROVE  toTerminal[i].type \notin {"ZRINIT", "ZSKIP", "ZRPOS"}
  <2>1. Due(toTerminal[i])
    BY <1>1 DEF PeerInv
  <2> QED
    BY <1>2, <2>1 DEF Due
<1>4. ASSUME Alive
      PROVE  /\ LineInv /\ HolderInv /\ NoAsk(toTerminal) /\ No(Offers \cup {"ZACK"}, Inc)
             /\ ~Greeting /\ ~(Hearing /\ inputFrameM.type = "ZACK")
             /\ phase # "sending" => No(Replies, Inc) /\ ~Going /\ ~Taking
  <2>1. LineInv /\ HolderInv
    BY <1>4 DEF ProtocolInv
  <2>2. ASSUME NEW i \in 1..Len(toTerminal) PROVE ~Asks(toTerminal[i])
    <3>1. PICK t : t = toTerminal[i]
      OBVIOUS
    <3>2. Means(t) /\ t.type \notin {"ZRINIT", "ZSKIP", "ZRPOS"}
      BY <1>3, <2>1, <3>1 DEF LineInv
    <3>3. ~IsQuestion(t) /\ t.type # "DATA"
      BY <1>2, <3>2 DEF Means
    <3> QED
      BY <3>1, <3>2, <3>3 DEF Asks
  <2>3. NoAsk(toTerminal)
    BY <2>2 DEF NoAsk
  <2>4. ASSUME NEW i \in 1..Len(Inc)
        PROVE  /\ Inc[i].type \notin Offers \cup {"ZACK"}
               /\ phase # "sending" => Inc[i].type \notin Replies
    <3>1. Tells(Inc, i)
      BY <2>1 DEF LineInv
    <3>2. Inc[i].type \notin Offers \cup {"ZACK"}
      BY <1>2, <3>1 DEF Tells, AckFits
    <3>3. phase # "sending" => Inc[i].type \notin {"ZDATA", "DATA"}
      BY <3>1 DEF Tells, Streaming
    <3> QED
      BY <3>2, <3>3 DEF Replies
  <2>5. ~Greeting /\ ~(Hearing /\ inputFrameM.type = "ZACK")
    BY <1>2, <2>1 DEF HolderInv, AckFits
  <2>6. phase # "sending" => ~Going /\ ~Taking
    BY <2>1 DEF HolderInv, Streaming
  <2> QED
    BY <2>1, <2>3, <2>4, <2>5, <2>6 DEF No
<1> QED
  BY <1>3, <1>4

\* What the terminal says of itself: a heartbeat, a file it offers, the end.
LEMMA Speaking ==
    ASSUME ProtocolInv, LineTypeOK, LineTypeOK', UNCHANGED <<engineVars, fileVars, inputVars>>,
           UNCHANGED <<toTerminal, flavour>>, phase = "choosing",
           phase' \in {"choosing", "offered", "fin"},
           NEW ts \in Seq(Answers), Says(ts), Ordered(ts),
           \A i \in 1..Len(ts) : ts[i].type \in Replies =>
               /\ phase' = "offered" /\ ts[i].type \in Offers
               /\ ts[i].type = "ZFILE" => ts[i].arg = flavour.version
               /\ ts[i].type = "NAME" => ts[i].arg = offer'
    PROVE  ProtocolInv'
<1>1. CallsInv /\ PeerInv /\ DiskInv
  BY DEF ProtocolInv, PeerInv
<1>2. /\ CallsInv' /\ (Alive' <=> Alive)
      /\ (Greeting' <=> Greeting) /\ (Going' <=> Going) /\ (Hearing' <=> Hearing)
      /\ (Taking' <=> Taking)
      /\ UNCHANGED <<zmodemFileM, posM, stream, disk, lost, bufferM, inputFrameM>>
      /\ DiskInv'
  BY <1>1, PeerFrame
<1>3. /\ \A i \in 1..Len(toTerminal) : toTerminal[i].type \notin {"ZRINIT", "ZSKIP", "ZRPOS"}
      /\ Alive => /\ LineInv /\ NoAsk(toTerminal) /\ ~Greeting
                  /\ ~(Hearing /\ inputFrameM.type = "ZACK")
                  /\ No(Replies, Inc) /\ ~Going /\ ~Taking
  BY NothingDue
<1>4. PeerInv'
  <2>1. \A i \in 1..Len(toTerminal') : Due(toTerminal[i])'
    BY <1>3 DEF Due
  <2> QED
    BY <1>1, <1>2, <2>1 DEF PeerInv, Streaming
<1>5. ASSUME Alive PROVE LineInv' /\ HolderInv'
  <2>1. PICK u : u = Inc
    OBVIOUS
  <2>2. PICK v : v = Inc'
    OBVIOUS
  <2>3. u \in Seq(Wholes) /\ v \in Seq(Wholes) /\ Len(u) \in Nat /\ No(Replies, u)
    BY <1>3, <1>5, <2>1, <2>2, IncLemma, IncTypes
  <2>4. /\ Len(v) = Len(u) + Len(ts) /\ \A i \in 1..Len(u) : v[i] = u[i]
        /\ \A i \in 1..Len(ts) : v[Len(u) + i] = ts[i]
    BY <1>2, <2>1, <2>2, SaysInc
  <2>5. ASSUME NEW i \in 1..Len(v), v[i].type \in Replies
        PROVE  i - Len(u) \in 1..Len(ts) /\ v[i] = ts[i - Len(u)]
    <3>1. i \notin 1..Len(u)
      BY <2>3, <2>4, <2>5 DEF No
    <3>2. i - Len(u) \in 1..Len(ts) /\ Len(u) + (i - Len(u)) = i
      BY <2>3, <2>4, <3>1
    <3>3. PICK j \in 1..Len(ts) : j = i - Len(u)
      BY <3>2
    <3> QED
      BY <2>4, <3>2, <3>3
  <2>6. Ordered(v)
    <3>1. ASSUME NEW i \in 1..Len(v), NEW j \in 1..Len(v), i < j,
                 v[i].type \in Replies, v[j].type \in Replies
          PROVE  \/ v[i].type = "ZFILE" /\ v[j].type = "NAME"
                 \/ v[i].type \in {"ZDATA", "DATA"} /\ v[j].type = "DATA"
      <4>1. PICK a \in 1..Len(ts) : a = i - Len(u) /\ v[i] = ts[a]
        BY <2>5, <3>1
      <4>2. PICK b \in 1..Len(ts) : b = j - Len(u) /\ v[j] = ts[b]
        BY <2>5, <3>1
      <4>3. a < b
        BY <2>3, <3>1, <4>1, <4>2
      <4> QED
        BY <3>1, <4>1, <4>2, <4>3 DEF Ordered
    <3> QED
      BY <3>1 DEF Ordered
  <2>7. ASSUME NEW i \in 1..Len(v) PROVE Tells(Inc, i)'
    <3>1. CASE v[i].type \notin Replies
      BY <2>2, <3>1 DEF Tells, Replies, Offers
    <3>2. CASE v[i].type \in Replies
      <4>1. PICK a \in 1..Len(ts) : v[i] = ts[a]
        BY <2>5, <3>2
      <4>2. /\ phase' = "offered" /\ v[i].type \in Offers
            /\ v[i].type = "ZFILE" => v[i].arg = flavour.version
            /\ v[i].type = "NAME" => v[i].arg = offer'
        BY <3>2, <4>1
      <4> QED
        BY <2>2, <4>2 DEF Tells, Offers
    <3> QED
      BY <3>1, <3>2
  <2>8. \A i \in 1..Len(toTerminal') : Means(toTerminal[i])'
    <3>1. NoAsk(toTerminal')
      BY <1>3, <1>5
    <3> QED
      BY <3>1, NoneAsked
  <2>9. LineInv'
    BY <1>2, <1>3, <1>5, <2>2, <2>6, <2>7, <2>8 DEF LineInv
  <2>10. HolderInv'
    BY <1>2, <1>3, <1>5 DEF HolderInv
  <2> QED
    BY <2>9, <2>10
<1> QED
  BY <1>2, <1>4, <1>5 DEF ProtocolInv

\* The steps of its user.
LEMMA UserProtocol ==
    ASSUME ProtocolInv, LineTypeOK, LineTypeOK', SenderTypeOK,
           UNCHANGED <<engineVars, fileVars, inputVars>>, Heartbeat \/ Offer \/ Finish
    PROVE  ProtocolInv'
<1>1. CASE Heartbeat
  <2>1. PICK t : t = Frame("ZHEARTBEAT", 0)
    OBVIOUS
  <2>2. t \in Answers /\ t.type = "ZHEARTBEAT"
    <3>1. 0 \in Int /\ t.type = "ZHEARTBEAT"
      BY <2>1 DEF Frame
    <3> QED
      BY <2>1, <3>1, AnswersLemma
  <2>3. PICK ts \in Seq(Answers) : ts = <<t>> /\ Says(ts)
    <3>1. <<t>> \in Seq(Answers) /\ Says(<<t>>)
      BY <1>1, <2>1, <2>2 DEF Heartbeat
    <3> QED
      BY <3>1
  <2>4. Len(ts) = 1 /\ ts[1] = t /\ t.type \notin Replies
    BY <2>2, <2>3 DEF Replies, Offers
  <2>5. Ordered(ts) /\ \A i \in 1..Len(ts) : ts[i].type \notin Replies
    BY <2>4 DEF Ordered
  <2> QED
    BY <1>1, <2>3, <2>5, Speaking DEF Heartbeat
<1>2. CASE Offer
  <2>1. /\ phase = "choosing" /\ left # <<>> /\ phase' = "offered" /\ offer' = Head(left)
        /\ Says(<<Frame("ZFILE", flavour.version), NameOf(Head(left))>>)
        /\ UNCHANGED <<toTerminal, flavour>>
    BY <1>2 DEF Offer
  <2>2. Head(left) \in Files /\ flavour.version \in Int
    BY <2>1, HeadTailProperties, TransferAssumption DEF SenderTypeOK
  <2>3. PICK t : t = Frame("ZFILE", flavour.version)
    OBVIOUS
  <2>4. PICK n : n = NameOf(Head(left))
    OBVIOUS
  <2>5. /\ t \in Answers /\ t.type = "ZFILE" /\ t.arg = flavour.version
        /\ n \in Answers /\ n.type = "NAME" /\ n.arg = offer'
    BY <2>1, <2>2, <2>3, <2>4, AnswersLemma DEF Frame, NameOf
  <2>6. PICK ts \in Seq(Answers) : ts = <<t, n>> /\ Says(ts)
    <3>1. <<t, n>> \in Seq(Answers) /\ Says(<<t, n>>)
      BY <2>1, <2>3, <2>4, <2>5
    <3> QED
      BY <3>1
  <2>7. Len(ts) = 2 /\ ts[1] = t /\ ts[2] = n
    BY <2>6
  <2>8. \A i \in 1..Len(ts) : i = 1 \/ i = 2
    BY <2>7
  <2>9. \A i, j \in 1..Len(ts) : i < j => i = 1 /\ j = 2
    BY <2>8
  <2>10. Ordered(ts)
    BY <2>5, <2>7, <2>9 DEF Ordered
  <2>11. ASSUME NEW i \in 1..Len(ts)
         PROVE  /\ ts[i].type \in Offers
                /\ ts[i].type = "ZFILE" => ts[i].arg = flavour.version
                /\ ts[i].type = "NAME" => ts[i].arg = offer'
    BY <2>5, <2>7, <2>8 DEF Offers
  <2> QED
    BY <2>1, <2>6, <2>10, <2>11, Speaking
<1>3. CASE Finish
  <2>1. PICK c : c = IF flavour.completes THEN <<Frame("ZCOMPL", 0)>> ELSE <<>>
    OBVIOUS
  <2>2. PICK z : z = <<Frame("ZFIN", 0)>>
    OBVIOUS
  <2>3. /\ c \in Seq(Answers) /\ \A i \in 1..Len(c) : c[i].type \notin Replies
    <3>1. PICK t : t = Frame("ZCOMPL", 0)
      OBVIOUS
    <3>2. 0 \in Int /\ t.type \notin Replies
      BY <3>1 DEF Frame, Replies, Offers
    <3>3. t \in Answers
      BY <3>1, <3>2, AnswersLemma
    <3>4. CASE c = <<t>>
      BY <3>2, <3>3, <3>4
    <3>5. CASE c = <<>>
      BY <3>5
    <3> QED
      BY <2>1, <3>1, <3>4, <3>5
  <2>4. /\ z \in Seq(Answers) /\ \A i \in 1..Len(z) : z[i].type \notin Replies
    <3>1. PICK t : t = Frame("ZFIN", 0)
      OBVIOUS
    <3>2. 0 \in Int /\ t.type \notin Replies
      BY <3>1 DEF Frame, Replies, Offers
    <3>3. t \in Answers
      BY <3>1, <3>2, AnswersLemma
    <3> QED
      BY <2>2, <3>1, <3>2, <3>3
  <2>5. Says(c \o z) /\ phase = "choosing" /\ phase' = "fin" /\ UNCHANGED <<toTerminal, flavour>>
    BY <1>3, <2>1, <2>2 DEF Finish
  <2>6. PICK ts : ts = c \o z
    OBVIOUS
  <2>7. /\ ts \in Seq(Answers)
        /\ \A i \in 1..Len(ts) : \/ i \in 1..Len(c) /\ ts[i] = c[i]
                                 \/ i - Len(c) \in 1..Len(z) /\ ts[i] = z[i - Len(c)]
    <3>1. c \in Seq(Answers) /\ z \in Seq(Answers)
      BY <2>3, <2>4
    <3> QED
      BY ONLY <2>6, <3>1, Joined
  <2>8. ASSUME NEW i \in 1..Len(ts) PROVE ts[i].type \notin Replies
    BY <2>3, <2>4, <2>7
  <2>9. Ordered(ts) /\ Says(ts)
    BY <2>5, <2>6, <2>8 DEF Ordered
  <2> QED
    BY <2>5, <2>7, <2>8, <2>9, Speaking
<1> QED
  BY <1>1, <1>2, <1>3

-----------------------------------------------------------------------------
\* The tokens v are those of u, then the data d, and then at most the end of
\* the file.
Grown(u, v, d) ==
    /\ Len(v) > Len(u) /\ v[Len(u) + 1] = d
    /\ \A i \in 1..Len(u) : v[i] = u[i]
    /\ \A i \in 1..Len(v) : i > Len(u) + 1 => v[i].type = "ZEOF"

\* So are those behind one of them.
LEMMA GrownBehind ==
    ASSUME NEW u \in Seq(Wholes), NEW v \in Seq(Wholes), NEW d, Grown(u, v, d), NEW k \in 0..Len(u)
    PROVE  /\ k \in 0..Len(v) /\ Grown(After(u, k), After(v, k), d)
           /\ After(u, k) \in Seq(Wholes) /\ After(v, k) \in Seq(Wholes)
<1>1. Len(u) \in Nat /\ Len(v) \in Nat /\ Len(v) > Len(u) /\ k \in 0..Len(v)
  BY LenProperties DEF Grown
<1>2. /\ After(u, k) \in Seq(Wholes) /\ Len(After(u, k)) = Len(u) - k
      /\ \A i \in 1..Len(u) - k : After(u, k)[i] = u[k + i]
  BY ONLY u \in Seq(Wholes), k \in 0..Len(u), AfterLemma
<1>3. /\ After(v, k) \in Seq(Wholes) /\ Len(After(v, k)) = Len(v) - k
      /\ \A i \in 1..Len(v) - k : After(v, k)[i] = v[k + i]
  BY ONLY v \in Seq(Wholes), <1>1, AfterLemma
<1>4. PICK a : a = After(u, k)
  OBVIOUS
<1>5. PICK b : b = After(v, k)
  OBVIOUS
<1>6. Len(b) > Len(a) /\ Len(a) + 1 \in 1..Len(v) - k /\ k + (Len(a) + 1) = Len(u) + 1
  BY <1>1, <1>2, <1>3, <1>4, <1>5
<1>7. b[Len(a) + 1] = d
  <2>1. PICK j \in 1..Len(v) - k : j = Len(a) + 1
    BY <1>6
  <2>2. b[j] = v[k + j] /\ k + j = Len(u) + 1
    BY <1>3, <1>5, <1>6, <2>1
  <2> QED
    BY <2>1, <2>2 DEF Grown
<1>8. ASSUME NEW i \in 1..Len(a) PROVE b[i] = a[i]
  <2>1. i \in 1..Len(u) - k /\ i \in 1..Len(v) - k /\ k + i \in 1..Len(u)
    BY <1>1, <1>2, <1>4
  <2>2. PICK j \in 1..Len(u) : j = k + i
    BY <2>1
  <2>3. v[j] = u[j]
    BY DEF Grown
  <2> QED
    BY <1>2, <1>3, <1>4, <1>5, <2>1, <2>2, <2>3
<1>9. ASSUME NEW i \in 1..Len(b), i > Len(a) + 1 PROVE b[i].type = "ZEOF"
  <2>1. i \in 1..Len(v) - k /\ k + i \in 1..Len(v) /\ k + i > Len(u) + 1
    BY <1>1, <1>2, <1>3, <1>4, <1>5, <1>9
  <2>2. PICK j \in 1..Len(v) : j = k + i
    BY <2>1
  <2>3. v[j].type = "ZEOF"
    BY <2>1, <2>2 DEF Grown
  <2> QED
    BY <1>3, <1>5, <2>1, <2>2, <2>3
<1> QED
  BY <1>1, <1>2, <1>3, <1>4, <1>5, <1>6, <1>7, <1>8, <1>9 DEF Grown

\* The data d of file f begin at pos; they are the last ones or not.
Block(d, f, pos, when) ==
    /\ d.type = "DATA" /\ d.of = f /\ d.from = pos /\ d.len \in Nat /\ End(d) <= Size[f]
    /\ when \in {"sending", "eof"}
    /\ d.len < SBlock => d.end = "ZCRCE"
    /\ d.end = "ZCRCE" => End(d) = Size[f] /\ when = "eof"
    /\ when = "sending" => d.end = "ZCRCG"

\* The next subpacket begins where the terminal is: there is still no gap.
LEMMA GrownLinked ==
    ASSUME NEW u \in Seq(Wholes), NEW v \in Seq(Wholes), NEW d, Grown(u, v, d),
           NEW base, NEW f, NEW pos, Linked(u, base, f, "sending", pos),
           NEW when, Block(d, f, pos, when), when = "sending" => Len(v) = Len(u) + 1
    PROVE  Linked(v, base, f, when, End(d))
<1> USE DEF Block
<1>1. PICK n : n = Len(u) + 1
  OBVIOUS
<1>2. /\ Len(u) \in Nat /\ Len(v) \in Nat /\ n \in 1..Len(v) /\ n = Len(u) + 1 /\ v[n] = d
      /\ \A i \in 1..Len(u) : v[i] = u[i]
      /\ \A i \in 1..Len(v) : i > n => v[i].type = "ZEOF"
  BY <1>1, LenProperties DEF Grown
<1>3. ASSUME NEW i \in 1..Len(v), v[i].type = "DATA"
      PROVE  /\ v[i].of = f /\ v[i].len \in Nat /\ End(v[i]) <= Size[f]
             /\ v[i].len < SBlock => v[i].end = "ZCRCE"
             /\ i = 1 => v[i].from = base
             /\ i > 1 => /\ v[i - 1].type = "DATA" /\ v[i - 1].end = "ZCRCG"
                         /\ v[i].from = End(v[i - 1])
             /\ v[i].end = "ZCRCE" => /\ End(v[i]) = Size[f] /\ when = "eof"
                                      /\ No({"DATA"}, After(v, i))
  <2>1. CASE i \in 1..Len(u)
    <3>1. v[i] = u[i] /\ (i > 1 => i - 1 \in 1..Len(u))
      BY <1>2, <2>1
    <3>2. i > 1 => v[i - 1] = u[i - 1]
      BY <1>2, <3>1
    <3>3. u[i].end # "ZCRCE"
      BY <1>3, <2>1, <3>1 DEF Linked
    <3> QED
      BY <1>3, <2>1, <3>1, <3>2, <3>3 DEF Linked
  <2>2. CASE i \notin 1..Len(u)
    <3>1. i = n
      <4>1. ~(i > n)
        BY <1>2, <1>3
      <4> QED
        BY <1>2, <2>2, <4>1
    <3>2. v[i] = d
      BY <1>2, <3>1
    <3>3. i = 1 => d.from = base
      <4>1. i = 1 => u = <<>>
        BY <1>2, <3>1, EmptySeq
      <4> QED
        BY <4>1 DEF Linked
    <3>4. i > 1 => /\ v[i - 1].type = "DATA" /\ v[i - 1].end = "ZCRCG" /\ d.from = End(v[i - 1])
      <4>1. i > 1 => u # <<>> /\ i - 1 = Len(u) /\ Len(u) \in 1..Len(u)
        BY <1>2, <3>1, EmptySeq
      <4>2. i > 1 => v[i - 1] = u[Len(u)]
        BY <1>2, <4>1
      <4> QED
        BY <4>1, <4>2 DEF Linked
    <3>5. No({"DATA"}, After(v, i))
      <4>1. i \in 0..Len(v)
        BY <1>2
      <4>2. /\ Len(After(v, i)) = Len(v) - i
            /\ \A j \in 1..Len(v) - i : After(v, i)[j] = v[i + j]
        BY ONLY v \in Seq(Wholes), <4>1, AfterLemma
      <4>3. ASSUME NEW j \in 1..Len(After(v, i)) PROVE After(v, i)[j].type # "DATA"
        <5>1. j \in 1..Len(v) - i /\ i + j \in 1..Len(v) /\ i + j > n
          BY <1>2, <3>1, <4>2
        <5>2. PICK m \in 1..Len(v) : m = i + j
          BY <5>1
        <5>3. v[m].type = "ZEOF"
          BY <1>2, <5>1, <5>2
        <5> QED
          BY <4>2, <5>1, <5>2, <5>3
      <4> QED
        BY <4>3 DEF No
    <3> QED
      BY <3>2, <3>3, <3>4, <3>5
  <2> QED
    BY <2>1, <2>2
<1>4. ASSUME when = "sending"
      PROVE  IF v = <<>> THEN End(d) = base
             ELSE v[Len(v)].type = "DATA" /\ v[Len(v)].end = "ZCRCG" /\ End(d) = End(v[Len(v)])
  <2>1. Len(v) = n /\ v # <<>> /\ v[Len(v)] = d
    BY <1>2, <1>4, EmptySeq
  <2> QED
    BY <1>4, <2>1
<1> QED
  BY <1>3, <1>4 DEF Linked

-----------------------------------------------------------------------------
\* What a block is: the data from where the terminal is, in the file.
LEMMA BlockLemma ==
    ASSUME ProtocolInv, SenderTypeOK, SendBlock
    PROVE  \E d \in Answers : \E ts \in Seq(Answers) :
               /\ Says(ts) /\ ts # <<>> /\ ts[1] = d /\ \A i \in 1..Len(ts) : i > 1 => ts[i].type = "ZEOF"
               /\ Block(d, offer, at, phase') /\ at' = End(d) /\ (phase' = "sending" => Len(ts) = 1)
<1> DEFINE rest == Length[offer] - at
           len  == Min({SBlock, rest})
           Data(end) == [type |-> "DATA", of |-> offer, from |-> at, len |-> len, end |-> end]
<1>1. /\ phase = "sending" /\ at' = at + len
      /\ \/ rest >= SBlock /\ Says(<<Data("ZCRCG")>>) /\ UNCHANGED phase
         \/ rest <= SBlock /\ Says(<<Data("ZCRCE"), Frame("ZEOF", at')>>) /\ phase' = "eof"
  BY DEF SendBlock
<1>2. at <= Size[offer] /\ at \in Int /\ offer \in Files /\ Length[offer] = Size[offer] /\ Size[offer] \in Nat
  BY <1>1, TransferAssumption, RzAssumption DEF ProtocolInv, PeerInv, Streaming, SenderTypeOK
<1>3. SBlock \in Nat /\ rest \in Nat /\ len = IF SBlock <= rest THEN SBlock ELSE rest
  <2>1. SBlock \in Nat /\ rest \in Nat
    BY <1>2, TransferAssumption
  <2> HIDE DEF rest
  <2>2. SBlock \in Int /\ rest \in Int
    BY <2>1
  <2> QED
    BY <2>1, <2>2, SmallerOfTwo
<1>4. at + rest = Size[offer]
  BY <1>2
<1> HIDE DEF rest, len
<1>5. /\ len \in Nat /\ len \in Int /\ at + len <= Size[offer]
      /\ rest <= SBlock => at + len = Size[offer]
      /\ rest >= SBlock => ~(len < SBlock)
  BY <1>2, <1>3, <1>4
<1>6. CASE rest >= SBlock /\ Says(<<Data("ZCRCG")>>) /\ UNCHANGED phase
  <2>1. PICK d : d = Data("ZCRCG")
    OBVIOUS
  <2>2. d \in Answers
    BY <1>2, <1>5, <2>1, AnswersLemma
  <2>3. /\ d.type = "DATA" /\ d.of = offer /\ d.from = at /\ d.len = len /\ d.end = "ZCRCG"
    BY <2>1
  <2>4. End(d) = at + len
    BY <2>3 DEF End
  <2> HIDE DEF Data
  <2>5. <<d>> \in Seq(Answers) /\ Says(<<d>>)
    BY <1>6, <2>1, <2>2
  <2>6. PICK ts \in Seq(Answers) : ts = <<d>> /\ Says(ts)
    BY <2>5
  <2>7. Len(ts) = 1 /\ ts[1] = d /\ ts # <<>> /\ \A i \in 1..Len(ts) : i > 1 => ts[i].type = "ZEOF"
    BY <2>6
  <2> QED
    BY <1>1, <1>5, <1>6, <2>2, <2>3, <2>4, <2>6, <2>7 DEF Block
<1>7. CASE rest <= SBlock /\ Says(<<Data("ZCRCE"), Frame("ZEOF", at')>>) /\ phase' = "eof"
  <2>1. PICK d : d = Data("ZCRCE")
    OBVIOUS
  <2>2. d \in Answers
    BY <1>2, <1>5, <2>1, AnswersLemma
  <2>3. /\ d.type = "DATA" /\ d.of = offer /\ d.from = at /\ d.len = len /\ d.end = "ZCRCE"
    BY <2>1
  <2>4. End(d) = at + len
    BY <2>3 DEF End
  <2>5. PICK e : e = Frame("ZEOF", at')
    OBVIOUS
  <2>6. e \in Answers
    <3>1. at' \in Int
      BY <1>1, <1>2, <1>5
    <3> QED
      BY <2>5, <3>1, AnswersLemma
  <2>7. e.type = "ZEOF"
    BY <2>5 DEF Frame
  <2> HIDE DEF Data
  <2>8. <<d, e>> \in Seq(Answers) /\ Says(<<d, e>>)
    BY <1>7, <2>1, <2>2, <2>5, <2>6
  <2>9. PICK ts \in Seq(Answers) : ts = <<d, e>> /\ Says(ts)
    BY <2>8
  <2>10. Len(ts) = 2 /\ ts[1] = d /\ ts[2] = e /\ ts # <<>>
    BY <2>9
  <2>11. \A i \in 1..Len(ts) : i > 1 => ts[i].type = "ZEOF"
    BY <2>7, <2>10
  <2> QED
    BY <1>1, <1>5, <1>7, <2>2, <2>3, <2>4, <2>9, <2>10, <2>11 DEF Block
<1> QED
  BY <1>1, <1>6, <1>7

\* The terminal sends the next block of the file, and after the last one its end.
LEMMA SendBlockProtocol ==
    ASSUME ProtocolInv, LineTypeOK, LineTypeOK', SenderTypeOK,
           UNCHANGED <<engineVars, fileVars, inputVars>>, SendBlock
    PROVE  ProtocolInv'
<1>1. CallsInv /\ PeerInv /\ DiskInv
  BY DEF ProtocolInv, PeerInv
<1>2. /\ CallsInv' /\ (Alive' <=> Alive)
      /\ (Greeting' <=> Greeting) /\ (Going' <=> Going) /\ (Hearing' <=> Hearing)
      /\ (Taking' <=> Taking)
      /\ UNCHANGED <<zmodemFileM, posM, stream, disk, lost, bufferM, inputFrameM>>
      /\ DiskInv'
  BY <1>1, PeerFrame
<1>3. phase = "sending" /\ UNCHANGED <<toTerminal, flavour, offer>>
  BY DEF SendBlock
<1>4. /\ \A i \in 1..Len(toTerminal) : toTerminal[i].type \notin {"ZRINIT", "ZSKIP", "ZRPOS"}
      /\ Alive => /\ LineInv /\ HolderInv /\ NoAsk(toTerminal) /\ No(Offers \cup {"ZACK"}, Inc)
                  /\ ~Greeting /\ ~(Hearing /\ inputFrameM.type = "ZACK")
  BY <1>3, NothingDue
<1>5. PICK d \in Answers : \E ts \in Seq(Answers) :
          /\ Says(ts) /\ ts # <<>> /\ ts[1] = d /\ \A i \in 1..Len(ts) : i > 1 => ts[i].type = "ZEOF"
          /\ Block(d, offer, at, phase') /\ at' = End(d) /\ (phase' = "sending" => Len(ts) = 1)
  BY BlockLemma
<1>6. PICK ts \in Seq(Answers) :
          /\ Says(ts) /\ ts # <<>> /\ ts[1] = d /\ \A i \in 1..Len(ts) : i > 1 => ts[i].type = "ZEOF"
          /\ Block(d, offer, at, phase') /\ at' = End(d) /\ (phase' = "sending" => Len(ts) = 1)
  BY <1>5
<1>7. PeerInv'
  <2>1. \A i \in 1..Len(toTerminal') : Due(toTerminal[i])'
    BY <1>3, <1>4 DEF Due
  <2> QED
    BY <1>1, <1>2, <1>3, <1>6, <2>1 DEF PeerInv, Streaming, Block
<1>8. ASSUME Alive PROVE LineInv' /\ HolderInv'
  <2>1. PICK u : u = Inc
    OBVIOUS
  <2>2. PICK v : v = Inc'
    OBVIOUS
  <2>3. u \in Seq(Wholes) /\ v \in Seq(Wholes) /\ Len(u) \in Nat /\ Len(v) \in Nat
    BY <2>1, <2>2, IncLemma, IncTypes
  <2>4. /\ Len(v) = Len(u) + Len(ts) /\ Len(ts) \in Nat /\ \A i \in 1..Len(u) : v[i] = u[i]
        /\ \A i \in 1..Len(ts) : v[Len(u) + i] = ts[i]
    BY <1>2, <1>6, <2>1, <2>2, SaysInc
  <2>5. Len(ts) >= 1
    BY <1>6, <2>4, EmptySeq
  <2>6. v[Len(u) + 1] = d
    BY <1>6, <2>4, <2>5
  <2>7. ASSUME NEW i \in 1..Len(v), i > Len(u) + 1 PROVE v[i].type = "ZEOF"
    <3>1. i - Len(u) \in 1..Len(ts) /\ i - Len(u) > 1 /\ Len(u) + (i - Len(u)) = i
      BY <2>3, <2>4, <2>7
    <3>2. PICK j \in 1..Len(ts) : j = i - Len(u)
      BY <3>1
    <3> QED
      BY <1>6, <2>4, <3>1, <3>2
  <2>8. Grown(u, v, d)
    <3>1. Len(v) > Len(u)
      BY <2>3, <2>4, <2>5
    <3> QED
      BY <2>4, <2>6, <2>7, <3>1 DEF Grown
  <2>9. phase' = "sending" => Len(v) = Len(u) + 1
    BY <1>6, <2>4
  <2>10. ASSUME NEW k \in 0..Len(u), NEW base, Chain(After(u, k), base)
         PROVE  Chain(After(Inc, k), base)'
    <3>1. Linked(After(u, k), base, offer, "sending", at)
      BY <1>3, <2>10 DEF Chain
    <3>2. /\ Grown(After(u, k), After(v, k), d)
          /\ After(u, k) \in Seq(Wholes) /\ After(v, k) \in Seq(Wholes)
      BY ONLY <2>3, <2>8, k \in 0..Len(u), GrownBehind
    <3>3. phase' = "sending" => Len(After(v, k)) = Len(After(u, k)) + 1
      <4>1. k \in 0..Len(v)
        BY ONLY <2>3, <2>8, k \in 0..Len(u), GrownBehind
      <4>2. Len(After(u, k)) = Len(u) - k
        BY ONLY <2>3, k \in 0..Len(u), AfterLemma
      <4>3. Len(After(v, k)) = Len(v) - k
        BY ONLY <2>3, <4>1, AfterLemma
      <4> QED
        BY <2>3, <2>9, <4>2, <4>3
    <3>4. PICK a \in Seq(Wholes) : a = After(u, k)
      BY <3>2
    <3>5. PICK b \in Seq(Wholes) : b = After(v, k)
      BY <3>2
    <3>6. PICK when : when = phase'
      OBVIOUS
    <3>7. PICK f : f = offer
      OBVIOUS
    <3>8. PICK pos : pos = at
      OBVIOUS
    <3>9. Grown(a, b, d) /\ Linked(a, base, f, "sending", pos) /\ Block(d, f, pos, when)
      BY <1>6, <3>1, <3>2, <3>4, <3>5, <3>6, <3>7, <3>8
    <3>10. when = "sending" => Len(b) = Len(a) + 1
      BY <3>3, <3>4, <3>5, <3>6
    <3>11. Linked(b, base, f, when, End(d))
      BY <3>9, <3>10, GrownLinked
    <3> QED
      BY <1>3, <1>6, <2>2, <3>5, <3>6, <3>7, <3>11 DEF Chain
  <2>11. ASSUME NEW i \in 1..Len(v)
         PROVE  \/ i \in 1..Len(u) /\ v[i] = u[i]
                \/ i = Len(u) + 1 /\ v[i] = d
                \/ i > Len(u) + 1 /\ v[i].type = "ZEOF"
    <3>1. i \in 1..Len(u) \/ i = Len(u) + 1 \/ i > Len(u) + 1
      BY <2>3
    <3> QED
      BY <2>4, <2>6, <2>7, <3>1
  <2>12. ASSUME NEW i \in 1..Len(u) PROVE Tells(u, i) /\ u[i].type \notin Offers \cup {"ZACK"}
    <3>1. Tells(Inc, i)
      BY <1>4, <1>8, <2>1 DEF LineInv
    <3> QED
      BY <1>4, <1>8, <2>1, <3>1 DEF No
  <2>13. Ordered(v)
    <3>1. ASSUME NEW i \in 1..Len(v), NEW j \in 1..Len(v), i < j,
                 v[i].type \in Replies, v[j].type \in Replies
          PROVE  v[i].type \in {"ZDATA", "DATA"} /\ v[j].type = "DATA"
      <4>1. "ZEOF" \notin Replies /\ Replies = Offers \cup {"ZACK", "ZDATA", "DATA"}
        BY DEF Replies, Offers
      <4>2. i \in 1..Len(u) /\ v[i] = u[i]
        BY <2>3, <2>11, <3>1, <4>1
      <4>3. v[i].type \in {"ZDATA", "DATA"}
        BY <2>12, <3>1, <4>1, <4>2
      <4>4. CASE j \in 1..Len(u)
        <5>1. v[j] = u[j] /\ Ordered(u)
          BY <1>4, <1>8, <2>1, <2>4, <4>4 DEF LineInv
        <5> QED
          BY <3>1, <4>2, <4>3, <4>4, <5>1 DEF Ordered
      <4>5. CASE j \notin 1..Len(u)
        BY <1>6, <2>11, <3>1, <4>1, <4>3, <4>5 DEF Block
      <4> QED
        BY <4>4, <4>5
    <3> QED
      BY <3>1 DEF Ordered
  <2>14. ASSUME NEW i \in 1..Len(v) PROVE Tells(Inc, i)'
    <3>1. CASE v[i].type \notin Replies
      BY <2>2, <3>1 DEF Tells, Replies, Offers
    <3>2. CASE i \in 1..Len(u)
      <4>1. v[i] = u[i] /\ i \in 0..Len(u)
        BY <2>4, <3>2
      <4>2. Tells(u, i) /\ v[i].type \notin Offers \cup {"ZACK"}
        BY <2>12, <3>2, <4>1
      <4>3. v[i].type = "ZDATA" => /\ zmodemFileM = offer /\ StartsAtEnd(v[i].arg)
                                   /\ stream = "open" => Chain(After(u, i), v[i].arg)
        BY <4>1, <4>2 DEF Tells
      <4>4. v[i].type = "ZDATA" => /\ zmodemFileM' = offer' /\ StartsAtEnd(v[i].arg)'
                                   /\ stream' = "open" => Chain(After(Inc, i), v[i].arg)'
        <5>1. StartsAtEnd(v[i].arg) => StartsAtEnd(v[i].arg)'
          BY <1>2, <1>3 DEF StartsAtEnd, Stored
        <5>2. Chain(After(u, i), v[i].arg) => Chain(After(Inc, i), v[i].arg)'
          BY <2>10, <4>1
        <5> QED
          BY <1>2, <1>3, <4>3, <5>1, <5>2
      <4>5. Streaming'
        BY <1>6 DEF Streaming, Block
      <4>6. PICK t : t = v[i]
        OBVIOUS
      <4>7. Inc'[i] = t
        BY <2>2, <4>6
      <4> QED
        BY <4>2, <4>4, <4>5, <4>6, <4>7 DEF Tells, Offers, StartsAtEnd, Chain, Stored
    <3>3. CASE v[i].type \in Replies /\ i \notin 1..Len(u)
      <4>1. "ZEOF" \notin Replies
        BY DEF Replies, Offers
      <4>2. v[i].type = "DATA"
        BY <1>6, <2>11, <3>3, <4>1 DEF Block
      <4>3. Streaming'
        BY <1>6 DEF Streaming, Block
      <4> QED
        BY <2>2, <4>2, <4>3 DEF Tells, Offers
    <3> QED
      BY <3>1, <3>2, <3>3
  <2>15. \A i \in 1..Len(toTerminal') : Means(toTerminal[i])'
    <3>1. NoAsk(toTerminal')
      BY <1>3, <1>4, <1>8
    <3> QED
      BY <3>1, NoneAsked
  <2>16. LineInv'
    BY <1>2, <1>3, <1>4, <1>8, <2>2, <2>13, <2>14, <2>15 DEF LineInv
  <2>17. No(Offers, v) /\ (No(Replies \ {"DATA"}, u) => No(Replies \ {"DATA"}, v))
    <3>1. "ZEOF" \notin Replies /\ Offers \subseteq Replies /\ "DATA" \notin Offers
      BY DEF Replies, Offers
    <3>2. ASSUME NEW i \in 1..Len(v)
          PROVE  v[i].type \notin Offers /\ (No(Replies \ {"DATA"}, u) => v[i].type \notin Replies \ {"DATA"})
      BY <1>6, <2>11, <2>12, <3>1 DEF No, Block
    <3> QED
      BY <3>2 DEF No
  <2>18. Going => /\ phase' \in {"offered", "sending", "eof"} /\ zmodemFileM' = offer'
                  /\ No(Offers, Inc') /\ No({"ZRINIT", "ZSKIP"}, toTerminal')
    BY <1>2, <1>3, <1>4, <1>6, <1>8, <2>2, <2>17 DEF HolderInv, Block
  <2>19. Taking => /\ Streaming' /\ zmodemFileM' = offer'
                   /\ NoAsk(toTerminal') /\ No(Replies \ {"DATA"}, Inc')
                   /\ stream' = "open" => StartsAtEnd(posM)' /\ Chain(Inc, posM)'
    <3>1. ASSUME Taking PROVE /\ zmodemFileM = offer /\ No(Replies \ {"DATA"}, u)
                              /\ stream = "open" => StartsAtEnd(posM) /\ Chain(u, posM)
      BY <1>4, <1>8, <2>1, <3>1 DEF HolderInv
    <3>2. Streaming' /\ (StartsAtEnd(posM) => StartsAtEnd(posM)')
      BY <1>2, <1>3, <1>6 DEF Streaming, StartsAtEnd, Stored, Block
    <3>3. Chain(u, posM) => Chain(Inc, posM)'
      <4>1. 0 \in 0..Len(u) /\ 0 \in 0..Len(v)
        BY <2>3
      <4>2. After(u, 0) = u
        BY ONLY <2>3, <4>1, AfterLemma
      <4>3. After(v, 0) = v
        BY ONLY <2>3, <4>1, AfterLemma
      <4>4. Chain(After(u, 0), posM) => Chain(After(Inc, 0), posM)'
        BY <1>2, <2>10, <4>1
      <4> QED
        BY <2>2, <4>2, <4>3, <4>4
    <3> QED
      BY <1>2, <1>3, <1>4, <1>8, <2>2, <2>17, <3>1, <3>2, <3>3
  <2>20. HolderInv'
    BY <1>2, <1>4, <1>8, <2>18, <2>19 DEF HolderInv
  <2> QED
    BY <2>16, <2>20
<1> QED
  BY <1>2, <1>7, <1>8 DEF ProtocolInv

-----------------------------------------------------------------------------
\* The goodbye of rz: it has left before.
LEMMA GetsZfinProtocol ==
    ASSUME ProtocolInv, LineTypeOK, UNCHANGED <<engineVars, fileVars, inputVars>>, GetsZfin
    PROVE  ProtocolInv'
<1>1. CallsInv /\ PeerInv /\ DiskInv /\ toTerminal \in Seq(Requests) /\ OneAsk(toTerminal)
  BY DEF ProtocolInv, PeerInv, LineTypeOK
<1>2. /\ toTerminal # <<>> /\ Head(toTerminal).type = "ZFIN" /\ toTerminal' = Tail(toTerminal)
      /\ phase' = "over" /\ UNCHANGED offer
  BY DEF GetsZfin, Gets
<1>3. /\ 1 \in 1..Len(toTerminal) /\ Head(toTerminal) = toTerminal[1] /\ OneAsk(toTerminal')
      /\ \A i \in 1..Len(toTerminal') : i + 1 \in 1..Len(toTerminal) /\ toTerminal'[i] = toTerminal[i + 1]
  BY <1>1, <1>2, HeadHeard
<1>4. ~Alive
  BY <1>1, <1>2, <1>3 DEF PeerInv, No
<1>5. CallsInv' /\ ~Alive' /\ DiskInv' /\ UNCHANGED <<disk, lost, zmodemFileM, stream>>
  BY <1>1, <1>4, PeerFrame
<1>6. ASSUME NEW i \in 1..Len(toTerminal') PROVE Due(toTerminal[i])'
  <2>1. PICK j \in 1..Len(toTerminal) : j = i + 1
    BY <1>3
  <2>2. PICK t : t = toTerminal[j]
    OBVIOUS
  <2>3. Due(t) /\ toTerminal'[i] = t
    BY <1>1, <1>3, <2>1, <2>2 DEF PeerInv
  <2> QED
    BY <1>2, <1>5, <2>3 DEF Due, Whole, MayGreet, Delivered
<1>7. PeerInv'
  BY <1>2, <1>3, <1>5, <1>6 DEF PeerInv, Streaming
<1> QED
  BY <1>5, <1>7 DEF ProtocolInv

\* Every step of the terminal.
LEMMA PeerProtocol ==
    ASSUME ProtocolInv, DataTypeOK, DataTypeOK', PeerStep
    PROVE  ProtocolInv'
<1>1. LineTypeOK /\ LineTypeOK' /\ SenderTypeOK /\ UNCHANGED <<engineVars, fileVars, inputVars>>
  BY DEF DataTypeOK, PeerStep
<1>2. CASE GetsZrinit \/ GetsZskip
  BY <1>1, <1>2, GetsZrinitProtocol
<1>3. CASE GetsZrpos
  BY <1>1, <1>3, GetsZrposProtocol
<1>4. CASE GetsQuestion
  BY <1>1, <1>4, GetsQuestionProtocol
<1>5. CASE Heartbeat \/ Offer \/ Finish
  BY <1>1, <1>5, UserProtocol
<1>6. CASE SendBlock
  BY <1>1, <1>6, SendBlockProtocol
<1>7. CASE GetsZfin
  BY <1>1, <1>7, GetsZfinProtocol
<1>8. CASE GetsOther("O") \/ GetsOther("DATA")
  <2>1. toTerminal # <<>> /\ toTerminal' = Tail(toTerminal) /\ UNCHANGED <<toProgram, senderVars>>
    BY <1>8 DEF GetsOther, Gets
  <2> QED
    BY <1>1, <2>1, IgnoresProtocol
<1> QED
  BY <1>2, <1>3, <1>4, <1>5, <1>6, <1>7, <1>8 DEF PeerStep, SenderActs, SenderStep

\* Every session function of rz.
LEMMA FunctionProtocol ==
    ASSUME ProtocolInv, StreamInv, EngineTypeOK, DataTypeOK, DataTypeOK', UNCHANGED senderVars,
           SessionFunction
    PROVE  ProtocolInv'
<1>1. CASE CommonFunction /\ UNCHANGED fileVars
  BY <1>1, OpeningProtocol, EndingProtocol, ParseProtocol DEF CommonFunction
<1>2. CASE SendPresetFiles \/ SendZrinit
  BY <1>2, PresetProtocol, SendZrinitProtocol
<1>3. CASE HandleZfile \/ WaitZdata \/ HandleZdata
  BY <1>3, HandleZfileProtocol, WaitZdataProtocol, HandleZdataProtocol
<1> QED
  BY <1>1, <1>2, <1>3 DEF SessionFunction

\* Every step preserves the invariant.
LEMMA ProtocolNext ==
    ProtocolInv /\ StreamInv /\ EngineTypeOK /\ DataTypeOK /\ [Next]_transferVars => ProtocolInv'
<1> SUFFICES ASSUME ProtocolInv, StreamInv, EngineTypeOK, DataTypeOK, [Next]_transferVars
             PROVE  ProtocolInv'
  OBVIOUS
<1>1. DataTypeOK'
  BY DataNext
<1>2. CASE RzThread
  <2>1. CASE EngineStep /\ UNCHANGED fileVars
    BY <1>1, <1>2, <2>1, EngineProtocol DEF RzThread
  <2>2. CASE EngineStep /\ deleted' # deleted /\ DeletesFile
    BY <1>1, <1>2, <2>2, DeletesProtocol DEF RzThread
  <2>3. CASE SessionFunction
    BY <1>1, <1>2, <2>3, FunctionProtocol DEF RzThread
  <2> QED
    BY <1>2, <2>1, <2>2, <2>3 DEF RzThread, ThreadStep
<1>3. CASE RzRead \/ RzSignal \/ RzTimer \/ Interrupt
  BY <1>1, <1>3, EngineProtocol DEF RzRead, RzSignal, RzTimer, Interrupt
<1>4. CASE PeerStep
  BY <1>1, <1>4, PeerProtocol
<1>5. CASE UNCHANGED transferVars
  <2>1. UNCHANGED <<engineVars, wireVars, inputVars, fileVars, senderVars>>
    BY <1>5 DEF transferVars, rzVars, sessionVars
  <2>2. CallsInv' /\ TurnsKept
    BY <2>1, TurnsStay DEF ProtocolInv
  <2>3. UNCHANGED <<flavour, phase, offer, at, zmodemFileM, posM, stream, disk, lost>>
    BY <2>1 DEF fileVars, senderVars
  <2> QED
    BY <1>1, <2>1, <2>2, <2>3, Silence DEF DataTypeOK
<1> QED
  BY <1>2, <1>3, <1>4, <1>5 DEF Next

\* It holds when the terminal has started rz.
LEMMA ProtocolInit == Init => ProtocolInv
<1> SUFFICES ASSUME Init PROVE ProtocolInv
  OBVIOUS
<1>1. /\ curState = "IDLE_STATE" /\ initialized = FALSE /\ deleted = FALSE /\ agenda = <<>>
      /\ worker = "poll" /\ jobs = <<"ENTRY_EVT">>
      /\ toProgram = <<>> /\ toTerminal = <<>> /\ bufferM = <<>> /\ inputFrameM.type = "ZRQINIT"
      /\ phase = "ready" /\ posM = 0 /\ disk \in OnDisk /\ offer \in Files
  BY RzAssumption, TransferAssumption
  DEF Init, RzInit, SessionInit, EngineInit, WireInit, SenderInit, Frame
<1>2. Len(agenda) = 0 /\ Len(toTerminal) = 0 /\ Len(jobs) = 1 /\ jobs[1] = "ENTRY_EVT"
  BY <1>1
<1>3. /\ \A i \in 1..Len(agenda) : FALSE
      /\ \A i \in 1..Len(toTerminal) : FALSE
      /\ \A i \in 1..Len(jobs) : i = 1 /\ jobs[i] = "ENTRY_EVT"
  BY ONLY <1>2
<1>4. \A k \in Turns : Holds(k) => k = "greet"
  BY <1>1, <1>3 DEF Holds, Called, Queued, TurnIn, Turns
<1>5. ~Going /\ ~Taking /\ ~Hearing
  BY <1>4 DEF Going, Taking, Hearing, Turns
<1>6. Inc = <<>>
  <2>1. Coming(toProgram) = <<>>
    BY <1>1 DEF Coming
  <2>2. Cores(bufferM) = <<>>
    <3>1. LineTypeOK
      BY DataInit DEF DataTypeOK
    <3>2. Cores(bufferM) \in Seq(Wholes) /\ Len(Cores(bufferM)) = Len(bufferM)
      BY <3>1, CoresLemma DEF LineTypeOK
    <3>3. Len(bufferM) = 0
      BY <1>1
    <3> QED
      BY <3>2, <3>3, EmptySeq
  <2> QED
    BY <2>1, <2>2 DEF Inc
<1>7. \A i \in 1..Len(Inc) : FALSE
  <2>1. Len(Inc) = 0
    BY <1>6
  <2> QED
    BY ONLY <2>1
<1>8. CallsInv
  <2>1. Booting
    BY <1>1 DEF Booting
  <2>2. ~Queued
    BY <1>3 DEF Queued
  <2> QED
    BY <1>1, <1>3, <1>5, <2>1, <2>2 DEF CallsInv, OneMove
<1>9. DiskInv
  <2>1. disk \in [Files -> [len : Nat, sound : BOOLEAN]]
        /\ \A f \in Files : disk[f].sound => disk[f].len <= Size[f]
    BY <1>1, RzAssumption
  <2>2. 0 \in Lengths
    BY <1>1, RzAssumption DEF Lengths
  <2>3. ASSUME NEW f \in Files PROVE disk[f].len \in Lengths
    <3>1. disk[f].len \in Nat /\ disk[f].len <= disk[f].len
      BY <2>1
    <3> QED
      BY <1>1, <3>1 DEF Lengths
  <2> QED
    BY <1>1, <2>1, <2>2, <2>3 DEF DiskInv
<1>10. PeerInv
  BY <1>1, <1>3, <1>9 DEF PeerInv, OneAsk, Streaming, No
<1>11. LineInv /\ HolderInv
  BY <1>1, <1>3, <1>5, <1>7 DEF LineInv, HolderInv, NoAsk, No, Ordered, MayGreet
<1> QED
  BY <1>8, <1>10, <1>11 DEF ProtocolInv

-----------------------------------------------------------------------------
(***************************************************************************)
(* What a step does to the file that is open and to the disk.              *)
(***************************************************************************)
FileStays == UNCHANGED <<zmodemFileM, stream, disk, tail, lost>>

\* It closes the file.
Closes ==
    /\ stream' = "closed" /\ tail' = 0
    /\ \E c \in Closed : disk' = c.disk /\ lost' = c.lost

\* It opens the file of the turn, with a sound part x of it, to be resumed or not.
StartsWith(c, x) ==
    /\ x.sound
    /\ disk' = [c.disk EXCEPT ![offer] = x] /\ lost' = c.lost
    /\ c.disk[offer].sound /\ flavour.version > 0 /\ ~signaled => x.len >= c.disk[offer].len
Starts ==
    /\ phase = "offered" /\ zmodemFileM' = offer /\ stream' = "open" /\ tail' = 0
    /\ \E c \in Closed, x \in Parts : StartsWith(c, x)

\* It makes x of the open file, by writing at its end.
AppendsTo(x) ==
    /\ x.sound
    /\ disk' = [disk EXCEPT ![offer] = x]
    /\ tail' \in Nat /\ tail' < Chunk /\ x.len - tail' >= disk[offer].len - tail
    /\ tail' > 0 => x.len = Size[offer]
Appends ==
    /\ phase \in {"sending", "eof"} /\ zmodemFileM = offer /\ stream = "open"
    /\ UNCHANGED <<zmodemFileM, stream, lost>>
    /\ \E x \in Parts : AppendsTo(x)

FileStep == FileStays \/ Closes \/ Starts \/ Appends

\* A part of no length is one.
LEMMA NoPart == [len |-> 0, sound |-> TRUE] \in Parts
<1>1. 0 \in Int
  OBVIOUS
<1> QED
  BY <1>1 DEF Parts

\* handleZfile closes the file before and opens the one named anew when there
\* is nothing of it to be resumed.
LEMMA HandleZfileFile ==
    ASSUME ProtocolInv, StreamInv, EngineTypeOK, DataTypeOK, HandleZfile
    PROVE  FileStep
<1>1. CallsInv /\ DiskInv /\ LineTypeOK /\ FileTypeOK /\ SenderTypeOK
  BY DEF ProtocolInv, PeerInv, DataTypeOK
<1>2. Running("handleZfile")
  BY DEF HandleZfile
<1>3. LineInv
  BY <1>1, <1>2, RunningLemma DEF Homes, Gone, Movers, ProtocolInv
<1>4. CASE UNCHANGED <<zmodemFileM, stream, disk, tail, lost>>
  BY <1>4 DEF FileStep, FileStays
<1>5. CASE /\ inputFrameM.type = "ZFILE" /\ Ready("NAME") /\ peerVersionM' = inputFrameM.arg
           /\ zmodemFileM' = Head(bufferM).arg
           /\ AnswersName(Head(bufferM).arg)
  <2>1. 1 \in 1..Len(Inc) /\ Inc[1] = Head(bufferM) /\ Inc[1].type = "NAME"
    <3>1. bufferM # <<>> /\ Head(bufferM).type = "NAME"
      BY <1>5 DEF Ready
    <3> QED
      BY <1>1, <3>1, HeadInc
  <2>2. phase = "offered" /\ Head(bufferM).arg = offer
    BY <1>3, <2>1 DEF LineInv, Tells, Offers
  <2>3. peerVersionM' = flavour.version /\ zmodemFileM' = offer
    BY <1>3, <1>5, <2>2 DEF LineInv
  <2>4. PICK c \in Closed : AnswersNameAs(offer, c)
    BY <1>5, <2>2 DEF AnswersName
  <2>5. /\ tail' = 0 /\ lost' = c.lost
        /\ \/ stream' = "closed" /\ disk' = c.disk
           \/ /\ ~(ExistLen(c.disk[offer]) > 0 /\ peerVersionM' > 0)
              /\ Opens(c.disk, offer, FALSE)
    BY <2>4, Zenon DEF AnswersNameAs
  <2>6. CASE stream' = "closed" /\ disk' = c.disk
    BY <2>5, <2>6 DEF FileStep, Closes
  <2>7. CASE /\ ~(ExistLen(c.disk[offer]) > 0 /\ peerVersionM' > 0)
             /\ stream' = "open" /\ disk' = Opened(c.disk, offer, FALSE)
    <3>1. c.disk[offer].len \in Nat
      BY <1>1, CutLemma DEF Lengths, SenderTypeOK
    <3>2. flavour.version > 0 /\ ~signaled => 0 >= c.disk[offer].len
      BY <2>3, <2>7, <3>1 DEF ExistLen
    <3>3. PICK x \in Parts : x = [len |-> 0, sound |-> TRUE]
      BY NoPart
    <3>4. StartsWith(c, x)
      BY <2>5, <2>7, <3>2, <3>3 DEF StartsWith, Opened
    <3> QED
      BY <2>2, <2>3, <2>5, <2>7, <3>4 DEF FileStep, Starts
  <2> QED
    BY <2>5, <2>6, <2>7 DEF Opens
<1> QED
  BY <1>4, <1>5, HandleZfileCases

\* waitZdata resumes a sound part where it ends, and one that is not anew.
LEMMA WaitZdataFile ==
    ASSUME ProtocolInv, StreamInv, EngineTypeOK, DataTypeOK, WaitZdata
    PROVE  FileStep
<1>1. CallsInv /\ DiskInv /\ LineTypeOK /\ FileTypeOK /\ SenderTypeOK
  BY DEF ProtocolInv, PeerInv, DataTypeOK
<1>2. Running("waitZdata") /\ UNCHANGED <<zmodemFileM, signaled>>
  BY DEF WaitZdata
<1>3. Alive /\ Holds("hear")
  BY <1>1, <1>2, RunningLemma DEF Homes, Gone, Movers, TurnOfFunc, Turns
<1>4. CASE UNCHANGED <<stream, disk, tail, lost>>
  BY <1>2, <1>4 DEF FileStep, FileStays
<1>5. CASE inputFrameM.type = "ZACK" /\ StartsAt(inputFrameM.arg)
  <2>1. PICK a : a = inputFrameM.arg
    OBVIOUS
  <2>2. AckFits(a)
    BY <1>3, <1>5, <2>1 DEF ProtocolInv, HolderInv, Hearing
  <2>3. /\ phase = "offered" /\ zmodemFileM = offer /\ stream = "closed" /\ a <= Size[offer]
        /\ a # 0 => disk[offer].sound /\ disk[offer].len = a
        /\ a = 0 /\ disk[offer].sound => disk[offer].len = 0
    BY <2>2 DEF AckFits, Stored
  <2>4. Size[offer] \in Nat /\ disk[offer].len \in Nat /\ a \in Int /\ disk[offer] \in Parts
    <3>1. a \in Int
      BY <1>1, <1>5, <2>1, TokensLemma DEF LineTypeOK, Frame
    <3> QED
      BY <1>1, <3>1, RzAssumption DEF DiskInv, Lengths, SenderTypeOK, FileTypeOK
  <2>5. a >= 0
    BY <2>3, <2>4
  <2>6. CASE a = Size[offer]
    <3>1. StartsAt(a) /\ ~IsGood /\ a = Size[zmodemFileM] /\ ~(a < Size[zmodemFileM])
      BY <1>5, <2>1, <2>3, <2>4, <2>6 DEF IsGood
    <3>2. UNCHANGED <<stream, disk, tail, lost>>
      BY ONLY <3>1 DEF StartsAt
    <3> QED
      BY <1>4, <3>2
  <2>7. CASE a < Size[offer]
    <3>1. StartsAt(a) /\ ~IsGood /\ a < Size[zmodemFileM] /\ a # Size[zmodemFileM]
      BY <1>5, <2>1, <2>3, <2>4, <2>7 DEF IsGood
    <3>2. OpenWrite(zmodemFileM, a > 0)
      BY ONLY <3>1 DEF StartsAt
    <3>3. PICK c \in Closed : Opens(c.disk, offer, a > 0) /\ tail' = 0 /\ lost' = c.lost
      BY <2>3, <3>2 DEF OpenWrite
    <3>4. CASE stream' = "closed" /\ disk' = c.disk
      BY <3>3, <3>4 DEF FileStep, Closes
    <3>5. CASE stream' = "open" /\ disk' = Opened(c.disk, offer, a > 0)
      <4>1. c.disk = disk /\ c.disk \in [Files -> Parts]
        BY <1>1, <2>3, ClosedAlready DEF FileTypeOK
      <4>2. PICK x \in Parts : x = IF a > 0 THEN disk[offer] ELSE [len |-> 0, sound |-> TRUE]
        BY <2>4, NoPart
      <4>3. disk' = [c.disk EXCEPT ![offer] = x]
        BY <3>5, <4>1, <4>2 DEF Opened
      <4>4. x.sound /\ (disk[offer].sound => x.len >= disk[offer].len)
        <5>1. CASE a > 0
          BY <2>3, <2>4, <4>2, <5>1
        <5>2. CASE ~(a > 0)
          <6>1. a = 0
            BY <2>4, <2>5, <5>2
          <6> QED
            BY <2>3, <2>4, <4>2, <6>1
        <5> QED
          BY <5>1, <5>2
      <4>5. StartsWith(c, x)
        BY <3>3, <4>1, <4>3, <4>4 DEF StartsWith
      <4> QED
        BY <1>2, <2>3, <3>3, <3>5, <4>5 DEF FileStep, Starts
    <3> QED
      BY <3>3, <3>4, <3>5 DEF Opens
  <2> QED
    BY <2>3, <2>4, <2>6, <2>7
<1> QED
  BY <1>4, <1>5 DEF WaitZdata

\* handleZdata writes at the end of a sound part what the terminal sent for
\* that place.  Less than a chunk is the end of the file.
LEMMA HandleZdataFile ==
    ASSUME ProtocolInv, StreamInv, EngineTypeOK, DataTypeOK, HandleZdata
    PROVE  FileStep
<1>1. CallsInv /\ DiskInv /\ LineTypeOK /\ FileTypeOK /\ SenderTypeOK
  BY DEF ProtocolInv, PeerInv, DataTypeOK
<1>2. Running("handleZdata") /\ UNCHANGED <<zmodemFileM, stream, lost>>
  BY DEF HandleZdata
<1>3. Alive /\ Holds("take")
  BY <1>1, <1>2, RunningLemma DEF Homes, Gone, Movers, TurnOfFunc, Turns
<1>4. CASE UNCHANGED <<disk, tail>>
  BY <1>2, <1>4 DEF FileStep, FileStays
<1>5. PICK data : data = Head(bufferM)
  OBVIOUS
<1>6. CASE /\ Ready("DATA")
           /\ \E w \in Write(data) : disk' = [disk EXCEPT ![zmodemFileM] = w.file] /\ tail' = w.tail
  <2>1. PICK w \in Write(data) : disk' = [disk EXCEPT ![zmodemFileM] = w.file] /\ tail' = w.tail
    BY <1>6
  <2>2. 1 \in 1..Len(Inc) /\ Inc[1] = data /\ data.type = "DATA" /\ data \in Answers
    <3>1. bufferM # <<>> /\ Head(bufferM).type = "DATA"
      BY <1>5, <1>6 DEF Ready
    <3> QED
      BY <1>1, <1>5, <3>1, HeadInc
  <2>3. /\ phase \in {"sending", "eof"} /\ zmodemFileM = offer
        /\ stream = "open" => StartsAtEnd(posM) /\ Chain(Inc, posM)
    BY <1>3 DEF ProtocolInv, HolderInv, Taking, Streaming
  <2>4. /\ disk \in [Files -> Parts] /\ offer \in Files /\ disk[offer].len \in Nat
        /\ disk[offer] \in Parts /\ data.len \in Int /\ Size[offer] \in Nat
        /\ tail \in Nat /\ tail < Chunk /\ Chunk \in Nat \ {0} /\ SBlock \in Nat /\ Chunk <= SBlock
    BY <1>1, <2>2, TokensLemma, RzAssumption, TransferAssumption
    DEF DiskInv, Lengths, FileTypeOK, SenderTypeOK, StreamInv
  <2>5. stream = "open" => /\ disk[offer].sound /\ disk[offer].len = posM
                           /\ data.of = offer /\ data.from = posM /\ data.len \in Nat
                           /\ posM + data.len <= Size[offer]
                           /\ data.len < SBlock => posM + data.len = Size[offer]
                           /\ tail > 0 => disk[offer].len = Size[offer]
    BY <2>2, <2>3 DEF StartsAtEnd, Stored, Chain, Linked, End, StreamInv
  <2>6. CASE stream = "open"
    <3> DEFINE had == disk[offer].len
    <3>1. PICK n \in Nat : /\ w.file = Extended(disk[offer], data, n)
                           /\ \/ w.tail = 0
                              \/ n = data.len /\ data.len < Chunk /\ w.tail = tail + data.len
      <4>1. CASE w.ok
        BY <2>3, <2>4, <2>5, <2>6, <4>1, WriteLemma
      <4>2. CASE ~w.ok
        <5>1. w.tail = 0 /\ \E n \in Int : /\ w.file = Extended(disk[offer], data, n)
                                           /\ n = 0 \/ n \in 0..data.len - 1
          BY <2>3, <2>4, <2>6, <4>2, WriteLemma
        <5>2. \A n \in Int : n = 0 \/ n \in 0..data.len - 1 => n \in Nat
          BY <2>4
        <5> QED
          BY <5>1, <5>2
      <4> QED
        BY <4>1, <4>2
    <3>2. w.file = [len |-> had + n, sound |-> TRUE]
      BY <2>3, <2>5, <2>6, <3>1 DEF Extended
    <3>3. had \in Nat /\ had = posM
      BY <2>4, <2>5, <2>6
    <3>4. PICK x \in Parts : x = w.file
      <4>1. had + n \in Int
        BY <2>4
      <4>2. [len |-> had + n, sound |-> TRUE] \in Parts
        BY ONLY <4>1 DEF Parts
      <4> QED
        BY ONLY <3>2, <4>2
    <3>5. x.sound /\ x.len = had + n
      BY <3>2, <3>4
    <3>6. tail' \in Nat /\ tail' < Chunk /\ x.len - tail' >= had - tail /\ (tail' > 0 => x.len = Size[offer])
      <4> HIDE DEF had
      <4>1. CASE w.tail = 0
        BY <2>1, <2>4, <3>3, <3>5, <4>1
      <4>2. CASE n = data.len /\ data.len < Chunk /\ w.tail = tail + data.len
        <5>1. had + data.len = Size[offer] /\ data.len \in Nat
          BY <2>4, <2>5, <2>6, <3>3, <4>2
        <5>2. tail > 0 => had = Size[offer]
          BY <2>5, <2>6 DEF had
        <5> QED
          BY <2>1, <2>4, <3>3, <3>5, <4>2, <5>1, <5>2
      <4> QED
        BY <3>1, <4>1, <4>2
    <3>7. AppendsTo(x)
      BY <2>1, <2>3, <3>4, <3>5, <3>6 DEF AppendsTo
    <3> QED
      BY <1>2, <2>3, <2>6, <3>7 DEF FileStep, Appends
  <2>7. CASE stream # "open"
    <3>1. w.file = Extended(disk[offer], data, 0) /\ w.tail = tail
      BY <2>3, <2>7 DEF Write
    <3>2. Extended(disk[offer], data, 0) = disk[offer]
      <4>1. disk[offer] = [len |-> disk[offer].len, sound |-> disk[offer].sound] /\ disk[offer].sound \in BOOLEAN
        BY <2>4 DEF Parts
      <4>2. disk[offer].len + 0 = disk[offer].len
        BY <2>4
      <4> QED
        BY <4>1, <4>2 DEF Extended
    <3>3. disk' = disk /\ tail' = tail
      BY <2>1, <2>3, <2>4, <3>1, <3>2
    <3> QED
      BY <1>4, <3>3
  <2> QED
    BY <2>6, <2>7
<1>7. \/ UNCHANGED <<disk, tail>>
      \/ /\ Ready("DATA")
         /\ \E w \in Write(data) : disk' = [disk EXCEPT ![zmodemFileM] = w.file] /\ tail' = w.tail
  BY <1>5 DEF HandleZdata
<1> QED
  BY <1>4, <1>6, <1>7

\* No other step touches the file, but the end of the session, which closes it.
LEMMA FileLemma ==
    ASSUME ProtocolInv, StreamInv, EngineTypeOK, DataTypeOK, [Next]_transferVars
    PROVE  FileStays \/ (UNCHANGED senderVars /\ FileStep)
<1>1. CASE RzThread
  <2>1. CASE UNCHANGED fileVars
    BY <2>1 DEF fileVars, FileStays
  <2>2. CASE DeletesFile
    <3>1. Closes
      BY <2>2 DEF DeletesFile, Closes
    <3> QED
      BY <1>1, <3>1 DEF RzThread, FileStep
  <2>3. CASE SendPresetFiles \/ SendZrinit
    BY <2>3 DEF SendPresetFiles, SendZrinit, fileVars, FileStays
  <2>4. CASE HandleZfile \/ WaitZdata \/ HandleZdata
    <3>1. FileStep
      BY <2>4, HandleZfileFile, WaitZdataFile, HandleZdataFile
    <3> QED
      BY <1>1, <3>1 DEF RzThread
  <2> QED
    BY <1>1, <2>1, <2>2, <2>3, <2>4 DEF RzThread, ThreadStep, SessionFunction
<1>2. CASE RzRead \/ RzSignal \/ RzTimer \/ Interrupt \/ PeerStep
  BY <1>2 DEF RzRead, RzSignal, RzTimer, Interrupt, PeerStep, fileVars, FileStays
<1>3. CASE UNCHANGED transferVars
  BY <1>3 DEF transferVars, rzVars, fileVars, FileStays
<1> QED
  BY <1>1, <1>2, <1>3 DEF Next

\* Closing it, its length and whether it is sound are of what was there.
LEMMA ClosesFile ==
    ASSUME ProtocolInv, StreamInv, DataTypeOK, NEW c \in Closed, NEW f \in Files
    PROVE  /\ c.disk[f].sound = disk[f].sound
           /\ stream = "closed" \/ f # zmodemFileM => c.disk[f] = disk[f]
           /\ Arrived(disk, lost, f) => Arrived(c.disk, c.lost, f)
           /\ c.disk[f].len \in Int /\ c.disk[f].len >= OnTheDisk(f)
           /\ c.disk \in [Files -> Parts]
           /\ c.disk[f] # disk[f] => disk[f].sound
<1>1. FileTypeOK /\ DiskInv
  BY DEF DataTypeOK, ProtocolInv, PeerInv
<1>2. c.disk \in [Files -> Parts] /\ c.disk[f].len \in Int
  BY <1>1, ClosedLemma DEF Parts
<1>3. /\ c.disk[f].sound = disk[f].sound
      /\ stream = "closed" \/ f # zmodemFileM => c.disk[f] = disk[f]
      /\ Arrived(disk, lost, f) => Arrived(c.disk, c.lost, f)
      /\ c.disk[f].len >= IF f = zmodemFileM THEN disk[f].len - tail ELSE disk[f].len
  BY <1>1, CutLemma
<1>4. c.disk[f] # disk[f] => disk[f].sound
  <2>1. c.disk[f] # disk[f] => f = zmodemFileM /\ stream = "open"
    BY <1>1, <1>3 DEF FileTypeOK
  <2> QED
    BY <2>1 DEF StreamInv
<1> QED
  BY <1>2, <1>3, <1>4 DEF OnTheDisk

\* What waits in the stream is the end of the file that is open.
LEMMA StreamNext ==
    StreamInv /\ ProtocolInv /\ EngineTypeOK /\ DataTypeOK /\ [Next]_transferVars => StreamInv'
<1> SUFFICES ASSUME StreamInv, ProtocolInv, EngineTypeOK, DataTypeOK, [Next]_transferVars
             PROVE  StreamInv'
  OBVIOUS
<1>1. Chunk \in Nat \ {0} /\ offer \in Files /\ disk \in [Files -> Parts]
  BY RzAssumption DEF DataTypeOK, SenderTypeOK, FileTypeOK
<1>2. CASE FileStays
  BY <1>2 DEF FileStays, StreamInv
<1>3. CASE Closes
  BY <1>1, <1>3 DEF Closes, StreamInv
<1>4. CASE Starts
  <2>1. PICK c \in Closed, x \in Parts : StartsWith(c, x)
    BY <1>4 DEF Starts
  <2>2. disk'[offer] = x /\ x.sound
    BY <1>1, <2>1, ClosesFile DEF StartsWith
  <2> QED
    BY <1>1, <1>4, <2>2 DEF Starts, StreamInv
<1>5. CASE Appends
  <2>1. PICK x \in Parts : AppendsTo(x)
    BY <1>5 DEF Appends
  <2>2. disk'[offer] = x /\ x.sound
    BY <1>1, <2>1 DEF AppendsTo
  <2> QED
    BY <1>1, <1>5, <2>1, <2>2 DEF Appends, AppendsTo, StreamInv
<1> QED
  BY <1>2, <1>3, <1>4, <1>5, FileLemma DEF FileStep

\* Nothing is open at the start.
LEMMA StreamInit == Init => StreamInv
BY RzAssumption DEF Init, RzInit, StreamInv

-----------------------------------------------------------------------------
(***************************************************************************)
(* What rz said of a file stays true.                                      *)
(***************************************************************************)

\* What says where a file starts, or that it is not wanted.
Fates == {"ZSKIP", "ZRPOS"}

\* What does not say so adds none to the line.
LEMMA NoFateSent ==
    ASSUME LineTypeOK, NEW ts \in Seq(Requests), Sends(ts), No(Fates, ts), No(Fates, toTerminal)
    PROVE  No(Fates, toTerminal')
<1>1. \A i \in 1..Len(toTerminal') :
          \/ \E k \in 1..Len(toTerminal) : toTerminal'[i] = toTerminal[k]
          \/ \E j \in 1..Len(ts) : toTerminal'[i] = ts[j]
  BY Requested
<1> QED
  BY <1>1 DEF No

\* Once the session is over for the terminal rz says nothing of a file.
LEMMA NoFateLater ==
    ASSUME ProtocolInv, EngineTypeOK, DataTypeOK, phase = "over",
           RzThread \/ RzRead \/ RzSignal \/ RzTimer \/ Interrupt, No(Fates, toTerminal)
    PROVE  No(Fates, toTerminal')
<1>1. CallsInv /\ ~Alive /\ LineTypeOK
  BY DEF ProtocolInv, PeerInv, DataTypeOK
<1>2. ASSUME NEW f \in {"handleZfile", "waitZdata", "handleZdata"} PROVE ~Running(f)
  <2>1. f \in Movers /\ Homes(f) \cap Gone = {}
    BY <1>2 DEF Movers, Homes, Gone
  <2> QED
    BY <1>1, <2>1, RunningLemma
<1>3. ~HandleZfile /\ ~WaitZdata /\ ~HandleZdata
  BY <1>2 DEF HandleZfile, WaitZdata, HandleZdata
<1>4. \A t : t.type \notin Fates => No(Fates, <<t>>)
  BY DEF No
<1>5. No(Fates, <<>>) /\ <<>> \in Seq(Requests) /\ 0 \in Int /\ 1 \in Int
  BY DEF No
<1>6. CASE UNCHANGED toTerminal
  BY <1>6
<1>7. CASE SendZrinit
  <2>1. PICK t : t = Frame("ZRINIT", 1)
    OBVIOUS
  <2>2. Sends(<<t>>) /\ t.type = "ZRINIT" /\ <<t>> \in Seq(Requests)
    <3>1. <<t>> \in Seq(Requests)
      BY <1>5, <2>1, RequestsLemma
    <3> QED
      BY <1>7, <2>1, <3>1 DEF SendZrinit, Frame
  <2>3. No(Fates, <<t>>)
    BY <1>4, <2>2 DEF Fates
  <2> QED
    BY <1>1, <2>2, <2>3, NoFateSent
<1>8. CASE SendZfin
  <2>1. PICK t : t = Frame("ZFIN", 0)
    OBVIOUS
  <2>2. Sends(<<t>>) /\ t.type = "ZFIN" /\ <<t>> \in Seq(Requests)
    <3>1. <<t>> \in Seq(Requests)
      BY <1>5, <2>1, RequestsLemma
    <3> QED
      BY <1>8, <2>1, <3>1 DEF SendZfin, Frame
  <2>3. No(Fates, <<t>>)
    BY <1>4, <2>2 DEF Fates
  <2> QED
    BY <1>1, <2>2, <2>3, NoFateSent
<1>9. CASE SendPresetFiles \/ SendClientWorkingDir
  <2>1. PICK t : t = Frame("ZCOMMAND", "preset paths")
    BY Zenon
  <2>2. PICK u : u = Frame("ZCOMMAND", "workdir")
    BY Zenon
  <2>3. t.type = "ZCOMMAND" /\ u.type = "ZCOMMAND"
    BY <2>1, <2>2 DEF Frame
  <2>4. <<t>> \in Seq(Requests) /\ <<u>> \in Seq(Requests)
    BY <2>1, <2>2, CommandsLemma, RequestsLemma, Zenon
  <2>5. Sends(<<>>) \/ Sends(<<t>>) \/ Sends(<<u>>)
    BY <1>9, <2>1, <2>2, Zenon DEF SendPresetFiles, SendClientWorkingDir
  <2>6. No(Fates, <<t>>) /\ No(Fates, <<u>>)
    BY <1>4, <2>3 DEF Fates
  <2> QED
    BY <1>1, <1>5, <2>4, <2>5, <2>6, NoFateSent
<1>10. CASE SendOO /\ ~UNCHANGED toTerminal
  <2>1. Sends(Farewell)
    BY <1>10 DEF SendOO, wireVars
  <2>2. Farewell \in Seq(Requests) /\ No(Fates, Farewell)
    BY RequestsLemma DEF Farewell, No, Fates
  <2> QED
    BY <1>1, <2>1, <2>2, NoFateSent
<1>11. CASE RzThread
  <2>1. CASE EngineStep
    BY <1>6, <2>1 DEF EngineStep, wireVars
  <2>2. CASE CommonFunction
    <3>1. CASE InitState \/ SendLeadingMsg \/ ParseFrame
      BY <1>6, <3>1 DEF InitState, SendLeadingMsg, ParseFrame, wireVars
    <3> QED
      BY <1>6, <1>8, <1>9, <1>10, <2>2, <3>1 DEF CommonFunction
  <2> QED
    BY <1>3, <1>7, <1>9, <1>11, <2>1, <2>2 DEF RzThread, ThreadStep, SessionFunction
<1>12. CASE RzRead \/ RzSignal \/ RzTimer \/ Interrupt
  BY <1>6, <1>12 DEF RzRead, RzSignal, RzTimer, Interrupt, ReadTick, SignalTick, SessionTimer, SigHandler,
                     wireVars
<1> QED
  BY <1>11, <1>12

\* A step that leaves the terminal as it is, but for the file of the turn.
LEMMA FateStays ==
    ASSUME FateInv, ProtocolInv, StreamInv, DataTypeOK, UNCHANGED senderVars, FileStep,
           phase = "offered" \/ (No(Fates, toTerminal) => No(Fates, toTerminal'))
    PROVE  FateInv'
<1>1. UNCHANGED <<phase, left, offer, done, skipped>>
  BY DEF senderVars
<1>2. (NamedOnce(left) /\ (done \cup skipped) \cap Left = {})'
  BY <1>1 DEF FateInv, Left
<1>3. (Streaming \/ phase = "offered" \/ ~No(Fates, toTerminal) =>
           offer \notin done \cup skipped \cup Left)'
  BY <1>1 DEF FateInv, Left, Streaming, Fates
<1>4. disk \in [Files -> Parts] /\ done \subseteq Files /\ skipped \subseteq Files /\ offer \in Files
  BY DEF DataTypeOK, FileTypeOK, SenderTypeOK
<1>5. ASSUME NEW f \in done \cup skipped
      PROVE  /\ Arrived(disk, lost, f) => Arrived(disk', lost', f)
             /\ f \in skipped => disk'[f] = disk[f]
  <2>1. CASE FileStays
    BY <2>1 DEF FileStays
  <2>2. ASSUME NEW c \in Closed
        PROVE  /\ Arrived(disk, lost, f) => Arrived(c.disk, c.lost, f)
               /\ f \in skipped => c.disk[f] = disk[f]
               /\ c.disk \in [Files -> Parts]
    <3>1. f \in skipped => stream = "closed" \/ f # zmodemFileM
      BY DEF FateInv
    <3> QED
      BY <1>4, <3>1, ClosesFile
  <2>3. CASE Closes
    BY <2>2, <2>3 DEF Closes
  <2>4. Starts \/ Appends => f # offer
    BY DEF Starts, Appends, FateInv, Streaming
  <2>5. CASE Starts
    <3>1. PICK c \in Closed, x \in Parts : StartsWith(c, x)
      BY <2>5 DEF Starts
    <3>2. disk'[f] = c.disk[f] /\ lost' = c.lost
      BY <1>4, <2>2, <2>4, <2>5, <3>1 DEF StartsWith
    <3> QED
      BY <2>2, <3>2 DEF Arrived
  <2>6. CASE Appends
    <3>1. PICK x \in Parts : AppendsTo(x)
      BY <2>6 DEF Appends
    <3>2. disk'[f] = disk[f] /\ lost' = lost
      BY <1>4, <2>4, <2>6, <3>1 DEF Appends, AppendsTo
    <3> QED
      BY <3>2 DEF Arrived
  <2> QED
    BY <2>1, <2>3, <2>5, <2>6 DEF FileStep
<1>6. AcknowledgedFilesAreWhole'
  BY <1>1, <1>5 DEF FateInv, AcknowledgedFilesAreWhole, Delivered, Arrived
<1>7. SkippedFilesAreWhole'
  BY <1>1, <1>5 DEF FateInv, SkippedFilesAreWhole, Whole
<1>8. zmodemFileM' \in skipped => stream' = "closed"
  <2>1. CASE FileStays \/ Closes
    BY <2>1 DEF FileStays, Closes, FateInv
  <2>2. CASE Starts \/ Appends
    BY <2>2 DEF Starts, Appends, FateInv, Streaming
  <2> QED
    BY <2>1, <2>2 DEF FileStep
<1> QED
  BY <1>1, <1>2, <1>3, <1>6, <1>7, <1>8 DEF FateInv, Fates

\* What rz does.
LEMMA RzFate ==
    ASSUME FateInv, ProtocolInv, StreamInv, EngineTypeOK, DataTypeOK, ProtocolInv',
           RzThread \/ RzRead \/ RzSignal \/ RzTimer \/ Interrupt
    PROVE  FateInv'
<1>1. UNCHANGED senderVars
  BY DEF RzThread, RzRead, RzSignal, RzTimer, Interrupt
<1>2. FileStep
  BY FileLemma DEF Next, FileStep
<1>3. ASSUME No(Fates, toTerminal), ~No(Fates, toTerminal') PROVE phase = "offered"
  <2>1. PICK i \in 1..Len(toTerminal') : toTerminal'[i].type \in Fates
    BY <1>3 DEF No
  <2>2. Due(toTerminal[i])'
    BY <2>1 DEF ProtocolInv, PeerInv
  <2>3. phase' \in {"offered", "over"}
    BY <2>1, <2>2 DEF Due, Fates
  <2>4. phase # "over"
    BY <1>3, NoFateLater
  <2> QED
    BY <1>1, <2>3, <2>4 DEF senderVars
<1> QED
  BY <1>1, <1>2, <1>3, FateStays

\* The terminal takes an answer: the file was received, or is not wanted.
LEMMA TakesFate ==
    ASSUME FateInv, ProtocolInv, LineTypeOK, UNCHANGED <<zmodemFileM, stream, disk, lost>>,
           GetsZrinit \/ GetsZskip
    PROVE  FateInv'
<1>1. UNCHANGED <<left, offer, zmodemFileM, stream, disk, lost>>
  BY DEF GetsZrinit, GetsZskip
<1>2. PICK type \in {"ZRINIT", "ZSKIP"} :
          /\ Gets(type)
          /\ type = "ZRINIT" =>
                 /\ phase' = IF phase \in {"ready", "eof"} THEN "choosing" ELSE phase
                 /\ done' = IF phase = "eof" THEN done \cup {offer} ELSE done
                 /\ skipped' = skipped
          /\ type = "ZSKIP" => phase' = "choosing" /\ skipped' = skipped \cup {offer} /\ done' = done
  BY DEF GetsZrinit, GetsZskip
<1>3. /\ NoAsk(toTerminal') /\ Head(toTerminal).type = type /\ Due(Head(toTerminal))
  BY <1>2, TakesOne
<1>4. No({"ZSKIP", "ZRPOS"}, toTerminal')
  <2>1. \A i \in 1..Len(toTerminal') : toTerminal'[i].type \notin {"ZSKIP", "ZRPOS"}
    BY <1>3, AsksLemma DEF NoAsk
  <2> QED
    BY <2>1 DEF No
<1>5. type = "ZRINIT" => phase \in {"over", "ready"} \/ (phase = "eof" /\ Delivered(offer))
  BY <1>2, <1>3 DEF Due, MayGreet
<1>6. type = "ZSKIP" => (Size[offer] > 0 => Whole(offer)) /\ zmodemFileM = offer /\ stream = "closed"
  BY <1>2, <1>3 DEF Due
<1>7. type = "ZSKIP" => ~No({"ZSKIP", "ZRPOS"}, toTerminal)
  <2>1. toTerminal # <<>> /\ toTerminal \in Seq(Requests)
    BY <1>2 DEF Gets, LineTypeOK
  <2>2. 1 \in 1..Len(toTerminal) /\ Head(toTerminal) = toTerminal[1]
    BY <2>1
  <2> QED
    BY <1>3, <2>2 DEF No
<1>8. phase' \in {"over", "choosing"}
  BY <1>2, <1>5
<1>9. ~(Streaming \/ phase = "offered" \/ ~No({"ZSKIP", "ZRPOS"}, toTerminal))'
  BY <1>4, <1>8 DEF Streaming
<1>10. phase = "eof" \/ type = "ZSKIP" => offer \notin Left
  BY <1>7 DEF FateInv, Streaming
<1>11. (NamedOnce(left) /\ (done \cup skipped) \cap Left = {})'
  BY <1>1, <1>2, <1>10 DEF FateInv, Left
<1>12. \A f : (Whole(f)' <=> Whole(f)) /\ (Delivered(f)' <=> Delivered(f))
  BY <1>1 DEF Whole, Delivered
<1>13. AcknowledgedFilesAreWhole'
  BY <1>2, <1>5, <1>12 DEF FateInv, AcknowledgedFilesAreWhole
<1>14. SkippedFilesAreWhole'
  BY <1>2, <1>6, <1>12 DEF FateInv, SkippedFilesAreWhole
<1>15. zmodemFileM' \in skipped' => stream' = "closed"
  BY <1>1, <1>2, <1>6 DEF FateInv
<1> QED
  BY <1>9, <1>11, <1>13, <1>14, <1>15 DEF FateInv

\* It offers the next file, which is another one.
LEMMA OffersFate ==
    ASSUME FateInv, ProtocolInv, SenderTypeOK, UNCHANGED <<zmodemFileM, stream, disk, lost>>, Offer
    PROVE  FateInv'
<1>1. /\ phase = "choosing" /\ left # <<>> /\ offer' = Head(left) /\ left' = Tail(left)
      /\ UNCHANGED <<done, skipped, zmodemFileM, stream, disk, lost>>
  BY DEF Offer
<1>2. left \in Seq(Files)
  BY DEF SenderTypeOK
<1>3. /\ 1 \in 1..Len(left) /\ Head(left) = left[1] /\ Len(left) \in Nat
      /\ Len(left') = Len(left) - 1
      /\ \A i \in 1..Len(left') : i + 1 \in 1..Len(left) /\ left'[i] = left[i + 1]
  BY <1>1, <1>2
<1>4. NamedOnce(left)'
  <2>1. ASSUME NEW i \in 1..Len(left'), NEW j \in 1..Len(left'), left'[i] = left'[j] PROVE i = j
    <3>1. PICK a \in 1..Len(left) : a = i + 1 /\ left'[i] = left[a]
      BY <1>3
    <3>2. PICK b \in 1..Len(left) : b = j + 1 /\ left'[j] = left[b]
      BY <1>3
    <3>3. a = b
      BY <2>1, <3>1, <3>2 DEF FateInv, NamedOnce
    <3> QED
      BY <3>1, <3>2, <3>3
  <2> QED
    BY <2>1 DEF NamedOnce
<1>5. offer' \notin Left' /\ offer' \in Left /\ Left' \subseteq Left
  <2>1. ASSUME NEW i \in 1..Len(left') PROVE left'[i] # offer' /\ left'[i] \in Left
    <3>1. i + 1 # 1
      OBVIOUS
    <3> QED
      BY <1>1, <1>3, <3>1 DEF FateInv, NamedOnce, Left
  <2> QED
    BY <1>1, <1>3, <2>1 DEF Left
<1>6. \A f : (Whole(f)' <=> Whole(f)) /\ (Delivered(f)' <=> Delivered(f))
  BY <1>1 DEF Whole, Delivered
<1>7. (AcknowledgedFilesAreWhole /\ SkippedFilesAreWhole)' /\ (zmodemFileM' \in skipped' => stream' = "closed")
  BY <1>1, <1>6 DEF FateInv, AcknowledgedFilesAreWhole, SkippedFilesAreWhole
<1>8. (done' \cup skipped') \cap Left' = {} /\ offer' \notin done' \cup skipped' \cup Left'
  BY <1>1, <1>5 DEF FateInv
<1> QED
  BY <1>4, <1>7, <1>8 DEF FateInv

\* What else it does.
LEMMA GoesOnFate ==
    ASSUME FateInv, ProtocolInv, LineTypeOK, UNCHANGED <<zmodemFileM, stream, disk, lost>>,
           UNCHANGED <<left, offer, done, skipped>>,
           \/ phase' \in {"offered", "sending", "eof"} => phase \in {"offered", "sending", "eof"}
           \/ ~No({"ZSKIP", "ZRPOS"}, toTerminal),
           No({"ZSKIP", "ZRPOS"}, toTerminal) => No({"ZSKIP", "ZRPOS"}, toTerminal')
    PROVE  FateInv'
<1>1. \A f : (Whole(f)' <=> Whole(f)) /\ (Delivered(f)' <=> Delivered(f))
  BY DEF Whole, Delivered
<1>2. (AcknowledgedFilesAreWhole /\ SkippedFilesAreWhole)' /\ (zmodemFileM' \in skipped' => stream' = "closed")
  BY <1>1 DEF FateInv, AcknowledgedFilesAreWhole, SkippedFilesAreWhole
<1>3. (NamedOnce(left) /\ (done \cup skipped) \cap Left = {})'
  BY DEF FateInv, Left
<1>4. (Streaming \/ phase = "offered" \/ ~No({"ZSKIP", "ZRPOS"}, toTerminal) =>
           offer \notin done \cup skipped \cup Left)'
  BY DEF FateInv, Left, Streaming
<1> QED
  BY <1>2, <1>3, <1>4 DEF FateInv

\* Every step of the terminal.
LEMMA PeerFate ==
    ASSUME FateInv, ProtocolInv, DataTypeOK, PeerStep
    PROVE  FateInv'
<1>1. LineTypeOK /\ SenderTypeOK /\ UNCHANGED <<zmodemFileM, stream, disk, lost>>
  BY DEF DataTypeOK, PeerStep, fileVars
<1>2. toTerminal \in Seq(Requests) /\ OneAsk(toTerminal)
  BY <1>1 DEF LineTypeOK, ProtocolInv, PeerInv
<1>3. toTerminal # <<>> /\ toTerminal' = Tail(toTerminal) =>
          (No({"ZSKIP", "ZRPOS"}, toTerminal) => No({"ZSKIP", "ZRPOS"}, toTerminal'))
  BY <1>2, HeadHeard
<1>4. CASE GetsZrinit \/ GetsZskip
  BY <1>1, <1>4, TakesFate
<1>5. CASE Offer
  BY <1>1, <1>5, OffersFate
<1>6. CASE Heartbeat \/ Finish \/ SendBlock
  BY <1>1, <1>6, GoesOnFate DEF Heartbeat, Finish, SendBlock
<1>7. CASE GetsZrpos
  <2>1. ~No({"ZSKIP", "ZRPOS"}, toTerminal)
    <3>1. toTerminal # <<>> /\ Head(toTerminal).type = "ZRPOS"
      BY <1>7 DEF GetsZrpos, Gets
    <3>2. 1 \in 1..Len(toTerminal) /\ Head(toTerminal) = toTerminal[1]
      BY <1>2, <3>1
    <3> QED
      BY <3>1, <3>2 DEF No
  <2> QED
    BY <1>1, <1>3, <1>7, <2>1, GoesOnFate DEF GetsZrpos, Gets
<1>8. CASE GetsZfin
  BY <1>1, <1>3, <1>8, GoesOnFate DEF GetsZfin, Gets
<1>9. CASE GetsOther("O") \/ GetsOther("DATA")
  BY <1>1, <1>3, <1>9, GoesOnFate DEF GetsOther, Gets, senderVars
<1>10. CASE GetsQuestion
  <2>1. /\ toTerminal # <<>> /\ UNCHANGED senderVars
        /\ toTerminal' = Tail(toTerminal) \/
               (Len(toTerminal) > 1 /\ toTerminal' = SubSeq(toTerminal, 3, Len(toTerminal)))
    <3>1. PICK asked \in BOOLEAN : asked = (Head(toTerminal).arg = "check last break")
      BY Zenon
    <3>2. /\ toTerminal # <<>> /\ UNCHANGED senderVars
          /\ asked => Len(toTerminal) > 1
          /\ toTerminal' = IF asked /\ toTerminal[2].type = "DATA"
                           THEN SubSeq(toTerminal, 3, Len(toTerminal)) ELSE Tail(toTerminal)
      BY <1>10, <3>1, Zenon DEF GetsQuestion
    <3> QED
      BY ONLY <3>2
  <2>2. ASSUME Len(toTerminal) > 1, toTerminal' = SubSeq(toTerminal, 3, Len(toTerminal)),
               No({"ZSKIP", "ZRPOS"}, toTerminal)
        PROVE  No({"ZSKIP", "ZRPOS"}, toTerminal')
    <3>1. PICK u \in Seq(Requests) : u = toTerminal
      BY <1>2
    <3>2. Len(u) \in Nat /\ 2 \in 0..Len(u) /\ toTerminal' = After(u, 2)
      BY <2>2, <3>1 DEF After
    <3>3. /\ Len(After(u, 2)) = Len(u) - 2
          /\ \A i \in 1..Len(u) - 2 : After(u, 2)[i] = u[2 + i]
      BY ONLY <3>1, <3>2, AfterLemma
    <3>4. ASSUME NEW i \in 1..Len(toTerminal') PROVE toTerminal'[i].type \notin {"ZSKIP", "ZRPOS"}
      <4>1. PICK j \in 1..Len(u) : j = 2 + i /\ toTerminal'[i] = u[j]
        BY <3>2, <3>3
      <4> QED
        BY <2>2, <3>1, <4>1 DEF No
    <3> QED
      BY <3>4 DEF No
  <2>3. UNCHANGED <<left, offer, done, skipped, phase>>
    BY <2>1 DEF senderVars
  <2> QED
    BY <1>1, <1>3, <2>1, <2>2, <2>3, GoesOnFate
<1> QED
  BY <1>4, <1>5, <1>6, <1>7, <1>8, <1>9, <1>10 DEF PeerStep, SenderActs, SenderStep

\* Every step.
LEMMA FateNext ==
    /\ FateInv /\ ProtocolInv /\ StreamInv /\ EngineTypeOK /\ DataTypeOK
    /\ ProtocolInv' /\ [Next]_transferVars
    => FateInv'
<1> SUFFICES ASSUME FateInv, ProtocolInv, StreamInv, EngineTypeOK, DataTypeOK, ProtocolInv',
                    [Next]_transferVars
             PROVE  FateInv'
  OBVIOUS
<1>1. CASE UNCHANGED transferVars
  <2>1. UNCHANGED <<senderVars, toTerminal>> /\ FileStep
    BY <1>1 DEF transferVars, rzVars, fileVars, sessionVars, wireVars, FileStep, FileStays
  <2> QED
    BY <2>1, FateStays
<1>2. CASE PeerStep
  BY <1>2, PeerFate
<1>3. CASE RzThread \/ RzRead \/ RzSignal \/ RzTimer \/ Interrupt
  BY <1>3, RzFate
<1> QED
  BY <1>1, <1>2, <1>3 DEF Next

\* No file has its fate at the start.
LEMMA FateInit ==
    ASSUME \A b \in Batches : NamedOnce(b), Init
    PROVE  FateInv
<1>1. /\ left \in Batches /\ phase = "ready" /\ done = {} /\ skipped = {} /\ toTerminal = <<>>
  BY DEF Init, SenderInit, RzInit, SessionInit, WireInit
<1>2. No({"ZSKIP", "ZRPOS"}, toTerminal) /\ ~Streaming
  BY <1>1 DEF No, Streaming
<1> QED
  BY <1>1, <1>2 DEF FateInv, AcknowledgedFilesAreWhole, SkippedFilesAreWhole

-----------------------------------------------------------------------------
(***************************************************************************)
(* The results for rz.                                                     *)
(***************************************************************************)

\* rz and the terminal take turns: rz (main/RzSession.cpp, the table of
\* RzSession.h and handleZfile, waitZdata and handleZdata of ZmodemSession.cpp)
\* asks for nothing before the last request is answered, the terminal answers
\* every request once, and the event that leads from handleZfile to the wait
\* for the answer is never queued twice.  What waits in the stream of the open
\* file is less than a chunk at the end of the file written in full.  For every
\* disk, batch of files and behaviour of the terminal, every cut, loss, failing
\* write or close, timer and signal.
THEOREM RzOneTurn == ProgramSpec => [](ProtocolInv /\ StreamInv)
<1>1. ProgramSpec => []DataTypeOK
  BY DataInit, DataNext, PTL DEF ProgramSpec
<1>2. ProgramSpec => []EngineTypeOK
  BY RzImplementsSkeleton, SkeletonTypes, PTL DEF ImplementsSkeleton
<1>3. ProtocolInv /\ StreamInv /\ EngineTypeOK /\ DataTypeOK /\ [Next]_transferVars
          => ProtocolInv' /\ StreamInv'
  BY ProtocolNext, StreamNext
<1> QED
  BY <1>1, <1>2, <1>3, ProtocolInit, StreamInit, PTL DEF ProgramSpec

\* Every variable of rz keeps its type.  The write position and the length of
\* each file on the disk stay within the longest file or what was on the disk
\* before, though ZmodemFile::write has no bound of its own, its check being
\* commented out (ZmodemFile.cpp:130-133): the positions of the data bound it.
THEOREM RzTypeCorrect == ProgramSpec => []RzTypeOK
<1>1. ProgramSpec => []DataTypeOK
  BY DataInit, DataNext, PTL DEF ProgramSpec
<1>2. ProgramSpec => []EngineTypeOK
  BY RzImplementsSkeleton, SkeletonTypes, PTL DEF ImplementsSkeleton
<1>3. ProtocolInv /\ StreamInv /\ DataTypeOK /\ EngineTypeOK => RzTypeOK
  <2> SUFFICES ASSUME ProtocolInv, StreamInv, DataTypeOK, EngineTypeOK PROVE RzTypeOK
    OBVIOUS
  <2>1. \A i \in 1..Len(bufferM) : bufferM[i].type \in TokenTypes
    BY TokensLemma, KindsDiffer, ElementOfSeq DEF DataTypeOK, LineTypeOK
  <2>2. disk \in [Files -> [len : Lengths, sound : BOOLEAN]]
    <3>1. disk \in [Files -> Parts] /\ \A f \in Files : disk[f].len \in Lengths
      BY DEF DataTypeOK, FileTypeOK, ProtocolInv, PeerInv, DiskInv
    <3>2. ASSUME NEW f \in Files PROVE disk[f] \in [len : Lengths, sound : BOOLEAN]
      <4>1. disk[f] = [len |-> disk[f].len, sound |-> disk[f].sound] /\ disk[f].sound \in BOOLEAN
        BY <3>1 DEF Parts
      <4> QED
        BY <3>1, <4>1
    <3> QED
      BY <3>1, <3>2
  <2>3. posM \in Lengths
    BY DEF ProtocolInv, PeerInv, DiskInv
  <2> QED
    BY <2>1, <2>2, <2>3 DEF DataTypeOK, LineTypeOK, FileTypeOK, RzTypeOK, SessionTypeOK, StreamInv
<1> QED
  BY <1>1, <1>2, <1>3, RzOneTurn, PTL

\* Whatever is cut, late, interrupted or failing, rz writes only what leaves the
\* file sound: each byte at the position the terminal sent it for, and nothing
\* behind a part that was not sound (handleZdata, openWrite in ZmodemFile.cpp).
THEOREM SoundGrowth == ProgramSpec => GrowsSoundly
<1>1. ProgramSpec => []DataTypeOK
  BY DataInit, DataNext, PTL DEF ProgramSpec
<1>2. ProgramSpec => []EngineTypeOK
  BY RzImplementsSkeleton, SkeletonTypes, PTL DEF ImplementsSkeleton
<1>3. ProtocolInv /\ StreamInv /\ EngineTypeOK /\ DataTypeOK /\ [Next]_transferVars =>
          [\A f \in Files : disk'[f] # disk[f] => disk'[f].sound]_transferVars
  <2> SUFFICES ASSUME ProtocolInv, StreamInv, EngineTypeOK, DataTypeOK, [Next]_transferVars,
                      NEW f \in Files, disk'[f] # disk[f]
               PROVE  disk'[f].sound
    OBVIOUS
  <2>1. disk \in [Files -> Parts] /\ FileStep
    BY FileLemma DEF DataTypeOK, FileTypeOK, FileStep
  <2>2. CASE FileStays
    BY <2>2 DEF FileStays
  <2>3. CASE Closes
    BY <2>3, ClosesFile DEF Closes
  <2>4. CASE Starts
    <3>1. PICK c \in Closed, x \in Parts : StartsWith(c, x)
      BY <2>4 DEF Starts
    <3>2. IF f = offer THEN disk'[f] = x /\ x.sound ELSE disk'[f] = c.disk[f]
      BY <3>1, ClosesFile DEF StartsWith
    <3> QED
      BY <3>2, ClosesFile
  <2>5. CASE Appends
    <3>1. PICK x \in Parts : AppendsTo(x)
      BY <2>5 DEF Appends
    <3> QED
      BY <2>1, <3>1 DEF AppendsTo
  <2> QED
    BY <2>1, <2>2, <2>3, <2>4, <2>5 DEF FileStep
<1> QED
  BY <1>1, <1>2, <1>3, RzOneTurn, PTL DEF ProgramSpec, GrowsSoundly

\* waitZdata opens a sound part to be resumed, never anew, handleZdata makes it
\* longer, and closing loses no more of it than waited in the stream: what is
\* sound on the disk is kept when the terminal knows how to resume and no signal
\* has come (ZmodemFile::getExistLen gives up on one, and handleZfile then begins
\* the file again).
THEOREM SoundPartsKept == ProgramSpec => SoundPartsAreKept
<1>1. ProgramSpec => []DataTypeOK
  BY DataInit, DataNext, PTL DEF ProgramSpec
<1>2. ProgramSpec => []EngineTypeOK
  BY RzImplementsSkeleton, SkeletonTypes, PTL DEF ImplementsSkeleton
<1>3. ProtocolInv /\ StreamInv /\ EngineTypeOK /\ DataTypeOK /\ [Next]_transferVars =>
          [\A f \in Files : (disk[f].sound /\ flavour.version > 0 /\ ~signaled)
               => OnTheDisk(f)' >= OnTheDisk(f)]_transferVars
  <2> SUFFICES ASSUME ProtocolInv, StreamInv, EngineTypeOK, DataTypeOK, [Next]_transferVars,
                      NEW f \in Files, disk[f].sound, flavour.version > 0, ~signaled
               PROVE  OnTheDisk(f)' >= OnTheDisk(f)
    OBVIOUS
  <2>1. /\ disk \in [Files -> Parts] /\ disk[f].len \in Int /\ tail \in Int /\ FileStep
        /\ OnTheDisk(f) \in Int
    BY FileLemma DEF DataTypeOK, FileTypeOK, Parts, FileStep, OnTheDisk
  <2>2. CASE FileStays
    BY <2>1, <2>2 DEF FileStays, OnTheDisk
  <2>3. tail' = 0 /\ disk'[f].len \in Int => OnTheDisk(f)' = disk'[f].len
    BY DEF OnTheDisk
  <2>4. CASE Closes
    <3>1. PICK c \in Closed : disk' = c.disk
      BY <2>4 DEF Closes
    <3>2. disk'[f].len \in Int /\ disk'[f].len >= OnTheDisk(f)
      BY <3>1, ClosesFile
    <3> QED
      BY <2>3, <2>4, <3>2 DEF Closes
  <2>5. CASE Starts
    <3>1. PICK c \in Closed, x \in Parts : StartsWith(c, x)
      BY <2>5 DEF Starts
    <3>2. /\ c.disk[f].len \in Int /\ c.disk[f].len >= OnTheDisk(f) /\ c.disk[f].sound
          /\ c.disk \in [Files -> Parts]
      BY ClosesFile
    <3>3. disk'[f].len \in Int /\ disk'[f].len >= c.disk[f].len
      <4>1. CASE f = offer
        <5>1. disk'[f] = x /\ x.len \in Int /\ x.len >= c.disk[f].len
          BY <3>1, <3>2, <4>1 DEF StartsWith, Parts
        <5> QED
          BY <5>1
      <4>2. CASE f # offer
        <5>1. disk'[f] = c.disk[f]
          BY <3>1, <3>2, <4>2 DEF StartsWith
        <5> QED
          BY <3>2, <5>1
      <4> QED
        BY <4>1, <4>2
    <3>4. OnTheDisk(f)' = disk'[f].len
      BY <2>3, <2>5, <3>3 DEF Starts
    <3> QED
      BY <2>1, <3>2, <3>3, <3>4
  <2>6. CASE Appends
    <3>1. PICK x \in Parts : AppendsTo(x)
      BY <2>6 DEF Appends
    <3>2. CASE f = offer
      <4>1. disk'[f] = x /\ x.len - tail' >= disk[f].len - tail
        BY <2>1, <3>1, <3>2 DEF AppendsTo
      <4> QED
        BY <2>6, <3>2, <4>1 DEF Appends, OnTheDisk
    <3>3. CASE f # offer
      <4>1. disk'[f] = disk[f] /\ f # zmodemFileM /\ f # zmodemFileM'
        BY <2>1, <2>6, <3>1, <3>3 DEF Appends, AppendsTo
      <4> QED
        BY <2>1, <4>1 DEF OnTheDisk
    <3> QED
      BY <3>2, <3>3
  <2> QED
    BY <2>1, <2>2, <2>4, <2>5, <2>6 DEF FileStep
<1> QED
  BY <1>1, <1>2, <1>3, RzOneTurn, PTL DEF ProgramSpec, SoundPartsAreKept

\* What rz said of a file stays true, when no batch names a file twice.
LEMMA FateKept ==
    ASSUME \A b \in Batches : NamedOnce(b)
    PROVE  ProgramSpec => []FateInv
<1>1. ProgramSpec => []DataTypeOK
  BY DataInit, DataNext, PTL DEF ProgramSpec
<1>2. ProgramSpec => []EngineTypeOK
  BY RzImplementsSkeleton, SkeletonTypes, PTL DEF ImplementsSkeleton
<1>3. Init => FateInv
  BY FateInit
<1>4. /\ FateInv /\ ProtocolInv /\ StreamInv /\ EngineTypeOK /\ DataTypeOK
      /\ ProtocolInv' /\ [Next]_transferVars
      => FateInv'
  BY FateNext
<1> QED
  BY <1>1, <1>2, <1>3, <1>4, RzOneTurn, PTL DEF ProgramSpec

\* A file rz acknowledges, by the ZRINIT that sendZrinit writes after a ZEOF, was
\* written in full, each byte at its place, and stays so, but for less than a
\* chunk at its end when the close that comes only after the ZRINIT fails
\* (~ZmodemFile, ZmodemFile.cpp:87-90, and openWrite, 119, do not look).  A file
\* that is in the batch twice is offered again and may be begun anew
\* (handleZfile): no batch may name one twice.
THEOREM AckedWhole ==
    ASSUME \A b \in Batches : NamedOnce(b)
    PROVE  ProgramSpec => []AcknowledgedFilesAreWhole
<1>1. FateInv => AcknowledgedFilesAreWhole
  BY DEF FateInv
<1> QED
  BY <1>1, FateKept, PTL

\* A file of some length that rz does not want, by the ZSKIP that waitZdata
\* writes, is on the disk in full.  Of a file of no length the answer 0 says
\* both that nothing of it is sound and that all of it is.
THEOREM SkippedWhole ==
    ASSUME \A b \in Batches : NamedOnce(b)
    PROVE  ProgramSpec => []SkippedFilesAreWhole
<1>1. FateInv => SkippedFilesAreWhole
  BY DEF FateInv
<1> QED
  BY <1>1, FateKept, PTL
=============================================================================
