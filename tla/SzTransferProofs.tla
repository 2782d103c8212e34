--------------------------- MODULE SzTransferProofs ---------------------------
(***************************************************************************)
(* Theorems about SzTransfer, for every set of files, every terminal and   *)
(* every line.  sz implements the control skeleton FsmSession, keeps its   *)
(* types and takes turns with the terminal (SzTurns); the files that the   *)
(* terminal closes as received are sound and, without a signal, whole.     *)
(***************************************************************************)
EXTENDS SzTurns, ZmodemSessionProofs

\* Every session function of sz.
LEMMA FunctionsMap == SessionFunction => Skeleton!SessionFunction
<1>1. SendZrqinit => Skeleton!SessionFunction
  BY ReturnsMaps, PostingMaps, PostsLemma DEF SendZrqinit
<1>2. SendZfile => Skeleton!SessionFunction
  BY ReturnsMaps, PostingMaps, PostsLemma DEF SendZfile
<1>3. HandleZfileRsp => Skeleton!SessionFunction
  BY ReturnsMaps, PostingMaps, PostsLemma DEF HandleZfileRsp
<1>4. SendZdata => Skeleton!SessionFunction
  BY ReturnsMaps, PostingMaps, PostsLemma DEF SendZdata
<1> QED
  BY <1>1, <1>2, <1>3, <1>4, CommonMaps DEF SessionFunction

-----------------------------------------------------------------------------
\* Every step of sz is a step of the skeleton, and the steps of the terminal
\* and the signal leave the engine alone: what FsmSessionProofs proves of the
\* skeleton holds of sz.
THEOREM SzImplementsSkeleton == ProgramSpec => ImplementsSkeleton
<1>1. Init => Skeleton!Init
  BY DEF Init, SzInit, SessionInit, EngineInit, Skeleton!Init, Skeleton!EngineInit, NoTimer,
         Skeleton!NoTimer
<1>2. [Next]_transferVars => [Skeleton!Next]_(Skeleton!engineVars)
  <2> SUFFICES ASSUME [Next]_transferVars
               PROVE  Skeleton!Next \/ UNCHANGED engineVars
    BY DEF engineVars, Skeleton!engineVars
  <2>1. CASE SzThread
    BY <2>1, WorkerMaps, CallsMap, FunctionsMap
    DEF SzThread, ThreadStep, EngineStep, Skeleton!Next, Skeleton!ThreadStep
  <2>2. CASE SzRead \/ SzSignal
    BY <2>2, TicksMap DEF SzRead, SzSignal, Skeleton!Next
  <2>3. CASE SzTimer
    BY <2>3, FireMaps DEF SzTimer, SessionTimer, Skeleton!Next
  <2>4. CASE Interrupt \/ PeerStep
    BY <2>4 DEF Interrupt, PeerStep, SigHandler
  <2>5. CASE UNCHANGED transferVars
    BY <2>5 DEF transferVars, szVars, sessionVars
  <2> QED
    BY <2>1, <2>2, <2>3, <2>4, <2>5 DEF Next
<1> QED
  BY <1>1, <1>2, PTL DEF ProgramSpec, ImplementsSkeleton, Skeleton!Safety

\* What is proved of the skeleton holds of sz: its thread stops only when the
\* session was freed and the terminal restored, a call on a freed session needs
\* a second DESTROY_EVT, a session timer belongs to the state that armed it, the
\* thread never waits without a deadline, no timer fires before initState, and
\* destroy() is final (Session.cpp:78-146, CppWorker.cpp:51-183).
THEOREM SzShutdown ==
    ProgramSpec =>
        /\ []Skeleton!StopsOnlyAfterDelete
        /\ []Skeleton!CrashNeedsSecondDestroy
        /\ []Skeleton!TimerOfCurrentState
        /\ []Skeleton!NeverWaitsForever
        /\ []Skeleton!TimersAfterInit
        /\ Skeleton!DestroyIsFinal
BY SzImplementsSkeleton, SkeletonHolds, PTL DEF ImplementsSkeleton

-----------------------------------------------------------------------------
(***************************************************************************)
(* The types of sz.  What sz parses is what the terminal wrote, so they    *)
(* rest on the types of both directions of the line, and on what the       *)
(* terminal has of the files.                                              *)
(***************************************************************************)

\* What sz and the terminal write.
Requests ==
    [type : {"ZRQINIT", "ZACK", "ZDATA", "ZEOF", "ZFIN"}, arg : Nat]
    \cup [type : {"ZFILE"}, arg : Files] \cup [type : {"ZCOMMAND"}, arg : {"workdir"}]
    \cup [type : {"DATA"}, from : Nat, len : Nat, end : {"ZCRCG", "ZCRCE"}] \cup [type : {"O"}]

Answers ==
    [type : {"ZRINIT", "ZHEARTBEAT", "ZSKIP", "ZRPOS", "ZFIN"}, arg : Nat]
    \cup [type : {"ZCOMMAND"}, arg : {"check last break"}]
    \cup [type : {"DATA"}, len : Nat, sound : BOOLEAN]

LineTypeOK ==
    /\ toTerminal \in Seq(Requests) /\ toProgram \in Lines(Answers)
    /\ bufferM \in Seq(Buffered(Answers))
    /\ inputFrameM \in Answers \cup {Frame("ZRQINIT", 0)} /\ inputFrameM.type \in HeaderTypes
    /\ signaled \in BOOLEAN

\* The read position is within the file, which an open stream has.
FileTypeOK ==
    /\ filesM \in Seq(Files) /\ zmodemFileM \in Files \cup {NoFile}
    /\ posM \in Positions /\ stream \in {"closed", "good", "end"}
    /\ stream # "closed" => zmodemFileM # NoFile

StoreTypeOK ==
    /\ store \in [Files -> [len : Nat, sound : BOOLEAN]]
    /\ offer \in Files /\ version \in Nat

DataTypeOK == LineTypeOK /\ FileTypeOK /\ StoreTypeOK

\* The tokens of both are whole.
LEMMA TokensLemma ==
    /\ Writable(Answers)
    /\ \A t \in Requests : /\ t.type = "ZFILE" => t.arg \in Files
                           /\ t.type = "ZACK" => t.arg \in Nat
                           /\ t.type = "DATA" => t.len \in Nat
    /\ \A t \in Answers : /\ t.type = "ZRPOS" => t.arg \in Nat
                          /\ t.type = "DATA" => t.len \in Nat
BY DEF Writable, HeaderTypes, Requests, Answers

\* What sz may send at once.
LEMMA RequestsLemma ==
    /\ \A n \in Nat : /\ <<Frame("ZRQINIT", n)>> \in Seq(Requests)
                      /\ <<Frame("ZACK", n)>> \in Seq(Requests)
                      /\ <<Frame("ZDATA", n)>> \in Seq(Requests)
                      /\ <<Frame("ZEOF", n)>> \in Seq(Requests)
                      /\ <<Frame("ZFIN", n)>> \in Seq(Requests)
    /\ \A f \in Files : <<Frame("ZFILE", f)>> \in Seq(Requests)
    /\ <<Frame("ZCOMMAND", "workdir")>> \in Seq(Requests)
    /\ \A from, len \in Nat : /\ <<Subpacket(from, len, "ZCRCG")>> \in Seq(Requests)
                              /\ <<Subpacket(from, len, "ZCRCE")>> \in Seq(Requests)
    /\ Farewell \in Seq(Requests)
<1>1. ASSUME NEW n \in Nat
      PROVE  /\ {Frame("ZRQINIT", n), Frame("ZACK", n), Frame("ZDATA", n)} \subseteq Requests
             /\ {Frame("ZEOF", n), Frame("ZFIN", n)} \subseteq Requests
  BY DEF Requests, Frame
<1>2. \A f \in Files : Frame("ZFILE", f) \in Requests
  BY DEF Requests, Frame
<1>3. Frame("ZCOMMAND", "workdir") \in Requests
  BY DEF Requests, Frame
<1>4. ASSUME NEW from \in Nat, NEW len \in Nat
      PROVE  {Subpacket(from, len, "ZCRCG"), Subpacket(from, len, "ZCRCE")} \subseteq Requests
  BY DEF Requests, Subpacket
<1>5. [type |-> "O"] \in Requests
  BY DEF Requests
<1>6. Farewell \in Seq(Requests)
  BY <1>5 DEF Farewell
<1> QED
  BY <1>1, <1>2, <1>3, <1>4, <1>6

\* And what the terminal may answer.
LEMMA AnswersLemma ==
    /\ \A n \in Nat : /\ <<Frame("ZRINIT", n)>> \in Seq(Answers)
                      /\ <<Frame("ZHEARTBEAT", n)>> \in Seq(Answers)
                      /\ <<Frame("ZSKIP", n)>> \in Seq(Answers)
                      /\ <<Frame("ZRPOS", n)>> \in Seq(Answers)
                      /\ <<Frame("ZFIN", n)>> \in Seq(Answers)
    /\ Frame("ZCOMMAND", "check last break") \in Answers
<1>1. ASSUME NEW n \in Nat
      PROVE  /\ Frame("ZRINIT", n) \in Answers /\ Frame("ZHEARTBEAT", n) \in Answers
             /\ Frame("ZSKIP", n) \in Answers /\ Frame("ZRPOS", n) \in Answers
             /\ Frame("ZFIN", n) \in Answers
  BY DEF Answers, Frame
<1>2. Frame("ZCOMMAND", "check last break") \in Answers
  BY DEF Answers, Frame
<1>3. \A t \in Answers : <<t>> \in Seq(Answers)
  OBVIOUS
<1> QED
  BY <1>1, <1>2, <1>3

\* Initially nothing is on the line, and no file is open.
LEMMA DataInit == Init => DataTypeOK
<1> SUFFICES ASSUME Init PROVE DataTypeOK
  OBVIOUS
<1>1. toTerminal = <<>> /\ toProgram = <<>> /\ bufferM = <<>>
  BY DEF Init, SzInit, SessionInit, WireInit
<1>2. <<>> \in Seq(Answers) /\ <<>> \in Lines(Answers)
  BY EmptySeq, LinesLemma
<1>3. /\ inputFrameM = Frame("ZRQINIT", 0) /\ inputFrameM.type \in HeaderTypes
      /\ signaled \in BOOLEAN
  BY DEF Init, SzInit, SessionInit, Frame, HeaderTypes
<1>4. LineTypeOK
  BY <1>1, <1>2, <1>3 DEF LineTypeOK
<1>5. FileTypeOK
  BY SzAssumption DEF Init, SzInit, FileTypeOK, Positions
<1>6. StoreTypeOK
  BY TransferAssumption DEF Init, TerminalInit, StoreTypeOK
<1> QED
  BY <1>4, <1>5, <1>6 DEF DataTypeOK

\* What sz sends is a request, and touches nothing else of the line.
LEMMA Sent ==
    ASSUME LineTypeOK, NEW ts \in Seq(Requests), Sends(ts), UNCHANGED <<inputVars, signaled>>
    PROVE  LineTypeOK'
<1>1. toTerminal' \in Seq(Requests) /\ toProgram' = toProgram
  BY SendsLemma DEF Sends, LineTypeOK
<1> QED
  BY <1>1 DEF LineTypeOK, inputVars

\* The functions that are in both tables.
LEMMA CommonTypes ==
    ASSUME LineTypeOK, CommonFunction
    PROVE  LineTypeOK'
<1> USE DEF wireVars, inputVars
<1>1. CASE InitState
  BY <1>1 DEF InitState, LineTypeOK
<1>2. CASE SendLeadingMsg
  BY <1>2 DEF SendLeadingMsg, LineTypeOK
<1>3. CASE SendClientWorkingDir
  <2>1. (IF ClientDir THEN <<Frame("ZCOMMAND", "workdir")>> ELSE <<>>) \in Seq(Requests)
    BY RequestsLemma
  <2> QED
    BY <1>3, <2>1, Sent DEF SendClientWorkingDir
<1>4. CASE SendZfin
  <2>1. <<Frame("ZFIN", 0)>> \in Seq(Requests)
    BY RequestsLemma
  <2> QED
    BY <1>4, <2>1, Sent DEF SendZfin
<1>5. CASE SendOO
  <2>1. CASE inputFrameM.type # "ZFIN"
    BY <1>5, <2>1 DEF SendOO, LineTypeOK
  <2>2. CASE inputFrameM.type = "ZFIN"
    BY <1>5, <2>2, RequestsLemma, Sent DEF SendOO
  <2> QED
    BY <2>1, <2>2
<1>6. CASE ParseFrame
  <2>1. PICK found \in Parsed(bufferM, inputFrameM) :
            bufferM' = found.left /\ inputFrameM' = found.frame
    BY <1>6 DEF ParseFrame
  <2>2. /\ found.left \in Seq(Buffered(Answers))
        /\ \/ found.frame = inputFrameM
           \/ found.frame \in Answers /\ found.frame.type \in HeaderTypes
    BY TokensLemma, FoundLemma DEF LineTypeOK
  <2> QED
    BY <1>6, <2>1, <2>2 DEF ParseFrame, LineTypeOK
<1> QED
  BY <1>1, <1>2, <1>3, <1>4, <1>5, <1>6 DEF CommonFunction

\* sendZrqinit writes to the line only.
LEMMA SendZrqinitTypes ==
    ASSUME DataTypeOK, SendZrqinit
    PROVE  LineTypeOK' /\ FileTypeOK'
<1>1. LineTypeOK /\ FileTypeOK /\ FileTypeOK'
  BY DEF DataTypeOK, SendZrqinit, fileVars, FileTypeOK, Positions
<1>2. CASE filesM = <<>>
  BY <1>1, <1>2 DEF SendZrqinit, LineTypeOK, wireVars, inputVars
<1>3. CASE filesM # <<>>
  <2>1. <<Frame("ZRQINIT", 0)>> \in Seq(Requests)
    BY RequestsLemma
  <2> QED
    BY <1>1, <1>3, <2>1, Sent DEF SendZrqinit
<1> QED
  BY <1>1, <1>2, <1>3

\* sendZfile takes the next file, at position 0 and not yet open.
LEMMA SendZfileTypes ==
    ASSUME DataTypeOK, SendZfile
    PROVE  LineTypeOK' /\ FileTypeOK'
<1>1. LineTypeOK /\ FileTypeOK
  BY DEF DataTypeOK
<1>2. CASE inputFrameM.type # "ZRINIT" \/ filesM = <<>>
  BY <1>1, <1>2 DEF SendZfile, LineTypeOK, FileTypeOK, Positions, wireVars, inputVars, fileVars
<1>3. CASE ~(inputFrameM.type # "ZRINIT" \/ filesM = <<>>)
  <2>1. Len(filesM) \in Nat \ {0} /\ Last(filesM) \in Files /\ Front(filesM) \in Seq(Files)
    BY <1>1, <1>3, EmptySeq, ElementOfSeq, SubSeqProperties DEF FileTypeOK, Last, Front
  <2>2. FileTypeOK'
    BY <1>3, <2>1, SzAssumption DEF SendZfile, FileTypeOK, Positions
  <2>3. <<Frame("ZFILE", Last(filesM))>> \in Seq(Requests)
    BY <2>1, RequestsLemma
  <2>4. UNCHANGED wireVars \/ Sends(<<Frame("ZFILE", Last(filesM))>>)
    BY <1>3 DEF SendZfile
  <2>5. LineTypeOK'
    <3>1. CASE UNCHANGED wireVars
      BY <1>1, <3>1 DEF SendZfile, LineTypeOK, wireVars, inputVars
    <3>2. CASE Sends(<<Frame("ZFILE", Last(filesM))>>)
      BY <1>1, <2>3, <3>2, Sent DEF SendZfile
    <3> QED
      BY <2>4, <3>1, <3>2
  <2> QED
    BY <2>2, <2>5
<1> QED
  BY <1>2, <1>3

\* The answers to ZFILE move the position of a file that is there, within it.
LEMMA HandleZfileRspTypes ==
    ASSUME DataTypeOK, HandleZfileRsp
    PROVE  LineTypeOK' /\ FileTypeOK'
<1>1. LineTypeOK /\ FileTypeOK
  BY DEF DataTypeOK
<1>2. UNCHANGED <<filesM, zmodemFileM, inputFrameM, signaled>>
  BY DEF HandleZfileRsp
<1>3. CASE UNCHANGED <<wireVars, posM, stream, bufferM>>
  BY <1>1, <1>2, <1>3 DEF LineTypeOK, FileTypeOK, Positions, wireVars
<1>4. CASE /\ zmodemFileM # NoFile /\ bufferM # <<>> /\ Head(bufferM).type = "DATA"
           /\ Sends(<<Frame("ZACK", ValidLen(Head(bufferM)))>>)
           /\ bufferM' = Tail(bufferM) /\ UNCHANGED <<posM, stream>>
  <2>1. Head(bufferM) \in Buffered(Answers) /\ Tail(bufferM) \in Seq(Buffered(Answers))
    BY <1>1, <1>4, HeadTailProperties DEF LineTypeOK
  <2>2. Head(bufferM).len \in Nat
    BY <1>4, <2>1, KindsDiffer, TokensLemma
  <2>3. <<Frame("ZACK", ValidLen(Head(bufferM)))>> \in Seq(Requests)
    BY <2>2, RequestsLemma DEF ValidLen
  <2>4. toTerminal' \in Seq(Requests) /\ toProgram' = toProgram
    BY <1>1, <1>4, <2>3, SendsLemma DEF Sends, LineTypeOK
  <2> QED
    BY <1>1, <1>2, <1>4, <2>1, <2>4 DEF LineTypeOK, FileTypeOK, Positions
<1>5. CASE /\ zmodemFileM # NoFile /\ inputFrameM.type = "ZRPOS"
           /\ posM' = Sought(inputFrameM.arg) /\ stream' = Opened
           /\ Sends(<<Frame("ZDATA", inputFrameM.arg)>>)
           /\ UNCHANGED bufferM
  <2>1. inputFrameM.arg \in Nat
    BY <1>1, <1>5, TokensLemma DEF LineTypeOK, Frame
  <2>2. <<Frame("ZDATA", inputFrameM.arg)>> \in Seq(Requests)
    BY <2>1, RequestsLemma
  <2>3. LineTypeOK'
    BY <1>1, <1>2, <1>5, <2>2, Sent DEF inputVars
  <2>4. zmodemFileM \in Files /\ Size[zmodemFileM] \in Nat
    BY <1>1, <1>5, SzAssumption DEF FileTypeOK
  <2>5. FileTypeOK'
    BY <1>1, <1>2, <1>5, <2>1, <2>4 DEF FileTypeOK, Positions, Sought, Opened
  <2> QED
    BY <2>3, <2>5
<1> QED
  BY <1>3, <1>4, <1>5 DEF HandleZfileRsp

\* sendZdata reads up to the end of the file.
LEMMA ReadTypes ==
    ASSUME FileTypeOK
    PROVE  ReadLen \in Nat /\ posM \in Nat /\ posM + ReadLen \in Positions
<1>1. CASE stream # "good"
  BY <1>1, SzAssumption DEF FileTypeOK, Positions, ReadLen
<1>2. CASE stream = "good"
  <2>1. zmodemFileM \in Files /\ Size[zmodemFileM] \in Nat /\ Block \in Nat \ {0}
        /\ zmodemFileM # NoFile
    BY <1>2, SzAssumption DEF FileTypeOK
  <2>2. posM \in 0..Size[zmodemFileM]
    BY <2>1 DEF FileTypeOK, Positions
  <2>3. ReadLen \in {Block, Size[zmodemFileM] - posM} /\ ReadLen <= Size[zmodemFileM] - posM
    BY <1>2, <2>1, <2>2, SmallerOfTwo DEF ReadLen
  <2> QED
    BY <2>1, <2>2, <2>3 DEF Positions
<1> QED
  BY <1>1, <1>2

\* sendZdata sends what it read, and perhaps the end.
LEMMA SendZdataTypes ==
    ASSUME DataTypeOK, SendZdata
    PROVE  LineTypeOK' /\ FileTypeOK'
<1>1. LineTypeOK /\ FileTypeOK
  BY DEF DataTypeOK
<1>2. ReadLen \in Nat /\ posM \in Nat /\ posM + ReadLen \in Positions
  BY <1>1, ReadTypes
<1>3. /\ posM' = posM + ReadLen /\ stream' \in {"end", stream}
      /\ stream' # "closed" => stream # "closed"
      /\ UNCHANGED <<filesM, zmodemFileM, inputVars>>
  BY DEF SendZdata
<1>4. FileTypeOK'
  BY <1>1, <1>2, <1>3 DEF FileTypeOK, Positions
<1>5. signaled' \in BOOLEAN
  BY <1>1 DEF SendZdata, LineTypeOK
<1>6. \A end \in {"ZCRCG", "ZCRCE"} : <<Subpacket(posM, ReadLen, end)>> \in Seq(Requests)
  BY <1>2, RequestsLemma
<1>7. <<Frame("ZEOF", posM')>> \in Seq(Requests)
  BY <1>2, <1>3, RequestsLemma
<1>8. PICK end \in {"ZCRCG", "ZCRCE"} :
        \/ Sends(<<Subpacket(posM, ReadLen, end)>>)
        \/ /\ \E sent \in Written(<<Subpacket(posM, ReadLen, end)>>, signaled),
                 eof \in Written(<<Frame("ZEOF", posM')>>, signaled') :
                  toTerminal' = toTerminal \o sent \o eof
           /\ UNCHANGED toProgram
  BY DEF SendZdata
<1>9. toTerminal' \in Seq(Requests) /\ toProgram' = toProgram
  <2>1. CASE Sends(<<Subpacket(posM, ReadLen, end)>>)
    BY <1>1, <1>6, <2>1, SendsLemma DEF Sends, LineTypeOK
  <2>2. CASE /\ \E sent \in Written(<<Subpacket(posM, ReadLen, end)>>, signaled),
                  eof \in Written(<<Frame("ZEOF", posM')>>, signaled') :
                   toTerminal' = toTerminal \o sent \o eof
             /\ UNCHANGED toProgram
    <3>1. PICK sent \in Written(<<Subpacket(posM, ReadLen, end)>>, signaled),
               eof \in Written(<<Frame("ZEOF", posM')>>, signaled') :
                   toTerminal' = toTerminal \o sent \o eof
      BY <2>2
    <3>2. sent \in Seq(Requests) /\ eof \in Seq(Requests)
      BY <1>6, <1>7, WrittenLemma
    <3>3. toTerminal \o sent \in Seq(Requests)
      BY <1>1, <3>2, ConcatProperties DEF LineTypeOK
    <3> QED
      BY <2>2, <3>1, <3>2, <3>3, ConcatProperties
  <2> QED
    BY <1>8, <2>1, <2>2
<1> QED
  BY <1>1, <1>3, <1>4, <1>5, <1>9 DEF LineTypeOK, inputVars

\* The thread of sz.
LEMMA ThreadTypes ==
    ASSUME DataTypeOK, ThreadStep
    PROVE  LineTypeOK' /\ FileTypeOK'
<1>1. LineTypeOK /\ FileTypeOK
  BY DEF DataTypeOK
<1>2. CASE EngineStep /\ UNCHANGED fileVars
  BY <1>1, <1>2 DEF EngineStep, wireVars, inputVars, fileVars, LineTypeOK, FileTypeOK, Positions
<1>3. CASE CommonFunction /\ UNCHANGED fileVars
  BY <1>1, <1>3, CommonTypes DEF fileVars, FileTypeOK, Positions
<1> QED
  BY <1>2, <1>3, SendZrqinitTypes, SendZfileTypes, HandleZfileRspTypes, SendZdataTypes
  DEF ThreadStep, SessionFunction

\* The tick of the input timer takes tokens off the line.
LEMMA ReadTickTypes ==
    ASSUME LineTypeOK, ReadTick
    PROVE  LineTypeOK'
<1>1. UNCHANGED <<toTerminal, inputFrameM, signaled>>
  BY DEF ReadTick
<1>2. CASE toProgram = <<>>
  BY <1>1, <1>2 DEF ReadTick, LineTypeOK
<1>3. CASE toProgram # <<>>
  <2>1. PICK r \in IF Splits THEN Reads(toProgram) ELSE {[taken |-> toProgram, left |-> <<>>]} :
            bufferM' = Received(bufferM, r.taken) /\ toProgram' = r.left
    BY <1>3 DEF ReadTick
  <2>2. r.taken \in Lines(Buffered(Answers)) /\ r.left \in Lines(Answers)
    <3>1. CASE Splits
      BY <2>1, <3>1, TokensLemma, ReadsLemma DEF LineTypeOK
    <3>2. CASE ~Splits
      <4>1. <<>> \in Lines(Answers)
        BY EmptySeq, LinesLemma
      <4>2. r.taken = toProgram /\ r.left = <<>>
        BY <2>1, <3>2
      <4> QED
        BY <4>1, <4>2, BufferedLines DEF LineTypeOK
    <3> QED
      BY <3>1, <3>2
  <2>3. bufferM' \in Seq(Buffered(Answers))
    BY <2>1, <2>2, TokensLemma, ReceivedLemma DEF LineTypeOK
  <2> QED
    BY <1>1, <2>1, <2>2, <2>3 DEF LineTypeOK
<1> QED
  BY <1>2, <1>3

\* The terminal answers in its own tokens.
LEMMA RepliesTypes ==
    ASSUME LineTypeOK, NEW ts \in Seq(Answers), Replies(ts), UNCHANGED <<inputVars, signaled>>,
           toTerminal' \in Seq(Requests)
    PROVE  LineTypeOK'
<1>1. toProgram' \in Lines(Answers)
  BY LinesLemma DEF Replies, LineTypeOK
<1> QED
  BY <1>1 DEF LineTypeOK, inputVars

\* What the terminal takes off the line.
LEMMA GetsTypes ==
    ASSUME LineTypeOK, NEW type, Gets(type)
    PROVE  /\ Head(toTerminal) \in Requests /\ Head(toTerminal).type = type
           /\ toTerminal' \in Seq(Requests)
BY HeadTailProperties DEF Gets, LineTypeOK

\* The terminal writes its answers, and data to the file offered.
LEMMA PeerTypes ==
    ASSUME DataTypeOK, PeerStep
    PROVE  LineTypeOK' /\ StoreTypeOK'
<1>1. LineTypeOK /\ StoreTypeOK /\ UNCHANGED <<inputVars, signaled>>
  BY DEF DataTypeOK, PeerStep
<1>2. /\ store[offer] \in [len : Nat, sound : BOOLEAN] /\ offer \in Files /\ version \in Nat
      /\ store[offer].len \in Nat /\ store[offer].sound \in BOOLEAN
  BY <1>1 DEF StoreTypeOK
<1>3. ASSUME NEW from \in Nat, Starts(from), UNCHANGED <<offer, version>>,
             toTerminal' \in Seq(Requests)
      PROVE  LineTypeOK' /\ StoreTypeOK'
  <2>1. <<Frame("ZRPOS", from)>> \in Seq(Answers)
    BY AnswersLemma
  <2>2. LineTypeOK'
    BY <1>1, <1>3, <2>1, RepliesTypes DEF Starts
  <2> QED
    BY <1>1, <1>3, <2>2 DEF Starts, StoreTypeOK
<1>4. ASSUME UNCHANGED <<offer, store, version>>, NEW ts \in Seq(Answers), Replies(ts),
             toTerminal' \in Seq(Requests)
      PROVE  LineTypeOK' /\ StoreTypeOK'
  BY <1>1, <1>4, RepliesTypes DEF StoreTypeOK
<1>5. ASSUME UNCHANGED <<offer, store, version, toProgram>>, toTerminal' \in Seq(Requests)
      PROVE  LineTypeOK' /\ StoreTypeOK'
  BY <1>1, <1>5 DEF StoreTypeOK, LineTypeOK, inputVars
<1>6. toTerminal \in Seq(Requests)
  BY <1>1 DEF LineTypeOK
<1>7. CASE Heartbeat
  <2>1. <<Frame("ZHEARTBEAT", 0)>> \in Seq(Answers)
    BY AnswersLemma
  <2> QED
    BY <1>4, <1>6, <1>7, <2>1 DEF Heartbeat
<1>8. CASE TerminalStep
  <2>1. UNCHANGED version
    BY <1>8 DEF TerminalStep
  <2>2. CASE GetsZrqinit
    <3>1. <<Frame("ZRINIT", version)>> \in Seq(Answers)
      BY <1>2, AnswersLemma
    <3> QED
      BY <1>1, <1>4, <2>1, <2>2, <3>1, GetsTypes DEF GetsZrqinit
  <2>3. CASE GetsZfile
    <3>1. Head(toTerminal).arg \in Files /\ toTerminal' \in Seq(Requests)
      BY <1>1, <2>3, GetsTypes, TokensLemma DEF GetsZfile
    <3> QED
      BY <1>1, <2>1, <2>3, <3>1 DEF GetsZfile, LineTypeOK, StoreTypeOK, inputVars
  <2>4. CASE Refuse
    <3>1. <<Frame("ZSKIP", 0)>> \in Seq(Answers)
      BY AnswersLemma
    <3> QED
      BY <1>4, <1>6, <2>1, <2>4, <3>1 DEF Refuse
  <2>5. CASE Accept
    BY <1>3, <1>6, <2>1, <2>5 DEF Accept
  <2>6. CASE AskToResume
    <3> DEFINE c == Frame("ZCOMMAND", "check last break")
               d == [type |-> "DATA", len |-> store[offer].len, sound |-> store[offer].sound]
    <3>1. c \in Answers /\ d \in Answers
      BY <1>2, AnswersLemma DEF Answers
    <3>2. UNCHANGED <<offer, store, toTerminal>> /\ Replies(<<c, d>>)
      BY <2>6 DEF AskToResume
    <3> HIDE DEF c, d
    <3>3. <<c, d>> \in Seq(Answers)
      BY <3>1
    <3> QED
      BY <1>4, <1>6, <2>1, <3>2, <3>3
  <2>7. CASE GetsZack
    <3>1. Head(toTerminal).arg \in Nat /\ toTerminal' \in Seq(Requests)
      BY <1>1, <2>7, GetsTypes, TokensLemma DEF GetsZack
    <3>2. <<Frame("ZSKIP", 0)>> \in Seq(Answers)
      BY AnswersLemma
    <3>3. CASE UNCHANGED <<toProgram, store>>
      BY <1>5, <2>1, <2>7, <3>1, <3>3 DEF GetsZack
    <3>4. CASE Replies(<<Frame("ZSKIP", 0)>>) /\ UNCHANGED store
      BY <1>4, <2>1, <2>7, <3>1, <3>2, <3>4 DEF GetsZack
    <3>5. CASE Starts(Head(toTerminal).arg)
      BY <1>3, <2>1, <2>7, <3>1, <3>5 DEF GetsZack
    <3> QED
      BY <2>7, <3>3, <3>4, <3>5 DEF GetsZack
  <2>8. CASE GetsZdata
    <3>1. toTerminal' \in Seq(Requests)
      BY <1>1, <2>8, GetsTypes DEF GetsZdata
    <3>2. <<Frame("ZRPOS", store[offer].len)>> \in Seq(Answers)
      BY <1>2, AnswersLemma
    <3>3. CASE UNCHANGED toProgram
      BY <1>5, <2>1, <2>8, <3>1, <3>3 DEF GetsZdata
    <3>4. CASE Replies(<<Frame("ZRPOS", store[offer].len)>>)
      BY <1>4, <2>1, <2>8, <3>1, <3>2, <3>4 DEF GetsZdata
    <3> QED
      BY <2>8, <3>3, <3>4 DEF GetsZdata
  <2>9. CASE GetsSubpacket
    <3>1. Head(toTerminal).len \in Nat /\ toTerminal' \in Seq(Requests)
      BY <1>1, <2>9, GetsTypes, TokensLemma DEF GetsSubpacket
    <3>2. CASE UNCHANGED store
      BY <1>5, <2>1, <2>9, <3>1, <3>2 DEF GetsSubpacket
    <3>3. CASE store' = [store EXCEPT ![offer] =
                   [len |-> @.len + Head(toTerminal).len,
                    sound |-> @.sound /\ Head(toTerminal).from = @.len]]
      <4>1. [len |-> store[offer].len + Head(toTerminal).len,
             sound |-> store[offer].sound /\ Head(toTerminal).from = store[offer].len]
                \in [len : Nat, sound : BOOLEAN]
        BY <1>2, <3>1
      <4> QED
        BY <1>1, <2>1, <2>9, <3>1, <3>3, <4>1 DEF GetsSubpacket, LineTypeOK, StoreTypeOK, inputVars
    <3> QED
      BY <2>9, <3>2, <3>3 DEF GetsSubpacket
  <2>10. CASE GetsZeof
    <3>1. toTerminal' \in Seq(Requests)
      BY <1>1, <2>10, GetsTypes DEF GetsZeof
    <3>2. <<Frame("ZRINIT", version)>> \in Seq(Answers)
      BY <1>2, AnswersLemma
    <3>3. CASE UNCHANGED toProgram
      BY <1>5, <2>1, <2>10, <3>1, <3>3 DEF GetsZeof
    <3>4. CASE Replies(<<Frame("ZRINIT", version)>>)
      BY <1>4, <2>1, <2>10, <3>1, <3>2, <3>4 DEF GetsZeof
    <3> QED
      BY <2>10, <3>3, <3>4 DEF GetsZeof
  <2>11. CASE GetsZfin
    <3>1. <<Frame("ZFIN", 0)>> \in Seq(Answers)
      BY AnswersLemma
    <3> QED
      BY <1>1, <1>4, <2>1, <2>11, <3>1, GetsTypes DEF GetsZfin
  <2>12. CASE GetsOther("ZCOMMAND") \/ GetsOther("O")
    BY <1>1, <1>5, <2>1, <2>12, GetsTypes DEF GetsOther
  <2> QED
    BY <1>8, <2>2, <2>3, <2>4, <2>5, <2>6, <2>7, <2>8, <2>9, <2>10, <2>11, <2>12 DEF TerminalStep
<1> QED
  BY <1>7, <1>8 DEF PeerStep

\* Every step keeps the types.
LEMMA DataNext == DataTypeOK /\ [Next]_transferVars => DataTypeOK'
<1> SUFFICES ASSUME DataTypeOK, [Next]_transferVars PROVE DataTypeOK'
  OBVIOUS
<1>1. LineTypeOK /\ FileTypeOK /\ StoreTypeOK
  BY DEF DataTypeOK
<1>2. UNCHANGED fileVars => FileTypeOK'
  BY <1>1 DEF fileVars, FileTypeOK, Positions
<1>3. UNCHANGED termVars => StoreTypeOK'
  BY <1>1 DEF termVars, StoreTypeOK
<1>4. UNCHANGED <<wireVars, inputVars, signaled>> => LineTypeOK'
  BY <1>1 DEF wireVars, inputVars, LineTypeOK
<1>5. CASE SzThread
  BY <1>3, <1>5, ThreadTypes DEF SzThread, DataTypeOK
<1>6. CASE SzRead
  BY <1>1, <1>2, <1>3, <1>6, ReadTickTypes DEF SzRead, DataTypeOK
<1>7. CASE SzSignal
  BY <1>2, <1>3, <1>4, <1>7 DEF SzSignal, SignalTick, DataTypeOK
<1>8. CASE SzTimer
  BY <1>2, <1>3, <1>4, <1>8 DEF SzTimer, SessionTimer, DataTypeOK
<1>9. CASE Interrupt
  BY <1>1, <1>2, <1>3, <1>9 DEF Interrupt, SigHandler, DataTypeOK, LineTypeOK, wireVars, inputVars
<1>10. CASE PeerStep
  BY <1>2, <1>10, PeerTypes DEF PeerStep, DataTypeOK
<1>11. CASE UNCHANGED transferVars
  BY <1>2, <1>3, <1>4, <1>11 DEF transferVars, szVars, sessionVars, DataTypeOK
<1> QED
  BY <1>5, <1>6, <1>7, <1>8, <1>9, <1>10, <1>11 DEF Next

\* Every variable of sz keeps its type, whatever is cut, late or interrupted: the
\* read position stays within the file being sent, whatever position the
\* terminal asks for and whatever a last, short read returns (ZmodemFile.cpp:
\* 150-213), and every frame handled is one the terminal wrote.  The types of
\* the engine are those of the skeleton.
THEOREM SzTypeCorrect == ProgramSpec => []SzTypeOK
<1>1. ProgramSpec => []DataTypeOK
  BY DataInit, DataNext, PTL DEF ProgramSpec
<1>2. ProgramSpec => []EngineTypeOK
  BY SzImplementsSkeleton, SkeletonTypes, PTL DEF ImplementsSkeleton
<1>3. DataTypeOK /\ EngineTypeOK => SzTypeOK
  <2> SUFFICES ASSUME DataTypeOK, EngineTypeOK PROVE SzTypeOK
    OBVIOUS
  <2>1. \A i \in 1..Len(bufferM) : bufferM[i].type \in TokenTypes
    BY TokensLemma, KindsDiffer, ElementOfSeq DEF DataTypeOK, LineTypeOK
  <2> QED
    BY <2>1 DEF DataTypeOK, LineTypeOK, FileTypeOK, SzTypeOK, SessionTypeOK
<1> QED
  BY <1>1, <1>2, <1>3, PTL

-----------------------------------------------------------------------------
(***************************************************************************)
(* The calls of sz.  One call at most can lead to another turn (OneMove):  *)
(* the table says where each event leads, and so does each step of the     *)
(* engine.                                                                 *)
(***************************************************************************)

\* The table of sz, state by state.
LEMMA TableOf ==
    /\ Table["IDLE_STATE"]["ENTRY_EVT"] = <<SeFunc("initState"), NEW_TIMER>>
    /\ Table["IDLE_STATE"]["EXIT_EVT"] =
           <<CANCEL_TIMER, SeFunc("sendLeadingMsg"), SeFunc("sendClientWorkingDir")>>
    /\ Table["SEND_ZRQINIT_STATE"]["ENTRY_EVT"] = <<SeFunc("sendZrqinit"), NEW_TIMER>>
    /\ Table["SEND_ZFILE_STATE"]["ENTRY_EVT"] = <<SeFunc("sendZfile"), NEW_TIMER>>
    /\ Table["HANDLE_ZFILE_RSP_STATE"]["ENTRY_EVT"] = <<SeFunc("handleZfileRsp")>>
    /\ Table["SEND_ZDATA_STATE"]["ENTRY_EVT"] = <<SeFunc("sendZdata"), NEW_TIMER>>
    /\ Table["END_STATE"]["ENTRY_EVT"] = <<SeFunc("sendZfin"), NEW_TIMER>>
    /\ Table["DESTROY_STATE"]["ENTRY_EVT"] = <<DESTROY>>
    /\ Table["DESTROY_STATE"]["EXIT_EVT"] = <<>>
    /\ \A s \in SzStates \ {"IDLE_STATE", "DESTROY_STATE"} :
           Table[s]["EXIT_EVT"] = <<CANCEL_TIMER>>
<1> USE SzAssumption DEF SzTable, SzRules, Complete, SzStates, ZEvents
<1>1. /\ Table["IDLE_STATE"]["ENTRY_EVT"] = <<SeFunc("initState"), NEW_TIMER>>
      /\ Table["IDLE_STATE"]["EXIT_EVT"] =
             <<CANCEL_TIMER, SeFunc("sendLeadingMsg"), SeFunc("sendClientWorkingDir")>>
  OBVIOUS
<1>2. /\ Table["SEND_ZRQINIT_STATE"]["ENTRY_EVT"] = <<SeFunc("sendZrqinit"), NEW_TIMER>>
      /\ Table["SEND_ZFILE_STATE"]["ENTRY_EVT"] = <<SeFunc("sendZfile"), NEW_TIMER>>
      /\ Table["HANDLE_ZFILE_RSP_STATE"]["ENTRY_EVT"] = <<SeFunc("handleZfileRsp")>>
  OBVIOUS
<1>3. /\ Table["SEND_ZDATA_STATE"]["ENTRY_EVT"] = <<SeFunc("sendZdata"), NEW_TIMER>>
      /\ Table["END_STATE"]["ENTRY_EVT"] = <<SeFunc("sendZfin"), NEW_TIMER>>
      /\ Table["DESTROY_STATE"]["ENTRY_EVT"] = <<DESTROY>>
      /\ Table["DESTROY_STATE"]["EXIT_EVT"] = <<>>
  OBVIOUS
<1>4. /\ Table["SEND_ZRQINIT_STATE"]["EXIT_EVT"] = <<CANCEL_TIMER>>
      /\ Table["SEND_ZFILE_STATE"]["EXIT_EVT"] = <<CANCEL_TIMER>>
      /\ Table["HANDLE_ZFILE_RSP_STATE"]["EXIT_EVT"] = <<CANCEL_TIMER>>
  OBVIOUS
<1>5. /\ Table["SEND_ZDATA_STATE"]["EXIT_EVT"] = <<CANCEL_TIMER>>
      /\ Table["END_STATE"]["EXIT_EVT"] = <<CANCEL_TIMER>>
  OBVIOUS
<1> QED
  BY ONLY <1>1, <1>2, <1>3, <1>4, <1>5 DEF SzStates

\* The one action of an event that state s lists, and what it leads to.
LeadsTo(s, e, a) ==
    \/ /\ a.op = "change" /\ a.arg \in SzStates
       /\ s \in Gone => a.arg \in Gone
       /\ a.arg = "IDLE_STATE" => s = "IDLE_STATE"
       /\ TurnOfState(a.arg) \in {"none", TurnOfEvent(e)}
    \/ a = SeFunc("parseFrame") /\ s # "IDLE_STATE" /\ TurnOfEvent(e) = "none"
    \/ a = SeFunc("sendOO") /\ s \in Gone
    \/ a = DELETE_SELF /\ s \in Gone

Leads(s, e) == Table[s][e] = <<>> \/ \E a \in Action : Table[s][e] = <<a>> /\ LeadsTo(s, e, a)

\* An event a state lists leads where its turn goes, and to no other turn.
LEMMA Listed ==
    ASSUME NEW s \in SzStates, NEW e \in Handled
    PROVE  Leads(s, e)
<1> DEFINE Ends == <<ToState("END_STATE")>>
           Parse == <<SeFunc("parseFrame")>>
<1>1. Table = SzTable /\ States = SzStates /\ Funcs = ZFuncs
  BY SzAssumption, ZmodemAssumption
<1>2. \A t \in SzStates : ToState(t) \in Action
  BY <1>1 DEF Action
<1>3. SeFunc("parseFrame") \in Action /\ SeFunc("sendOO") \in Action /\ DELETE_SELF \in Action
  BY <1>1 DEF Action, ZFuncs
<1>4. ASSUME NEW t \in SzStates, Table[s][e] = <<ToState(t)>>,
             s \in Gone => t \in Gone, t = "IDLE_STATE" => s = "IDLE_STATE",
             TurnOfState(t) \in {"none", TurnOfEvent(e)}
      PROVE  Leads(s, e)
  BY <1>2, <1>4 DEF Leads, LeadsTo, ToState
<1>5. ASSUME Table[s][e] = Parse, s # "IDLE_STATE", TurnOfEvent(e) = "none"
      PROVE  Leads(s, e)
  BY <1>3, <1>5 DEF Leads, LeadsTo
<1>6. CASE s = "IDLE_STATE"
  <2>1. Table[s][e] = CASE e \in {"TIMEOUT_EVT", "DESTROY_EVT"} -> Ends
                        [] e = "SEND_FILE_EVT" -> <<ToState("SEND_ZRQINIT_STATE")>>
                        [] e = "RESET_EVT" -> <<ToState("IDLE_STATE")>>
                        [] OTHER -> <<>>
    BY <1>1, <1>6 DEF SzTable, SzRules, Complete, SzStates, ZEvents, Handled
  <2> QED
    BY <1>4, <1>6, <2>1 DEF Leads, TurnOfState, TurnOfEvent, SzStates, Gone
<1>7. CASE s = "SEND_ZRQINIT_STATE"
  <2>1. Table[s][e] = CASE e \in {"TIMEOUT_EVT", "RESET_EVT", "DESTROY_EVT"} -> Ends
                        [] e = "NETWORK_INPUT_EVT" -> Parse
                        [] e = "HANDLE_FRAME_EVT" -> <<ToState("SEND_ZFILE_STATE")>>
                        [] OTHER -> <<>>
    BY <1>1, <1>7 DEF SzTable, SzRules, Complete, SzStates, ZEvents, Handled
  <2> QED
    BY <1>4, <1>5, <1>7, <2>1 DEF Leads, TurnOfState, TurnOfEvent, SzStates, Gone
<1>8. CASE s = "SEND_ZFILE_STATE"
  <2>1. Table[s][e] = CASE e \in {"TIMEOUT_EVT", "DESTROY_EVT", "SEND_ZDATA_EVT"} -> Ends
                        [] e = "SKIP_EVT" -> <<ToState("SEND_ZRQINIT_STATE")>>
                        [] e = "NETWORK_INPUT_EVT" -> Parse
                        [] e = "HANDLE_FRAME_EVT" -> <<ToState("HANDLE_ZFILE_RSP_STATE")>>
                        [] OTHER -> <<>>
    BY <1>1, <1>8 DEF SzTable, SzRules, Complete, SzStates, ZEvents, Handled
  <2> QED
    BY <1>4, <1>5, <1>8, <2>1 DEF Leads, TurnOfState, TurnOfEvent, SzStates, Gone
<1>9. CASE s = "HANDLE_ZFILE_RSP_STATE"
  <2>1. Table[s][e] = CASE e \in {"TIMEOUT_EVT", "DESTROY_EVT"} -> Ends
                        [] e = "SKIP_EVT" -> <<ToState("SEND_ZRQINIT_STATE")>>
                        [] e = "SEND_ZDATA_EVT" -> <<ToState("SEND_ZDATA_STATE")>>
                        [] e = "NETWORK_INPUT_EVT" -> Parse
                        [] e = "HANDLE_FRAME_EVT" -> <<ToState("HANDLE_ZFILE_RSP_STATE")>>
                        [] OTHER -> <<>>
    BY <1>1, <1>9 DEF SzTable, SzRules, Complete, SzStates, ZEvents, Handled
  <2> QED
    BY <1>4, <1>5, <1>9, <2>1 DEF Leads, TurnOfState, TurnOfEvent, SzStates, Gone
<1>10. CASE s = "SEND_ZDATA_STATE"
  <2>1. Table[s][e] = CASE e \in {"TIMEOUT_EVT", "DESTROY_EVT"} -> Ends
                        [] e = "SEND_ZDATA_EVT" -> <<ToState("SEND_ZDATA_STATE")>>
                        [] e = "NETWORK_INPUT_EVT" -> Parse
                        [] e = "HANDLE_FRAME_EVT" -> <<ToState("SEND_ZFILE_STATE")>>
                        [] OTHER -> <<>>
    BY <1>1, <1>10 DEF SzTable, SzRules, Complete, SzStates, ZEvents, Handled
  <2> QED
    BY <1>4, <1>5, <1>10, <2>1 DEF Leads, TurnOfState, TurnOfEvent, SzStates, Gone
<1>11. CASE s = "END_STATE"
  <2>1. Table[s][e] = CASE e \in {"TIMEOUT_EVT", "DESTROY_EVT", "RESET_EVT"} ->
                               <<ToState("DESTROY_STATE")>>
                        [] e = "NETWORK_INPUT_EVT" -> Parse
                        [] e = "HANDLE_FRAME_EVT" -> <<SeFunc("sendOO")>>
                        [] OTHER -> <<>>
    BY <1>1, <1>11 DEF SzTable, SzRules, Complete, SzStates, ZEvents, Handled
  <2>2. CASE e = "HANDLE_FRAME_EVT"
    BY <1>3, <1>11, <2>1, <2>2 DEF Leads, LeadsTo, Gone
  <2> QED
    BY <1>4, <1>5, <1>11, <2>1, <2>2 DEF Leads, TurnOfState, TurnOfEvent, SzStates, Gone
<1>12. CASE s = "DESTROY_STATE"
  <2>1. Table[s][e] = CASE e = "DESTROY_EVT" -> <<DELETE_SELF>> [] OTHER -> <<>>
    BY <1>1, <1>12 DEF SzTable, SzRules, Complete, SzStates, ZEvents, Handled
  <2> QED
    BY <1>3, <1>12, <2>1 DEF Leads, LeadsTo, Gone
<1> QED
  BY <1>6, <1>7, <1>8, <1>9, <1>10, <1>11, <1>12 DEF SzStates

\* The entry and exit actions: only entry actions move, in the state they enter.
LEMMA EntriesAndExits ==
    ASSUME NEW s \in SzStates
    PROVE  /\ OneMove(Table[s]["ENTRY_EVT"])
           /\ \A i \in 1..Len(Table[s]["ENTRY_EVT"]) : LET a == Table[s]["ENTRY_EVT"][i] IN
                  /\ a.op \in {"func", "newTimer", "destroy"}
                  /\ a.op = "func" => TurnOfFunc(a.arg) \in {"none", TurnOfState(s)}
                  /\ a.op = "func" => a.arg \notin {"parseFrame", "sendClientWorkingDir"}
                  /\ a.op = "func" /\ a.arg \in {"sendZfin", "sendOO"} => s \in Gone
           /\ \A i \in 1..Len(Table[s]["EXIT_EVT"]) : LET a == Table[s]["EXIT_EVT"][i] IN
                  /\ a.op \in {"func", "cancelTimer"} /\ ~Moves(a)
                  /\ a.op = "func" => a.arg \notin {"sendZfin", "sendOO"}
                  /\ a.op = "func" /\ a.arg = "sendClientWorkingDir" => s = "IDLE_STATE"
<1> USE DEF OneMove, Moves, TurnOfFunc, TurnOfState, SeFunc, NEW_TIMER, CANCEL_TIMER, DESTROY, Gone
<1>1. CASE s = "IDLE_STATE"
  <2> DEFINE in  == Table[s]["ENTRY_EVT"]
             out == Table[s]["EXIT_EVT"]
  <2>1. /\ Len(in) = 2 /\ in[1] = SeFunc("initState") /\ in[2] = NEW_TIMER
        /\ Len(out) = 3 /\ out[1] = CANCEL_TIMER /\ out[2] = SeFunc("sendLeadingMsg")
        /\ out[3] = SeFunc("sendClientWorkingDir")
    BY <1>1, TableOf
  <2> HIDE DEF in, out
  <2>2. 1..Len(in) = {1, 2} /\ 1..Len(out) = {1, 2, 3}
    BY <2>1
  <2>3. OneMove(in)
    BY <2>1, <2>2
  <2>4. \A i \in 1..Len(in) :
            /\ in[i].op \in {"func", "newTimer", "destroy"}
            /\ in[i].op = "func" => /\ TurnOfFunc(in[i].arg) \in {"none", TurnOfState(s)}
                                   /\ in[i].arg = "initState"
    BY <1>1, <2>1, <2>2
  <2>5. \A i \in 1..Len(out) :
            /\ out[i].op \in {"func", "cancelTimer"} /\ ~Moves(out[i])
            /\ out[i].op = "func" => out[i].arg \in {"sendLeadingMsg", "sendClientWorkingDir"}
    BY <1>1, <2>1, <2>2
  <2>6. /\ \A i \in 1..Len(in) :
               /\ in[i].op \in {"func", "newTimer", "destroy"}
               /\ in[i].op = "func" => TurnOfFunc(in[i].arg) \in {"none", TurnOfState(s)}
               /\ in[i].op = "func" => in[i].arg \notin {"parseFrame", "sendClientWorkingDir"}
               /\ in[i].op = "func" /\ in[i].arg \in {"sendZfin", "sendOO"} => s \in Gone
        /\ \A i \in 1..Len(out) :
               /\ out[i].op \in {"func", "cancelTimer"} /\ ~Moves(out[i])
               /\ out[i].op = "func" => out[i].arg \notin {"sendZfin", "sendOO"}
               /\ out[i].op = "func" /\ out[i].arg = "sendClientWorkingDir" => s = "IDLE_STATE"
    BY ONLY <1>1, <2>4, <2>5
  <2> QED
    BY ONLY <2>3, <2>6 DEF in, out
<1>2. CASE s = "SEND_ZRQINIT_STATE"
  BY <1>2, TableOf DEF SzStates
<1>3. CASE s = "SEND_ZFILE_STATE"
  BY <1>3, TableOf DEF SzStates
<1>4. CASE s = "HANDLE_ZFILE_RSP_STATE"
  BY <1>4, TableOf DEF SzStates
<1>5. CASE s = "SEND_ZDATA_STATE"
  BY <1>5, TableOf DEF SzStates
<1>6. CASE s = "END_STATE"
  BY <1>6, TableOf DEF SzStates
<1>7. CASE s = "DESTROY_STATE"
  BY <1>7, TableOf
<1> QED
  BY ONLY <1>1, <1>2, <1>3, <1>4, <1>5, <1>6, <1>7, s \in SzStates DEF SzStates

-----------------------------------------------------------------------------
\* What has a turn moves, and what is behind a call that moves does not.
LEMMA TurnsMove ==
    /\ \A c : TurnOf(c) \in Turns => Moves(c)
    /\ \A c : c.op = "newTimer" => /\ ~Moves(c) /\ TurnOf(c) = "none"
                                   /\ \A s, started : Fits(c, s, started)
BY DEF TurnOf, Turns, Moves, Fits, TurnOfFunc

\* The next call is replaced by the calls cs it makes.
LEMMA Replaced ==
    ASSUME agenda \in Seq(CallSet), agenda # <<>>, NEW cs \in Seq(CallSet), agenda' = cs \o Rest,
           OneMove(agenda), OneMove(cs),
           Moves(Head(agenda)) \/ \A i \in 1..Len(cs) : ~Moves(cs[i])
    PROVE  /\ OneMove(agenda')
           /\ \A i \in 1..Len(agenda') :
                  \/ \E j \in 1..Len(cs) : agenda'[i] = cs[j]
                  \/ \E j \in 1..Len(agenda) :
                         /\ agenda'[i] = agenda[j]
                         /\ Moves(Head(agenda)) => agenda[j].op = "newTimer"
<1>1. /\ Len(agenda) \in Nat \ {0} /\ Len(cs) \in Nat /\ Head(agenda) = agenda[1]
      /\ Rest \in Seq(CallSet) /\ Len(Rest) = Len(agenda) - 1
      /\ \A i \in 1..Len(Rest) : Rest[i] = agenda[i + 1]
  BY HeadTailProperties, EmptySeq, LenProperties DEF Rest
<1>2. /\ Len(agenda') = Len(cs) + Len(agenda) - 1
      /\ \A i \in 1..Len(agenda') : agenda'[i] = IF i <= Len(cs) THEN cs[i]
                                                 ELSE agenda[i - Len(cs) + 1]
  <2>1. /\ Len(agenda') = Len(cs) + Len(Rest)
        /\ \A i \in 1..Len(agenda') :
               agenda'[i] = IF i <= Len(cs) THEN cs[i] ELSE Rest[i - Len(cs)]
    BY ONLY <1>1, ConcatProperties, agenda' = cs \o Rest, cs \in Seq(CallSet)
  <2>2. Len(agenda') = Len(cs) + Len(agenda) - 1
    BY <1>1, <2>1
  <2>3. ASSUME NEW i \in 1..Len(agenda'), ~(i <= Len(cs))
        PROVE  agenda'[i] = agenda[i - Len(cs) + 1]
    <3>1. i - Len(cs) \in 1..Len(Rest) /\ agenda'[i] = Rest[i - Len(cs)]
      BY <1>1, <2>1, <2>3
    <3> QED
      BY <1>1, <3>1
  <2> QED
    BY <2>1, <2>2, <2>3
<1>3. ASSUME NEW i \in 1..Len(agenda'), NEW j \in 1..Len(agenda'), i < j, Moves(agenda'[i])
      PROVE  agenda'[j].op = "newTimer"
  <2>1. CASE j <= Len(cs)
    BY <1>1, <1>2, <1>3, <2>1 DEF OneMove
  <2>2. CASE i > Len(cs)
    <3>1. /\ agenda'[i] = agenda[i - Len(cs) + 1] /\ agenda'[j] = agenda[j - Len(cs) + 1]
          /\ i - Len(cs) + 1 \in 1..Len(agenda) /\ j - Len(cs) + 1 \in 1..Len(agenda)
          /\ i - Len(cs) + 1 < j - Len(cs) + 1
      BY <1>1, <1>2, <1>3, <2>2
    <3> QED
      BY <1>3, <3>1 DEF OneMove
  <2>3. CASE i <= Len(cs) /\ j > Len(cs)
    <3>1. /\ agenda'[i] = cs[i] /\ agenda'[j] = agenda[j - Len(cs) + 1] /\ i \in 1..Len(cs)
          /\ j - Len(cs) + 1 \in 1..Len(agenda) /\ 1 \in 1..Len(agenda)
          /\ 1 < j - Len(cs) + 1
      BY <1>1, <1>2, <1>3, <2>3
    <3>2. Moves(agenda[1])
      BY <1>1, <1>3, <3>1
    <3> QED
      BY <3>1, <3>2 DEF OneMove
  <2> QED
    BY <1>1, <1>2, <2>1, <2>2, <2>3
<1>4. ASSUME NEW i \in 1..Len(agenda')
      PROVE  \/ \E j \in 1..Len(cs) : agenda'[i] = cs[j]
             \/ \E j \in 1..Len(agenda) :
                    /\ agenda'[i] = agenda[j]
                    /\ Moves(Head(agenda)) => agenda[j].op = "newTimer"
  <2>1. CASE i <= Len(cs)
    BY <1>1, <1>2, <2>1
  <2>2. CASE i > Len(cs)
    <3>1. /\ agenda'[i] = agenda[i - Len(cs) + 1] /\ i - Len(cs) + 1 \in 1..Len(agenda)
          /\ 1 \in 1..Len(agenda) /\ 1 < i - Len(cs) + 1
      BY <1>1, <1>2, <2>2
    <3> QED
      BY <1>1, <3>1 DEF OneMove
  <2> QED
    BY <1>1, <1>2, <2>1, <2>2
<1> QED
  BY <1>3, <1>4 DEF OneMove

\* Events without a turn, which the queue takes or not.
Idles == {e \in Handled : TurnOfEvent(e) = "none"}

QueueOK == \A i \in 1..Len(jobs) : jobs[i] \in Handled \ {"HANDLE_FRAME_EVT"}
QueueOne ==
    \A i, j \in 1..Len(jobs) :
        TurnOfEvent(jobs[i]) # "none" /\ TurnOfEvent(jobs[j]) # "none" => i = j

\* The queue has the turns it had.
QueueKept ==
    /\ QueueOK => QueueOK'
    /\ QueueOne => QueueOne'
    /\ \A k \in Turns : Queued(k)' <=> Queued(k)

\* Events without a turn, posted behind the others.
LEMMA PostedIdle ==
    ASSUME jobs \in Seq(Events), NEW es \in Seq(Idles), jobs' = Posted(jobs, es)
    PROVE  QueueKept
<1>1. CASE toDelete \/ waitStop
  BY <1>1 DEF Posted, QueueKept, QueueOK, QueueOne, Queued
<1>2. CASE ~(toDelete \/ waitStop)
  <2>1. Idles \subseteq Events
    BY ZmodemAssumption DEF Idles, Handled
  <2>2. es \in Seq(Events) /\ Len(es) \in Nat /\ Len(jobs) \in Nat
    BY <2>1, SeqMonotonic, LenProperties
  <2>3. /\ Len(jobs') = Len(jobs) + Len(es)
        /\ \A i \in 1..Len(jobs') : jobs'[i] = IF i <= Len(jobs) THEN jobs[i] ELSE es[i - Len(jobs)]
    BY <1>2, <2>2, ConcatProperties DEF Posted
  <2>4. ASSUME NEW i \in 1..Len(jobs')
        PROVE  \/ i \in 1..Len(jobs) /\ jobs'[i] = jobs[i]
               \/ jobs'[i] \in Idles
    <3>1. CASE i <= Len(jobs)
      BY <2>2, <2>3, <3>1
    <3>2. CASE i > Len(jobs)
      <4>1. i - Len(jobs) \in 1..Len(es) /\ jobs'[i] = es[i - Len(jobs)]
        BY <2>2, <2>3, <3>2
      <4> QED
        BY <4>1, ElementOfSeq
    <3> QED
      BY <2>2, <3>1, <3>2
  <2>5. \A i \in 1..Len(jobs) : i \in 1..Len(jobs') /\ jobs'[i] = jobs[i]
    BY <2>2, <2>3
  <2>6. \A e \in Idles : TurnOfEvent(e) = "none" /\ e \in Handled \ {"HANDLE_FRAME_EVT"}
    BY DEF Idles, TurnOfEvent
  <2>7. \A k \in Turns : k # "none"
    BY DEF Turns
  <2>8. QueueOK => QueueOK'
    BY <2>4, <2>6 DEF QueueOK
  <2>9. QueueOne => QueueOne'
    BY <2>4, <2>6 DEF QueueOne
  <2>10. \A k \in Turns : Queued(k)' <=> Queued(k)
    BY <2>4, <2>5, <2>6, <2>7 DEF Queued
  <2> QED
    BY <2>8, <2>9, <2>10 DEF QueueKept
<1> QED
  BY <1>1, <1>2

\* No turn is new, none is doubled, and what a frame says is not asked anew.
TurnsKept ==
    /\ \A k \in Turns : Has(k)' => Has(k)
    /\ Called("frame")' => Called("frame")
    /\ SzOne => SzOne'
    /\ Alive' => Alive

\* A call that makes the calls cs, and the calls on the stack then.
LEMMA SwapKeeps ==
    ASSUME CallsInv, agenda \in Seq(CallSet), agenda # <<>>,
           NEW cs \in Seq(CallSet), agenda' = cs \o Rest, OneMove(cs),
           Moves(Head(agenda)) \/ \A i \in 1..Len(cs) : ~Moves(cs[i]),
           Moves(Head(agenda)) \/ UNCHANGED <<curState, initialized>>,
           \A i \in 1..Len(cs) : Fits(cs[i], curState', initialized'),
           QueueOK', ~initialized' => curState' = "IDLE_STATE"
    PROVE  /\ CallsInv'
           /\ \A k \in Turns : Called(k)' =>
                  \/ \E i \in 1..Len(cs) : TurnOf(cs[i]) = k
                  \/ ~Moves(Head(agenda)) /\ Called(k)
<1>1. /\ OneMove(agenda')
      /\ \A i \in 1..Len(agenda') :
             \/ \E j \in 1..Len(cs) : agenda'[i] = cs[j]
             \/ \E j \in 1..Len(agenda) :
                    /\ agenda'[i] = agenda[j]
                    /\ Moves(Head(agenda)) => agenda[j].op = "newTimer"
  <2>1. OneMove(agenda)
    BY DEF CallsInv
  <2> QED
    BY <2>1, Replaced
<1>2. ASSUME NEW i \in 1..Len(agenda')
      PROVE  Fits(agenda'[i], curState', initialized')
  BY <1>1, TurnsMove DEF CallsInv
<1>3. ASSUME NEW k \in Turns, Called(k)'
      PROVE  \/ \E i \in 1..Len(cs) : TurnOf(cs[i]) = k
             \/ ~Moves(Head(agenda)) /\ Called(k)
  <2>1. PICK i \in 1..Len(agenda') : TurnOf(agenda'[i]) = k
    BY <1>3 DEF Called
  <2>2. k # "none"
    BY DEF Turns
  <2> QED
    BY <1>1, <2>1, <2>2, TurnsMove DEF Called
<1> QED
  BY <1>1, <1>2, <1>3 DEF CallsInv, QueueOK

\* A call that makes calls with its own turn, if it has one, or with none.
LEMMA SwapTurns ==
    ASSUME CallsInv, agenda \in Seq(CallSet), agenda # <<>>,
           NEW cs \in Seq(CallSet), agenda' = cs \o Rest, OneMove(cs), QueueKept,
           Moves(Head(agenda)) \/ \A i \in 1..Len(cs) : ~Moves(cs[i]),
           Moves(Head(agenda)) \/ UNCHANGED <<curState, initialized>>,
           \A i \in 1..Len(cs) : /\ Fits(cs[i], curState', initialized')
                                 /\ TurnOf(cs[i]) \in {"none", TurnOf(Head(agenda))},
           ~initialized' => curState' = "IDLE_STATE",
           curState \in Gone => curState' \in Gone
    PROVE  CallsInv' /\ TurnsKept
<1>1. QueueOK' /\ (QueueOne => QueueOne') /\ \A k \in Turns : Queued(k)' <=> Queued(k)
  BY DEF QueueKept, CallsInv, QueueOK
<1>2. CallsInv' /\ \A k \in Turns : Called(k)' =>
                      \/ \E i \in 1..Len(cs) : TurnOf(cs[i]) = k
                      \/ ~Moves(Head(agenda)) /\ Called(k)
  BY <1>1, SwapKeeps
<1>3. ASSUME NEW k \in Turns, Called(k)'
      PROVE  Called(k)
  <2>1. 1 \in 1..Len(agenda) /\ Head(agenda) = agenda[1] /\ k # "none"
    BY EmptySeq, LenProperties DEF Turns
  <2> QED
    BY <1>2, <1>3, <2>1 DEF Called
<1>4. \A k \in Turns : Has(k)' => Has(k)
  BY <1>1, <1>3 DEF Has
<1>5. SzOne => SzOne'
  BY <1>1, <1>3 DEF SzOne, QueueOne
<1>6. "frame" \in Turns
  BY DEF Turns
<1> QED
  BY <1>2, <1>3, <1>4, <1>5, <1>6 DEF TurnsKept, Alive

\* Actions of the table as calls.
LEMMA CallsLemma ==
    ASSUME NEW acts \in Seq(Action), NEW guard \in States \cup {AnyState}
    PROVE  /\ Calls(acts, guard) \in Seq(CallSet) /\ Len(Calls(acts, guard)) = Len(acts)
           /\ \A i \in 1..Len(acts) : /\ Calls(acts, guard)[i].op = acts[i].op
                                      /\ Calls(acts, guard)[i].arg = acts[i].arg
                                      /\ Calls(acts, guard)[i].guard = guard
           /\ OneMove(acts) => OneMove(Calls(acts, guard))
<1>1. \A i \in 1..Len(acts) : acts[i] \in Action
  BY ElementOfSeq
<1>2. ASSUME NEW a \in Action
      PROVE  [op |-> a.op, arg |-> a.arg, guard |-> guard] \in CallSet
  BY <1>2 DEF Action, CallSet, ToState, SeFunc, NEW_TIMER, CANCEL_TIMER, IGNORE_EVT, DESTROY,
              DELETE_SELF
<1>3. Calls(acts, guard) \in [1..Len(acts) -> CallSet] /\ Len(acts) \in Nat
  BY <1>1, <1>2, LenProperties DEF Calls
<1>4. Calls(acts, guard) \in Seq(CallSet) /\ Len(Calls(acts, guard)) = Len(acts)
  BY <1>3, SeqDef, LenProperties
<1>5. \A i \in 1..Len(acts) : /\ Calls(acts, guard)[i].op = acts[i].op
                              /\ Calls(acts, guard)[i].arg = acts[i].arg
                              /\ Calls(acts, guard)[i].guard = guard
  BY DEF Calls
<1>6. OneMove(acts) => OneMove(Calls(acts, guard))
  BY <1>4, <1>5 DEF OneMove, Moves
<1> QED
  BY <1>4, <1>5, <1>6

\* The next call is in the call set, and first on the stack.
LEMMA HeadCall ==
    ASSUME agenda \in Seq(CallSet), agenda # <<>>, CallsInv
    PROVE  /\ Head(agenda) = agenda[1] /\ 1 \in 1..Len(agenda) /\ Head(agenda) \in CallSet
           /\ Fits(Head(agenda), curState, initialized)
BY HeadTailProperties, EmptySeq, LenProperties DEF CallsInv

\* A call with nothing to call.
LEMMA DropKeeps ==
    ASSUME CallsInv, agenda \in Seq(CallSet), agenda # <<>>, agenda' = Rest, QueueKept,
           UNCHANGED <<curState, initialized>>
    PROVE  CallsInv' /\ TurnsKept
<1> DEFINE cs == <<>>
<1>1. cs \in Seq(CallSet) /\ Len(cs) = 0
  OBVIOUS
<1>2. agenda' = cs \o Rest
  <2>1. Rest \in Seq(CallSet)
    BY HeadTailProperties DEF Rest
  <2> QED
    BY <2>1, ConcatEmptySeq
<1>3. OneMove(cs) /\ \A i \in 1..Len(cs) : ~Moves(cs[i])
  BY <1>1 DEF OneMove
<1>4. /\ \A i \in 1..Len(cs) : /\ Fits(cs[i], curState', initialized')
                               /\ TurnOf(cs[i]) \in {"none", TurnOf(Head(agenda))}
      /\ ~initialized' => curState' = "IDLE_STATE"
  BY <1>1 DEF CallsInv
<1> HIDE DEF cs
<1> QED
  BY <1>1, <1>2, <1>3, <1>4, SwapTurns

\* A call that makes one other call.
LEMMA OneKeeps ==
    ASSUME CallsInv, agenda \in Seq(CallSet), agenda # <<>>, Moves(Head(agenda)), QueueKept,
           NEW c \in CallSet, agenda' = <<c>> \o Rest, curState' = curState,
           Fits(c, curState, initialized'), TurnOf(c) \in {"none", TurnOf(Head(agenda))},
           ~initialized' => curState' = "IDLE_STATE"
    PROVE  CallsInv' /\ TurnsKept
<1> DEFINE cs == <<c>>
<1>1. cs \in Seq(CallSet) /\ Len(cs) = 1 /\ cs[1] = c /\ \A i \in 1..Len(cs) : cs[i] = c
  OBVIOUS
<1>2. OneMove(cs) /\ agenda' = cs \o Rest
  BY <1>1 DEF OneMove
<1>3. \A i \in 1..Len(cs) : /\ Fits(cs[i], curState', initialized')
                           /\ TurnOf(cs[i]) \in {"none", TurnOf(Head(agenda))}
  BY <1>1
<1>4. curState \in Gone => curState' \in Gone
  OBVIOUS
<1> HIDE DEF cs
<1> QED
  BY <1>1, <1>2, <1>3, <1>4, SwapTurns

\* Calls that do not move, and one behind them.
LEMMA BeforeLast ==
    ASSUME NEW pre \in Seq(CallSet), NEW c \in CallSet, \A i \in 1..Len(pre) : ~Moves(pre[i])
    PROVE  /\ pre \o <<c>> \in Seq(CallSet) /\ OneMove(pre \o <<c>>)
           /\ \A i \in 1..Len(pre \o <<c>>) : \/ (pre \o <<c>>)[i] = c
                                              \/ \E j \in 1..Len(pre) : (pre \o <<c>>)[i] = pre[j]
<1> DEFINE cs == pre \o <<c>>
<1>1. <<c>> \in Seq(CallSet) /\ Len(<<c>>) = 1 /\ <<c>>[1] = c /\ Len(pre) \in Nat
  BY LenProperties
<1>2. cs \in Seq(CallSet) /\ Len(cs) = Len(pre) + 1
  BY <1>1, ConcatProperties
<1>3. \A i \in 1..Len(cs) : IF i <= Len(pre) THEN cs[i] = pre[i] ELSE cs[i] = c
  <2>1. \A i \in 1..Len(cs) : cs[i] = IF i <= Len(pre) THEN pre[i] ELSE <<c>>[i - Len(pre)]
    BY <1>1, <1>2, ConcatProperties
  <2>2. \A i \in 1..Len(cs) : ~(i <= Len(pre)) => i - Len(pre) = 1
    BY <1>1, <1>2
  <2> HIDE DEF cs
  <2> QED
    BY <1>1, <2>1, <2>2
<1> HIDE DEF cs
<1>4. OneMove(cs)
  BY <1>1, <1>2, <1>3 DEF OneMove
<1>5. \A i \in 1..Len(cs) : cs[i] = c \/ \E j \in 1..Len(pre) : cs[i] = pre[j]
  BY <1>1, <1>2, <1>3
<1> QED
  BY <1>2, <1>4, <1>5 DEF cs

\* A queue left alone, ...
LEMMA QueueSame == UNCHANGED jobs => QueueKept
<1> SUFFICES ASSUME jobs' = jobs PROVE QueueKept
  OBVIOUS
<1>1. (QueueOK => QueueOK') /\ (QueueOne => QueueOne')
  BY DEF QueueOK, QueueOne
<1>2. \A k \in Turns : Queued(k)' <=> Queued(k)
  BY DEF Queued
<1> QED
  BY <1>1, <1>2 DEF QueueKept

\* ... one with an event more that has no turn, ...
LEMMA OneIdle ==
    ASSUME jobs \in Seq(Events), NEW e \in Idles, jobs' = Posted(jobs, <<e>>)
    PROVE  QueueKept
<1>1. <<e>> \in Seq(Idles)
  OBVIOUS
<1> QED
  BY <1>1, PostedIdle

\* ... and the events that have none.
LEMMA IdleEvents ==
    {"RESET_EVT", "DESTROY_EVT", "NETWORK_INPUT_EVT", "TIMEOUT_EVT"} \subseteq Idles
BY DEF Idles, Handled, ZEvents, TurnOfEvent

\* The first event enters the first state before it is handled.
LEMMA EnterFirstStateKeeps ==
    ASSUME CallsInv, EngineTypeOK, EnterFirstState
    PROVE  CallsInv' /\ TurnsKept
<1>1. /\ agenda \in Seq(CallSet) /\ agenda # <<>> /\ Head(agenda).op = "handle" /\ ~initialized
      /\ UNCHANGED <<curState, initialized, jobs>> /\ curState = "IDLE_STATE"
      /\ initialized' = FALSE
  BY DEF EnterFirstState, Calling, EngineTypeOK, CallsInv
<1>2. Fits(Head(agenda), curState, initialized) /\ Head(agenda) \in CallSet
  BY <1>1, HeadCall
<1>3. Arg \in Handled /\ Arg \in Events
  BY <1>1, <1>2, ZmodemAssumption DEF Fits, Arg, Handled
<1> DEFINE acts == Table["IDLE_STATE"]["ENTRY_EVT"]
           pre  == Calls(acts, curState)
           c    == Call("initialized", Arg)
<1>4. "IDLE_STATE" \in States /\ "ENTRY_EVT" \in Events /\ acts \in Seq(Action)
  BY TableAssumption, SzAssumption DEF SzStates
<1>5. acts = <<SeFunc("initState"), NEW_TIMER>>
  BY TableOf
<1>6. /\ pre \in Seq(CallSet) /\ Len(pre) = 2
      /\ pre[1].op = "func" /\ pre[1].arg = "initState" /\ pre[2].op = "newTimer"
  <2>1. Len(acts) = 2 /\ acts[1] = SeFunc("initState") /\ acts[2] = NEW_TIMER
    BY <1>5
  <2> HIDE DEF acts
  <2> QED
    BY <1>1, <1>4, <2>1, CallsLemma DEF SeFunc, NEW_TIMER
<1>7. c \in CallSet /\ c.op = "initialized" /\ c.arg = Arg /\ c.guard = AnyState
  BY <1>3 DEF Call, CallSet
<1>8. agenda' = (pre \o <<c>>) \o Rest
  BY <1>1 DEF EnterFirstState
<1> HIDE DEF acts, pre, c
<1>9. \A j \in 1..Len(pre) : /\ ~Moves(pre[j]) /\ TurnOf(pre[j]) = "none"
                             /\ Fits(pre[j], "IDLE_STATE", FALSE)
  BY <1>6 DEF Moves, TurnOf, TurnOfFunc, Fits, Gone
<1>10. /\ Fits(c, "IDLE_STATE", FALSE) /\ TurnOf(c) = TurnOf(Head(agenda))
       /\ Moves(Head(agenda))
  BY <1>1, <1>3, <1>7 DEF Fits, Moves, TurnOf, Gone, Arg
<1> DEFINE cs == pre \o <<c>>
<1>11. /\ cs \in Seq(CallSet) /\ OneMove(cs)
       /\ \A i \in 1..Len(cs) : cs[i] = c \/ \E j \in 1..Len(pre) : cs[i] = pre[j]
  BY <1>6, <1>7, <1>9, BeforeLast, Zenon
<1>12. QueueKept /\ curState' = "IDLE_STATE" /\ agenda' = cs \o Rest
  BY <1>1, <1>8, QueueSame
<1> HIDE DEF cs
<1>13. \A i \in 1..Len(cs) : /\ Fits(cs[i], curState', initialized')
                             /\ TurnOf(cs[i]) \in {"none", TurnOf(Head(agenda))}
  BY <1>1, <1>9, <1>10, <1>11
<1>14. curState \notin Gone
  BY <1>1 DEF Gone
<1> QED
  BY <1>1, <1>10, <1>11, <1>12, <1>13, <1>14, SwapTurns

\* Then the event is handled.
LEMMA MarkInitializedKeeps ==
    ASSUME CallsInv, EngineTypeOK, MarkInitialized
    PROVE  CallsInv' /\ TurnsKept
<1>1. /\ agenda \in Seq(CallSet) /\ agenda # <<>> /\ Head(agenda).op = "initialized"
      /\ UNCHANGED <<curState, jobs>> /\ initialized' = TRUE
  BY DEF MarkInitialized, Calling, EngineTypeOK
<1>2. Fits(Head(agenda), curState, initialized)
  BY <1>1, HeadCall
<1>3. Arg \in Handled /\ Arg \in Events /\ Arg # "ENTRY_EVT"
  BY <1>1, <1>2, ZmodemAssumption DEF Fits, Arg, Handled
<1> DEFINE c == Call("handle", Arg)
<1>4. agenda' = <<c>> \o Rest
  BY <1>3 DEF MarkInitialized
<1>5. c \in CallSet /\ c.op = "handle" /\ c.arg = Arg /\ c.guard = AnyState
  BY <1>3 DEF Call, CallSet
<1> HIDE DEF c
<1>6. Fits(c, curState, initialized') /\ TurnOf(c) = TurnOf(Head(agenda)) /\ Moves(Head(agenda))
  BY <1>1, <1>3, <1>5 DEF Fits, TurnOf, Moves, Arg
<1> QED
  BY <1>1, <1>4, <1>5, <1>6, QueueSame, OneKeeps

\* handleEvent calls the one action its state lists.
LEMMA HandleEventKeeps ==
    ASSUME CallsInv, EngineTypeOK, HandleEvent
    PROVE  CallsInv' /\ TurnsKept
<1>1. /\ agenda \in Seq(CallSet) /\ agenda # <<>> /\ Head(agenda).op = "handle"
      /\ UNCHANGED <<curState, jobs, initialized>> /\ initialized /\ curState \in SzStates
  BY SzAssumption DEF HandleEvent, Calling, EngineTypeOK
<1>2. Fits(Head(agenda), curState, initialized)
  BY <1>1, HeadCall
<1>3. Arg \in Handled
  BY <1>1, <1>2 DEF Fits, Arg
<1>4. Table[curState][Arg] # <<>>
  BY DEF HandleEvent
<1>5. PICK a \in Action : Table[curState][Arg] = <<a>> /\ LeadsTo(curState, Arg, a)
  BY <1>1, <1>3, <1>4, Listed DEF Leads
<1> DEFINE c == [op |-> a.op, arg |-> a.arg, guard |-> curState]
<1>6. Calls(<<a>>, curState) = <<c>>
  BY DEF Calls
<1>7. agenda' = <<c>> \o Rest
  BY <1>5, <1>6 DEF HandleEvent
<1>8. c \in CallSet
  <2>1. <<a>> \in Seq(Action) /\ curState \in States \cup {AnyState}
    BY <1>1, SzAssumption
  <2>2. <<c>> \in Seq(CallSet)
    BY <1>6, <2>1, CallsLemma
  <2>3. Len(<<c>>) = 1 /\ <<c>>[1] = c
    OBVIOUS
  <2> HIDE DEF c
  <2> QED
    BY <2>2, <2>3, ElementOfSeq
<1>9. c.op = a.op /\ c.arg = a.arg /\ c.guard = curState
  OBVIOUS
<1> HIDE DEF c
<1>10. Fits(c, curState, TRUE) /\ TurnOf(c) \in {"none", TurnOf(Head(agenda))}
  BY <1>1, <1>5, <1>9 DEF LeadsTo, Fits, TurnOf, Arg, TurnOfFunc, SeFunc, DELETE_SELF, Gone, Moves
<1>11. Moves(Head(agenda)) /\ QueueKept
  BY <1>1, QueueSame DEF Moves
<1> QED
  BY <1>1, <1>7, <1>8, <1>10, <1>11, OneKeeps

\* An event the state does not list ends the session.
LEMMA UndefinedKeeps ==
    ASSUME CallsInv, EngineTypeOK, HandleUndefinedEvent
    PROVE  CallsInv' /\ TurnsKept
<1>1. /\ agenda \in Seq(CallSet) /\ agenda # <<>> /\ Head(agenda).op = "handle"
      /\ UNCHANGED <<curState, jobs, initialized>> /\ initialized
      /\ Table[curState][Arg] = <<>>
  BY DEF HandleUndefinedEvent, Calling, EngineTypeOK
<1> DEFINE c == Call("change", "DESTROY_STATE")
<1>2. agenda' = <<c>> \o Rest
  BY SzAssumption DEF HandleUndefinedEvent
<1>3. c \in CallSet /\ c.op = "change" /\ c.arg = "DESTROY_STATE" /\ c.guard = AnyState
  BY SzAssumption DEF Call, CallSet, SzStates
<1> HIDE DEF c
<1>4. Fits(c, curState, TRUE) /\ TurnOf(c) = "none" /\ Moves(Head(agenda))
  BY <1>1, <1>3 DEF Fits, TurnOf, TurnOfState, Moves, Gone
<1> QED
  BY <1>1, <1>2, <1>3, <1>4, QueueSame, OneKeeps

\* changeState runs the exit actions, which do not move, and enters.
LEMMA ChangeStateKeeps ==
    ASSUME CallsInv, EngineTypeOK, ChangeState
    PROVE  CallsInv' /\ TurnsKept
<1>1. /\ agenda \in Seq(CallSet) /\ agenda # <<>> /\ Head(agenda).op = "change"
      /\ UNCHANGED <<curState, initialized, jobs>>
      /\ curState \in States /\ curState \in SzStates
  BY SzAssumption DEF ChangeState, Calling, EngineTypeOK
<1>2. Fits(Head(agenda), curState, initialized) /\ Head(agenda) \in CallSet
  BY <1>1, HeadCall
<1>3. Arg \in States
  BY <1>1, <1>2 DEF CallSet, Arg
<1> DEFINE acts == Table[curState]["EXIT_EVT"]
           pre  == Calls(acts, AnyState)
           c    == Call("enter", Arg)
           cs   == pre \o <<c>>
<1>4. acts \in Seq(Action)
  BY <1>1, TableAssumption
<1>5. agenda' = cs \o Rest
  BY DEF ChangeState
<1>6. \A i \in 1..Len(acts) : /\ acts[i].op \in {"func", "cancelTimer"} /\ ~Moves(acts[i])
                              /\ acts[i].op = "func" => acts[i].arg \notin {"sendZfin", "sendOO"}
                              /\ acts[i].op = "func" /\ acts[i].arg = "sendClientWorkingDir" =>
                                     curState = "IDLE_STATE"
  BY <1>1, EntriesAndExits
<1> HIDE DEF acts
<1>7. /\ pre \in Seq(CallSet) /\ Len(pre) = Len(acts)
      /\ \A i \in 1..Len(acts) : pre[i].op = acts[i].op /\ pre[i].arg = acts[i].arg
  BY <1>4, CallsLemma
<1>8. c \in CallSet /\ c.op = "enter" /\ c.arg = Arg
  BY <1>3 DEF Call, CallSet
<1> HIDE DEF pre, c
<1>9. \A j \in 1..Len(pre) : /\ ~Moves(pre[j]) /\ TurnOf(pre[j]) = "none"
                             /\ Fits(pre[j], curState, initialized)
  BY <1>6, <1>7 DEF Moves, TurnOf, Fits
<1>10. Fits(c, curState, initialized) /\ TurnOf(c) = TurnOf(Head(agenda)) /\ Moves(Head(agenda))
  BY <1>1, <1>2, <1>8 DEF Fits, Moves, TurnOf, Arg
<1>11. /\ cs \in Seq(CallSet) /\ OneMove(cs)
       /\ \A i \in 1..Len(cs) : cs[i] = c \/ \E j \in 1..Len(pre) : cs[i] = pre[j]
  BY <1>7, <1>8, <1>9, BeforeLast, Zenon
<1> HIDE DEF cs
<1>12. \A i \in 1..Len(cs) : /\ Fits(cs[i], curState', initialized')
                             /\ TurnOf(cs[i]) \in {"none", TurnOf(Head(agenda))}
  BY <1>1, <1>9, <1>10, <1>11
<1>13. QueueKept /\ (~initialized' => curState' = "IDLE_STATE")
  BY <1>1, QueueSame DEF CallsInv
<1> QED
  BY <1>1, <1>5, <1>10, <1>11, <1>12, <1>13, SwapTurns

\* The new state runs its entry actions, of which one may move.
LEMMA EnterStateKeeps ==
    ASSUME CallsInv, EngineTypeOK, EnterState
    PROVE  CallsInv' /\ TurnsKept
<1>1. /\ agenda \in Seq(CallSet) /\ agenda # <<>> /\ Head(agenda).op = "enter"
      /\ UNCHANGED <<initialized, jobs>> /\ curState' = Arg
  BY DEF EnterState, Calling, EngineTypeOK
<1>2. Fits(Head(agenda), curState, initialized) /\ Head(agenda) \in CallSet
  BY <1>1, HeadCall
<1>3. Arg \in States /\ Arg \in SzStates /\ Moves(Head(agenda)) /\ initialized
      /\ (curState \in Gone => Arg \in Gone) /\ (Arg = "IDLE_STATE" => curState = "IDLE_STATE")
      /\ TurnOf(Head(agenda)) = TurnOfState(Arg)
  BY <1>1, <1>2, SzAssumption DEF CallSet, Arg, Moves, Fits, TurnOf
<1> DEFINE acts == Table[Arg]["ENTRY_EVT"]
           cs   == Calls(acts, AnyState)
<1>4. acts \in Seq(Action)
  BY <1>3, TableAssumption
<1>5. agenda' = cs \o Rest
  BY DEF EnterState
<1>6. /\ OneMove(acts)
      /\ \A i \in 1..Len(acts) :
             /\ acts[i].op \in {"func", "newTimer", "destroy"}
             /\ acts[i].op = "func" => TurnOfFunc(acts[i].arg) \in {"none", TurnOfState(Arg)}
             /\ acts[i].op = "func" => acts[i].arg \notin {"parseFrame", "sendClientWorkingDir"}
             /\ acts[i].op = "func" /\ acts[i].arg \in {"sendZfin", "sendOO"} => Arg \in Gone
  BY <1>3, EntriesAndExits
<1> HIDE DEF acts
<1>7. /\ cs \in Seq(CallSet) /\ Len(cs) = Len(acts) /\ OneMove(cs)
      /\ \A i \in 1..Len(acts) : cs[i].op = acts[i].op /\ cs[i].arg = acts[i].arg
  BY <1>4, <1>6, CallsLemma
<1> HIDE DEF cs
<1>8. Arg \in Gone \/ Arg = "IDLE_STATE" => TurnOfState(Arg) = "none"
  BY DEF TurnOfState, Gone
<1>9. ASSUME NEW i \in 1..Len(cs)
      PROVE  /\ Fits(cs[i], Arg, initialized)
             /\ TurnOf(cs[i]) \in {"none", TurnOf(Head(agenda))}
  <2>1. /\ cs[i].op \in {"func", "newTimer", "destroy"}
        /\ cs[i].op = "func" => TurnOfFunc(cs[i].arg) \in {"none", TurnOfState(Arg)}
        /\ cs[i].op = "func" => cs[i].arg \notin {"parseFrame", "sendClientWorkingDir"}
        /\ cs[i].op = "func" /\ cs[i].arg \in {"sendZfin", "sendOO"} => Arg \in Gone
    BY <1>6, <1>7
  <2>2. TurnOf(cs[i]) \in {"none", TurnOf(Head(agenda))}
    BY <1>3, <2>1 DEF TurnOf
  <2>3. Fits(cs[i], Arg, initialized)
    BY <1>3, <1>8, <2>1 DEF Fits, Moves
  <2> QED
    BY <2>2, <2>3
<1>10. \A i \in 1..Len(cs) : /\ Fits(cs[i], curState', initialized')
                             /\ TurnOf(cs[i]) \in {"none", TurnOf(Head(agenda))}
  BY <1>1, <1>9
<1>11. QueueKept /\ (~initialized' => curState' = "IDLE_STATE") /\ (curState \in Gone => curState' \in Gone)
  BY <1>1, <1>3, QueueSame
<1> QED
  BY <1>1, <1>3, <1>5, <1>7, <1>10, <1>11, SwapTurns

\* The engine moves a turn, or drops it: it makes none.
LEMMA EngineKeeps ==
    ASSUME CallsInv, EngineTypeOK, EngineStep
    PROVE  CallsInv' /\ TurnsKept
<1>1. agenda \in Seq(CallSet) /\ jobs \in Seq(Events)
  BY DEF EngineTypeOK
<1>2. CASE PollJob
  <2>1. /\ agenda = <<>> /\ jobs # <<>> /\ jobs' = Tail(jobs)
        /\ agenda' = <<Call("handle", Head(jobs))>>
        /\ UNCHANGED <<curState, initialized>>
    BY <1>2 DEF PollJob, Idle
  <2> DEFINE c == Call("handle", Head(jobs))
  <2>2. /\ Len(jobs) \in Nat \ {0} /\ Head(jobs) = jobs[1] /\ Len(jobs') = Len(jobs) - 1
        /\ \A i \in 1..Len(jobs') : i + 1 \in 1..Len(jobs) /\ jobs'[i] = jobs[i + 1]
        /\ 1 \in 1..Len(jobs)
    BY <1>1, <2>1, HeadTailProperties, EmptySeq, LenProperties
  <2>3. Head(jobs) \in Handled \ {"HANDLE_FRAME_EVT"}
    BY <2>2 DEF CallsInv
  <2>4. c.op = "handle" /\ c.arg = Head(jobs)
    BY DEF Call
  <2> HIDE DEF c
  <2>5. Len(agenda') = 1 /\ agenda'[1] = c /\ Len(agenda) = 0
    BY <2>1 DEF c
  <2>6. Fits(c, curState', initialized')
    BY <2>3, <2>4 DEF Fits
  <2>7. CallsInv'
    BY <2>1, <2>2, <2>5, <2>6 DEF CallsInv, OneMove
  <2>8. TurnOf(c) = TurnOfEvent(jobs[1]) /\ TurnOf(c) # "frame"
    BY <2>2, <2>3, <2>4 DEF TurnOf, TurnOfEvent
  <2>9. \A k \in Turns : k # "none" /\ ~Called(k)
    BY <2>5 DEF Called, Turns
  <2>10. ASSUME NEW k \in Turns
         PROVE  /\ Queued(k)' => \E i \in 2..Len(jobs) : TurnOfEvent(jobs[i]) = k
                /\ Called(k)' => TurnOfEvent(jobs[1]) = k
    <3>1. ASSUME Queued(k)' PROVE \E i \in 2..Len(jobs) : TurnOfEvent(jobs[i]) = k
      <4>1. PICK i \in 1..Len(jobs') : TurnOfEvent(jobs'[i]) = k
        BY <3>1 DEF Queued
      <4>2. i + 1 \in 2..Len(jobs) /\ TurnOfEvent(jobs[i + 1]) = k
        BY <2>2, <4>1
      <4> QED
        BY <4>2
    <3>2. Called(k)' => TurnOfEvent(jobs[1]) = k
      BY <2>5, <2>8 DEF Called
    <3> QED
      BY <3>1, <3>2
  <2>11. \A k \in Turns : Has(k)' => Has(k)
    BY <2>2, <2>10 DEF Has, Queued
  <2>12. ~Called("frame")'
    BY <2>5, <2>8 DEF Called
  <2>13. SzOne => SzOne'
    <3> SUFFICES ASSUME SzOne PROVE SzOne'
      OBVIOUS
    <3>1. QueueOne'
      BY <2>2 DEF SzOne, QueueOne
    <3>2. \A k, l \in Turns : ~(Called(k) /\ Queued(l))'
      BY <2>2, <2>9, <2>10 DEF SzOne
    <3> QED
      BY <3>1, <3>2 DEF SzOne, QueueOne
  <2> QED
    BY <2>1, <2>7, <2>11, <2>12, <2>13 DEF TurnsKept, Alive
<1>3. CASE RunFreedJob \/ LeaveLoop \/ NextTurn
  <2>1. UNCHANGED <<curState, initialized, jobs, agenda>>
    BY <1>3 DEF RunFreedJob, LeaveLoop, NextTurn
  <2> QED
    BY <2>1 DEF CallsInv, OneMove, TurnsKept, Has, Called, Queued, SzOne, Alive
<1>4. CASE IgnoreRest \/ NewTimer \/ CancelTimer \/ IgnoreEvent \/ DeleteSelf
  <2>1. agenda # <<>> /\ agenda' = Rest /\ UNCHANGED <<curState, initialized, jobs>>
    BY <1>4 DEF IgnoreRest, NewTimer, CancelTimer, IgnoreEvent, DeleteSelf, Calling
  <2> QED
    BY <1>1, <2>1, QueueSame, DropKeeps
<1>5. CASE Destroy
  <2>1. agenda # <<>> /\ agenda' = Rest /\ UNCHANGED <<curState, initialized>>
        /\ jobs' = Posted(jobs, <<"DESTROY_EVT">>)
    BY <1>5 DEF Destroy, Calling
  <2> QED
    BY <1>1, <2>1, IdleEvents, OneIdle, DropKeeps
<1> QED
  BY <1>2, <1>3, <1>4, <1>5, EnterFirstStateKeeps, MarkInitializedKeeps, HandleEventKeeps,
     UndefinedKeeps, ChangeStateKeeps, EnterStateKeeps
  DEF EngineStep, WorkerStep, CallStep

\* A timer that fires when nothing is called: its event has no turn.
LEMMA TimerKeeps ==
    ASSUME CallsInv, EngineTypeOK, FireFsmTimer
    PROVE  CallsInv' /\ TurnsKept
<1> DEFINE c == Call("handle", "TIMEOUT_EVT")
<1>1. /\ agenda = <<>> /\ agenda' = <<c>> /\ UNCHANGED <<curState, initialized, jobs>>
  BY DEF FireFsmTimer, Idle
<1>2. c.op = "handle" /\ c.arg = "TIMEOUT_EVT"
  BY DEF Call
<1> HIDE DEF c
<1>3. Len(agenda) = 0 /\ Len(agenda') = 1 /\ agenda'[1] = c
  BY <1>1
<1>4. Fits(c, curState, initialized) /\ TurnOf(c) = "none"
  BY <1>2 DEF Fits, TurnOf, TurnOfEvent, Handled, ZEvents
<1>5. CallsInv'
  BY <1>1, <1>3, <1>4 DEF CallsInv, OneMove
<1>6. \A k \in Turns : ~Called(k)' /\ (Queued(k)' <=> Queued(k))
  BY <1>1, <1>3, <1>4 DEF Called, Turns, Queued
<1>7. SzOne => SzOne'
  BY <1>1, <1>6 DEF SzOne
<1>8. "frame" \in Turns
  BY DEF Turns
<1> QED
  BY <1>1, <1>5, <1>6, <1>7, <1>8 DEF TurnsKept, Has, Alive

\* The timers of the event loop post events without a turn, too.
LEMMA TickKeeps ==
    ASSUME CallsInv, EngineTypeOK, NEW es \in Seq(Idles), FireInputTimer(es)
    PROVE  CallsInv' /\ TurnsKept
<1>1. /\ UNCHANGED <<curState, initialized, agenda>> /\ QueueKept
  BY PostedIdle DEF FireInputTimer, EngineTypeOK
<1>2. CallsInv'
  BY <1>1 DEF CallsInv, QueueKept, QueueOK
<1>3. \A k \in Turns : (Called(k)' <=> Called(k)) /\ (Queued(k)' <=> Queued(k))
  BY <1>1 DEF Called, QueueKept
<1>4. SzOne => SzOne'
  BY <1>1, <1>3 DEF SzOne, QueueKept, QueueOne
<1>5. "frame" \in Turns
  BY DEF Turns
<1> QED
  BY <1>1, <1>2, <1>3, <1>4, <1>5 DEF TurnsKept, Has, Alive

\* The function that runs is the first on the stack.
LEMMA RunningLemma ==
    ASSUME CallsInv, EngineTypeOK, NEW f, Running(f)
    PROVE  /\ agenda \in Seq(CallSet) /\ agenda # <<>> /\ jobs \in Seq(Events)
           /\ Head(agenda).op = "func" /\ Head(agenda).arg = f
           /\ Fits(Head(agenda), curState, initialized)
           /\ f = "parseFrame" \/ TurnOfFunc(f) # "none" => Moves(Head(agenda)) /\ curState # "IDLE_STATE"
           /\ TurnOfFunc(f) # "none" => Called(TurnOfFunc(f)) /\ Alive
<1>1. /\ agenda \in Seq(CallSet) /\ agenda # <<>> /\ jobs \in Seq(Events)
      /\ Head(agenda).op = "func" /\ Head(agenda).arg = f
  BY DEF Running, Calling, Arg, EngineTypeOK
<1>2. /\ Head(agenda) = agenda[1] /\ 1 \in 1..Len(agenda)
      /\ Fits(Head(agenda), curState, initialized)
  BY <1>1, HeadCall
<1>3. f = "parseFrame" \/ TurnOfFunc(f) # "none" => Moves(Head(agenda)) /\ curState # "IDLE_STATE"
  BY <1>1, <1>2 DEF Moves, Fits
<1>4. TurnOfFunc(f) # "none" => Called(TurnOfFunc(f)) /\ Alive
  BY <1>1, <1>2 DEF Called, TurnOf, Fits, Alive
<1> QED
  BY <1>1, <1>2, <1>3, <1>4

\* It returns, and may queue events without a turn.
LEMMA FuncKeeps ==
    ASSUME CallsInv, EngineTypeOK, NEW f, Running(f), NEW timer, NEW es \in Seq(Idles),
           FuncReturns(timer, Posted(jobs, es), <<>>)
    PROVE  CallsInv' /\ TurnsKept /\ UNCHANGED <<curState, initialized>>
<1>1. /\ agenda \in Seq(CallSet) /\ agenda # <<>> /\ jobs \in Seq(Events)
      /\ UNCHANGED <<curState, initialized>> /\ agenda' = <<>> \o Rest
      /\ jobs' = Posted(jobs, es)
  BY RunningLemma DEF FuncReturns
<1>2. agenda' = Rest
  <2>1. Rest \in Seq(CallSet)
    BY <1>1, HeadTailProperties DEF Rest
  <2> QED
    BY <1>1, <2>1, ConcatEmptySeq
<1> QED
  BY <1>1, <1>2, PostedIdle, DropKeeps

\* A function that does nothing to the queue, ...
LEMMA ReturnsKeeps ==
    ASSUME CallsInv, EngineTypeOK, NEW f, Running(f), Returns
    PROVE  CallsInv' /\ TurnsKept /\ UNCHANGED <<curState, initialized>>
<1>1. <<>> \in Seq(Idles) /\ jobs \in Seq(Events)
  BY DEF EngineTypeOK
<1>2. Posted(jobs, <<>>) = jobs
  BY <1>1, ConcatEmptySeq DEF Posted
<1> QED
  BY <1>1, <1>2, FuncKeeps DEF Returns

\* ... and one that posts an event without a turn.
LEMMA EndingKeeps ==
    ASSUME CallsInv, EngineTypeOK, NEW f, Running(f), NEW e \in Idles, ReturnsPosting(e)
    PROVE  CallsInv' /\ TurnsKept /\ UNCHANGED <<curState, initialized>>
<1>1. <<e>> \in Seq(Idles)
  OBVIOUS
<1> QED
  BY <1>1, FuncKeeps DEF ReturnsPosting

\* A function that moves has gone from the stack, and no turn is left there.
LEMMA MoveGone ==
    ASSUME CallsInv, EngineTypeOK, NEW f, Running(f), NEW timer, NEW queue,
           f = "parseFrame" \/ TurnOfFunc(f) # "none", FuncReturns(timer, queue, <<>>)
    PROVE  /\ \A k \in Turns : ~Called(k)'
           /\ QueueOK' => CallsInv'
           /\ UNCHANGED <<curState, initialized>>
<1> DEFINE cs == <<>>
<1>1. /\ agenda \in Seq(CallSet) /\ agenda # <<>> /\ Moves(Head(agenda))
      /\ UNCHANGED <<curState, initialized>> /\ agenda' = cs \o Rest
  BY RunningLemma DEF FuncReturns
<1>2. cs \in Seq(CallSet) /\ Len(cs) = 0
  OBVIOUS
<1>3. OneMove(cs) /\ OneMove(agenda)
  BY <1>2 DEF OneMove, CallsInv
<1> HIDE DEF cs
<1>4. /\ OneMove(agenda')
      /\ \A i \in 1..Len(agenda') : \E j \in 1..Len(agenda) :
             agenda'[i] = agenda[j] /\ agenda[j].op = "newTimer"
  <2>1. /\ OneMove(agenda')
        /\ \A i \in 1..Len(agenda') :
               \/ \E j \in 1..Len(cs) : agenda'[i] = cs[j]
               \/ \E j \in 1..Len(agenda) :
                      /\ agenda'[i] = agenda[j]
                      /\ Moves(Head(agenda)) => agenda[j].op = "newTimer"
    BY <1>1, <1>2, <1>3, Replaced
  <2>2. ~\E j \in 1..Len(cs) : TRUE
    BY <1>2
  <2> QED
    BY <1>1, <2>1, <2>2
<1>5. \A k \in Turns : ~Called(k)'
  BY <1>4, TurnsMove DEF Called, Turns
<1>6. QueueOK' => CallsInv'
  BY <1>1, <1>4, TurnsMove DEF CallsInv, QueueOK
<1> QED
  BY <1>1, <1>5, <1>6

\* Such a function may pass its turn on to the queue.
LEMMA PassesTurn ==
    ASSUME CallsInv, EngineTypeOK, SzOne, NEW f, Running(f), TurnOfFunc(f) # "none",
           TurnOfFunc(f) \in Turns,
           NEW e \in {"SKIP_EVT", "SEND_ZDATA_EVT"}, ReturnsPosting(e)
    PROVE  /\ CallsInv' /\ SzOne' /\ UNCHANGED <<curState, initialized>>
           /\ \A k \in Turns : ~Called(k)' /\ (Has(k)' => k = TurnOfEvent(e))
<1>1. jobs \in Seq(Events) /\ Called(TurnOfFunc(f))
  BY RunningLemma
<1>2. \A k \in Turns : ~Queued(k)
  BY <1>1 DEF SzOne
<1>3. /\ \A k \in Turns : ~Called(k)'
      /\ QueueOK' => CallsInv'
      /\ UNCHANGED <<curState, initialized>>
  BY MoveGone DEF ReturnsPosting
<1>4. jobs' = Posted(jobs, <<e>>)
  BY DEF ReturnsPosting, FuncReturns
<1>5. \A i \in 1..Len(jobs) : TurnOfEvent(jobs[i]) = "none"
  BY <1>2 DEF Queued, TurnOfEvent, Turns
<1>6. e \in Handled \ {"HANDLE_FRAME_EVT"} /\ e \in Events
  BY ZmodemAssumption DEF Handled, ZEvents
<1>7. Len(jobs) \in Nat /\
      \A i \in 1..Len(jobs') : \/ i \in 1..Len(jobs) /\ jobs'[i] = jobs[i]
                               \/ i = Len(jobs) + 1 /\ jobs'[i] = e
  <2>1. CASE toDelete \/ waitStop
    BY <1>1, <1>4, <2>1, LenProperties DEF Posted
  <2>2. CASE ~(toDelete \/ waitStop)
    <3>1. jobs' = Append(jobs, e)
      BY <1>1, <1>4, <1>6, <2>2 DEF Posted
    <3> QED
      BY <1>1, <1>6, <3>1, AppendProperties, LenProperties
  <2> QED
    BY <2>1, <2>2
<1>8. CallsInv'
  BY <1>3, <1>6, <1>7 DEF QueueOK, CallsInv
<1>9. SzOne'
  <2>1. QueueOne'
    BY <1>5, <1>7 DEF QueueOne
  <2> QED
    BY <1>3, <2>1 DEF SzOne, QueueOne
<1>10. \A k \in Turns : Has(k)' => k = TurnOfEvent(e)
  BY <1>3, <1>5, <1>7 DEF Has, Queued, Turns
<1> QED
  BY <1>3, <1>8, <1>9, <1>10

\* parseFrame takes a turn from the line.
LEMMA TakesTurn ==
    ASSUME CallsInv, EngineTypeOK, Running("parseFrame"),
           NEW e \in {"RESET_EVT", "HANDLE_FRAME_EVT"},
           FuncReturns(fsmTimer, jobs, <<Call("handle", e)>>)
    PROVE  /\ CallsInv' /\ UNCHANGED <<curState, initialized, jobs>>
           /\ \A k \in Turns : Called(k)' => k = TurnOfEvent(e)
<1> DEFINE c == Call("handle", e)
           cs == <<c>>
<1>1. /\ agenda \in Seq(CallSet) /\ agenda # <<>> /\ Moves(Head(agenda))
      /\ UNCHANGED <<curState, initialized, jobs>> /\ agenda' = cs \o Rest
  BY RunningLemma DEF FuncReturns
<1>2. c \in CallSet /\ c.op = "handle" /\ c.arg = e
  BY ZmodemAssumption DEF Call, CallSet, ZEvents
<1> HIDE DEF c
<1>3. cs \in Seq(CallSet) /\ Len(cs) = 1 /\ \A i \in 1..Len(cs) : cs[i] = c
  BY <1>2
<1>4. Fits(c, curState, initialized) /\ TurnOf(c) = TurnOfEvent(e)
  BY <1>2 DEF Fits, TurnOf, Handled, ZEvents
<1> HIDE DEF cs
<1>5. OneMove(cs)
  BY <1>3 DEF OneMove
<1>6. QueueOK' /\ (~initialized' => curState' = "IDLE_STATE")
  BY <1>1 DEF CallsInv, QueueOK
<1>7. \A i \in 1..Len(cs) : Fits(cs[i], curState', initialized')
  BY <1>1, <1>3, <1>4
<1>8. CallsInv' /\ \A k \in Turns : Called(k)' => \E i \in 1..Len(cs) : TurnOf(cs[i]) = k
  BY <1>1, <1>3, <1>5, <1>6, <1>7, SwapKeeps
<1> QED
  BY <1>1, <1>3, <1>4, <1>8

-----------------------------------------------------------------------------
(***************************************************************************)
(* The line: which tokens are on it, and where they go.                    *)
(***************************************************************************)

\* A sequence that gets another token, or loses its first one.
LEMMA NoLemma ==
    ASSUME NEW S, NEW u \in Seq(S), NEW t \in S, NEW T
    PROVE  /\ No(T, Append(u, t)) <=> No(T, u) /\ t.type \notin T
           /\ OneOf(T, u) /\ (No(T, u) \/ t.type \notin T) => OneOf(T, Append(u, t))
<1>1. /\ Len(u) \in Nat /\ Len(Append(u, t)) = Len(u) + 1 /\ Append(u, t)[Len(u) + 1] = t
      /\ \A i \in 1..Len(u) : Append(u, t)[i] = u[i]
  BY AppendProperties, LenProperties
<1> DEFINE v == Append(u, t)
<1>2. /\ \A i \in 1..Len(v) : (i \in 1..Len(u) /\ v[i] = u[i]) \/ (i = Len(u) + 1 /\ v[i] = t)
      /\ \A i \in 1..Len(u) : i \in 1..Len(v)
      /\ Len(u) + 1 \in 1..Len(v) /\ v[Len(u) + 1] = t /\ \A i \in 1..Len(u) : v[i] = u[i]
  BY <1>1
<1> HIDE DEF v
<1>3. No(T, v) <=> No(T, u) /\ t.type \notin T
  <2>1. No(T, v) => No(T, u) /\ t.type \notin T
    BY <1>2 DEF No
  <2>2. No(T, u) /\ t.type \notin T => No(T, v)
    BY <1>2 DEF No
  <2> QED
    BY <2>1, <2>2
<1>4. OneOf(T, u) /\ (No(T, u) \/ t.type \notin T) => OneOf(T, v)
  BY <1>2 DEF OneOf, No
<1> QED
  BY <1>3, <1>4 DEF v

\* A token of u \o v is one of u or one of v.
LEMMA ConcatLemma ==
    ASSUME NEW S, NEW u \in Seq(S), NEW v \in Seq(S)
    PROVE  \A i \in 1..Len(u \o v) :
               \/ i \in 1..Len(u) /\ (u \o v)[i] = u[i]
               \/ i - Len(u) \in 1..Len(v) /\ (u \o v)[i] = v[i - Len(u)]
<1>1. /\ Len(u) \in Nat /\ Len(v) \in Nat /\ Len(u \o v) = Len(u) + Len(v)
      /\ \A i \in 1..Len(u \o v) : (u \o v)[i] = IF i <= Len(u) THEN u[i] ELSE v[i - Len(u)]
  BY ConcatProperties, LenProperties
<1> DEFINE w == u \o v
<1> HIDE DEF w
<1>2. ASSUME NEW i \in 1..Len(w)
      PROVE  i \in 1..Len(u) \/ (i - Len(u) \in 1..Len(v) /\ ~(i <= Len(u)))
  BY <1>1, <1>2 DEF w
<1> QED
  BY <1>1, <1>2 DEF w

\* The front of a sequence, ...
LEMMA FrontLemma ==
    ASSUME NEW S, NEW u \in Seq(S), u # <<>>
    PROVE  /\ Front(u) \in Seq(S) /\ Len(Front(u)) = Len(u) - 1
           /\ \A i \in 1..Len(u) - 1 : Front(u)[i] = u[i]
<1> DEFINE n == Len(u) - 1
<1>1. Len(u) \in Nat \ {0} /\ n \in Nat /\ Front(u) = SubSeq(u, 1, n)
  BY EmptySeq, LenProperties DEF Front
<1>2. \A i \in 1..n : u[i] \in S
  BY <1>1, ElementOfSeq
<1> HIDE DEF n
<1>3. /\ SubSeq(u, 1, n) \in Seq(S)
      /\ Len(SubSeq(u, 1, n)) = IF 1 <= n THEN n - 1 + 1 ELSE 0
      /\ \A i \in 1..n - 1 + 1 : SubSeq(u, 1, n)[i] = u[1 + i - 1]
  BY <1>1, <1>2, SubSeqProperties
<1>4. n - 1 + 1 = n /\ (IF 1 <= n THEN n - 1 + 1 ELSE 0) = n
  BY <1>1
<1>5. \A i \in 1..n : SubSeq(u, 1, n)[i] = u[i]
  <2>1. \A i \in 1..n : 1 + i - 1 = i
    OBVIOUS
  <2> QED
    BY <1>3, <1>4, <2>1
<1> QED
  BY <1>1, <1>3, <1>4, <1>5 DEF n

\* ... and its tail: where each token stands in both.
LEMMA TailLemma ==
    ASSUME NEW S, NEW u \in Seq(S), u # <<>>
    PROVE  /\ Tail(u) \in Seq(S) /\ Len(u) \in Nat \ {0} /\ Len(Tail(u)) = Len(u) - 1
           /\ Head(u) = u[1] /\ 1 \in 1..Len(u) /\ Head(u) \in S
           /\ \A i \in 1..Len(Tail(u)) : i + 1 \in 1..Len(u) /\ Tail(u)[i] = u[i + 1]
           /\ \A i \in 1..Len(u) : i = 1 \/ (i - 1 \in 1..Len(Tail(u)) /\ u[i] = Tail(u)[i - 1])
<1>1. /\ Tail(u) \in Seq(S) /\ Len(u) \in Nat \ {0} /\ Len(Tail(u)) = Len(u) - 1
      /\ Head(u) = u[1] /\ Head(u) \in S
      /\ \A i \in 1..Len(Tail(u)) : Tail(u)[i] = u[i + 1]
  BY HeadTailProperties, EmptySeq, LenProperties
<1>2. \A i \in 1..Len(u) : i = 1 \/ (i - 1 \in 1..Len(Tail(u)) /\ u[i] = Tail(u)[i - 1])
  <2> SUFFICES ASSUME NEW i \in 1..Len(u), i # 1
               PROVE  i - 1 \in 1..Len(Tail(u)) /\ u[i] = Tail(u)[i - 1]
    OBVIOUS
  <2>1. i - 1 \in 1..Len(Tail(u)) /\ (i - 1) + 1 = i
    BY <1>1
  <2> QED
    BY <1>1, <2>1
<1> QED
  BY <1>1, <1>2

\* What is said of the types in a sequence is said of its tail.
LEMMA NoTail ==
    ASSUME NEW S, NEW u \in Seq(S), u # <<>>, NEW T
    PROVE  /\ No(T, u) <=> No(T, Tail(u)) /\ Head(u).type \notin T
           /\ OneOf(T, u) => OneOf(T, Tail(u))
           /\ OneOf(T, u) /\ Head(u).type \in T => No(T, Tail(u))
<1> DEFINE v == Tail(u)
<1>1. /\ Len(u) \in Nat \ {0} /\ Head(u) = u[1] /\ 1 \in 1..Len(u)
      /\ \A i \in 1..Len(v) : i + 1 \in 1..Len(u) /\ v[i] = u[i + 1] /\ i \in Nat \ {0}
      /\ \A i \in 1..Len(u) : i = 1 \/ (i - 1 \in 1..Len(v) /\ u[i] = v[i - 1])
  BY TailLemma
<1> HIDE DEF v
<1>2. No(T, u) => No(T, v) /\ Head(u).type \notin T
  BY <1>1 DEF No
<1>3. No(T, v) /\ Head(u).type \notin T => No(T, u)
  BY <1>1 DEF No
<1>4. OneOf(T, u) => OneOf(T, v)
  BY <1>1 DEF OneOf
<1>5. OneOf(T, u) /\ Head(u).type \in T => No(T, v)
  <2> SUFFICES ASSUME OneOf(T, u), Head(u).type \in T, NEW i \in 1..Len(v), v[i].type \in T
               PROVE  FALSE
    BY DEF No
  <2>1. i + 1 \in 1..Len(u) /\ u[i + 1].type \in T /\ u[1].type \in T /\ i + 1 # 1
    BY <1>1
  <2> QED
    BY <1>1, <2>1 DEF OneOf
<1> QED
  BY <1>2, <1>3, <1>4, <1>5 DEF v

-----------------------------------------------------------------------------
\* What is read are the first m tokens of the line; the last may be there in part.
TakenOff(S, line, r) ==
    \E m \in 1..Len(line), d \in Nat :
        /\ r.taken \in Seq(Buffered(S) \cup {RestOfToken}) /\ Len(r.taken) = m
        /\ \A i \in 1..m : Core(r.taken[i]) = Core(line[i])
        /\ \A i \in 1..Len(r.left) :
               \/ r.left[i].type = "rest"
               \/ i + d \in m + 1..Len(line) /\ r.left[i] = line[i + d]

\* So is every read of a line of whole tokens.
LEMMA TakenLemma ==
    ASSUME NEW S, Writable(S), NEW line \in Lines(S), line # <<>>, NEW r \in Reads(line)
    PROVE  TakenOff(S, line, r)
<1>1. /\ line \in Seq(S \cup {RestOfToken}) /\ Len(line) \in Nat \ {0}
      /\ S \subseteq Buffered(S)
  BY EmptySeq, LenProperties DEF Lines, Buffered
<1>2. \A n \in 1..Len(line) : line[n] \in S \cup {RestOfToken}
  BY <1>1, ElementOfSeq
<1>3. ASSUME NEW n \in 1..Len(line),
             r = [taken |-> SubSeq(line, 1, n), left |-> SubSeq(line, n + 1, Len(line))]
      PROVE  /\ r.taken \in Seq(Buffered(S) \cup {RestOfToken}) /\ Len(r.taken) = n
             /\ \A i \in 1..n : Core(r.taken[i]) = Core(line[i])
             /\ \A i \in 1..Len(r.left) : i + n \in n + 1..Len(line) /\ r.left[i] = line[i + n]
  <2>1. /\ r.taken \in Seq(S \cup {RestOfToken}) /\ Len(r.taken) = n
        /\ \A i \in 1..n : r.taken[i] = line[i]
    BY <1>1, <1>3, SubSeqProperties
  <2>2. r.taken \in Seq(Buffered(S) \cup {RestOfToken})
    BY <1>1, <2>1, SeqMonotonic
  <2>3. Len(r.left) = Len(line) - n /\ \A i \in 1..Len(r.left) : r.left[i] = line[n + 1 + i - 1]
    BY <1>1, <1>3, SubSeqProperties
  <2>4. \A i \in 1..Len(r.left) : i + n \in n + 1..Len(line) /\ n + 1 + i - 1 = i + n
    BY <1>1, <2>3
  <2> QED
    BY <2>1, <2>2, <2>3, <2>4
<1>4. ASSUME NEW n \in 1..Len(line), line[n].type \in HeaderTypes \cup {"DATA", "NAME"},
             r = [taken |-> Append(SubSeq(line, 1, n - 1), Part(line[n])),
                  left  |-> <<RestOfToken>> \o SubSeq(line, n + 1, Len(line))]
      PROVE  /\ r.taken \in Seq(Buffered(S) \cup {RestOfToken}) /\ Len(r.taken) = n
             /\ \A i \in 1..n : Core(r.taken[i]) = Core(line[i])
             /\ n - 1 \in Nat
             /\ \A i \in 1..Len(r.left) :
                    \/ r.left[i].type = "rest"
                    \/ i + (n - 1) \in n + 1..Len(line) /\ r.left[i] = line[i + (n - 1)]
  <2> DEFINE p == SubSeq(line, 1, n - 1)
             q == SubSeq(line, n + 1, Len(line))
  <2>1. /\ p \in Seq(S \cup {RestOfToken}) /\ Len(p) = n - 1
        /\ \A i \in 1..Len(p) : p[i] = line[i]
    BY <1>1, SubSeqProperties
  <2>2. /\ q \in Seq(S \cup {RestOfToken}) /\ Len(q) = Len(line) - n
        /\ \A i \in 1..Len(q) : q[i] = line[n + 1 + i - 1]
    BY <1>1, SubSeqProperties
  <2>3. line[n] \in S /\ Part(line[n]) \in Buffered(S)
    BY <1>2, <1>4 DEF RestOfToken, HeaderTypes, Buffered
  <2>4. Core(Part(line[n])) = line[n] /\ Core(line[n]) = line[n]
    BY <1>4 DEF Core, Part, HeaderTypes
  <2> HIDE DEF p, q
  <2>5. p \in Seq(Buffered(S) \cup {RestOfToken}) /\ r.taken = Append(p, Part(line[n]))
    BY <1>1, <1>4, <2>1, SeqMonotonic DEF p
  <2>6. /\ r.taken \in Seq(Buffered(S) \cup {RestOfToken}) /\ Len(r.taken) = n
        /\ \A i \in 1..n - 1 : r.taken[i] = line[i]
        /\ r.taken[n] = Part(line[n])
    BY <2>1, <2>3, <2>5, AppendProperties
  <2>7. \A i \in 1..n : Core(r.taken[i]) = Core(line[i])
    BY <2>4, <2>6
  <2>8. /\ r.left = <<RestOfToken>> \o q /\ <<RestOfToken>> \in Seq(S \cup {RestOfToken})
        /\ Len(<<RestOfToken>>) = 1 /\ <<RestOfToken>>[1] = RestOfToken
    BY <1>4 DEF q
  <2>9. /\ Len(r.left) = Len(q) + 1 /\ r.left[1] = RestOfToken
        /\ \A i \in 2..Len(r.left) : i - 1 \in 1..Len(q) /\ r.left[i] = q[i - 1]
    <3> DEFINE w == <<RestOfToken>>
    <3>1. w \in Seq(S \cup {RestOfToken}) /\ Len(w) = 1 /\ w[1] = RestOfToken /\ r.left = w \o q
      BY <2>8
    <3>2. Len(q) \in Nat
      BY <2>2, LenProperties
    <3> HIDE DEF w
    <3>3. /\ Len(r.left) = 1 + Len(q)
          /\ \A i \in 1..Len(r.left) : r.left[i] = IF i <= 1 THEN w[i] ELSE q[i - 1]
      <4> DEFINE Sx == S \cup {RestOfToken}
                 z  == w \o q
      <4>1. w \in Seq(Sx) /\ q \in Seq(Sx)
        BY <2>2, <3>1
      <4> HIDE DEF Sx
      <4>2. /\ Len(z) = Len(w) + Len(q)
            /\ \A i \in 1..Len(z) : z[i] = IF i <= Len(w) THEN w[i] ELSE q[i - Len(w)]
        BY ONLY <4>1, ConcatProperties
      <4> QED
        BY ONLY <3>1, <4>2
    <3> QED
      BY ONLY <3>1, <3>2, <3>3
  <2>10. RestOfToken.type = "rest"
    BY DEF RestOfToken
  <2>11. ASSUME NEW i \in 2..Len(r.left)
         PROVE  i + (n - 1) \in n + 1..Len(line) /\ r.left[i] = line[i + (n - 1)]
    <3>1. i - 1 \in 1..Len(q) /\ r.left[i] = q[i - 1] /\ i \in Nat /\ n \in Nat /\ Len(q) \in Nat
      <4>1. Len(q) \in Nat
        BY <2>2, LenProperties
      <4> QED
        BY ONLY <2>9, <4>1, n \in 1..Len(line), i \in 2..Len(r.left)
    <3>2. q[i - 1] = line[n + 1 + (i - 1) - 1]
      BY <2>2, <3>1
    <3>3. n + 1 + (i - 1) - 1 = i + (n - 1)
      BY <3>1
    <3>4. i + (n - 1) \in n + 1..Len(line)
      BY <1>1, <2>2, <3>1
    <3> QED
      BY <3>1, <3>2, <3>3, <3>4
  <2>12. Len(r.left) \in Nat /\ n - 1 \in Nat
    BY <1>1, <2>2, <2>9
  <2>13. \A i \in 1..Len(r.left) : i = 1 \/ i \in 2..Len(r.left)
    BY <2>12
  <2> QED
    BY <2>6, <2>7, <2>9, <2>10, <2>11, <2>12, <2>13
<1>5. \/ \E n \in 1..Len(line) :
            r = [taken |-> SubSeq(line, 1, n), left |-> SubSeq(line, n + 1, Len(line))]
      \/ \E n \in 1..Len(line) :
            /\ line[n].type \in HeaderTypes \cup {"DATA", "NAME"}
            /\ r = [taken |-> Append(SubSeq(line, 1, n - 1), Part(line[n])),
                    left  |-> <<RestOfToken>> \o SubSeq(line, n + 1, Len(line))]
  BY DEF Reads
<1>6. \A n \in 1..Len(line) : n \in Nat
  OBVIOUS
<1> QED
  BY <1>3, <1>4, <1>5, <1>6 DEF TakenOff

\* The buffer and the line after they moved: where each of their tokens was.
Placed(buf, line) ==
    \E m \in 0..Len(toProgram), c, k, d \in Int :
        /\ \A i \in 1..Len(buf) :
               \/ i + c \in 1..Len(bufferM) /\ Core(buf[i]) = Core(bufferM[i + c])
               \/ i - k \in 1..m /\ Core(buf[i]) = Core(toProgram[i - k])
        /\ \A i \in 1..Len(line) :
               \/ line[i].type = "rest"
               \/ i + d \in m + 1..Len(toProgram) /\ line[i] = toProgram[i + d]

\* Nothing is new then, and nothing is doubled.
LEMMA PlacedLemma ==
    ASSUME toProgram \in Lines(Answers), Placed(bufferM', toProgram')
    PROVE  /\ \A t \in Lined' : t \in Lined \/ t.type = "rest"
           /\ \A T : "rest" \notin T => /\ LineNo(T) => LineNo(T)'
                                        /\ LineOne(T) => LineOne(T)'
<1>1. PICK m \in 0..Len(toProgram), c \in Int, k \in Int, d \in Int :
          /\ \A i \in 1..Len(bufferM') :
                 \/ i + c \in 1..Len(bufferM) /\ Core(bufferM'[i]) = Core(bufferM[i + c])
                 \/ i - k \in 1..m /\ Core(bufferM'[i]) = Core(toProgram[i - k])
          /\ \A i \in 1..Len(toProgram') :
                 \/ toProgram'[i].type = "rest"
                 \/ i + d \in m + 1..Len(toProgram) /\ toProgram'[i] = toProgram[i + d]
  BY DEF Placed
<1>2. Len(toProgram) \in Nat
  BY LenProperties DEF Lines
<1>3. ASSUME NEW i \in 1..Len(toProgram')
      PROVE  \/ Core(toProgram'[i]).type = "rest"
             \/ /\ i + d \in m + 1..Len(toProgram) /\ i + d \in 1..Len(toProgram)
                /\ Core(toProgram'[i]) = Core(toProgram[i + d])
  BY <1>1, <1>2 DEF Core
<1>4. ASSUME NEW i \in 1..Len(bufferM')
      PROVE  \/ i + c \in 1..Len(bufferM) /\ Core(bufferM'[i]) = Core(bufferM[i + c])
             \/ /\ i - k \in 1..m /\ i - k \in 1..Len(toProgram)
                /\ Core(bufferM'[i]) = Core(toProgram[i - k])
  <2>1. i - k \in 1..m => i - k \in 1..Len(toProgram)
    BY <1>2
  <2> QED
    BY <1>1, <2>1
<1>5. ASSUME NEW t \in Lined'
      PROVE  t \in Lined \/ t.type = "rest"
  <2>1. CASE \E i \in 1..Len(bufferM') : t = Core(bufferM'[i])
    BY <1>4, <2>1 DEF Lined
  <2>2. CASE \E i \in 1..Len(toProgram') : t = Core(toProgram'[i])
    BY <1>3, <2>2 DEF Lined
  <2> QED
    BY <2>1, <2>2 DEF Lined
<1>6. ASSUME NEW T, "rest" \notin T
      PROVE  /\ LineNo(T) => LineNo(T)'
             /\ LineOne(T) => LineOne(T)'
  <2>1. LineNo(T) => LineNo(T)'
    BY <1>5, <1>6 DEF LineNo
  <2>2. ASSUME LineOne(T)
        PROVE  LineOne(T)'
    <3>1. \A i, j \in 1..Len(bufferM') :
              Core(bufferM'[i]).type \in T /\ Core(bufferM'[j]).type \in T => i = j
      <4> SUFFICES ASSUME NEW i \in 1..Len(bufferM'), NEW j \in 1..Len(bufferM'),
                          Core(bufferM'[i]).type \in T, Core(bufferM'[j]).type \in T
                   PROVE  i = j
        OBVIOUS
      <4>1. /\ i + c = j + c => i = j
            /\ i - k = j - k => i = j
        <5>1. c \in Int /\ k \in Int /\ i \in Int /\ j \in Int
          BY <1>1
        <5> QED
          BY ONLY <5>1
      <4>2. CASE i + c \in 1..Len(bufferM) /\ Core(bufferM'[i]) = Core(bufferM[i + c])
        BY <1>4, <2>2, <4>1, <4>2 DEF LineOne
      <4>3. CASE /\ i - k \in 1..m /\ i - k \in 1..Len(toProgram)
                 /\ Core(bufferM'[i]) = Core(toProgram[i - k])
        BY <1>4, <2>2, <4>1, <4>3 DEF LineOne
      <4> QED
        BY <1>4, <4>2, <4>3
    <3>2. \A i, j \in 1..Len(toProgram') :
              Core(toProgram'[i]).type \in T /\ Core(toProgram'[j]).type \in T => i = j
      <4> SUFFICES ASSUME NEW i \in 1..Len(toProgram'), NEW j \in 1..Len(toProgram'),
                          Core(toProgram'[i]).type \in T, Core(toProgram'[j]).type \in T
                   PROVE  i = j
        OBVIOUS
      <4>1. /\ i + d \in 1..Len(toProgram) /\ Core(toProgram[i + d]).type \in T
            /\ j + d \in 1..Len(toProgram) /\ Core(toProgram[j + d]).type \in T
        BY <1>3, <1>6
      <4>2. i + d = j + d
        BY <2>2, <4>1 DEF LineOne
      <4>3. d \in Int /\ i \in Int /\ j \in Int
        BY <1>1
      <4> QED
        BY ONLY <4>2, <4>3
    <3>3. \A i \in 1..Len(bufferM'), j \in 1..Len(toProgram') :
              ~(Core(bufferM'[i]).type \in T /\ Core(toProgram'[j]).type \in T)
      <4> SUFFICES ASSUME NEW i \in 1..Len(bufferM'), NEW j \in 1..Len(toProgram'),
                          Core(bufferM'[i]).type \in T, Core(toProgram'[j]).type \in T
                   PROVE  FALSE
        OBVIOUS
      <4>1. /\ j + d \in m + 1..Len(toProgram) /\ j + d \in 1..Len(toProgram)
            /\ Core(toProgram[j + d]).type \in T
        BY <1>3, <1>6
      <4>2. CASE i + c \in 1..Len(bufferM) /\ Core(bufferM'[i]) = Core(bufferM[i + c])
        BY <2>2, <4>1, <4>2 DEF LineOne
      <4>3. CASE /\ i - k \in 1..m /\ i - k \in 1..Len(toProgram)
                 /\ Core(bufferM'[i]) = Core(toProgram[i - k])
        BY <2>2, <4>1, <4>3 DEF LineOne
      <4> QED
        BY <1>4, <4>2, <4>3
    <3> QED
      BY <3>1, <3>2, <3>3 DEF LineOne
  <2> QED
    BY <2>1, <2>2
<1> QED
  BY <1>5, <1>6

\* The buffer after a read.
LEMMA ReadPlaces ==
    ASSUME LineTypeOK, ReadTick
    PROVE  Placed(bufferM', toProgram')
<1> DEFINE B == bufferM
           L == toProgram
<1>1. /\ Writable(Answers) /\ L \in Lines(Answers) /\ B \in Seq(Buffered(Answers))
      /\ Len(L) \in Nat /\ Len(B) \in Nat
  BY TokensLemma, LenProperties DEF LineTypeOK, Lines
<1>2. CASE L = <<>>
  <2>1. bufferM' = B /\ toProgram' = L /\ Len(L) = 0
    BY <1>2 DEF ReadTick
  <2>2. \A i \in 1..Len(bufferM') : i + 0 \in 1..Len(B) /\ Core(bufferM'[i]) = Core(B[i + 0])
    BY <2>1
  <2>3. ~\E i \in 1..Len(toProgram') : TRUE
    BY <2>1
  <2>4. 0 \in 0..Len(L) /\ 0 \in Int
    BY <1>1
  <2> QED
    BY <2>2, <2>3, <2>4 DEF Placed
<1>3. CASE L # <<>>
  <2>1. PICK r \in IF Splits THEN Reads(L) ELSE {[taken |-> L, left |-> <<>>]} :
            bufferM' = Received(B, r.taken) /\ toProgram' = r.left
    BY <1>3 DEF ReadTick
  <2> DEFINE S == Buffered(Answers) \cup {RestOfToken}
             u == r.taken
  <2>2. PICK m \in 1..Len(L), d \in Nat :
            /\ u \in Seq(S) /\ Len(u) = m
            /\ \A i \in 1..m : Core(u[i]) = Core(L[i])
            /\ \A i \in 1..Len(r.left) :
                   \/ r.left[i].type = "rest"
                   \/ i + d \in m + 1..Len(L) /\ r.left[i] = L[i + d]
    <3>1. CASE Splits
      <4>1. r \in Reads(L)
        BY <2>1, <3>1
      <4> QED
        <5>1. TakenOff(Answers, L, r)
          BY <1>1, <1>3, <4>1, TakenLemma, Zenon
        <5> QED
          BY <5>1 DEF TakenOff
    <3>2. CASE ~Splits
      <4>1. u = L /\ r.left = <<>> /\ Len(r.left) = 0
        BY <2>1, <3>2
      <4>2. Len(L) \in 1..Len(L) /\ 0 \in Nat
        BY <1>1, <1>3, EmptySeq DEF Lines
      <4>3. L \in Seq(S)
        BY <1>1, BufferedLines DEF Lines
      <4>4. ~\E i \in 1..Len(r.left) : TRUE
        BY <4>1
      <4> QED
        BY <4>1, <4>2, <4>3, <4>4
    <3> QED
      BY <3>1, <3>2
  <2>3. B \in Seq(S) /\ m \in 0..Len(L) /\ m \in Nat \ {0} /\ d \in Int /\ u # <<>>
    <3>1. m \in 0..Len(L) /\ m \in Nat \ {0} /\ d \in Int
      BY <1>1
    <3>2. B \in Seq(S)
      BY <1>1, SeqMonotonic
    <3> QED
      BY <2>2, <3>1, <3>2
  <2> HIDE DEF S, u
  <2>4. Head(u) = u[1] /\ Tail(u) \in Seq(S) /\ Len(Tail(u)) = m - 1
        /\ \A i \in 1..m - 1 : Tail(u)[i] = u[i + 1]
    BY <2>2, <2>3, HeadTailProperties
  <2>5. ASSUME NEW k \in Int,
               \A i \in 1..Len(bufferM') :
                   \/ i \in 1..Len(B) /\ Core(bufferM'[i]) = Core(B[i])
                   \/ i - k \in 1..m /\ Core(bufferM'[i]) = Core(u[i - k])
        PROVE  Placed(bufferM', toProgram')
    <3>1. \A i \in 1..Len(bufferM') :
              \/ i \in 1..Len(B) /\ Core(bufferM'[i]) = Core(B[i])
              \/ i - k \in 1..m /\ Core(bufferM'[i]) = Core(L[i - k])
      BY <2>2, <2>5
    <3>2. \A i \in 1..Len(B) : i + 0 = i
      OBVIOUS
    <3>3. \A i \in 1..Len(bufferM') :
              \/ i + 0 \in 1..Len(B) /\ Core(bufferM'[i]) = Core(B[i + 0])
              \/ i - k \in 1..m /\ Core(bufferM'[i]) = Core(L[i - k])
      BY <3>1, <3>2
    <3>4. 0 \in Int
      OBVIOUS
    <3>5. \A i \in 1..Len(toProgram') :
              \/ toProgram'[i].type = "rest"
              \/ i + d \in m + 1..Len(L) /\ toProgram'[i] = L[i + d]
      BY <2>1, <2>2
    <3>6. m \in 0..Len(toProgram) /\ d \in Int
      BY <2>3
    <3> QED
      BY ONLY <3>3, <3>4, <3>5, <3>6, k \in Int, Zenon DEF Placed
  <2>6. CASE Head(u).type # "rest"
    <3>1. bufferM' = B \o u
      BY <2>1, <2>3, <2>6 DEF Received, u
    <3>2. \A i \in 1..Len(bufferM') :
              \/ i \in 1..Len(B) /\ bufferM'[i] = B[i]
              \/ i - Len(B) \in 1..m /\ bufferM'[i] = u[i - Len(B)]
      BY <2>2, <2>3, <3>1, ConcatLemma
    <3>3. Len(B) \in Int
      BY <1>1
    <3> QED
      BY <2>5, <3>2, <3>3
  <2>7. ASSUME NEW A \in Seq(S), Len(A) = Len(B), \A i \in 1..Len(B) : Core(A[i]) = Core(B[i]),
               bufferM' = A \o Tail(u)
        PROVE  Placed(bufferM', toProgram')
    <3> DEFINE k == Len(B) - 1
    <3>1. \A i \in 1..Len(bufferM') :
              \/ i \in 1..Len(B) /\ bufferM'[i] = A[i]
              \/ i - Len(B) \in 1..m - 1 /\ bufferM'[i] = Tail(u)[i - Len(B)]
      BY <2>4, <2>7, ConcatLemma
    <3>2. k \in Int /\ Len(B) = k + 1 /\ m \in Nat
      BY <1>1, <2>3
    <3>3. ASSUME NEW i \in 1..Len(bufferM'), i - Len(B) \in 1..m - 1
          PROVE  i - k \in 1..m /\ Tail(u)[i - Len(B)] = u[i - k]
      <4>1. Tail(u)[i - Len(B)] = u[i - Len(B) + 1] /\ i \in Int
        BY <2>4, <3>3
      <4>2. i - Len(B) + 1 = i - k /\ i - k \in 1..m
        BY <3>2, <3>3, <4>1
      <4> QED
        BY <4>1, <4>2
    <3> HIDE DEF k
    <3>4. \A i \in 1..Len(bufferM') :
              \/ i \in 1..Len(B) /\ Core(bufferM'[i]) = Core(B[i])
              \/ i - k \in 1..m /\ Core(bufferM'[i]) = Core(u[i - k])
      BY <2>7, <3>1, <3>3
    <3> QED
      BY <2>5, <3>2, <3>4
  <2>8. ASSUME Head(u).type = "rest", ~(B # <<>> /\ Last(B).type = "part")
        PROVE  Placed(bufferM', toProgram')
    <3>1. bufferM' = B \o Tail(u)
      BY <2>1, <2>3, <2>8 DEF Received, u
    <3> QED
      BY <2>3, <2>7, <3>1
  <2>9. ASSUME Head(u).type = "rest", B # <<>>, Last(B).type = "part"
        PROVE  Placed(bufferM', toProgram')
    <3> DEFINE F == Front(B) \o <<Last(B).arg>>
    <3>1. bufferM' = F \o Tail(u)
      BY <2>1, <2>3, <2>9 DEF Received, u
    <3>2. Len(B) \in Nat \ {0} /\ Last(B) = B[Len(B)] /\ B[Len(B)] \in Buffered(Answers)
      BY <1>1, <2>9, EmptySeq, ElementOfSeq DEF Last
    <3>3. /\ Last(B).arg \in Answers /\ Core(Last(B)) = Last(B).arg
          /\ Core(Last(B).arg) = Last(B).arg
      BY <1>1, <2>9, <3>2, KindsDiffer DEF Core, Writable, HeaderTypes
    <3>4. /\ Front(B) \in Seq(S) /\ Len(Front(B)) = Len(B) - 1
          /\ \A i \in 1..Len(B) - 1 : Front(B)[i] = B[i]
      BY <2>3, <2>9, FrontLemma
    <3>5. <<Last(B).arg>> \in Seq(S) /\ Len(<<Last(B).arg>>) = 1 /\ <<Last(B).arg>>[1] = Last(B).arg
      <4>1. Last(B).arg \in S
        BY <3>3 DEF S, Buffered
      <4> QED
        BY <4>1
    <3>6. /\ F \in Seq(S) /\ Len(F) = Len(B) /\ F[Len(B)] = Last(B).arg
          /\ \A i \in 1..Len(B) - 1 : F[i] = B[i]
      BY <3>2, <3>4, <3>5, ConcatProperties
    <3> HIDE DEF F
    <3>7. \A i \in 1..Len(B) : Core(F[i]) = Core(B[i])
      BY <3>2, <3>3, <3>6
    <3> QED
      BY <2>7, <3>1, <3>6, <3>7
  <2> QED
    BY <2>6, <2>8, <2>9
<1> QED
  BY <1>2, <1>3

\* The buffer without its first tokens.
LEMMA DropPlaces ==
    ASSUME LineTypeOK, NEW n \in 0..Len(bufferM), UNCHANGED toProgram,
           bufferM' = SubSeq(bufferM, n + 1, Len(bufferM))
    PROVE  /\ Placed(bufferM', toProgram')
           /\ \A T : LineOne(T) /\ n # 0 /\ Core(bufferM[n]).type \in T => LineNo(T)'
<1>1. /\ bufferM \in Seq(Buffered(Answers)) /\ Len(bufferM) \in Nat /\ n \in Nat
      /\ n <= Len(bufferM) /\ toProgram \in Lines(Answers) /\ Len(toProgram) \in Nat
  BY LenProperties DEF LineTypeOK, Lines
<1>2. \A i \in n + 1..Len(bufferM) : bufferM[i] \in Buffered(Answers)
  BY <1>1, ElementOfSeq
<1>3. /\ Len(bufferM') = IF n + 1 <= Len(bufferM) THEN Len(bufferM) - (n + 1) + 1 ELSE 0
      /\ \A i \in 1..Len(bufferM) - (n + 1) + 1 : bufferM'[i] = bufferM[n + 1 + i - 1]
  BY <1>1, <1>2, SubSeqProperties
<1>4. ASSUME NEW i \in 1..Len(bufferM')
      PROVE  i + n \in n + 1..Len(bufferM) /\ bufferM'[i] = bufferM[i + n]
  <2>1. i \in 1..Len(bufferM) - (n + 1) + 1 /\ i \in Nat
    BY <1>1, <1>3
  <2>2. bufferM'[i] = bufferM[n + 1 + i - 1] /\ n + 1 + i - 1 = i + n
    BY <1>1, <1>3, <2>1
  <2> QED
    BY <1>1, <2>1, <2>2
<1>5. Placed(bufferM', toProgram')
  <2>1. \A i \in 1..Len(bufferM') : i + n \in 1..Len(bufferM) /\ Core(bufferM'[i]) = Core(bufferM[i + n])
    BY <1>1, <1>4
  <2>2. \A i \in 1..Len(toProgram') :
            i + 0 \in 0 + 1..Len(toProgram) /\ toProgram'[i] = toProgram[i + 0]
    BY <1>1
  <2>3. 0 \in 0..Len(toProgram) /\ 0 \in Int /\ n \in Int
    BY <1>1
  <2> USE DEF Placed
  <2> WITNESS 0 \in 0..Len(toProgram), n \in Int, 0 \in Int, 0 \in Int
  <2> QED
    BY <2>1, <2>2
<1>6. ASSUME NEW T, LineOne(T), n # 0, Core(bufferM[n]).type \in T
      PROVE  LineNo(T)'
  <2>1. n \in 1..Len(bufferM)
    BY <1>1, <1>6
  <2>2. \A i \in 1..Len(bufferM') : Core(bufferM'[i]).type \notin T
    <3> SUFFICES ASSUME NEW i \in 1..Len(bufferM'), Core(bufferM'[i]).type \in T PROVE FALSE
      OBVIOUS
    <3>1. i + n \in 1..Len(bufferM) /\ Core(bufferM[i + n]).type \in T /\ i + n # n
      BY <1>1, <1>4
    <3> QED
      BY <1>6, <2>1, <3>1 DEF LineOne
  <2>3. \A j \in 1..Len(toProgram) : Core(toProgram[j]).type \notin T
    BY <1>6, <2>1 DEF LineOne
  <2> QED
    BY <2>2, <2>3 DEF LineNo, Lined
<1> QED
  BY <1>5, <1>6

\* The line with what the terminal writes.
LEMMA LineGrows ==
    ASSUME LineTypeOK, NEW ts \in Seq(Answers), Replies(ts), UNCHANGED bufferM
    PROVE  /\ \A t \in Lined' : t \in Lined \/ \E i \in 1..Len(ts) : t = ts[i]
           /\ \A T : /\ LineNo(T) /\ No(T, ts) => LineNo(T)'
                     /\ LineOne(T) /\ No(T, ts) => LineOne(T)'
                     /\ LineNo(T) /\ OneOf(T, ts) => LineOne(T)'
<1> DEFINE S == Answers \cup {RestOfToken}
           n == Len(toProgram)
<1>1. /\ toProgram \in Seq(S) /\ ts \in Seq(S) /\ n \in Nat /\ toProgram' = toProgram \o ts
      /\ Writable(Answers)
  BY SeqMonotonic, LenProperties, TokensLemma DEF LineTypeOK, Lines, Replies
<1>2. \A i \in 1..Len(toProgram') :
          \/ i \in 1..n /\ toProgram'[i] = toProgram[i]
          \/ i - n \in 1..Len(ts) /\ toProgram'[i] = ts[i - n]
  BY <1>1, ConcatLemma
<1>3. \A i \in 1..Len(ts) : Core(ts[i]) = ts[i]
  <2> SUFFICES ASSUME NEW i \in 1..Len(ts) PROVE Core(ts[i]) = ts[i]
    OBVIOUS
  <2>1. ts[i] \in Answers
    BY ElementOfSeq
  <2> QED
    BY <1>1, <2>1 DEF Core, Writable, HeaderTypes
<1> HIDE DEF S, n
<1>4. ASSUME NEW i \in 1..Len(toProgram')
      PROVE  \/ i \in 1..n /\ Core(toProgram'[i]) = Core(toProgram[i])
             \/ i - n \in 1..Len(ts) /\ Core(toProgram'[i]) = ts[i - n]
  BY <1>2, <1>3
<1>5. \A t \in Lined' : t \in Lined \/ \E i \in 1..Len(ts) : t = ts[i]
  BY <1>4 DEF Lined, n
<1>6. ASSUME NEW T
      PROVE  LineNo(T) /\ No(T, ts) => LineNo(T)'
  BY <1>5 DEF LineNo, No
<1>7. ASSUME NEW T, LineOne(T), No(T, ts)
      PROVE  LineOne(T)'
  <2>1. \A i \in 1..Len(toProgram') : Core(toProgram'[i]).type \in T =>
            i \in 1..Len(toProgram) /\ Core(toProgram[i]).type \in T
    BY <1>4, <1>7 DEF No, n
  <2> QED
    BY <1>7, <2>1 DEF LineOne
<1>8. ASSUME NEW T, LineNo(T), OneOf(T, ts)
      PROVE  LineOne(T)'
  <2>1. /\ \A i \in 1..Len(bufferM) : Core(bufferM[i]).type \notin T
        /\ \A i \in 1..n : Core(toProgram[i]).type \notin T
    BY <1>8 DEF LineNo, Lined, n
  <2>2. \A i \in 1..Len(toProgram') : Core(toProgram'[i]).type \in T =>
            i - n \in 1..Len(ts) /\ ts[i - n].type \in T
    BY <1>4, <2>1
  <2>3. \A i, j \in 1..Len(toProgram') :
            Core(toProgram'[i]).type \in T /\ Core(toProgram'[j]).type \in T => i = j
    <3> SUFFICES ASSUME NEW i \in 1..Len(toProgram'), NEW j \in 1..Len(toProgram'),
                        Core(toProgram'[i]).type \in T, Core(toProgram'[j]).type \in T
                 PROVE  i = j
      OBVIOUS
    <3>1. i - n = j - n
      BY <1>8, <2>2 DEF OneOf
    <3> QED
      BY <1>1, <3>1
  <2> QED
    BY <2>1, <2>3 DEF LineOne
<1> QED
  BY <1>5, <1>6, <1>7, <1>8

-----------------------------------------------------------------------------
(***************************************************************************)
(* The requests on their way to the terminal.                              *)
(***************************************************************************)

\* One more request, at the end of those on their way.
LEMMA AppendOld ==
    ASSUME NEW u \in Seq(Requests), NEW t \in Requests, Requested(u), NEW i \in 1..Len(u),
           t.type \in StreamTypes => u[i].type # "ZEOF",
           t.type \in {"ZRQINIT", "ZFILE", "ZACK"} => u[i].type \notin StreamTypes
    PROVE  Due(Append(u, t), i)
<1> DEFINE v == Append(u, t)
<1>1. /\ Len(u) \in Nat /\ Len(v) = Len(u) + 1 /\ v[Len(u) + 1] = t
      /\ \A j \in 1..Len(u) : v[j] = u[j]
  BY AppendProperties, LenProperties
<1>2. \A j \in 1..Len(v) : j \in 1..Len(u) \/ j = Len(u) + 1
  BY <1>1
<1>3. Due(u, i) /\ v[i] = u[i]
  BY <1>1 DEF Requested
<1>4. No({"ZRQINIT", "ZFILE", "ZACK"}, v) <=>
          No({"ZRQINIT", "ZFILE", "ZACK"}, u) /\ t.type \notin {"ZRQINIT", "ZFILE", "ZACK"}
  BY NoLemma
<1> HIDE DEF v
<1>5. NoStreamBefore(u, i) => NoStreamBefore(v, i)
  <2>1. \A j \in 1..Len(v) : j < i => j \in 1..Len(u)
    BY <1>1
  <2> QED
    BY <1>1, <2>1 DEF NoStreamBefore
<1>6. t.type \notin StreamTypes /\ NoStreamAfter(u, i) => NoStreamAfter(v, i)
  BY <1>1, <1>2 DEF NoStreamAfter
<1>7. Follows(u, i) => Follows(v, i) /\ v[i - 1] = u[i - 1]
  <2>1. i > 1 => i - 1 \in 1..Len(u)
    BY <1>1
  <2> QED
    BY <1>1, <2>1 DEF Follows
<1> QED
  BY <1>3, <1>4, <1>5, <1>6, <1>7 DEF Due, v, StreamTypes

\* Nothing of the stream and no question is due anything.
LEMMA AppendNoise ==
    ASSUME NEW u \in Seq(Requests), NEW t \in Requests, Requested(u),
           t.type \notin StreamTypes \cup AskTypes
    PROVE  Requested(Append(u, t))
<1>1. /\ Len(u) \in Nat /\ Len(Append(u, t)) = Len(u) + 1 /\ Append(u, t)[Len(u) + 1] = t
  BY AppendProperties, LenProperties
<1>2. \A i \in 1..Len(u) : Due(Append(u, t), i)
  BY AppendOld DEF AskTypes
<1>3. Due(Append(u, t), Len(u) + 1)
  BY <1>1 DEF Due, StreamTypes, AskTypes
<1>4. OneOf(AskTypes, Append(u, t))
  BY NoLemma DEF Requested
<1>5. \A i \in 1..Len(Append(u, t)) : i \in 1..Len(u) \/ i = Len(u) + 1
  BY <1>1
<1> QED
  BY <1>2, <1>3, <1>4, <1>5 DEF Requested

\* A question, or the start of the stream, when the line is silent.
LEMMA AppendFirst ==
    ASSUME NEW u \in Seq(Requests), NEW t \in Requests, Requested(u),
           No(StreamTypes \cup AskTypes, u),
           \/ t.type = "ZRQINIT" /\ phase = "ready"
           \/ t.type = "ZFILE" /\ phase = "ready" /\ t.arg = zmodemFileM
           \/ /\ t.type = "ZACK" /\ phase = "checking"
              /\ t.arg # 0 => t.arg = store[offer].len /\ store[offer].sound /\ t.arg <= Size[offer]
           \/ t.type = "ZDATA" /\ phase = "waiting" /\ t.arg = store[offer].len
    PROVE  Requested(Append(u, t))
<1>1. /\ Len(u) \in Nat /\ Len(Append(u, t)) = Len(u) + 1 /\ Append(u, t)[Len(u) + 1] = t
      /\ \A j \in 1..Len(u) : Append(u, t)[j] = u[j]
  BY AppendProperties, LenProperties
<1>2. \A i \in 1..Len(u) : u[i].type \notin StreamTypes /\ u[i].type \notin AskTypes
  BY DEF No
<1>3. \A i \in 1..Len(u) : Due(Append(u, t), i)
  BY <1>2, AppendOld DEF AskTypes
<1>4. No(AskTypes, u) /\ No({"ZRQINIT", "ZFILE", "ZACK"}, u) /\ OneOf(AskTypes, u)
  BY <1>2 DEF No, OneOf, AskTypes
<1>5. OneOf(AskTypes, Append(u, t))
  BY <1>4, NoLemma
<1>6. t.type = "ZDATA" => No({"ZRQINIT", "ZFILE", "ZACK"}, Append(u, t))
  BY <1>4, NoLemma
<1>7. NoStreamBefore(Append(u, t), Len(u) + 1)
  <2>1. \A j \in 1..Len(Append(u, t)) : j < Len(u) + 1 => j \in 1..Len(u)
    BY <1>1
  <2> QED
    BY <1>1, <1>2, <2>1 DEF NoStreamBefore
<1>8. Due(Append(u, t), Len(u) + 1)
  BY <1>1, <1>6, <1>7 DEF Due, StreamTypes
<1>9. \A i \in 1..Len(Append(u, t)) : i \in 1..Len(u) \/ i = Len(u) + 1
  BY <1>1
<1> QED
  BY <1>3, <1>5, <1>8, <1>9 DEF Requested

\* The stream goes on at pos behind u.
GoesOnAt(u, pos) ==
    IF u # <<>> /\ Last(u).type \in {"ZDATA", "DATA"}
    THEN pos = End(Last(u))
    ELSE No(StreamTypes, u) /\ (phase = "receiving" => pos = store[offer].len)

\* The next block of the stream, where the last one ended.
LEMMA AppendBlock ==
    ASSUME NEW u \in Seq(Requests), NEW t \in Requests, Requested(u), No(AskTypes, u),
           phase \in {"waiting", "receiving"}, t.type = "DATA", GoesOnAt(u, t.from)
    PROVE  Requested(Append(u, t)) /\ No(AskTypes, Append(u, t))
<1> DEFINE v == Append(u, t)
           n == Len(u) + 1
<1>1. /\ Len(u) \in Nat /\ Len(v) = n /\ v[n] = t
      /\ \A j \in 1..Len(u) : v[j] = u[j]
  BY AppendProperties, LenProperties
<1>2. \A i \in 1..Len(u) : u[i].type \notin AskTypes
  BY DEF No
<1>3. \A i \in 1..Len(u) : Due(v, i)
  BY <1>2, AppendOld DEF AskTypes
<1>4. No({"ZRQINIT", "ZFILE", "ZACK"}, u)
  BY <1>2 DEF No, AskTypes
<1>5. OneOf(AskTypes, v) /\ No(AskTypes, v) /\ No({"ZRQINIT", "ZFILE", "ZACK"}, v)
  BY <1>4, NoLemma DEF Requested, AskTypes
<1>6. /\ \A j \in 1..Len(v) : j < n => j \in 1..Len(u)
      /\ \A i \in 1..Len(v) : i \in 1..Len(u) \/ i = n
      /\ n \in Int
  BY <1>1
<1>7. \/ Follows(v, n) /\ t.from = End(v[n - 1])
      \/ NoStreamBefore(v, n) /\ (phase = "receiving" => t.from = store[offer].len)
  <2>1. CASE u # <<>> /\ Last(u).type \in {"ZDATA", "DATA"}
    <3>1. Len(u) # 0 /\ Last(u) = u[Len(u)]
      BY <2>1, EmptySeq DEF Last
    <3>2. n > 1 /\ n - 1 = Len(u) /\ Len(u) \in 1..Len(u)
      BY <1>1, <3>1
    <3>3. v[n - 1] = Last(u)
      BY <1>1, <3>1, <3>2
    <3> QED
      BY <2>1, <3>2, <3>3 DEF GoesOnAt, Follows
  <2>2. CASE ~(u # <<>> /\ Last(u).type \in {"ZDATA", "DATA"})
    <3>1. No(StreamTypes, u) /\ (phase = "receiving" => t.from = store[offer].len)
      BY <2>2 DEF GoesOnAt
    <3> QED
      BY <1>1, <1>6, <3>1 DEF No, NoStreamBefore
  <2> QED
    BY <2>1, <2>2
<1> HIDE DEF v, n
<1>8. Due(v, n)
  BY <1>1, <1>5, <1>7 DEF Due
<1> QED
  BY <1>3, <1>5, <1>6, <1>8 DEF Requested, v

\* The end of the file, behind the blocks.
LEMMA AppendEnd ==
    ASSUME NEW u \in Seq(Requests), NEW t \in Requests, Requested(u), No(AskTypes, u),
           phase \in {"waiting", "receiving"}, t.type = "ZEOF"
    PROVE  Requested(Append(u, t))
<1> DEFINE v == Append(u, t)
           n == Len(u) + 1
<1>1. /\ Len(u) \in Nat /\ Len(v) = n /\ v[n] = t
      /\ \A j \in 1..Len(u) : v[j] = u[j]
  BY AppendProperties, LenProperties
<1>2. \A i \in 1..Len(u) : u[i].type \notin AskTypes
  BY DEF No
<1>3. \A i \in 1..Len(u) : Due(v, i)
  BY <1>2, AppendOld DEF AskTypes
<1>4. No({"ZRQINIT", "ZFILE", "ZACK"}, u)
  BY <1>2 DEF No, AskTypes
<1>5. OneOf(AskTypes, v) /\ No({"ZRQINIT", "ZFILE", "ZACK"}, v)
  BY <1>4, NoLemma DEF Requested, AskTypes
<1>6. /\ ~\E j \in 1..Len(v) : n < j
      /\ \A i \in 1..Len(v) : i \in 1..Len(u) \/ i = n
  BY <1>1
<1> HIDE DEF v, n
<1>7. NoStreamAfter(v, n)
  BY <1>6 DEF NoStreamAfter
<1>8. Due(v, n)
  BY <1>1, <1>5, <1>7 DEF Due
<1> QED
  BY <1>3, <1>5, <1>6, <1>8 DEF Requested, v

-----------------------------------------------------------------------------
\* The terminal takes the first request; what it says of the others behind it.
LEMMA SilentDue == Silent' => RequestInv'
<1> SUFFICES ASSUME Silent' PROVE RequestInv'
  OBVIOUS
<1>1. \A i \in 1..Len(toTerminal') : toTerminal'[i].type \notin StreamTypes \cup AskTypes
  BY DEF Silent, No
<1>2. OneOf(AskTypes, toTerminal')
  BY <1>1 DEF OneOf
<1>3. \A i \in 1..Len(toTerminal') : Due(toTerminal, i)'
  BY <1>1 DEF Due, StreamTypes, AskTypes
<1> QED
  BY <1>2, <1>3 DEF RequestInv, Requested

\* Behind a question nothing is asked, and nothing of a stream is sent.
LEMMA AskedTail ==
    ASSUME LineTypeOK, RequestInv, toTerminal # <<>>, Head(toTerminal).type \in AskTypes
    PROVE  No(StreamTypes \cup AskTypes, Tail(toTerminal))
<1> DEFINE u == toTerminal
           v == Tail(toTerminal)
<1>1. u \in Seq(Requests) /\ u # <<>>
  BY DEF LineTypeOK
<1>2. /\ Len(u) \in Nat \ {0} /\ Head(u) = u[1] /\ 1 \in 1..Len(u)
      /\ \A i \in 1..Len(v) : i + 1 \in 1..Len(u) /\ v[i] = u[i + 1]
  BY <1>1, TailLemma
<1>3. No(AskTypes, v)
  BY <1>1, NoTail DEF RequestInv, Requested
<1>4. ASSUME NEW i \in 1..Len(v), v[i].type \in StreamTypes
      PROVE  FALSE
  <2>1. i + 1 \in 1..Len(u) /\ u[i + 1].type \in StreamTypes /\ 1 < i + 1
    BY <1>2, <1>4
  <2>2. Due(u, i + 1) /\ Due(u, 1)
    BY <1>2, <2>1 DEF RequestInv, Requested
  <2>3. CASE Head(u).type = "ZEOF"
    BY <1>2, <2>1, <2>2, <2>3 DEF Due, NoStreamAfter
  <2>4. CASE Head(u).type # "ZEOF"
    BY <1>2, <2>1, <2>2, <2>4 DEF Due, No, AskTypes
  <2> QED
    BY <2>3, <2>4
<1> HIDE DEF v
<1>5. No(StreamTypes \cup AskTypes, v)
  BY <1>3, <1>4 DEF No
<1> QED
  BY <1>5 DEF v

\* The places behind the first request.
LEMMA TailPlaces ==
    ASSUME NEW u \in Seq(Requests), u # <<>>, NEW i \in 1..Len(Tail(u))
    PROVE  /\ i + 1 \in 1..Len(u) /\ Tail(u)[i] = u[i + 1]
           /\ NoStreamBefore(u, i + 1) => NoStreamBefore(Tail(u), i) /\ Head(u).type \notin StreamTypes
           /\ NoStreamAfter(u, i + 1) => NoStreamAfter(Tail(u), i)
           /\ Follows(u, i + 1) => \/ i = 1 /\ u[i + 1 - 1] = Head(u)
                                   \/ Follows(Tail(u), i) /\ Tail(u)[i - 1] = u[i + 1 - 1]
<1> DEFINE v == Tail(u)
<1>1. /\ Len(u) \in Nat \ {0} /\ Head(u) = u[1] /\ 1 \in 1..Len(u) /\ Len(v) = Len(u) - 1
      /\ \A j \in 1..Len(v) : j + 1 \in 1..Len(u) /\ v[j] = u[j + 1]
  BY TailLemma
<1> HIDE DEF v
<1>2. i \in 1..Len(v) /\ i \in Nat /\ i + 1 - 1 = i /\ 1 < i + 1
  BY DEF v
<1>3. NoStreamBefore(u, i + 1) => NoStreamBefore(v, i) /\ Head(u).type \notin StreamTypes
  <2> SUFFICES ASSUME NoStreamBefore(u, i + 1)
               PROVE  NoStreamBefore(v, i) /\ Head(u).type \notin StreamTypes
    OBVIOUS
  <2>1. Head(u).type \notin StreamTypes
    BY <1>1, <1>2 DEF NoStreamBefore
  <2>2. ASSUME NEW j \in 1..Len(v), j < i
        PROVE  v[j].type \notin StreamTypes
    <3>1. j + 1 < i + 1
      BY <1>2, <2>2
    <3> QED
      BY <1>1, <3>1 DEF NoStreamBefore
  <2> QED
    BY <2>1, <2>2 DEF NoStreamBefore
<1>4. NoStreamAfter(u, i + 1) => NoStreamAfter(v, i)
  <2> SUFFICES ASSUME NoStreamAfter(u, i + 1), NEW j \in 1..Len(v), i < j
               PROVE  v[j].type \notin StreamTypes
    BY DEF NoStreamAfter
  <2>1. i + 1 < j + 1
    BY <1>2
  <2> QED
    BY <1>1, <2>1 DEF NoStreamAfter
<1>5. Follows(u, i + 1) => \/ i = 1 /\ u[i + 1 - 1] = Head(u)
                           \/ Follows(v, i) /\ v[i - 1] = u[i + 1 - 1]
  <2> SUFFICES ASSUME Follows(u, i + 1), i # 1
               PROVE  Follows(v, i) /\ v[i - 1] = u[i + 1 - 1]
    BY <1>1, <1>2
  <2>1. i - 1 \in 1..Len(v) /\ i > 1 /\ i - 1 + 1 = i
    BY <1>1, <1>2
  <2>2. v[i - 1] = u[i]
    BY <1>1, <2>1
  <2> QED
    BY <1>2, <2>1, <2>2 DEF Follows
<1> QED
  BY <1>1, <1>2, <1>3, <1>4, <1>5 DEF v

\* One question at most is left when the first request goes.
LEMMA OneTail ==
    ASSUME LineTypeOK, RequestInv, toTerminal # <<>>, toTerminal' = Tail(toTerminal)
    PROVE  OneOf(AskTypes, toTerminal)'
BY NoTail DEF LineTypeOK, RequestInv, Requested

\* Something that is no request goes, or the end of all comes.
LEMMA NoiseTail ==
    ASSUME LineTypeOK, RequestInv, toTerminal # <<>>, toTerminal' = Tail(toTerminal),
           Head(toTerminal).type \notin StreamTypes \cup AskTypes,
           phase' \in {phase, "over"}, UNCHANGED <<offer, store, zmodemFileM>>
    PROVE  RequestInv'
<1> DEFINE u == toTerminal
           v == Tail(toTerminal)
<1>1. u \in Seq(Requests) /\ u # <<>>
  BY DEF LineTypeOK
<1>2. ASSUME NEW i \in 1..Len(v)
      PROVE  Due(toTerminal, i)'
  <2>1. /\ Due(u, i + 1) /\ v[i] = u[i + 1]
        /\ NoStreamBefore(u, i + 1) => NoStreamBefore(v, i)
        /\ NoStreamAfter(u, i + 1) => NoStreamAfter(v, i)
        /\ Follows(u, i + 1) => Follows(v, i) /\ v[i - 1] = u[i + 1 - 1]
    <3>1. /\ i + 1 \in 1..Len(u) /\ v[i] = u[i + 1]
          /\ NoStreamBefore(u, i + 1) => NoStreamBefore(v, i)
          /\ NoStreamAfter(u, i + 1) => NoStreamAfter(v, i)
          /\ Follows(u, i + 1) => \/ i = 1 /\ u[i + 1 - 1] = Head(u)
                                  \/ Follows(v, i) /\ v[i - 1] = u[i + 1 - 1]
      BY <1>1, TailPlaces
    <3> QED
      BY <3>1 DEF RequestInv, Requested, Follows, StreamTypes
  <2>2. No({"ZRQINIT", "ZFILE", "ZACK"}, u) => No({"ZRQINIT", "ZFILE", "ZACK"}, v)
    BY <1>1, NoTail
  <2> HIDE DEF u, v
  <2>3. toTerminal' = v /\ offer' = offer /\ store' = store /\ zmodemFileM' = zmodemFileM
    BY DEF v
  <2> DEFINE t == u[i + 1]
  <2>4. v[i] = t /\ toTerminal'[i] = t
    BY <2>1, <2>3
  <2>5. t.type \in StreamTypes => /\ phase' \in {"waiting", "receiving", "over"}
                                 /\ No({"ZRQINIT", "ZFILE", "ZACK"}, v)
    BY <2>1, <2>2 DEF Due
  <2>6. t.type = "ZRQINIT" => phase' \in {"ready", "over"}
    BY <2>1 DEF Due
  <2>7. t.type = "ZFILE" => phase' \in {"ready", "over"} /\ t.arg = zmodemFileM
    BY <2>1 DEF Due
  <2>8. t.type = "ZACK" =>
           /\ phase' \in {"checking", "over"}
           /\ phase' = "checking" /\ t.arg # 0 =>
                  t.arg = store[offer].len /\ store[offer].sound /\ t.arg <= Size[offer]
    BY <2>1 DEF Due
  <2>9. t.type = "ZDATA" =>
           /\ NoStreamBefore(v, i)
           /\ phase' = "over" \/ (phase' = "waiting" /\ t.arg = store[offer].len)
    BY <2>1 DEF Due
  <2>10. t.type = "DATA" =>
           \/ Follows(v, i) /\ t.from = End(v[i - 1])
           \/ NoStreamBefore(v, i) /\ (phase' = "receiving" => t.from = store[offer].len)
    BY <2>1 DEF Due
  <2>11. t.type = "ZEOF" => NoStreamAfter(v, i)
    BY <2>1 DEF Due
  <2> HIDE DEF t
  <2> QED
    BY <2>3, <2>4, <2>5, <2>6, <2>7, <2>8, <2>9, <2>10, <2>11 DEF Due
<1> QED
  BY <1>2, OneTail DEF RequestInv, Requested

\* A header or a block of the stream goes, and the file is as long as it says.
LEMMA StreamTail ==
    ASSUME LineTypeOK, RequestInv, toTerminal # <<>>, toTerminal' = Tail(toTerminal),
           Head(toTerminal).type \in {"ZDATA", "DATA"},
           phase' \in {"waiting", "receiving", "over"}, UNCHANGED <<offer, zmodemFileM>>,
           phase' = "receiving" => store'[offer].len = End(Head(toTerminal))
    PROVE  RequestInv'
<1> DEFINE u == toTerminal
           v == Tail(toTerminal)
<1>1. u \in Seq(Requests) /\ u # <<>>
  BY DEF LineTypeOK
<1>2. Head(u) = u[1] /\ 1 \in 1..Len(u)
  BY <1>1, TailLemma
<1>3. No({"ZRQINIT", "ZFILE", "ZACK"}, v)
  <2>1. Due(u, 1)
    BY <1>2 DEF RequestInv, Requested
  <2>2. No({"ZRQINIT", "ZFILE", "ZACK"}, u)
    BY <1>2, <2>1 DEF Due, StreamTypes
  <2> QED
    BY <1>1, <2>2, NoTail
<1>4. ASSUME NEW i \in 1..Len(v)
      PROVE  Due(toTerminal, i)'
  <2>1. /\ i + 1 \in 1..Len(u) /\ v[i] = u[i + 1]
        /\ ~NoStreamBefore(u, i + 1)
        /\ NoStreamAfter(u, i + 1) => NoStreamAfter(v, i)
        /\ Follows(u, i + 1) => \/ i = 1 /\ u[i + 1 - 1] = Head(u)
                                \/ Follows(v, i) /\ v[i - 1] = u[i + 1 - 1]
    BY <1>1, TailPlaces DEF StreamTypes
  <2>2. Due(u, i + 1)
    BY <2>1 DEF RequestInv, Requested
  <2>3. v[i].type \in {"ZRQINIT", "ZFILE", "ZACK"} => FALSE
    BY <1>3 DEF No
  <2>4. v[i].type # "ZDATA"
    BY <2>1, <2>2 DEF Due
  <2>5. NoStreamBefore(v, 1)
    <3>1. \A j \in 1..Len(v) : ~(j < 1)
      OBVIOUS
    <3> QED
      BY <3>1 DEF NoStreamBefore
  <2>6. v[i].type = "DATA" =>
            \/ Follows(v, i) /\ v[i].from = End(v[i - 1])
            \/ i = 1 /\ v[i].from = End(Head(u))
    BY <2>1, <2>2 DEF Due
  <2>7. v[i].type = "ZEOF" => NoStreamAfter(v, i)
    BY <2>1, <2>2 DEF Due
  <2> HIDE DEF v
  <2>8. toTerminal' = v
    BY DEF v
  <2> QED
    BY <1>3, <2>3, <2>4, <2>5, <2>6, <2>7, <2>8 DEF Due
<1> QED
  BY <1>4, OneTail DEF RequestInv, Requested

-----------------------------------------------------------------------------
(***************************************************************************)
(* The steps of sz that leave the turns as they are, or end one.           *)
(***************************************************************************)

\* What is said of the line holds of it while the terminal and the file stay.
LEMMA SameDue ==
    ASSUME UNCHANGED <<phase, offer, store, zmodemFileM>>, Requested(toTerminal')
    PROVE  RequestInv'
<1>1. UNCHANGED phase /\ UNCHANGED offer /\ UNCHANGED store /\ UNCHANGED zmodemFileM
  OBVIOUS
<1>2. OneOf(AskTypes, toTerminal')
  BY DEF Requested
<1>3. ASSUME NEW i \in 1..Len(toTerminal')
      PROVE  Due(toTerminal, i)'
  <2>1. Due(toTerminal', i)
    BY DEF Requested
  <2> QED
    BY <1>1, <2>1 DEF Due
<1> QED
  BY <1>2, <1>3 DEF RequestInv, Requested

\* A line left alone.
LEMMA SamePlaces ==
    ASSUME LineTypeOK, UNCHANGED <<bufferM, toProgram>>
    PROVE  Placed(bufferM', toProgram')
<1>1. bufferM' = bufferM /\ toProgram' = toProgram /\ Len(toProgram) \in Nat
  BY LenProperties DEF LineTypeOK, Lines
<1>2. \A i \in 1..Len(bufferM') : i + 0 \in 1..Len(bufferM) /\ Core(bufferM'[i]) = Core(bufferM[i + 0])
  BY <1>1
<1>3. \A i \in 1..Len(toProgram') : i + 0 \in 0 + 1..Len(toProgram) /\ toProgram'[i] = toProgram[i + 0]
  BY <1>1
<1>4. 0 \in 0..Len(toProgram) /\ 0 \in Int
  BY <1>1
<1> QED
  BY <1>2, <1>3, <1>4 DEF Placed

\* Nothing is said anew, and the turns are as they were.
LEMMA TurnStays ==
    ASSUME ProtocolInv, LineTypeOK, CallsInv', TurnsKept, Placed(bufferM', toProgram'),
           UNCHANGED <<toTerminal, phase, offer, store, done, zmodemFileM, posM, stream>>,
           UNCHANGED inputFrameM \/ ~Called("frame")',
           curState' = "IDLE_STATE" => curState = "IDLE_STATE"
    PROVE  ProtocolInv'
<1>1. /\ toTerminal' = toTerminal /\ phase' = phase /\ offer' = offer /\ store' = store
      /\ done' = done /\ zmodemFileM' = zmodemFileM /\ posM' = posM /\ stream' = stream
  OBVIOUS
<1>2. RequestInv'
  BY <1>1, SameDue DEF ProtocolInv, RequestInv
<1>3. PhaseInv' /\ BootInv'
  BY <1>1 DEF ProtocolInv, PhaseInv, BootInv, TurnsKept, Silent
<1>4. ASSUME Alive'
      PROVE  TurnInv'
  <2>1. SzOne /\ AnswerInv /\ ResumeInv /\ HolderInv
    BY <1>4 DEF ProtocolInv, TurnInv, TurnsKept
  <2>2. toProgram \in Lines(Answers)
    BY DEF LineTypeOK
  <2>3. \A t \in Lined' : t \in Lined \/ t.type = "rest"
    BY <2>2, PlacedLemma
  <2>4. \A T : "rest" \notin T => (LineNo(T) => LineNo(T)') /\ (LineOne(T) => LineOne(T)')
    BY <2>2, PlacedLemma, Zenon
  <2>5. (LineNo(AnswerTypes) => LineNo(AnswerTypes)') /\ (LineOne(AnswerTypes) => LineOne(AnswerTypes)')
    <3>1. "rest" \notin AnswerTypes
      BY DEF AnswerTypes
    <3> QED
      BY <2>4, <3>1, Zenon
  <2>6. (LineNo({"DATA"}) => LineNo({"DATA"})') /\ (LineOne({"DATA"}) => LineOne({"DATA"})')
    <3>1. "rest" \notin {"DATA"}
      OBVIOUS
    <3> QED
      BY <2>4, <3>1, Zenon
  <2>7. AnswerInv'
    <3>1. \A t \in Lined' : t.type \in AnswerTypes => t \in Lined
      BY <2>3 DEF AnswerTypes
    <3>2. \A t \in Lined' : t.type \in AnswerTypes => Tells(t)'
      BY <1>1, <2>1, <3>1 DEF AnswerInv, Tells
    <3>3. LineOne(AnswerTypes)' /\ (~LineNo(AnswerTypes)' => phase' # "asked" /\ Silent')
      BY <1>1, <2>1, <2>5 DEF AnswerInv, Silent
    <3> QED
      BY <3>2, <3>3 DEF AnswerInv
  <2>8. ResumeInv'
    BY <1>1, <2>1, <2>3, <2>6 DEF ResumeInv
  <2>9. HolderInv'
    <3>1. /\ SzTurn' => SzTurn
          /\ Has("again")' => Has("again")
          /\ Has("data")' => Has("data")
          /\ Called("frame")' => Called("frame")
      BY DEF TurnsKept, SzTurn, Turns
    <3>2. SzTurn' => phase' # "asked" /\ No(AskTypes, toTerminal') /\ LineNo(AnswerTypes)'
      BY <1>1, <2>1, <2>5, <3>1 DEF HolderInv
    <3>3. Called("frame")' => Tells(inputFrameM)' /\ Silent'
      BY <1>1, <2>1, <3>1 DEF HolderInv, Tells, Silent
    <3>4. Has("again")' => phase' = "ready" /\ Silent'
      BY <1>1, <2>1, <3>1 DEF HolderInv, Silent
    <3>5. Has("data")' => phase' \in {"waiting", "receiving"} /\ GoesOn' /\ stream' # "closed"
      BY <1>1, <2>1, <3>1 DEF HolderInv, GoesOn
    <3> QED
      BY <3>2, <3>3, <3>4, <3>5 DEF HolderInv
  <2> QED
    BY <2>1, <2>7, <2>8, <2>9 DEF TurnInv, TurnsKept
<1> QED
  BY <1>2, <1>3, <1>4 DEF ProtocolInv

\* sz has a turn, and passes it on or ends it.
LEMMA TurnMoves ==
    ASSUME ProtocolInv, LineTypeOK, Alive, SzTurn, curState # "IDLE_STATE",
           CallsInv', SzOne', HolderInv', RequestInv', Placed(bufferM', toProgram'),
           UNCHANGED <<curState, phase, offer, store, done>>,
           zmodemFileM' = zmodemFileM \/ phase \in {"ready", "over"},
           No({"ZFIN"}, toTerminal) => No({"ZFIN"}, toTerminal'),
           No({"ZACK"}, toTerminal') \/ LineNo({"DATA"})'
    PROVE  ProtocolInv'
<1>1. curState' = curState /\ phase' = phase /\ offer' = offer /\ store' = store /\ done' = done
  OBVIOUS
<1>2. SzOne /\ AnswerInv /\ ResumeInv /\ HolderInv
  BY DEF ProtocolInv, TurnInv
<1>3. PhaseInv' /\ BootInv'
  BY <1>1 DEF ProtocolInv, PhaseInv, BootInv, Alive
<1>4. toProgram \in Lines(Answers) /\ LineNo(AnswerTypes)
  BY <1>2 DEF LineTypeOK, HolderInv
<1>5. \A t \in Lined' : t \in Lined \/ t.type = "rest"
  BY <1>4, PlacedLemma
<1>6. \A T : "rest" \notin T => (LineNo(T) => LineNo(T)') /\ (LineOne(T) => LineOne(T)')
  BY <1>4, PlacedLemma, Zenon
<1>7. LineNo(AnswerTypes)' /\ LineOne(AnswerTypes)'
  <2>1. "rest" \notin AnswerTypes /\ LineOne(AnswerTypes)
    BY <1>2 DEF AnswerTypes, AnswerInv
  <2> QED
    BY <1>4, <1>6, <2>1, Zenon
<1>8. LineOne({"DATA"})'
  <2>1. "rest" \notin {"DATA"} /\ LineOne({"DATA"})
    BY <1>2 DEF ResumeInv
  <2> QED
    BY <1>6, <2>1, Zenon
<1>9. AnswerInv'
  BY <1>7 DEF AnswerInv, LineNo
<1>10. ResumeInv'
  BY <1>1, <1>2, <1>5, <1>8 DEF ResumeInv
<1> QED
  BY <1>3, <1>9, <1>10 DEF ProtocolInv, TurnInv

-----------------------------------------------------------------------------
\* The steps that move no turn: of the engine, of its timers, of the functions
\* that end one or have none.
LEMMA TypesOf == DataTypeOK => LineTypeOK /\ FileTypeOK /\ StoreTypeOK
BY DEF DataTypeOK

\* The engine never goes back to IDLE_STATE.
LEMMA StaysIdle ==
    ASSUME CallsInv, EngineTypeOK, EngineStep, curState' = "IDLE_STATE"
    PROVE  curState = "IDLE_STATE"
<1>1. CASE EnterState
  <2>1. /\ agenda \in Seq(CallSet) /\ agenda # <<>> /\ Head(agenda).op = "enter"
        /\ Head(agenda).arg = "IDLE_STATE"
    BY <1>1 DEF EnterState, Calling, Arg, EngineTypeOK
  <2> QED
    BY <2>1, HeadCall DEF Fits
<1>2. CASE ~EnterState
  <2>1. UNCHANGED curState
    BY <1>2 DEF EngineStep, WorkerStep, CallStep, PollJob, RunFreedJob, LeaveLoop, NextTurn,
                IgnoreRest, EnterFirstState, MarkInitialized, HandleEvent, HandleUndefinedEvent,
                ChangeState, NewTimer, CancelTimer, IgnoreEvent, Destroy, DeleteSelf
  <2> QED
    BY <2>1
<1> QED
  BY <1>1, <1>2

\* The engine, which touches neither the line nor the file.
LEMMA EngineProtocol ==
    ASSUME ProtocolInv, EngineTypeOK, DataTypeOK, EngineStep, UNCHANGED <<fileVars, termVars>>
    PROVE  ProtocolInv'
<1>1. CallsInv /\ LineTypeOK
  BY DEF ProtocolInv, DataTypeOK
<1>2. CallsInv' /\ TurnsKept
  BY <1>1, EngineKeeps
<1>3. UNCHANGED <<toProgram, toTerminal, inputFrameM, bufferM>>
  BY DEF EngineStep, wireVars, inputVars
<1>4. Placed(bufferM', toProgram')
  BY <1>1, <1>3, SamePlaces
<1>5. UNCHANGED <<phase, offer, store, done, zmodemFileM, posM, stream>>
  BY DEF fileVars, termVars
<1> QED
  BY <1>1, <1>2, <1>3, <1>4, <1>5, StaysIdle, TurnStays

\* The timers of the states, ...
LEMMA TimerProtocol ==
    ASSUME ProtocolInv, EngineTypeOK, DataTypeOK, SessionTimer, UNCHANGED <<fileVars, termVars>>
    PROVE  ProtocolInv'
<1>1. CallsInv /\ LineTypeOK
  BY DEF ProtocolInv, DataTypeOK
<1>2. CallsInv' /\ TurnsKept
  BY <1>1, TimerKeeps DEF SessionTimer
<1>3. UNCHANGED <<toProgram, toTerminal, inputFrameM, bufferM, curState>>
  BY DEF SessionTimer, FireFsmTimer, wireVars, inputVars
<1>4. Placed(bufferM', toProgram')
  BY <1>1, <1>3, SamePlaces
<1>5. UNCHANGED <<phase, offer, store, done, zmodemFileM, posM, stream>>
  BY DEF fileVars, termVars
<1> QED
  BY <1>1, <1>2, <1>3, <1>4, <1>5, TurnStays

\* ... that of the signal ...
LEMMA SignalProtocol ==
    ASSUME ProtocolInv, EngineTypeOK, DataTypeOK, SignalTick, UNCHANGED <<fileVars, termVars>>
    PROVE  ProtocolInv'
<1>1. CallsInv /\ LineTypeOK
  BY DEF ProtocolInv, DataTypeOK
<1>2. CallsInv' /\ TurnsKept
  <2>1. <<"RESET_EVT">> \in Seq(Idles)
    BY IdleEvents
  <2> QED
    BY <1>1, <2>1, TickKeeps DEF SignalTick
<1>3. UNCHANGED <<toProgram, toTerminal, inputFrameM, bufferM, curState>>
  BY DEF SignalTick, FireInputTimer, wireVars, inputVars
<1>4. Placed(bufferM', toProgram')
  BY <1>1, <1>3, SamePlaces
<1>5. UNCHANGED <<phase, offer, store, done, zmodemFileM, posM, stream>>
  BY DEF fileVars, termVars
<1> QED
  BY <1>1, <1>2, <1>3, <1>4, <1>5, TurnStays

\* ... and that of the input, which fills the buffer and posts NETWORK_INPUT_EVT.
LEMMA ReadKeeps ==
    ASSUME CallsInv, EngineTypeOK, ReadTick
    PROVE  CallsInv' /\ TurnsKept /\ UNCHANGED curState
<1>1. PICK es \in Seq(Idles) : FireInputTimer(es)
  <2>1. <<>> \in Seq(Idles)
    OBVIOUS
  <2>2. \A n \in Nat : [i \in 1..n |-> "NETWORK_INPUT_EVT"] \in Seq(Idles)
    BY IdleEvents, SeqDef
  <2>3. CASE toProgram = <<>>
    BY <2>1, <2>3 DEF ReadTick
  <2>4. CASE toProgram # <<>>
    <3>1. PICK n \in 1..(IF Splits THEN MaxReads ELSE 1) :
              FireInputTimer([i \in 1..n |-> "NETWORK_INPUT_EVT"])
      BY <2>4 DEF ReadTick
    <3>2. n \in Nat
      BY ZmodemAssumption
    <3> QED
      BY <2>2, <3>1, <3>2
  <2> QED
    BY <2>3, <2>4
<1> QED
  BY <1>1, TickKeeps DEF FireInputTimer

\* A read moves tokens from the line to the buffer: no answer is new or doubled.
LEMMA ReadProtocol ==
    ASSUME ProtocolInv, EngineTypeOK, DataTypeOK, ReadTick, UNCHANGED <<fileVars, termVars>>
    PROVE  ProtocolInv'
<1>1. CallsInv /\ LineTypeOK
  BY DEF ProtocolInv, DataTypeOK
<1>2. CallsInv' /\ TurnsKept /\ UNCHANGED curState
  BY <1>1, ReadKeeps
<1>3. UNCHANGED <<toTerminal, inputFrameM>>
  BY DEF ReadTick
<1>4. Placed(bufferM', toProgram')
  BY <1>1, ReadPlaces
<1>5. UNCHANGED <<phase, offer, store, done, zmodemFileM, posM, stream>>
  BY DEF fileVars, termVars
<1> QED
  BY <1>1, <1>2, <1>3, <1>4, <1>5, TurnStays

\* The signal handler only sets a flag.
LEMMA InterruptProtocol ==
    ASSUME ProtocolInv, DataTypeOK, SigHandler, UNCHANGED <<fileVars, termVars>>
    PROVE  ProtocolInv'
<1>1. CallsInv /\ LineTypeOK
  BY DEF ProtocolInv, DataTypeOK
<1>2. UNCHANGED <<toProgram, toTerminal, inputFrameM, bufferM, curState, initialized, agenda, jobs>>
  BY DEF SigHandler, engineVars, wireVars, inputVars
<1>3. CallsInv' /\ TurnsKept
  <2>1. CallsInv'
    BY <1>1, <1>2 DEF CallsInv, OneMove
  <2> QED
    BY <1>2, <2>1 DEF TurnsKept, Has, Called, Queued, SzOne, Alive
<1>4. Placed(bufferM', toProgram')
  BY <1>1, <1>2, SamePlaces
<1>5. UNCHANGED <<phase, offer, store, done, zmodemFileM, posM, stream>>
  BY DEF fileVars, termVars
<1> QED
  BY <1>1, <1>2, <1>3, <1>4, <1>5, TurnStays

\* A function that leaves the line and the file as they are, and the turns.
LEMMA FuncStays ==
    ASSUME ProtocolInv, EngineTypeOK, DataTypeOK, CallsInv', TurnsKept,
           UNCHANGED <<curState, wireVars, inputVars, zmodemFileM, posM, stream, termVars>>
    PROVE  ProtocolInv'
<1>1. LineTypeOK /\ UNCHANGED <<toProgram, toTerminal, inputFrameM, bufferM, curState>>
  BY DEF DataTypeOK, wireVars, inputVars
<1>2. Placed(bufferM', toProgram')
  BY <1>1, SamePlaces
<1>3. UNCHANGED <<phase, offer, store, done, zmodemFileM, posM, stream>>
  BY DEF termVars
<1> QED
  BY <1>1, <1>2, <1>3, TurnStays

\* initState and sendLeadingMsg.
LEMMA ResetProtocol ==
    ASSUME ProtocolInv, EngineTypeOK, DataTypeOK, InitState \/ SendLeadingMsg,
           UNCHANGED <<fileVars, termVars>>
    PROVE  ProtocolInv'
<1>1. CallsInv /\ LineTypeOK
  BY DEF ProtocolInv, DataTypeOK
<1>2. UNCHANGED <<phase, offer, store, done, zmodemFileM, posM, stream>>
  BY DEF fileVars, termVars
<1>3. CASE InitState
  <2>1. CallsInv' /\ TurnsKept /\ UNCHANGED curState
    BY <1>1, <1>3, ReturnsKeeps DEF InitState
  <2>2. UNCHANGED <<toTerminal, toProgram, inputFrameM>> /\ bufferM' = <<>>
    BY <1>3 DEF InitState, wireVars
  <2>3. Placed(bufferM', toProgram')
    <3>1. /\ Len(bufferM) \in 0..Len(bufferM) /\ Len(bufferM) \in Nat
          /\ bufferM \in Seq(Buffered(Answers))
      BY <1>1, LenProperties DEF LineTypeOK
    <3>2. SubSeq(bufferM, Len(bufferM) + 1, Len(bufferM)) = <<>>
      BY <3>1, SubSeqEmpty
    <3> QED
      BY <1>1, <2>2, <3>1, <3>2, DropPlaces
  <2> QED
    BY <1>1, <1>2, <2>1, <2>2, <2>3, TurnStays
<1>4. CASE SendLeadingMsg
  <2>1. CallsInv' /\ TurnsKept /\ UNCHANGED curState
    BY <1>1, <1>4, ReturnsKeeps DEF SendLeadingMsg
  <2> QED
    BY <1>2, <1>4, <2>1, FuncStays DEF SendLeadingMsg, termVars, fileVars
<1> QED
  BY <1>3, <1>4

-----------------------------------------------------------------------------
\* What sz writes without a turn asks for nothing.
LEMMA LongerNoise ==
    ASSUME NEW u \in Seq(Requests), NEW v \in Seq(Requests), Requested(u),
           \A i \in 1..Len(u) : i \in 1..Len(v) /\ v[i] = u[i],
           \A i \in 1..Len(v) : i \in 1..Len(u) \/ v[i].type \notin StreamTypes \cup AskTypes
    PROVE  Requested(v)
<1>1. OneOf(AskTypes, v)
  BY DEF Requested, OneOf
<1>2. Len(u) \in Nat /\ Len(v) \in Nat
  BY LenProperties
<1>3. ASSUME NEW i \in 1..Len(u)
      PROVE  Due(v, i)
  <2>1. Due(u, i) /\ v[i] = u[i]
    BY DEF Requested
  <2>2. /\ NoStreamBefore(u, i) => NoStreamBefore(v, i)
        /\ NoStreamAfter(u, i) => NoStreamAfter(v, i)
    BY DEF NoStreamBefore, NoStreamAfter
  <2>3. Follows(u, i) => Follows(v, i) /\ v[i - 1] = u[i - 1]
    <3>1. i > 1 => i - 1 \in 1..Len(u)
      BY <1>2
    <3> QED
      BY <3>1 DEF Follows
  <2>4. No({"ZRQINIT", "ZFILE", "ZACK"}, u) => No({"ZRQINIT", "ZFILE", "ZACK"}, v)
    BY DEF No, AskTypes
  <2> QED
    BY <2>1, <2>2, <2>3, <2>4 DEF Due
<1>4. ASSUME NEW i \in 1..Len(v), i \notin 1..Len(u)
      PROVE  Due(v, i)
  <2>1. v[i].type \notin StreamTypes \cup AskTypes
    BY <1>4
  <2> QED
    BY <2>1 DEF Due, StreamTypes, AskTypes
<1> QED
  BY <1>1, <1>3, <1>4 DEF Requested

Noise == {t \in Requests : t.type \notin StreamTypes \cup AskTypes}

\* A function that sends only such tokens, when the session ends or has not begun.
LEMMA NoiseSent ==
    ASSUME ProtocolInv, EngineTypeOK, DataTypeOK, CallsInv', TurnsKept,
           NEW ts \in Seq(Noise), Sends(ts),
           ~Alive \/ (curState = "IDLE_STATE" /\ ts \in Seq({t \in Noise : t.type # "ZFIN"})),
           UNCHANGED <<curState, inputVars, fileVars, termVars>>
    PROVE  ProtocolInv'
<1>1. LineTypeOK /\ toTerminal \in Seq(Requests)
  BY DEF DataTypeOK, LineTypeOK
<1>2. PICK sent \in Written(ts, signaled) : toTerminal' = toTerminal \o sent
  BY DEF Sends
<1>3. sent \in Seq(Noise) /\ sent \in Seq(Requests)
  <2>1. sent \in Seq(Noise)
    BY <1>2, WrittenLemma, Zenon
  <2>2. Noise \subseteq Requests
    BY DEF Noise
  <2> QED
    BY <2>1, <2>2, SeqMonotonic
<1>4. /\ toTerminal' \in Seq(Requests)
      /\ \A i \in 1..Len(toTerminal) : i \in 1..Len(toTerminal') /\ toTerminal'[i] = toTerminal[i]
      /\ \A i \in 1..Len(toTerminal') : \/ i \in 1..Len(toTerminal) /\ toTerminal'[i] = toTerminal[i]
                                        \/ \E j \in 1..Len(sent) : toTerminal'[i] = sent[j]
  <2>1. Len(toTerminal) \in Nat /\ Len(sent) \in Nat
    BY <1>1, <1>3, LenProperties
  <2>2. /\ toTerminal' \in Seq(Requests) /\ Len(toTerminal') = Len(toTerminal) + Len(sent)
        /\ \A i \in 1..Len(toTerminal') :
               toTerminal'[i] = IF i <= Len(toTerminal) THEN toTerminal[i] ELSE sent[i - Len(toTerminal)]
    <3> DEFINE u == toTerminal
    <3>1. u \in Seq(Requests) /\ toTerminal' = u \o sent
      BY <1>1, <1>2
    <3> HIDE DEF u
    <3>2. /\ u \o sent \in Seq(Requests) /\ Len(u \o sent) = Len(u) + Len(sent)
          /\ \A i \in 1..Len(u \o sent) :
                 (u \o sent)[i] = IF i <= Len(u) THEN u[i] ELSE sent[i - Len(u)]
      BY ONLY <1>3, <3>1, ConcatProperties
    <3> QED
      BY ONLY <3>1, <3>2 DEF u
  <2>3. ASSUME NEW i \in 1..Len(toTerminal')
        PROVE  i \in 1..Len(toTerminal) \/ i - Len(toTerminal) \in 1..Len(sent)
    BY <2>1, <2>2
  <2>4. \A i \in 1..Len(toTerminal) : i \in 1..Len(toTerminal')
    BY <2>1, <2>2
  <2>5. \A i \in 1..Len(toTerminal') : i \notin 1..Len(toTerminal) => ~(i <= Len(toTerminal))
    BY <2>1, <2>2
  <2>6. \A i \in 1..Len(toTerminal) : i <= Len(toTerminal)
    BY <2>1
  <2> QED
    BY <2>2, <2>3, <2>4, <2>5, <2>6
<1>5. \A j \in 1..Len(sent) : sent[j] \in Noise
  BY <1>3, ElementOfSeq
<1>6. UNCHANGED <<phase, offer, store, done, zmodemFileM, posM, stream, inputFrameM, bufferM, toProgram>>
  BY DEF termVars, fileVars, inputVars, Sends
<1>7. RequestInv'
  <2>1. \A i \in 1..Len(toTerminal') :
            i \in 1..Len(toTerminal) \/ toTerminal'[i].type \notin StreamTypes \cup AskTypes
    BY <1>4, <1>5 DEF Noise
  <2>2. Requested(toTerminal')
    BY <1>1, <1>4, <2>1, LongerNoise DEF ProtocolInv, RequestInv
  <2> QED
    BY <1>6, <2>2, SameDue
<1>8. CASE ~Alive
  <2>1. ~Alive' /\ curState' # "IDLE_STATE"
    BY <1>8 DEF Alive, Gone
  <2>2. PhaseInv' /\ BootInv'
    BY <1>6, <2>1 DEF ProtocolInv, PhaseInv, BootInv
  <2> QED
    BY <1>7, <2>1, <2>2 DEF ProtocolInv
<1>9. CASE curState = "IDLE_STATE" /\ ts \in Seq({t \in Noise : t.type # "ZFIN"})
  <2>1. phase = "ready" /\ Silent /\ Alive
    BY <1>9 DEF ProtocolInv, BootInv, Alive, Gone
  <2>2. sent \in Seq({t \in Noise : t.type # "ZFIN"})
    BY <1>2, <1>9, WrittenLemma, Zenon
  <2>3. \A j \in 1..Len(sent) : sent[j].type # "ZFIN"
    BY <2>2, ElementOfSeq
  <2>4. No({"ZFIN"}, toTerminal) => No({"ZFIN"}, toTerminal')
    BY <1>4, <2>3 DEF No
  <2>5. Silent'
    BY <1>4, <1>5, <2>1 DEF Silent, No, Noise
  <2>6. PhaseInv' /\ BootInv'
    BY <1>6, <2>1, <2>4, <2>5 DEF ProtocolInv, PhaseInv, BootInv, Alive
  <2>7. SzOne' /\ AnswerInv /\ ResumeInv /\ HolderInv
    BY <2>1 DEF ProtocolInv, TurnInv, TurnsKept
  <2>8. UNCHANGED Lined /\ (LineNo(AnswerTypes)' <=> LineNo(AnswerTypes))
        /\ (LineOne(AnswerTypes)' <=> LineOne(AnswerTypes))
        /\ (LineNo({"DATA"})' <=> LineNo({"DATA"})) /\ (LineOne({"DATA"})' <=> LineOne({"DATA"}))
    BY <1>6 DEF Lined, LineNo, LineOne
  <2>9. AnswerInv'
    BY <1>6, <2>5, <2>7, <2>8 DEF AnswerInv, Tells
  <2>10. No({"ZACK"}, toTerminal')
    BY <2>5 DEF Silent, No, AskTypes
  <2>11. ResumeInv'
    BY <1>6, <2>7, <2>8, <2>10 DEF ResumeInv
  <2>12. HolderInv'
    <3>1. /\ SzTurn' => SzTurn
          /\ Has("data")' => Has("data")
          /\ Called("frame")' => Called("frame")
      BY DEF TurnsKept, SzTurn, Turns
    <3>2. ~Has("data")'
      BY <2>1, <2>7, <3>1 DEF HolderInv
    <3>3. No(AskTypes, toTerminal')
      BY <2>5 DEF Silent, No
    <3>4. Called("frame")' => Tells(inputFrameM)'
      BY <1>6, <2>7, <3>1 DEF HolderInv, Tells
    <3> QED
      BY <1>6, <2>1, <2>5, <2>7, <2>8, <3>1, <3>2, <3>3, <3>4 DEF HolderInv
  <2> QED
    BY <1>7, <2>6, <2>7, <2>9, <2>11, <2>12 DEF ProtocolInv, TurnInv
<1> QED
  BY <1>8, <1>9

\* What these functions send, and what they leave of the turns.
LEMMA NoiseCalls ==
    ASSUME CallsInv, EngineTypeOK, SendClientWorkingDir \/ SendZfin \/ SendOO
    PROVE  /\ CallsInv' /\ TurnsKept /\ UNCHANGED <<curState, inputVars, signaled>>
           /\ \/ UNCHANGED wireVars
              \/ \E ts \in Seq(Noise) :
                     /\ Sends(ts)
                     /\ \/ ~Alive
                        \/ curState = "IDLE_STATE" /\ ts \in Seq({t \in Noise : t.type # "ZFIN"})
<1>1. UNCHANGED <<inputVars, signaled>>
  BY DEF SendClientWorkingDir, SendZfin, SendOO
<1>2. CASE SendClientWorkingDir
  <2> DEFINE t  == Frame("ZCOMMAND", "workdir")
             ts == IF ClientDir THEN <<t>> ELSE <<>>
             S  == {u \in Noise : u.type # "ZFIN"}
  <2>1. Running("sendClientWorkingDir") /\ Returns /\ Sends(ts)
    BY <1>2 DEF SendClientWorkingDir
  <2>2. CallsInv' /\ TurnsKept /\ UNCHANGED curState
    BY <2>1, ReturnsKeeps
  <2>3. curState = "IDLE_STATE"
    BY <2>1, RunningLemma DEF Fits
  <2>4. t \in Noise /\ t \in S
    BY DEF Noise, Frame, Requests, StreamTypes, AskTypes
  <2>5. ts = <<>> \/ ts = <<t>>
    OBVIOUS
  <2> HIDE DEF S, t, ts
  <2>6. <<t>> \in Seq(Noise) /\ <<t>> \in Seq(S) /\ <<>> \in Seq(Noise) /\ <<>> \in Seq(S)
    BY <2>4
  <2>7. ts \in Seq(Noise) /\ ts \in Seq(S)
    BY <2>5, <2>6
  <2>8. ts \in Seq({u \in Noise : u.type # "ZFIN"})
    BY <2>7 DEF S
  <2> QED
    BY <1>1, <2>1, <2>2, <2>3, <2>7, <2>8
<1>3. CASE SendZfin
  <2> DEFINE t == Frame("ZFIN", 0)
  <2>1. Running("sendZfin") /\ Returns /\ Sends(<<t>>)
    BY <1>3 DEF SendZfin
  <2>2. CallsInv' /\ TurnsKept /\ UNCHANGED curState
    BY <2>1, ReturnsKeeps
  <2>3. ~Alive
    BY <2>1, RunningLemma DEF Fits, Alive
  <2>4. t \in Noise
    BY DEF Noise, Frame, Requests, StreamTypes, AskTypes
  <2> HIDE DEF t
  <2>5. <<t>> \in Seq(Noise)
    BY <2>4
  <2> QED
    BY <1>1, <2>1, <2>2, <2>3, <2>5
<1>4. CASE SendOO
  <2>1. Running("sendOO")
    BY <1>4 DEF SendOO
  <2>2. ~Alive
    BY <2>1, RunningLemma DEF Fits, Alive
  <2>3. PICK e \in {"DESTROY_EVT", "RESET_EVT"} :
            ReturnsPosting(e) /\ (UNCHANGED wireVars \/ Sends(Farewell))
    BY <1>4 DEF SendOO
  <2>4. CallsInv' /\ TurnsKept /\ UNCHANGED curState
    <3>1. e \in Idles
      BY IdleEvents
    <3> QED
      BY <2>1, <2>3, <3>1, EndingKeeps
  <2>5. [type |-> "O"] \in Noise
    BY DEF Noise, Requests, StreamTypes, AskTypes
  <2>6. Farewell \in Seq(Noise)
    BY <2>5 DEF Farewell
  <2> QED
    BY <1>1, <2>2, <2>3, <2>4, <2>6
<1> QED
  BY <1>2, <1>3, <1>4

\* sendClientWorkingDir, sendZfin and sendOO.
LEMMA NoiseProtocol ==
    ASSUME ProtocolInv, EngineTypeOK, DataTypeOK, SendClientWorkingDir \/ SendZfin \/ SendOO,
           UNCHANGED <<fileVars, termVars>>
    PROVE  ProtocolInv'
<1>1. /\ CallsInv' /\ TurnsKept /\ UNCHANGED <<curState, inputVars, signaled>>
      /\ \/ UNCHANGED wireVars
         \/ \E ts \in Seq(Noise) :
                /\ Sends(ts)
                /\ \/ ~Alive
                   \/ curState = "IDLE_STATE" /\ ts \in Seq({t \in Noise : t.type # "ZFIN"})
  BY NoiseCalls DEF ProtocolInv
<1>2. CASE UNCHANGED wireVars
  BY <1>1, <1>2, FuncStays DEF fileVars
<1>3. CASE \E ts \in Seq(Noise) :
               /\ Sends(ts)
               /\ \/ ~Alive
                  \/ curState = "IDLE_STATE" /\ ts \in Seq({t \in Noise : t.type # "ZFIN"})
  BY <1>1, <1>3, NoiseSent
<1> QED
  BY <1>1, <1>2, <1>3

\* parseFrame takes the next frame off the buffer, with its turn.
LEMMA ParsedFrame ==
    ASSUME LineTypeOK, NEW found \in Parsed(bufferM, inputFrameM), found.what = "frame"
    PROVE  \E i \in 1..Len(bufferM) :
               /\ found.frame = bufferM[i] /\ found.left = SubSeq(bufferM, i + 1, Len(bufferM))
               /\ bufferM[i].type \in AnswerTypes
<1> DEFINE i == PadAt(bufferM)
<1>1. bufferM \in Seq(Buffered(Answers)) /\ Writable(Answers)
  BY TokensLemma DEF LineTypeOK
<1>2. /\ i # 0 /\ found.frame = bufferM[i] /\ found.left = SubSeq(bufferM, i + 1, Len(bufferM))
      /\ bufferM[i].type \notin {"part", "torn", "ZHEARTBEAT"}
  BY DEF Parsed
<1>3. i \in 1..Len(bufferM) /\ HasPad(bufferM[i])
  BY <1>1, <1>2, PadLemma
<1>4. bufferM[i] \in Buffered(Answers)
  BY <1>1, <1>3, ElementOfSeq
<1>5. bufferM[i] \in Answers
  BY <1>1, <1>2, <1>4, KindsDiffer
<1> HIDE DEF i
<1>6. bufferM[i].type \in AnswerTypes
  BY <1>2, <1>3, <1>5 DEF HasPad, HeaderTypes, Answers, AnswerTypes
<1> QED
  BY <1>2, <1>3, <1>6

\* Nothing, or the farewell or a heartbeat, or a cut header.
LEMMA ParsedPlaces ==
    ASSUME LineTypeOK, NEW found \in Parsed(bufferM, inputFrameM), found.what # "frame",
           bufferM' = found.left, toProgram' = toProgram
    PROVE  Placed(bufferM', toProgram')
<1> DEFINE i == PadAt(bufferM)
<1>1. bufferM \in Seq(Buffered(Answers)) /\ Len(bufferM) \in Nat
  BY LenProperties DEF LineTypeOK
<1>2. CASE found.left = bufferM
  BY <1>2, SamePlaces
<1>3. CASE found.left = <<>>
  <2>1. SubSeq(bufferM, Len(bufferM) + 1, Len(bufferM)) = <<>> /\ Len(bufferM) \in 0..Len(bufferM)
    BY <1>1, SubSeqEmpty
  <2> QED
    BY <1>1, <1>3, <2>1, DropPlaces
<1>4. CASE i # 0 /\ found.left = SubSeq(bufferM, i + 1, Len(bufferM))
  <2>1. i \in 1..Len(bufferM)
    BY <1>1, <1>4, PadLemma
  <2>2. i \in 0..Len(bufferM)
    BY <2>1
  <2> HIDE DEF i
  <2> QED
    BY <1>4, <2>2, DropPlaces
<1>5. \/ found.left = bufferM \/ found.left = <<>>
      \/ i # 0 /\ found.left = SubSeq(bufferM, i + 1, Len(bufferM))
  BY DEF Parsed
<1> QED
  BY <1>2, <1>3, <1>4, <1>5

\* Without a frame the turns stay; a frame is handled at once.
LEMMA ParseKeeps ==
    ASSUME CallsInv, EngineTypeOK, LineTypeOK, ParseFrame
    PROVE  \/ /\ Placed(bufferM', toProgram')
              /\ CallsInv' /\ TurnsKept /\ ~Called("frame")' /\ UNCHANGED curState
           \/ \E i \in 1..Len(bufferM) :
                  /\ bufferM[i].type \in AnswerTypes /\ inputFrameM' = bufferM[i]
                  /\ bufferM' = SubSeq(bufferM, i + 1, Len(bufferM))
                  /\ FuncReturns(fsmTimer, jobs, <<Call("handle", "HANDLE_FRAME_EVT")>>)
<1>1. Running("parseFrame") /\ jobs \in Seq(Events)
  BY DEF ParseFrame, EngineTypeOK
<1>3. PICK found \in Parsed(bufferM, inputFrameM) :
        /\ bufferM' = found.left /\ inputFrameM' = found.frame
        /\ CASE found.what = "nothing"   -> Returns
             [] found.what = "over"      -> ReturnsPosting("DESTROY_EVT")
             [] found.what = "error"     -> FuncReturns(fsmTimer, jobs, <<Call("handle", "RESET_EVT")>>)
             [] found.what = "frame"     -> FuncReturns(fsmTimer, jobs, <<Call("handle", "HANDLE_FRAME_EVT")>>)
             [] found.what = "heartbeat" ->
                    FuncReturns(RestartedTimer,
                                Posted(jobs, IF found.left = <<>> THEN <<>>
                                             ELSE <<"NETWORK_INPUT_EVT">>), <<>>)
  BY DEF ParseFrame
<1>4. UNCHANGED toProgram
  BY DEF ParseFrame, wireVars
<1>5. found.what \in {"nothing", "over", "error", "frame", "heartbeat"}
  BY ParsedLemma
<1>6. CASE found.what # "frame"
  <2>1. Placed(bufferM', toProgram')
    BY <1>1, <1>3, <1>4, <1>6, ParsedPlaces
  <2>2. CallsInv' /\ TurnsKept /\ ~Called("frame")' /\ UNCHANGED curState
    <3>1. ASSUME NEW timer, NEW es \in Seq(Idles), FuncReturns(timer, Posted(jobs, es), <<>>)
          PROVE  CallsInv' /\ TurnsKept /\ ~Called("frame")' /\ UNCHANGED curState
      <4>1. CallsInv' /\ TurnsKept /\ UNCHANGED curState
        BY <1>1, <3>1, FuncKeeps
      <4>2. \A k \in Turns : ~Called(k)'
        BY <1>1, <3>1, MoveGone
      <4> QED
        BY <4>1, <4>2 DEF Turns
    <3>2. <<>> \in Seq(Idles) /\ Posted(jobs, <<>>) = jobs
      BY <1>1, ConcatEmptySeq DEF Posted
    <3>3. <<"DESTROY_EVT">> \in Seq(Idles) /\ <<"NETWORK_INPUT_EVT">> \in Seq(Idles)
      BY IdleEvents
    <3>4. CASE found.what = "nothing"
      BY <1>3, <3>1, <3>2, <3>4 DEF Returns
    <3>5. CASE found.what = "over"
      BY <1>3, <3>1, <3>3, <3>5 DEF ReturnsPosting
    <3>6. CASE found.what = "heartbeat"
      <4> DEFINE es == IF found.left = <<>> THEN <<>> ELSE <<"NETWORK_INPUT_EVT">>
      <4>1. es \in Seq(Idles)
        BY <3>2, <3>3
      <4>2. FuncReturns(RestartedTimer, Posted(jobs, es), <<>>)
        BY <1>3, <3>6
      <4> HIDE DEF es
      <4> QED
        BY <3>1, <4>1, <4>2
    <3>7. CASE found.what = "error"
      <4>1. FuncReturns(fsmTimer, jobs, <<Call("handle", "RESET_EVT")>>)
        BY <1>3, <3>7
      <4>2. CallsInv' /\ UNCHANGED <<curState, initialized, jobs>>
            /\ \A k \in Turns : Called(k)' => k = TurnOfEvent("RESET_EVT")
        BY <1>1, <4>1, TakesTurn
      <4>3. \A k \in Turns : ~Called(k)' /\ (Queued(k)' <=> Queued(k))
        BY <4>2 DEF TurnOfEvent, Turns, Queued
      <4>4. SzOne => SzOne'
        BY <4>2, <4>3 DEF SzOne
      <4>5. "frame" \in Turns
        BY DEF Turns
      <4> QED
        BY <4>2, <4>3, <4>4, <4>5 DEF TurnsKept, Has, Alive
    <3> QED
      BY <1>5, <1>6, <3>4, <3>5, <3>6, <3>7
  <2> QED
    BY <2>1, <2>2
<1>7. CASE found.what = "frame"
  BY <1>3, <1>7, ParsedFrame
<1> QED
  BY <1>6, <1>7

\* parseFrame turns an answer on the line into the turn of sz that handles it.
LEMMA ParseProtocol ==
    ASSUME ProtocolInv, EngineTypeOK, DataTypeOK, ParseFrame, UNCHANGED <<fileVars, termVars>>
    PROVE  ProtocolInv'
<1>1. CallsInv /\ LineTypeOK /\ Running("parseFrame")
  BY DEF ProtocolInv, DataTypeOK, ParseFrame
<1>2. curState # "IDLE_STATE"
  BY <1>1, RunningLemma
<1>3. /\ UNCHANGED <<toProgram, toTerminal>>
      /\ UNCHANGED <<phase, offer, store, done, zmodemFileM, posM, stream>>
  BY DEF ParseFrame, wireVars, termVars, fileVars
<1>4. CASE /\ Placed(bufferM', toProgram')
           /\ CallsInv' /\ TurnsKept /\ ~Called("frame")' /\ UNCHANGED curState
  BY <1>1, <1>3, <1>4, TurnStays
<1>5. CASE \E i \in 1..Len(bufferM) :
               /\ bufferM[i].type \in AnswerTypes /\ inputFrameM' = bufferM[i]
               /\ bufferM' = SubSeq(bufferM, i + 1, Len(bufferM))
               /\ FuncReturns(fsmTimer, jobs, <<Call("handle", "HANDLE_FRAME_EVT")>>)
  <2>1. PICK i \in 1..Len(bufferM) :
            /\ bufferM[i].type \in AnswerTypes /\ inputFrameM' = bufferM[i]
            /\ bufferM' = SubSeq(bufferM, i + 1, Len(bufferM))
            /\ FuncReturns(fsmTimer, jobs, <<Call("handle", "HANDLE_FRAME_EVT")>>)
    BY <1>5
  <2>2. i \in 0..Len(bufferM) /\ i # 0
    BY <1>1, LenProperties DEF LineTypeOK
  <2>3. /\ Placed(bufferM', toProgram')
        /\ \A T : LineOne(T) /\ i # 0 /\ Core(bufferM[i]).type \in T => LineNo(T)'
    BY <1>1, <1>3, <2>1, <2>2, DropPlaces
  <2>4. Core(bufferM[i]) = bufferM[i]
    BY <2>1 DEF Core, AnswerTypes
  <2>5. /\ CallsInv' /\ UNCHANGED <<curState, initialized, jobs>>
        /\ \A k \in Turns : Called(k)' => k = "frame"
    BY <1>1, <2>1, TakesTurn DEF TurnOfEvent
  <2>6. RequestInv'
    BY <1>3, SameDue DEF ProtocolInv, RequestInv
  <2>7. PhaseInv' /\ BootInv'
    BY <1>2, <1>3, <2>5 DEF ProtocolInv, PhaseInv, BootInv, Alive
  <2>8. ASSUME Alive
        PROVE  TurnInv'
    <3>1. SzOne /\ AnswerInv /\ ResumeInv /\ HolderInv
      BY <2>8 DEF ProtocolInv, TurnInv
    <3>2. bufferM[i] \in Lined /\ ~LineNo(AnswerTypes)
      BY <2>1, <2>4 DEF Lined, LineNo
    <3>3. Tells(bufferM[i]) /\ phase # "asked" /\ Silent /\ ~SzTurn
      BY <2>1, <3>1, <3>2 DEF AnswerInv, HolderInv
    <3>4. \A k \in Turns : ~Queued(k)'
      BY <2>5, <3>3 DEF SzTurn, Has, Queued
    <3>5. \A k \in Turns : Has(k)' => k = "frame" /\ Called("frame")'
      BY <2>5, <3>4 DEF Has
    <3>6. SzOne'
      BY <2>5, <3>1, <3>4 DEF SzOne
    <3>7. LineNo(AnswerTypes)'
      BY <2>1, <2>2, <2>3, <2>4, <3>1, ZenonT(30) DEF AnswerInv
    <3>8. toProgram \in Lines(Answers)
      BY <1>1 DEF LineTypeOK
    <3>9. \A t \in Lined' : t \in Lined \/ t.type = "rest"
      BY <2>3, <3>8, PlacedLemma
    <3>10. \A T : "rest" \notin T => (LineNo(T) => LineNo(T)') /\ (LineOne(T) => LineOne(T)')
      BY <2>3, <3>8, PlacedLemma, Zenon
    <3>11. LineOne(AnswerTypes)'
      <4>1. "rest" \notin AnswerTypes
        BY DEF AnswerTypes
      <4> QED
        BY <3>1, <3>10, <4>1, Zenon DEF AnswerInv
    <3>12. (LineNo({"DATA"}) => LineNo({"DATA"})') /\ LineOne({"DATA"})'
      <4>1. "rest" \notin {"DATA"}
        OBVIOUS
      <4> QED
        BY <3>1, <3>10, <4>1, Zenon DEF ResumeInv
    <3>13. AnswerInv'
      BY <3>7, <3>11 DEF AnswerInv, LineNo
    <3>14. ResumeInv'
      BY <1>3, <3>1, <3>9, <3>12 DEF ResumeInv
    <3>15. HolderInv'
      <4>1. "again" \in Turns /\ "data" \in Turns
        BY DEF Turns
      <4>2. ~Has("again")' /\ ~Has("data")'
        BY <3>5, <4>1
      <4>3. No(AskTypes, toTerminal') /\ Silent'
        BY <1>3, <3>3 DEF Silent, No
      <4>4. Tells(inputFrameM)'
        BY <1>3, <2>1, <3>3 DEF Tells
      <4> QED
        BY <1>3, <3>3, <3>7, <4>2, <4>3, <4>4 DEF HolderInv
    <3> QED
      BY <3>6, <3>13, <3>14, <3>15 DEF TurnInv
  <2> QED
    BY <2>5, <2>6, <2>7, <2>8 DEF ProtocolInv, Alive
<1> QED
  BY <1>1, <1>4, <1>5, ParseKeeps

-----------------------------------------------------------------------------
(***************************************************************************)
(* The functions of sz that take a turn, and what they send with it.       *)
(***************************************************************************)

\* The functions that have a turn.
LEMMA OneWritten ==
    ASSUME NEW t, NEW interrupted, NEW sent \in Written(<<t>>, interrupted)
    PROVE  sent = <<>> \/ sent = <<t>>
<1>1. <<t>> \in Seq({t}) /\ Len(<<t>>) = 1
  OBVIOUS
<1>2. sent \in Seq({t})
  BY <1>1, WrittenLemma, Zenon
<1>3. CASE ~interrupted
  BY <1>3 DEF Written
<1>4. CASE interrupted
  <2>1. PICK n \in 0..1 : \E at \in [1..n -> 1..1] : sent = [i \in 1..n |-> <<t>>[at[i]]]
    BY <1>1, <1>4 DEF Written, Remains
  <2>2. DOMAIN sent = 1..n
    BY <2>1
  <2>3. DOMAIN sent = 1..Len(sent) /\ Len(sent) \in Nat /\ n \in Nat
    BY <1>2, <2>1, LenProperties
  <2>4. CASE n = 0
    <3>1. ~(1 \in 1..Len(sent))
      BY <2>2, <2>3, <2>4
    <3>2. Len(sent) = 0
      BY <2>3, <3>1
    <3> QED
      BY <1>2, <3>2, EmptySeq
  <2>5. CASE n = 1
    <3>1. 1 \in 1..Len(sent) /\ ~(2 \in 1..Len(sent))
      BY <2>2, <2>3, <2>5
    <3>2. Len(sent) = 1
      BY <2>3, <3>1
    <3>3. sent[1] = t
      BY <1>2, <3>1, ElementOfSeq
    <3> QED
      BY <1>1, <1>2, <3>2, <3>3, SeqEqual
  <2> QED
    BY <2>1, <2>4, <2>5
<1> QED
  BY <1>3, <1>4

\* What one token that may be lost leaves on the line.
LEMMA OneAppended ==
    ASSUME NEW u \in Seq(Requests), NEW t \in Requests, NEW sent, sent = <<>> \/ sent = <<t>>
    PROVE  u \o sent = u \/ u \o sent = Append(u, t)
<1>1. u \o <<>> = u
  BY ConcatEmptySeq
<1>2. u \o <<t>> = Append(u, t)
  OBVIOUS
<1> QED
  BY <1>1, <1>2

\* The line to the terminal then.
LEMMA OneSent ==
    ASSUME LineTypeOK, NEW t \in Requests, Sends(<<t>>)
    PROVE  toTerminal' = toTerminal \/ toTerminal' = Append(toTerminal, t)
<1>1. PICK sent \in Written(<<t>>, signaled) : toTerminal' = toTerminal \o sent
  BY DEF Sends
<1>2. sent = <<>> \/ sent = <<t>>
  BY OneWritten
<1>3. toTerminal \in Seq(Requests)
  BY DEF LineTypeOK
<1> QED
  BY <1>1, <1>2, <1>3, OneAppended

\* A function that returns has no turn any more.
LEMMA TurnOver ==
    ASSUME ProtocolInv, EngineTypeOK, NEW f, Running(f), TurnOfFunc(f) \in Turns, Returns
    PROVE  CallsInv' /\ SzOne' /\ ~SzTurn' /\ ~Called("frame")' /\ UNCHANGED curState
<1>1. /\ CallsInv /\ TurnOfFunc(f) # "none" /\ jobs \in Seq(Events)
  BY DEF ProtocolInv, Turns, EngineTypeOK
<1>2. Called(TurnOfFunc(f)) /\ Alive
  BY <1>1, RunningLemma
<1>3. SzOne
  BY <1>2 DEF ProtocolInv, TurnInv
<1>4. \A k \in Turns : ~Queued(k)
  BY <1>2, <1>3 DEF SzOne
<1>5. /\ \A k \in Turns : ~Called(k)'
      /\ QueueOK' => CallsInv'
      /\ UNCHANGED <<curState, initialized>>
  BY <1>1, MoveGone DEF Returns
<1>6. jobs' = jobs
  BY DEF Returns, FuncReturns
<1>7. CallsInv'
  BY <1>1, <1>5, <1>6 DEF CallsInv, QueueOK
<1>8. \A k \in Turns : ~Queued(k)'
  BY <1>4, <1>6 DEF Queued
<1>9. SzOne'
  BY <1>3, <1>5, <1>6 DEF SzOne
<1>10. "frame" \in Turns
  BY DEF Turns
<1> QED
  BY <1>5, <1>7, <1>8, <1>9, <1>10 DEF SzTurn, Has

\* One that ends the session leaves it, too.
LEMMA TurnFacts ==
    ASSUME ProtocolInv, EngineTypeOK, DataTypeOK, NEW f, Running(f), TurnOfFunc(f) \in Turns
    PROVE  /\ CallsInv /\ Alive /\ SzOne /\ AnswerInv /\ ResumeInv /\ HolderInv
           /\ Called(TurnOfFunc(f)) /\ Has(TurnOfFunc(f)) /\ SzTurn
           /\ curState # "IDLE_STATE" /\ LineTypeOK
           /\ toTerminal \in Seq(Requests) /\ Requested(toTerminal) /\ LineNo(AnswerTypes)
<1>1. CallsInv /\ TurnOfFunc(f) # "none" /\ LineTypeOK
  BY DEF ProtocolInv, Turns, DataTypeOK
<1>2. Called(TurnOfFunc(f)) /\ Alive /\ curState # "IDLE_STATE"
  BY <1>1, RunningLemma
<1>3. SzOne /\ AnswerInv /\ ResumeInv /\ HolderInv
  BY <1>2 DEF ProtocolInv, TurnInv
<1>4. Has(TurnOfFunc(f)) /\ SzTurn
  BY <1>2 DEF Has, SzTurn
<1> QED
  BY <1>1, <1>2, <1>3, <1>4 DEF LineTypeOK, ProtocolInv, RequestInv, HolderInv

\* A function that gives up and posts DESTROY_EVT.
LEMMA FuncEnds ==
    ASSUME ProtocolInv, EngineTypeOK, DataTypeOK, NEW f, Running(f), ReturnsPosting("DESTROY_EVT"),
           UNCHANGED <<wireVars, inputVars, zmodemFileM, posM, stream, termVars>>
    PROVE  ProtocolInv'
<1>1. CallsInv' /\ TurnsKept /\ UNCHANGED curState
  BY IdleEvents, EndingKeeps DEF ProtocolInv
<1> QED
  BY <1>1, FuncStays

\* sendZrqinit turns a new start into the request that asks for it.
LEMMA SendZrqinitProtocol ==
    ASSUME ProtocolInv, EngineTypeOK, DataTypeOK, SendZrqinit, UNCHANGED termVars
    PROVE  ProtocolInv'
<1> DEFINE t == Frame("ZRQINIT", 0)
<1>1. Running("sendZrqinit") /\ UNCHANGED <<fileVars, inputVars, signaled>>
  BY DEF SendZrqinit
<1>2. CASE filesM = <<>>
  BY <1>1, <1>2, FuncEnds DEF SendZrqinit, fileVars
<1>3. CASE filesM # <<>>
  <2>1. Returns /\ Sends(<<t>>) /\ TurnOfFunc("sendZrqinit") = "again" /\ "again" \in Turns
    BY <1>3 DEF SendZrqinit, TurnOfFunc, Turns
  <2>2. /\ Alive /\ HolderInv /\ Has("again") /\ SzTurn /\ ResumeInv /\ LineTypeOK
        /\ curState # "IDLE_STATE" /\ toTerminal \in Seq(Requests) /\ Requested(toTerminal)
    BY <1>1, <2>1, TurnFacts
  <2>3. CallsInv' /\ SzOne' /\ ~SzTurn' /\ ~Called("frame")' /\ UNCHANGED curState
    BY <1>1, <2>1, TurnOver
  <2>4. t \in Requests /\ t.type = "ZRQINIT"
    BY DEF Requests, Frame
  <2>5. toTerminal' = toTerminal \/ toTerminal' = Append(toTerminal, t)
    BY <2>1, <2>2, <2>4, OneSent
  <2>6. phase = "ready" /\ No(StreamTypes \cup AskTypes, toTerminal)
    BY <2>2 DEF HolderInv, Silent
  <2> HIDE DEF t
  <2>7. Requested(toTerminal')
    BY <2>2, <2>4, <2>5, <2>6, AppendFirst
  <2>8. UNCHANGED <<phase, offer, store, done, zmodemFileM, bufferM, toProgram>>
    BY <1>1, <2>1 DEF termVars, fileVars, inputVars, Sends
  <2>9. RequestInv' /\ Placed(bufferM', toProgram')
    BY <2>2, <2>7, <2>8, SameDue, SamePlaces
  <2>10. /\ No({"ZFIN"}, toTerminal) => No({"ZFIN"}, toTerminal')
         /\ No({"ZACK"}, toTerminal')
    <3>1. No({"ZACK"}, toTerminal)
      BY <2>6 DEF No, AskTypes
    <3>2. t.type \notin {"ZFIN"} /\ t.type \notin {"ZACK"}
      BY <2>4
    <3>3. /\ No({"ZFIN"}, toTerminal) => No({"ZFIN"}, Append(toTerminal, t))
          /\ No({"ZACK"}, Append(toTerminal, t))
      BY <2>2, <2>4, <3>1, <3>2, NoLemma
    <3> QED
      BY <2>5, <3>1, <3>3
  <2>11. HolderInv'
    BY <2>3 DEF HolderInv, SzTurn, Turns
  <2> QED
    BY <2>2, <2>3, <2>8, <2>9, <2>10, <2>11, TurnMoves
<1> QED
  BY <1>2, <1>3

\* A file is offered when nothing else is on its way.
LEMMA OfferDue ==
    ASSUME NEW u \in Seq(Requests), No(StreamTypes \cup AskTypes, u), NEW t \in Requests,
           toTerminal' = Append(u, t), t.type = "ZFILE", phase' = "ready", t.arg = zmodemFileM'
    PROVE  RequestInv'
<1>1. /\ Len(u) \in Nat /\ Len(toTerminal') = Len(u) + 1 /\ toTerminal'[Len(u) + 1] = t
      /\ \A j \in 1..Len(u) : toTerminal'[j] = u[j]
  BY AppendProperties, LenProperties
<1>2. \A i \in 1..Len(toTerminal') : i \in 1..Len(u) \/ i = Len(u) + 1
  BY <1>1
<1>3. \A i \in 1..Len(u) : toTerminal'[i].type \notin StreamTypes \cup AskTypes
  BY <1>1 DEF No
<1>4. OneOf(AskTypes, toTerminal')
  BY <1>2, <1>3 DEF OneOf
<1>5. ASSUME NEW i \in 1..Len(toTerminal')
      PROVE  Due(toTerminal, i)'
  <2>1. CASE i \in 1..Len(u)
    BY <1>3, <2>1 DEF Due, StreamTypes, AskTypes
  <2>2. CASE i = Len(u) + 1
    BY <1>1, <2>2 DEF Due, StreamTypes
  <2> QED
    BY <1>2, <2>1, <2>2
<1> QED
  BY <1>4, <1>5 DEF RequestInv, Requested

\* sendZfile turns the answer to ZRQINIT, or to a file, into the next offer.
LEMMA SendZfileProtocol ==
    ASSUME ProtocolInv, EngineTypeOK, DataTypeOK, SendZfile, UNCHANGED termVars
    PROVE  ProtocolInv'
<1>1. Running("sendZfile") /\ UNCHANGED <<inputVars, signaled>>
  BY DEF SendZfile
<1>2. CASE inputFrameM.type # "ZRINIT" \/ filesM = <<>>
  BY <1>1, <1>2, FuncEnds DEF SendZfile, fileVars
<1>3. CASE ~(inputFrameM.type # "ZRINIT" \/ filesM = <<>>)
  <2> DEFINE f == Last(filesM)
             t == Frame("ZFILE", f)
  <2>1. /\ TurnOfFunc("sendZfile") = "frame" /\ "frame" \in Turns
        /\ zmodemFileM' = f
        /\ \/ ReturnsPosting("DESTROY_EVT") /\ UNCHANGED wireVars
           \/ Returns /\ Sends(<<t>>)
    BY <1>3 DEF SendZfile, TurnOfFunc, Turns
  <2>2. /\ Alive /\ HolderInv /\ Called("frame") /\ SzTurn /\ ResumeInv /\ LineTypeOK /\ CallsInv
        /\ curState # "IDLE_STATE" /\ toTerminal \in Seq(Requests) /\ Requested(toTerminal)
        /\ LineNo(AnswerTypes) /\ SzOne
    BY <1>1, <2>1, TurnFacts
  <2>3. f \in Files
    <3>1. filesM \in Seq(Files) /\ filesM # <<>>
      BY <1>3 DEF DataTypeOK, FileTypeOK
    <3>2. Len(filesM) \in 1..Len(filesM)
      BY <3>1, EmptySeq, LenProperties
    <3> QED
      BY <3>1, <3>2, ElementOfSeq DEF Last
  <2>4. t \in Requests /\ t.type = "ZFILE" /\ t.arg = f
    BY <2>3 DEF Requests, Frame
  <2>5. phase = "ready" /\ Silent /\ No(StreamTypes \cup AskTypes, toTerminal)
    BY <1>3, <2>2 DEF HolderInv, Silent, Tells
  <2> HIDE DEF t, f
  <2>6. UNCHANGED <<phase, offer, store, done, bufferM, toProgram>>
    BY <1>1, <2>1 DEF termVars, inputVars, wireVars, Sends
  <2>7. CallsInv' /\ SzOne' /\ UNCHANGED curState /\ \A k \in Turns : ~Has(k)'
    <3>1. CASE Returns
      BY <1>1, <2>1, <3>1, TurnOver DEF SzTurn
    <3>2. CASE ReturnsPosting("DESTROY_EVT")
      <4>1. CallsInv' /\ TurnsKept /\ UNCHANGED curState
        BY <1>1, <2>2, <3>2, IdleEvents, EndingKeeps
      <4>2. \A k \in Turns : ~Called(k)'
        BY <1>1, <2>1, <2>2, <3>2, MoveGone DEF ReturnsPosting, Turns
      <4>3. QueueKept
        BY <2>2, <3>2, IdleEvents, OneIdle DEF ReturnsPosting, FuncReturns, EngineTypeOK
      <4>4. \A k \in Turns : ~Queued(k)
        BY <2>1, <2>2 DEF SzOne
      <4> QED
        BY <2>2, <4>1, <4>2, <4>3, <4>4 DEF TurnsKept, QueueKept, Has
    <3> QED
      BY <2>1, <3>1, <3>2
  <2>8. ~SzTurn' /\ ~Called("frame")'
    BY <2>1, <2>7 DEF SzTurn, Has
  <2>9. HolderInv'
    BY <2>8 DEF HolderInv, SzTurn, Turns
  <2>10. toTerminal' = toTerminal \/ toTerminal' = Append(toTerminal, t)
    BY <2>1, <2>2, <2>4, OneSent DEF wireVars
  <2>11. RequestInv'
    <3>1. CASE toTerminal' = toTerminal
      BY <2>5, <3>1, SilentDue DEF Silent
    <3>2. CASE toTerminal' = Append(toTerminal, t)
      BY <2>1, <2>2, <2>4, <2>5, <2>6, <3>2, OfferDue
    <3> QED
      BY <2>10, <3>1, <3>2
  <2>12. Placed(bufferM', toProgram')
    BY <2>2, <2>6, SamePlaces
  <2>13. /\ No({"ZFIN"}, toTerminal) => No({"ZFIN"}, toTerminal')
         /\ No({"ZACK"}, toTerminal')
    <3>1. No({"ZACK"}, toTerminal)
      BY <2>5 DEF No, AskTypes
    <3>2. t.type \notin {"ZFIN"} /\ t.type \notin {"ZACK"}
      BY <2>4
    <3>3. /\ No({"ZFIN"}, toTerminal) => No({"ZFIN"}, Append(toTerminal, t))
          /\ No({"ZACK"}, Append(toTerminal, t))
      BY <2>2, <2>4, <3>1, <3>2, NoLemma
    <3> QED
      BY <2>10, <3>1, <3>3
  <2> QED
    BY <2>2, <2>5, <2>6, <2>7, <2>9, <2>11, <2>12, <2>13, TurnMoves
<1> QED
  BY <1>2, <1>3

\* The answer to an offer.
LEMMA SkipProtocol ==
    ASSUME ProtocolInv, EngineTypeOK, DataTypeOK, HandleZfileRsp, UNCHANGED termVars,
           inputFrameM.type = "ZSKIP", ReturnsPosting("SKIP_EVT"),
           UNCHANGED <<wireVars, posM, stream, bufferM>>
    PROVE  ProtocolInv'
<1>1. /\ Running("handleZfileRsp") /\ UNCHANGED <<filesM, zmodemFileM, inputFrameM>>
      /\ TurnOfFunc("handleZfileRsp") = "frame" /\ "frame" \in Turns
  BY DEF HandleZfileRsp, TurnOfFunc, Turns
<1>2. /\ Alive /\ HolderInv /\ Called("frame") /\ SzTurn /\ ResumeInv /\ LineTypeOK /\ CallsInv
      /\ curState # "IDLE_STATE" /\ LineNo(AnswerTypes) /\ SzOne
  BY <1>1, TurnFacts
<1>3. phase = "ready" /\ Silent /\ No(AskTypes, toTerminal)
  BY <1>2 DEF HolderInv, Silent, Tells, No
<1>4. /\ CallsInv' /\ SzOne' /\ UNCHANGED <<curState, initialized>>
      /\ \A k \in Turns : ~Called(k)' /\ (Has(k)' => k = "again")
  BY <1>1, <1>2, PassesTurn DEF TurnOfEvent
<1>5. UNCHANGED <<phase, offer, store, done, bufferM, toProgram, toTerminal>>
  BY DEF termVars, wireVars
<1>6. Placed(bufferM', toProgram') /\ RequestInv'
  BY <1>1, <1>2, <1>5, SamePlaces, SameDue DEF ProtocolInv, RequestInv
<1>7. HolderInv'
  <2>1. LineNo(AnswerTypes)' /\ Silent' /\ phase' = "ready" /\ No(AskTypes, toTerminal')
    BY <1>2, <1>3, <1>5 DEF LineNo, Lined, Silent
  <2>2. ~Called("frame")' /\ ~Has("data")'
    BY <1>4 DEF Turns
  <2> QED
    BY <2>1, <2>2 DEF HolderInv
<1>8. No({"ZACK"}, toTerminal')
  BY <1>3, <1>5 DEF No, AskTypes
<1> QED
  BY <1>1, <1>2, <1>4, <1>5, <1>6, <1>7, <1>8, TurnMoves

\* The terminal has a part of the file: sz answers with the length that is valid.
LEMMA ResumeProtocol ==
    ASSUME ProtocolInv, EngineTypeOK, DataTypeOK, HandleZfileRsp, UNCHANGED termVars,
           inputFrameM.type = "ZCOMMAND", Returns, UNCHANGED <<posM, stream>>,
           IF bufferM # <<>> /\ Head(bufferM).type = "DATA"
           THEN Sends(<<Frame("ZACK", ValidLen(Head(bufferM)))>>) /\ bufferM' = Tail(bufferM)
           ELSE UNCHANGED <<wireVars, bufferM>>
    PROVE  ProtocolInv'
<1>1. /\ Running("handleZfileRsp") /\ UNCHANGED <<filesM, zmodemFileM, inputFrameM>>
      /\ TurnOfFunc("handleZfileRsp") = "frame" /\ "frame" \in Turns
  BY DEF HandleZfileRsp, TurnOfFunc, Turns
<1>2. /\ Alive /\ HolderInv /\ Called("frame") /\ SzTurn /\ ResumeInv /\ LineTypeOK /\ CallsInv
      /\ curState # "IDLE_STATE" /\ LineNo(AnswerTypes) /\ SzOne
      /\ toTerminal \in Seq(Requests) /\ Requested(toTerminal)
  BY <1>1, TurnFacts
<1>3. phase = "checking" /\ Silent /\ No(StreamTypes \cup AskTypes, toTerminal)
  BY <1>2 DEF HolderInv, Silent, Tells
<1>4. CallsInv' /\ SzOne' /\ ~SzTurn' /\ ~Called("frame")' /\ UNCHANGED curState
  BY <1>1, TurnOver
<1>5. HolderInv'
  BY <1>4 DEF HolderInv, SzTurn, Turns
<1>6. UNCHANGED <<phase, offer, store, done>>
  BY DEF termVars
<1>7. CASE ~(bufferM # <<>> /\ Head(bufferM).type = "DATA")
  <2>1. UNCHANGED <<bufferM, toProgram, toTerminal>>
    BY <1>7 DEF wireVars
  <2>2. Placed(bufferM', toProgram') /\ RequestInv'
    BY <1>1, <1>2, <1>6, <2>1, SamePlaces, SameDue DEF ProtocolInv, RequestInv
  <2>3. No({"ZACK"}, toTerminal')
    BY <1>3, <2>1 DEF No, AskTypes
  <2> QED
    BY <1>1, <1>2, <1>4, <1>5, <1>6, <2>1, <2>2, <2>3, TurnMoves
<1>8. CASE bufferM # <<>> /\ Head(bufferM).type = "DATA"
  <2> DEFINE d == Head(bufferM)
             t == Frame("ZACK", ValidLen(d))
  <2>1. /\ bufferM \in Seq(Buffered(Answers)) /\ d = bufferM[1] /\ 1 \in 1..Len(bufferM)
        /\ d \in Buffered(Answers) /\ d.type = "DATA"
    BY <1>2, <1>8, TailLemma DEF LineTypeOK
  <2>2. Core(d) = d /\ d \in Lined /\ d.len \in Nat
    <3>1. Core(d) = d
      BY <2>1 DEF Core
    <3>2. Core(bufferM[1]) \in Lined
      BY <2>1 DEF Lined
    <3>3. d.len \in Nat
      BY <2>1, KindsDiffer, TokensLemma
    <3> QED
      BY <2>1, <3>1, <3>2, <3>3
  <2>3. d.len = store[offer].len /\ d.sound = store[offer].sound
    BY <1>2, <2>1, <2>2 DEF ResumeInv
  <2>4. offer = zmodemFileM /\ offer \in Files /\ Size[offer] \in Nat
    BY <1>3, SzAssumption DEF ProtocolInv, PhaseInv, DataTypeOK, StoreTypeOK
  <2>5. /\ ValidLen(d) \in Nat
        /\ ValidLen(d) # 0 => ValidLen(d) = store[offer].len /\ store[offer].sound
                              /\ ValidLen(d) <= Size[offer]
    BY <2>2, <2>3, <2>4 DEF ValidLen
  <2>6. t \in Requests /\ t.type = "ZACK" /\ t.arg = ValidLen(d)
    BY <2>5 DEF Requests, Frame
  <2>7. Sends(<<t>>) /\ bufferM' = Tail(bufferM)
    BY <1>8
  <2> HIDE DEF t, d
  <2>8. toTerminal' = toTerminal \/ toTerminal' = Append(toTerminal, t)
    BY <1>2, <2>6, <2>7, OneSent
  <2>9. Requested(toTerminal')
    BY <1>2, <1>3, <2>5, <2>6, <2>8, AppendFirst
  <2>10. RequestInv'
    BY <1>1, <1>6, <2>9, SameDue
  <2>11. UNCHANGED toProgram /\ bufferM' = SubSeq(bufferM, 1 + 1, Len(bufferM))
    BY <2>7 DEF Sends
  <2>12. 1 \in 0..Len(bufferM) /\ 1 # 0
    BY <2>1
  <2>13. /\ Placed(bufferM', toProgram')
         /\ \A T : LineOne(T) /\ 1 # 0 /\ Core(bufferM[1]).type \in T => LineNo(T)'
    BY <1>2, <2>11, <2>12, DropPlaces
  <2>14. LineNo({"DATA"})'
    <3>1. LineOne({"DATA"}) /\ Core(bufferM[1]).type \in {"DATA"}
      BY <1>2, <2>1, <2>2 DEF ResumeInv
    <3> QED
      BY <2>12, <2>13, <3>1, Zenon
  <2>15. No({"ZFIN"}, toTerminal) => No({"ZFIN"}, toTerminal')
    <3>1. t.type \notin {"ZFIN"}
      BY <2>6
    <3>2. No({"ZFIN"}, toTerminal) => No({"ZFIN"}, Append(toTerminal, t))
      BY <1>2, <2>6, <3>1, NoLemma
    <3> QED
      BY <2>8, <3>2
  <2> QED
    BY <1>1, <1>2, <1>4, <1>5, <1>6, <2>10, <2>13, <2>14, <2>15, TurnMoves
<1> QED
  BY <1>7, <1>8

-----------------------------------------------------------------------------
\* Behind a token of the stream goes the next one.
LEMMA LastAppended ==
    ASSUME NEW u \in Seq(Requests), NEW t \in Requests
    PROVE  Append(u, t) \in Seq(Requests) /\ Append(u, t) # <<>> /\ Last(Append(u, t)) = t
<1>1. /\ Append(u, t) \in Seq(Requests) /\ Len(Append(u, t)) = Len(u) + 1 /\ Len(u) \in Nat
      /\ Append(u, t)[Len(u) + 1] = t
  BY AppendProperties, LenProperties
<1> QED
  BY <1>1, EmptySeq DEF Last

\* The file is sent from the position the terminal asks for.
LEMMA StartProtocol ==
    ASSUME ProtocolInv, EngineTypeOK, DataTypeOK, HandleZfileRsp, UNCHANGED termVars,
           zmodemFileM # NoFile, inputFrameM.type = "ZRPOS", posM' = Sought(inputFrameM.arg),
           stream' = Opened, Sends(<<Frame("ZDATA", inputFrameM.arg)>>),
           ReturnsPosting("SEND_ZDATA_EVT"), UNCHANGED bufferM
    PROVE  ProtocolInv'
<1> DEFINE pos == inputFrameM.arg
           t   == Frame("ZDATA", pos)
<1>1. /\ Running("handleZfileRsp") /\ UNCHANGED <<filesM, zmodemFileM, inputFrameM>>
      /\ TurnOfFunc("handleZfileRsp") = "frame" /\ "frame" \in Turns /\ "data" \in Turns
  BY DEF HandleZfileRsp, TurnOfFunc, Turns
<1>2. /\ Alive /\ HolderInv /\ Called("frame") /\ SzTurn /\ ResumeInv /\ LineTypeOK /\ CallsInv
      /\ curState # "IDLE_STATE" /\ LineNo(AnswerTypes) /\ SzOne
      /\ toTerminal \in Seq(Requests) /\ Requested(toTerminal)
  BY <1>1, TurnFacts
<1>3. /\ phase = "waiting" /\ pos = store[offer].len /\ pos <= Size[zmodemFileM]
      /\ Silent /\ No(StreamTypes \cup AskTypes, toTerminal)
  BY <1>2 DEF HolderInv, Silent, Tells
<1>4. pos \in Nat /\ Size[zmodemFileM] \in Nat
  BY <1>3, SzAssumption DEF DataTypeOK, StoreTypeOK, FileTypeOK
<1>5. posM' = pos /\ stream' # "closed"
  BY <1>3, <1>4 DEF Sought, Opened
<1>6. t \in Requests /\ t.type = "ZDATA" /\ t.arg = pos
  BY <1>4 DEF Requests, Frame
<1>7. Sends(<<t>>)
  OBVIOUS
<1> HIDE DEF t, pos
<1>8. toTerminal' = toTerminal \/ toTerminal' = Append(toTerminal, t)
  BY <1>2, <1>6, <1>7, OneSent
<1>9. UNCHANGED <<phase, offer, store, done, bufferM, toProgram>>
  BY DEF termVars, Sends
<1>10. Requested(toTerminal')
  BY <1>2, <1>3, <1>6, <1>8, AppendFirst
<1>11. RequestInv' /\ Placed(bufferM', toProgram')
  BY <1>1, <1>2, <1>9, <1>10, SameDue, SamePlaces
<1>12. /\ CallsInv' /\ SzOne' /\ UNCHANGED <<curState, initialized>>
       /\ \A k \in Turns : ~Called(k)' /\ (Has(k)' => k = "data")
  BY <1>1, <1>2, PassesTurn DEF TurnOfEvent
<1>13. /\ No(AskTypes, toTerminal') /\ No({"ZACK"}, toTerminal')
       /\ No({"ZFIN"}, toTerminal) => No({"ZFIN"}, toTerminal')
  <2>1. No(AskTypes, toTerminal) /\ No({"ZACK"}, toTerminal)
    BY <1>3 DEF No, AskTypes
  <2>2. t.type \notin AskTypes /\ t.type \notin {"ZACK"} /\ t.type \notin {"ZFIN"}
    BY <1>6 DEF AskTypes
  <2>3. /\ No(AskTypes, Append(toTerminal, t)) /\ No({"ZACK"}, Append(toTerminal, t))
        /\ No({"ZFIN"}, toTerminal) => No({"ZFIN"}, Append(toTerminal, t))
    BY <1>2, <1>6, <2>1, <2>2, NoLemma
  <2> QED
    BY <1>8, <2>1, <2>3
<1>14. GoesOn'
  <2>1. CASE toTerminal' = Append(toTerminal, t)
    <3>1. toTerminal' # <<>> /\ Last(toTerminal') = t
      BY <1>2, <1>6, <2>1, LastAppended
    <3>2. Last(toTerminal').type \in {"ZDATA", "DATA"} /\ posM' = End(Last(toTerminal'))
      BY <1>5, <1>6, <3>1 DEF End
    <3> QED
      BY <3>1, <3>2 DEF GoesOn
  <2>2. CASE toTerminal' = toTerminal
    <3>1. No(StreamTypes, toTerminal)
      BY <1>3 DEF No
    <3>2. toTerminal # <<>> => Last(toTerminal).type \notin {"ZDATA", "DATA"}
      <4>1. toTerminal # <<>> => Len(toTerminal) \in 1..Len(toTerminal)
        BY <1>2, EmptySeq, LenProperties
      <4> QED
        BY <3>1, <4>1 DEF Last, No, StreamTypes
    <3> QED
      BY <1>3, <1>9, <2>2, <3>1, <3>2 DEF GoesOn
  <2> QED
    BY <1>8, <2>1, <2>2
<1>15. HolderInv'
  <2>1. LineNo(AnswerTypes)'
    BY <1>2, <1>9 DEF LineNo, Lined
  <2>2. ~Called("frame")' /\ ~Has("again")'
    BY <1>1, <1>12 DEF Turns
  <2> QED
    BY <1>3, <1>5, <1>9, <1>13, <1>14, <2>1, <2>2 DEF HolderInv
<1> QED
  BY <1>1, <1>2, <1>9, <1>11, <1>12, <1>13, <1>15, TurnMoves

\* handleZfileRsp, whatever the terminal answered to the offer.
LEMMA HandleZfileRspProtocol ==
    ASSUME ProtocolInv, EngineTypeOK, DataTypeOK, HandleZfileRsp, UNCHANGED termVars
    PROVE  ProtocolInv'
<1>1. /\ Running("handleZfileRsp") /\ UNCHANGED <<filesM, zmodemFileM, inputFrameM>>
  BY DEF HandleZfileRsp
<1>2. CASE ReturnsPosting("DESTROY_EVT") /\ UNCHANGED <<wireVars, posM, stream, bufferM>>
  BY <1>1, <1>2, FuncEnds DEF inputVars
<1>3. CASE /\ inputFrameM.type = "ZSKIP" /\ ReturnsPosting("SKIP_EVT")
           /\ UNCHANGED <<wireVars, posM, stream, bufferM>>
  BY <1>3, SkipProtocol
<1>4. CASE /\ inputFrameM.type = "ZCOMMAND" /\ Returns /\ UNCHANGED <<posM, stream>>
           /\ IF bufferM # <<>> /\ Head(bufferM).type = "DATA"
              THEN Sends(<<Frame("ZACK", ValidLen(Head(bufferM)))>>) /\ bufferM' = Tail(bufferM)
              ELSE UNCHANGED <<wireVars, bufferM>>
  BY <1>4, ResumeProtocol
<1>5. CASE /\ zmodemFileM # NoFile /\ inputFrameM.type = "ZRPOS"
           /\ posM' = Sought(inputFrameM.arg) /\ stream' = Opened
           /\ Sends(<<Frame("ZDATA", inputFrameM.arg)>>)
           /\ ReturnsPosting("SEND_ZDATA_EVT") /\ UNCHANGED bufferM
  BY <1>5, StartProtocol
<1> QED
  BY <1>2, <1>3, <1>4, <1>5 DEF HandleZfileRsp

\* One subpacket, and the next one or the end of the file behind it.
LEMMA SendZdataProtocol ==
    ASSUME ProtocolInv, EngineTypeOK, DataTypeOK, SendZdata, UNCHANGED termVars
    PROVE  ProtocolInv'
<1> DEFINE more == stream = "good" /\ posM + Block <= Size[zmodemFileM]
           d    == Subpacket(posM, ReadLen, IF more /\ ~signaled THEN "ZCRCG" ELSE "ZCRCE")
           z    == Frame("ZEOF", posM')
<1>1. /\ Running("sendZdata") /\ posM' = posM + ReadLen
      /\ stream' = IF stream = "good" /\ ~more THEN "end" ELSE stream
      /\ signaled' \in {signaled, signaled \/ Signals}
      /\ UNCHANGED <<filesM, zmodemFileM, inputVars, toProgram>>
      /\ TurnOfFunc("sendZdata") = "data" /\ "data" \in Turns
  BY DEF SendZdata, TurnOfFunc, Turns, Sends
<1>2. \/ more /\ ~signaled' /\ ReturnsPosting("SEND_ZDATA_EVT") /\ Sends(<<d>>)
      \/ /\ Returns
         /\ \E sent \in Written(<<d>>, signaled), eof \in Written(<<z>>, signaled') :
                toTerminal' = toTerminal \o sent \o eof
  BY DEF SendZdata
<1>3. /\ Alive /\ HolderInv /\ Has("data") /\ SzTurn /\ ResumeInv /\ LineTypeOK /\ CallsInv
      /\ curState # "IDLE_STATE" /\ LineNo(AnswerTypes) /\ SzOne
      /\ toTerminal \in Seq(Requests) /\ Requested(toTerminal)
  BY <1>1, TurnFacts
<1>4. /\ phase \in {"waiting", "receiving"} /\ GoesOn /\ stream # "closed"
      /\ phase # "asked" /\ No(AskTypes, toTerminal)
  BY <1>3 DEF HolderInv
<1>5. ReadLen \in Nat /\ posM \in Nat /\ posM' \in Nat
  BY <1>1, ReadTypes DEF DataTypeOK
<1>6. d \in Requests /\ d.type = "DATA" /\ d.from = posM /\ d.len = ReadLen
  BY <1>5 DEF Requests, Subpacket
<1>7. z \in Requests /\ z.type = "ZEOF"
  BY <1>5 DEF Requests, Frame
<1>8. stream' # "closed"
  BY <1>1, <1>4
<1> HIDE DEF d, z, more
<1>9. GoesOnAt(toTerminal, d.from)
  BY <1>4, <1>6 DEF GoesOn, GoesOnAt
<1>10. Requested(Append(toTerminal, d)) /\ No(AskTypes, Append(toTerminal, d))
  BY <1>3, <1>4, <1>6, <1>9, AppendBlock
<1>11. UNCHANGED <<phase, offer, store, done, bufferM>>
  BY <1>1 DEF termVars, inputVars
<1>12. Placed(bufferM', toProgram')
  BY <1>1, <1>3, <1>11, SamePlaces
<1>13. \A u \in Seq(Requests) :
           /\ No({"ZACK"}, u) => No({"ZACK"}, Append(u, d)) /\ No({"ZACK"}, Append(u, z))
           /\ No({"ZFIN"}, u) => No({"ZFIN"}, Append(u, d)) /\ No({"ZFIN"}, Append(u, z))
  <2>1. /\ d.type \notin {"ZACK"} /\ d.type \notin {"ZFIN"}
        /\ z.type \notin {"ZACK"} /\ z.type \notin {"ZFIN"}
    BY <1>6, <1>7
  <2> QED
    BY <1>6, <1>7, <2>1, NoLemma
<1>14. No({"ZACK"}, toTerminal)
  BY <1>4 DEF No, AskTypes
<1>15. CASE more /\ ~signaled' /\ ReturnsPosting("SEND_ZDATA_EVT") /\ Sends(<<d>>)
  <2>1. ~signaled
    BY <1>1, <1>15
  <2>2. toTerminal' = Append(toTerminal, d)
    <3>1. toTerminal' = toTerminal \o <<d>>
      BY <1>15, <2>1 DEF Sends, Written
    <3> QED
      BY <1>3, <1>6, <3>1
  <2>3. RequestInv'
    BY <1>1, <1>10, <1>11, <2>2, SameDue
  <2>4. /\ CallsInv' /\ SzOne' /\ UNCHANGED <<curState, initialized>>
        /\ \A k \in Turns : ~Called(k)' /\ (Has(k)' => k = "data")
    BY <1>1, <1>3, <1>15, PassesTurn DEF TurnOfEvent, Turns
  <2>5. GoesOn'
    <3>1. toTerminal' # <<>> /\ Last(toTerminal') = d
      BY <1>3, <1>6, <2>2, LastAppended
    <3> QED
      BY <1>1, <1>6, <3>1 DEF GoesOn, End
  <2>6. HolderInv'
    <3>1. LineNo(AnswerTypes)'
      BY <1>1, <1>3, <1>11 DEF LineNo, Lined
    <3>2. ~Called("frame")' /\ ~Has("again")'
      BY <2>4 DEF Turns
    <3> QED
      BY <1>4, <1>8, <1>10, <1>11, <2>2, <2>5, <3>1, <3>2 DEF HolderInv
  <2>7. /\ No({"ZACK"}, toTerminal')
        /\ No({"ZFIN"}, toTerminal) => No({"ZFIN"}, toTerminal')
    BY <1>3, <1>13, <1>14, <2>2
  <2> QED
    BY <1>1, <1>3, <1>11, <1>12, <2>3, <2>4, <2>6, <2>7, TurnMoves
<1>16. CASE /\ Returns
            /\ \E sent \in Written(<<d>>, signaled), eof \in Written(<<z>>, signaled') :
                   toTerminal' = toTerminal \o sent \o eof
  <2>1. CallsInv' /\ SzOne' /\ ~SzTurn' /\ ~Called("frame")' /\ UNCHANGED curState
    BY <1>1, <1>16, TurnOver
  <2>2. PICK sent \in Written(<<d>>, signaled), eof \in Written(<<z>>, signaled') :
            toTerminal' = toTerminal \o sent \o eof
    BY <1>16
  <2> DEFINE u == toTerminal \o sent
  <2>3. toTerminal' = u \o eof
    BY <2>2
  <2>4. u = toTerminal \/ u = Append(toTerminal, d)
    <3>1. sent = <<>> \/ sent = <<d>>
      BY <2>2, OneWritten
    <3> QED
      BY <1>3, <1>6, <3>1, OneAppended
  <2> HIDE DEF u
  <2>5. u \in Seq(Requests) /\ Requested(u) /\ No(AskTypes, u)
    BY <1>3, <1>4, <1>6, <1>10, <2>4, LastAppended
  <2>6. toTerminal' = u \/ toTerminal' = Append(u, z)
    <3>1. eof = <<>> \/ eof = <<z>>
      BY <2>2, OneWritten
    <3> QED
      BY <1>7, <2>3, <2>5, <3>1, OneAppended
  <2>7. Requested(toTerminal')
    BY <1>4, <1>7, <2>5, <2>6, AppendEnd
  <2>8. RequestInv'
    BY <1>1, <1>11, <2>7, SameDue
  <2>9. /\ No({"ZACK"}, toTerminal')
        /\ No({"ZFIN"}, toTerminal) => No({"ZFIN"}, toTerminal')
    BY <1>3, <1>13, <1>14, <2>4, <2>5, <2>6
  <2>10. HolderInv'
    BY <2>1 DEF HolderInv, SzTurn, Turns
  <2> QED
    BY <1>1, <1>3, <1>11, <1>12, <2>1, <2>8, <2>9, <2>10, TurnMoves
<1> QED
  BY <1>2, <1>15, <1>16

\* Whatever sz does.
LEMMA ThreadProtocol ==
    ASSUME ProtocolInv, EngineTypeOK, DataTypeOK, SzThread
    PROVE  ProtocolInv'
<1>1. CASE EngineStep /\ UNCHANGED fileVars
  BY <1>1, EngineProtocol DEF SzThread
<1>2. CASE CommonFunction /\ UNCHANGED fileVars
  BY <1>2, ResetProtocol, NoiseProtocol, ParseProtocol DEF SzThread, CommonFunction
<1>3. CASE SendZrqinit \/ SendZfile \/ HandleZfileRsp \/ SendZdata
  BY <1>3, SendZrqinitProtocol, SendZfileProtocol, HandleZfileRspProtocol, SendZdataProtocol
     DEF SzThread
<1> QED
  BY <1>1, <1>2, <1>3 DEF SzThread, ThreadStep, SessionFunction

-----------------------------------------------------------------------------
(***************************************************************************)
(* The steps of the terminal.                                              *)
(***************************************************************************)

\* The steps of the terminal, which leave the calls and the queue as they are.
LEMMA EngineSame ==
    ASSUME UNCHANGED engineVars
    PROVE  /\ CallsInv => CallsInv'
           /\ SzOne => SzOne'
           /\ SzTurn' <=> SzTurn
           /\ Called("frame")' <=> Called("frame")
           /\ Alive' <=> Alive
           /\ UNCHANGED curState
<1>1. UNCHANGED <<agenda, jobs, curState, initialized>>
  BY DEF engineVars
<1>2. (CallsInv => CallsInv') /\ (Alive' <=> Alive)
  BY <1>1 DEF CallsInv, OneMove, Alive
<1>3. \A k : (Called(k)' <=> Called(k)) /\ (Queued(k)' <=> Queued(k))
  BY <1>1 DEF Called, Queued
<1>4. SzOne => SzOne'
  BY <1>1, <1>3 DEF SzOne
<1> QED
  BY <1>1, <1>2, <1>3, <1>4 DEF SzTurn, Has

\* When sz has no turn, the terminal answers or asks its user.
LEMMA Answered ==
    ASSUME ProtocolInv, DataTypeOK, UNCHANGED <<engineVars, fileVars, inputVars>>,
           curState # "IDLE_STATE", Silent', PhaseInv',
           Alive => ~SzTurn /\ LineNo(AnswerTypes) /\ LineNo({"DATA"}),
           NEW ts \in Seq(Answers), Replies(ts), OneOf(AnswerTypes, ts), OneOf({"DATA"}, ts),
           \A i \in 1..Len(ts) : ts[i].type \in AnswerTypes => phase' # "asked" /\ Tells(ts[i])',
           \A i \in 1..Len(ts) : ts[i].type = "DATA" =>
               /\ phase' = "checking" /\ ts[i].len = store'[offer'].len
               /\ ts[i].sound = store'[offer'].sound
    PROVE  ProtocolInv'
<1>1. LineTypeOK /\ UNCHANGED bufferM
  BY DEF DataTypeOK, inputVars
<1>2. /\ CallsInv' /\ UNCHANGED curState /\ (Alive' <=> Alive) /\ (SzOne => SzOne')
      /\ (SzTurn' <=> SzTurn) /\ (Called("frame")' <=> Called("frame"))
  BY EngineSame DEF ProtocolInv
<1>3. RequestInv'
  BY SilentDue
<1>4. BootInv'
  BY <1>2 DEF BootInv
<1>5. ASSUME Alive
      PROVE  TurnInv'
  <2>1. SzOne' /\ ~SzTurn' /\ LineNo(AnswerTypes) /\ LineNo({"DATA"})
    BY <1>2, <1>5 DEF ProtocolInv, TurnInv
  <2>2. \A t \in Lined' : t \in Lined \/ \E i \in 1..Len(ts) : t = ts[i]
    BY <1>1, LineGrows
  <2>3. LineOne(AnswerTypes)' /\ LineOne({"DATA"})'
    BY <1>1, <2>1, LineGrows, ZenonT(30)
  <2>4. \A t \in Lined' : t.type \in AnswerTypes => phase' # "asked" /\ Tells(t)'
    <3>1. \A t \in Lined' : t.type \in AnswerTypes => \E i \in 1..Len(ts) : t = ts[i]
      BY <2>1, <2>2 DEF LineNo
    <3> QED
      BY <3>1
  <2>5. \A t \in Lined' : t.type = "DATA" =>
            phase' = "checking" /\ t.len = store'[offer'].len /\ t.sound = store'[offer'].sound
    <3>1. \A t \in Lined' : t.type = "DATA" => \E i \in 1..Len(ts) : t = ts[i]
      BY <2>1, <2>2 DEF LineNo
    <3> QED
      BY <3>1
  <2>6. AnswerInv'
    BY <2>3, <2>4 DEF AnswerInv, LineNo
  <2>7. No({"ZACK"}, toTerminal')
    BY DEF Silent, No, AskTypes
  <2>8. ResumeInv'
    BY <2>3, <2>5, <2>7 DEF ResumeInv
  <2>9. HolderInv'
    <3>1. ~Called("frame")' /\ ~Has("again")' /\ ~Has("data")'
      BY <2>1 DEF SzTurn, Has, Turns
    <3> QED
      BY <2>1, <3>1 DEF HolderInv
  <2> QED
    BY <2>1, <2>6, <2>8, <2>9 DEF TurnInv
<1> QED
  BY <1>2, <1>3, <1>4, <1>5 DEF ProtocolInv

\* A request is on its way: sz has no turn, and nothing answers it yet.
LEMMA Asked ==
    ASSUME ProtocolInv, DataTypeOK, toTerminal # <<>>, Head(toTerminal).type \in AskTypes
    PROVE  /\ LineTypeOK /\ curState # "IDLE_STATE" /\ ~Silent
           /\ No(StreamTypes \cup AskTypes, Tail(toTerminal))
           /\ Due(toTerminal, 1) /\ Head(toTerminal) = toTerminal[1]
           /\ Head(toTerminal) \in Requests
           /\ Alive => ~SzTurn /\ LineNo(AnswerTypes)
           /\ No({"ZFIN"}, toTerminal) => No({"ZFIN"}, Tail(toTerminal))
           /\ ~No({"ZFIN"}, Tail(toTerminal)) => ~No({"ZFIN"}, toTerminal)
<1>1. LineTypeOK /\ toTerminal \in Seq(Requests) /\ RequestInv
  BY DEF DataTypeOK, LineTypeOK, ProtocolInv
<1>2. Head(toTerminal) = toTerminal[1] /\ 1 \in 1..Len(toTerminal) /\ Head(toTerminal) \in Requests
  BY <1>1, TailLemma
<1>3. ~No(AskTypes, toTerminal) /\ ~Silent
  BY <1>2 DEF No, Silent
<1>4. curState # "IDLE_STATE"
  BY <1>3 DEF ProtocolInv, BootInv
<1>5. Due(toTerminal, 1)
  BY <1>1, <1>2 DEF RequestInv, Requested
<1>6. Alive => ~SzTurn /\ LineNo(AnswerTypes)
  BY <1>3 DEF ProtocolInv, TurnInv, AnswerInv, HolderInv
<1>7. No({"ZFIN"}, toTerminal) => No({"ZFIN"}, Tail(toTerminal))
  BY <1>1, NoTail
<1> QED
  BY <1>1, <1>2, <1>3, <1>4, <1>5, <1>6, <1>7, AskedTail

\* The terminal answers ZRQINIT with ZRINIT.
LEMMA GetsZrqinitProtocol ==
    ASSUME ProtocolInv, DataTypeOK, GetsZrqinit, UNCHANGED <<engineVars, fileVars, inputVars>>
    PROVE  ProtocolInv'
<1>0. PICK t \in Answers : t = Frame("ZRINIT", version)
  BY DEF DataTypeOK, StoreTypeOK, Answers, Frame
<1>21. <<t>> \in Seq(Answers)
  OBVIOUS
<1>22. PICK ts \in Seq(Answers) : ts = <<t>>
  BY <1>21
<1>1. /\ toTerminal # <<>> /\ Head(toTerminal).type = "ZRQINIT" /\ toTerminal' = Tail(toTerminal)
      /\ Replies(ts) /\ phase' = "ready" /\ UNCHANGED <<offer, store, done>>
  BY <1>0, <1>22 DEF GetsZrqinit, Gets
<1>2. /\ Head(toTerminal).type \in AskTypes
  BY <1>1 DEF AskTypes
<1>3. /\ LineTypeOK /\ curState # "IDLE_STATE" /\ ~Silent
      /\ No(StreamTypes \cup AskTypes, Tail(toTerminal))
      /\ Due(toTerminal, 1) /\ Head(toTerminal) = toTerminal[1]
      /\ Alive => ~SzTurn /\ LineNo(AnswerTypes)
      /\ No({"ZFIN"}, toTerminal) => No({"ZFIN"}, Tail(toTerminal))
  BY <1>1, <1>2, Asked
<1>4. phase \in {"ready", "over"}
  BY <1>1, <1>3 DEF Due
<1>5. t.type = "ZRINIT"
  BY <1>0 DEF Frame
<1>6. Len(ts) = 1 /\ \A i \in 1..Len(ts) : i = 1 /\ ts[i] = t
  BY <1>22
<1>7. OneOf(AnswerTypes, ts) /\ OneOf({"DATA"}, ts)
  BY <1>6 DEF OneOf
<1>8. Silent'
  BY <1>1, <1>3 DEF Silent
<1>9. UNCHANGED zmodemFileM /\ UNCHANGED curState
  BY DEF fileVars, engineVars
<1>10. PhaseInv'
  BY <1>1, <1>3, <1>9 DEF ProtocolInv, PhaseInv, Alive
<1>11. Alive => LineNo({"DATA"})
  <2>1. phase # "checking"
    BY <1>4
  <2> QED
    BY <2>1 DEF ProtocolInv, TurnInv, ResumeInv, LineNo
<1>12. \A i \in 1..Len(ts) : ts[i].type \in AnswerTypes => phase' # "asked" /\ Tells(ts[i])'
  BY <1>1, <1>5, <1>6 DEF Tells
<1>13. \A i \in 1..Len(ts) : ts[i].type = "DATA" =>
           /\ phase' = "checking" /\ ts[i].len = store'[offer'].len
           /\ ts[i].sound = store'[offer'].sound
  <2>1. t.type # "DATA"
    BY <1>5
  <2> QED
    BY ONLY <1>6, <2>1
<1> QED
  BY <1>1, <1>3, <1>6, <1>7, <1>8, <1>10, <1>11, <1>12, <1>13, Answered

\* The terminal takes an offer and asks its user.
LEMMA GetsZfileProtocol ==
    ASSUME ProtocolInv, DataTypeOK, GetsZfile, UNCHANGED <<engineVars, fileVars, inputVars>>
    PROVE  ProtocolInv'
<1> DEFINE ts == <<>>
<1>1. /\ toTerminal # <<>> /\ Head(toTerminal).type = "ZFILE" /\ toTerminal' = Tail(toTerminal)
      /\ phase' = "asked" /\ offer' = Head(toTerminal).arg /\ UNCHANGED <<toProgram, store, done>>
  BY DEF GetsZfile, Gets
<1>2. /\ Head(toTerminal).type \in AskTypes
  BY <1>1 DEF AskTypes
<1>3. /\ LineTypeOK /\ curState # "IDLE_STATE" /\ ~Silent
      /\ No(StreamTypes \cup AskTypes, Tail(toTerminal))
      /\ Due(toTerminal, 1) /\ Head(toTerminal) = toTerminal[1]
      /\ Alive => ~SzTurn /\ LineNo(AnswerTypes)
      /\ No({"ZFIN"}, toTerminal) => No({"ZFIN"}, Tail(toTerminal))
  BY <1>1, <1>2, Asked
<1>4. phase \in {"ready", "over"} /\ offer' = zmodemFileM
  BY <1>1, <1>3 DEF Due
<1>5. Replies(ts)
  <2>1. toProgram \o <<>> = toProgram
    BY <1>3, ConcatEmptySeq DEF LineTypeOK, Lines
  <2> QED
    BY <1>1, <2>1 DEF Replies
<1>6. ts \in Seq(Answers) /\ Len(ts) = 0 /\ \A i \in 1..Len(ts) : FALSE
  OBVIOUS
<1> HIDE DEF ts
<1>7. OneOf(AnswerTypes, ts) /\ OneOf({"DATA"}, ts)
  BY <1>6 DEF OneOf
<1>8. Silent'
  BY <1>1, <1>3 DEF Silent
<1>9. UNCHANGED zmodemFileM /\ UNCHANGED curState
  BY DEF fileVars, engineVars
<1>10. PhaseInv'
  BY <1>1, <1>3, <1>4, <1>9 DEF ProtocolInv, PhaseInv, Alive
<1>11. Alive => LineNo({"DATA"})
  <2>1. phase # "checking"
    BY <1>4
  <2> QED
    BY <2>1 DEF ProtocolInv, TurnInv, ResumeInv, LineNo
<1> QED
  BY <1>3, <1>5, <1>6, <1>7, <1>8, <1>10, <1>11, Answered

\* The terminal answers once, or takes a request without an answer.
LEMMA AnsweredOnce ==
    ASSUME ProtocolInv, DataTypeOK, UNCHANGED <<engineVars, fileVars, inputVars>>,
           curState # "IDLE_STATE", Silent', PhaseInv',
           Alive => ~SzTurn /\ LineNo(AnswerTypes) /\ LineNo({"DATA"}),
           NEW t \in Answers, Replies(<<t>>), t.type \in AnswerTypes, phase' # "asked", Tells(t)'
    PROVE  ProtocolInv'
<1>1. <<t>> \in Seq(Answers)
  OBVIOUS
<1>2. PICK ts \in Seq(Answers) : ts = <<t>>
  BY <1>1
<1>3. Replies(ts) /\ \A i \in 1..Len(ts) : i = 1 /\ ts[i] = t
  BY <1>2
<1>4. OneOf(AnswerTypes, ts) /\ OneOf({"DATA"}, ts)
  BY <1>3 DEF OneOf
<1>5. \A i \in 1..Len(ts) : ts[i].type # "DATA" /\ Tells(ts[i])'
  <2>1. t.type # "DATA"
    BY DEF AnswerTypes
  <2> QED
    BY ONLY <1>3, <2>1, Tells(t)' DEF Tells
<1> QED
  BY <1>3, <1>4, <1>5, Answered

\* ... which is what it does with ZFILE.
LEMMA Unanswered ==
    ASSUME ProtocolInv, DataTypeOK, UNCHANGED <<engineVars, fileVars, inputVars>>,
           curState # "IDLE_STATE", Silent', PhaseInv',
           Alive => ~SzTurn /\ LineNo(AnswerTypes) /\ LineNo({"DATA"}), UNCHANGED toProgram
    PROVE  ProtocolInv'
<1>0. <<>> \in Seq(Answers)
  OBVIOUS
<1>1. PICK ts \in Seq(Answers) : ts = <<>>
  BY <1>0
<1>2. Replies(ts)
  <2>1. toProgram \o <<>> = toProgram
    BY ConcatEmptySeq DEF DataTypeOK, LineTypeOK, Lines
  <2> QED
    BY <1>1, <2>1 DEF Replies
<1>3. \A i \in 1..Len(ts) : FALSE
  BY <1>1
<1>4. OneOf(AnswerTypes, ts) /\ OneOf({"DATA"}, ts)
  BY <1>3 DEF OneOf
<1> QED
  BY <1>2, <1>3, <1>4, Answered

\* While the user is asked, nothing is on its way but what nobody waits for.
LEMMA UserAsked ==
    ASSUME ProtocolInv, DataTypeOK, phase = "asked"
    PROVE  /\ LineTypeOK /\ Silent /\ curState # "IDLE_STATE"
           /\ offer = zmodemFileM /\ offer \in Files /\ Size[offer] \in Nat
           /\ Alive => ~SzTurn /\ LineNo(AnswerTypes) /\ LineNo({"DATA"})
<1>1. LineTypeOK /\ offer = zmodemFileM /\ curState # "IDLE_STATE"
  BY DEF DataTypeOK, ProtocolInv, PhaseInv, BootInv
<1>2. Silent
  <2>1. \A i \in 1..Len(toTerminal) : Due(toTerminal, i)
    BY DEF ProtocolInv, RequestInv, Requested
  <2>2. \A i \in 1..Len(toTerminal) : toTerminal[i].type \notin StreamTypes \cup AskTypes
    BY <2>1 DEF Due, StreamTypes, AskTypes
  <2> QED
    BY <2>2 DEF Silent, No
<1>3. offer \in Files /\ Size[offer] \in Nat
  BY SzAssumption DEF DataTypeOK, StoreTypeOK
<1>4. ASSUME Alive
      PROVE  ~SzTurn /\ LineNo(AnswerTypes) /\ LineNo({"DATA"})
  <2>1. AnswerInv /\ ResumeInv /\ HolderInv
    BY <1>4 DEF ProtocolInv, TurnInv
  <2>2. ~SzTurn /\ LineNo(AnswerTypes)
    BY <2>1 DEF AnswerInv, HolderInv
  <2>3. LineNo({"DATA"})
    BY <2>1 DEF ResumeInv, LineNo
  <2> QED
    BY <2>2, <2>3
<1> QED
  BY <1>1, <1>2, <1>3, <1>4

\* The user does not want the file: ZSKIP.
LEMMA RefuseProtocol ==
    ASSUME ProtocolInv, DataTypeOK, Refuse, UNCHANGED <<engineVars, fileVars, inputVars>>
    PROVE  ProtocolInv'
<1>1. /\ phase = "asked" /\ phase' = "ready" /\ Replies(<<Frame("ZSKIP", 0)>>)
      /\ UNCHANGED <<toTerminal, offer, store, done, zmodemFileM, curState>>
  BY DEF Refuse, fileVars, engineVars
<1>2. PICK t \in Answers : t = Frame("ZSKIP", 0)
  BY DEF Answers, Frame
<1>3. t.type = "ZSKIP" /\ t.type \in AnswerTypes
  BY <1>2 DEF Frame, AnswerTypes
<1>4. Silent' /\ PhaseInv'
  BY <1>1, UserAsked DEF Silent, ProtocolInv, PhaseInv, Alive
<1>5. Tells(t)'
  BY <1>1, <1>3 DEF Tells
<1> QED
  BY <1>1, <1>2, <1>3, <1>4, <1>5, UserAsked, AnsweredOnce

\* The terminal waits for the file from the first byte, or from where it has it.
LEMMA StartsProtocol ==
    ASSUME ProtocolInv, DataTypeOK, UNCHANGED <<engineVars, fileVars, inputVars, offer, done>>,
           curState # "IDLE_STATE", Silent',
           ~No({"ZFIN"}, toTerminal') => ~No({"ZFIN"}, toTerminal),
           Alive => ~SzTurn /\ LineNo(AnswerTypes) /\ LineNo({"DATA"}),
           phase \in {"asked", "checking"}, NEW from \in Nat, Starts(from),
           from # 0 => from = store[offer].len /\ store[offer].sound /\ from <= Size[offer]
    PROVE  ProtocolInv'
<1>1. /\ phase' = "waiting" /\ Replies(<<Frame("ZRPOS", from)>>)
      /\ store' = IF from = 0 THEN [store EXCEPT ![offer] = [len |-> 0, sound |-> TRUE]] ELSE store
      /\ UNCHANGED <<offer, done, zmodemFileM, curState>>
  BY DEF Starts, fileVars, engineVars
<1>2. PICK t \in Answers : t = Frame("ZRPOS", from)
  BY DEF Answers, Frame
<1>3. t.type = "ZRPOS" /\ t.type \in AnswerTypes /\ t.arg = from
  BY <1>2 DEF Frame, AnswerTypes
<1>4. /\ store \in [Files -> [len : Nat, sound : BOOLEAN]] /\ offer \in Files /\ Size[offer] \in Nat
      /\ offer = zmodemFileM /\ done \subseteq Files /\ \A f \in done : store[f].sound
  BY SzAssumption DEF DataTypeOK, StoreTypeOK, ProtocolInv, PhaseInv
<1>5. store'[offer].len = from /\ store'[offer].sound /\ from <= Size[offer]
  BY <1>1, <1>4
<1>6. \A f \in done : store'[f].sound
  BY <1>1, <1>4
<1>7. PhaseInv'
  BY <1>1, <1>4, <1>5, <1>6 DEF ProtocolInv, PhaseInv, Alive
<1>8. Tells(t)'
  BY <1>1, <1>3, <1>4, <1>5 DEF Tells
<1> QED
  BY <1>1, <1>2, <1>3, <1>7, <1>8, AnsweredOnce

\* The user wants the file, from its first byte: ZRPOS.
LEMMA AcceptProtocol ==
    ASSUME ProtocolInv, DataTypeOK, Accept, UNCHANGED <<engineVars, fileVars, inputVars>>
    PROVE  ProtocolInv'
<1>1. phase = "asked" /\ Starts(0) /\ UNCHANGED <<toTerminal, offer, done>> /\ 0 \in Nat
  BY DEF Accept
<1>2. Silent'
  BY <1>1, UserAsked DEF Silent
<1> QED
  BY <1>1, <1>2, UserAsked, StartsProtocol

\* The terminal has a part of the file and asks what it is worth: ZCOMMAND.
LEMMA AskToResumeProtocol ==
    ASSUME ProtocolInv, DataTypeOK, AskToResume, UNCHANGED <<engineVars, fileVars, inputVars>>
    PROVE  ProtocolInv'
<1>1. store[offer].len \in Nat /\ store[offer].sound \in BOOLEAN
  BY DEF DataTypeOK, StoreTypeOK
<1>2. PICK c \in Answers : c = Frame("ZCOMMAND", "check last break")
  BY DEF Answers, Frame
<1>3. PICK d \in Answers : d = [type |-> "DATA", len |-> store[offer].len,
                                sound |-> store[offer].sound]
  BY <1>1 DEF Answers
<1>4. <<c, d>> \in Seq(Answers)
  OBVIOUS
<1>5. PICK ts \in Seq(Answers) : ts = <<c, d>>
  BY <1>4
<1>6. /\ phase = "asked" /\ phase' = "checking" /\ Replies(ts)
      /\ UNCHANGED <<toTerminal, offer, store, done, zmodemFileM, curState>>
  BY <1>2, <1>3, <1>5 DEF AskToResume, fileVars, engineVars
<1>7. /\ c.type = "ZCOMMAND" /\ d.type = "DATA" /\ d.len = store'[offer'].len
      /\ d.sound = store'[offer'].sound
  BY <1>2, <1>3, <1>6 DEF Frame
<1>8. /\ \A i \in 1..Len(ts) : i = 1 \/ i = 2
      /\ ts[1] = c /\ ts[2] = d
  BY <1>5
<1>9. Silent' /\ PhaseInv'
  BY <1>6, UserAsked DEF Silent, ProtocolInv, PhaseInv, Alive
<1>10. OneOf(AnswerTypes, ts) /\ OneOf({"DATA"}, ts)
  BY <1>7, <1>8 DEF OneOf, AnswerTypes
<1>11. Tells(c)'
  BY <1>6, <1>7 DEF Tells
<1>12. \A i \in 1..Len(ts) : ts[i].type \in AnswerTypes => phase' # "asked" /\ Tells(ts[i])'
  <2>1. \A i \in 1..Len(ts) : ts[i].type \in AnswerTypes => ts[i] = c
    BY <1>7, <1>8 DEF AnswerTypes
  <2> QED
    BY ONLY <1>6, <1>11, <2>1 DEF Tells
<1>13. \A i \in 1..Len(ts) : ts[i].type = "DATA" =>
           /\ phase' = "checking" /\ ts[i].len = store'[offer'].len
           /\ ts[i].sound = store'[offer'].sound
  <2>1. \A i \in 1..Len(ts) : ts[i].type = "DATA" => ts[i] = d
    BY <1>7, <1>8
  <2> QED
    BY ONLY <1>6, <1>7, <2>1
<1> QED
  BY <1>6, <1>9, <1>10, <1>12, <1>13, UserAsked, Answered

\* The terminal goes on behind the valid part, or starts over: ZRPOS.
LEMMA GetsZackProtocol ==
    ASSUME ProtocolInv, DataTypeOK, GetsZack, UNCHANGED <<engineVars, fileVars, inputVars>>
    PROVE  ProtocolInv'
<1>1. /\ toTerminal # <<>> /\ Head(toTerminal).type = "ZACK" /\ toTerminal' = Tail(toTerminal)
      /\ UNCHANGED <<offer, done, zmodemFileM, curState>>
  BY DEF GetsZack, Gets, fileVars, engineVars
<1>2. Head(toTerminal).type \in AskTypes
  BY <1>1 DEF AskTypes
<1>3. /\ LineTypeOK /\ curState # "IDLE_STATE" /\ ~Silent
      /\ No(StreamTypes \cup AskTypes, Tail(toTerminal))
      /\ Due(toTerminal, 1) /\ Head(toTerminal) = toTerminal[1] /\ Head(toTerminal) \in Requests
      /\ Alive => ~SzTurn /\ LineNo(AnswerTypes)
      /\ No({"ZFIN"}, toTerminal) => No({"ZFIN"}, Tail(toTerminal))
  BY <1>1, <1>2, Asked
<1>4. Silent'
  BY <1>1, <1>3 DEF Silent
<1>5. Alive => LineNo({"DATA"})
  <2>1. 1 \in 1..Len(toTerminal)
    BY <1>1, <1>3, TailLemma DEF LineTypeOK
  <2>2. ~No({"ZACK"}, toTerminal)
    BY <1>1, <1>3, <2>1 DEF No
  <2> QED
    BY <2>2 DEF ProtocolInv, TurnInv, ResumeInv
<1>6. CASE phase # "checking"
  <2>1. UNCHANGED <<toProgram, phase, store>>
    BY <1>6 DEF GetsZack
  <2>2. PhaseInv'
    BY <1>1, <1>3, <2>1 DEF ProtocolInv, PhaseInv, Alive
  <2> QED
    BY <1>3, <1>4, <1>5, <2>1, <2>2, Unanswered
<1>7. CASE phase = "checking" /\ Head(toTerminal).arg = Length[offer] /\ Length[offer] > 0
  <2>1. phase' = "ready" /\ Replies(<<Frame("ZSKIP", 0)>>) /\ UNCHANGED store
    BY <1>7 DEF GetsZack
  <2>2. PICK t \in Answers : t = Frame("ZSKIP", 0)
    BY DEF Answers, Frame
  <2>3. t.type = "ZSKIP" /\ t.type \in AnswerTypes
    BY <2>2 DEF Frame, AnswerTypes
  <2>4. PhaseInv'
    BY <1>1, <1>3, <1>7, <2>1 DEF ProtocolInv, PhaseInv, Alive
  <2>5. Tells(t)'
    BY <2>1, <2>3 DEF Tells
  <2> QED
    BY <1>3, <1>4, <1>5, <2>1, <2>2, <2>3, <2>4, <2>5, AnsweredOnce
<1>8. CASE phase = "checking" /\ ~(Head(toTerminal).arg = Length[offer] /\ Length[offer] > 0)
  <2>1. PICK from \in Nat : from = Head(toTerminal).arg
    BY <1>1, <1>3, TokensLemma
  <2>2. Starts(from)
    BY <1>8, <2>1 DEF GetsZack
  <2>3. from # 0 => from = store[offer].len /\ store[offer].sound /\ from <= Size[offer]
    BY <1>1, <1>3, <1>8, <2>1 DEF Due
  <2> QED
    BY <1>1, <1>3, <1>4, <1>5, <1>8, <2>2, <2>3, StartsProtocol
<1> QED
  BY <1>6, <1>7, <1>8

\* The end of the file closes it: ZRINIT, if it is as long as ZEOF says.
LEMMA GetsZeofProtocol ==
    ASSUME ProtocolInv, DataTypeOK, GetsZeof, UNCHANGED <<engineVars, fileVars, inputVars>>
    PROVE  ProtocolInv'
<1>1. /\ toTerminal # <<>> /\ Head(toTerminal).type = "ZEOF" /\ toTerminal' = Tail(toTerminal)
      /\ UNCHANGED <<offer, store, zmodemFileM, curState>>
  BY DEF GetsZeof, Gets, fileVars, engineVars
<1>2. Head(toTerminal).type \in AskTypes /\ Head(toTerminal).type \in StreamTypes
  BY <1>1 DEF AskTypes, StreamTypes
<1>3. /\ LineTypeOK /\ curState # "IDLE_STATE" /\ ~Silent
      /\ No(StreamTypes \cup AskTypes, Tail(toTerminal))
      /\ Due(toTerminal, 1) /\ Head(toTerminal) = toTerminal[1]
      /\ Alive => ~SzTurn /\ LineNo(AnswerTypes)
      /\ No({"ZFIN"}, toTerminal) => No({"ZFIN"}, Tail(toTerminal))
  BY <1>1, <1>2, Asked
<1>4. Silent'
  BY <1>1, <1>3 DEF Silent
<1>5. Alive => LineNo({"DATA"})
  <2>1. phase # "checking"
    BY <1>2, <1>3 DEF Due
  <2> QED
    BY <2>1 DEF ProtocolInv, TurnInv, ResumeInv, LineNo
<1>6. CASE phase = "waiting" /\ Head(toTerminal).arg = store[offer].len
  <2>1. /\ phase' = "ready" /\ Replies(<<Frame("ZRINIT", version)>>)
        /\ done' = done \cup {offer}
    BY <1>6 DEF GetsZeof
  <2>2. PICK t \in Answers : t = Frame("ZRINIT", version)
    BY DEF DataTypeOK, StoreTypeOK, Answers, Frame
  <2>3. t.type = "ZRINIT" /\ t.type \in AnswerTypes
    BY <2>2 DEF Frame, AnswerTypes
  <2>4. store[offer].sound /\ offer \in Files
    BY <1>6 DEF ProtocolInv, PhaseInv, DataTypeOK, StoreTypeOK
  <2>5. PhaseInv'
    BY <1>1, <1>3, <1>6, <2>1, <2>4 DEF ProtocolInv, PhaseInv, Alive
  <2>6. Tells(t)'
    BY <2>1, <2>3 DEF Tells
  <2> QED
    BY <1>3, <1>4, <1>5, <2>1, <2>2, <2>3, <2>5, <2>6, AnsweredOnce
<1>7. CASE ~(phase = "waiting" /\ Head(toTerminal).arg = store[offer].len)
  <2>1. UNCHANGED <<toProgram, phase, done>>
    BY <1>7 DEF GetsZeof
  <2>2. PhaseInv'
    BY <1>1, <1>3, <2>1 DEF ProtocolInv, PhaseInv, Alive
  <2> QED
    BY <1>3, <1>4, <1>5, <2>1, <2>2, Unanswered
<1> QED
  BY <1>6, <1>7

\* A heartbeat is no answer.
LEMMA HeartbeatProtocol ==
    ASSUME ProtocolInv, DataTypeOK, Heartbeat, UNCHANGED <<engineVars, fileVars, inputVars>>
    PROVE  ProtocolInv'
<1>1. PICK t \in Answers : t = Frame("ZHEARTBEAT", 0)
  BY DEF Answers, Frame
<1>2. <<t>> \in Seq(Answers)
  OBVIOUS
<1>3. PICK ts \in Seq(Answers) : ts = <<t>>
  BY <1>2
<1>4. /\ phase = "asked" /\ Replies(ts)
      /\ UNCHANGED <<toTerminal, phase, offer, store, done, zmodemFileM, curState>>
  BY <1>1, <1>3 DEF Heartbeat, fileVars, engineVars
<1>5. Silent' /\ PhaseInv'
  BY <1>4, UserAsked DEF Silent, ProtocolInv, PhaseInv, Alive
<1>6. \A i \in 1..Len(ts) : ts[i].type = "ZHEARTBEAT"
  BY <1>1, <1>3 DEF Frame
<1>7. \A i \in 1..Len(ts) : ts[i].type \notin AnswerTypes /\ ts[i].type # "DATA"
  BY <1>6 DEF AnswerTypes
<1>8. OneOf(AnswerTypes, ts) /\ OneOf({"DATA"}, ts)
  BY <1>7 DEF OneOf
<1> QED
  BY <1>4, <1>5, <1>7, <1>8, UserAsked, Answered

\* The last request stays the last one.
LEMMA LastTail ==
    ASSUME NEW S, NEW u \in Seq(S), u # <<>>
    PROVE  /\ Tail(u) # <<>> => Last(Tail(u)) = Last(u)
           /\ Tail(u) = <<>> => Last(u) = Head(u)
<1>1. /\ Tail(u) \in Seq(S) /\ Len(u) \in Nat \ {0} /\ Len(Tail(u)) = Len(u) - 1 /\ Head(u) = u[1]
      /\ \A i \in 1..Len(Tail(u)) : Tail(u)[i] = u[i + 1]
  BY TailLemma
<1>2. ASSUME Tail(u) # <<>>
      PROVE  Last(Tail(u)) = Last(u)
  <2>1. Len(Tail(u)) # 0
    BY <1>1, <1>2, EmptySeq
  <2>2. Len(Tail(u)) \in 1..Len(Tail(u)) /\ Len(Tail(u)) + 1 = Len(u)
    BY <1>1, <2>1
  <2> QED
    BY <1>1, <2>2 DEF Last
<1>3. ASSUME Tail(u) = <<>>
      PROVE  Last(u) = Head(u)
  <2> DEFINE v == Tail(u)
  <2>1. v = <<>> /\ Len(u) \in Nat \ {0} /\ Len(v) = Len(u) - 1
    BY <1>1, <1>3
  <2> HIDE DEF v
  <2>2. Len(v) = 0
    BY ONLY <2>1
  <2>3. Len(u) = 1
    BY ONLY <2>1, <2>2
  <2>4. Last(u) = u[Len(u)]
    BY DEF Last
  <2> QED
    BY ONLY <1>1, <2>3, <2>4
<1> QED
  BY <1>2, <1>3

\* The terminal takes a header or a block of the stream.
LEMMA Streamed ==
    ASSUME ProtocolInv, DataTypeOK, UNCHANGED <<engineVars, fileVars, inputVars, offer, done>>,
           toTerminal # <<>>, toTerminal' = Tail(toTerminal),
           Head(toTerminal).type \in {"ZDATA", "DATA"},
           phase \in {"waiting", "receiving", "over"}, phase' \in {"waiting", "receiving", "over"},
           phase' = "over" <=> phase = "over", UNCHANGED toProgram \/ phase = "over",
           phase' = "receiving" => store'[offer].len = End(Head(toTerminal)),
           phase' # "over" => store'[offer].sound, \A f \in done : store'[f].sound
    PROVE  ProtocolInv'
<1>1. LineTypeOK /\ RequestInv /\ toTerminal \in Seq(Requests)
  BY DEF DataTypeOK, LineTypeOK, ProtocolInv
<1>2. /\ UNCHANGED <<bufferM, zmodemFileM, posM, stream, curState, offer, done>>
  BY DEF inputVars, fileVars, engineVars
<1>3. /\ CallsInv' /\ (Alive' <=> Alive) /\ (SzOne => SzOne')
      /\ (SzTurn' <=> SzTurn) /\ (Called("frame")' <=> Called("frame"))
  BY EngineSame DEF ProtocolInv
<1>4. RequestInv'
  BY <1>1, <1>2, StreamTail
<1>5. ~Silent /\ ~No(StreamTypes, toTerminal)
  <2>1. Head(toTerminal) = toTerminal[1] /\ 1 \in 1..Len(toTerminal)
    BY <1>1, TailLemma
  <2> QED
    BY <2>1 DEF Silent, No, StreamTypes
<1>6. No({"ZFIN"}, toTerminal) => No({"ZFIN"}, toTerminal')
  BY <1>1, NoTail
<1>7. PhaseInv' /\ BootInv'
  <2>1. curState # "IDLE_STATE"
    BY <1>5 DEF ProtocolInv, BootInv
  <2>2. phase' \notin {"ready", "over"} => offer = zmodemFileM
    BY DEF ProtocolInv, PhaseInv
  <2>3. phase' = "over" \/ ~No({"ZFIN"}, toTerminal') => ~Alive'
    BY <1>3, <1>6 DEF ProtocolInv, PhaseInv
  <2>4. done' \subseteq Files /\ \A f \in done' : store'[f].sound
    BY <1>2 DEF ProtocolInv, PhaseInv
  <2> QED
    BY <1>2, <2>1, <2>2, <2>3, <2>4 DEF PhaseInv, BootInv
<1>8. ASSUME Alive
      PROVE  TurnInv'
  <2>1. SzOne' /\ AnswerInv /\ ResumeInv /\ HolderInv /\ phase # "over"
    BY <1>3, <1>8 DEF ProtocolInv, TurnInv, PhaseInv
  <2>2. UNCHANGED <<bufferM, toProgram>>
    BY <1>2, <2>1
  <2>3. UNCHANGED Lined /\ (LineOne(AnswerTypes)' <=> LineOne(AnswerTypes))
        /\ (LineNo(AnswerTypes)' <=> LineNo(AnswerTypes))
        /\ (LineNo({"DATA"})' <=> LineNo({"DATA"})) /\ (LineOne({"DATA"})' <=> LineOne({"DATA"}))
    BY <2>2 DEF Lined, LineNo, LineOne
  <2>4. LineNo(AnswerTypes) /\ LineNo({"DATA"})
    <3>1. LineNo(AnswerTypes)
      BY <1>5, <2>1 DEF AnswerInv
    <3>2. LineNo({"DATA"})
      BY <2>1 DEF ResumeInv, LineNo
    <3> QED
      BY <3>1, <3>2
  <2>5. AnswerInv'
    BY <2>1, <2>3, <2>4 DEF AnswerInv, LineNo
  <2>6. ResumeInv'
    BY <2>1, <2>3, <2>4 DEF ResumeInv, LineNo
  <2>7. ~Called("frame")' /\ ~Has("again")' /\ (Has("data")' => Has("data"))
    <3>1. ~Called("frame") /\ ~Has("again")
      BY <1>5, <2>1 DEF HolderInv
    <3>2. UNCHANGED <<agenda, jobs>>
      BY DEF engineVars
    <3> QED
      BY <3>1, <3>2 DEF Has, Called, Queued
  <2>8. ASSUME Has("data")
        PROVE  GoesOn'
    <3>1. Last(toTerminal).type \in {"ZDATA", "DATA"} /\ posM = End(Last(toTerminal))
      BY <1>5, <2>1, <2>8 DEF HolderInv, GoesOn
    <3>2. CASE Tail(toTerminal) # <<>>
      <4>1. Last(toTerminal') = Last(toTerminal)
        BY <1>1, <3>2, LastTail
      <4> QED
        BY <1>2, <3>1, <3>2, <4>1 DEF GoesOn, End
    <3>3. CASE Tail(toTerminal) = <<>>
      <4>1. posM = End(Head(toTerminal))
        BY <1>1, <3>1, <3>3, LastTail
      <4>2. No(StreamTypes, toTerminal')
        <5>1. Len(toTerminal') = 0
          BY <3>3
        <5>2. \A i \in 1..Len(toTerminal') : FALSE
          BY ONLY <5>1
        <5> QED
          BY ONLY <5>2 DEF No
      <4> QED
        BY <1>2, <3>3, <4>1, <4>2 DEF GoesOn
    <3> QED
      BY <3>2, <3>3
  <2>9. HolderInv'
    <3>1. No(AskTypes, toTerminal) => No(AskTypes, toTerminal')
      BY <1>1, NoTail
    <3> QED
      BY <1>2, <1>3, <2>1, <2>3, <2>4, <2>7, <2>8, <3>1 DEF HolderInv
  <2> QED
    BY <2>1, <2>5, <2>6, <2>9 DEF TurnInv
<1> QED
  BY <1>3, <1>4, <1>7, <1>8 DEF ProtocolInv

\* ZDATA starts the stream at the length the terminal has.
LEMMA GetsZdataProtocol ==
    ASSUME ProtocolInv, DataTypeOK, GetsZdata, UNCHANGED <<engineVars, fileVars, inputVars>>
    PROVE  ProtocolInv'
<1>1. /\ toTerminal # <<>> /\ Head(toTerminal).type = "ZDATA" /\ toTerminal' = Tail(toTerminal)
      /\ UNCHANGED <<offer, store, done>>
  BY DEF GetsZdata, Gets
<1>2. Due(toTerminal, 1) /\ Head(toTerminal) = toTerminal[1]
  BY <1>1, TailLemma DEF DataTypeOK, LineTypeOK, ProtocolInv, RequestInv, Requested
<1>3. phase = "over" \/ (phase = "waiting" /\ Head(toTerminal).arg = store[offer].len)
  BY <1>1, <1>2 DEF Due
<1>4. \A f \in done : store'[f].sound
  BY <1>1 DEF ProtocolInv, PhaseInv
<1>5. CASE phase = "over"
  <2>1. phase' = "over"
    BY <1>5 DEF GetsZdata
  <2> QED
    BY <1>1, <1>4, <1>5, <2>1, Streamed
<1>6. CASE phase = "waiting" /\ Head(toTerminal).arg = store[offer].len
  <2>1. phase' = "receiving" /\ UNCHANGED toProgram
    BY <1>6 DEF GetsZdata
  <2>2. store'[offer].len = End(Head(toTerminal)) /\ store'[offer].sound
    BY <1>1, <1>6 DEF End, ProtocolInv, PhaseInv
  <2> QED
    BY <1>1, <1>4, <1>6, <2>1, <2>2, Streamed
<1> QED
  BY <1>3, <1>5, <1>6

\* A subpacket makes the file as long as the stream was.
LEMMA GetsSubpacketProtocol ==
    ASSUME ProtocolInv, DataTypeOK, GetsSubpacket, UNCHANGED <<engineVars, fileVars, inputVars>>
    PROVE  ProtocolInv'
<1> DEFINE data == Head(toTerminal)
<1>1. /\ toTerminal # <<>> /\ data.type = "DATA" /\ toTerminal' = Tail(toTerminal)
      /\ UNCHANGED <<toProgram, offer, done>>
  BY DEF GetsSubpacket, Gets
<1>2. Due(toTerminal, 1) /\ data = toTerminal[1] /\ data \in Requests
  BY <1>1, TailLemma DEF DataTypeOK, LineTypeOK, ProtocolInv, RequestInv, Requested
<1>3. phase \in {"waiting", "receiving", "over"}
  BY <1>1, <1>2 DEF Due, StreamTypes
<1>4. /\ store \in [Files -> [len : Nat, sound : BOOLEAN]] /\ offer \in Files
      /\ done \subseteq Files /\ \A f \in done : store[f].sound
      /\ phase # "over" => store[offer].sound
  BY <1>3 DEF DataTypeOK, StoreTypeOK, ProtocolInv, PhaseInv
<1>5. CASE phase = "receiving"
  <2>1. /\ store' = [store EXCEPT ![offer] =
               [len |-> store[offer].len + data.len,
                sound |-> store[offer].sound /\ data.from = store[offer].len]]
        /\ phase' \in {"waiting", "receiving"}
    BY <1>5 DEF GetsSubpacket
  <2>2. data.from = store[offer].len
    BY <1>1, <1>2, <1>5 DEF Due, Follows
  <2>3. store'[offer].len = End(data) /\ store'[offer].sound
    BY <1>1, <1>4, <1>5, <2>1, <2>2 DEF End
  <2>4. \A f \in done : store'[f].sound
    BY <1>4, <2>1, <2>3
  <2> QED
    BY <1>1, <1>5, <2>1, <2>3, <2>4, Streamed
<1>6. CASE phase # "receiving"
  <2>1. UNCHANGED <<store, phase>>
    BY <1>6 DEF GetsSubpacket
  <2> QED
    BY <1>1, <1>3, <1>4, <1>6, <2>1, Streamed
<1> QED
  BY <1>5, <1>6

\* ZFIN ends the session of the terminal; sz had ended its own.
LEMMA GetsZfinProtocol ==
    ASSUME ProtocolInv, DataTypeOK, GetsZfin, UNCHANGED <<engineVars, fileVars, inputVars>>
    PROVE  ProtocolInv'
<1>1. /\ toTerminal # <<>> /\ Head(toTerminal).type = "ZFIN" /\ toTerminal' = Tail(toTerminal)
      /\ phase' = "over" /\ UNCHANGED <<offer, store, done, zmodemFileM, curState>>
  BY DEF GetsZfin, Gets, fileVars, engineVars
<1>2. LineTypeOK /\ RequestInv /\ Head(toTerminal) = toTerminal[1] /\ 1 \in 1..Len(toTerminal)
  BY <1>1, TailLemma DEF DataTypeOK, LineTypeOK, ProtocolInv
<1>3. ~Alive /\ ~Alive' /\ curState' # "IDLE_STATE"
  <2>1. ~No({"ZFIN"}, toTerminal)
    BY <1>1, <1>2 DEF No
  <2> QED
    BY <1>1, <2>1 DEF ProtocolInv, PhaseInv, Alive, Gone
<1>4. Head(toTerminal).type \notin StreamTypes \cup AskTypes
  BY <1>1 DEF StreamTypes, AskTypes
<1>5. RequestInv'
  BY <1>1, <1>2, <1>4, NoiseTail
<1>6. PhaseInv' /\ BootInv'
  BY <1>1, <1>3 DEF ProtocolInv, PhaseInv, BootInv
<1> QED
  BY <1>3, <1>5, <1>6, EngineSame DEF ProtocolInv

\* The terminal ignores the other tokens.
LEMMA GetsOtherProtocol ==
    ASSUME ProtocolInv, DataTypeOK, NEW type \in {"ZCOMMAND", "O"}, GetsOther(type),
           UNCHANGED <<engineVars, fileVars, inputVars>>
    PROVE  ProtocolInv'
<1>1. /\ toTerminal # <<>> /\ Head(toTerminal).type = type /\ toTerminal' = Tail(toTerminal)
      /\ UNCHANGED <<toProgram, phase, offer, store, done, zmodemFileM, posM, stream, curState>>
      /\ UNCHANGED <<bufferM, inputFrameM>>
  BY DEF GetsOther, Gets, fileVars, engineVars, inputVars
<1>2. LineTypeOK /\ RequestInv /\ toTerminal \in Seq(Requests)
  BY DEF DataTypeOK, LineTypeOK, ProtocolInv
<1>3. /\ CallsInv' /\ (Alive' <=> Alive) /\ (SzOne => SzOne')
      /\ (SzTurn' <=> SzTurn) /\ (Called("frame")' <=> Called("frame"))
  BY EngineSame DEF ProtocolInv
<1>4. Head(toTerminal).type \notin StreamTypes \cup AskTypes
  BY <1>1 DEF StreamTypes, AskTypes
<1>5. RequestInv'
  BY <1>1, <1>2, <1>4, NoiseTail
<1>6. \A T : No(T, toTerminal) => No(T, toTerminal')
  BY <1>1, <1>2, NoTail
<1>7. Silent => Silent'
  BY <1>6 DEF Silent
<1>8. PhaseInv' /\ BootInv'
  <2>1. No({"ZFIN"}, toTerminal) => No({"ZFIN"}, toTerminal')
    BY <1>6
  <2> QED
    BY <1>1, <1>3, <1>7, <2>1 DEF ProtocolInv, PhaseInv, BootInv
<1>9. ASSUME Alive
      PROVE  TurnInv'
  <2>1. SzOne' /\ AnswerInv /\ ResumeInv /\ HolderInv
    BY <1>3, <1>9 DEF ProtocolInv, TurnInv
  <2>2. UNCHANGED Lined /\ (LineOne(AnswerTypes)' <=> LineOne(AnswerTypes))
        /\ (LineNo(AnswerTypes)' <=> LineNo(AnswerTypes))
        /\ (LineNo({"DATA"})' <=> LineNo({"DATA"})) /\ (LineOne({"DATA"})' <=> LineOne({"DATA"}))
    BY <1>1 DEF Lined, LineNo, LineOne
  <2>3. AnswerInv'
    BY <1>1, <1>7, <2>1, <2>2 DEF AnswerInv, Tells
  <2>4. ResumeInv'
    <3>1. No({"ZACK"}, toTerminal) => No({"ZACK"}, toTerminal')
      BY <1>6
    <3> QED
      BY <1>1, <2>1, <2>2, <3>1 DEF ResumeInv
  <2>5. (Has("data")' <=> Has("data")) /\ (Has("again")' <=> Has("again"))
    <3>1. UNCHANGED <<agenda, jobs>>
      BY DEF engineVars
    <3> QED
      BY <3>1 DEF Has, Called, Queued
  <2>6. GoesOn => GoesOn'
    <3>1. CASE Last(toTerminal).type \in {"ZDATA", "DATA"}
      <4>1. Tail(toTerminal) # <<>> /\ Last(toTerminal') = Last(toTerminal)
        BY <1>1, <1>2, <1>4, <3>1, LastTail DEF StreamTypes
      <4> QED
        BY <1>1, <3>1, <4>1 DEF GoesOn, End
    <3>2. CASE Last(toTerminal).type \notin {"ZDATA", "DATA"}
      <4>1. toTerminal' # <<>> => Last(toTerminal').type \notin {"ZDATA", "DATA"}
        BY <1>1, <1>2, <3>2, LastTail
      <4>2. No(StreamTypes, toTerminal) => No(StreamTypes, toTerminal')
        BY <1>6
      <4> QED
        BY <1>1, <3>2, <4>1, <4>2 DEF GoesOn
    <3> QED
      BY <3>1, <3>2
  <2>7. HolderInv'
    <3>1. No(AskTypes, toTerminal) => No(AskTypes, toTerminal')
      BY <1>6
    <3>2. SzTurn' => phase' # "asked" /\ No(AskTypes, toTerminal') /\ LineNo(AnswerTypes)'
      BY <1>1, <1>3, <2>1, <2>2, <3>1 DEF HolderInv
    <3>3. Called("frame")' => Tells(inputFrameM)' /\ Silent'
      BY <1>1, <1>3, <1>7, <2>1 DEF HolderInv, Tells
    <3>4. Has("again")' => phase' = "ready" /\ Silent'
      BY <1>1, <1>7, <2>1, <2>5 DEF HolderInv
    <3>5. Has("data")' => phase' \in {"waiting", "receiving"} /\ GoesOn' /\ stream' # "closed"
      BY <1>1, <2>1, <2>5, <2>6 DEF HolderInv
    <3> QED
      BY <3>2, <3>3, <3>4, <3>5 DEF HolderInv
  <2> QED
    BY <2>1, <2>3, <2>4, <2>7 DEF TurnInv
<1> QED
  BY <1>3, <1>5, <1>8, <1>9 DEF ProtocolInv

\* Whatever the terminal does.
LEMMA PeerProtocol ==
    ASSUME ProtocolInv, DataTypeOK, PeerStep
    PROVE  ProtocolInv'
<1>1. UNCHANGED <<engineVars, fileVars, inputVars>>
  BY DEF PeerStep
<1>2. CASE GetsZrqinit \/ GetsZfile \/ GetsZack \/ GetsZeof
  BY <1>1, <1>2, GetsZrqinitProtocol, GetsZfileProtocol, GetsZackProtocol, GetsZeofProtocol
<1>3. CASE Refuse \/ Accept \/ AskToResume \/ Heartbeat
  BY <1>1, <1>3, RefuseProtocol, AcceptProtocol, AskToResumeProtocol, HeartbeatProtocol
<1>4. CASE GetsZdata \/ GetsSubpacket \/ GetsZfin
  BY <1>1, <1>4, GetsZdataProtocol, GetsSubpacketProtocol, GetsZfinProtocol
<1>5. CASE GetsOther("ZCOMMAND") \/ GetsOther("O")
  BY <1>1, <1>5, GetsOtherProtocol
<1> QED
  BY <1>2, <1>3, <1>4, <1>5 DEF PeerStep, TerminalStep

-----------------------------------------------------------------------------
(***************************************************************************)
(* The invariant, and what follows from it.                                *)
(***************************************************************************)

\* Nobody has a turn but the first event, which is queued.
LEMMA ProtocolInit == Init => ProtocolInv
<1> SUFFICES ASSUME Init PROVE ProtocolInv
  OBVIOUS
<1>1. /\ curState = "IDLE_STATE" /\ initialized = FALSE /\ agenda = <<>>
      /\ jobs = <<"SEND_FILE_EVT">> /\ toProgram = <<>> /\ toTerminal = <<>> /\ bufferM = <<>>
      /\ phase = "ready" /\ done = {}
  BY SzAssumption DEF Init, SzInit, SessionInit, EngineInit, WireInit, TerminalInit
<1>2. /\ Len(agenda) = 0 /\ Len(toProgram) = 0 /\ Len(toTerminal) = 0 /\ Len(bufferM) = 0
      /\ Len(jobs) = 1 /\ jobs[1] = "SEND_FILE_EVT"
  BY <1>1
<1>3. /\ \A i \in 1..Len(agenda) : FALSE
      /\ \A i \in 1..Len(toProgram) : FALSE
      /\ \A i \in 1..Len(toTerminal) : FALSE
      /\ \A i \in 1..Len(bufferM) : FALSE
      /\ \A i \in 1..Len(jobs) : i = 1 /\ jobs[i] = "SEND_FILE_EVT"
  BY ONLY <1>2
<1>4. CallsInv
  BY <1>1, <1>3 DEF CallsInv, OneMove, Handled, ZEvents
<1>5. \A T : No(T, toTerminal)
  BY <1>3 DEF No
<1>6. RequestInv
  BY <1>3 DEF RequestInv, Requested, OneOf
<1>7. Silent
  BY <1>5 DEF Silent
<1>8. PhaseInv /\ BootInv
  BY <1>1, <1>5, <1>7 DEF PhaseInv, BootInv
<1>9. \A t \in Lined : FALSE
  BY <1>3 DEF Lined
<1>10. AnswerInv /\ ResumeInv
  BY <1>3, <1>9 DEF AnswerInv, ResumeInv, LineOne, LineNo
<1>11. \A k \in Turns : ~Called(k) /\ (Queued(k) => k = "again")
  BY <1>3 DEF Called, Queued, TurnOfEvent
<1>12. SzOne
  BY <1>3, <1>11 DEF SzOne
<1>13. HolderInv
  <2>1. LineNo(AnswerTypes)
    BY <1>9 DEF LineNo
  <2>2. ~Called("frame") /\ ~Has("data")
    BY <1>11 DEF Turns, Has
  <2> QED
    BY <1>1, <1>5, <1>7, <2>1, <2>2 DEF HolderInv
<1> QED
  BY <1>4, <1>6, <1>8, <1>10, <1>12, <1>13 DEF ProtocolInv, TurnInv

\* Every step preserves the invariant.
LEMMA ProtocolNext ==
    ASSUME ProtocolInv, EngineTypeOK, DataTypeOK, [Next]_transferVars
    PROVE  ProtocolInv'
<1>1. CASE SzThread
  BY <1>1, ThreadProtocol
<1>2. CASE SzRead
  BY <1>2, ReadProtocol DEF SzRead
<1>3. CASE SzSignal
  BY <1>3, SignalProtocol DEF SzSignal
<1>4. CASE SzTimer
  BY <1>4, TimerProtocol DEF SzTimer
<1>5. CASE Interrupt
  BY <1>5, InterruptProtocol DEF Interrupt
<1>6. CASE PeerStep
  BY <1>6, PeerProtocol
<1>7. CASE UNCHANGED transferVars
  <2>1. UNCHANGED <<agenda, jobs, curState, initialized>>
    BY <1>7 DEF transferVars, szVars, sessionVars, engineVars
  <2>2. CallsInv'
    BY <2>1 DEF ProtocolInv, CallsInv, OneMove
  <2>3. TurnsKept
    BY <2>1 DEF TurnsKept, Has, Called, Queued, SzOne, Alive
  <2> QED
    BY <1>7, <2>2, <2>3, FuncStays DEF transferVars, szVars, sessionVars, engineVars, fileVars
<1> QED
  BY <1>1, <1>2, <1>3, <1>4, <1>5, <1>6, <1>7 DEF Next

\* sz and the terminal take turns: sz (main/SzSession.cpp and the table of
\* SzSession.h) sends a request only after the answer to the last one, the
\* terminal answers every request once, and the events that lead from an answer
\* to the next request are never queued twice.  For every list of files, every
\* terminal and user, every loss of output, every cut of the input, every timer
\* and every signal.
THEOREM OneTurn == ProgramSpec => []ProtocolInv
<1>1. ProgramSpec => []DataTypeOK
  BY DataInit, DataNext, PTL DEF ProgramSpec
<1>2. ProgramSpec => []EngineTypeOK
  BY SzImplementsSkeleton, SkeletonTypes, PTL DEF ImplementsSkeleton
<1>3. ProtocolInv /\ EngineTypeOK /\ DataTypeOK /\ [Next]_transferVars => ProtocolInv'
  BY ProtocolNext
<1> QED
  BY <1>1, <1>2, <1>3, ProtocolInit, PTL DEF ProgramSpec

\* What the terminal writes is written to the file sz reads: the file the
\* terminal has open (offer) is the one sz has (zmodemFileM).
THEOREM FileAgreed == ProgramSpec => []SameFile
<1>1. ProtocolInv => SameFile
  BY DEF ProtocolInv, PhaseInv, SameFile
<1> QED
  BY <1>1, OneTurn, PTL

\* sendZdata runs only while the file is open: SEND_ZDATA_EVT is queued by
\* handleZfileRsp, which opened it, or by sendZdata, which did not close it.
THEOREM DataFromOpenFile == ProgramSpec => []DataNeedsOpenFile
<1>1. ProgramSpec => []DataTypeOK
  BY DataInit, DataNext, PTL DEF ProgramSpec
<1>2. ProgramSpec => []EngineTypeOK
  BY SzImplementsSkeleton, SkeletonTypes, PTL DEF ImplementsSkeleton
<1>3. ProtocolInv /\ EngineTypeOK /\ DataTypeOK => DataNeedsOpenFile
  <2> SUFFICES ASSUME ProtocolInv, EngineTypeOK, DataTypeOK, Running("sendZdata")
               PROVE  zmodemFileM # NoFile /\ stream # "closed"
    BY DEF DataNeedsOpenFile
  <2>1. TurnOfFunc("sendZdata") = "data" /\ "data" \in Turns
    BY DEF TurnOfFunc, Turns
  <2>2. HolderInv /\ Has("data")
    BY <2>1, TurnFacts
  <2> QED
    BY <2>2 DEF HolderInv, DataTypeOK, FileTypeOK
<1> QED
  BY <1>1, <1>2, <1>3, OneTurn, PTL

\* A file the terminal has closed holds no wrong byte: each was written at its
\* own position, also when a file was resumed or the session was interrupted.
THEOREM ReceivedSoundly == ProgramSpec => []ReceivedFilesAreSound
<1>1. ProtocolInv => ReceivedFilesAreSound
  BY DEF ProtocolInv, PhaseInv, ReceivedFilesAreSound
<1> QED
  BY <1>1, OneTurn, PTL

-----------------------------------------------------------------------------
(***************************************************************************)
(* The length of the files, when no signal comes.                          *)
(***************************************************************************)

\* What is said of the lengths holds while the files and the terminal stay.
LEMMA WholeStays ==
    ASSUME WholeInv, LineTypeOK, ~signaled', Placed(bufferM', toProgram'),
           UNCHANGED <<filesM, zmodemFileM, posM, stream, phase, offer, store, done>>,
           \A i \in 1..Len(toTerminal') :
               \/ toTerminal'[i].type \notin {"ZFILE", "ZEOF"}
               \/ \E j \in 1..Len(toTerminal) : toTerminal'[i] = toTerminal[j],
           Called("frame")' /\ inputFrameM'.type = "ZRPOS" => Opening, Alive' => Alive
    PROVE  WholeInv'
<1>1. /\ filesM' = filesM /\ zmodemFileM' = zmodemFileM /\ posM' = posM /\ stream' = stream
      /\ phase' = phase /\ offer' = offer /\ store' = store /\ done' = done
  OBVIOUS
<1>2. Left' = Left
  BY <1>1 DEF Left
<1>3. No({"ZFILE"}, toTerminal) => No({"ZFILE"}, toTerminal')
  BY DEF No
<1>4. LineNo({"ZRPOS"}) => LineNo({"ZRPOS"})'
  <2>1. "rest" \notin {"ZRPOS"} /\ toProgram \in Lines(Answers)
    BY DEF LineTypeOK
  <2> QED
    BY <2>1, PlacedLemma, Zenon
<1>5. Opening' => Opening
  BY <1>1, <1>3, <1>4 DEF Opening
<1>6. \A i \in 1..Len(toTerminal') :
          toTerminal'[i].type = "ZEOF" => toTerminal'[i].arg = Size[zmodemFileM]
  BY DEF WholeInv
<1> QED
  BY <1>1, <1>2, <1>3, <1>5, <1>6 DEF WholeInv

\* Tokens that neither offer a file nor end one.
Fileless == {t \in Requests : t.type \notin {"ZFILE", "ZEOF"}}

\* A step of sz that leaves the file as it is, and sends nothing of its end.
LEMMA WholeFunc ==
    ASSUME WholeInv, LineTypeOK, ~signaled', UNCHANGED <<fileVars, termVars>>, TurnsKept,
           Placed(bufferM', toProgram'), UNCHANGED inputFrameM \/ ~Called("frame")',
           NEW ts \in Seq(Fileless), toTerminal' = toTerminal \o ts
    PROVE  WholeInv'
<1>1. UNCHANGED <<filesM, zmodemFileM, posM, stream, phase, offer, store, done>>
  BY DEF fileVars, termVars
<1>2. Called("frame")' /\ inputFrameM'.type = "ZRPOS" => Opening
  BY DEF TurnsKept, Opening
<1>3. \A i \in 1..Len(toTerminal') :
          \/ toTerminal'[i].type \notin {"ZFILE", "ZEOF"}
          \/ \E j \in 1..Len(toTerminal) : toTerminal'[i] = toTerminal[j]
  <2>1. toTerminal \in Seq(Requests) /\ ts \in Seq(Requests)
    BY SeqMonotonic DEF LineTypeOK, Fileless
  <2>2. \A i \in 1..Len(toTerminal \o ts) :
            \/ i \in 1..Len(toTerminal) /\ (toTerminal \o ts)[i] = toTerminal[i]
            \/ i - Len(toTerminal) \in 1..Len(ts) /\ (toTerminal \o ts)[i] = ts[i - Len(toTerminal)]
    BY <2>1, ConcatLemma
  <2>3. \A j \in 1..Len(ts) : ts[j].type \notin {"ZFILE", "ZEOF"}
    BY ElementOfSeq DEF Fileless
  <2> QED
    BY <2>2, <2>3
<1> QED
  BY <1>1, <1>2, <1>3, WholeStays DEF TurnsKept

\* The same when it sends nothing, ...
LEMMA WholeUnsent ==
    ASSUME WholeInv, LineTypeOK, ~signaled', UNCHANGED <<fileVars, termVars>>, TurnsKept,
           Placed(bufferM', toProgram'), UNCHANGED inputFrameM \/ ~Called("frame")',
           UNCHANGED toTerminal
    PROVE  WholeInv'
<1>1. UNCHANGED <<filesM, zmodemFileM, posM, stream, phase, offer, store, done>>
  BY DEF fileVars, termVars
<1>2. Called("frame")' /\ inputFrameM'.type = "ZRPOS" => Opening
  BY DEF TurnsKept, Opening
<1> QED
  BY <1>1, <1>2, WholeStays DEF TurnsKept

\* ... and when it reads nothing.
LEMMA WholeSent ==
    ASSUME WholeInv, LineTypeOK, UNCHANGED <<fileVars, termVars, signaled, inputVars>>, TurnsKept,
           NEW ts \in Seq(Fileless), Sends(ts)
    PROVE  WholeInv'
<1>1. ~signaled /\ ~signaled'
  BY DEF WholeInv
<1>2. toTerminal' = toTerminal \o ts /\ UNCHANGED toProgram
  BY <1>1 DEF Sends, Written
<1>3. UNCHANGED <<inputFrameM, bufferM>>
  BY DEF inputVars
<1> QED
  BY <1>1, <1>2, <1>3, SamePlaces, WholeFunc

\* The steps of the engine, of a timer and of a read.
LEMMA WholeEngine ==
    ASSUME ProtocolInv, WholeInv, EngineTypeOK, LineTypeOK, UNCHANGED <<fileVars, termVars>>,
           EngineStep \/ SessionTimer \/ SignalTick \/ ReadTick
    PROVE  WholeInv'
<1>1. CallsInv /\ ~signaled
  BY DEF ProtocolInv, WholeInv
<1>2. UNCHANGED <<signaled, toTerminal, inputFrameM>>
  BY DEF EngineStep, SessionTimer, SignalTick, ReadTick, wireVars, inputVars
<1>3. CASE EngineStep
  <2>1. TurnsKept /\ UNCHANGED <<bufferM, toProgram>>
    BY <1>1, <1>3, EngineKeeps DEF EngineStep, wireVars, inputVars
  <2> QED
    BY <1>1, <1>2, <2>1, SamePlaces, WholeUnsent
<1>4. CASE SessionTimer
  <2>1. TurnsKept /\ UNCHANGED <<bufferM, toProgram>>
    BY <1>1, <1>4, TimerKeeps DEF SessionTimer, wireVars, inputVars
  <2> QED
    BY <1>1, <1>2, <2>1, SamePlaces, WholeUnsent
<1>5. CASE SignalTick
  BY <1>1, <1>5 DEF SignalTick
<1>6. CASE ReadTick
  <2>1. TurnsKept /\ Placed(bufferM', toProgram')
    BY <1>1, <1>6, ReadKeeps, ReadPlaces
  <2> QED
    BY <1>1, <1>2, <2>1, WholeUnsent
<1> QED
  BY <1>3, <1>4, <1>5, <1>6

\* The functions that touch no file.
LEMMA WholeCommon ==
    ASSUME ProtocolInv, WholeInv, EngineTypeOK, LineTypeOK, UNCHANGED <<fileVars, termVars>>,
           CommonFunction
    PROVE  WholeInv'
<1>1. CallsInv /\ ~signaled
  BY DEF ProtocolInv, WholeInv
<1>2. CASE InitState
  <2>1. /\ TurnsKept /\ bufferM' = <<>> /\ UNCHANGED <<toProgram, toTerminal, inputFrameM, signaled>>
    BY <1>1, <1>2, ReturnsKeeps DEF InitState, wireVars
  <2>2. /\ Len(bufferM) \in 0..Len(bufferM)
        /\ SubSeq(bufferM, Len(bufferM) + 1, Len(bufferM)) = <<>>
    BY LenProperties, SubSeqEmpty DEF LineTypeOK
  <2>3. Placed(bufferM', toProgram')
    BY <2>1, <2>2, DropPlaces
  <2> QED
    BY <1>1, <2>1, <2>3, WholeUnsent
<1>3. CASE SendLeadingMsg
  <2>1. TurnsKept /\ UNCHANGED <<bufferM, toProgram, toTerminal, inputFrameM, signaled>>
    BY <1>1, <1>3, ReturnsKeeps DEF SendLeadingMsg, wireVars, inputVars
  <2> QED
    BY <1>1, <2>1, SamePlaces, WholeUnsent
<1>4. CASE SendClientWorkingDir \/ SendZfin \/ SendOO
  <2>1. /\ TurnsKept /\ UNCHANGED <<inputVars, signaled>>
        /\ UNCHANGED wireVars \/ \E ts \in Seq(Noise) : Sends(ts)
    BY <1>1, <1>4, NoiseCalls
  <2>2. \A ts \in Seq(Noise) : ts \in Seq(Fileless)
    <3>1. Noise \subseteq Fileless
      BY DEF Noise, Fileless, StreamTypes, AskTypes
    <3> QED
      BY <3>1, SeqMonotonic
  <2>3. CASE UNCHANGED wireVars
    <3>1. UNCHANGED <<bufferM, toProgram, toTerminal, inputFrameM>>
      BY <2>1, <2>3 DEF wireVars, inputVars
    <3> QED
      BY <1>1, <2>1, <3>1, SamePlaces, WholeUnsent
  <2> QED
    BY <2>1, <2>2, <2>3, WholeSent
<1>5. CASE ParseFrame
  <2>1. Running("parseFrame") /\ UNCHANGED <<toProgram, toTerminal, signaled>>
    BY <1>5 DEF ParseFrame, wireVars
  <2>2. CASE Placed(bufferM', toProgram') /\ TurnsKept /\ ~Called("frame")'
    BY <1>1, <2>1, <2>2, WholeUnsent
  <2>3. CASE \E i \in 1..Len(bufferM) :
                 /\ bufferM[i].type \in AnswerTypes /\ inputFrameM' = bufferM[i]
                 /\ bufferM' = SubSeq(bufferM, i + 1, Len(bufferM))
                 /\ FuncReturns(fsmTimer, jobs, <<Call("handle", "HANDLE_FRAME_EVT")>>)
    <3>1. PICK i \in 1..Len(bufferM) :
              /\ bufferM[i].type \in AnswerTypes /\ inputFrameM' = bufferM[i]
              /\ bufferM' = SubSeq(bufferM, i + 1, Len(bufferM))
              /\ FuncReturns(fsmTimer, jobs, <<Call("handle", "HANDLE_FRAME_EVT")>>)
      BY <2>3
    <3>2. i \in 0..Len(bufferM)
      BY LenProperties DEF LineTypeOK
    <3>3. Placed(bufferM', toProgram')
      BY <2>1, <3>1, <3>2, DropPlaces
    <3>4. Core(bufferM[i]) = bufferM[i] /\ bufferM[i] \in Lined
      BY <3>1 DEF Core, Lined, AnswerTypes
    <3>5. Called("frame")' /\ inputFrameM'.type = "ZRPOS" => Opening
      BY <3>1, <3>4 DEF Opening, LineNo
    <3>6. Alive' => Alive
      BY <3>1 DEF FuncReturns, Alive
    <3>7. UNCHANGED <<filesM, zmodemFileM, posM, stream, phase, offer, store, done>>
      BY DEF fileVars, termVars
    <3> QED
      BY <1>1, <2>1, <3>3, <3>5, <3>6, <3>7, WholeStays
  <2> QED
    BY <1>1, <1>5, <2>2, <2>3, ParseKeeps
<1> QED
  BY <1>2, <1>3, <1>4, <1>5 DEF CommonFunction

\* sendZrqinit, which takes no file yet.
LEMMA WholeZrqinit ==
    ASSUME ProtocolInv, WholeInv, EngineTypeOK, LineTypeOK, UNCHANGED termVars, SendZrqinit
    PROVE  WholeInv'
<1>1. CallsInv /\ ~signaled /\ Running("sendZrqinit") /\ UNCHANGED <<fileVars, inputVars, signaled>>
  BY DEF ProtocolInv, WholeInv, SendZrqinit
<1>2. CASE filesM = <<>>
  <2>1. TurnsKept
    BY <1>1, <1>2, IdleEvents, EndingKeeps DEF SendZrqinit
  <2>2. UNCHANGED <<bufferM, toProgram, toTerminal, inputFrameM>>
    BY <1>1, <1>2 DEF SendZrqinit, wireVars, inputVars
  <2> QED
    BY <1>1, <2>1, <2>2, SamePlaces, WholeUnsent
<1>3. CASE filesM # <<>>
  <2> DEFINE t == Frame("ZRQINIT", 0)
  <2>1. TurnsKept /\ Sends(<<t>>)
    BY <1>1, <1>3, ReturnsKeeps DEF SendZrqinit
  <2>2. t \in Fileless
    BY DEF Frame, Requests, Fileless
  <2> HIDE DEF t
  <2>3. <<t>> \in Seq(Fileless)
    BY <2>2
  <2> QED
    BY <1>1, <2>1, <2>3, WholeSent
<1> QED
  BY <1>2, <1>3

\* The next file is offered: it is not among those left, nor among those done.
LEMMA WholeZfile ==
    ASSUME ProtocolInv, WholeInv, EngineTypeOK, DataTypeOK, UNCHANGED termVars, SendZfile
    PROVE  WholeInv'
<1>1. /\ CallsInv /\ ~signaled /\ LineTypeOK /\ Running("sendZfile")
      /\ UNCHANGED <<inputVars, signaled>>
  BY DEF ProtocolInv, WholeInv, DataTypeOK, SendZfile
<1>2. CASE inputFrameM.type # "ZRINIT" \/ filesM = <<>>
  <2>1. TurnsKept /\ UNCHANGED fileVars
    BY <1>1, <1>2, IdleEvents, EndingKeeps DEF SendZfile
  <2>2. UNCHANGED <<bufferM, toProgram, toTerminal, inputFrameM>>
    BY <1>1, <1>2 DEF SendZfile, wireVars, inputVars
  <2> QED
    BY <1>1, <2>1, <2>2, SamePlaces, WholeUnsent
<1>3. CASE ~(inputFrameM.type # "ZRINIT" \/ filesM = <<>>)
  <2> DEFINE f == Last(filesM)
             t == Frame("ZFILE", f)
  <2>1. /\ TurnOfFunc("sendZfile") = "frame" /\ "frame" \in Turns
        /\ zmodemFileM' = f /\ filesM' = Front(filesM) /\ stream' = "closed"
        /\ UNCHANGED wireVars \/ Sends(<<t>>)
    BY <1>3 DEF SendZfile, TurnOfFunc, Turns
  <2>2. HolderInv /\ Called("frame") /\ toTerminal \in Seq(Requests)
    BY <1>1, <2>1, TurnFacts
  <2>3. phase = "ready" /\ Silent
    BY <1>3, <2>2 DEF HolderInv, Tells
  <2>4. /\ filesM \in Seq(Files) /\ filesM # <<>> /\ Len(filesM) \in 1..Len(filesM)
        /\ f = filesM[Len(filesM)] /\ f \in Files
    <3>1. filesM \in Seq(Files) /\ filesM # <<>>
      BY <1>3 DEF DataTypeOK, FileTypeOK
    <3>2. Len(filesM) \in 1..Len(filesM)
      BY <3>1, EmptySeq, LenProperties
    <3> QED
      BY <3>1, <3>2, ElementOfSeq DEF Last
  <2>5. t \in Requests /\ t.type = "ZFILE"
    BY <2>4 DEF Requests, Frame
  <2> HIDE DEF t, f
  <2>6. /\ Len(filesM') = Len(filesM) - 1
        /\ \A i \in 1..Len(filesM) - 1 : filesM'[i] = filesM[i]
    BY <2>1, <2>4, FrontLemma
  <2>7. NamedOnce(filesM') /\ Left' \subseteq Left /\ f \notin Left' /\ f \in Left
    <3>1. \A i \in 1..Len(filesM') : i \in 1..Len(filesM) /\ filesM'[i] = filesM[i] /\ i # Len(filesM)
      BY <2>4, <2>6
    <3> QED
      BY <2>4, <3>1 DEF NamedOnce, Left, WholeInv
  <2>8. toTerminal' = toTerminal \/ toTerminal' = Append(toTerminal, t)
    BY <1>1, <2>1, <2>5, OneSent DEF wireVars
  <2>9. No({"ZEOF"}, toTerminal')
    <3>1. No({"ZEOF"}, toTerminal)
      BY <2>3 DEF Silent, No, AskTypes
    <3>2. t.type \notin {"ZEOF"}
      BY <2>5
    <3>3. No({"ZEOF"}, Append(toTerminal, t))
      BY <2>2, <2>5, <3>1, <3>2, NoLemma
    <3> QED
      BY <2>8, <3>1, <3>3
  <2>10. UNCHANGED <<phase, offer, store, done>>
    BY DEF termVars
  <2> QED
    BY <1>1, <2>1, <2>3, <2>7, <2>9, <2>10 DEF WholeInv, No
<1> QED
  BY <1>2, <1>3

\* The stream is opened, and will not be asked for again.
LEMMA WholeOpened ==
    ASSUME ProtocolInv, WholeInv, EngineTypeOK, DataTypeOK, UNCHANGED termVars, HandleZfileRsp,
           inputFrameM.type = "ZRPOS", stream' = Opened, UNCHANGED bufferM,
           Sends(<<Frame("ZDATA", inputFrameM.arg)>>), ReturnsPosting("SEND_ZDATA_EVT")
    PROVE  WholeInv'
<1> DEFINE t == Frame("ZDATA", inputFrameM.arg)
<1>1. /\ Running("handleZfileRsp") /\ UNCHANGED <<filesM, zmodemFileM, signaled>>
      /\ TurnOfFunc("handleZfileRsp") = "frame" /\ "frame" \in Turns /\ LineTypeOK
  BY DEF HandleZfileRsp, TurnOfFunc, Turns, DataTypeOK
<1>2. /\ Alive /\ HolderInv /\ Called("frame") /\ SzOne /\ CallsInv /\ LineNo(AnswerTypes)
      /\ toTerminal \in Seq(Requests)
  BY <1>1, TurnFacts
<1>3. phase = "waiting" /\ Silent /\ inputFrameM.arg = store[offer].len
  BY <1>2 DEF HolderInv, Tells
<1>4. stream' = "good"
  BY <1>2 DEF WholeInv, Opening, Opened
<1>5. t \in Requests /\ t.type = "ZDATA"
  BY <1>3 DEF Requests, Frame, DataTypeOK, StoreTypeOK
<1>6. Sends(<<t>>)
  OBVIOUS
<1> HIDE DEF t
<1>7. toTerminal' = toTerminal \/ toTerminal' = Append(toTerminal, t)
  BY <1>1, <1>5, <1>6, OneSent
<1>8. No({"ZFILE", "ZEOF"}, toTerminal')
  <2>1. No({"ZFILE", "ZEOF"}, toTerminal)
    BY <1>3 DEF Silent, No, AskTypes
  <2>2. t.type \notin {"ZFILE", "ZEOF"}
    BY <1>5
  <2>3. No({"ZFILE", "ZEOF"}, Append(toTerminal, t))
    BY <1>2, <1>5, <2>1, <2>2, NoLemma
  <2> QED
    BY <1>7, <2>1, <2>3
<1>9. ~Called("frame")'
  BY <1>1, <1>2, PassesTurn DEF TurnOfEvent
<1>10. UNCHANGED <<phase, offer, store, done, toProgram>>
  BY DEF termVars, Sends
<1>11. LineNo({"ZRPOS"})'
  <2>1. LineNo(AnswerTypes)'
    BY <1>2, <1>10 DEF LineNo, Lined
  <2> QED
    BY <2>1 DEF LineNo, AnswerTypes
<1>12. ~Opening'
  BY <1>3, <1>8, <1>9, <1>10, <1>11 DEF Opening, No
<1>13. Left' = Left
  BY <1>1 DEF Left
<1> QED
  BY <1>1, <1>3, <1>4, <1>8, <1>10, <1>12, <1>13 DEF WholeInv, No

\* handleZfileRsp, whatever the terminal answered.
LEMMA WholeZfileRsp ==
    ASSUME ProtocolInv, WholeInv, EngineTypeOK, DataTypeOK, UNCHANGED termVars, HandleZfileRsp
    PROVE  WholeInv'
<1>1. /\ CallsInv /\ ~signaled /\ LineTypeOK /\ Running("handleZfileRsp") /\ Called("frame")
      /\ ResumeInv /\ SzOne /\ TurnOfFunc("handleZfileRsp") = "frame" /\ "frame" \in Turns
      /\ UNCHANGED <<filesM, zmodemFileM, inputFrameM, signaled>>
  <2>1. /\ Running("handleZfileRsp") /\ UNCHANGED <<filesM, zmodemFileM, inputFrameM, signaled>>
        /\ TurnOfFunc("handleZfileRsp") = "frame" /\ "frame" \in Turns
    BY DEF HandleZfileRsp, TurnOfFunc, Turns
  <2> QED
    BY <2>1, TurnFacts DEF WholeInv
<1>2. CASE ReturnsPosting("DESTROY_EVT") /\ UNCHANGED <<wireVars, posM, stream, bufferM>>
  <2>1. TurnsKept
    BY <1>1, <1>2, IdleEvents, EndingKeeps
  <2> QED
    BY <1>1, <1>2, <2>1, SamePlaces, WholeUnsent DEF wireVars, fileVars
<1>3. CASE ReturnsPosting("SKIP_EVT") /\ UNCHANGED <<wireVars, posM, stream, bufferM>>
  <2>1. ~Called("frame")' /\ UNCHANGED curState
    BY <1>1, <1>3, PassesTurn DEF TurnOfEvent
  <2>2. UNCHANGED <<toTerminal, toProgram, phase, offer, store, done>> /\ (Alive' => Alive)
    BY <1>3, <2>1 DEF wireVars, termVars, Alive
  <2>3. Placed(bufferM', toProgram')
    BY <1>1, <1>3, <2>2, SamePlaces
  <2> QED
    BY <1>1, <1>3, <2>1, <2>2, <2>3, WholeStays
<1>4. CASE /\ Returns /\ UNCHANGED <<posM, stream>>
           /\ IF bufferM # <<>> /\ Head(bufferM).type = "DATA"
              THEN Sends(<<Frame("ZACK", ValidLen(Head(bufferM)))>>) /\ bufferM' = Tail(bufferM)
              ELSE UNCHANGED <<wireVars, bufferM>>
  <2>1. TurnsKept /\ UNCHANGED fileVars
    BY <1>1, <1>4, ReturnsKeeps DEF fileVars
  <2>2. CASE ~(bufferM # <<>> /\ Head(bufferM).type = "DATA")
    <3>1. UNCHANGED <<bufferM, toProgram, toTerminal>>
      BY <1>4, <2>2 DEF wireVars
    <3> QED
      BY <1>1, <2>1, <3>1, SamePlaces, WholeUnsent
  <2>3. CASE bufferM # <<>> /\ Head(bufferM).type = "DATA"
    <3> DEFINE d == Head(bufferM)
               t == Frame("ZACK", ValidLen(d))
    <3>1. /\ bufferM \in Seq(Buffered(Answers)) /\ 1 \in 1..Len(bufferM)
          /\ d \in Buffered(Answers) /\ d.type = "DATA"
      BY <1>1, <2>3, TailLemma DEF LineTypeOK
    <3>2. d.len \in Nat
      BY <3>1, KindsDiffer, TokensLemma
    <3>3. t \in Fileless
      BY <3>2 DEF ValidLen, Fileless, Requests, Frame
    <3>4. Sends(<<t>>) /\ bufferM' = Tail(bufferM)
      BY <1>4, <2>3
    <3> HIDE DEF t, d
    <3>5. toTerminal' = toTerminal \o <<t>> /\ UNCHANGED toProgram
      BY <1>1, <3>4 DEF Sends, Written
    <3>6. bufferM' = SubSeq(bufferM, 1 + 1, Len(bufferM)) /\ 1 \in 0..Len(bufferM)
      BY <3>1, <3>4
    <3>7. Placed(bufferM', toProgram')
      BY <1>1, <3>5, <3>6, DropPlaces
    <3>8. <<t>> \in Seq(Fileless)
      BY <3>3
    <3> QED
      BY <1>1, <2>1, <3>5, <3>7, <3>8, WholeFunc
  <2> QED
    BY <2>2, <2>3
<1>5. CASE /\ inputFrameM.type = "ZRPOS" /\ stream' = Opened /\ UNCHANGED bufferM
           /\ Sends(<<Frame("ZDATA", inputFrameM.arg)>>) /\ ReturnsPosting("SEND_ZDATA_EVT")
  BY <1>5, WholeOpened
<1> QED
  BY <1>2, <1>3, <1>4, <1>5 DEF HandleZfileRsp

\* The stream ends where the file does, and the end of the file is sent there.
LEMMA WholeZdata ==
    ASSUME ~Signals, ProtocolInv, WholeInv, EngineTypeOK, DataTypeOK, UNCHANGED termVars, SendZdata
    PROVE  WholeInv'
<1> DEFINE more == stream = "good" /\ posM + Block <= Size[zmodemFileM]
           d    == Subpacket(posM, ReadLen, IF more /\ ~signaled THEN "ZCRCG" ELSE "ZCRCE")
           z    == Frame("ZEOF", posM')
<1>1. /\ Running("sendZdata") /\ posM' = posM + ReadLen
      /\ stream' = IF stream = "good" /\ ~more THEN "end" ELSE stream
      /\ UNCHANGED <<filesM, zmodemFileM, inputVars, toProgram>>
      /\ TurnOfFunc("sendZdata") = "data" /\ "data" \in Turns
  BY DEF SendZdata, TurnOfFunc, Turns, Sends
<1>2. ~signaled /\ ~signaled'
  <2>1. ~signaled /\ signaled' \in {signaled, signaled \/ Signals}
    BY DEF SendZdata, WholeInv
  <2> QED
    BY <2>1
<1>3. \/ more /\ ReturnsPosting("SEND_ZDATA_EVT") /\ toTerminal' = toTerminal \o <<d>>
      \/ ~more /\ Returns /\ toTerminal' = toTerminal \o <<d>> \o <<z>>
  BY <1>2 DEF SendZdata, Sends, Written
<1>4. /\ CallsInv /\ Alive /\ HolderInv /\ Has("data") /\ SzOne /\ LineTypeOK
      /\ toTerminal \in Seq(Requests) /\ LineNo(AnswerTypes)
  BY <1>1, TurnFacts
<1>5. /\ phase \in {"waiting", "receiving"} /\ stream \in {"good", "end"}
      /\ No(AskTypes, toTerminal)
  <2>1. stream \in {"closed", "good", "end"}
    BY DEF DataTypeOK, FileTypeOK
  <2> QED
    BY <1>1, <1>4, <2>1 DEF HolderInv, SzTurn
<1>6. stream' = "end" => ~more /\ posM' = Size[zmodemFileM]
  <2>1. CASE stream = "end"
    <3>1. ReadLen = 0 /\ posM = Size[zmodemFileM] /\ posM \in Nat
      BY <2>1, ReadTypes DEF ReadLen, WholeInv, DataTypeOK
    <3> QED
      BY <1>1, <2>1, <3>1
  <2>2. CASE stream = "good"
    <3>1. zmodemFileM \in Files /\ zmodemFileM # NoFile /\ Size[zmodemFileM] \in Nat
          /\ Block \in Nat
      BY <2>2, SzAssumption DEF DataTypeOK, FileTypeOK
    <3>2. posM \in 0..Size[zmodemFileM]
      BY <3>1 DEF DataTypeOK, FileTypeOK, Positions
    <3>3. ReadLen = IF Block <= Size[zmodemFileM] - posM THEN Block ELSE Size[zmodemFileM] - posM
      BY <2>2, <3>1, <3>2, SmallerOfTwo DEF ReadLen
    <3> QED
      BY <1>1, <2>2, <3>1, <3>2, <3>3
  <2> QED
    BY <1>5, <2>1, <2>2
<1>7. ~more => posM' = Size[zmodemFileM]
  BY <1>1, <1>5, <1>6
<1>8. ReadLen \in Nat /\ posM \in Nat /\ posM' \in Nat
  BY <1>1, ReadTypes DEF DataTypeOK
<1>9. d \in Requests /\ d.type = "DATA" /\ z \in Requests /\ z.type = "ZEOF" /\ z.arg = posM'
  BY <1>8 DEF Requests, Subpacket, Frame
<1> HIDE DEF d, z, more
<1>10. \A i \in 1..Len(toTerminal') :
           /\ toTerminal'[i].type # "ZFILE"
           /\ toTerminal'[i].type = "ZEOF" => toTerminal'[i].arg = Size[zmodemFileM]
  <2> DEFINE u == toTerminal \o <<d>>
  <2>1. /\ u \in Seq(Requests) /\ Len(u) \in Nat
        /\ \A i \in 1..Len(u) : u[i].type # "ZFILE" /\ u[i].type # "ZEOF"
    <3>1. u = Append(toTerminal, d)
      BY <1>4, <1>9
    <3>2. No({"ZFILE", "ZEOF"}, toTerminal)
      BY <1>5 DEF No, AskTypes
    <3>3. d.type \notin {"ZFILE", "ZEOF"}
      BY <1>9
    <3>4. No({"ZFILE", "ZEOF"}, Append(toTerminal, d))
      BY <1>4, <1>9, <3>2, <3>3, NoLemma
    <3>5. u \in Seq(Requests) /\ Len(u) \in Nat
      BY <1>4, <1>9, <3>1, LastAppended, LenProperties
    <3> HIDE DEF u
    <3> QED
      BY <3>1, <3>4, <3>5 DEF No
  <2>2. \/ toTerminal' = u
        \/ ~more /\ toTerminal' = u \o <<z>>
    BY <1>3
  <2> HIDE DEF u
  <2>3. CASE toTerminal' = u
    BY <2>1, <2>3
  <2>4. CASE ~more /\ toTerminal' = u \o <<z>>
    <3>1. /\ Len(toTerminal') = Len(u) + 1 /\ toTerminal'[Len(u) + 1] = z
          /\ \A i \in 1..Len(u) : toTerminal'[i] = u[i]
      BY <1>9, <2>1, <2>4
    <3> QED
      BY <1>7, <1>9, <2>1, <2>4, <3>1
  <2> QED
    BY <2>2, <2>3, <2>4
<1>11. ~Called("frame")'
  <2>1. CASE Returns
    BY <1>1, <2>1, TurnOver
  <2>2. CASE ReturnsPosting("SEND_ZDATA_EVT")
    <3>1. \A k \in Turns : ~Called(k)'
      BY <1>1, <1>4, <2>2, PassesTurn
    <3> QED
      BY <3>1 DEF Turns
  <2> QED
    BY <1>3, <2>1, <2>2
<1>12. UNCHANGED <<phase, offer, store, done, bufferM>> /\ Left' = Left
  BY <1>1 DEF termVars, inputVars, Left
<1>13. LineNo({"ZRPOS"})'
  <2>1. LineNo(AnswerTypes)'
    BY <1>1, <1>4, <1>12 DEF LineNo, Lined
  <2> QED
    BY <2>1 DEF LineNo, AnswerTypes
<1>14. No({"ZFILE"}, toTerminal')
  BY <1>10 DEF No
<1>15. ~Opening'
  BY <1>5, <1>11, <1>12, <1>13, <1>14 DEF Opening
<1> QED
  BY <1>1, <1>2, <1>6, <1>10, <1>12, <1>14, <1>15 DEF WholeInv

\* Whatever sz does.
LEMMA WholeThread ==
    ASSUME ~Signals, ProtocolInv, WholeInv, EngineTypeOK, DataTypeOK, SzThread
    PROVE  WholeInv'
<1>1. LineTypeOK
  BY DEF DataTypeOK
<1>2. CASE EngineStep /\ UNCHANGED fileVars
  BY <1>1, <1>2, WholeEngine DEF SzThread
<1>3. CASE CommonFunction /\ UNCHANGED fileVars
  BY <1>1, <1>3, WholeCommon DEF SzThread
<1>4. CASE SendZrqinit \/ SendZfile \/ HandleZfileRsp \/ SendZdata
  BY <1>1, <1>4, WholeZrqinit, WholeZfile, WholeZfileRsp, WholeZdata DEF SzThread
<1> QED
  BY <1>2, <1>3, <1>4 DEF SzThread, ThreadStep, SessionFunction

-----------------------------------------------------------------------------
\* A step of the terminal asks for the start of the file only once.
LEMMA WholeTold ==
    ASSUME WholeInv, LineTypeOK, UNCHANGED <<engineVars, fileVars, inputVars, signaled>>,
           UNCHANGED toTerminal \/ (toTerminal # <<>> /\ toTerminal' = Tail(toTerminal)),
           done' \subseteq done \cup {zmodemFileM}, \A f \in done' : store'[f].len = Size[f],
           phase' \notin {"ready", "over"} => offer' \notin done',
           ~No({"ZFILE"}, toTerminal') => zmodemFileM \notin done',
           Alive /\ Opening' => Opening
    PROVE  WholeInv'
<1>1. UNCHANGED <<filesM, zmodemFileM, posM, stream, signaled>>
  BY DEF fileVars
<1>2. (Alive' <=> Alive) /\ Left' = Left
  BY <1>1, EngineSame DEF Left
<1>3. \A i \in 1..Len(toTerminal') :
          toTerminal'[i].type = "ZEOF" => toTerminal'[i].arg = Size[zmodemFileM]
  <2>1. CASE UNCHANGED toTerminal
    BY <2>1 DEF WholeInv
  <2>2. CASE toTerminal # <<>> /\ toTerminal' = Tail(toTerminal)
    <3>1. \A i \in 1..Len(Tail(toTerminal)) :
              i + 1 \in 1..Len(toTerminal) /\ Tail(toTerminal)[i] = toTerminal[i + 1]
      BY <2>2, TailLemma DEF LineTypeOK
    <3> QED
      BY <2>2, <3>1 DEF WholeInv
  <2> QED
    BY <2>1, <2>2
<1> QED
  BY <1>1, <1>2, <1>3 DEF WholeInv

\* Nor does another answer than ZRPOS.
LEMMA Unopened ==
    ASSUME LineTypeOK, UNCHANGED <<engineVars, inputVars>>,
           UNCHANGED toTerminal \/ (toTerminal # <<>> /\ toTerminal' = Tail(toTerminal)),
           \/ UNCHANGED toProgram
           \/ \E t \in Answers : Replies(<<t>>) /\ t.type # "ZRPOS",
           phase' \in {"asked", "checking"} => Opening
    PROVE  Opening' => Opening
<1>1. UNCHANGED <<inputFrameM, bufferM>> /\ (Called("frame")' <=> Called("frame"))
  BY EngineSame DEF inputVars
<1>2. No({"ZFILE"}, toTerminal) => No({"ZFILE"}, toTerminal')
  <2>1. CASE toTerminal # <<>> /\ toTerminal' = Tail(toTerminal)
    BY <2>1, NoTail DEF LineTypeOK
  <2> QED
    BY <2>1 DEF No
<1>3. LineNo({"ZRPOS"}) => LineNo({"ZRPOS"})'
  <2>1. CASE UNCHANGED toProgram
    BY <1>1, <2>1 DEF LineNo, Lined
  <2>2. CASE \E t \in Answers : Replies(<<t>>) /\ t.type # "ZRPOS"
    <3>1. PICK t \in Answers : Replies(<<t>>) /\ t.type # "ZRPOS"
      BY <2>2
    <3>2. <<t>> \in Seq(Answers) /\ No({"ZRPOS"}, <<t>>)
      BY <3>1 DEF No
    <3> QED
      BY <1>1, <3>1, <3>2, LineGrows, Zenon
  <2> QED
    BY <2>1, <2>2
<1> QED
  BY <1>1, <1>2, <1>3 DEF Opening

\* No file is closed, and what was closed is left as it was.
LEMMA Unclosed ==
    ASSUME WholeInv, LineTypeOK, UNCHANGED <<engineVars, fileVars, inputVars, signaled, done>>,
           UNCHANGED toTerminal \/ (toTerminal # <<>> /\ toTerminal' = Tail(toTerminal)),
           \A f \in done : store'[f].len = store[f].len,
           phase' \notin {"ready", "over"} => offer' \notin done,
           Alive /\ Opening' => Opening
    PROVE  WholeInv'
<1>1. ~No({"ZFILE"}, toTerminal') => zmodemFileM \notin done'
  <2>1. No({"ZFILE"}, toTerminal) => No({"ZFILE"}, toTerminal')
    <3>1. CASE toTerminal # <<>> /\ toTerminal' = Tail(toTerminal)
      BY <3>1, NoTail DEF LineTypeOK
    <3> QED
      BY <3>1 DEF No
  <2> QED
    BY <2>1 DEF WholeInv
<1>2. \A f \in done' : store'[f].len = Size[f]
  BY DEF WholeInv
<1> QED
  BY <1>1, <1>2, WholeTold

\* Whatever the terminal does.
LEMMA WholePeer ==
    ASSUME ProtocolInv, WholeInv, DataTypeOK, PeerStep
    PROVE  WholeInv'
<1>1. UNCHANGED <<engineVars, fileVars, inputVars, signaled>> /\ LineTypeOK /\ StoreTypeOK
  BY DEF PeerStep, DataTypeOK
<1>2. /\ Frame("ZRINIT", version) \in Answers /\ Frame("ZRINIT", version).type # "ZRPOS"
      /\ Frame("ZFIN", 0) \in Answers /\ Frame("ZFIN", 0).type # "ZRPOS"
  BY <1>1 DEF Frame, Answers, StoreTypeOK
<1>3. ASSUME toTerminal # <<>>
      PROVE  Due(toTerminal, 1) /\ Head(toTerminal) = toTerminal[1] /\ 1 \in 1..Len(toTerminal)
  <2>1. Head(toTerminal) = toTerminal[1] /\ 1 \in 1..Len(toTerminal)
    BY <1>1, <1>3, TailLemma DEF LineTypeOK
  <2> QED
    BY <2>1 DEF ProtocolInv, RequestInv, Requested
<1>4. done \subseteq Files /\ (phase \notin {"ready", "over"} => offer \notin done)
  BY DEF WholeInv, ProtocolInv, PhaseInv
<1>5. CASE GetsZrqinit
  <2>1. /\ toTerminal # <<>> /\ toTerminal' = Tail(toTerminal) /\ phase' = "ready"
        /\ UNCHANGED <<store, done>> /\ Replies(<<Frame("ZRINIT", version)>>)
    BY <1>5 DEF GetsZrqinit, Gets
  <2>2. Opening' => Opening
    BY <1>1, <1>2, <2>1, Unopened
  <2> QED
    BY <1>1, <2>1, <2>2, Unclosed
<1>6. CASE GetsZfile
  <2>1. /\ toTerminal # <<>> /\ toTerminal' = Tail(toTerminal) /\ offer' = Head(toTerminal).arg
        /\ Head(toTerminal).type = "ZFILE" /\ UNCHANGED <<toProgram, store, done>>
    BY <1>6 DEF GetsZfile, Gets
  <2>2. offer' = zmodemFileM /\ ~No({"ZFILE"}, toTerminal)
    BY <1>3, <2>1 DEF Due, No
  <2>3. Opening /\ offer' \notin done
    BY <2>2 DEF Opening, WholeInv
  <2> QED
    BY <1>1, <2>1, <2>3, Unclosed
<1>7. CASE Heartbeat \/ Refuse \/ Accept \/ AskToResume
  <2>1. phase = "asked" /\ Opening /\ UNCHANGED <<toTerminal, offer, done>> /\ offer \notin done
    BY <1>4, <1>7 DEF Heartbeat, Refuse, Accept, AskToResume, Opening
  <2>2. \A f \in done : store'[f] = store[f]
    BY <1>1, <1>4, <1>7, <2>1 DEF Heartbeat, Refuse, Accept, AskToResume, Starts, StoreTypeOK
  <2> QED
    BY <1>1, <2>1, <2>2, Unclosed
<1>8. CASE GetsZack
  <2>1. /\ toTerminal # <<>> /\ toTerminal' = Tail(toTerminal) /\ UNCHANGED <<offer, done>>
    BY <1>8 DEF GetsZack, Gets
  <2>2. CASE phase # "checking"
    <3>1. UNCHANGED <<toProgram, phase, store>>
      BY <1>8, <2>2 DEF GetsZack
    <3>2. Opening' => Opening
      BY <1>1, <2>1, <3>1, Unopened DEF Opening
    <3> QED
      BY <1>1, <1>4, <2>1, <3>1, <3>2, Unclosed
  <2>3. CASE phase = "checking"
    <3>1. Opening /\ offer \notin done
      BY <1>4, <2>3 DEF Opening
    <3>2. \A f \in done : store'[f] = store[f]
      BY <1>1, <1>4, <1>8, <2>3, <3>1 DEF GetsZack, Starts, StoreTypeOK
    <3> QED
      BY <1>1, <2>1, <3>1, <3>2, Unclosed
  <2> QED
    BY <2>2, <2>3
<1>9. CASE GetsZdata
  <2>1. /\ toTerminal # <<>> /\ toTerminal' = Tail(toTerminal) /\ UNCHANGED <<offer, store, done>>
        /\ Head(toTerminal).type = "ZDATA" /\ phase' \in {phase, "receiving"}
        /\ \/ phase = "waiting" /\ UNCHANGED toProgram /\ phase' = "receiving"
           \/ ~(phase = "waiting" /\ Head(toTerminal).arg = store[offer].len) /\ phase' = phase
    BY <1>9 DEF GetsZdata, Gets
  <2>2. CASE phase = "waiting" /\ UNCHANGED toProgram /\ phase' = "receiving"
    <3>1. Opening' => Opening
      BY <1>1, <2>1, <2>2, Unopened
    <3> QED
      BY <1>1, <1>4, <2>1, <2>2, <3>1, Unclosed
  <2>3. CASE ~(phase = "waiting" /\ Head(toTerminal).arg = store[offer].len) /\ phase' = phase
    <3>1. phase = "over"
      BY <1>3, <2>1, <2>3 DEF Due
    <3>2. ~Alive
      BY <3>1 DEF ProtocolInv, PhaseInv
    <3> QED
      BY <1>1, <2>1, <2>3, <3>1, <3>2, Unclosed
  <2> QED
    BY <2>1, <2>2, <2>3
<1>10. CASE GetsSubpacket
  <2>1. /\ toTerminal # <<>> /\ toTerminal' = Tail(toTerminal)
        /\ UNCHANGED <<toProgram, offer, done>>
        /\ \/ UNCHANGED <<store, phase>>
           \/ phase = "receiving" /\ phase' \in {"waiting", "receiving"}
    BY <1>10 DEF GetsSubpacket, Gets
  <2>2. \A f \in done : store'[f] = store[f]
    <3>1. CASE phase = "receiving"
      BY <1>1, <1>4, <1>10, <3>1 DEF GetsSubpacket, StoreTypeOK
    <3> QED
      BY <1>10, <3>1 DEF GetsSubpacket
  <2>3. Opening' => Opening
    BY <1>1, <2>1, Unopened DEF Opening
  <2> QED
    BY <1>1, <1>4, <2>1, <2>2, <2>3, Unclosed
<1>11. CASE GetsZeof
  <2>1. /\ toTerminal # <<>> /\ toTerminal' = Tail(toTerminal) /\ UNCHANGED <<offer, store>>
        /\ Head(toTerminal).type = "ZEOF"
    BY <1>11 DEF GetsZeof, Gets
  <2>2. CASE ~(phase = "waiting" /\ Head(toTerminal).arg = store[offer].len)
    <3>1. UNCHANGED <<toProgram, phase, done>>
      BY <1>11, <2>2 DEF GetsZeof
    <3>2. Opening' => Opening
      BY <1>1, <2>1, <3>1, Unopened DEF Opening
    <3> QED
      BY <1>1, <1>4, <2>1, <3>1, <3>2, Unclosed
  <2>3. CASE phase = "waiting" /\ Head(toTerminal).arg = store[offer].len
    <3>1. phase' = "ready" /\ done' = done \cup {offer} /\ Replies(<<Frame("ZRINIT", version)>>)
      BY <1>11, <2>3 DEF GetsZeof
    <3>2. Opening' => Opening
      BY <1>1, <1>2, <2>1, <3>1, Unopened
    <3>3. offer = zmodemFileM /\ store[offer].len = Size[offer]
      BY <1>3, <2>1, <2>3 DEF ProtocolInv, PhaseInv, WholeInv
    <3>4. \A f \in done' : store'[f].len = Size[f]
      BY <2>1, <3>1, <3>3 DEF WholeInv
    <3>5. No({"ZFILE"}, toTerminal')
      <4>1. No({"ZFILE"}, toTerminal)
        BY <1>3, <2>1 DEF Due, StreamTypes, No
      <4> QED
        BY <1>1, <2>1, <4>1, NoTail DEF LineTypeOK
    <3> QED
      BY <1>1, <2>1, <3>1, <3>2, <3>3, <3>4, <3>5, WholeTold
  <2> QED
    BY <2>2, <2>3
<1>12. CASE GetsZfin
  <2>1. /\ toTerminal # <<>> /\ toTerminal' = Tail(toTerminal) /\ phase' = "over"
        /\ UNCHANGED <<offer, store, done>> /\ Replies(<<Frame("ZFIN", 0)>>)
    BY <1>12 DEF GetsZfin, Gets
  <2>2. Opening' => Opening
    BY <1>1, <1>2, <2>1, Unopened
  <2> QED
    BY <1>1, <2>1, <2>2, Unclosed
<1>13. CASE GetsOther("ZCOMMAND") \/ GetsOther("O")
  <2>1. /\ toTerminal # <<>> /\ toTerminal' = Tail(toTerminal)
        /\ UNCHANGED <<toProgram, phase, offer, store, done>>
    BY <1>13 DEF GetsOther, Gets
  <2>2. Opening' => Opening
    BY <1>1, <2>1, Unopened DEF Opening
  <2> QED
    BY <1>1, <1>4, <2>1, <2>2, Unclosed
<1> QED
  BY <1>5, <1>6, <1>7, <1>8, <1>9, <1>10, <1>11, <1>12, <1>13 DEF PeerStep, TerminalStep

\* The files named on the command line are all left to do.
LEMMA WholeInit == Init /\ NamedOnce(FileList) => WholeInv
<1> SUFFICES ASSUME Init, NamedOnce(FileList) PROVE WholeInv
  OBVIOUS
<1>1. /\ filesM = FileList /\ zmodemFileM = NoFile /\ stream = "closed" /\ toTerminal = <<>>
      /\ ~signaled /\ phase = "ready" /\ done = {}
  BY DEF Init, SzInit, SessionInit, WireInit, TerminalInit
<1>2. \A i \in 1..Len(toTerminal) : FALSE
  BY <1>1
<1>3. zmodemFileM \notin Left
  BY <1>1, SzAssumption, ElementOfSeq DEF Left
<1> QED
  BY <1>1, <1>2, <1>3 DEF WholeInv, No

\* Every step preserves the invariant, if no signal ever comes.
LEMMA WholeNext ==
    ASSUME ~Signals, ProtocolInv, WholeInv, EngineTypeOK, DataTypeOK, [Next]_transferVars
    PROVE  WholeInv'
<1>1. LineTypeOK
  BY DEF DataTypeOK
<1>2. CASE SzThread
  BY <1>2, WholeThread
<1>3. CASE SzRead \/ SzSignal \/ SzTimer
  BY <1>1, <1>3, WholeEngine DEF SzRead, SzSignal, SzTimer
<1>4. CASE Interrupt
  BY <1>4 DEF Interrupt, SigHandler
<1>5. CASE PeerStep
  BY <1>5, WholePeer
<1>6. CASE UNCHANGED transferVars
  <2>1. /\ UNCHANGED <<engineVars, fileVars, inputVars, signaled, toTerminal, toProgram>>
        /\ UNCHANGED <<phase, offer, store, done>>
    BY <1>6 DEF transferVars, szVars, sessionVars, wireVars, termVars
  <2>2. Opening' => Opening
    BY <1>1, <2>1, Unopened DEF Opening
  <2>3. phase \notin {"ready", "over"} => offer \notin done
    BY DEF WholeInv
  <2> QED
    BY <1>1, <2>1, <2>2, <2>3, Unclosed
<1> QED
  BY <1>2, <1>3, <1>4, <1>5, <1>6 DEF Next

\* A file the terminal has closed is as long as the file sz was told to send,
\* and right byte by byte.  sendZdata ends a file early when a signal makes it
\* give up, so that no signal may come; a file named twice is offered twice, and
\* the terminal may truncate the first copy while it waits for the second.
THEOREM ReceivedWhole ==
    ASSUME ~Signals, NamedOnce(FileList)
    PROVE  ProgramSpec => []ReceivedFilesAreWhole
<1>1. ProgramSpec => []DataTypeOK
  BY DataInit, DataNext, PTL DEF ProgramSpec
<1>2. ProgramSpec => []EngineTypeOK
  BY SzImplementsSkeleton, SkeletonTypes, PTL DEF ImplementsSkeleton
<1>3. Init => WholeInv
  BY WholeInit
<1>4. ProtocolInv /\ WholeInv /\ EngineTypeOK /\ DataTypeOK /\ [Next]_transferVars => WholeInv'
  BY WholeNext
<1>5. ProtocolInv /\ WholeInv => ReceivedFilesAreWhole
  BY DEF ProtocolInv, PhaseInv, WholeInv, ReceivedFilesAreWhole
<1> QED
  BY <1>1, <1>2, <1>3, <1>4, <1>5, OneTurn, PTL DEF ProgramSpec
=============================================================================
