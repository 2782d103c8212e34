--------------------------- MODULE RfTransferProofs ---------------------------
(***************************************************************************)
(* Theorems about RfTransfer: what rf writes and acknowledges, for every   *)
(* disk, every batch of files, every block size and every disturbance.     *)
(***************************************************************************)
EXTENDS RfTransfer, SequenceTheorems, TLAPS

\* The packages of the line, by what they carry.
PlainTypes   == {"InitRsp", "EmptyDir", "ErrMsg", "Heartbeat", "Bye", "ByeBye", "Broken"}
PlainAnswers == {"InitReq", "InitRecv", "SetClientWorkingDir", "Bye", "ByeBye", "none"}

ProgramPackage ==
    [type : PlainTypes]
    \cup [type : {"FileInfo", "FileComplete"}, id : Files]
    \cup [type : {"FileInitPos"}, id : Files, pos : Nat]
    \cup [type : {"FileContent"}, id : Files, pos : Nat, len : Nat \ {0}, intact : BOOLEAN]

TerminalPackage ==
    [type : PlainAnswers]
    \cup [type : {"FileProposeStart"}, id : Files, len : Nat, sound : BOOLEAN]
    \cup [type : {"FileCompleteAck"}, id : Files]

DataTypeOK ==
    /\ bufferM \in Seq(ProgramPackage) /\ toProgram \in Seq(ProgramPackage)
    /\ toTerminal \in Seq(TerminalPackage)
    /\ disk \in [Files -> [len : Nat, sound : BOOLEAN]] /\ diskFails \in BOOLEAN
    /\ DOMAIN zmodemFileMapM \subseteq Files
    /\ zmodemFileMapM \in [DOMAIN zmodemFileMapM -> [pos : Nat, open : BOOLEAN]]
    /\ phase \in {"ready", "choosing", "offered", "sending", "complete", "over"}
    /\ left \in Seq(Files) /\ at \in Nat /\ done \subseteq Files

-----------------------------------------------------------------------------
(***************************************************************************)
(* The inductive invariant.  The packages about the file offered last,     *)
(* those rf has read and those on the line, are what remains of one        *)
(* conversation: the announcement alone, or a position, blocks in order    *)
(* and the end.  Nothing of it is left once the end was acknowledged.      *)
(***************************************************************************)

\* The packages rf has still to handle, in order.
Line == bufferM \o toProgram

FileTypes   == {"FileInfo", "FileInitPos", "FileContent", "FileComplete"}
AnswerTypes == {"FileProposeStart", "FileCompleteAck"}

Places(type)  == {i \in 1..Len(Line) : Line[i].type = type}
FilePlaces    == {i \in 1..Len(Line) : Line[i].type \in FileTypes}
Answers(type) == {k \in 1..Len(toTerminal) : toTerminal[k].type = type}
AnswerPlaces  == {k \in 1..Len(toTerminal) : toTerminal[k].type \in AnswerTypes}

End(p) == p.pos + p.len

\* The two packages say the same, but for the content.
Alike(p, q) == p.type = q.type /\ p.id = q.id /\ p.pos = q.pos /\ p.len = q.len

\* rf knows the file, and has written of it what it counts.
Knows == offer \in DOMAIN zmodemFileMapM
File  == zmodemFileMapM[offer]
Good  == disk[offer] = [len |-> File.pos, sound |-> TRUE]
Exact == ~diskFails /\ trouble # "damage"

\* The announcement is alone; a position comes first and the end last; the
\* blocks go on where the ones before them ended, or behind; and the part to be
\* resumed is on the disk.
OrderInv ==
    /\ \A i \in FilePlaces : Line[i].id = offer
    /\ \A i, j \in FilePlaces : i < j =>
           /\ Line[i].type \notin {"FileInfo", "FileComplete"}
           /\ Line[j].type \notin {"FileInfo", "FileInitPos"}
    /\ \A i, j \in Places("FileContent") : i < j => End(Line[i]) <= Line[j].pos
    /\ \A i \in Places("FileContent") : End(Line[i]) <= Size[offer]
    /\ \A i \in Places("FileInitPos") :
           /\ Line[i].pos <= Size[offer]
           /\ Line[i].pos > 0 => disk[offer] = [len |-> Line[i].pos, sound |-> TRUE]

\* A file that is open is sound and as long as rf counts, unless a write failed;
\* then no block to come is the one rf expects.
KnownInv ==
    /\ DOMAIN zmodemFileMapM \subseteq {offer}
    /\ \A i \in FilePlaces : Knows <=> Line[i].type # "FileInfo"
    /\ Knows /\ File.open =>
           /\ Places("FileInitPos") = {}
           /\ \/ Good
              \/ /\ \A i \in Places("FileContent") : Line[i].pos > File.pos
                 /\ phase = "sending" => at > File.pos

\* rf has answered at most once, and then no package about a file is on its way.
TokenInv ==
    /\ \A k, l \in AnswerPlaces : k = l
    /\ \A k \in AnswerPlaces : toTerminal[k].id = offer /\ FilePlaces = {}
    /\ \A k \in Answers("FileProposeStart") :
           /\ Knows /\ ~File.open /\ phase \in {"offered", "over"}
           /\ toTerminal[k].len > 0 =>
                  disk[offer] = [len |-> toTerminal[k].len, sound |-> toTerminal[k].sound]
    /\ \A k \in Answers("FileCompleteAck") :
           /\ ~Knows /\ phase \in {"complete", "over"}
           /\ Exact /\ Size[offer] > 0 => Whole(offer)

\* What is on its way agrees with what the terminal last did.
PhaseInv ==
    /\ phase \in {"ready", "choosing"} => FilePlaces = {} /\ ~Knows
    /\ phase = "offered" => FilePlaces \subseteq Places("FileInfo")
    /\ \A i \in Places("FileInfo") : phase \in {"offered", "over"}
    /\ \A i \in Places("FileComplete") : phase \in {"complete", "over"}
    /\ phase = "sending" =>
           /\ Knows /\ at < Size[offer]
           /\ \A i \in Places("FileContent") : End(Line[i]) <= at

\* No file is announced twice, and nothing follows its acknowledgement.
DoneInv ==
    /\ AckedFilesAreWhole
    /\ offer \in done => FilePlaces = {} /\ ~Knows
    /\ \A i \in 1..Len(left) : left[i] \notin done \cup {offer}
    /\ \A i, j \in 1..Len(left) : i # j => left[i] # left[j]

\* A block at p is the next one for rf, at the latest when it is handled.
Reached(p) ==
    \/ \E k \in Places("FileInitPos") : Line[k].pos = p
    \/ \E k \in Places("FileContent") : End(Line[k]) = p
    \/ Knows /\ File.open /\ File.pos = p /\ Good

\* With a good disk and no damaged package no block is refused, and the blocks on
\* their way complete the file.
ExactInv == Exact =>
    /\ \A i \in Places("FileContent") : Line[i].intact = TRUE
    /\ \A i \in Places("FileContent") : Reached(Line[i].pos)
    /\ phase = "sending" => Reached(at)
    /\ \A i \in Places("FileComplete") : Size[offer] > 0 =>
           \/ \E k \in Places("FileContent") : End(Line[k]) = Size[offer]
           \/ Whole(offer) /\ FilePlaces = {i}

TransferInv ==
    DataTypeOK /\ OrderInv /\ KnownInv /\ TokenInv /\ PhaseInv /\ DoneInv /\ ExactInv

-----------------------------------------------------------------------------
\* The sequences the steps are about.

\* The smaller of two numbers is one of them, and no greater than the other.
LEMMA MinOfTwo ==
    ASSUME NEW a \in Int, NEW b \in Int
    PROVE  /\ Min({a, b}) \in {a, b}
           /\ Min({a, b}) <= a /\ Min({a, b}) <= b
<1>1. CASE a <= b
  <2>1. \E x \in {a, b} : \A y \in {a, b} : x =< y
    BY <1>1
  <2> QED
    BY <2>1 DEF Min
<1>2. CASE b <= a
  <2>1. \E x \in {a, b} : \A y \in {a, b} : x =< y
    BY <1>2
  <2> QED
    BY <2>1 DEF Min
<1> QED
  BY <1>1, <1>2

\* The line is a sequence of packages.
LEMMA LineType ==
    ASSUME DataTypeOK
    PROVE  Line \in Seq(ProgramPackage) /\ Len(Line) \in Nat
BY ConcatProperties, LenProperties DEF DataTypeOK, Line

\* What a package about a file carries.
LEMMA Fields ==
    ASSUME DataTypeOK, NEW i \in FilePlaces
    PROVE  /\ i \in 1..Len(Line) /\ i \in Nat \ {0}
           /\ Line[i].id \in Files
           /\ Line[i].type \in {"FileInitPos", "FileContent"} => Line[i].pos \in Nat
           /\ Line[i].type = "FileContent" => /\ Line[i].intact \in BOOLEAN
                                              /\ Line[i].len \in Nat \ {0}
                                              /\ End(Line[i]) \in Nat
                                              /\ End(Line[i]) > Line[i].pos
<1>1. Line[i] \in ProgramPackage /\ Line[i].type \in FileTypes
  BY LineType, ElementOfSeq DEF FilePlaces
<1>2. i \in 1..Len(Line) /\ i \in Nat \ {0}
  BY LineType DEF FilePlaces
<1> QED
  BY <1>1, <1>2 DEF ProgramPackage, PlainTypes, FileTypes, End

\* The places of the packages of one type among those of the packages about files.
LEMMA PlacesAre ==
    ASSUME NEW type \in FileTypes
    PROVE  \A i : i \in Places(type) <=> i \in FilePlaces /\ Line[i].type = type
BY DEF Places, FilePlaces

\* The places of the answers of one type among those of all answers.
LEMMA AnswersAre ==
    ASSUME NEW type \in AnswerTypes
    PROVE  \A k : k \in Answers(type) <=> k \in AnswerPlaces /\ toTerminal[k].type = type
BY DEF Answers, AnswerPlaces

\* Cutting a line in three, either way round.
LEMMA Associative ==
    \A a, b, c \in Seq(ProgramPackage) : (a \o b) \o c = a \o (b \o c)
<1> SUFFICES ASSUME NEW a \in Seq(ProgramPackage), NEW b \in Seq(ProgramPackage),
                    NEW c \in Seq(ProgramPackage)
             PROVE  (a \o b) \o c = a \o (b \o c)
  OBVIOUS
<1> QED
  BY ConcatAssociative

\* parsePkg takes the first package off the line.
LEMMA LinePops ==
    ASSUME DataTypeOK, bufferM # <<>>, bufferM' = Tail(bufferM), UNCHANGED toProgram
    PROVE  /\ Len(Line) \in Nat \ {0} /\ Line[1] = P /\ P \in ProgramPackage
           /\ Len(Line') = Len(Line) - 1
           /\ \A i \in 1..Len(Line') : Line'[i] = Line[i + 1]
           /\ bufferM' \in Seq(ProgramPackage)
<1>1. /\ bufferM \in Seq(ProgramPackage) /\ toProgram \in Seq(ProgramPackage)
      /\ Len(bufferM) \in Nat \ {0} /\ Len(toProgram) \in Nat
  BY LenProperties, EmptySeq DEF DataTypeOK
<1>2. /\ P \in ProgramPackage /\ P = bufferM[1]
      /\ Tail(bufferM) \in Seq(ProgramPackage)
      /\ Len(Tail(bufferM)) = Len(bufferM) - 1
      /\ \A i \in 1..Len(Tail(bufferM)) : Tail(bufferM)[i] = bufferM[i + 1]
  BY <1>1, HeadTailProperties DEF P
<1>3. /\ Len(Line) = Len(bufferM) + Len(toProgram)
      /\ \A i \in 1..Len(bufferM) + Len(toProgram) :
             Line[i] = IF i <= Len(bufferM) THEN bufferM[i] ELSE toProgram[i - Len(bufferM)]
  BY <1>1, ConcatProperties DEF Line
<1>4. /\ Len(Line') = Len(Tail(bufferM)) + Len(toProgram)
      /\ \A i \in 1..Len(Tail(bufferM)) + Len(toProgram) :
             Line'[i] = IF i <= Len(Tail(bufferM)) THEN Tail(bufferM)[i]
                        ELSE toProgram[i - Len(Tail(bufferM))]
  BY <1>1, <1>2, ConcatProperties DEF Line
<1>5. Len(Line) \in Nat \ {0} /\ Line[1] = P /\ Len(Line') = Len(Line) - 1
  BY <1>1, <1>2, <1>3, <1>4
<1>6. ASSUME NEW i \in 1..Len(Line')
      PROVE  Line'[i] = Line[i + 1]
  <2>1. /\ i \in 1..Len(Tail(bufferM)) + Len(toProgram)
        /\ i + 1 \in 1..Len(bufferM) + Len(toProgram)
    BY <1>1, <1>2, <1>4
  <2>2. CASE i <= Len(Tail(bufferM))
    BY <1>1, <1>2, <1>3, <1>4, <2>1, <2>2
  <2>3. CASE ~(i <= Len(Tail(bufferM)))
    BY <1>1, <1>2, <1>3, <1>4, <2>1, <2>3
  <2> QED
    BY <2>2, <2>3
<1> QED
  BY <1>1, <1>2, <1>5, <1>6

\* The terminal puts packages at its end.
LEMMA LineSays ==
    ASSUME DataTypeOK, UNCHANGED bufferM, NEW ps \in Seq(ProgramPackage), Says(ps)
    PROVE  /\ Len(Line) \in Nat /\ Len(ps) \in Nat
           /\ Len(Line') = Len(Line) + Len(ps)
           /\ \A i \in 1..Len(Line) : Line'[i] = Line[i]
           /\ \A i \in 1..Len(ps) : Line'[Len(Line) + i] = ps[i]
           /\ toProgram' \in Seq(ProgramPackage)
<1>1. /\ bufferM \in Seq(ProgramPackage) /\ toProgram \in Seq(ProgramPackage)
      /\ Line \in Seq(ProgramPackage)
  BY LineType DEF DataTypeOK
<1>2. Line' = Line \o ps
  BY <1>1, Associative DEF Line, Says
<1>3. /\ Len(Line \o ps) = Len(Line) + Len(ps)
      /\ \A i \in 1..Len(Line) + Len(ps) :
             (Line \o ps)[i] = IF i <= Len(Line) THEN Line[i] ELSE ps[i - Len(Line)]
      /\ toProgram \o ps \in Seq(ProgramPackage)
      /\ Len(Line) \in Nat /\ Len(ps) \in Nat
  BY <1>1, ConcatProperties, LenProperties
<1>4. \A i \in 1..Len(ps) : /\ Len(Line) + i \in 1..Len(Line) + Len(ps)
                            /\ ~(Len(Line) + i <= Len(Line)) /\ (Len(Line) + i) - Len(Line) = i
  BY <1>3
<1> QED
  BY <1>2, <1>3, <1>4 DEF Says

\* What is read stays where it is.
LEMMA LineRead ==
    ASSUME DataTypeOK, NEW n \in 1..Len(toProgram),
           bufferM' = bufferM \o SubSeq(toProgram, 1, n),
           toProgram' = SubSeq(toProgram, n + 1, Len(toProgram))
    PROVE  /\ Line' = Line
           /\ bufferM' \in Seq(ProgramPackage) /\ toProgram' \in Seq(ProgramPackage)
<1> DEFINE front == SubSeq(toProgram, 1, n)
           back  == SubSeq(toProgram, n + 1, Len(toProgram))
<1>1. /\ bufferM \in Seq(ProgramPackage) /\ toProgram \in Seq(ProgramPackage)
      /\ Len(toProgram) \in Nat /\ n \in Nat
  BY LenProperties DEF DataTypeOK
<1>2. front \in Seq(ProgramPackage) /\ back \in Seq(ProgramPackage)
  BY <1>1, SubSeqProperties, ElementOfSeq
<1>3. front \o back = toProgram
  BY <1>1, ConcatAdjacentSubSeq, SubSeqFull
<1>4. bufferM' = bufferM \o front /\ toProgram' = back
  OBVIOUS
<1> HIDE DEF front, back
<1>5. (bufferM \o front) \o back = bufferM \o toProgram
  <2>1. (bufferM \o front) \o back = bufferM \o (front \o back)
    BY <1>1, <1>2, Associative
  <2> QED
    BY <1>3, <2>1
<1>6. bufferM \o front \in Seq(ProgramPackage)
  BY <1>1, <1>2, ConcatProperties
<1> QED
  BY <1>2, <1>4, <1>5, <1>6 DEF Line

\* The terminal takes the first package it has to read off the line.
LEMMA AnswersPop ==
    ASSUME DataTypeOK, NEW types, Gets(types)
    PROVE  /\ Len(toTerminal) \in Nat \ {0}
           /\ Head(toTerminal) = toTerminal[1] /\ toTerminal[1] \in TerminalPackage
           /\ toTerminal[1].type \in types
           /\ Len(toTerminal') = Len(toTerminal) - 1
           /\ \A k \in 1..Len(toTerminal') : toTerminal'[k] = toTerminal[k + 1]
           /\ toTerminal' \in Seq(TerminalPackage)
BY HeadTailProperties, EmptySeq DEF DataTypeOK, Gets

\* A package is sent, unless a signal cut it.
LEMMA AnswersPush ==
    ASSUME DataTypeOK, NEW p \in TerminalPackage, Sends(p)
    PROVE  /\ toTerminal' \in Seq(TerminalPackage) /\ Len(toTerminal) \in Nat
           /\ \A k \in 1..Len(toTerminal) : toTerminal'[k] = toTerminal[k]
           /\ \/ toTerminal' = toTerminal
              \/ /\ Len(toTerminal') = Len(toTerminal) + 1
                 /\ toTerminal'[Len(toTerminal) + 1] = p
<1>1. toTerminal \in Seq(TerminalPackage) /\ Len(toTerminal) \in Nat
  BY LenProperties DEF DataTypeOK
<1>2. PICK sent \in Written(p, signaled) : toTerminal' = toTerminal \o sent
  BY DEF Sends
<1>3. sent = <<>> \/ sent = <<p>>
  BY <1>2 DEF Written
<1>4. CASE sent = <<>>
  BY <1>1, <1>2, <1>4, ConcatEmptySeq
<1>5. CASE sent = <<p>>
  <2>1. <<p>> \in Seq(TerminalPackage) /\ Len(<<p>>) = 1 /\ <<p>>[1] = p
    OBVIOUS
  <2>2. /\ toTerminal' \in Seq(TerminalPackage) /\ Len(toTerminal') = Len(toTerminal) + 1
        /\ \A k \in 1..Len(toTerminal) + 1 :
               toTerminal'[k] = IF k <= Len(toTerminal) THEN toTerminal[k]
                                ELSE <<p>>[k - Len(toTerminal)]
    BY <1>1, <1>2, <1>5, <2>1, ConcatProperties
  <2> QED
    BY <1>1, <2>1, <2>2
<1> QED
  BY <1>3, <1>4, <1>5

-----------------------------------------------------------------------------
\* A step that leaves the files, the disk and the terminal's progress alone keeps
\* the invariant if the packages about the file still on their way are among
\* those that were, d and e places further on: it may take other packages off the
\* line or add some, or damage one.
LEMMA Renamed ==
    ASSUME TransferInv, DataTypeOK', NEW d \in Nat, NEW e \in Nat,
           UNCHANGED <<disk, diskFails, zmodemFileMapM, left, offer, at, done>>,
           \/ phase' = phase \/ phase' = "over"
           \/ phase = "ready" /\ phase' = "choosing",
           \A i \in FilePlaces' : i + d \in FilePlaces /\ Alike(Line'[i], Line[i + d]),
           Exact' => /\ Exact
                     /\ \A i \in FilePlaces : i - d \in FilePlaces'
                     /\ \A i \in FilePlaces' : Line'[i] = Line[i + d],
           \A k \in AnswerPlaces' :
               k + e \in AnswerPlaces /\ toTerminal'[k] = toTerminal[k + e]
    PROVE  TransferInv'
<1> DEFINE Same == /\ disk' = disk /\ zmodemFileMapM' = zmodemFileMapM /\ left' = left
                   /\ offer' = offer /\ at' = at /\ done' = done
<1>same. Same /\ Knows' = Knows /\ File' = File /\ Good' = Good
  BY DEF Knows, File, Good
<1>places. \A type \in FileTypes : \A i \in Places(type)' :
               i + d \in Places(type) /\ Alike(Line'[i], Line[i + d])
  BY DEF Places, FilePlaces, Alike
<1>back. Exact' => \A type \in FileTypes : \A i \in Places(type) :
                       i - d \in Places(type)' /\ Line'[i - d] = Line[i]
  <2> SUFFICES ASSUME Exact', NEW type \in FileTypes, NEW i \in Places(type)
               PROVE  i - d \in Places(type)' /\ Line'[i - d] = Line[i]
    OBVIOUS
  <2>1. i \in FilePlaces /\ Line[i].type = type
    BY PlacesAre
  <2>2. i - d \in FilePlaces' /\ i \in Int
    BY <2>1, Fields DEF TransferInv
  <2>3. (i - d) + d = i
    BY <2>2
  <2>4. Line'[i - d] = Line[i]
    BY <2>2, <2>3
  <2> QED
    BY <2>1, <2>2, <2>4 DEF Places, FilePlaces
<1>int. (\A i \in FilePlaces' : i \in Int) /\ (\A i \in FilePlaces : i \in Int)
  BY LineType DEF TransferInv, FilePlaces
<1>order. OrderInv'
  <2>1. \A i, j \in FilePlaces' : i < j => i + d < j + d
    BY <1>int
  <2>2. \A i \in FilePlaces' : Line'[i].id = offer
    BY DEF TransferInv, OrderInv, Alike
  <2>3. \A i, j \in FilePlaces' : i < j =>
            /\ Line'[i].type \notin {"FileInfo", "FileComplete"}
            /\ Line'[j].type \notin {"FileInfo", "FileInitPos"}
    BY <2>1 DEF TransferInv, OrderInv, Alike
  <2>4. \A i, j \in Places("FileContent")' : i < j => End(Line'[i]) <= Line'[j].pos
    <3> SUFFICES ASSUME NEW i \in Places("FileContent")', NEW j \in Places("FileContent")', i < j
                 PROVE  End(Line'[i]) <= Line'[j].pos
      OBVIOUS
    <3>1. /\ i + d \in Places("FileContent") /\ Alike(Line'[i], Line[i + d])
          /\ j + d \in Places("FileContent") /\ Alike(Line'[j], Line[j + d])
      BY <1>places DEF FileTypes
    <3>2. i \in FilePlaces' /\ j \in FilePlaces'
      BY DEF Places, FilePlaces, FileTypes
    <3> QED
      BY <3>1, <3>2, <2>1 DEF TransferInv, OrderInv, Alike, End
  <2>5. \A i \in Places("FileContent")' : End(Line'[i]) <= Size[offer]
    BY <1>places DEF TransferInv, OrderInv, FileTypes, Alike, End
  <2>6. \A i \in Places("FileInitPos")' :
           /\ Line'[i].pos <= Size[offer]
           /\ Line'[i].pos > 0 => disk[offer] = [len |-> Line'[i].pos, sound |-> TRUE]
    BY <1>places DEF TransferInv, OrderInv, FileTypes, Alike
  <2> QED
    BY <1>same, <2>2, <2>3, <2>4, <2>5, <2>6 DEF OrderInv, End
<1>known. KnownInv'
  BY <1>same, <1>places DEF TransferInv, KnownInv, FileTypes, Alike
<1>token. TokenInv'
  <2>1. \A k, l \in AnswerPlaces' : k = l
    <3> SUFFICES ASSUME NEW k \in AnswerPlaces', NEW l \in AnswerPlaces'
                 PROVE  k = l
      OBVIOUS
    <3>1. k \in Int /\ l \in Int /\ e \in Int
      BY DEF AnswerPlaces
    <3>2. k + e \in AnswerPlaces /\ l + e \in AnswerPlaces
      OBVIOUS
    <3>3. k + e = l + e
      BY <3>2 DEF TransferInv, TokenInv
    <3> QED
      BY <3>1, <3>3
  <2>2. \A k \in AnswerPlaces' : toTerminal'[k].id = offer /\ FilePlaces' = {}
    BY DEF TransferInv, TokenInv
  <2>3. \A type \in AnswerTypes : \A k \in Answers(type)' :
            k + e \in Answers(type) /\ toTerminal'[k] = toTerminal[k + e]
    BY DEF Answers, AnswerPlaces
  <2>4. \A k \in Answers("FileProposeStart")' :
           /\ Knows /\ ~File.open /\ phase' \in {"offered", "over"}
           /\ toTerminal'[k].len > 0 =>
                  disk[offer] = [len |-> toTerminal'[k].len, sound |-> toTerminal'[k].sound]
    BY <2>3 DEF TransferInv, TokenInv, AnswerTypes
  <2>5. \A k \in Answers("FileCompleteAck")' :
           /\ ~Knows /\ phase' \in {"complete", "over"}
           /\ Exact' /\ Size[offer] > 0 => Whole(offer)
    BY <2>3 DEF TransferInv, TokenInv, AnswerTypes
  <2> QED
    BY <1>same, <2>1, <2>2, <2>4, <2>5 DEF TokenInv, Whole
<1>phase. PhaseInv'
  <2>1. phase' \in {"ready", "choosing"} => FilePlaces' = {} /\ ~Knows'
    BY <1>same DEF TransferInv, PhaseInv
  <2>2. phase' = "offered" => FilePlaces' \subseteq Places("FileInfo")'
    BY <1>places DEF TransferInv, PhaseInv, Places, FilePlaces
  <2>3. /\ \A i \in Places("FileInfo")' : phase' \in {"offered", "over"}
        /\ \A i \in Places("FileComplete")' : phase' \in {"complete", "over"}
    BY <1>places DEF TransferInv, PhaseInv, FileTypes
  <2>4. phase' = "sending" =>
           /\ Knows' /\ at' < Size[offer']
           /\ \A i \in Places("FileContent")' : End(Line'[i]) <= at'
    BY <1>same, <1>places DEF TransferInv, PhaseInv, FileTypes, Alike, End
  <2> QED
    BY <2>1, <2>2, <2>3, <2>4 DEF PhaseInv, End
<1>done. DoneInv'
  BY <1>same DEF TransferInv, DoneInv, AckedFilesAreWhole, Whole, Exact
<1>exact. ExactInv'
  <2> SUFFICES ASSUME Exact'
               PROVE  /\ \A i \in Places("FileContent")' : Line'[i].intact = TRUE
                      /\ \A i \in Places("FileContent")' : Reached(Line[i].pos)'
                      /\ phase' = "sending" => Reached(at)'
                      /\ \A i \in Places("FileComplete")' : Size[offer'] > 0 =>
                             \/ \E k \in Places("FileContent")' : End(Line'[k]) = Size[offer']
                             \/ Whole(offer)' /\ FilePlaces' = {i}
    BY DEF ExactInv, End
  <2>0. \A i \in Places("FileContent")' : Line'[i].intact = TRUE
    <3>1. \A i \in Places("FileContent")' : i \in FilePlaces'
      BY DEF Places, FilePlaces, FileTypes
    <3>2. \A i \in Places("FileContent")' :
              i + d \in Places("FileContent") /\ Line'[i] = Line[i + d]
      BY <1>places, <3>1 DEF FileTypes
    <3> QED
      BY <3>2 DEF TransferInv, ExactInv
  <2>1. ASSUME NEW p, Reached(p)
        PROVE  Reached(p)'
    <3>1. ASSUME NEW k \in Places("FileInitPos"), Line[k].pos = p
          PROVE  Reached(p)'
      BY <1>back, <3>1 DEF Reached, FileTypes
    <3>2. ASSUME NEW k \in Places("FileContent"), End(Line[k]) = p
          PROVE  Reached(p)'
      BY <1>back, <3>2 DEF Reached, FileTypes, End
    <3>3. CASE Knows /\ File.open /\ File.pos = p /\ Good
      BY <1>same, <3>3 DEF Reached
    <3> QED
      BY <2>1, <3>1, <3>2, <3>3 DEF Reached
  <2>2. \A i \in Places("FileContent")' : Reached(Line[i].pos)'
    <3> SUFFICES ASSUME NEW i \in Places("FileContent")', NEW p, p = Line'[i].pos
                 PROVE  Reached(p)'
      BY DEF Reached
    <3>1. Reached(Line[i + d].pos) /\ Line'[i].pos = Line[i + d].pos
      BY <1>places DEF TransferInv, ExactInv, FileTypes, Alike
    <3>2. Reached(p)
      BY <3>1
    <3> QED
      BY <2>1, <3>2
  <2>3. phase' = "sending" => Reached(at)'
    BY <1>same, <2>1 DEF TransferInv, ExactInv
  <2>4. ASSUME NEW i \in Places("FileComplete")', Size[offer] > 0
        PROVE  \/ \E k \in Places("FileContent")' : End(Line'[k]) = Size[offer]
               \/ Whole(offer)' /\ FilePlaces' = {i}
    <3>1. i + d \in Places("FileComplete") /\ i \in FilePlaces'
      BY <1>places DEF FileTypes, Places, FilePlaces
    <3>2. CASE \E k \in Places("FileContent") : End(Line[k]) = Size[offer]
      BY <1>back, <3>2 DEF FileTypes
    <3>3. CASE Whole(offer) /\ FilePlaces = {i + d}
      <4>1. \A j \in FilePlaces' : j + d = i + d
        BY <3>3
      <4> QED
        BY <1>int, <3>1, <3>3, <4>1, <1>same DEF Whole
    <3> QED
      BY <2>4, <3>1, <3>2, <3>3 DEF TransferInv, ExactInv
  <2> QED
    BY <1>same, <2>0, <2>2, <2>3, <2>4
<1> QED
  BY <1>order, <1>known, <1>token, <1>phase, <1>done, <1>exact DEF TransferInv

\* Where the packages about files are when the first one is taken off the line.
LEMMA PopShifts ==
    ASSUME DataTypeOK, bufferM # <<>>, bufferM' = Tail(bufferM), UNCHANGED toProgram
    PROVE  /\ \A i \in FilePlaces' : i + 1 \in FilePlaces /\ Line'[i] = Line[i + 1]
           /\ \A i \in FilePlaces : i # 1 => i - 1 \in FilePlaces' /\ Line'[i - 1] = Line[i]
           /\ 1 \in FilePlaces <=> P.type \in FileTypes
           /\ \A i \in FilePlaces' : i \in Nat \ {0}
<1> USE LinePops
<1>1. \A i \in 1..Len(Line') : i \in Nat \ {0} /\ i + 1 \in 1..Len(Line)
  OBVIOUS
<1>2. \A i \in 1..Len(Line) : i # 1 => i - 1 \in 1..Len(Line') /\ Line'[i - 1] = Line[i]
  OBVIOUS
<1> QED
  BY <1>1, <1>2 DEF FilePlaces

\* Where they are when packages ps follow.
LEMMA SayShifts ==
    ASSUME DataTypeOK, UNCHANGED bufferM, NEW ps \in Seq(ProgramPackage), Says(ps)
    PROVE  /\ \A i \in FilePlaces : i \in FilePlaces' /\ Line'[i] = Line[i]
           /\ \A i \in FilePlaces' :
                  \/ i \in FilePlaces /\ Line'[i] = Line[i]
                  \/ \E j \in 1..Len(ps) : /\ i = Len(Line) + j /\ Line'[i] = ps[j]
                                           /\ ps[j].type \in FileTypes
           /\ \A j \in 1..Len(ps) : ps[j].type \in FileTypes => Len(Line) + j \in FilePlaces'
           /\ \A i \in FilePlaces' : i \in Nat \ {0}
           /\ \A i \in FilePlaces : i <= Len(Line)
<1> USE LineSays
<1>1. \A i \in 1..Len(Line) : i \in 1..Len(Line') /\ i <= Len(Line)
  OBVIOUS
<1>2. \A j \in 1..Len(ps) : Len(Line) + j \in 1..Len(Line')
  OBVIOUS
<1>3. \A i \in 1..Len(Line') :
          i \in 1..Len(Line) \/ \E j \in 1..Len(ps) : i = Len(Line) + j
  <2> SUFFICES ASSUME NEW i \in 1..Len(Line'), i \notin 1..Len(Line)
               PROVE  \E j \in 1..Len(ps) : i = Len(Line) + j
    OBVIOUS
  <2>1. i - Len(Line) \in 1..Len(ps) /\ i = Len(Line) + (i - Len(Line))
    OBVIOUS
  <2> QED
    BY <2>1
<1>4. \A i \in FilePlaces : i \in FilePlaces' /\ Line'[i] = Line[i]
  BY <1>1 DEF FilePlaces
<1>5. \A i \in FilePlaces' :
          \/ i \in FilePlaces /\ Line'[i] = Line[i]
          \/ \E j \in 1..Len(ps) : /\ i = Len(Line) + j /\ Line'[i] = ps[j]
                                   /\ ps[j].type \in FileTypes
  <2> SUFFICES ASSUME NEW i \in FilePlaces'
               PROVE  \/ i \in FilePlaces /\ Line'[i] = Line[i]
                      \/ \E j \in 1..Len(ps) : /\ i = Len(Line) + j /\ Line'[i] = ps[j]
                                               /\ ps[j].type \in FileTypes
    OBVIOUS
  <2>1. i \in 1..Len(Line') /\ Line'[i].type \in FileTypes
    BY DEF FilePlaces
  <2>2. CASE i \in 1..Len(Line)
    BY <2>1, <2>2 DEF FilePlaces
  <2>3. ASSUME NEW j \in 1..Len(ps), i = Len(Line) + j
        PROVE  Line'[i] = ps[j] /\ ps[j].type \in FileTypes
    BY <2>1, <2>3
  <2> QED
    BY <1>3, <2>1, <2>2, <2>3
<1>6. \A j \in 1..Len(ps) : ps[j].type \in FileTypes => Len(Line) + j \in FilePlaces'
  BY <1>2 DEF FilePlaces
<1>7. /\ \A i \in FilePlaces' : i \in Nat \ {0}
      /\ \A i \in FilePlaces : i <= Len(Line)
  BY DEF FilePlaces
<1> QED
  BY <1>4, <1>5, <1>6, <1>7

\* No answer about a file is among what the program sends besides.
LEMMA PlainAnswerShifts ==
    ASSUME DataTypeOK,
           UNCHANGED toTerminal \/ \E type \in PlainAnswers : Sends(Plain(type))
    PROVE  /\ toTerminal' \in Seq(TerminalPackage)
           /\ \A k \in AnswerPlaces' :
                  k + 0 \in AnswerPlaces /\ toTerminal'[k] = toTerminal[k + 0]
<1>1. CASE UNCHANGED toTerminal
  BY <1>1 DEF DataTypeOK, AnswerPlaces
<1>2. ASSUME NEW type \in PlainAnswers, Sends(Plain(type))
      PROVE  /\ toTerminal' \in Seq(TerminalPackage)
             /\ \A k \in AnswerPlaces' :
                    k + 0 \in AnswerPlaces /\ toTerminal'[k] = toTerminal[k + 0]
  <2>1. Plain(type) \in TerminalPackage
    BY DEF Plain, TerminalPackage
  <2>2. /\ toTerminal' \in Seq(TerminalPackage) /\ Len(toTerminal) \in Nat
        /\ \A k \in 1..Len(toTerminal) : toTerminal'[k] = toTerminal[k]
        /\ \/ toTerminal' = toTerminal
           \/ /\ Len(toTerminal') = Len(toTerminal) + 1
              /\ toTerminal'[Len(toTerminal) + 1] = Plain(type)
    BY <1>2, <2>1, AnswersPush
  <2>3. Plain(type).type \notin AnswerTypes
    BY DEF Plain, PlainAnswers, AnswerTypes
  <2> QED
    BY <2>2, <2>3 DEF AnswerPlaces
<1> QED
  BY <1>1, <1>2

-----------------------------------------------------------------------------
\* A package that is about no file is taken off the line; one that is, only
\* behind a damaged package or with a failing disk.
LEMMA PopStep ==
    ASSUME TransferInv, bufferM # <<>>, bufferM' = Tail(bufferM),
           UNCHANGED <<toProgram, fileVars, senderVars>>,
           UNCHANGED toTerminal \/ \E type \in PlainAnswers : Sends(Plain(type)),
           P.type \in FileTypes => ~Exact
    PROVE  TransferInv'
<1>1. DataTypeOK'
  BY LinePops, PlainAnswerShifts DEF TransferInv, DataTypeOK, fileVars, senderVars
<1>2. \A i \in FilePlaces' : i + 1 \in FilePlaces /\ Line'[i] = Line[i + 1]
  BY PopShifts DEF TransferInv
<1>3. Exact' => /\ Exact
                /\ \A i \in FilePlaces : i - 1 \in FilePlaces'
  BY PopShifts DEF TransferInv, Exact, fileVars, senderVars
<1>4. \A k \in AnswerPlaces' : k + 0 \in AnswerPlaces /\ toTerminal'[k] = toTerminal[k + 0]
  BY PlainAnswerShifts DEF TransferInv
<1> QED
  BY <1>1, <1>2, <1>3, <1>4, Renamed DEF fileVars, senderVars, Alike

\* The line stays as it is, whatever of it was read; the terminal may get a
\* package that is about no file.
LEMMA StillStep ==
    ASSUME TransferInv, Line' = Line,
           bufferM' \in Seq(ProgramPackage), toProgram' \in Seq(ProgramPackage),
           UNCHANGED <<fileVars, senderVars>>,
           UNCHANGED toTerminal \/ \E type \in PlainAnswers : Sends(Plain(type))
    PROVE  TransferInv'
<1>1. DataTypeOK'
  BY PlainAnswerShifts DEF TransferInv, DataTypeOK, fileVars, senderVars
<1>2. \A i \in FilePlaces' : i + 0 \in FilePlaces /\ Line'[i] = Line[i + 0]
  BY LineType DEF TransferInv, FilePlaces
<1>3. Exact' => Exact /\ \A i \in FilePlaces : i - 0 \in FilePlaces'
  BY LineType DEF TransferInv, FilePlaces, Exact, fileVars, senderVars
<1>4. \A k \in AnswerPlaces' : k + 0 \in AnswerPlaces /\ toTerminal'[k] = toTerminal[k + 0]
  BY PlainAnswerShifts DEF TransferInv
<1> QED
  BY <1>1, <1>2, <1>3, <1>4, Renamed DEF fileVars, senderVars, Alike

\* The terminal says something that is about no file, or nothing, and may have
\* taken a package off its line for it.
LEMMA SayStep ==
    ASSUME TransferInv, UNCHANGED <<fileVars, bufferM, left, offer, at, done>>,
           NEW ps \in Seq([type : PlainTypes]), Says(ps),
           UNCHANGED toTerminal \/ \E types : Gets(types),
           \/ phase' = phase \/ phase' = "over"
           \/ phase = "ready" /\ phase' = "choosing",
           Exact' => Exact
    PROVE  TransferInv'
<1>1. /\ ps \in Seq(ProgramPackage)
      /\ \A j \in 1..Len(ps) : ps[j].type \notin FileTypes
  <2>1. [type : PlainTypes] \subseteq ProgramPackage
    BY DEF ProgramPackage
  <2>2. \A j \in 1..Len(ps) : ps[j] \in [type : PlainTypes]
    BY ElementOfSeq
  <2>3. ps \in Seq(ProgramPackage)
    BY <2>1, SeqMonotonic
  <2> QED
    BY <2>2, <2>3 DEF PlainTypes, FileTypes
<1>2. /\ toTerminal' \in Seq(TerminalPackage)
      /\ \E e \in Nat : \A k \in AnswerPlaces' :
             k + e \in AnswerPlaces /\ toTerminal'[k] = toTerminal[k + e]
  <2>1. CASE UNCHANGED toTerminal
    <3>1. \A k \in AnswerPlaces' : k + 0 \in AnswerPlaces /\ toTerminal'[k] = toTerminal[k + 0]
      BY <2>1, PlainAnswerShifts DEF TransferInv
    <3> QED
      BY <2>1, <3>1 DEF TransferInv, DataTypeOK
  <2>2. ASSUME NEW types, Gets(types)
        PROVE  /\ toTerminal' \in Seq(TerminalPackage)
               /\ \A k \in AnswerPlaces' :
                      k + 1 \in AnswerPlaces /\ toTerminal'[k] = toTerminal[k + 1]
    <3>1. /\ Len(toTerminal) \in Nat \ {0} /\ Len(toTerminal') = Len(toTerminal) - 1
          /\ \A k \in 1..Len(toTerminal') : toTerminal'[k] = toTerminal[k + 1]
          /\ toTerminal' \in Seq(TerminalPackage)
      BY <2>2, AnswersPop DEF TransferInv
    <3>2. \A k \in 1..Len(toTerminal') : k + 1 \in 1..Len(toTerminal)
      BY <3>1
    <3> QED
      BY <3>1, <3>2 DEF AnswerPlaces
  <2> QED
    BY <2>1, <2>2
<1>3. DataTypeOK'
  BY <1>1, <1>2, LineSays DEF TransferInv, DataTypeOK, fileVars
<1>4. \A i \in FilePlaces' : i + 0 \in FilePlaces /\ Line'[i] = Line[i + 0]
  BY <1>1, SayShifts DEF TransferInv
<1>5. Exact' => Exact /\ \A i \in FilePlaces : i - 0 \in FilePlaces'
  BY <1>1, SayShifts DEF TransferInv
<1>6. PICK e \in Nat : \A k \in AnswerPlaces' :
             k + e \in AnswerPlaces /\ toTerminal'[k] = toTerminal[k + e]
  BY <1>2
<1> QED
  BY <1>3, <1>4, <1>5, <1>6, Renamed DEF fileVars, Alike

-----------------------------------------------------------------------------
\* With nothing about a file on the line there is nothing to be in order.
LEMMA NoPlaces ==
    ASSUME FilePlaces' = {}
    PROVE  OrderInv' /\ \A type \in FileTypes : Places(type)' = {}
BY DEF OrderInv, Places, FilePlaces, FileTypes

\* Without an answer on the line no answer is to be right.
LEMMA NoAnswers ==
    ASSUME AnswerPlaces' = {}
    PROVE  TokenInv'
BY DEF TokenInv, Answers, AnswerPlaces, AnswerTypes

\* While packages about a file are on their way rf has not answered.
LEMMA Unanswered ==
    ASSUME TransferInv, FilePlaces # {} \/ phase \in {"ready", "choosing", "sending"}
    PROVE  AnswerPlaces = {}
<1> SUFFICES ASSUME NEW k \in AnswerPlaces
             PROVE  FALSE
  OBVIOUS
<1>1. FilePlaces = {}
  BY DEF TransferInv, TokenInv
<1>2. k \in Answers("FileProposeStart") \/ k \in Answers("FileCompleteAck")
  BY DEF Answers, AnswerPlaces, AnswerTypes
<1> QED
  BY <1>1, <1>2 DEF TransferInv, TokenInv

\* The one answer there was is taken off the line.
LEMMA AnswerGone ==
    ASSUME TransferInv, NEW type \in AnswerTypes, Gets({type})
    PROVE  /\ 1 \in Answers(type) /\ 1 \in AnswerPlaces
           /\ Head(toTerminal) = toTerminal[1] /\ toTerminal[1] \in TerminalPackage
           /\ AnswerPlaces' = {}
           /\ toTerminal' \in Seq(TerminalPackage)
<1>1. /\ Len(toTerminal) \in Nat \ {0}
      /\ Head(toTerminal) = toTerminal[1] /\ toTerminal[1] \in TerminalPackage
      /\ toTerminal[1].type = type
      /\ Len(toTerminal') = Len(toTerminal) - 1
      /\ \A k \in 1..Len(toTerminal') : toTerminal'[k] = toTerminal[k + 1]
      /\ toTerminal' \in Seq(TerminalPackage)
  BY AnswersPop DEF TransferInv
<1>2. 1 \in AnswerPlaces /\ 1 \in Answers(type)
  BY <1>1 DEF AnswerPlaces, Answers
<1>3. \A k \in 1..Len(toTerminal') : k + 1 \in 1..Len(toTerminal) /\ k + 1 # 1
  BY <1>1
<1>4. \A k \in AnswerPlaces' : k + 1 \in AnswerPlaces /\ k + 1 # 1
  BY <1>1, <1>3 DEF AnswerPlaces
<1>5. AnswerPlaces' = {}
  BY <1>2, <1>4 DEF TransferInv, TokenInv
<1> QED
  BY <1>1, <1>2, <1>5

\* What is known of a package about a file that rf is to handle next: it is about
\* the file offered last, which was not acknowledged yet, and rf has not answered.
LEMMA NextIs ==
    ASSUME TransferInv, bufferM # <<>>, bufferM' = Tail(bufferM), UNCHANGED toProgram,
           P.type \in FileTypes
    PROVE  /\ 1 \in FilePlaces /\ Line[1] = P /\ P \in ProgramPackage
           /\ P.id = offer /\ offer \in Files /\ offer \notin done
           /\ Known <=> P.type # "FileInfo"
           /\ Known <=> Knows
           /\ AnswerPlaces = {}
           /\ P.type \in {"FileInfo", "FileComplete"} => FilePlaces' = {} /\ FilePlaces = {1}
<1>1. 1 \in FilePlaces /\ Line[1] = P /\ P \in ProgramPackage
  BY PopShifts, LinePops DEF TransferInv
<1>2. P.id = offer /\ offer \in Files
  BY <1>1, Fields DEF TransferInv, OrderInv
<1>3. offer \notin done /\ (Knows <=> P.type # "FileInfo") /\ (Known <=> Knows)
  BY <1>1, <1>2 DEF TransferInv, DoneInv, KnownInv, Known, Knows
<1>4. AnswerPlaces = {}
  BY <1>1, Unanswered
<1>5. ASSUME P.type \in {"FileInfo", "FileComplete"}
      PROVE  FilePlaces' = {} /\ FilePlaces = {1}
  <2>1. \A i \in FilePlaces : ~(1 < i)
    BY <1>1, <1>5 DEF TransferInv, OrderInv
  <2>2. \A i \in FilePlaces : i = 1
    BY <2>1, Fields DEF TransferInv
  <2>3. \A i \in FilePlaces' : i + 1 \in FilePlaces /\ i \in Nat \ {0}
    BY PopShifts DEF TransferInv
  <2> QED
    BY <1>1, <2>2, <2>3
<1> QED
  BY <1>1, <1>2, <1>3, <1>4, <1>5

\* rf asks for the file from where it has it, or from the start.
LEMMA FileInfoStep ==
    ASSUME TransferInv, HandlesFileInfo, UNCHANGED senderVars
    PROVE  TransferInv'
<1> DEFINE p == [type |-> "FileProposeStart", id |-> P.id, len |-> ExistLen(P.id),
                 sound |-> disk[P.id].sound]
<1>1. bufferM # <<>> /\ P.type = "FileInfo"
  BY DEF HandlesFileInfo, Parses, P
<1>2. bufferM' = Tail(bufferM) /\ UNCHANGED <<toProgram, disk, diskFails>>
  BY DEF HandlesFileInfo, Handled, Refused, Known
<1>3. /\ 1 \in FilePlaces /\ Line[1] = P /\ P.id = offer /\ offer \in Files
      /\ offer \notin done /\ ~Known /\ ~Knows /\ AnswerPlaces = {} /\ FilePlaces' = {}
  BY <1>1, <1>2, NextIs DEF FileTypes
<1>4. zmodemFileMapM' = Announced(offer) /\ Sends(p)
  BY <1>3 DEF HandlesFileInfo
<1>5. DOMAIN zmodemFileMapM = {}
  BY <1>3 DEF TransferInv, KnownInv, Knows
<1>6. zmodemFileMapM' = [g \in {offer} |-> [pos |-> 0, open |-> FALSE]]
  BY <1>4, <1>5 DEF Announced
<1>7. disk[offer] \in [len : Nat, sound : BOOLEAN]
  BY <1>3 DEF TransferInv, DataTypeOK
<1>8. /\ p \in TerminalPackage /\ p.type = "FileProposeStart" /\ p.id = offer
      /\ p.len > 0 => disk[offer] = [len |-> p.len, sound |-> p.sound]
  BY <1>3, <1>7 DEF TerminalPackage, ExistLen
<1> HIDE DEF p
<1>9. /\ toTerminal' \in Seq(TerminalPackage)
      /\ \A k \in AnswerPlaces' : toTerminal'[k] = p /\ k = Len(toTerminal) + 1
  <2>1. /\ toTerminal' \in Seq(TerminalPackage) /\ Len(toTerminal) \in Nat
        /\ \A k \in 1..Len(toTerminal) : toTerminal'[k] = toTerminal[k]
        /\ \/ toTerminal' = toTerminal
           \/ /\ Len(toTerminal') = Len(toTerminal) + 1
              /\ toTerminal'[Len(toTerminal) + 1] = p
    BY <1>4, <1>8, AnswersPush DEF TransferInv
  <2> QED
    BY <2>1, <1>3 DEF AnswerPlaces
<1>10. phase \in {"offered", "over"}
  BY <1>1, <1>3 DEF TransferInv, PhaseInv, Places, FilePlaces
<1>11. Knows' /\ File' = [pos |-> 0, open |-> FALSE] /\ offer' = offer /\ phase' = phase
  BY <1>6 DEF Knows, File, senderVars
<1>12. DataTypeOK'
  <2>1. bufferM' \in Seq(ProgramPackage)
    BY <1>1, <1>2, LinePops DEF TransferInv
  <2> QED
    BY <2>1, <1>2, <1>3, <1>6, <1>9 DEF TransferInv, DataTypeOK, senderVars
<1>13. OrderInv' /\ \A type \in FileTypes : Places(type)' = {}
  BY <1>3, NoPlaces
<1>14. KnownInv'
  BY <1>3, <1>6, <1>11 DEF KnownInv
<1>15. TokenInv'
  <2>1. Answers("FileCompleteAck")' = {}
    BY <1>8, <1>9 DEF Answers, AnswerPlaces, AnswerTypes
  <2>2. \A k \in Answers("FileProposeStart")' : toTerminal'[k] = p
    BY <1>9 DEF Answers, AnswerPlaces, AnswerTypes
  <2> QED
    BY <2>1, <2>2, <1>2, <1>3, <1>8, <1>9, <1>10, <1>11 DEF TokenInv
<1>16. PhaseInv'
  BY <1>3, <1>10, <1>11, <1>13 DEF PhaseInv, FileTypes
<1>17. DoneInv'
  BY <1>2, <1>3, <1>11 DEF TransferInv, DoneInv, AckedFilesAreWhole, Whole, senderVars
<1>18. ExactInv'
  BY <1>10, <1>11, <1>13 DEF ExactInv, FileTypes
<1> QED
  BY <1>12, <1>13, <1>14, <1>15, <1>16, <1>17, <1>18 DEF TransferInv

\* A complete file is acknowledged and forgotten.
LEMMA FileCompleteStep ==
    ASSUME TransferInv, HandlesFileComplete, UNCHANGED senderVars
    PROVE  TransferInv'
<1> DEFINE p == [type |-> "FileCompleteAck", id |-> P.id]
<1>1. bufferM # <<>> /\ P.type = "FileComplete"
  BY DEF HandlesFileComplete, Parses, P
<1>2. bufferM' = Tail(bufferM) /\ UNCHANGED <<toProgram, disk, diskFails>>
  BY DEF HandlesFileComplete, Handled, Refused, Known
<1>3. /\ 1 \in FilePlaces /\ Line[1] = P /\ P.id = offer /\ offer \in Files
      /\ offer \notin done /\ Known /\ Knows /\ AnswerPlaces = {} /\ FilePlaces' = {}
      /\ FilePlaces = {1}
  BY <1>1, <1>2, NextIs DEF FileTypes
<1>4. zmodemFileMapM' = Forgetting(offer) /\ Sends(p)
  BY <1>3 DEF HandlesFileComplete
<1>5. DOMAIN zmodemFileMapM' = {}
  BY <1>4 DEF TransferInv, KnownInv, Forgetting
<1>6. p \in TerminalPackage /\ p.type = "FileCompleteAck" /\ p.id = offer
  BY <1>3 DEF TerminalPackage
<1> HIDE DEF p
<1>7. /\ toTerminal' \in Seq(TerminalPackage)
      /\ \A k \in AnswerPlaces' : toTerminal'[k] = p /\ k = Len(toTerminal) + 1
  <2>1. /\ toTerminal' \in Seq(TerminalPackage) /\ Len(toTerminal) \in Nat
        /\ \A k \in 1..Len(toTerminal) : toTerminal'[k] = toTerminal[k]
        /\ \/ toTerminal' = toTerminal
           \/ /\ Len(toTerminal') = Len(toTerminal) + 1
              /\ toTerminal'[Len(toTerminal) + 1] = p
    BY <1>4, <1>6, AnswersPush DEF TransferInv
  <2> QED
    BY <2>1, <1>3 DEF AnswerPlaces
<1>8. /\ phase \in {"complete", "over"}
      /\ Exact /\ Size[offer] > 0 => Whole(offer)
  <2>1. 1 \in Places("FileComplete") /\ Places("FileContent") = {}
    BY <1>1, <1>3 DEF Places, FilePlaces, FileTypes
  <2> QED
    BY <2>1 DEF TransferInv, PhaseInv, ExactInv
<1>9. ~Knows' /\ offer' = offer /\ phase' = phase /\ (Exact' <=> Exact)
  BY <1>2, <1>5 DEF Knows, senderVars, Exact
<1>10. DataTypeOK'
  <2>1. bufferM' \in Seq(ProgramPackage)
    BY <1>1, <1>2, LinePops DEF TransferInv
  <2>2. zmodemFileMapM' \in [DOMAIN zmodemFileMapM' -> [pos : Nat, open : BOOLEAN]]
    BY <1>4, <1>5 DEF Forgetting
  <2> QED
    BY <2>1, <2>2, <1>2, <1>5, <1>7 DEF TransferInv, DataTypeOK, senderVars
<1>11. OrderInv' /\ \A type \in FileTypes : Places(type)' = {}
  BY <1>3, NoPlaces
<1>12. KnownInv'
  BY <1>3, <1>5, <1>9 DEF KnownInv
<1>13. TokenInv'
  <2>1. Answers("FileProposeStart")' = {}
    BY <1>6, <1>7 DEF Answers, AnswerPlaces, AnswerTypes
  <2>2. Whole(offer)' <=> Whole(offer)
    BY <1>2, <1>9 DEF Whole
  <2>3. \A k \in AnswerPlaces' : toTerminal'[k].id = offer' /\ FilePlaces' = {}
    BY <1>3, <1>6, <1>7, <1>9
  <2> QED
    BY <2>1, <2>2, <2>3, <1>7, <1>8, <1>9 DEF TokenInv
<1>14. PhaseInv'
  BY <1>3, <1>8, <1>9, <1>11 DEF PhaseInv, FileTypes
<1>15. DoneInv'
  BY <1>2, <1>3, <1>9 DEF TransferInv, DoneInv, AckedFilesAreWhole, Whole, senderVars
<1>16. ExactInv'
  BY <1>8, <1>9, <1>11 DEF ExactInv, FileTypes
<1> QED
  BY <1>10, <1>11, <1>12, <1>13, <1>14, <1>15, <1>16 DEF TransferInv

\* What the other packages about the file are when the first one is handled.
LEMMA PlacesPop ==
    ASSUME TransferInv, bufferM # <<>>, bufferM' = Tail(bufferM),
           UNCHANGED <<toProgram, offer>>, NEW type \in FileTypes
    PROVE  /\ \A i \in Places(type)' : i + 1 \in Places(type) /\ Line'[i] = Line[i + 1]
           /\ \A i \in Places(type) : i # 1 => i - 1 \in Places(type)' /\ Line'[i - 1] = Line[i]
<1>1. \A i : i \in Places(type)' <=> i \in FilePlaces' /\ Line'[i].type = type
  BY DEF Places, FilePlaces
<1> QED
  BY <1>1, PlacesAre, PopShifts DEF TransferInv

\* The order of the packages is kept, and what is said of their contents, if the
\* disk still has the part to be resumed.
LEMMA OrderPops ==
    ASSUME TransferInv, bufferM # <<>>, bufferM' = Tail(bufferM),
           UNCHANGED <<toProgram, offer>>, Places("FileInitPos")' = {}
    PROVE  OrderInv'
<1>1. \A i, j \in FilePlaces' : i < j => i + 1 < j + 1
  BY PopShifts DEF TransferInv
<1>2. \A i \in FilePlaces' : i + 1 \in FilePlaces /\ Line'[i] = Line[i + 1]
  BY PopShifts DEF TransferInv
<1>3. \A i \in Places("FileContent")' : i + 1 \in Places("FileContent") /\ Line'[i] = Line[i + 1]
  BY PlacesPop DEF FileTypes
<1>4. \A i \in Places("FileContent")' : i \in FilePlaces'
  BY DEF Places, FilePlaces, FileTypes
<1>5. \A i \in FilePlaces' : Line'[i].id = offer
  BY <1>2 DEF TransferInv, OrderInv
<1>6. \A i, j \in FilePlaces' : i < j =>
            /\ Line'[i].type \notin {"FileInfo", "FileComplete"}
            /\ Line'[j].type \notin {"FileInfo", "FileInitPos"}
  BY <1>1, <1>2 DEF TransferInv, OrderInv
<1>7. \A i, j \in Places("FileContent")' : i < j => End(Line'[i]) <= Line'[j].pos
  BY <1>1, <1>3, <1>4 DEF TransferInv, OrderInv
<1>8. \A i \in Places("FileContent")' : End(Line'[i]) <= Size[offer]
  BY <1>3 DEF TransferInv, OrderInv
<1> QED
  BY <1>5, <1>6, <1>7, <1>8 DEF OrderInv, End

\* Behind the first of the packages there is no announcement and no position.
LEMMA NoneBehind ==
    ASSUME TransferInv, bufferM # <<>>, bufferM' = Tail(bufferM), UNCHANGED toProgram,
           P.type \in FileTypes
    PROVE  Places("FileInfo")' = {} /\ Places("FileInitPos")' = {}
<1>1. 1 \in FilePlaces
  BY NextIs
<1>2. \A i \in FilePlaces' : i + 1 \in FilePlaces /\ 1 < i + 1 /\ Line'[i] = Line[i + 1]
  BY PopShifts DEF TransferInv
<1>3. \A i \in FilePlaces' : Line'[i].type \notin {"FileInfo", "FileInitPos"}
  BY <1>1, <1>2 DEF TransferInv, OrderInv
<1> QED
  BY <1>3 DEF Places, FilePlaces, FileTypes

\* The phase still agrees with what is left on the line.
LEMMA PhasePops ==
    ASSUME TransferInv, bufferM # <<>>, bufferM' = Tail(bufferM),
           UNCHANGED <<toProgram, phase, offer, at>>, Knows',
           P.type \in {"FileInitPos", "FileContent"}
    PROVE  PhaseInv'
<1>1. 1 \in FilePlaces /\ Line[1] = P
  BY NextIs DEF FileTypes
<1>2. phase \notin {"ready", "choosing", "offered"}
  BY <1>1 DEF TransferInv, PhaseInv, Places
<1>3. Places("FileInfo")' = {}
  BY NoneBehind DEF FileTypes
<1>4. \A i \in Places("FileComplete")' : phase' \in {"complete", "over"}
  BY PlacesPop DEF TransferInv, PhaseInv, FileTypes
<1>5. \A i \in Places("FileContent")' : i + 1 \in Places("FileContent") /\ Line'[i] = Line[i + 1]
  BY PlacesPop DEF FileTypes
<1>6. phase' = "sending" =>
          /\ Knows' /\ at' < Size[offer']
          /\ \A i \in Places("FileContent")' : End(Line'[i]) <= at'
  BY <1>5 DEF TransferInv, PhaseInv
<1> QED
  BY <1>2, <1>3, <1>4, <1>6 DEF PhaseInv, End

\* rf opens the file and stands where the blocks will begin.
LEMMA FileInitPosStep ==
    ASSUME TransferInv, HandlesFileInitPos, UNCHANGED senderVars
    PROVE  TransferInv'
<1>1. bufferM # <<>> /\ P.type = "FileInitPos"
  BY DEF HandlesFileInitPos, Parses, P
<1>2. bufferM' = Tail(bufferM) /\ UNCHANGED <<toProgram, toTerminal, diskFails>>
  BY DEF HandlesFileInitPos, Handled, Refused, Known
<1>3. /\ 1 \in FilePlaces /\ Line[1] = P /\ P.id = offer /\ offer \in Files
      /\ offer \notin done /\ Known /\ Knows /\ AnswerPlaces = {}
  BY <1>1, <1>2, NextIs DEF FileTypes
<1>4. PICK open \in {TRUE} \cup (IF diskFails THEN {FALSE} ELSE {}) :
          /\ disk' = IF open THEN [disk EXCEPT ![offer] = Opened(P.pos, @)] ELSE disk
          /\ zmodemFileMapM' = [zmodemFileMapM EXCEPT ![offer] =
                 [pos |-> IF P.pos > Size[offer] THEN @.pos ELSE P.pos, open |-> open]]
  BY <1>3 DEF HandlesFileInitPos
<1>5. /\ 1 \in Places("FileInitPos") /\ P.pos \in Nat /\ P.pos <= Size[offer]
      /\ P.pos > 0 => disk[offer] = [len |-> P.pos, sound |-> TRUE]
  <2>1. 1 \in Places("FileInitPos")
    BY <1>1, <1>3, PlacesAre DEF FileTypes
  <2> QED
    BY <2>1, <1>1, <1>3, Fields DEF TransferInv, OrderInv
<1>6. /\ disk \in [Files -> [len : Nat, sound : BOOLEAN]] /\ Size[offer] \in Nat
      /\ zmodemFileMapM \in [DOMAIN zmodemFileMapM -> [pos : Nat, open : BOOLEAN]]
      /\ DOMAIN zmodemFileMapM = {offer} /\ open \in BOOLEAN
  <2>1. /\ disk \in [Files -> [len : Nat, sound : BOOLEAN]] /\ Size[offer] \in Nat
        /\ zmodemFileMapM \in [DOMAIN zmodemFileMapM -> [pos : Nat, open : BOOLEAN]]
    BY <1>3, RfAssumption DEF TransferInv, DataTypeOK
  <2>2. DOMAIN zmodemFileMapM = {offer}
    BY <1>3 DEF TransferInv, KnownInv, Knows
  <2> QED
    BY <1>4, <2>1, <2>2
<1>7. zmodemFileMapM' = [zmodemFileMapM EXCEPT ![offer] = [pos |-> P.pos, open |-> open]]
  <2>1. ~(P.pos > Size[offer])
    BY <1>5, <1>6
  <2> QED
    BY <1>4, <2>1
<1>8. /\ DOMAIN zmodemFileMapM' = {offer}
      /\ zmodemFileMapM'[offer] = [pos |-> P.pos, open |-> open]
      /\ zmodemFileMapM' \in [{offer} -> [pos : Nat, open : BOOLEAN]]
  BY <1>5, <1>6, <1>7
<1>9. /\ \A f \in Files : f # offer => disk'[f] = disk[f]
      /\ disk' \in [Files -> [len : Nat, sound : BOOLEAN]]
      /\ open => disk'[offer] = [len |-> P.pos, sound |-> TRUE]
  <2>1. disk[offer] \in [len : Nat, sound : BOOLEAN]
    BY <1>3, <1>6
  <2>2. Opened(P.pos, disk[offer]) = [len |-> P.pos, sound |-> TRUE]
    <3>1. CASE P.pos > 0
      BY <1>5, <3>1 DEF Opened
    <3>2. CASE P.pos = 0
      BY <3>2 DEF Opened
    <3> QED
      BY <1>5, <3>1, <3>2
  <2> QED
    BY <1>3, <1>4, <1>5, <1>6, <2>2
<1>10. /\ offer' = offer /\ phase' = phase /\ (Exact' <=> Exact) /\ at' = at /\ done' = done
       /\ Knows' /\ File' = [pos |-> P.pos, open |-> open]
       /\ File'.pos = P.pos /\ File'.open = open
       /\ open => Good'
  BY <1>2, <1>8, <1>9 DEF senderVars, Exact, Knows, File, Good
<1>11. DataTypeOK'
  <2>1. bufferM' \in Seq(ProgramPackage)
    BY <1>1, <1>2, LinePops DEF TransferInv
  <2> QED
    BY <2>1, <1>2, <1>3, <1>8, <1>9 DEF TransferInv, DataTypeOK, senderVars
<1>12. Places("FileInfo")' = {} /\ Places("FileInitPos")' = {}
  BY <1>1, <1>2, NoneBehind DEF FileTypes
<1>13. OrderInv'
  BY <1>1, <1>2, <1>10, <1>12, OrderPops
<1>14. KnownInv'
  <2>1. \A i \in FilePlaces' : Knows' <=> Line'[i].type # "FileInfo"
    BY <1>10, <1>12 DEF Places, FilePlaces
  <2> QED
    BY <2>1, <1>8, <1>10, <1>12 DEF KnownInv
<1>15. TokenInv'
  BY <1>2, <1>3, NoAnswers DEF AnswerPlaces
<1>16. PhaseInv'
  BY <1>1, <1>2, <1>10, PhasePops
<1>17. DoneInv'
  <2>1. AckedFilesAreWhole'
    BY <1>3, <1>9, <1>10 DEF TransferInv, DoneInv, AckedFilesAreWhole, DataTypeOK, Whole, Exact
  <2> QED
    BY <2>1, <1>3, <1>10 DEF TransferInv, DoneInv, senderVars
<1>18. ExactInv'
  <2> SUFFICES ASSUME Exact
               PROVE  /\ \A i \in Places("FileContent")' : Line'[i].intact = TRUE
                      /\ \A i \in Places("FileContent")' : Reached(Line[i].pos)'
                      /\ phase' = "sending" => Reached(at)'
                      /\ \A i \in Places("FileComplete")' : Size[offer'] > 0 =>
                             \/ \E k \in Places("FileContent")' : End(Line'[k]) = Size[offer']
                             \/ Whole(offer)' /\ FilePlaces' = {i}
    BY <1>10 DEF ExactInv, End
  <2>0. \A i \in Places("FileContent")' : Line'[i].intact = TRUE
    <3>1. \A i \in Places("FileContent")' :
              i + 1 \in Places("FileContent") /\ Line'[i] = Line[i + 1]
      BY <1>1, <1>2, <1>10, PlacesPop DEF FileTypes
    <3> QED
      BY <3>1 DEF TransferInv, ExactInv
  <2>1. open
    BY <1>4 DEF Exact
  <2>2. ASSUME NEW p, Reached(p)
        PROVE  Reached(p)'
    <3>1. ASSUME NEW k \in Places("FileInitPos"), Line[k].pos = p
          PROVE  Reached(p)'
      <4>1. k = 1
        <5>1. k \in FilePlaces /\ Line[k].type = "FileInitPos" /\ ~(1 < k)
          BY <1>3, PlacesAre DEF TransferInv, OrderInv, FileTypes
        <5> QED
          BY <5>1, Fields DEF TransferInv
      <4> QED
        BY <4>1, <3>1, <2>1, <1>3, <1>10 DEF Reached
    <3>2. ASSUME NEW k \in Places("FileContent"), End(Line[k]) = p
          PROVE  Reached(p)'
      <4>1. k # 1
        BY <1>1, <1>3 DEF Places
      <4>2. k - 1 \in Places("FileContent")' /\ Line'[k - 1] = Line[k]
        BY <4>1, <1>1, <1>2, <1>10, PlacesPop DEF FileTypes
      <4> QED
        BY <4>2, <3>2 DEF Reached, End
    <3>3. ~(Knows /\ File.open)
      BY <1>5 DEF TransferInv, KnownInv
    <3> QED
      BY <2>2, <3>1, <3>2, <3>3 DEF Reached
  <2>3. \A i \in Places("FileContent")' : Reached(Line[i].pos)'
    <3> SUFFICES ASSUME NEW i \in Places("FileContent")', NEW p, p = Line'[i].pos
                 PROVE  Reached(p)'
      BY DEF Reached
    <3>1. Reached(Line[i + 1].pos) /\ Line'[i] = Line[i + 1]
      BY <1>1, <1>2, <1>10, PlacesPop DEF TransferInv, ExactInv, FileTypes
    <3>2. Reached(p)
      BY <3>1
    <3> QED
      BY <2>2, <3>2
  <2>4. phase' = "sending" => Reached(at)'
    BY <1>10, <2>2 DEF TransferInv, ExactInv
  <2>5. ASSUME NEW i \in Places("FileComplete")', Size[offer] > 0
        PROVE  \E k \in Places("FileContent")' : End(Line'[k]) = Size[offer]
    <3>1. i + 1 \in Places("FileComplete") /\ i \in Nat \ {0}
      BY <1>1, <1>2, <1>10, PlacesPop, PopShifts DEF TransferInv, FileTypes, Places, FilePlaces
    <3>2. FilePlaces # {i + 1}
      BY <1>3, <3>1
    <3>3. PICK k \in Places("FileContent") : End(Line[k]) = Size[offer]
      BY <2>5, <3>1, <3>2 DEF TransferInv, ExactInv
    <3>4. k # 1
      BY <1>1, <1>3 DEF Places
    <3>5. k - 1 \in Places("FileContent")' /\ Line'[k - 1] = Line[k]
      BY <3>4, <1>1, <1>2, <1>10, PlacesPop DEF FileTypes
    <3> QED
      BY <3>3, <3>5
  <2> QED
    BY <1>10, <2>0, <2>3, <2>4, <2>5
<1> QED
  BY <1>11, <1>13, <1>14, <1>15, <1>16, <1>17, <1>18 DEF TransferInv

\* A block rf expects is handled for a file whose writes have not failed, or for
\* one that is not open; with a good disk and no damaged package it is expected,
\* of an open file, and its content is what was sent.
LEMMA BlockExpected ==
    ASSUME TransferInv, 1 \in Places("FileContent")
    PROVE  /\ File.open /\ File.pos = Line[1].pos => Good
           /\ Exact => File.open /\ File.pos = Line[1].pos /\ Line[1].intact = TRUE
<1>1. /\ 1 \in FilePlaces /\ Line[1].type = "FileContent"
      /\ Line[1].pos \in Nat /\ End(Line[1]) > Line[1].pos /\ End(Line[1]) \in Nat
  <2>1. 1 \in FilePlaces /\ Line[1].type = "FileContent"
    BY PlacesAre DEF FileTypes
  <2> QED
    BY <2>1, Fields DEF TransferInv
<1>2. Knows
  BY <1>1 DEF TransferInv, KnownInv
<1>3. File.open /\ File.pos = Line[1].pos => Good
  BY <1>1, <1>2 DEF TransferInv, KnownInv
<1>4. ASSUME Exact
      PROVE  File.open /\ File.pos = Line[1].pos
  <2>1. Reached(Line[1].pos)
    BY <1>4 DEF TransferInv, ExactInv
  <2>2. ASSUME NEW k \in Places("FileInitPos")
        PROVE  FALSE
    <3>1. k \in FilePlaces /\ Line[k].type = "FileInitPos"
      BY PlacesAre DEF FileTypes
    <3>2. ~(1 < k) /\ k \in Nat \ {0}
      BY <1>1, <3>1, Fields DEF TransferInv, OrderInv
    <3> QED
      BY <1>1, <3>1, <3>2
  <2>3. ASSUME NEW k \in Places("FileContent"), End(Line[k]) = Line[1].pos
        PROVE  FALSE
    <3>1. k \in FilePlaces /\ Line[k].type = "FileContent"
      BY PlacesAre DEF FileTypes
    <3>2. k \in Nat \ {0} /\ Line[k].pos \in Nat /\ End(Line[k]) > Line[k].pos
      BY <3>1, Fields DEF TransferInv
    <3>3. CASE k = 1
      BY <1>1, <2>3, <3>3
    <3>4. CASE 1 < k
      <4>1. End(Line[1]) <= Line[k].pos
        BY <3>4 DEF TransferInv, OrderInv
      <4> QED
        BY <1>1, <2>3, <3>2, <4>1
    <3> QED
      BY <3>2, <3>3, <3>4
  <2> QED
    BY <2>1, <2>2, <2>3 DEF Reached
<1>5. Exact => Line[1].intact = TRUE
  BY DEF TransferInv, ExactInv
<1> QED
  BY <1>3, <1>4, <1>5

\* A block that is refused, or for a file that is not open, changes nothing; an
\* open file gets as much of it as the disk takes.
LEMMA FileContentStep ==
    ASSUME TransferInv, HandlesFileContent, UNCHANGED senderVars
    PROVE  TransferInv'
<1>1. bufferM # <<>> /\ P.type = "FileContent"
  BY DEF HandlesFileContent, Parses, P
<1>2. bufferM' = Tail(bufferM) /\ UNCHANGED <<toProgram, toTerminal, diskFails>>
  BY DEF HandlesFileContent, Handled, Refused, Known
<1>3. /\ 1 \in FilePlaces /\ Line[1] = P /\ P.id = offer /\ offer \in Files
      /\ offer \notin done /\ Known /\ Knows /\ AnswerPlaces = {}
  BY <1>1, <1>2, NextIs DEF FileTypes
<1>4. /\ 1 \in Places("FileContent")
      /\ P.pos \in Nat /\ P.len \in Nat \ {0} /\ End(P) = P.pos + P.len
      /\ End(P) \in Nat /\ End(P) > P.pos /\ P.intact \in BOOLEAN
  BY <1>1, <1>3, Fields, PlacesAre DEF TransferInv, FileTypes, End
<1>5. /\ disk \in [Files -> [len : Nat, sound : BOOLEAN]] /\ Size[offer] \in Nat
      /\ zmodemFileMapM \in [DOMAIN zmodemFileMapM -> [pos : Nat, open : BOOLEAN]]
      /\ DOMAIN zmodemFileMapM = {offer} /\ File \in [pos : Nat, open : BOOLEAN]
      /\ disk[offer] \in [len : Nat, sound : BOOLEAN]
  <2>1. /\ disk \in [Files -> [len : Nat, sound : BOOLEAN]] /\ Size[offer] \in Nat
        /\ zmodemFileMapM \in [DOMAIN zmodemFileMapM -> [pos : Nat, open : BOOLEAN]]
    BY <1>3, RfAssumption DEF TransferInv, DataTypeOK
  <2>2. DOMAIN zmodemFileMapM = {offer}
    BY <1>3 DEF TransferInv, KnownInv, Knows
  <2> QED
    BY <1>3, <2>1, <2>2 DEF File
<1>6. CASE UNCHANGED fileVars /\ ~Exact
  BY <1>1, <1>2, <1>6, PopStep
<1>7. CASE ~Expected(File) \/ ~CrcMatches
  <2>1. ~Exact
    BY <1>3, <1>4, <1>7, BlockExpected DEF Expected, CrcMatches
  <2>2. UNCHANGED fileVars
    BY <1>2, <1>3, <1>7 DEF HandlesFileContent, fileVars, File
  <2> QED
    BY <1>6, <2>1, <2>2
<1>8. ASSUME Expected(File), CrcMatches
      PROVE  TransferInv'
  <2>1. PICK n \in Writes(File) :
            /\ disk' = [disk EXCEPT ![offer] = Extended(@, n)]
            /\ zmodemFileMapM' =
                   [zmodemFileMapM EXCEPT ![offer].pos = IF n = P.len THEN @ + n ELSE @]
    BY <1>3, <1>8 DEF HandlesFileContent, File
  <2>2. n \in 0..P.len /\ (Exact /\ File.open => n = P.len) /\ (~File.open => n = 0)
    BY <1>4, <2>1 DEF Writes, Exact
  <2>3. File.pos = P.pos /\ P.intact = TRUE
    BY <1>4, <1>8 DEF Expected, CrcMatches
  <2>4. CASE ~File.open
    <3>1. n = 0 /\ n # P.len
      BY <1>4, <2>2, <2>4
    <3>2. Extended(disk[offer], n) = disk[offer]
      BY <1>5, <3>1 DEF Extended
    <3>3. disk' = disk
      BY <1>5, <2>1, <3>2
    <3>4. zmodemFileMapM' = zmodemFileMapM
      BY <1>5, <2>1, <3>1
    <3>5. ~Exact
      BY <1>4, <2>4, BlockExpected
    <3> QED
      BY <1>2, <1>6, <3>3, <3>4, <3>5 DEF fileVars
  <2>5. CASE File.open
    <3> DEFINE pos == IF n = P.len THEN End(P) ELSE P.pos
    <3>1. /\ disk[offer].len = P.pos /\ disk[offer].sound = TRUE
      BY <1>3, <1>4, <2>3, <2>5, BlockExpected DEF Good
    <3>2. Extended(disk[offer], n) = [len |-> P.pos + n, sound |-> TRUE]
      BY <2>3, <3>1 DEF Extended
    <3>3. /\ \A f \in Files : f # offer => disk'[f] = disk[f]
          /\ disk' \in [Files -> [len : Nat, sound : BOOLEAN]]
          /\ disk'[offer] = [len |-> P.pos + n, sound |-> TRUE]
      BY <1>3, <1>4, <1>5, <2>1, <2>2, <3>2
    <3>4. /\ DOMAIN zmodemFileMapM' = {offer}
          /\ zmodemFileMapM' \in [{offer} -> [pos : Nat, open : BOOLEAN]]
          /\ zmodemFileMapM'[offer].pos = pos /\ zmodemFileMapM'[offer].open = TRUE
      <4>1. zmodemFileMapM' = [zmodemFileMapM EXCEPT ![offer] = [File EXCEPT !.pos = pos]]
        BY <1>4, <1>5, <2>1, <2>3 DEF File
      <4>2. /\ [File EXCEPT !.pos = pos] \in [pos : Nat, open : BOOLEAN]
            /\ [File EXCEPT !.pos = pos].pos = pos /\ [File EXCEPT !.pos = pos].open = TRUE
        BY <1>4, <1>5, <2>5
      <4> HIDE DEF pos
      <4> QED
        BY <1>5, <4>1, <4>2
    <3>5. /\ offer' = offer /\ phase' = phase /\ (Exact' <=> Exact) /\ at' = at /\ done' = done
          /\ Knows' /\ File'.pos = pos /\ File'.open
      BY <1>2, <3>4 DEF senderVars, Exact, Knows, File
    <3>6. n = P.len => Good' /\ File'.pos = End(P)
      BY <1>4, <3>3, <3>5 DEF Good
    <3>7. DataTypeOK'
      <4>1. bufferM' \in Seq(ProgramPackage)
        BY <1>1, <1>2, LinePops DEF TransferInv
      <4> QED
        BY <4>1, <1>2, <1>3, <3>3, <3>4 DEF TransferInv, DataTypeOK, senderVars
    <3>8. Places("FileInfo")' = {} /\ Places("FileInitPos")' = {}
      BY <1>1, <1>2, NoneBehind DEF FileTypes
    <3>9. OrderInv'
      BY <1>1, <1>2, <3>5, <3>8, OrderPops
    <3>10. \A i \in Places("FileContent")' :
               /\ i + 1 \in Places("FileContent") /\ Line'[i] = Line[i + 1]
               /\ Line'[i].pos >= End(P) /\ Line'[i].pos > P.pos /\ Line'[i].pos \in Nat
      <4> SUFFICES ASSUME NEW i \in Places("FileContent")'
                   PROVE  /\ i + 1 \in Places("FileContent") /\ Line'[i] = Line[i + 1]
                          /\ Line'[i].pos >= End(P) /\ Line'[i].pos > P.pos
                          /\ Line'[i].pos \in Nat
        OBVIOUS
      <4>1. i + 1 \in Places("FileContent") /\ Line'[i] = Line[i + 1]
        BY <1>1, <1>2, <3>5, PlacesPop DEF FileTypes
      <4>2. i \in Nat \ {0}
        BY <1>1, <1>2, PopShifts DEF TransferInv, Places, FilePlaces, FileTypes
      <4>3. End(Line[1]) <= Line[i + 1].pos
        BY <1>4, <4>1, <4>2 DEF TransferInv, OrderInv
      <4>4. Line[i + 1].pos \in Nat
        BY <4>1, Fields, PlacesAre DEF TransferInv, FileTypes
      <4> QED
        BY <1>3, <1>4, <4>1, <4>3, <4>4
    <3>11. phase = "sending" => at > P.pos /\ End(P) <= at
      BY <1>3, <1>4 DEF TransferInv, DataTypeOK, PhaseInv
    <3>12. KnownInv'
      <4>1. \A i \in FilePlaces' : Knows' <=> Line'[i].type # "FileInfo"
        BY <3>5, <3>8 DEF Places, FilePlaces
      <4>2. n # P.len => /\ \A i \in Places("FileContent")' : Line'[i].pos > File'.pos
                         /\ phase' = "sending" => at' > File'.pos
        BY <3>5, <3>10, <3>11
      <4> QED
        BY <4>1, <4>2, <3>4, <3>5, <3>6, <3>8 DEF KnownInv
    <3>13. TokenInv'
      BY <1>2, <1>3, NoAnswers DEF AnswerPlaces
    <3>14. PhaseInv'
      BY <1>1, <1>2, <3>5, PhasePops
    <3>15. DoneInv'
      <4>1. AckedFilesAreWhole'
        BY <1>3, <3>3, <3>5 DEF TransferInv, DoneInv, AckedFilesAreWhole, DataTypeOK, Whole,
                                Exact
      <4> QED
        BY <4>1, <1>3, <3>5 DEF TransferInv, DoneInv, senderVars
    <3>16. ExactInv'
      <4> SUFFICES ASSUME Exact
                   PROVE  /\ \A i \in Places("FileContent")' : Line'[i].intact = TRUE
                          /\ \A i \in Places("FileContent")' : Reached(Line[i].pos)'
                          /\ phase' = "sending" => Reached(at)'
                          /\ \A i \in Places("FileComplete")' : Size[offer'] > 0 =>
                               \/ \E k \in Places("FileContent")' : End(Line'[k]) = Size[offer']
                               \/ Whole(offer)' /\ FilePlaces' = {i}
        BY <3>5 DEF ExactInv, End
      <4>0. \A i \in Places("FileContent")' : Line'[i].intact = TRUE
        BY <3>10 DEF TransferInv, ExactInv
      <4>1. n = P.len /\ Good' /\ File'.pos = End(P)
        BY <2>2, <2>5, <3>6
      <4>2. ASSUME NEW p, Reached(p), p # P.pos
            PROVE  Reached(p)'
        <5>1. ASSUME NEW k \in Places("FileInitPos")
              PROVE  FALSE
          BY <2>5, <1>3 DEF TransferInv, KnownInv
        <5>2. ASSUME NEW k \in Places("FileContent"), End(Line[k]) = p
              PROVE  Reached(p)'
          <6>1. CASE k = 1
            BY <6>1, <5>2, <1>3, <3>5, <4>1 DEF Reached
          <6>2. CASE k # 1
            <7>1. k - 1 \in Places("FileContent")' /\ Line'[k - 1] = Line[k]
              BY <6>2, <1>1, <1>2, <3>5, PlacesPop DEF FileTypes
            <7> QED
              BY <7>1, <5>2 DEF Reached, End
          <6> QED
            BY <6>1, <6>2
        <5> QED
          BY <4>2, <2>3, <5>1, <5>2 DEF Reached
      <4>3. \A i \in Places("FileContent")' : Reached(Line[i].pos)'
        <5> SUFFICES ASSUME NEW i \in Places("FileContent")', NEW p, p = Line'[i].pos
                     PROVE  Reached(p)'
          BY DEF Reached
        <5>1. Reached(Line[i + 1].pos) /\ Line'[i] = Line[i + 1] /\ p # P.pos
          BY <1>4, <3>10 DEF TransferInv, ExactInv
        <5>2. Reached(p)
          BY <5>1
        <5> QED
          BY <4>2, <5>1, <5>2
      <4>4. phase' = "sending" => Reached(at)'
        <5>1. phase = "sending" => Reached(at) /\ at # P.pos
          BY <1>4, <3>11 DEF TransferInv, ExactInv
        <5> QED
          BY <3>5, <4>2, <5>1
      <4>5. ASSUME NEW i \in Places("FileComplete")', Size[offer] > 0
            PROVE  \/ \E k \in Places("FileContent")' : End(Line'[k]) = Size[offer]
                   \/ Whole(offer)' /\ FilePlaces' = {i}
        <5>1. i + 1 \in Places("FileComplete") /\ i \in Nat \ {0} /\ i \in FilePlaces'
          BY <1>1, <1>2, <3>5, PlacesPop, PopShifts
          DEF TransferInv, FileTypes, Places, FilePlaces
        <5>2. FilePlaces # {i + 1}
          BY <1>3, <5>1
        <5>3. PICK k \in Places("FileContent") : End(Line[k]) = Size[offer]
          BY <4>5, <5>1, <5>2 DEF TransferInv, ExactInv
        <5>4. CASE k # 1
          <6>1. k - 1 \in Places("FileContent")' /\ Line'[k - 1] = Line[k]
            BY <5>4, <1>1, <1>2, <3>5, PlacesPop DEF FileTypes
          <6> QED
            BY <5>3, <6>1
        <5>5. CASE k = 1
          <6>1. End(P) = Size[offer]
            BY <5>3, <5>5, <1>3
          <6>2. Whole(offer)'
            BY <1>4, <3>3, <3>5, <4>1, <6>1 DEF Whole
          <6>3. Places("FileContent")' = {}
            <7> SUFFICES ASSUME NEW j \in Places("FileContent")'
                         PROVE  FALSE
              OBVIOUS
            <7>1. j + 1 \in Places("FileContent") /\ Line[j + 1].pos >= Size[offer]
              BY <3>10, <6>1
            <7>2. End(Line[j + 1]) <= Size[offer]
              BY <7>1 DEF TransferInv, OrderInv
            <7>3. /\ End(Line[j + 1]) > Line[j + 1].pos
                  /\ End(Line[j + 1]) \in Nat /\ Line[j + 1].pos \in Nat
              BY <7>1, Fields, PlacesAre DEF TransferInv, FileTypes
            <7> QED
              BY <1>5, <7>1, <7>2, <7>3
          <6>4. \A j \in FilePlaces' : Line'[j].type = "FileComplete"
            BY <3>8, <6>3 DEF FilePlaces, Places, FileTypes
          <6>5. \A j \in FilePlaces' : ~(i < j) /\ ~(j < i) /\ j \in Nat
            BY <1>1, <1>2, <3>9, <5>1, <6>4, PopShifts DEF OrderInv, TransferInv
          <6>6. \A j \in FilePlaces' : j = i
            BY <5>1, <6>5
          <6> QED
            BY <5>1, <6>2, <6>6
        <5> QED
          BY <5>4, <5>5
      <4> QED
        BY <3>5, <4>0, <4>3, <4>4, <4>5
    <3> QED
      BY <3>7, <3>9, <3>12, <3>13, <3>14, <3>15, <3>16 DEF TransferInv
  <2> QED
    BY <2>4, <2>5
<1> QED
  BY <1>7, <1>8

-----------------------------------------------------------------------------
\* The terminal announces the next file: the conversation about the last one is
\* over.
LEMMA AnnounceStep ==
    ASSUME TransferInv, Announce, UNCHANGED <<fileVars, bufferM>>
    PROVE  TransferInv'
<1> DEFINE f  == Head(left)
           ps == <<Plain("EmptyDir"), About("FileInfo", f)>>
<1>1. /\ phase = "choosing" /\ left # <<>>
      /\ phase' = "offered" /\ offer' = f /\ left' = Tail(left) /\ Says(ps)
      /\ UNCHANGED <<toTerminal, at, done, trouble, disk, diskFails, zmodemFileMapM, bufferM>>
  BY DEF Announce, fileVars
<1>2. FilePlaces = {} /\ AnswerPlaces = {} /\ DOMAIN zmodemFileMapM = {}
  <2>1. FilePlaces = {} /\ ~Knows
    BY <1>1 DEF TransferInv, PhaseInv
  <2> QED
    BY <1>1, <2>1, Unanswered DEF TransferInv, KnownInv, Knows
<1>3. /\ left \in Seq(Files) /\ Len(left) \in Nat \ {0} /\ f = left[1] /\ f \in Files
      /\ Tail(left) \in Seq(Files) /\ Len(Tail(left)) = Len(left) - 1
      /\ \A i \in 1..Len(Tail(left)) : Tail(left)[i] = left[i + 1]
  BY <1>1, HeadTailProperties, EmptySeq DEF TransferInv, DataTypeOK
<1>4. /\ ps \in Seq(ProgramPackage) /\ Len(ps) = 2
      /\ ps[1].type \notin FileTypes /\ ps[2].type = "FileInfo" /\ ps[2].id = f
  <2>1. Plain("EmptyDir") \in ProgramPackage /\ About("FileInfo", f) \in ProgramPackage
    BY <1>3 DEF ProgramPackage, PlainTypes, Plain, About
  <2>2. Plain("EmptyDir").type = "EmptyDir"
    BY DEF Plain
  <2>3. About("FileInfo", f).type = "FileInfo" /\ About("FileInfo", f).id = f
    BY DEF About
  <2> HIDE DEF f
  <2> QED
    BY <2>1, <2>2, <2>3 DEF FileTypes
<1> HIDE DEF ps
<1>5. \A i \in FilePlaces' : i = Len(Line) + 2 /\ Line'[i].type = "FileInfo" /\ Line'[i].id = f
  <2>1. \A i \in FilePlaces' : \E j \in 1..Len(ps) :
            i = Len(Line) + j /\ Line'[i] = ps[j] /\ ps[j].type \in FileTypes
    BY <1>1, <1>2, <1>4, SayShifts DEF TransferInv
  <2> QED
    BY <1>4, <2>1
<1>6. /\ Places("FileInitPos")' = {} /\ Places("FileContent")' = {}
      /\ Places("FileComplete")' = {} /\ AnswerPlaces' = {}
  BY <1>1, <1>2, <1>5 DEF Places, FilePlaces, FileTypes, AnswerPlaces
<1>7. ~Knows' /\ f \notin done
  BY <1>1, <1>2, <1>3 DEF Knows, TransferInv, DoneInv
<1>8. DataTypeOK'
  <2>1. toProgram' \in Seq(ProgramPackage)
    BY <1>1, <1>4, LineSays DEF TransferInv
  <2> QED
    BY <2>1, <1>1, <1>3 DEF TransferInv, DataTypeOK
<1>9. OrderInv'
  <2>1. Len(Line) \in Nat
    BY LineType DEF TransferInv
  <2>2. \A i, j \in FilePlaces' : ~(i < j)
    BY <1>5, <2>1
  <2> QED
    BY <1>1, <1>5, <1>6, <2>2 DEF OrderInv
<1>10. KnownInv'
  BY <1>1, <1>2, <1>5, <1>7 DEF KnownInv
<1>11. TokenInv'
  BY <1>6, NoAnswers
<1>12. PhaseInv'
  BY <1>1, <1>5, <1>6 DEF PhaseInv, Places, FilePlaces
<1>13. DoneInv'
  <2>1. AckedFilesAreWhole'
    BY <1>1 DEF TransferInv, DoneInv, AckedFilesAreWhole, Whole
  <2>2. \A i \in 1..Len(left') : i + 1 \in 1..Len(left) /\ i + 1 # 1 /\ left'[i] = left[i + 1]
    BY <1>1, <1>3
  <2>3. \A i \in 1..Len(left') : left'[i] \notin done' \cup {offer'}
    BY <1>1, <1>3, <2>2 DEF TransferInv, DoneInv
  <2>4. \A i, j \in 1..Len(left') : i # j => left'[i] # left'[j]
    <3>1. \A i, j \in 1..Len(left') : i # j => i + 1 # j + 1
      OBVIOUS
    <3> QED
      BY <2>2, <3>1 DEF TransferInv, DoneInv
  <2> QED
    BY <1>1, <1>7, <2>1, <2>3, <2>4 DEF DoneInv
<1>14. ExactInv'
  BY <1>1, <1>6 DEF ExactInv
<1> QED
  BY <1>8, <1>9, <1>10, <1>11, <1>12, <1>13, <1>14 DEF TransferInv

\* Asked for the file, it sends what rf does not have, or its end if that is
\* nothing.
LEMMA ProposeStep ==
    ASSUME TransferInv, GetsFileProposeStart, UNCHANGED <<fileVars, bufferM>>
    PROVE  TransferInv'
<1> DEFINE p   == toTerminal[1]
           pos == IF p.sound /\ p.len <= Length[p.id] THEN p.len ELSE 0
<1>1. /\ Gets({"FileProposeStart"}) /\ Head(toTerminal) = p /\ p \in TerminalPackage
      /\ 1 \in Answers("FileProposeStart") /\ 1 \in AnswerPlaces
      /\ AnswerPlaces' = {} /\ toTerminal' \in Seq(TerminalPackage)
  BY AnswerGone DEF GetsFileProposeStart, AnswerTypes
<1>2. UNCHANGED <<left, offer, done, trouble, disk, diskFails, zmodemFileMapM, bufferM>>
  BY DEF GetsFileProposeStart, fileVars
<1>3. /\ p.id = offer /\ FilePlaces = {} /\ Knows /\ ~File.open
      /\ p.len > 0 => disk[offer] = [len |-> p.len, sound |-> p.sound]
      /\ p.type = "FileProposeStart"
  BY <1>1 DEF TransferInv, TokenInv, Answers
<1>4. offer \in Files /\ Size[offer] \in Nat /\ Length[offer] = Size[offer]
  BY <1>3, RfAssumption, TransferAssumption DEF TransferInv, DataTypeOK, Knows
<1>5. p.len \in Nat /\ p.sound \in BOOLEAN
  BY <1>1, <1>3 DEF TerminalPackage, PlainAnswers
<1>6. /\ pos \in Nat /\ pos <= Size[offer]
      /\ pos > 0 => disk[offer] = [len |-> pos, sound |-> TRUE]
  <2>1. CASE p.sound /\ p.len <= Length[p.id]
    <3>1. pos = p.len /\ p.sound = TRUE
      BY <1>5, <2>1
    <3> HIDE DEF p, pos
    <3> QED
      BY <1>3, <1>4, <1>5, <2>1, <3>1
  <2>2. CASE ~(p.sound /\ p.len <= Length[p.id])
    <3>1. pos = 0
      BY <2>2
    <3> HIDE DEF p, pos
    <3> QED
      BY <1>4, <3>1
  <2> QED
    BY <2>1, <2>2
<1>7. offer \notin done
  BY <1>3 DEF TransferInv, DoneInv
<1>8. Knows' /\ File' = File /\ ~File'.open /\ (Exact' <=> Exact)
  BY <1>2, <1>3 DEF Knows, File, Exact
<1>9. CASE phase # "offered"
  <2>1. /\ <<>> \in Seq([type : PlainTypes]) /\ Says(<<>>)
        /\ UNCHANGED <<phase, at>>
    BY <1>9, ConcatEmptySeq DEF GetsFileProposeStart, Says, TransferInv, DataTypeOK
  <2> QED
    BY <1>1, <1>2, <1>8, <2>1, SayStep
<1>10. ASSUME phase = "offered", NEW q \in ProgramPackage, Says(<<q>>), q.id = offer,
              \/ /\ phase' = "complete" /\ q.type = "FileComplete" /\ pos = Size[offer]
                 /\ at' = at
              \/ /\ phase' = "sending" /\ q.type = "FileInitPos" /\ q.pos = pos
                 /\ pos # Size[offer] /\ at' = pos
       PROVE  TransferInv'
  <2>1. <<q>> \in Seq(ProgramPackage) /\ Len(<<q>>) = 1 /\ <<q>>[1] = q
    OBVIOUS
  <2>2. q.type \in FileTypes
    BY <1>10 DEF FileTypes
  <2>3. Len(Line) \in Nat
    BY LineType DEF TransferInv
  <2>4. \A i \in FilePlaces' : i = Len(Line) + 1 /\ Line'[i] = q
    <3>1. \A i \in FilePlaces' : \E j \in 1..Len(<<q>>) : i = Len(Line) + j /\ Line'[i] = <<q>>[j]
      BY <1>2, <1>3, <1>10, <2>1, SayShifts DEF TransferInv
    <3> QED
      BY <2>1, <3>1
  <2>5. Len(Line) + 1 \in FilePlaces'
    <3>1. \A j \in 1..Len(<<q>>) :
              <<q>>[j].type \in FileTypes => Len(Line) + j \in FilePlaces'
      BY <1>2, <1>10, <2>1, SayShifts DEF TransferInv
    <3>2. 1 \in 1..Len(<<q>>)
      BY <2>1
    <3> QED
      BY <2>1, <2>2, <3>1, <3>2
  <2> HIDE DEF pos, p
  <2>6. /\ Places("FileInfo")' = {} /\ Places("FileContent")' = {}
        /\ \A i \in Places("FileInitPos")' :
               phase' = "sending" /\ Line'[i] = q /\ q.pos = pos
        /\ \A i \in Places("FileComplete")' :
               /\ phase' = "complete" /\ pos = Size[offer] /\ i = Len(Line) + 1
    BY <1>10, <2>4 DEF Places, FilePlaces, FileTypes
  <2>7. DataTypeOK'
    <3>1. toProgram' \in Seq(ProgramPackage)
      BY <1>2, <1>10, <2>1, LineSays DEF TransferInv
    <3> QED
      BY <1>1, <1>2, <1>6, <1>10, <3>1 DEF TransferInv, DataTypeOK
  <2>8. OrderInv'
    <3>1. \A i, j \in FilePlaces' : ~(i < j)
      BY <2>3, <2>4
    <3>2. \A i \in FilePlaces' : Line'[i].id = offer'
      BY <1>2, <1>10, <2>4
    <3> QED
      BY <1>2, <1>6, <2>6, <3>1, <3>2 DEF OrderInv
  <2>9. KnownInv'
    <3>1. \A i \in FilePlaces' : Line'[i].type # "FileInfo"
      BY <1>10, <2>4
    <3> QED
      BY <1>2, <1>8, <3>1 DEF TransferInv, KnownInv
  <2>10. TokenInv'
    BY <1>1, NoAnswers
  <2>11. PhaseInv'
    BY <1>2, <1>4, <1>6, <1>8, <1>10, <2>6 DEF PhaseInv
  <2>12. DoneInv'
    BY <1>2, <1>7, <1>8 DEF TransferInv, DoneInv, AckedFilesAreWhole, Whole
  <2>13. ExactInv'
    <3>1. phase' = "sending" => Reached(at)'
      <4>1. phase' = "sending" =>
                /\ Len(Line) + 1 \in Places("FileInitPos")'
                /\ Line'[Len(Line) + 1].pos = at'
        BY <1>10, <2>4, <2>5 DEF Places, FilePlaces
      <4> QED
        BY <4>1 DEF Reached
    <3>2. \A i \in Places("FileComplete")' :
              Size[offer'] > 0 => Whole(offer)' /\ FilePlaces' = {i}
      BY <1>2, <1>6, <2>4, <2>5, <2>6 DEF Whole
    <3> QED
      BY <2>6, <3>1, <3>2 DEF ExactInv
  <2> QED
    BY <2>7, <2>8, <2>9, <2>10, <2>11, <2>12, <2>13 DEF TransferInv
<1>11. CASE phase = "offered" /\ pos = Length[p.id]
  <2> DEFINE q == About("FileComplete", p.id)
  <2>1. /\ q \in ProgramPackage /\ q.type = "FileComplete" /\ q.id = offer
    BY <1>3, <1>4 DEF About, ProgramPackage
  <2>2. Says(<<q>>) /\ phase' = "complete" /\ at' = at
    BY <1>1, <1>11 DEF GetsFileProposeStart
  <2> HIDE DEF q
  <2> QED
    BY <1>3, <1>4, <1>10, <1>11, <2>1, <2>2
<1>12. CASE phase = "offered" /\ pos # Length[p.id]
  <2> DEFINE q == [type |-> "FileInitPos", id |-> p.id, pos |-> pos]
  <2>1. /\ q \in ProgramPackage /\ q.type = "FileInitPos" /\ q.id = offer /\ q.pos = pos
    BY <1>3, <1>4, <1>6 DEF ProgramPackage
  <2>2. Says(<<q>>) /\ phase' = "sending" /\ at' = pos
    BY <1>1, <1>12 DEF GetsFileProposeStart
  <2> HIDE DEF q
  <2> QED
    BY <1>3, <1>4, <1>10, <1>12, <2>1, <2>2
<1> QED
  BY <1>9, <1>11, <1>12

\* The acknowledgement says that the file is whole; nothing of it is left.
LEMMA AckStep ==
    ASSUME TransferInv, GetsFileCompleteAck, UNCHANGED <<fileVars, bufferM>>
    PROVE  TransferInv'
<1> DEFINE p == toTerminal[1]
<1>1. /\ Gets({"FileCompleteAck"}) /\ Head(toTerminal) = p
      /\ 1 \in Answers("FileCompleteAck") /\ 1 \in AnswerPlaces
      /\ AnswerPlaces' = {} /\ toTerminal' \in Seq(TerminalPackage)
      /\ p \in TerminalPackage /\ p.type = "FileCompleteAck"
  BY AnswerGone DEF GetsFileCompleteAck, AnswerTypes, Answers
<1>2. /\ p.id = offer /\ FilePlaces = {} /\ ~Knows /\ phase \in {"complete", "over"}
      /\ Exact /\ Size[offer] > 0 => Whole(offer)
  BY <1>1 DEF TransferInv, TokenInv
<1>3. offer \in Files
  BY <1>1, <1>2 DEF TerminalPackage, PlainAnswers
<1>4. /\ UNCHANGED <<toProgram, left, offer, at, trouble, disk, diskFails, zmodemFileMapM,
                     bufferM>>
      /\ done' = done \cup {offer}
      /\ phase' \in {"choosing", "over"}
  BY <1>1, <1>2 DEF GetsFileCompleteAck, fileVars
<1>5. Line' = Line /\ FilePlaces' = {} /\ ~Knows'
  BY <1>2, <1>4 DEF Line, FilePlaces, Knows
<1>6. DataTypeOK'
  BY <1>1, <1>3, <1>4 DEF TransferInv, DataTypeOK
<1>7. OrderInv' /\ \A type \in FileTypes : Places(type)' = {}
  BY <1>5, NoPlaces
<1>8. KnownInv'
  BY <1>4, <1>5 DEF TransferInv, KnownInv
<1>9. TokenInv'
  BY <1>1, NoAnswers
<1>10. PhaseInv'
  BY <1>4, <1>5, <1>7 DEF PhaseInv, FileTypes
<1>11. DoneInv'
  BY <1>2, <1>4, <1>5 DEF TransferInv, DoneInv, AckedFilesAreWhole, Whole, Exact
<1>12. ExactInv'
  BY <1>4, <1>7 DEF ExactInv, FileTypes
<1> QED
  BY <1>6, <1>7, <1>8, <1>9, <1>10, <1>11, <1>12 DEF TransferInv

\* A block goes on where the last one ended; behind the last one is the end of the
\* file.
LEMMA SendBlockStep ==
    ASSUME TransferInv, SendBlock, UNCHANGED <<fileVars, bufferM>>
    PROVE  TransferInv'
<1> DEFINE len == Min({SBlock, Length[offer] - at})
           content == [type |-> "FileContent", id |-> offer, pos |-> at, len |-> len,
                       intact |-> TRUE]
           end == About("FileComplete", offer)
<1>1. /\ phase = "sending" /\ at' = at + len
      /\ \/ at' = Length[offer] /\ Says(<<content, end>>) /\ phase' = "complete"
         \/ at' # Length[offer] /\ Says(<<content>>) /\ phase' = phase
      /\ UNCHANGED <<toTerminal, left, offer, done, trouble, disk, diskFails, zmodemFileMapM,
                     bufferM>>
  BY DEF SendBlock, fileVars
<1>2. /\ Knows /\ at < Size[offer] /\ AnswerPlaces = {} /\ offer \in Files /\ at \in Nat
      /\ Size[offer] \in Nat /\ Length[offer] = Size[offer]
  BY <1>1, Unanswered, RfAssumption, TransferAssumption
  DEF TransferInv, PhaseInv, Knows, DataTypeOK
<1>3. len \in Nat \ {0} /\ at + len <= Size[offer]
  <2>1. /\ SBlock \in Int /\ SBlock > 0
        /\ Length[offer] - at \in Int /\ Length[offer] - at > 0
    BY <1>2, TransferAssumption
  <2>2. len \in {SBlock, Length[offer] - at} /\ len <= Length[offer] - at
    BY <2>1, MinOfTwo
  <2> HIDE DEF len
  <2> QED
    BY <1>2, <2>1, <2>2
<1>4. /\ content \in ProgramPackage /\ content.type = "FileContent" /\ content.id = offer
      /\ content.pos = at /\ End(content) = at + len /\ content.intact = TRUE
  BY <1>2, <1>3 DEF ProgramPackage, End
<1>5. end \in ProgramPackage /\ end.type = "FileComplete" /\ end.id = offer
  BY <1>2 DEF ProgramPackage, About
<1>6. PICK ps \in {<<content>>, <<content, end>>} :
          /\ Says(ps)
          /\ phase' = IF Len(ps) = 2 THEN "complete" ELSE "sending"
          /\ Len(ps) = 2 <=> at' = Size[offer]
  BY <1>1, <1>2
<1>7. /\ ps \in Seq(ProgramPackage) /\ Len(ps) \in {1, 2} /\ ps[1] = content
      /\ Len(ps) = 2 => ps[2] = end
  <2> HIDE DEF content, end
  <2>1. CASE ps = <<content>>
    BY <1>4, <2>1
  <2>2. CASE ps = <<content, end>>
    BY <1>4, <1>5, <2>2
  <2> QED
    BY <1>6, <2>1, <2>2
<1> HIDE DEF content, end, len
<1> DEFINE L == Len(Line)
<1>8. L \in Nat
  BY LineType DEF TransferInv
<1>9. /\ \A i \in FilePlaces : i \in FilePlaces' /\ Line'[i] = Line[i] /\ i <= L /\ i \in Nat \ {0}
      /\ \A i \in FilePlaces' :
             \/ i \in FilePlaces /\ Line'[i] = Line[i]
             \/ i = L + 1 /\ Line'[i] = content
             \/ i = L + 2 /\ Line'[i] = end /\ Len(ps) = 2
      /\ L + 1 \in FilePlaces' /\ Line'[L + 1] = content
  <2>1. \A i \in FilePlaces : /\ i \in FilePlaces' /\ Line'[i] = Line[i]
                              /\ i <= L /\ i \in Nat \ {0}
    BY <1>1, <1>6, <1>7, SayShifts, Fields DEF TransferInv
  <2>2. \A i \in FilePlaces' :
            \/ i \in FilePlaces /\ Line'[i] = Line[i]
            \/ \E j \in 1..Len(ps) : i = L + j /\ Line'[i] = ps[j]
    BY <1>1, <1>6, <1>7, SayShifts DEF TransferInv
  <2>3. \A j \in 1..Len(ps) : j = 1 \/ (j = 2 /\ Len(ps) = 2)
    <3>1. ASSUME NEW n \in {1, 2}, NEW j \in 1..n
          PROVE  j = 1 \/ (j = 2 /\ n = 2)
      OBVIOUS
    <3> QED
      BY <1>7, <3>1
  <2>4. /\ L + 1 \in FilePlaces' /\ Line'[L + 1] = content
    <3>1. 1 \in 1..Len(ps) /\ ps[1].type \in FileTypes
      BY <1>4, <1>7 DEF FileTypes
    <3>2. L + 1 \in FilePlaces'
      BY <1>1, <1>6, <1>7, <3>1, SayShifts DEF TransferInv
    <3>3. Line'[L + 1] = ps[1]
      BY <1>1, <1>6, <1>7, <3>1, LineSays DEF TransferInv
    <3> QED
      BY <1>7, <3>2, <3>3
  <2> QED
    BY <1>7, <2>1, <2>2, <2>3, <2>4
<1>10. \A i \in FilePlaces : Line[i].type \in {"FileInitPos", "FileContent"}
  <2>1. Places("FileComplete") = {}
    BY <1>1 DEF TransferInv, PhaseInv
  <2>2. Places("FileInfo") = {}
    BY <1>1 DEF TransferInv, PhaseInv
  <2> QED
    BY <2>1, <2>2 DEF FilePlaces, Places, FileTypes
<1>11. \A i \in Places("FileContent") : End(Line[i]) <= at /\ End(Line[i]) \in Nat
  BY <1>1, Fields, PlacesAre DEF TransferInv, PhaseInv, FileTypes
<1>12. \A type \in FileTypes : \A i : i \in Places(type)' <=>
           i \in FilePlaces' /\ Line'[i].type = type
  BY DEF Places, FilePlaces
<1>13. /\ Places("FileInfo")' = {}
       /\ \A i \in Places("FileInitPos")' : i \in Places("FileInitPos") /\ Line'[i] = Line[i]
       /\ \A i \in Places("FileContent")' :
              \/ i \in Places("FileContent") /\ Line'[i] = Line[i]
              \/ i = L + 1 /\ Line'[i] = content
       /\ \A i \in Places("FileComplete")' : i = L + 2 /\ Len(ps) = 2
       /\ \A i \in Places("FileContent") : i \in Places("FileContent")' /\ Line'[i] = Line[i]
       /\ \A i \in Places("FileInitPos") : i \in Places("FileInitPos")' /\ Line'[i] = Line[i]
       /\ L + 1 \in Places("FileContent")'
  <2>1. L + 1 \in Places("FileContent")'
    BY <1>4, <1>9, <1>12 DEF FileTypes
  <2>2. \A i \in FilePlaces' : Line'[i].type # "FileInfo"
    BY <1>4, <1>5, <1>9, <1>10
  <2>3. \A i \in FilePlaces' :
          /\ Line'[i].type = "FileInitPos" => i \in Places("FileInitPos") /\ Line'[i] = Line[i]
          /\ Line'[i].type = "FileContent" =>
                \/ i \in Places("FileContent") /\ Line'[i] = Line[i]
                \/ i = L + 1 /\ Line'[i] = content
          /\ Line'[i].type = "FileComplete" => i = L + 2 /\ Len(ps) = 2
    BY <1>4, <1>5, <1>9, <1>10, PlacesAre DEF FileTypes
  <2>4. \A i \in FilePlaces :
          /\ Line[i].type = "FileContent" => i \in Places("FileContent")'
          /\ Line[i].type = "FileInitPos" => i \in Places("FileInitPos")'
    BY <1>9, <1>12 DEF FileTypes
  <2> QED
    BY <1>9, <1>12, <2>1, <2>2, <2>3, <2>4, PlacesAre DEF FileTypes
<1>14. /\ Knows' /\ File' = File /\ Good' = Good /\ (Exact' <=> Exact) /\ offer' = offer
       /\ at' \in Nat /\ at' > at /\ at' <= Size[offer] /\ at' = End(content)
  BY <1>1, <1>2, <1>3, <1>4 DEF Knows, File, Good, Exact
<1>15. DataTypeOK'
  <2>1. toProgram' \in Seq(ProgramPackage)
    BY <1>1, <1>6, <1>7, LineSays DEF TransferInv
  <2> QED
    BY <2>1, <1>1, <1>6, <1>14 DEF TransferInv, DataTypeOK
<1>16. OrderInv'
  <2>1. \A i \in FilePlaces' : Line'[i].id = offer
    BY <1>4, <1>5, <1>9 DEF TransferInv, OrderInv
  <2>2. \A i, j \in FilePlaces' : i < j =>
            /\ Line'[i].type \notin {"FileInfo", "FileComplete"}
            /\ Line'[j].type \notin {"FileInfo", "FileInitPos"}
    <3> SUFFICES ASSUME NEW i \in FilePlaces', NEW j \in FilePlaces', i < j
                 PROVE  /\ Line'[i].type \notin {"FileInfo", "FileComplete"}
                        /\ Line'[j].type \notin {"FileInfo", "FileInitPos"}
      OBVIOUS
    <3>1. CASE j \in FilePlaces /\ Line'[j] = Line[j]
      <4>1. i \in FilePlaces /\ Line'[i] = Line[i]
        BY <1>8, <1>9, <3>1
      <4> QED
        BY <3>1, <4>1 DEF TransferInv, OrderInv
    <3>2. CASE i \in FilePlaces /\ Line'[i] = Line[i] /\ Line'[j] \in {content, end}
      BY <1>4, <1>5, <1>10, <3>2
    <3>3. CASE i = L + 1 /\ Line'[i] = content /\ Line'[j] \in {content, end}
      BY <1>4, <1>5, <3>3
    <3>4. ~(i = L + 2 /\ j \in {L + 1, L + 2})
      BY <1>8
    <3> QED
      BY <1>8, <1>9, <3>1, <3>2, <3>3, <3>4
  <2>3. \A i, j \in Places("FileContent")' : i < j => End(Line'[i]) <= Line'[j].pos
    <3> SUFFICES ASSUME NEW i \in Places("FileContent")', NEW j \in Places("FileContent")', i < j
                 PROVE  End(Line'[i]) <= Line'[j].pos
      OBVIOUS
    <3>1. CASE j \in Places("FileContent") /\ Line'[j] = Line[j]
      <4>1. i # L + 1
        BY <1>8, <1>9, <3>1, PlacesAre DEF FileTypes
      <4>2. i \in Places("FileContent") /\ Line'[i] = Line[i]
        BY <1>13, <4>1
      <4> QED
        BY <3>1, <4>2 DEF TransferInv, OrderInv
    <3>2. CASE j = L + 1 /\ Line'[j] = content
      <4>1. i \in Places("FileContent") /\ Line'[i] = Line[i]
        BY <1>8, <1>13, <3>2
      <4> QED
        BY <1>4, <1>11, <3>2, <4>1
    <3> QED
      BY <1>13, <3>1, <3>2
  <2>4. \A i \in Places("FileContent")' : End(Line'[i]) <= Size[offer]
    BY <1>13, <1>14 DEF TransferInv, OrderInv
  <2>5. \A i \in Places("FileInitPos")' :
           /\ Line'[i].pos <= Size[offer]
           /\ Line'[i].pos > 0 => disk[offer] = [len |-> Line'[i].pos, sound |-> TRUE]
    BY <1>13 DEF TransferInv, OrderInv
  <2> QED
    BY <1>1, <2>1, <2>2, <2>3, <2>4, <2>5 DEF OrderInv, End
<1>17. KnownInv'
  <2>1. \A i \in FilePlaces' : Line'[i].type # "FileInfo"
    BY <1>12, <1>13 DEF FileTypes
  <2>2. File.open =>
           /\ Places("FileInitPos")' = {}
           /\ \/ Good
              \/ /\ \A i \in Places("FileContent")' : Line'[i].pos > File.pos
                 /\ phase' = "sending" => at' > File.pos
    <3>1. ASSUME File.open
          PROVE  /\ Places("FileInitPos") = {}
                 /\ \/ Good
                    \/ /\ \A i \in Places("FileContent") : Line[i].pos > File.pos
                       /\ at > File.pos
      BY <1>1, <1>2, <3>1 DEF TransferInv, KnownInv
    <3>2. File.pos \in Nat
      BY <1>2 DEF TransferInv, DataTypeOK, File, Knows
    <3> QED
      BY <1>2, <1>4, <1>13, <1>14, <3>1, <3>2
  <2> QED
    BY <1>1, <1>14, <2>1, <2>2 DEF TransferInv, KnownInv
<1>18. TokenInv'
  BY <1>1, <1>2, NoAnswers DEF AnswerPlaces
<1>19. PhaseInv'
  <2>1. \A i \in Places("FileContent")' : End(Line'[i]) <= at'
    BY <1>2, <1>11, <1>13, <1>14
  <2>2. phase' = "sending" => at' < Size[offer]
    BY <1>2, <1>6, <1>14
  <2>3. \A i \in Places("FileComplete")' : phase' \in {"complete", "over"}
    BY <1>6, <1>13
  <2> QED
    BY <1>6, <1>13, <1>14, <2>1, <2>2, <2>3 DEF PhaseInv, End
<1>20. DoneInv'
  <2>1. offer \notin done
    BY <1>2 DEF TransferInv, DoneInv
  <2> QED
    BY <1>1, <1>14, <2>1 DEF TransferInv, DoneInv, AckedFilesAreWhole, Whole
<1>21. ExactInv'
  <2> SUFFICES ASSUME Exact
               PROVE  /\ \A i \in Places("FileContent")' : Line'[i].intact = TRUE
                      /\ \A i \in Places("FileContent")' : Reached(Line[i].pos)'
                      /\ phase' = "sending" => Reached(at)'
                      /\ \A i \in Places("FileComplete")' :
                             \E k \in Places("FileContent")' : End(Line'[k]) = Size[offer']
    BY <1>14 DEF ExactInv, End
  <2>0. \A i \in Places("FileContent")' : Line'[i].intact = TRUE
    BY <1>4, <1>13 DEF TransferInv, ExactInv
  <2>1. ASSUME NEW p, Reached(p)
        PROVE  Reached(p)'
    <3>1. ASSUME NEW k \in Places("FileInitPos"), Line[k].pos = p
          PROVE  Reached(p)'
      BY <1>13, <3>1 DEF Reached
    <3>2. ASSUME NEW k \in Places("FileContent"), End(Line[k]) = p
          PROVE  Reached(p)'
      BY <1>13, <3>2 DEF Reached, End
    <3>3. CASE Knows /\ File.open /\ File.pos = p /\ Good
      BY <1>14, <3>3 DEF Reached
    <3> QED
      BY <2>1, <3>1, <3>2, <3>3 DEF Reached
  <2>2. \A i \in Places("FileContent")' : Reached(Line[i].pos)'
    <3> SUFFICES ASSUME NEW i \in Places("FileContent")', NEW p, p = Line'[i].pos
                 PROVE  Reached(p)'
      BY DEF Reached
    <3>1. Reached(p)
      BY <1>1, <1>4, <1>13 DEF TransferInv, ExactInv
    <3> QED
      BY <2>1, <3>1
  <2>3. Reached(at)'
    <3>1. End(Line'[L + 1]) = at'
      BY <1>9, <1>14
    <3> QED
      BY <1>13, <3>1 DEF Reached, End
  <2>4. \A i \in Places("FileComplete")' :
            \E k \in Places("FileContent")' : End(Line'[k]) = Size[offer']
    BY <1>6, <1>9, <1>13, <1>14
  <2> QED
    BY <2>0, <2>2, <2>3, <2>4
<1> QED
  BY <1>15, <1>16, <1>17, <1>18, <1>19, <1>20, <1>21 DEF TransferInv

-----------------------------------------------------------------------------
(***************************************************************************)
(* initState empties the input buffer.  It runs once, before anything was  *)
(* read: no row of the table leads back to INIT_STATE, and the thread      *)
(* reads nothing before the calls of the first event have returned.        *)
(***************************************************************************)
LaterEvents  == OscEvents \ {"ENTRY_EVT"}
LaterStates  == RfStates \ {"INIT_STATE"}
LaterFuncs   == OscFuncs \ {"initState"}
LaterActions ==
    {ToState(s) : s \in LaterStates} \cup {SeFunc(f) : f \in LaterFuncs}
        \cup {NEW_TIMER, CANCEL_TIMER, IGNORE_EVT, DESTROY, DELETE_SELF}
FirstActions == {SeFunc("initState"), SeFunc("sendInitReq"), NEW_TIMER}

Guards == RfStates \cup {AnyState}
LaterCalls ==
    [op : {"handle", "initialized"}, arg : LaterEvents, guard : Guards]
    \cup [op : {"enter", "change"}, arg : LaterStates, guard : Guards]
    \cup [op : {"func"}, arg : LaterFuncs, guard : Guards]
    \cup [op : {"newTimer", "cancelTimer", "ignore", "destroy", "delete"},
          arg : {"-"}, guard : Guards]
FirstCalls ==
    [op : {"func"}, arg : {"initState", "sendInitReq"}, guard : {"INIT_STATE"}]
    \cup [op : {"newTimer"}, arg : {"-"}, guard : {"INIT_STATE"}]

BootInv ==
    /\ curState \in RfStates /\ jobs \in Seq(LaterEvents)
    /\ initialized \in BOOLEAN
    /\ initialized => agenda \in Seq(LaterCalls)
    /\ ~initialized =>
           /\ bufferM = <<>> /\ curState = "INIT_STATE"
           /\ \/ agenda = <<Call("handle", "ENTRY_EVT")>>
              \/ \E calls \in Seq(FirstCalls) :
                     agenda = calls \o <<Call("initialized", "ENTRY_EVT")>>

\* Rows of later actions.
LEMMA Rows ==
    /\ <<>> \in Seq(LaterActions)
    /\ \A a \in LaterActions : <<a>> \in Seq(LaterActions)
    /\ \A a, b \in LaterActions : <<a, b>> \in Seq(LaterActions)
    /\ \A f \in LaterFuncs : SeFunc(f) \in LaterActions
    /\ \A s \in LaterStates : ToState(s) \in LaterActions
    /\ {NEW_TIMER, CANCEL_TIMER, IGNORE_EVT, DESTROY, DELETE_SELF} \subseteq LaterActions
    /\ {"sendInitReq", "unsupportNotice", "parsePkg", "sendInitRecv", "sendBye"}
           \subseteq LaterFuncs
    /\ LaterStates = {"INIT_RECV_STATE", "HANDLE_DATA_STATE", "END_STATE", "DESTROY_STATE"}
<1>1. LaterStates = {"INIT_RECV_STATE", "HANDLE_DATA_STATE", "END_STATE", "DESTROY_STATE"}
  BY DEF LaterStates, RfStates
<1>2. {"sendInitReq", "unsupportNotice", "parsePkg", "sendInitRecv", "sendBye"}
           \subseteq LaterFuncs
  BY DEF LaterFuncs, OscFuncs
<1>3. /\ \A f \in LaterFuncs : SeFunc(f) \in LaterActions
      /\ \A s \in LaterStates : ToState(s) \in LaterActions
      /\ {NEW_TIMER, CANCEL_TIMER, IGNORE_EVT, DESTROY, DELETE_SELF} \subseteq LaterActions
  BY DEF LaterActions
<1> QED
  BY <1>1, <1>2, <1>3

\* The rows of the states rf comes to.
LEMMA LaterRows ==
    ASSUME NEW s \in RfStates, NEW e \in OscEvents, s # "INIT_STATE" \/ e # "ENTRY_EVT"
    PROVE  Table[s][e] \in Seq(LaterActions)
<1> DEFINE R == RfRules[s]
<1>1. Table[s][e] = IF e \in DOMAIN R THEN R[e] ELSE <<>>
  BY RfAssumption DEF RfTable, Complete
<1>2. CASE s = "INIT_STATE"
  <2>1. R = InitRules(<<ToState("INIT_RECV_STATE")>>, "DESTROY_STATE")
    BY <1>2 DEF RfRules
  <2>2. /\ R.TIMEOUT_EVT \in Seq(LaterActions)
          /\ R.RESET_EVT \in Seq(LaterActions)
          /\ R.NETWORK_INPUT_EVT \in Seq(LaterActions)
          /\ R.NEXT_EVT \in Seq(LaterActions)
          /\ R.DESTROY_EVT \in Seq(LaterActions)
          /\ R.EXIT_EVT \in Seq(LaterActions)
    BY <2>1, Rows DEF InitRules
  <2>3. DOMAIN R = {"ENTRY_EVT", "TIMEOUT_EVT", "RESET_EVT", "NETWORK_INPUT_EVT", "NEXT_EVT",
           "DESTROY_EVT", "EXIT_EVT"}
    BY <2>1 DEF InitRules
  <2> QED
    BY <1>1, <1>2, <2>2, <2>3, Rows
<1>3. CASE s = "INIT_RECV_STATE"
  <2>2. /\ R.ENTRY_EVT \in Seq(LaterActions)
          /\ R.TIMEOUT_EVT \in Seq(LaterActions)
          /\ R.OK_EVT \in Seq(LaterActions)
          /\ R.RESET_EVT \in Seq(LaterActions)
          /\ R.NETWORK_INPUT_EVT \in Seq(LaterActions)
          /\ R.DESTROY_EVT \in Seq(LaterActions)
          /\ R.SEND_DATA_EVT \in Seq(LaterActions)
          /\ R.EXIT_EVT \in Seq(LaterActions)
    BY <1>3, Rows DEF RfRules
  <2>3. DOMAIN R = {"ENTRY_EVT", "TIMEOUT_EVT", "OK_EVT", "RESET_EVT", "NETWORK_INPUT_EVT",
           "DESTROY_EVT", "SEND_DATA_EVT", "EXIT_EVT"}
    BY <1>3 DEF RfRules
  <2> QED
    BY <1>1, <2>2, <2>3, Rows
<1>4. CASE s = "HANDLE_DATA_STATE"
  <2>2. /\ R.ENTRY_EVT \in Seq(LaterActions)
          /\ R.TIMEOUT_EVT \in Seq(LaterActions)
          /\ R.NETWORK_INPUT_EVT \in Seq(LaterActions)
          /\ R.DESTROY_EVT \in Seq(LaterActions)
          /\ R.RESET_EVT \in Seq(LaterActions)
          /\ R.EXIT_EVT \in Seq(LaterActions)
    BY <1>4, Rows DEF RfRules
  <2>3. DOMAIN R = {"ENTRY_EVT", "TIMEOUT_EVT", "NETWORK_INPUT_EVT", "DESTROY_EVT",
           "RESET_EVT", "EXIT_EVT"}
    BY <1>4 DEF RfRules
  <2> QED
    BY <1>1, <2>2, <2>3, Rows
<1>5. CASE s = "END_STATE"
  <2>1. R = EndRules
    BY <1>5 DEF RfRules
  <2>2. /\ R.ENTRY_EVT \in Seq(LaterActions)
          /\ R.TIMEOUT_EVT \in Seq(LaterActions)
          /\ R.NETWORK_INPUT_EVT \in Seq(LaterActions)
          /\ R.DESTROY_EVT \in Seq(LaterActions)
          /\ R.RESET_EVT \in Seq(LaterActions)
          /\ R.NEXT_EVT \in Seq(LaterActions)
          /\ R.EXIT_EVT \in Seq(LaterActions)
    BY <2>1, Rows DEF EndRules
  <2>3. DOMAIN R = {"ENTRY_EVT", "TIMEOUT_EVT", "NETWORK_INPUT_EVT", "DESTROY_EVT",
           "RESET_EVT", "NEXT_EVT", "EXIT_EVT"}
    BY <2>1 DEF EndRules
  <2> QED
    BY <1>1, <2>2, <2>3, Rows
<1>6. CASE s = "DESTROY_STATE"
  <2>1. R = DestroyRules
    BY <1>6 DEF RfRules
  <2>2. /\ R.ENTRY_EVT \in Seq(LaterActions)
          /\ R.RESET_EVT \in Seq(LaterActions)
          /\ R.DESTROY_EVT \in Seq(LaterActions)
    BY <2>1, Rows DEF DestroyRules
  <2>3. DOMAIN R = {"ENTRY_EVT", "RESET_EVT", "DESTROY_EVT"}
    BY <2>1 DEF DestroyRules
  <2> QED
    BY <1>1, <2>2, <2>3, Rows
<1> QED
  BY <1>2, <1>3, <1>4, <1>5, <1>6 DEF RfStates

\* The row of the first event.
LEMMA FirstRow == Table["INIT_STATE"]["ENTRY_EVT"] \in Seq(FirstActions)
<1>1. Table["INIT_STATE"]["ENTRY_EVT"] = Complete(RfRules["INIT_STATE"])["ENTRY_EVT"]
  BY RfAssumption DEF RfTable, RfStates
<1>2. RfRules["INIT_STATE"] = InitRules(<<ToState("INIT_RECV_STATE")>>, "DESTROY_STATE")
  BY DEF RfRules
<1>3. Complete(RfRules["INIT_STATE"])["ENTRY_EVT"] =
          <<SeFunc("initState"), SeFunc("sendInitReq"), NEW_TIMER>>
  BY <1>2 DEF Complete, InitRules, OscEvents
<1> QED
  BY <1>1, <1>3 DEF FirstActions

\* The calls the rows stand for.
LEMMA LaterCallsOf ==
    ASSUME NEW acts \in Seq(LaterActions), NEW g \in Guards
    PROVE  Calls(acts, g) \in Seq(LaterCalls)
<1>1. Len(acts) \in Nat /\ \A i \in 1..Len(acts) : acts[i] \in LaterActions
  BY LenProperties, ElementOfSeq
<1>2. \A a \in LaterActions : [op |-> a.op, arg |-> a.arg, guard |-> g] \in LaterCalls
  BY DEF LaterActions, LaterCalls, ToState, SeFunc, NEW_TIMER, CANCEL_TIMER, IGNORE_EVT,
         DESTROY, DELETE_SELF
<1>3. Calls(acts, g) \in [1..Len(acts) -> LaterCalls]
  BY <1>1, <1>2 DEF Calls
<1> QED
  BY <1>1, <1>3 DEF Seq

\* The calls of a list of the first state are those of its entry.
LEMMA FirstCallsOf ==
    ASSUME NEW acts \in Seq(FirstActions)
    PROVE  Calls(acts, "INIT_STATE") \in Seq(FirstCalls)
<1>1. Len(acts) \in Nat /\ \A i \in 1..Len(acts) : acts[i] \in FirstActions
  BY LenProperties, ElementOfSeq
<1>2. \A a \in FirstActions :
          [op |-> a.op, arg |-> a.arg, guard |-> "INIT_STATE"] \in FirstCalls
  BY DEF FirstActions, FirstCalls, SeFunc, NEW_TIMER
<1>3. Calls(acts, "INIT_STATE") \in [1..Len(acts) -> FirstCalls]
  BY <1>1, <1>2 DEF Calls
<1> QED
  BY <1>1, <1>3 DEF Seq

\* The next call, once rf is initialized and before.
LEMMA LaterHead ==
    ASSUME BootInv, initialized, agenda # <<>>
    PROVE  Head(agenda) \in LaterCalls /\ Rest \in Seq(LaterCalls)
BY HeadTailProperties DEF BootInv, Rest

\* Before rf is initialized the next call is one of the entry, or marks its end.
LEMMA FirstHead ==
    ASSUME BootInv, ~initialized
    PROVE  /\ agenda # <<>>
           /\ Head(agenda) \in FirstCalls =>
                  \E calls \in Seq(FirstCalls) :
                      Rest = calls \o <<Call("initialized", "ENTRY_EVT")>>
           /\ Head(agenda) \notin FirstCalls =>
                  Rest = <<>> /\ Head(agenda) \in {Call("handle", "ENTRY_EVT"),
                                                   Call("initialized", "ENTRY_EVT")}
<1> DEFINE last == Call("initialized", "ENTRY_EVT")
<1>1. last \notin FirstCalls /\ Call("handle", "ENTRY_EVT") \notin FirstCalls
  BY DEF Call, FirstCalls
<1>2. CASE agenda = <<Call("handle", "ENTRY_EVT")>>
  <2>1. agenda # <<>> /\ Head(agenda) = Call("handle", "ENTRY_EVT") /\ Rest = <<>>
    BY <1>2 DEF Rest
  <2> QED
    BY <1>1, <2>1
<1>3. ASSUME NEW calls \in Seq(FirstCalls), agenda = calls \o <<last>>
      PROVE  /\ agenda # <<>>
             /\ \/ /\ Head(agenda) \in FirstCalls
                   /\ \E more \in Seq(FirstCalls) : Rest = more \o <<last>>
                \/ Head(agenda) = last /\ Rest = <<>>
  <2> HIDE DEF last
  <2>1. CASE calls = <<>>
    <3>1. agenda = <<last>>
      BY <1>3, <2>1
    <3> QED
      BY <3>1 DEF Rest
  <2>2. CASE calls # <<>>
    <3>1. /\ agenda # <<>> /\ Head(agenda) = Head(calls) /\ Rest = Tail(calls) \o <<last>>
      BY <1>3, <2>2 DEF Rest
    <3>2. Head(calls) \in FirstCalls /\ Tail(calls) \in Seq(FirstCalls)
      BY <2>2, HeadTailProperties
    <3> QED
      BY <3>1, <3>2
  <2> QED
    BY <2>1, <2>2
<1>4. agenda = <<Call("handle", "ENTRY_EVT")>> \/ \E calls \in Seq(FirstCalls) : agenda = calls \o <<last>>
  BY DEF BootInv
<1> HIDE DEF last
<1>5. CASE agenda = <<Call("handle", "ENTRY_EVT")>>
  BY <1>2, <1>5 DEF last
<1>6. CASE \E calls \in Seq(FirstCalls) : agenda = calls \o <<last>>
  <2>1. PICK calls \in Seq(FirstCalls) : agenda = calls \o <<last>>
    BY <1>6
  <2>2. /\ agenda # <<>>
        /\ \/ /\ Head(agenda) \in FirstCalls
              /\ \E more \in Seq(FirstCalls) : Rest = more \o <<last>>
           \/ Head(agenda) = last /\ Rest = <<>>
    BY <1>3, <2>1
  <2> QED
    BY <1>1, <2>2 DEF last
<1> QED
  BY <1>4, <1>5, <1>6

\* A session function that posts later events es and leaves later calls behind.
LEMMA LaterFunction ==
    ASSUME BootInv, initialized, agenda # <<>>,
           NEW t, NEW es \in Seq(LaterEvents), NEW calls \in Seq(LaterCalls),
           FuncReturns(t, Posted(jobs, es), calls) \/ FuncReturns(t, jobs, calls)
    PROVE  BootInv'
<1>1. Posted(jobs, es) \in Seq(LaterEvents) /\ jobs \in Seq(LaterEvents)
  BY ConcatProperties DEF BootInv, Posted
<1>2. calls \o Rest \in Seq(LaterCalls)
  BY LaterHead, ConcatProperties
<1> QED
  BY <1>1, <1>2 DEF BootInv, FuncReturns

\* What functions leave behind.
LEMMA LaterLeft ==
    /\ GoesOn \in Seq(LaterCalls) /\ <<>> \in Seq(LaterCalls)
    /\ <<Call("handle", "RESET_EVT")>> \o GoesOn \in Seq(LaterCalls)
    /\ \A e \in LaterEvents : <<e>> \in Seq(LaterEvents)
    /\ <<>> \in Seq(LaterEvents)
    /\ {"RESET_EVT", "NEXT_EVT", "NETWORK_INPUT_EVT", "DESTROY_EVT", "TIMEOUT_EVT"}
           \subseteq LaterEvents
<1>1. {"RESET_EVT", "NEXT_EVT", "NETWORK_INPUT_EVT", "DESTROY_EVT", "TIMEOUT_EVT"}
           \subseteq LaterEvents
  BY DEF LaterEvents, OscEvents
<1>2. Call("handle", "RESET_EVT") \in LaterCalls /\ Call("func", "parsePkg") \in LaterCalls
  BY <1>1 DEF Call, LaterCalls, LaterFuncs, OscFuncs, Guards
<1>3. GoesOn \in Seq(LaterCalls)
  BY <1>2 DEF GoesOn
<1>4. <<Call("handle", "RESET_EVT")>> \in Seq(LaterCalls)
  BY <1>2
<1> QED
  BY <1>1, <1>3, <1>4, ConcatProperties

\* Only the two functions of the first event run before it was handled, and
\* initState not afterwards.
LEMMA RunningWhen ==
    ASSUME BootInv, NEW f, Running(f)
    PROVE  /\ agenda # <<>>
           /\ initialized => f # "initState"
           /\ ~initialized => f \in {"initState", "sendInitReq"}
<1>1. agenda # <<>> /\ Head(agenda).op = "func" /\ Head(agenda).arg = f
  BY DEF Running, Calling, Arg
<1>2. initialized => f # "initState"
  BY <1>1, LaterHead DEF LaterCalls, LaterFuncs
<1>3. ~initialized => f \in {"initState", "sendInitReq"}
  BY <1>1, FirstHead DEF FirstCalls, Call
<1> QED
  BY <1>1, <1>2, <1>3

\* The session functions of rf.
LEMMA BootFunctions ==
    ASSUME BootInv, SessionFunction
    PROVE  BootInv'
<1> USE LaterLeft
<1>1. CASE InitState
  <2>1. ~initialized /\ bufferM = <<>> /\ bufferM' = <<>>
    BY <1>1, RunningWhen DEF InitState, BootInv
  <2>2. Head(agenda) \in FirstCalls
    BY <1>1, <2>1, FirstHead DEF InitState, Running, Calling, Call
  <2>3. PICK calls \in Seq(FirstCalls) : Rest = calls \o <<Call("initialized", "ENTRY_EVT")>>
    BY <2>1, <2>2, FirstHead
  <2>4. Rest \in Seq(FirstCalls \cup {Call("initialized", "ENTRY_EVT")})
    BY <2>3
  <2>5. agenda' = Rest
    BY <1>1, <2>4, ConcatEmptySeq DEF InitState, Returns, FuncReturns
  <2> QED
    BY <1>1, <2>1, <2>3, <2>5 DEF BootInv, InitState, Returns, FuncReturns
<1>2. CASE SendInitReq
  <2>1. CASE ~initialized
    <3>1. Head(agenda) \in FirstCalls
      BY <1>2, <2>1, FirstHead DEF SendInitReq, SendsAndReturns, Running, Calling, Call
    <3>2. PICK calls \in Seq(FirstCalls) : Rest = calls \o <<Call("initialized", "ENTRY_EVT")>>
      BY <2>1, <3>1, FirstHead
    <3>3. Rest \in Seq(FirstCalls \cup {Call("initialized", "ENTRY_EVT")})
      BY <3>2
    <3>4. agenda' = Rest
      BY <1>2, <3>3, ConcatEmptySeq DEF SendInitReq, SendsAndReturns, Returns, FuncReturns
    <3> QED
      BY <1>2, <2>1, <3>2, <3>4 DEF BootInv, SendInitReq, SendsAndReturns, Returns, FuncReturns
  <2>2. CASE initialized
    BY <1>2, <2>2, RunningWhen, LaterFunction DEF SendInitReq, SendsAndReturns, Returns
  <2> QED
    BY <2>1, <2>2
<1>3. ASSUME NEW f, f \notin {"initState", "sendInitReq"}, Running(f)
      PROVE  initialized /\ agenda # <<>>
  BY <1>3, RunningWhen
<1>4. CASE UnsupportNotice \/ SendBye \/ SendInitRecv
  <2>1. initialized /\ agenda # <<>>
    BY <1>3, <1>4 DEF UnsupportNotice, SendBye, SendInitRecv, SendsAndReturns
  <2>2. Returns
    BY <1>4 DEF UnsupportNotice, SendBye, SendInitRecv, SendsAndReturns
  <2> QED
    BY <2>1, <2>2, LaterFunction DEF Returns
<1>5. CASE Running("parsePkg")
  <2>1. initialized /\ agenda # <<>>
    BY <1>3, <1>5
  <2>2. CASE ParsesNothing
    BY <2>1, <2>2, LaterFunction DEF ParsesNothing, Returns
  <2>3. CASE ParsesBroken
    BY <2>1, <2>3, LaterFunction DEF ParsesBroken, ReturnsPosting
  <2>4. ASSUME NEW es \in Seq(LaterEvents), Handled(es)
        PROVE  BootInv'
    BY <2>1, <2>4, LaterFunction DEF Handled
  <2>5. CASE Refused
    BY <2>1, <2>5, LaterFunction DEF Refused
  <2>6. CASE HandlesHeartbeat
    BY <2>1, <2>6, LaterFunction DEF HandlesHeartbeat
  <2>7. CASE HandlesInitRsp \/ HandlesEmptyDir \/ HandlesErrMsg \/ HandlesBye \/ HandlesByeBye
    BY <2>4, <2>7 DEF HandlesInitRsp, HandlesEmptyDir, HandlesErrMsg, HandlesBye, HandlesByeBye
  <2>8. CASE HandlesFileInfo \/ HandlesFileInitPos \/ HandlesFileContent \/ HandlesFileComplete
    <3>1. Handled(<<>>) \/ Refused
      BY <2>8 DEF HandlesFileInfo, HandlesFileInitPos, HandlesFileContent, HandlesFileComplete
    <3> QED
      BY <2>4, <2>5, <3>1
  <2>9. CASE InitState \/ SendInitReq \/ UnsupportNotice \/ SendBye \/ SendInitRecv
    BY <1>1, <1>2, <1>4, <2>9
  <2> QED
    BY <2>2, <2>3, <2>6, <2>7, <2>8, <2>9 DEF SessionFunction, CommonFunction
<1> QED
  BY <1>1, <1>2, <1>4, <1>5
  DEF SessionFunction, CommonFunction, ParsesNothing, ParsesBroken, HandlesInitRsp,
      HandlesEmptyDir, HandlesErrMsg, HandlesHeartbeat, HandlesBye, HandlesByeBye,
      HandlesFileInfo, HandlesFileInitPos, HandlesFileContent, HandlesFileComplete, Parses

\* What leaves the calls, the queue and the buffer alone.
LEMMA BootStill ==
    ASSUME BootInv, UNCHANGED <<curState, initialized, jobs, agenda, bufferM>>
    PROVE  BootInv'
BY DEF BootInv

\* What the thread does besides.
LEMMA BootEngine ==
    ASSUME BootInv, WorkerStep \/ OscCallStep, UNCHANGED bufferM
    PROVE  BootInv'
<1> USE LaterLeft
<1>1. CASE PollJob
  <2>1. initialized /\ Head(jobs) \in LaterEvents /\ Tail(jobs) \in Seq(LaterEvents)
    BY <1>1, FirstHead, HeadTailProperties DEF PollJob, Idle, BootInv
  <2>2. Call("handle", Head(jobs)) \in LaterCalls
    BY <2>1 DEF Call, LaterCalls, Guards
  <2> QED
    BY <1>1, <2>1, <2>2 DEF PollJob, BootInv
<1>2. CASE RunFreedJob \/ LeaveLoop \/ NextTurn
  BY <1>2, BootStill DEF RunFreedJob, LeaveLoop, NextTurn
<1>3. CASE IgnoreRest
  <2>1. initialized
    <3>1. SUFFICES ASSUME ~initialized
                   PROVE  FALSE
      BY DEF BootInv
    <3>2. curState = "INIT_STATE" /\ Head(agenda).guard \notin {AnyState, curState}
      BY <1>3, <3>1 DEF IgnoreRest, BootInv
    <3> QED
      BY <3>1, <3>2, FirstHead DEF FirstCalls, Call
  <2> QED
    BY <1>3, <2>1, LaterHead DEF IgnoreRest, BootInv
<1>4. CASE EnterFirstState
  <2>1. agenda # <<>> /\ ~initialized /\ Head(agenda).op = "handle"
    BY <1>4 DEF EnterFirstState, Calling
  <2>2. Head(agenda) = Call("handle", "ENTRY_EVT") /\ Rest = <<>>
    BY <2>1, FirstHead DEF FirstCalls, Call
  <2>3. Arg = "ENTRY_EVT" /\ curState = "INIT_STATE"
    BY <2>1, <2>2 DEF Arg, Call, BootInv
  <2> DEFINE calls == Calls(Table["INIT_STATE"]["ENTRY_EVT"], "INIT_STATE")
  <2>4. calls \in Seq(FirstCalls)
    BY FirstRow, FirstCallsOf
  <2>5. agenda' = calls \o <<Call("initialized", "ENTRY_EVT")>> \o <<>>
    BY <1>4, <2>2, <2>3 DEF EnterFirstState
  <2> HIDE DEF calls
  <2>6. agenda' = calls \o <<Call("initialized", "ENTRY_EVT")>>
    BY <2>4, <2>5
  <2> QED
    BY <1>4, <2>1, <2>3, <2>4, <2>6 DEF EnterFirstState, BootInv
<1>5. CASE MarkInitialized
  <2>1. CASE initialized
    <3>1. Head(agenda).op = "initialized" /\ agenda # <<>> /\ Head(agenda).arg = Arg
      BY <1>5 DEF MarkInitialized, Calling, Arg
    <3>2. Arg \in LaterEvents /\ Arg # "ENTRY_EVT"
      BY <2>1, <3>1, LaterHead DEF LaterCalls, LaterEvents
    <3>3. Call("handle", Arg) \in LaterCalls
      BY <3>2 DEF Call, LaterCalls, Guards
    <3>4. <<Call("handle", Arg)>> \o Rest \in Seq(LaterCalls)
      BY <2>1, <3>1, <3>3, LaterHead, ConcatProperties
    <3> QED
      BY <1>5, <3>2, <3>4 DEF MarkInitialized, BootInv
  <2>2. CASE ~initialized
    <3>1. Head(agenda).op = "initialized" /\ Head(agenda).arg = Arg
      BY <1>5 DEF MarkInitialized, Calling, Arg
    <3>2. Arg = "ENTRY_EVT" /\ Rest = <<>>
      BY <2>2, <3>1, FirstHead DEF FirstCalls, Call
    <3> QED
      BY <1>5, <3>2 DEF MarkInitialized, BootInv
  <2> QED
    BY <2>1, <2>2
<1>6. CASE HandleEvent
  <2>1. /\ initialized /\ agenda # <<>> /\ Head(agenda).op = "handle" /\ Head(agenda).arg = Arg
        /\ curState \in RfStates
    BY <1>6 DEF HandleEvent, Calling, Arg, BootInv
  <2>2. Arg \in LaterEvents
    BY <2>1, LaterHead DEF LaterCalls
  <2>3. Table[curState][Arg] \in Seq(LaterActions)
    BY <2>1, <2>2, LaterRows DEF LaterEvents
  <2>4. Calls(Table[curState][Arg], curState) \o Rest \in Seq(LaterCalls)
    BY <2>1, <2>3, LaterCallsOf, LaterHead, ConcatProperties DEF Guards
  <2> QED
    BY <1>6, <2>1, <2>4 DEF HandleEvent, BootInv
<1>7. CASE HandleUndefinedEvent
  <2>1. initialized /\ agenda # <<>>
    BY <1>7 DEF HandleUndefinedEvent, Calling
  <2>2. Call("change", LastState) \in LaterCalls
    BY RfAssumption DEF Call, LaterCalls, LaterStates, RfStates, Guards
  <2>3. <<Call("change", LastState)>> \o Rest \in Seq(LaterCalls)
    BY <2>1, <2>2, LaterHead, ConcatProperties
  <2> QED
    BY <1>7, <2>1, <2>3 DEF HandleUndefinedEvent, BootInv
<1>8. ASSUME NEW op \in {"change", "enter", "cancelTimer", "ignore", "destroy", "delete"},
             Calling(op)
      PROVE  initialized /\ agenda # <<>> /\ Head(agenda).op = op /\ Head(agenda).arg = Arg
  <2>1. agenda # <<>> /\ Head(agenda).op = op /\ Head(agenda).arg = Arg
    BY <1>8 DEF Calling, Arg
  <2>2. ~initialized => FALSE
    BY <2>1, FirstHead DEF FirstCalls, Call
  <2> QED
    BY <2>1, <2>2 DEF BootInv
<1>9. CASE ChangeState
  <2>1. /\ initialized /\ agenda # <<>> /\ Head(agenda).op = "change" /\ Head(agenda).arg = Arg
        /\ curState \in RfStates
    BY <1>8, <1>9 DEF ChangeState, BootInv
  <2>2. Arg \in LaterStates
    BY <2>1, LaterHead DEF LaterCalls
  <2>3. Call("enter", Arg) \in LaterCalls
    BY <2>2 DEF Call, LaterCalls, Guards
  <2>4. Calls(Table[curState]["EXIT_EVT"], AnyState) \in Seq(LaterCalls)
    BY <2>1, LaterRows, LaterCallsOf DEF OscEvents, Guards
  <2>5. Calls(Table[curState]["EXIT_EVT"], AnyState) \o <<Call("enter", Arg)>> \o Rest
            \in Seq(LaterCalls)
    BY <2>1, <2>3, <2>4, LaterHead, ConcatProperties
  <2> QED
    BY <1>9, <2>1, <2>5 DEF ChangeState, BootInv
<1>10. CASE EnterState
  <2>1. /\ initialized /\ agenda # <<>> /\ Head(agenda).op = "enter" /\ Head(agenda).arg = Arg
    BY <1>8, <1>10 DEF EnterState
  <2>2. Arg \in LaterStates
    BY <2>1, LaterHead DEF LaterCalls
  <2>3. Arg \in RfStates /\ Arg # "INIT_STATE"
    BY <2>2 DEF LaterStates
  <2>4. Calls(Table[Arg]["ENTRY_EVT"], AnyState) \in Seq(LaterCalls)
    BY <2>3, LaterRows, LaterCallsOf DEF OscEvents, Guards
  <2>5. Calls(Table[Arg]["ENTRY_EVT"], AnyState) \o Rest \in Seq(LaterCalls)
    BY <2>1, <2>4, LaterHead, ConcatProperties
  <2> QED
    BY <1>10, <2>1, <2>3, <2>5 DEF EnterState, BootInv
<1>11. CASE NewTimer
  <2>1. agenda # <<>> /\ Head(agenda).op = "newTimer"
    BY <1>11 DEF NewTimer, Calling
  <2>2. CASE initialized
    BY <1>11, <2>1, <2>2, LaterHead DEF NewTimer, BootInv
  <2>3. CASE ~initialized
    <3>1. \E calls \in Seq(FirstCalls) : Rest = calls \o <<Call("initialized", "ENTRY_EVT")>>
      <4>1. Head(agenda) \in FirstCalls
        BY <2>1, <2>3, FirstHead DEF Call
      <4> QED
        BY <2>3, <4>1, FirstHead
    <3> QED
      BY <1>11, <2>3, <3>1 DEF NewTimer, BootInv
  <2> QED
    BY <2>2, <2>3 DEF BootInv
<1>12. CASE CancelTimer \/ IgnoreEvent \/ DeleteSelf
  <2>1. initialized /\ agenda # <<>>
    BY <1>8, <1>12 DEF CancelTimer, IgnoreEvent, DeleteSelf
  <2> QED
    BY <1>12, <2>1, LaterHead DEF CancelTimer, IgnoreEvent, DeleteSelf, BootInv
<1>13. CASE OscDestroy
  <2>1. initialized /\ agenda # <<>>
    BY <1>8, <1>13 DEF OscDestroy
  <2>2. jobs' \in Seq(LaterEvents)
    BY <1>13, ConcatProperties DEF OscDestroy, Posted, BootInv
  <2> QED
    BY <1>13, <2>1, <2>2, LaterHead DEF OscDestroy, BootInv
<1> QED
  BY <1>1, <1>2, <1>3, <1>4, <1>5, <1>6, <1>7, <1>9, <1>10, <1>11, <1>12, <1>13
  DEF WorkerStep, OscCallStep

\* Every step.
LEMMA BootNext == BootInv /\ [Next]_transferVars => BootInv'
<1> SUFFICES ASSUME BootInv, [Next]_transferVars
             PROVE  BootInv'
  OBVIOUS
<1> USE LaterLeft
<1>1. CASE RfThread
  <2>1. CASE EngineStep
    BY <2>1, BootEngine DEF EngineStep
  <2>2. CASE SessionFunction
    BY <2>2, BootFunctions
  <2> QED
    BY <1>1, <2>1, <2>2 DEF RfThread, ThreadStep
<1>2. ASSUME agenda = <<>>
      PROVE  initialized
  BY <1>2, FirstHead DEF BootInv
<1>3. CASE RfRead \/ RfSignal
  <2>1. PICK es \in Seq(LaterEvents) : jobs' = Posted(jobs, es)
    BY <1>3 DEF RfRead, ReadTick, RfSignal, SignalTick, FireInputTimer
  <2>2. jobs' \in Seq(LaterEvents)
    BY <2>1, ConcatProperties DEF BootInv, Posted
  <2>3. initialized /\ UNCHANGED <<curState, initialized, agenda>>
    BY <1>2, <1>3 DEF RfRead, ReadTick, RfSignal, SignalTick, FireInputTimer, Idle
  <2> QED
    BY <2>2, <2>3 DEF BootInv
<1>4. CASE RfTimer
  <2>1. initialized /\ UNCHANGED <<curState, initialized, jobs>>
    BY <1>2, <1>4 DEF RfTimer, SessionTimer, FireFsmTimer, Idle
  <2>2. Call("handle", "TIMEOUT_EVT") \in LaterCalls
    BY DEF Call, LaterCalls, Guards
  <2>3. agenda' = <<Call("handle", "TIMEOUT_EVT")>>
    BY <1>4 DEF RfTimer, SessionTimer, FireFsmTimer
  <2> QED
    BY <2>1, <2>2, <2>3 DEF BootInv
<1>5. CASE Interrupt \/ PeerStep
  BY <1>5, BootStill DEF Interrupt, SigHandler, PeerStep, engineVars
<1>6. CASE UNCHANGED transferVars
  BY <1>6, BootStill DEF transferVars, rfVars, oscVars, engineVars
<1> QED
  BY <1>1, <1>3, <1>4, <1>5, <1>6 DEF Next

-----------------------------------------------------------------------------
\* A step of rf's thread.
LEMMA ThreadKeeps ==
    ASSUME TransferInv, BootInv, RfThread
    PROVE  TransferInv'
<1>1. UNCHANGED senderVars
  BY DEF RfThread
<1>2. \A type : type \in PlainAnswers /\ Sends(Plain(type)) =>
          UNCHANGED toTerminal \/ \E t \in PlainAnswers : Sends(Plain(t))
  OBVIOUS
<1>3. DataTypeOK
  BY DEF TransferInv
<1>4. ASSUME UNCHANGED <<bufferM, toProgram, fileVars>>,
             UNCHANGED toTerminal \/ \E type \in PlainAnswers : Sends(Plain(type))
      PROVE  TransferInv'
  BY <1>1, <1>3, <1>4, StillStep DEF DataTypeOK, Line
<1>5. CASE EngineStep /\ UNCHANGED fileVars
  BY <1>4, <1>5 DEF EngineStep, lineVars
<1>6. CASE InitState /\ UNCHANGED fileVars
  <2>1. bufferM = <<>> /\ bufferM' = <<>>
    BY <1>6, RunningWhen DEF InitState, BootInv
  <2> QED
    BY <1>4, <1>6, <2>1 DEF InitState, lineVars
<1>7. CASE SendInitReq /\ UNCHANGED fileVars
  BY <1>4, <1>7 DEF SendInitReq, SendsAndReturns, PlainAnswers
<1>8. CASE UnsupportNotice /\ UNCHANGED fileVars
  BY <1>4, <1>8 DEF UnsupportNotice, SendsAndReturns
<1>9. CASE SendBye /\ UNCHANGED fileVars
  BY <1>4, <1>9 DEF SendBye, SendsAndReturns, PlainAnswers
<1>10. CASE SendInitRecv
  BY <1>4, <1>10 DEF SendInitRecv, SendsAndReturns, PlainAnswers
<1>11. CASE ParsesNothing /\ UNCHANGED fileVars
  BY <1>4, <1>11 DEF ParsesNothing, lineVars
<1>12. ASSUME bufferM # <<>>, P.type \notin FileTypes, bufferM' = Tail(bufferM),
              UNCHANGED <<toProgram, fileVars>>,
              UNCHANGED toTerminal \/ \E type \in PlainAnswers : Sends(Plain(type))
       PROVE  TransferInv'
  BY <1>1, <1>12, PopStep
<1>13. CASE ParsesBroken /\ UNCHANGED fileVars
  BY <1>12, <1>13 DEF ParsesBroken, Parses, P, FileTypes, lineVars
<1>14. CASE HandlesInitRsp /\ UNCHANGED fileVars
  BY <1>12, <1>14 DEF HandlesInitRsp, Handled, Parses, P, FileTypes, PlainAnswers
<1>15. CASE HandlesEmptyDir /\ UNCHANGED fileVars
  BY <1>12, <1>15 DEF HandlesEmptyDir, Handled, Parses, P, FileTypes
<1>16. CASE HandlesErrMsg /\ UNCHANGED fileVars
  BY <1>12, <1>16 DEF HandlesErrMsg, Handled, Parses, P, FileTypes
<1>17. CASE HandlesHeartbeat /\ UNCHANGED fileVars
  BY <1>12, <1>17 DEF HandlesHeartbeat, Parses, P, FileTypes, lineVars
<1>18. CASE HandlesBye /\ UNCHANGED fileVars
  BY <1>12, <1>18 DEF HandlesBye, Handled, Parses, P, FileTypes, PlainAnswers
<1>19. CASE HandlesByeBye /\ UNCHANGED fileVars
  BY <1>12, <1>19 DEF HandlesByeBye, Handled, Parses, P, FileTypes
<1>20. CASE HandlesFileInfo \/ HandlesFileInitPos \/ HandlesFileContent \/ HandlesFileComplete
  BY <1>1, <1>20, FileInfoStep, FileInitPosStep, FileContentStep, FileCompleteStep
<1> QED
  BY <1>5, <1>6, <1>7, <1>8, <1>9, <1>10, <1>11, <1>13, <1>14, <1>15, <1>16, <1>17, <1>18,
     <1>19, <1>20
  DEF RfThread, ThreadStep, SessionFunction, CommonFunction

\* A step of the terminal.
LEMMA PeerKeeps ==
    ASSUME TransferInv, PeerStep
    PROVE  TransferInv'
<1>1. UNCHANGED <<fileVars, bufferM>>
  BY DEF PeerStep
<1>2. ASSUME UNCHANGED <<left, offer, at, done>>,
             NEW ps \in Seq([type : PlainTypes]), Says(ps),
             UNCHANGED toTerminal \/ \E types : Gets(types),
             \/ phase' = phase \/ phase' = "over"
             \/ phase = "ready" /\ phase' = "choosing",
             Exact' => Exact
      PROVE  TransferInv'
  BY <1>1, <1>2, SayStep
<1>3. \A type \in PlainTypes : <<Plain(type)>> \in Seq([type : PlainTypes])
  BY DEF Plain
<1>4. UNCHANGED trouble => (Exact' <=> Exact)
  BY <1>1 DEF Exact, fileVars
<1>5. <<>> \in Seq([type : PlainTypes]) /\ (UNCHANGED toProgram => Says(<<>>))
  BY ConcatEmptySeq DEF TransferInv, DataTypeOK, Says
<1>6. CASE GetsInitReq
  BY <1>2, <1>3, <1>4, <1>6 DEF GetsInitReq, senderVars, PlainTypes
<1>7. CASE GetsInitRecv
  BY <1>2, <1>4, <1>5, <1>7 DEF GetsInitRecv
<1>8. CASE Finish
  BY <1>2, <1>3, <1>4, <1>8 DEF Finish, PlainTypes
<1>9. CASE GetsBye
  BY <1>2, <1>3, <1>4, <1>9 DEF GetsBye, PlainTypes
<1>10. CASE GetsOther
  BY <1>2, <1>4, <1>5, <1>10 DEF GetsOther, senderVars
<1>11. CASE Cancel
  <2>1. <<Plain("ErrMsg"), Plain("Bye")>> \in Seq([type : PlainTypes])
    BY DEF Plain, PlainTypes
  <2>2. Exact' => Exact
    BY <1>1, <1>11 DEF Cancel, Disturbed, Exact, fileVars
  <2> QED
    BY <1>2, <1>11, <2>1, <2>2 DEF Cancel
<1>12. CASE Heartbeat
  <2>1. Exact' => Exact
    BY <1>1, <1>12 DEF Heartbeat, Disturbed, Exact, fileVars
  <2> QED
    BY <1>2, <1>3, <1>12, <2>1 DEF Heartbeat, PlainTypes
<1>13. CASE Damage
  <2> PICK q \in Damaged(Head(toProgram)) : toProgram' = <<q>> \o Tail(toProgram)
    BY <1>13 DEF Damage
  <2>1. /\ toProgram # <<>> /\ toProgram' = <<q>> \o Tail(toProgram)
        /\ UNCHANGED <<toTerminal, phase, left, offer, at, done, bufferM, disk, diskFails,
                       zmodemFileMapM>>
        /\ trouble' = "damage"
    BY <1>1, <1>13 DEF Damage, Disturbed, fileVars
  <2>2. ~Exact'
    BY <2>1 DEF Exact
  <2>q. /\ q \in ProgramPackage
        /\ q.type \notin FileTypes \/ Alike(q, toProgram[1])
    <3>1. Head(toProgram) = toProgram[1] /\ toProgram[1] \in ProgramPackage
      BY <2>1, HeadTailProperties, ElementOfSeq, EmptySeq DEF TransferInv, DataTypeOK
    <3>2. CASE q = Plain("Broken")
      BY <3>2 DEF Plain, ProgramPackage, PlainTypes, FileTypes
    <3>3. CASE toProgram[1].type = "FileContent" /\ q = [toProgram[1] EXCEPT !.intact = FALSE]
      <4>1. toProgram[1] \in [type : {"FileContent"}, id : Files, pos : Nat, len : Nat \ {0},
                              intact : BOOLEAN]
        BY <3>1, <3>3 DEF ProgramPackage, PlainTypes
      <4>2. q \in [type : {"FileContent"}, id : Files, pos : Nat, len : Nat \ {0},
                   intact : BOOLEAN]
        BY <3>3, <4>1
      <4>3. Alike(q, toProgram[1])
        BY <3>3, <4>1 DEF Alike
      <4> QED
        BY <4>2, <4>3 DEF ProgramPackage
    <3> QED
      BY <3>1, <3>2, <3>3 DEF Damaged
  <2>3. /\ toProgram' \in Seq(ProgramPackage) /\ Len(toProgram') = Len(toProgram)
        /\ toProgram'[1] = q
        /\ \A i \in 2..Len(toProgram) : toProgram'[i] = toProgram[i]
        /\ Len(toProgram) \in Nat /\ toProgram \in Seq(ProgramPackage)
        /\ Len(bufferM) \in Nat /\ bufferM \in Seq(ProgramPackage)
    <3>1. q \in ProgramPackage
      BY <2>q
    <3> DEFINE b == <<q>>
               t == Tail(toProgram)
    <3>2. /\ toProgram \in Seq(ProgramPackage) /\ bufferM \in Seq(ProgramPackage)
          /\ t \in Seq(ProgramPackage) /\ Len(bufferM) \in Nat
          /\ Len(t) = Len(toProgram) - 1 /\ Len(toProgram) \in Nat \ {0}
          /\ \A i \in 1..Len(t) : t[i] = toProgram[i + 1]
      BY <2>1, HeadTailProperties, LenProperties, EmptySeq DEF TransferInv, DataTypeOK
    <3>3. b \in Seq(ProgramPackage) /\ Len(b) = 1 /\ b[1] = q
      BY <3>1
    <3>4. toProgram' = b \o t
      BY <2>1
    <3> HIDE DEF b, t
    <3>5. t \in Seq(ProgramPackage)
      BY <3>2
    <3>6. b \in Seq(ProgramPackage)
      BY <3>3
    <3>7. b \o t \in Seq(ProgramPackage)
      BY <3>5, <3>6, ConcatProperties
    <3>8. Len(b \o t) = Len(b) + Len(t)
      BY <3>5, <3>6, ConcatProperties
    <3>9. \A i \in 1..Len(b) + Len(t) : (b \o t)[i] = IF i <= Len(b) THEN b[i] ELSE t[i - Len(b)]
      BY <3>5, <3>6, ConcatProperties
    <3>10. Len(b \o t) = Len(toProgram) /\ (b \o t)[1] = q
      BY <3>2, <3>3, <3>8, <3>9
    <3>11. \A i \in 2..Len(toProgram) : (b \o t)[i] = toProgram[i]
      <4> TAKE i \in 2..Len(toProgram)
      <4>0. i \in 1..Len(b) + Len(t) /\ ~(i <= Len(b)) /\ i - Len(b) = i - 1
        BY <3>2, <3>3
      <4>1. (b \o t)[i] = t[i - 1]
        BY <3>9, <4>0
      <4>2. i - 1 \in 1..Len(t)
        BY <3>2
      <4>3. t[i - 1] = toProgram[(i - 1) + 1]
        BY <3>2, <4>2
      <4> QED
        BY <3>2, <4>1, <4>3
    <3> QED
      BY <3>2, <3>4, <3>7, <3>10, <3>11
  <2>4. /\ Len(Line') = Len(Line) /\ Len(Line) \in Nat
        /\ \A i \in 1..Len(Line) : Alike(Line'[i], Line[i]) \/ Line'[i].type \notin FileTypes
    <3>1. /\ Len(Line) = Len(bufferM) + Len(toProgram)
          /\ \A i \in 1..Len(bufferM) + Len(toProgram) :
                 Line[i] = IF i <= Len(bufferM) THEN bufferM[i] ELSE toProgram[i - Len(bufferM)]
      BY <2>3, ConcatProperties DEF Line
    <3>2. /\ Len(Line') = Len(bufferM) + Len(toProgram)
          /\ \A i \in 1..Len(bufferM) + Len(toProgram) :
                 Line'[i] = IF i <= Len(bufferM) THEN bufferM[i]
                            ELSE toProgram'[i - Len(bufferM)]
      BY <2>1, <2>3, ConcatProperties DEF Line
    <3>3. Len(Line') = Len(Line) /\ Len(Line) \in Nat
      BY <2>3, <3>1, <3>2
    <3>4. ASSUME NEW i \in 1..Len(Line)
          PROVE  Alike(Line'[i], Line[i]) \/ Line'[i].type \notin FileTypes
      <4>1. i \in 1..Len(bufferM) + Len(toProgram)
        BY <3>1
      <4>2. CASE i <= Len(bufferM)
        BY <3>1, <3>2, <4>1, <4>2 DEF Alike
      <4>3. CASE ~(i <= Len(bufferM))
        <5>1. Line[i] = toProgram[i - Len(bufferM)] /\ Line'[i] = toProgram'[i - Len(bufferM)]
          BY <3>1, <3>2, <4>1, <4>3
        <5>2. i \in Nat /\ Len(bufferM) \in Nat /\ Len(toProgram) \in Nat
              /\ i <= Len(bufferM) + Len(toProgram)
          BY <2>3, <4>1
        <5>3. i - Len(bufferM) = 1 \/ i - Len(bufferM) \in 2..Len(toProgram)
          BY <4>3, <5>2
        <5>4. CASE i - Len(bufferM) = 1
          BY <2>3, <2>q, <5>1, <5>4
        <5>5. CASE i - Len(bufferM) \in 2..Len(toProgram)
          BY <2>3, <5>1, <5>5 DEF Alike
        <5> QED
          BY <5>3, <5>4, <5>5
      <4> QED
        BY <4>2, <4>3
    <3> QED
      BY <3>3, <3>4
  <2>6. \A i \in FilePlaces' : i + 0 \in FilePlaces /\ Alike(Line'[i], Line[i + 0])
    BY <2>4 DEF FilePlaces, Alike
  <2>7. \A k \in AnswerPlaces' : k + 0 \in AnswerPlaces /\ toTerminal'[k] = toTerminal[k + 0]
    BY <2>1, PlainAnswerShifts DEF TransferInv
  <2>8. DataTypeOK'
    BY <2>1, <2>3 DEF TransferInv, DataTypeOK
  <2> QED
    BY <2>1, <2>2, <2>6, <2>7, <2>8, Renamed
<1>14. CASE Announce \/ GetsFileProposeStart \/ SendBlock \/ GetsFileCompleteAck
  BY <1>1, <1>14, AnnounceStep, ProposeStep, SendBlockStep, AckStep
<1> QED
  BY <1>6, <1>7, <1>8, <1>9, <1>10, <1>11, <1>12, <1>13, <1>14
  DEF PeerStep, SenderStep, Disturbance

\* Every step.
LEMMA TransferNext == TransferInv /\ BootInv /\ [Next]_transferVars => TransferInv'
<1> SUFFICES ASSUME TransferInv, BootInv, [Next]_transferVars
             PROVE  TransferInv'
  OBVIOUS
<1>1. CASE RfThread
  BY <1>1, ThreadKeeps
<1>2. CASE RfRead
  <2>1. PICK n \in 1..Len(toProgram) :
            /\ bufferM' = bufferM \o SubSeq(toProgram, 1, n)
            /\ toProgram' = SubSeq(toProgram, n + 1, Len(toProgram))
    BY <1>2 DEF RfRead, ReadTick
  <2>2. UNCHANGED <<toTerminal, fileVars, senderVars>>
    BY <1>2 DEF RfRead, ReadTick
  <2>3. /\ Line' = Line
        /\ bufferM' \in Seq(ProgramPackage) /\ toProgram' \in Seq(ProgramPackage)
    BY <2>1, LineRead DEF TransferInv
  <2> QED
    BY <2>2, <2>3, StillStep
<1>3. CASE PeerStep
  BY <1>3, PeerKeeps
<1>4. CASE RfSignal \/ RfTimer \/ Interrupt \/ UNCHANGED transferVars
  <2>1. UNCHANGED <<toTerminal, toProgram, bufferM, fileVars, senderVars>>
    BY <1>4 DEF RfSignal, SignalTick, RfTimer, SessionTimer, Interrupt, SigHandler, lineVars,
                transferVars, rfVars, oscVars
  <2> QED
    BY <2>1, StillStep DEF TransferInv, DataTypeOK, Line
<1> QED
  BY <1>1, <1>2, <1>3, <1>4 DEF Next

\* It starts so.
LEMMA TransferInit == Init => TransferInv /\ BootInv
<1> SUFFICES ASSUME Init
             PROVE  TransferInv /\ BootInv
  OBVIOUS
<1>1. /\ bufferM = <<>> /\ toProgram = <<>> /\ toTerminal = <<>>
      /\ curState = "INIT_STATE" /\ initialized = FALSE /\ jobs = <<>>
      /\ agenda = <<Call("handle", "ENTRY_EVT")>>
      /\ zmodemFileMapM = <<>> /\ disk \in OnDisk /\ diskFails \in BOOLEAN
      /\ phase = "ready" /\ left \in Batches /\ offer = 0 /\ at = 0 /\ done = {}
  BY RfAssumption DEF Init, RfInit, OscInit, SenderInit
<1>2. BootInv
  <2>1. jobs \in Seq(LaterEvents)
    BY <1>1, EmptySeq
  <2>2. curState \in RfStates
    BY <1>1 DEF RfStates
  <2> QED
    BY <1>1, <2>1, <2>2 DEF BootInv
<1>3. Line = <<>> /\ FilePlaces = {} /\ AnswerPlaces = {} /\ DOMAIN zmodemFileMapM = {}
  BY <1>1 DEF Line, FilePlaces, AnswerPlaces
<1>4. \A type \in FileTypes : Places(type) = {}
  BY <1>3 DEF Places, FilePlaces
<1>5. \A type \in AnswerTypes : Answers(type) = {}
  BY <1>3 DEF Answers, AnswerPlaces
<1>6. left \in Seq(Files) /\ \A i, j \in 1..Len(left) : i # j => left[i] # left[j]
  BY <1>1, TransferAssumption
<1>7. \A i \in 1..Len(left) : left[i] # 0
  BY <1>6, TransferAssumption, ElementOfSeq
<1>8. DataTypeOK
  BY <1>1, <1>6, RfAssumption DEF DataTypeOK
<1>9. OrderInv /\ KnownInv /\ TokenInv
  BY <1>3, <1>4, <1>5 DEF OrderInv, KnownInv, TokenInv, Knows, FileTypes, AnswerTypes
<1>10. PhaseInv /\ ExactInv
  BY <1>1, <1>3, <1>4 DEF PhaseInv, ExactInv, Knows, FileTypes
<1>11. DoneInv
  BY <1>1, <1>3, <1>6, <1>7 DEF DoneInv, AckedFilesAreWhole, Knows
<1> QED
  BY <1>2, <1>8, <1>9, <1>10, <1>11 DEF TransferInv

\* The invariant of every behaviour.
THEOREM TransferInvariant == Spec => [](TransferInv /\ BootInv)
BY TransferInit, TransferNext, BootNext, PTL DEF Spec

\* A file of some length that rf acknowledges is on the disk in full, each byte at
\* its place, unless the disk failed or a package was damaged: whatever part of it
\* was there, over a resume, a cancel, a signal and timeouts, for every batch of
\* files, block size and way the input is cut into reads (RfSession::handleFileInfo,
\* handleFileInitPos, handleFileContent, handleFileComplete).
THEOREM AckedWhole == Spec => []AckedFilesAreWhole
<1>1. TransferInv /\ BootInv => AckedFilesAreWhole
  BY DEF TransferInv, DoneInv
<1> QED
  BY <1>1, TransferInvariant, PTL

\* Even with a failing disk, packages that do not decode and blocks that decode to
\* another content, what grows on the disk is sound: a block is only written behind
\* the part it was sent to follow and with the content its crc32 was computed of
\* (handleFileContent's two comparisons).
THEOREM SoundGrowth == Spec => GrowsSoundly
<1>1. TransferInv /\ BootInv /\ [Next]_transferVars =>
          [\A f \in Files : disk'[f].len > disk[f].len => disk'[f].sound]_transferVars
  <2> SUFFICES ASSUME TransferInv, BootInv, Next,
                      NEW f \in Files, disk'[f].len > disk[f].len
               PROVE  disk'[f].sound
    OBVIOUS
  <2>0. /\ disk \in [Files -> [len : Nat, sound : BOOLEAN]]
        /\ disk[f] \in [len : Nat, sound : BOOLEAN]
    BY DEF TransferInv, DataTypeOK
  <2>1. CASE UNCHANGED disk
    BY <2>0, <2>1
  <2>2. CASE HandlesFileInitPos
    <3>1. CASE disk' = disk
      BY <2>0, <3>1
    <3>2. CASE disk' = [disk EXCEPT ![P.id] = Opened(P.pos, @)]
      <4>1. disk'[f] = disk[f] \/ disk'[f] = Opened(P.pos, disk[f])
        BY <2>0, <3>2
      <4> QED
        BY <2>0, <4>1 DEF Opened
    <3> QED
      BY <2>2, <3>1, <3>2 DEF HandlesFileInitPos
  <2>3. CASE HandlesFileContent
    <3>1. bufferM # <<>> /\ P.type = "FileContent"
      BY <2>3 DEF HandlesFileContent, Parses, P
    <3>2. bufferM' = Tail(bufferM) /\ UNCHANGED toProgram
      BY <2>3 DEF HandlesFileContent, Handled, Refused, Known
    <3>3. /\ 1 \in Places("FileContent") /\ Line[1] = P /\ P.id = offer /\ Known
          /\ offer \in Files
      BY <3>1, <3>2, NextIs, PlacesAre DEF FileTypes
    <3>4. PICK n \in Writes(File) :
              File.pos = P.pos /\ P.intact /\ disk' = [disk EXCEPT ![offer] = Extended(@, n)]
      BY <2>0, <2>1, <2>3, <3>3 DEF HandlesFileContent, File, Expected, CrcMatches, fileVars
    <3>5. f = offer
      BY <2>0, <3>3, <3>4
    <3>6. disk'[f] = Extended(disk[f], n)
      BY <2>0, <3>4, <3>5
    <3>7. CASE ~File.open
      BY <2>0, <3>4, <3>6, <3>7 DEF Writes, Extended
    <3>8. CASE File.open
      <4>1. disk[f] = [len |-> P.pos, sound |-> TRUE]
        BY <3>3, <3>4, <3>5, <3>8, BlockExpected DEF Good
      <4>2. disk'[f].sound = (disk[f].sound /\ (n > 0 => P.pos = disk[f].len /\ P.intact))
        BY <3>6 DEF Extended
      <4>3. disk[f].len = P.pos /\ disk[f].sound = TRUE /\ P.intact
        BY <3>4, <4>1
      <4> QED
        BY <4>2, <4>3
    <3> QED
      BY <3>7, <3>8
  <2> QED
    BY <2>1, <2>2, <2>3
    DEF Next, RfThread, ThreadStep, SessionFunction, RfRead, RfSignal, RfTimer, Interrupt,
        PeerStep, fileVars, SendInitRecv, HandlesFileInfo, HandlesFileComplete
<1> QED
  BY <1>1, TransferInvariant, PTL DEF Spec, GrowsSoundly
=============================================================================
