--------------------------- MODULE SfTransferProofs ---------------------------
(***************************************************************************)
(* Theorems about SfTransfer: what sf announces as complete is whole at    *)
(* the terminal, for every list of files, every block size, whatever the   *)
(* terminal held before and every disturbance.                             *)
(***************************************************************************)
EXTENDS SfTransfer, SequenceTheorems, WellFoundedInduction, TLAPS

\* The packages of the line, by what they carry.
PlainAnswers == {"InitRsp", "ErrMsg", "Bye", "ByeBye", "Heartbeat", "Broken"}
PlainTypes   == {"InitReq", "SetClientWorkingDir", "EmptyDir", "Bye", "ByeBye"}
FileTypes    == {"FileInfo", "FileInitPos", "FileContent", "FileComplete"}

ProgramPackage ==
    [type : PlainAnswers]
    \cup [type : {"FileProposeStart"}, id : Files, len : Nat, sound : BOOLEAN]
    \cup [type : {"FileCompleteAck"}, id : Files]

TerminalPackage ==
    [type : PlainTypes]
    \cup [type : {"FileInfo", "FileComplete"}, id : Files]
    \cup [type : {"FileInitPos"}, id : Files, pos : Nat]
    \cup [type : {"FileContent"}, id : Files, pos : Nat, len : Nat]

Part == [len : Nat, sound : BOOLEAN]

DataTypeOK ==
    /\ toTerminal \in Seq(TerminalPackage)
    /\ bufferM \in Seq(ProgramPackage) /\ toProgram \in Seq(ProgramPackage)
    /\ store \in [Files -> Part] /\ done \subseteq Files /\ signaled \in BOOLEAN
    /\ filesM \in Seq(Files)
    /\ \A i, j \in 1..Len(filesM) : i # j => filesM[i] # filesM[j]
    /\ DOMAIN zmodemFileMapM \subseteq Files
    /\ zmodemFileMapM \in
           [DOMAIN zmodemFileMapM -> [pos : Nat, stream : {"closed", "good", "end"}]]

-----------------------------------------------------------------------------
(***************************************************************************)
(* The inductive invariant speaks of one file at a time: of the packages   *)
(* about it that the terminal has still to handle, of the proposal that is *)
(* on its way to sf, and of what the terminal has of it.                   *)
(***************************************************************************)

\* The packages about f in the sequence ts, and the proposals in the sequence ps.
Places(ts, f) == {i \in 1..Len(ts) : ts[i].type \in FileTypes /\ ts[i].id = f}
Asks(ps, f)   == {k \in 1..Len(ps) : ps[k].type = "FileProposeStart" /\ ps[k].id = f}

HasInfo(ts, f) == \E i \in Places(ts, f) : ts[i].type = "FileInfo"

\* Where a package leaves the file.
End(p) == IF p.type = "FileInitPos" THEN p.pos ELSE p.pos + p.len

\* When the terminal comes to place j, having had that much of f, it has n sound
\* bytes of it.
Reached(ts, had, f, j, n) ==
    /\ \A i \in Places(ts, f) :
           i < j /\ (\A k \in Places(ts, f) : k <= i \/ k >= j) => End(ts[i]) = n
    /\ (\A i \in Places(ts, f) : i >= j) => had = [len |-> n, sound |-> TRUE]

\* An announcement is alone; a position comes first, the end last; a position
\* continues what the terminal has, each block the one before it; and the end
\* comes behind the last byte of the file, or after a signal.
Chain(ts, had, f, sig) ==
    /\ \A i, j \in Places(ts, f) : i < j =>
           /\ ts[i].type \in {"FileInitPos", "FileContent"}
           /\ ts[j].type \in {"FileContent", "FileComplete"}
    /\ \A j \in Places(ts, f) :
           /\ ts[j].type = "FileInitPos" =>
                  (ts[j].pos > 0 => had = [len |-> ts[j].pos, sound |-> TRUE])
           /\ ts[j].type = "FileContent" => Reached(ts, had, f, j, ts[j].pos)
           /\ ts[j].type = "FileComplete" =>
                  \E n \in 0..Size[f] : Reached(ts, had, f, j, n) /\ (n = Size[f] \/ sig)

\* The next block of f is the one at pos.
GoesOnAt(ts, had, f, pos) ==
    /\ \A i \in Places(ts, f) : ts[i].type \in {"FileInitPos", "FileContent"}
    /\ Reached(ts, had, f, Len(ts) + 1, pos)

\* There is one proposal of f at most, and it says what the terminal has.
OneAsk(ps, f, had) ==
    /\ \A k, l \in Asks(ps, f) : k = l
    /\ \A k \in Asks(ps, f) : ps[k].len = had.len /\ ps[k].sound = had.sound

\* What sf has still to parse and to read.
Line == bufferM \o toProgram

Fresh(f)     == \E i \in 1..Len(filesM) : filesM[i] = f
Streaming(f) ==
    f \in DOMAIN zmodemFileMapM /\ zmodemFileMapM[f].stream = "good" /\ ~signaled

FileInv(f) ==
    /\ Chain(toTerminal, store[f], f, signaled)
    /\ OneAsk(Line, f, store[f])
    /\ Fresh(f) => Asks(Line, f) = {}
    /\ Fresh(f) \/ Asks(Line, f) # {} => Places(toTerminal, f) = {}
    /\ Fresh(f) \/ Asks(Line, f) # {} \/ HasInfo(toTerminal, f) =>
           ~Streaming(f) /\ f \notin done
    /\ Streaming(f) =>
           /\ GoesOnAt(toTerminal, store[f], f, zmodemFileMapM[f].pos)
           /\ zmodemFileMapM[f].pos <= Size[f] /\ f \notin done
    /\ f \in done =>
           /\ Places(toTerminal, f) = {} /\ store[f].sound
           /\ signaled \/ store[f].len = Size[f]

TransferInv == DataTypeOK /\ \A f \in Files : Size[f] > 0 => FileInv(f)

-----------------------------------------------------------------------------
\* What the operators above return.

\* A set of numbers has a least one.
LEMMA Least ==
    ASSUME NEW S \in SUBSET Nat, S # {}
    PROVE  Min(S) \in S /\ \A y \in S : Min(S) <= y
<1> DEFINE R == OpToRel(<, Nat)
<1>1. \A x, y \in Nat : <<y, x>> \in R <=> y < x
  BY DEF OpToRel
<1>2. IsWellFoundedOn(R, Nat)
  BY NatLessThanWellFounded
<1> HIDE DEF R
<1>3. PICK x \in S : \A y \in S : ~ (<<y, x>> \in R)
  BY <1>2, WFMin
<1>4. ASSUME NEW y \in S
      PROVE  x <= y
  <2>1. x \in Nat /\ y \in Nat
    OBVIOUS
  <2>2. ~(y < x)
    BY <1>1, <1>3, <2>1
  <2> QED
    BY <2>1, <2>2
<1> QED
  BY <1>4 DEF Min

\* What a package about f carries.
LEMMA Fields ==
    ASSUME NEW ts \in Seq(TerminalPackage), NEW f \in Files, NEW i \in Places(ts, f)
    PROVE  /\ i \in 1..Len(ts) /\ i \in Nat \ {0} /\ Len(ts) \in Nat
           /\ ts[i].type \in FileTypes /\ ts[i].id = f
           /\ ts[i].type \in {"FileInitPos", "FileContent"} =>
                  ts[i].pos \in Nat /\ End(ts[i]) \in Nat
<1>1. i \in 1..Len(ts) /\ i \in Nat \ {0} /\ Len(ts) \in Nat
  BY LenProperties DEF Places
<1>2. ts[i] \in TerminalPackage /\ ts[i].type \in FileTypes /\ ts[i].id = f
  BY <1>1, ElementOfSeq DEF Places
<1>3. ts[i].type \in {"FileInitPos", "FileContent"} =>
          /\ ts[i].pos \in Nat /\ (ts[i].type = "FileContent" => ts[i].len \in Nat)
  BY <1>2 DEF TerminalPackage, PlainTypes, FileTypes
<1> QED
  BY <1>1, <1>2, <1>3 DEF End

\* Reached does not depend on the packages about other files.
LEMMA ReachedShifts ==
    ASSUME NEW ts \in Seq(TerminalPackage), NEW us \in Seq(TerminalPackage), NEW f \in Files,
           NEW d \in Nat,
           \A i \in Places(us, f) : i + d \in Places(ts, f) /\ us[i] = ts[i + d],
           \A i \in Places(ts, f) : i - d \in Places(us, f),
           NEW had, NEW n, NEW j \in Int, Reached(ts, had, f, j + d, n)
    PROVE  Reached(us, had, f, j, n)
<1>1. \A i \in Places(us, f) : i \in Int
  BY Fields
<1>2. \A i \in Places(ts, f) : i \in Int
  BY Fields
<1>3. ASSUME NEW i \in Places(us, f), i < j, \A k \in Places(us, f) : k <= i \/ k >= j
      PROVE  End(us[i]) = n
  <2>1. i + d < j + d
    BY <1>1, <1>3
  <2>2. \A k \in Places(ts, f) : k <= i + d \/ k >= j + d
    <3> TAKE k \in Places(ts, f)
    <3>1. k - d \in Places(us, f)
      OBVIOUS
    <3>2. k - d <= i \/ k - d >= j
      BY <1>3, <3>1
    <3> QED
      BY <1>1, <1>2, <3>2
  <2>3. i + d \in Places(ts, f) /\ us[i] = ts[i + d]
    OBVIOUS
  <2>4. End(ts[i + d]) = n
    BY <2>1, <2>2, <2>3 DEF Reached
  <2> QED
    BY <2>3, <2>4
<1>4. ASSUME \A i \in Places(us, f) : i >= j
      PROVE  had = [len |-> n, sound |-> TRUE]
  <2>1. \A i \in Places(ts, f) : i >= j + d
    <3> TAKE i \in Places(ts, f)
    <3>1. i - d \in Places(us, f)
      OBVIOUS
    <3> QED
      BY <1>2, <1>4, <3>1
  <2> QED
    BY <2>1 DEF Reached
<1> QED
  BY <1>3, <1>4 DEF Reached

\* Behind the last package about f it makes no difference where.
LEMMA LastReached ==
    ASSUME NEW ts \in Seq(TerminalPackage), NEW f \in Files, NEW had, NEW n,
           NEW j \in Int, NEW l \in Int,
           \A i \in Places(ts, f) : i < j /\ i < l,
           Reached(ts, had, f, j, n)
    PROVE  Reached(ts, had, f, l, n)
<1>1. \A i \in Places(ts, f) : i \in Int
  BY Fields
<1>2. ASSUME NEW i \in Places(ts, f), \A k \in Places(ts, f) : k <= i \/ k >= l
      PROVE  End(ts[i]) = n
  <2>1. i < j /\ \A k \in Places(ts, f) : k <= i \/ k >= j
    BY <1>1, <1>2
  <2> QED
    BY <2>1 DEF Reached
<1>3. ASSUME \A i \in Places(ts, f) : i >= l
      PROVE  had = [len |-> n, sound |-> TRUE]
  <2>1. \A i \in Places(ts, f) : i >= j
    BY <1>1, <1>3
  <2> QED
    BY <2>1 DEF Reached
<1> QED
  BY <1>2, <1>3 DEF Reached

\* What holds of f still holds with the sequence us for ts.
Kept(ts, us, f) ==
    /\ \A had \in Part, sig \in BOOLEAN : Chain(ts, had, f, sig) => Chain(us, had, f, sig)
    /\ \A had \in Part, pos \in Nat : GoesOnAt(ts, had, f, pos) => GoesOnAt(us, had, f, pos)
    /\ Places(ts, f) = {} => Places(us, f) = {}
    /\ HasInfo(us, f) => HasInfo(ts, f)

\* A chain that is moved along the line stays one.
LEMMA ChainShifts ==
    ASSUME NEW ts \in Seq(TerminalPackage), NEW us \in Seq(TerminalPackage), NEW f \in Files,
           NEW d \in Nat,
           \A i \in Places(us, f) : i + d \in Places(ts, f) /\ us[i] = ts[i + d],
           \A i \in Places(ts, f) : i - d \in Places(us, f)
    PROVE  Kept(ts, us, f)
<1>1. \A i \in Places(us, f) : i \in Int /\ i <= Len(us) /\ Len(us) \in Nat
  BY Fields
<1>2. \A i \in Places(ts, f) : i \in Int /\ i <= Len(ts) /\ Len(ts) \in Nat
  BY Fields
<1>3. ASSUME NEW had \in Part, NEW sig \in BOOLEAN, Chain(ts, had, f, sig)
      PROVE  Chain(us, had, f, sig)
  <2>1. ASSUME NEW i \in Places(us, f), NEW j \in Places(us, f), i < j
        PROVE  /\ us[i].type \in {"FileInitPos", "FileContent"}
               /\ us[j].type \in {"FileContent", "FileComplete"}
    <3>1. /\ i + d \in Places(ts, f) /\ us[i] = ts[i + d]
          /\ j + d \in Places(ts, f) /\ us[j] = ts[j + d]
      OBVIOUS
    <3>2. i + d < j + d
      BY <1>1, <2>1
    <3> QED
      BY <1>3, <3>1, <3>2 DEF Chain
  <2>2. ASSUME NEW j \in Places(us, f)
        PROVE  /\ us[j].type = "FileInitPos" =>
                      (us[j].pos > 0 => had = [len |-> us[j].pos, sound |-> TRUE])
               /\ us[j].type = "FileContent" => Reached(us, had, f, j, us[j].pos)
               /\ us[j].type = "FileComplete" =>
                      \E n \in 0..Size[f] : Reached(us, had, f, j, n) /\ (n = Size[f] \/ sig)
    <3>1. j + d \in Places(ts, f) /\ us[j] = ts[j + d] /\ j \in Int
      BY <1>1
    <3>2. us[j].type = "FileInitPos" =>
              (us[j].pos > 0 => had = [len |-> us[j].pos, sound |-> TRUE])
      BY <1>3, <3>1 DEF Chain
    <3>3. ASSUME us[j].type = "FileContent"
          PROVE  Reached(us, had, f, j, us[j].pos)
      <4>1. Reached(ts, had, f, j + d, us[j].pos)
        BY <1>3, <3>1, <3>3 DEF Chain
      <4> QED
        BY <3>1, <4>1, ReachedShifts
    <3>4. ASSUME us[j].type = "FileComplete"
          PROVE  \E n \in 0..Size[f] : Reached(us, had, f, j, n) /\ (n = Size[f] \/ sig)
      <4>1. PICK n \in 0..Size[f] : Reached(ts, had, f, j + d, n) /\ (n = Size[f] \/ sig)
        BY <1>3, <3>1, <3>4 DEF Chain
      <4>2. Reached(us, had, f, j, n)
        BY <3>1, <4>1, ReachedShifts
      <4> QED
        BY <4>1, <4>2
    <3> QED
      BY <3>2, <3>3, <3>4
  <2> QED
    BY <2>1, <2>2 DEF Chain
<1>4. ASSUME NEW had \in Part, NEW pos \in Nat, GoesOnAt(ts, had, f, pos)
      PROVE  GoesOnAt(us, had, f, pos)
  <2>1. \A i \in Places(us, f) : us[i].type \in {"FileInitPos", "FileContent"}
    BY <1>4 DEF GoesOnAt
  <2>2. Reached(ts, had, f, Len(us) + 1 + d, pos)
    <3>1. Reached(ts, had, f, Len(ts) + 1, pos)
      BY <1>4 DEF GoesOnAt
    <3>2. \A i \in Places(ts, f) : i < Len(ts) + 1 /\ i < Len(us) + 1 + d
      <4> TAKE i \in Places(ts, f)
      <4>1. i - d \in Places(us, f)
        OBVIOUS
      <4> QED
        BY <1>1, <1>2, <4>1
    <3> QED
      BY <3>1, <3>2, LastReached, LenProperties
  <2>3. Reached(us, had, f, Len(us) + 1, pos)
    <3> DEFINE m == Len(us) + 1
    <3>1. m \in Int /\ Reached(ts, had, f, m + d, pos)
      BY <2>2, LenProperties
    <3> HIDE DEF m
    <3>2. Reached(us, had, f, m, pos)
      BY <3>1, ReachedShifts
    <3> QED
      BY <3>2 DEF m
  <2> QED
    BY <2>1, <2>3 DEF GoesOnAt
<1>5. Places(ts, f) = {} => Places(us, f) = {}
  OBVIOUS
<1>6. HasInfo(us, f) => HasInfo(ts, f)
  BY DEF HasInfo
<1> QED
  BY <1>3, <1>4, <1>5, <1>6 DEF Kept


\* A sequence with one more package.
LEMMA PutIs ==
    ASSUME NEW ts \in Seq(TerminalPackage), NEW p \in TerminalPackage, NEW us,
           us = Append(ts, p)
    PROVE  /\ us \in Seq(TerminalPackage) /\ Len(ts) \in Nat /\ Len(us) = Len(ts) + 1
           /\ \A i \in 1..Len(ts) : us[i] = ts[i]
           /\ us[Len(ts) + 1] = p
BY AppendProperties, LenProperties

\* A package about another file is put at the end.
LEMMA PutOther ==
    ASSUME NEW ts \in Seq(TerminalPackage), NEW p \in TerminalPackage, NEW f \in Files,
           p.type \in FileTypes => p.id # f
    PROVE  Kept(ts, Append(ts, p), f)
<1> DEFINE us == Append(ts, p)
<1>1. /\ us \in Seq(TerminalPackage) /\ Len(ts) \in Nat /\ Len(us) = Len(ts) + 1
      /\ \A i \in 1..Len(ts) : us[i] = ts[i]
      /\ us[Len(ts) + 1] = p
  BY PutIs
<1> HIDE DEF us
<1>2. Places(us, f) = Places(ts, f)
  BY <1>1 DEF Places
<1>3. \A i \in Places(ts, f) : i \in Int /\ us[i] = ts[i]
  BY <1>1, Fields DEF Places
<1>4. \A i \in Places(us, f) : i + 0 \in Places(ts, f) /\ us[i] = ts[i + 0]
  BY <1>2, <1>3
<1>5. \A i \in Places(ts, f) : i - 0 \in Places(us, f)
  BY <1>2, <1>3
<1>6. Kept(ts, us, f)
  BY <1>1, <1>4, <1>5, ChainShifts
<1> QED
  BY <1>6 DEF us

\* A package about f is put at the end.
LEMMA PutPlaces ==
    ASSUME NEW ts \in Seq(TerminalPackage), NEW p \in TerminalPackage, NEW f \in Files,
           p.type \in FileTypes, p.id = f
    PROVE  /\ Append(ts, p) \in Seq(TerminalPackage)
           /\ Len(ts) \in Nat /\ Len(Append(ts, p)) = Len(ts) + 1
           /\ Places(Append(ts, p), f) = Places(ts, f) \cup {Len(ts) + 1}
           /\ Append(ts, p)[Len(ts) + 1] = p
           /\ \A i \in Places(ts, f) :
                  Append(ts, p)[i] = ts[i] /\ i \in Int /\ i < Len(ts) + 1
<1> DEFINE us == Append(ts, p)
<1>1. /\ us \in Seq(TerminalPackage) /\ Len(ts) \in Nat /\ Len(us) = Len(ts) + 1
      /\ \A i \in 1..Len(ts) : us[i] = ts[i]
      /\ us[Len(ts) + 1] = p
  BY PutIs
<1> HIDE DEF us
<1>2. Places(us, f) = Places(ts, f) \cup {Len(ts) + 1}
  BY <1>1 DEF Places
<1>3. \A i \in Places(ts, f) : us[i] = ts[i] /\ i \in Int /\ i < Len(ts) + 1
  BY <1>1 DEF Places
<1> QED
  BY <1>1, <1>2, <1>3 DEF us

\* What was reached before the new package still is, ...
LEMMA PutReached ==
    ASSUME NEW ts \in Seq(TerminalPackage), NEW p \in TerminalPackage, NEW f \in Files,
           p.type \in FileTypes, p.id = f,
           NEW had, NEW n, NEW j \in Int, j <= Len(ts) + 1, Reached(ts, had, f, j, n)
    PROVE  Reached(Append(ts, p), had, f, j, n)
<1> DEFINE us == Append(ts, p)
<1>1. /\ Len(ts) \in Nat
      /\ Places(us, f) = Places(ts, f) \cup {Len(ts) + 1}
      /\ \A i \in Places(ts, f) : us[i] = ts[i] /\ i \in Int /\ i < Len(ts) + 1
  BY PutPlaces
<1> HIDE DEF us
<1>2. ASSUME NEW i \in Places(us, f), i < j, \A k \in Places(us, f) : k <= i \/ k >= j
      PROVE  End(us[i]) = n
  <2>1. i \in Places(ts, f) /\ us[i] = ts[i]
    BY <1>1, <1>2
  <2>2. \A k \in Places(ts, f) : k <= i \/ k >= j
    BY <1>1, <1>2
  <2> QED
    BY <1>2, <2>1, <2>2 DEF Reached
<1>3. ASSUME \A i \in Places(us, f) : i >= j
      PROVE  had = [len |-> n, sound |-> TRUE]
  BY <1>1, <1>3 DEF Reached
<1>4. Reached(us, had, f, j, n)
  BY <1>2, <1>3 DEF Reached
<1> QED
  BY <1>4 DEF us

\* ... and behind it what it leads to.
LEMMA PutEnd ==
    ASSUME NEW ts \in Seq(TerminalPackage), NEW p \in TerminalPackage, NEW f \in Files,
           p.type \in FileTypes, p.id = f, NEW had
    PROVE  Reached(Append(ts, p), had, f, Len(Append(ts, p)) + 1, End(p))
<1> DEFINE us == Append(ts, p)
<1>1. /\ Len(ts) \in Nat /\ Len(us) = Len(ts) + 1
      /\ Places(us, f) = Places(ts, f) \cup {Len(ts) + 1}
      /\ us[Len(ts) + 1] = p
      /\ \A i \in Places(ts, f) : us[i] = ts[i] /\ i \in Int /\ i < Len(ts) + 1
  BY PutPlaces
<1> HIDE DEF us
<1>2. ASSUME NEW i \in Places(us, f),
             \A k \in Places(us, f) : k <= i \/ k >= Len(us) + 1
      PROVE  End(us[i]) = End(p)
  <2>1. i = Len(ts) + 1
    BY <1>1, <1>2
  <2> QED
    BY <1>1, <2>1
<1>3. ~ \A i \in Places(us, f) : i >= Len(us) + 1
  BY <1>1
<1>4. Reached(us, had, f, Len(us) + 1, End(p))
  BY <1>2, <1>3 DEF Reached
<1> QED
  BY <1>4 DEF us

\* A position, a block or the end is put behind what it goes on.
LEMMA PutNext ==
    ASSUME NEW ts \in Seq(TerminalPackage), NEW p \in TerminalPackage, NEW f \in Files,
           p.type \in FileTypes, p.id = f,
           NEW had \in Part, NEW sig \in BOOLEAN, Chain(ts, had, f, sig),
           \A i \in Places(ts, f) : ts[i].type \in {"FileInitPos", "FileContent"},
           \/ /\ p.type = "FileInitPos" /\ Places(ts, f) = {}
              /\ p.pos > 0 => had = [len |-> p.pos, sound |-> TRUE]
           \/ p.type = "FileContent" /\ Reached(ts, had, f, Len(ts) + 1, p.pos)
           \/ /\ p.type = "FileComplete"
              /\ \E n \in 0..Size[f] : /\ Reached(ts, had, f, Len(ts) + 1, n)
                                       /\ n = Size[f] \/ sig
    PROVE  Chain(Append(ts, p), had, f, sig)
<1> DEFINE us == Append(ts, p)
<1>1. /\ Len(ts) \in Nat /\ Len(us) = Len(ts) + 1
      /\ Places(us, f) = Places(ts, f) \cup {Len(ts) + 1}
      /\ us[Len(ts) + 1] = p
      /\ \A i \in Places(ts, f) : us[i] = ts[i] /\ i \in Int /\ i < Len(ts) + 1
  BY PutPlaces, ZenonT(30)
<1>2. ASSUME NEW n, NEW j \in Int, j <= Len(ts) + 1, Reached(ts, had, f, j, n)
      PROVE  Reached(us, had, f, j, n)
  BY <1>2, PutReached
<1> HIDE DEF us
<1>3. ASSUME NEW i \in Places(us, f), NEW j \in Places(us, f), i < j
      PROVE  /\ us[i].type \in {"FileInitPos", "FileContent"}
             /\ us[j].type \in {"FileContent", "FileComplete"}
  <2>1. i \in Places(ts, f) /\ us[i] = ts[i]
    BY <1>1, <1>3
  <2>2. CASE j \in Places(ts, f)
    BY <1>1, <1>3, <2>1, <2>2 DEF Chain
  <2>3. CASE j = Len(ts) + 1
    BY <1>1, <2>1, <2>3
  <2> QED
    BY <1>1, <2>2, <2>3
<1>4. ASSUME NEW j \in Places(us, f)
      PROVE  /\ us[j].type = "FileInitPos" =>
                    (us[j].pos > 0 => had = [len |-> us[j].pos, sound |-> TRUE])
             /\ us[j].type = "FileContent" => Reached(us, had, f, j, us[j].pos)
             /\ us[j].type = "FileComplete" =>
                    \E n \in 0..Size[f] : Reached(us, had, f, j, n) /\ (n = Size[f] \/ sig)
  <2>1. CASE j \in Places(ts, f)
    <3>1. us[j] = ts[j] /\ j \in Int /\ j <= Len(ts) + 1
      BY <1>1, <2>1
    <3>2. us[j].type \in {"FileInitPos", "FileContent"}
      BY <2>1, <3>1
    <3>3. us[j].type = "FileInitPos" =>
              (us[j].pos > 0 => had = [len |-> us[j].pos, sound |-> TRUE])
      BY <2>1, <3>1 DEF Chain
    <3>4. us[j].type = "FileContent" => Reached(ts, had, f, j, us[j].pos)
      BY <2>1, <3>1 DEF Chain
    <3> QED
      BY <1>2, <3>1, <3>2, <3>3, <3>4
  <2>2. CASE j = Len(ts) + 1
    <3>1. us[j] = p /\ j \in Int /\ j <= Len(ts) + 1
      BY <1>1, <2>2
    <3>2. us[j].type = "FileInitPos" =>
              (us[j].pos > 0 => had = [len |-> us[j].pos, sound |-> TRUE])
      BY <3>1
    <3>3. us[j].type = "FileContent" => Reached(us, had, f, j, us[j].pos)
      BY <1>2, <2>2, <3>1
    <3>4. us[j].type = "FileComplete" =>
              \E n \in 0..Size[f] : Reached(us, had, f, j, n) /\ (n = Size[f] \/ sig)
      BY <1>2, <2>2, <3>1
    <3> QED
      BY <3>2, <3>3, <3>4
  <2> QED
    BY <1>1, <2>1, <2>2
<1>5. Chain(us, had, f, sig)
  BY <1>3, <1>4 DEF Chain
<1> QED
  BY <1>5 DEF us

\* Behind a position or a block the next block goes on at its end.
LEMMA PutGoesOn ==
    ASSUME NEW ts \in Seq(TerminalPackage), NEW p \in TerminalPackage, NEW f \in Files,
           p.type \in {"FileInitPos", "FileContent"}, p.id = f, NEW had,
           \A i \in Places(ts, f) : ts[i].type \in {"FileInitPos", "FileContent"}
    PROVE  GoesOnAt(Append(ts, p), had, f, End(p))
<1> DEFINE us == Append(ts, p)
<1>1. p.type \in FileTypes
  BY DEF FileTypes
<1>2. /\ Places(us, f) = Places(ts, f) \cup {Len(ts) + 1} /\ us[Len(ts) + 1] = p
      /\ \A i \in Places(ts, f) : us[i] = ts[i]
  BY <1>1, PutPlaces, ZenonT(30)
<1>3. Reached(us, had, f, Len(us) + 1, End(p))
  BY <1>1, PutEnd
<1> HIDE DEF us
<1>4. GoesOnAt(us, had, f, End(p))
  BY <1>2, <1>3 DEF GoesOnAt
<1> QED
  BY <1>4 DEF us

\* An announcement is put where there is nothing about f.
LEMMA PutInfo ==
    ASSUME NEW ts \in Seq(TerminalPackage), NEW p \in TerminalPackage, NEW f \in Files,
           p.type = "FileInfo", p.id = f, Places(ts, f) = {},
           NEW had \in Part, NEW sig \in BOOLEAN
    PROVE  Chain(Append(ts, p), had, f, sig)
<1> DEFINE us == Append(ts, p)
<1>1. p.type \in FileTypes
  BY DEF FileTypes
<1>2. /\ Places(us, f) = Places(ts, f) \cup {Len(ts) + 1}
      /\ us[Len(ts) + 1] = p /\ Len(ts) \in Nat
  BY <1>1, PutPlaces
<1> HIDE DEF us
<1>3. Chain(us, had, f, sig)
  BY <1>2 DEF Chain
<1> QED
  BY <1>3 DEF us


\* The terminal takes the first package.
LEMMA TakeIs ==
    ASSUME NEW ts \in Seq(TerminalPackage), ts # <<>>
    PROVE  /\ Tail(ts) \in Seq(TerminalPackage) /\ Head(ts) = ts[1]
           /\ Head(ts) \in TerminalPackage
           /\ Len(ts) \in Nat \ {0} /\ Len(Tail(ts)) = Len(ts) - 1
           /\ \A i \in 1..Len(Tail(ts)) : Tail(ts)[i] = ts[i + 1]
BY HeadTailProperties, LenProperties, EmptySeq

\* The places move up by one.
LEMMA TakePlaces ==
    ASSUME NEW ts \in Seq(TerminalPackage), ts # <<>>, NEW f \in Files
    PROVE  /\ \A i \in Places(Tail(ts), f) :
                  /\ i \in Nat \ {0} /\ i + 1 \in Places(ts, f) /\ Tail(ts)[i] = ts[i + 1]
           /\ \A i \in Places(ts, f) :
                  i \in Nat \ {0} /\ (i = 1 \/ i - 1 \in Places(Tail(ts), f))
           /\ 1 \in Places(ts, f) <=> Head(ts).type \in FileTypes /\ Head(ts).id = f
<1> DEFINE us == Tail(ts)
<1>1. /\ us \in Seq(TerminalPackage) /\ Head(ts) = ts[1]
      /\ Len(ts) \in Nat \ {0} /\ Len(us) = Len(ts) - 1
      /\ \A i \in 1..Len(us) : us[i] = ts[i + 1]
  BY TakeIs
<1> HIDE DEF us
<1>2. ASSUME NEW i \in Places(us, f)
      PROVE  i \in Nat \ {0} /\ i + 1 \in Places(ts, f) /\ us[i] = ts[i + 1]
  BY <1>1 DEF Places
<1>3. ASSUME NEW i \in Places(ts, f)
      PROVE  i \in Nat \ {0} /\ (i = 1 \/ i - 1 \in Places(us, f))
  <2>1. i \in 1..Len(ts) /\ ts[i].type \in FileTypes /\ ts[i].id = f
    BY DEF Places
  <2>2. CASE i # 1
    <3>1. i - 1 \in 1..Len(us)
      BY <1>1, <2>1, <2>2
    <3>2. us[i - 1] = ts[(i - 1) + 1]
      BY <1>1, <3>1
    <3>3. us[i - 1] = ts[i]
      BY <2>1, <3>2
    <3> QED
      BY <2>1, <3>1, <3>3 DEF Places
  <2> QED
    BY <2>1, <2>2
<1>4. 1 \in Places(ts, f) <=> Head(ts).type \in FileTypes /\ Head(ts).id = f
  BY <1>1 DEF Places
<1> QED
  BY <1>2, <1>3, <1>4 DEF us

\* It is about another file.
LEMMA TakeOther ==
    ASSUME NEW ts \in Seq(TerminalPackage), ts # <<>>, NEW f \in Files,
           Head(ts).type \in FileTypes => Head(ts).id # f
    PROVE  Kept(ts, Tail(ts), f)
<1> DEFINE us == Tail(ts)
<1>1. us \in Seq(TerminalPackage)
  BY TakeIs
<1>2. /\ \A i \in Places(us, f) : i + 1 \in Places(ts, f) /\ us[i] = ts[i + 1]
      /\ \A i \in Places(ts, f) :
             i \in Nat \ {0} /\ (i = 1 \/ i - 1 \in Places(us, f))
      /\ 1 \notin Places(ts, f)
  BY TakePlaces
<1> HIDE DEF us
<1>3. \A i \in Places(ts, f) : i - 1 \in Places(us, f)
  BY <1>2
<1>4. Kept(ts, us, f)
  BY <1>1, <1>2, <1>3, ChainShifts
<1> QED
  BY <1>4 DEF us

\* It is about f, and was not the last of it: what the terminal has of f is then
\* what the package leads to.
LEMMA TakeReached ==
    ASSUME NEW ts \in Seq(TerminalPackage), ts # <<>>, NEW f \in Files, 1 \in Places(ts, f),
           NEW had, NEW n, NEW j \in Nat \ {0}, Reached(ts, had, f, j + 1, n)
    PROVE  Reached(Tail(ts), [len |-> End(Head(ts)), sound |-> TRUE], f, j, n)
<1> DEFINE us == Tail(ts)
<1>1. /\ \A i \in Places(us, f) :
             i \in Nat \ {0} /\ i + 1 \in Places(ts, f) /\ us[i] = ts[i + 1]
      /\ \A i \in Places(ts, f) :
             i \in Nat \ {0} /\ (i = 1 \/ i - 1 \in Places(us, f))
      /\ Head(ts) = ts[1]
  BY TakePlaces, TakeIs
<1> HIDE DEF us
<1>2. ASSUME NEW i \in Places(us, f), i < j, \A k \in Places(us, f) : k <= i \/ k >= j
      PROVE  End(us[i]) = n
  <2>1. i + 1 \in Places(ts, f) /\ us[i] = ts[i + 1] /\ i + 1 < j + 1
    BY <1>1, <1>2
  <2>2. \A k \in Places(ts, f) : k <= i + 1 \/ k >= j + 1
    <3> TAKE k \in Places(ts, f)
    <3>1. CASE k = 1
      BY <1>1, <3>1
    <3>2. CASE k - 1 \in Places(us, f)
      <4>1. k - 1 <= i \/ k - 1 >= j
        BY <1>2, <3>2
      <4>2. k \in Int /\ i \in Int /\ j \in Int
        BY <1>1
      <4> QED
        BY <4>1, <4>2
    <3> QED
      BY <1>1, <3>1, <3>2
  <2>3. End(ts[i + 1]) = n
    BY <2>1, <2>2 DEF Reached
  <2> QED
    BY <2>1, <2>3
<1>3. ASSUME \A i \in Places(us, f) : i >= j
      PROVE  End(ts[1]) = n
  <2>1. \A k \in Places(ts, f) : k <= 1 \/ k >= j + 1
    <3> TAKE k \in Places(ts, f)
    <3>1. CASE k = 1
      BY <3>1
    <3>2. CASE k - 1 \in Places(us, f)
      BY <1>1, <1>3, <3>2
    <3> QED
      BY <1>1, <3>1, <3>2
  <2>2. 1 < j + 1
    OBVIOUS
  <2> QED
    BY <2>1, <2>2 DEF Reached
<1>4. Reached(us, [len |-> End(Head(ts)), sound |-> TRUE], f, j, n)
  BY <1>1, <1>2, <1>3 DEF Reached
<1> QED
  BY <1>4 DEF us

\* A position or a block is taken.
LEMMA TakeNext ==
    ASSUME NEW ts \in Seq(TerminalPackage), ts # <<>>, NEW f \in Files,
           NEW had \in Part, NEW sig \in BOOLEAN, Chain(ts, had, f, sig),
           Head(ts).type \in {"FileInitPos", "FileContent"}, Head(ts).id = f
    PROVE  /\ Chain(Tail(ts), [len |-> End(Head(ts)), sound |-> TRUE], f, sig)
           /\ \A pos : GoesOnAt(ts, had, f, pos) =>
                  GoesOnAt(Tail(ts), [len |-> End(Head(ts)), sound |-> TRUE], f, pos)
           /\ ~HasInfo(Tail(ts), f)
           /\ Head(ts).type = "FileInitPos" /\ Head(ts).pos > 0 =>
                  had = [len |-> Head(ts).pos, sound |-> TRUE]
           /\ Head(ts).type = "FileContent" => had = [len |-> Head(ts).pos, sound |-> TRUE]
<1> DEFINE us  == Tail(ts)
           now == [len |-> End(Head(ts)), sound |-> TRUE]
<1>1. /\ \A i \in Places(us, f) :
             i \in Nat \ {0} /\ i + 1 \in Places(ts, f) /\ us[i] = ts[i + 1]
      /\ \A i \in Places(ts, f) : i \in Nat \ {0}
      /\ 1 \in Places(ts, f) /\ Head(ts) = ts[1]
      /\ Len(ts) \in Nat \ {0} /\ Len(us) = Len(ts) - 1
  <2>1. Head(ts).type \in FileTypes
    BY DEF FileTypes
  <2>2. /\ \A i \in Places(us, f) :
               i \in Nat \ {0} /\ i + 1 \in Places(ts, f) /\ us[i] = ts[i + 1]
        /\ \A i \in Places(ts, f) : i \in Nat \ {0}
        /\ 1 \in Places(ts, f)
    BY <2>1, TakePlaces
  <2>3. Head(ts) = ts[1] /\ Len(ts) \in Nat \ {0} /\ Len(us) = Len(ts) - 1
    BY TakeIs
  <2> QED
    BY <2>2, <2>3
<1>2. ASSUME NEW n, NEW j \in Nat \ {0}, Reached(ts, had, f, j + 1, n)
      PROVE  Reached(us, now, f, j, n)
  BY <1>1, <1>2, TakeReached
<1> HIDE DEF us, now
<1>3. ASSUME NEW j \in Places(us, f)
      PROVE  us[j].type \in {"FileContent", "FileComplete"}
  <2>1. j + 1 \in Places(ts, f) /\ us[j] = ts[j + 1] /\ 1 < j + 1
    BY <1>1
  <2> QED
    BY <1>1, <2>1 DEF Chain
<1>4. ASSUME NEW i \in Places(us, f), NEW j \in Places(us, f), i < j
      PROVE  us[i].type \in {"FileInitPos", "FileContent"}
  <2>1. /\ i + 1 \in Places(ts, f) /\ us[i] = ts[i + 1]
        /\ j + 1 \in Places(ts, f) /\ i + 1 < j + 1
    BY <1>1, <1>4
  <2> QED
    BY <2>1 DEF Chain
<1>5. ASSUME NEW j \in Places(us, f), us[j].type = "FileContent"
      PROVE  Reached(us, now, f, j, us[j].pos)
  <2>1. /\ j + 1 \in Places(ts, f) /\ us[j] = ts[j + 1] /\ j \in Nat \ {0}
    BY <1>1
  <2>2. Reached(ts, had, f, j + 1, us[j].pos)
    BY <1>5, <2>1 DEF Chain
  <2> QED
    BY <1>2, <2>1, <2>2
<1>6. ASSUME NEW j \in Places(us, f), us[j].type = "FileComplete"
      PROVE  \E n \in 0..Size[f] : Reached(us, now, f, j, n) /\ (n = Size[f] \/ sig)
  <2>1. /\ j + 1 \in Places(ts, f) /\ us[j] = ts[j + 1] /\ j \in Nat \ {0}
    BY <1>1
  <2>2. PICK n \in 0..Size[f] : Reached(ts, had, f, j + 1, n) /\ (n = Size[f] \/ sig)
    BY <1>6, <2>1 DEF Chain
  <2> QED
    BY <1>2, <2>1, <2>2
<1>7. Chain(us, now, f, sig)
  BY <1>3, <1>4, <1>5, <1>6 DEF Chain
<1>8. ASSUME NEW pos, GoesOnAt(ts, had, f, pos)
      PROVE  GoesOnAt(us, now, f, pos)
  <2>1. \A i \in Places(us, f) : us[i].type \in {"FileInitPos", "FileContent"}
    BY <1>1, <1>8 DEF GoesOnAt
  <2>2. Reached(ts, had, f, Len(us) + 1 + 1, pos) /\ Len(us) + 1 \in Nat \ {0}
    BY <1>1, <1>8 DEF GoesOnAt
  <2>3. Reached(us, now, f, Len(us) + 1, pos)
    BY <1>2, <2>2
  <2> QED
    BY <2>1, <2>3 DEF GoesOnAt
<1>9. ~HasInfo(us, f)
  BY <1>3 DEF HasInfo
<1>10. Head(ts).type = "FileInitPos" /\ Head(ts).pos > 0 =>
           had = [len |-> Head(ts).pos, sound |-> TRUE]
  BY <1>1 DEF Chain
<1>11. Head(ts).type = "FileContent" => had = [len |-> Head(ts).pos, sound |-> TRUE]
  <2>1. \A i \in Places(ts, f) : i >= 1
    BY <1>1
  <2> QED
    BY <1>1, <2>1 DEF Chain, Reached
<1> QED
  BY <1>7, <1>8, <1>9, <1>10, <1>11 DEF us, now

\* The announcement or the end is taken: nothing about f is behind it.
LEMMA TakeLast ==
    ASSUME NEW ts \in Seq(TerminalPackage), ts # <<>>, NEW f \in Files,
           NEW had \in Part, NEW sig \in BOOLEAN, Chain(ts, had, f, sig),
           Head(ts).type \in {"FileInfo", "FileComplete"}, Head(ts).id = f
    PROVE  /\ Places(Tail(ts), f) = {}
           /\ Head(ts).type = "FileInfo" => HasInfo(ts, f)
           /\ Head(ts).type = "FileComplete" =>
                  \E n \in 0..Size[f] : /\ had = [len |-> n, sound |-> TRUE]
                                        /\ n = Size[f] \/ sig
<1>1. /\ \A i \in Places(Tail(ts), f) : i \in Nat \ {0} /\ i + 1 \in Places(ts, f)
      /\ \A i \in Places(ts, f) : i \in Nat \ {0}
      /\ 1 \in Places(ts, f) /\ Head(ts) = ts[1]
  BY TakePlaces, TakeIs DEF FileTypes
<1>2. ASSUME NEW i \in Places(Tail(ts), f)
      PROVE  FALSE
  <2>1. i + 1 \in Places(ts, f) /\ 1 < i + 1
    BY <1>1
  <2> QED
    BY <1>1, <2>1 DEF Chain
<1>3. ASSUME Head(ts).type = "FileComplete"
      PROVE  \E n \in 0..Size[f] : /\ had = [len |-> n, sound |-> TRUE]
                                   /\ n = Size[f] \/ sig
  <2>1. PICK n \in 0..Size[f] : Reached(ts, had, f, 1, n) /\ (n = Size[f] \/ sig)
    BY <1>1, <1>3 DEF Chain
  <2>2. \A i \in Places(ts, f) : i >= 1
    BY <1>1
  <2> QED
    BY <2>1, <2>2 DEF Reached
<1> QED
  BY <1>1, <1>2, <1>3 DEF HasInfo


-----------------------------------------------------------------------------
\* The line from the terminal.

\* What holds of the proposals of f still holds with the sequence qs for ps.
LineKept(ps, qs, f) ==
    /\ Asks(ps, f) = {} => Asks(qs, f) = {}
    /\ \A had \in Part : OneAsk(ps, f, had) => OneAsk(qs, f, had)

\* Proposals may be taken off the line, and the others move up.
LEMMA AsksShift ==
    ASSUME NEW ps, NEW qs \in Seq(ProgramPackage), NEW f \in Files, NEW e \in Nat,
           \A k \in Asks(qs, f) : k + e \in Asks(ps, f) /\ qs[k] = ps[k + e]
    PROVE  LineKept(ps, qs, f)
<1>1. \A k \in Asks(qs, f) : k \in Int
  BY LenProperties DEF Asks
<1>2. ASSUME NEW had \in Part, OneAsk(ps, f, had)
      PROVE  OneAsk(qs, f, had)
  <2>1. ASSUME NEW k \in Asks(qs, f), NEW l \in Asks(qs, f)
        PROVE  k = l
    <3>1. k + e \in Asks(ps, f) /\ l + e \in Asks(ps, f)
      OBVIOUS
    <3>2. k + e = l + e
      BY <1>2, <3>1 DEF OneAsk
    <3> QED
      BY <1>1, <3>2
  <2>2. \A k \in Asks(qs, f) : qs[k].len = had.len /\ qs[k].sound = had.sound
    BY <1>2 DEF OneAsk
  <2> QED
    BY <2>1, <2>2 DEF OneAsk
<1> QED
  BY <1>2 DEF LineKept

\* Cutting a line in three, either way round.
LEMMA Associative ==
    \A a, b, c \in Seq(ProgramPackage) : (a \o b) \o c = a \o (b \o c)
<1> SUFFICES ASSUME NEW a \in Seq(ProgramPackage), NEW b \in Seq(ProgramPackage),
                    NEW c \in Seq(ProgramPackage)
             PROVE  (a \o b) \o c = a \o (b \o c)
  OBVIOUS
<1> QED
  BY ConcatAssociative

\* Two parts of the line, joined.
LEMMA Joined ==
    ASSUME NEW a \in Seq(ProgramPackage), NEW b \in Seq(ProgramPackage)
    PROVE  /\ a \o b \in Seq(ProgramPackage)
           /\ Len(a) \in Nat /\ Len(b) \in Nat /\ Len(a \o b) = Len(a) + Len(b)
           /\ \A i \in 1..Len(a) : (a \o b)[i] = a[i]
           /\ \A i \in 1..Len(b) : (a \o b)[Len(a) + i] = b[i]
           /\ \A i \in 1..Len(a) + Len(b) :
                  i \in 1..Len(a) \/ (i - Len(a) \in 1..Len(b) /\ (a \o b)[i] = b[i - Len(a)])
<1> DEFINE c == a \o b
<1>1. c \in Seq(ProgramPackage) /\ Len(a) \in Nat /\ Len(b) \in Nat
  BY ConcatProperties, LenProperties
<1>2. Len(c) = Len(a) + Len(b)
  BY ConcatProperties
<1>3. \A i \in 1..Len(a) + Len(b) : c[i] = IF i <= Len(a) THEN a[i] ELSE b[i - Len(a)]
  BY ConcatProperties
<1> HIDE DEF c
<1>4. \A i \in 1..Len(a) : c[i] = a[i]
  BY <1>1, <1>3
<1>5. ASSUME NEW i \in 1..Len(b)
      PROVE  c[Len(a) + i] = b[i]
  <2>1. /\ Len(a) + i \in 1..Len(a) + Len(b) /\ ~(Len(a) + i <= Len(a))
        /\ (Len(a) + i) - Len(a) = i
    BY <1>1
  <2> QED
    BY <1>3, <2>1
<1>6. ASSUME NEW i \in 1..Len(a) + Len(b)
      PROVE  i \in 1..Len(a) \/ (i - Len(a) \in 1..Len(b) /\ c[i] = b[i - Len(a)])
  BY <1>1, <1>3
<1> QED
  BY <1>1, <1>2, <1>4, <1>5, <1>6 DEF c

\* The buffer is emptied.
LEMMA BufferGoes ==
    ASSUME NEW a \in Seq(ProgramPackage), NEW b \in Seq(ProgramPackage), NEW f \in Files
    PROVE  LineKept(a \o b, <<>> \o b, f)
<1> DEFINE c == a \o b
<1>1. /\ Len(a) \in Nat /\ Len(b) \in Nat /\ Len(c) = Len(a) + Len(b)
      /\ \A i \in 1..Len(b) : c[Len(a) + i] = b[i]
  BY Joined
<1> HIDE DEF c
<1>2. \A k \in Asks(b, f) : k + Len(a) \in Asks(c, f) /\ b[k] = c[k + Len(a)]
  <2> TAKE k \in Asks(b, f)
  <2>1. k \in 1..Len(b) /\ b[k].type = "FileProposeStart" /\ b[k].id = f
    BY DEF Asks
  <2>2. c[Len(a) + k] = b[k] /\ Len(a) + k = k + Len(a) /\ k + Len(a) \in 1..Len(c)
    BY <1>1, <2>1
  <2> QED
    BY <2>1, <2>2 DEF Asks
<1>3. LineKept(c, b, f)
  BY <1>1, <1>2, AsksShift
<1>4. <<>> \o b = b
  BY ConcatEmptySeq
<1> QED
  BY <1>3, <1>4 DEF c

\* parsePkg takes the first package off the buffer.
LEMMA LinePops ==
    ASSUME NEW a \in Seq(ProgramPackage), a # <<>>, NEW b \in Seq(ProgramPackage),
           NEW f \in Files
    PROVE  /\ Tail(a) \in Seq(ProgramPackage) /\ Head(a) \in ProgramPackage
           /\ LineKept(a \o b, Tail(a) \o b, f)
           /\ Head(a).type = "FileProposeStart" /\ Head(a).id = f =>
                  /\ 1 \in Asks(a \o b, f) /\ (a \o b)[1] = Head(a)
                  /\ \A had : OneAsk(a \o b, f, had) => Asks(Tail(a) \o b, f) = {}
<1> DEFINE c == a \o b
           t == Tail(a)
           d == t \o b
<1>1. /\ t \in Seq(ProgramPackage) /\ Head(a) = a[1] /\ Head(a) \in ProgramPackage
      /\ Len(a) \in Nat \ {0} /\ Len(t) = Len(a) - 1
      /\ \A i \in 1..Len(t) : t[i] = a[i + 1]
  BY HeadTailProperties, LenProperties, EmptySeq
<1>2. /\ c \in Seq(ProgramPackage) /\ Len(b) \in Nat /\ Len(c) = Len(a) + Len(b)
      /\ \A i \in 1..Len(a) : c[i] = a[i]
      /\ \A i \in 1..Len(b) : c[Len(a) + i] = b[i]
  BY Joined
<1> HIDE DEF t
<1>3. /\ d \in Seq(ProgramPackage) /\ Len(d) = Len(t) + Len(b)
      /\ \A i \in 1..Len(t) : d[i] = t[i]
      /\ \A i \in 1..Len(t) + Len(b) :
             i \in 1..Len(t) \/ (i - Len(t) \in 1..Len(b) /\ d[i] = b[i - Len(t)])
  BY <1>1, Joined
<1> HIDE DEF c, d
<1>4. ASSUME NEW i \in 1..Len(d)
      PROVE  i + 1 \in 1..Len(c) /\ d[i] = c[i + 1]
  <2>1. i \in Nat \ {0} /\ i <= Len(t) + Len(b) /\ i + 1 \in 1..Len(c)
    BY <1>1, <1>2, <1>3
  <2>2. CASE i \in 1..Len(t)
    <3>1. i + 1 \in 1..Len(a)
      BY <1>1, <2>2
    <3> QED
      BY <1>1, <1>2, <1>3, <2>1, <2>2, <3>1
  <2>3. CASE i - Len(t) \in 1..Len(b) /\ d[i] = b[i - Len(t)]
    <3>1. c[Len(a) + (i - Len(t))] = b[i - Len(t)]
      BY <1>2, <2>3
    <3>2. Len(a) + (i - Len(t)) = i + 1
      BY <1>1, <2>1
    <3> QED
      BY <2>1, <2>3, <3>1, <3>2
  <2> QED
    BY <1>3, <2>2, <2>3
<1>5. \A k \in Asks(d, f) : k \in Nat \ {0} /\ k + 1 \in Asks(c, f) /\ d[k] = c[k + 1]
  BY <1>1, <1>2, <1>3, <1>4 DEF Asks
<1>6. LineKept(c, d, f)
  BY <1>3, <1>5, AsksShift
<1>7. ASSUME Head(a).type = "FileProposeStart", Head(a).id = f
      PROVE  1 \in Asks(c, f) /\ c[1] = Head(a)
  <2>1. c[1] = Head(a) /\ 1 \in 1..Len(c)
    BY <1>1, <1>2
  <2> QED
    BY <1>7, <2>1 DEF Asks
<1>8. ASSUME 1 \in Asks(c, f), NEW had, OneAsk(c, f, had), NEW k \in Asks(d, f)
      PROVE  FALSE
  <2>1. k + 1 = 1 /\ k \in Nat \ {0}
    BY <1>5, <1>8 DEF OneAsk
  <2> QED
    BY <2>1
<1> QED
  BY <1>1, <1>6, <1>7, <1>8 DEF c, d, t

\* The terminal puts packages at the end.
LEMMA LineSays ==
    ASSUME NEW a \in Seq(ProgramPackage), NEW b \in Seq(ProgramPackage), NEW f \in Files
    PROVE  /\ b \in Seq(ProgramPackage) /\ a \o b \in Seq(ProgramPackage)
           /\ (\A i \in 1..Len(b) : b[i].type = "FileProposeStart" => b[i].id # f) =>
                  LineKept(a, a \o b, f)
           /\ Len(b) = 1 /\ Asks(a, f) = {} => \A had : 
                  b[1].len = had.len /\ b[1].sound = had.sound => OneAsk(a \o b, f, had)
<1> DEFINE c == a \o b
<1>1. /\ c \in Seq(ProgramPackage)
      /\ Len(a) \in Nat /\ Len(b) \in Nat /\ Len(c) = Len(a) + Len(b)
      /\ \A i \in 1..Len(a) : c[i] = a[i]
      /\ \A i \in 1..Len(a) + Len(b) :
             i \in 1..Len(a) \/ (i - Len(a) \in 1..Len(b) /\ c[i] = b[i - Len(a)])
  BY Joined
<1> HIDE DEF c
<1>2. \A k \in Asks(c, f) :
          \/ k \in Asks(a, f) /\ c[k] = a[k] /\ k \in Nat
          \/ k - Len(a) \in Asks(b, f) /\ c[k] = b[k - Len(a)] /\ k \in Nat
  <2> TAKE k \in Asks(c, f)
  <2>1. k \in 1..Len(a) + Len(b) /\ c[k].type = "FileProposeStart" /\ c[k].id = f
    BY <1>1 DEF Asks
  <2>2. CASE k \in 1..Len(a)
    BY <1>1, <2>1, <2>2 DEF Asks
  <2>3. CASE k - Len(a) \in 1..Len(b) /\ c[k] = b[k - Len(a)]
    BY <1>1, <2>1, <2>3 DEF Asks
  <2> QED
    BY <1>1, <2>1, <2>2, <2>3
<1>3. ASSUME \A i \in 1..Len(b) : b[i].type = "FileProposeStart" => b[i].id # f
      PROVE  LineKept(a, c, f)
  <2>1. Asks(b, f) = {}
    BY <1>3 DEF Asks
  <2>2. \A k \in Asks(c, f) : k + 0 \in Asks(a, f) /\ c[k] = a[k + 0]
    BY <1>2, <2>1
  <2> QED
    BY <1>1, <2>2, AsksShift
<1>4. ASSUME Len(b) = 1, Asks(a, f) = {}, NEW had,
             b[1].len = had.len, b[1].sound = had.sound
      PROVE  OneAsk(c, f, had)
  <2>1. \A k \in Asks(b, f) : k = 1
    BY <1>4 DEF Asks
  <2>2. \A k \in Asks(c, f) : k - Len(a) = 1 /\ c[k] = b[1] /\ k \in Nat
    BY <1>2, <1>4, <2>1
  <2>3. \A k, l \in Asks(c, f) : k = l
    BY <1>1, <2>2
  <2> QED
    BY <1>4, <2>2, <2>3 DEF OneAsk
<1> QED
  BY <1>1, <1>3, <1>4 DEF c

\* What is read stays where it is.
LEMMA LineRead ==
    ASSUME NEW a \in Seq(ProgramPackage), NEW b \in Seq(ProgramPackage), NEW n \in 1..Len(b)
    PROVE  /\ (a \o SubSeq(b, 1, n)) \o SubSeq(b, n + 1, Len(b)) = a \o b
           /\ a \o SubSeq(b, 1, n) \in Seq(ProgramPackage)
           /\ SubSeq(b, n + 1, Len(b)) \in Seq(ProgramPackage)
<1> DEFINE front == SubSeq(b, 1, n)
           back  == SubSeq(b, n + 1, Len(b))
<1>1. Len(b) \in Nat /\ n \in Nat
  BY LenProperties
<1>2. front \in Seq(ProgramPackage) /\ back \in Seq(ProgramPackage)
  BY <1>1, SubSeqProperties, ElementOfSeq
<1>3. front \o back = b
  BY <1>1, ConcatAdjacentSubSeq, SubSeqFull
<1> HIDE DEF front, back
<1>4. (a \o front) \o back = a \o (front \o back)
  BY <1>2, Associative
<1>5. a \o front \in Seq(ProgramPackage)
  BY <1>2, ConcatProperties
<1> QED
  BY <1>2, <1>3, <1>4, <1>5 DEF front, back

\* One package is damaged.
LEMMA LineDamaged ==
    ASSUME NEW a \in Seq(ProgramPackage), NEW b \in Seq(ProgramPackage), b # <<>>,
           NEW f \in Files
    PROVE  /\ <<Plain("Broken")>> \o Tail(b) \in Seq(ProgramPackage)
           /\ LineKept(a \o b, a \o (<<Plain("Broken")>> \o Tail(b)), f)
<1> DEFINE x == <<Plain("Broken")>>
           t == Tail(b)
           y == x \o t
           c == a \o b
           d == a \o y
<1>1. Plain("Broken") \in ProgramPackage /\ Plain("Broken").type # "FileProposeStart"
  BY DEF Plain, ProgramPackage, PlainAnswers
<1>2. x \in Seq(ProgramPackage) /\ Len(x) = 1 /\ x[1].type # "FileProposeStart"
  BY <1>1
<1>3. /\ t \in Seq(ProgramPackage) /\ Len(b) \in Nat \ {0} /\ Len(t) = Len(b) - 1
      /\ \A i \in 1..Len(t) : t[i] = b[i + 1]
  BY HeadTailProperties, LenProperties, EmptySeq
<1> HIDE DEF x, t
<1>4. /\ y \in Seq(ProgramPackage) /\ Len(y) = Len(x) + Len(t)
      /\ \A i \in 1..Len(x) : y[i] = x[i]
      /\ \A i \in 1..Len(x) + Len(t) :
             i \in 1..Len(x) \/ (i - Len(x) \in 1..Len(t) /\ y[i] = t[i - Len(x)])
  BY <1>2, <1>3, Joined
<1>5. Len(y) = Len(b) /\ \A i \in 1..Len(b) : y[i].type = "FileProposeStart" => y[i] = b[i]
  <2>1. Len(y) = Len(b)
    BY <1>2, <1>3, <1>4
  <2>2. ASSUME NEW i \in 1..Len(b), y[i].type = "FileProposeStart"
        PROVE  y[i] = b[i]
    <3>1. CASE i = 1
      BY <1>2, <1>4, <2>2, <3>1
    <3>2. CASE i # 1
      <4>1. i - 1 \in 1..Len(t) /\ y[i] = t[i - 1] /\ (i - 1) + 1 = i
        BY <1>2, <1>3, <1>4, <3>2
      <4>2. t[i - 1] = b[(i - 1) + 1]
        BY <1>3, <4>1
      <4> QED
        BY <4>1, <4>2
    <3> QED
      BY <3>1, <3>2
  <2> QED
    BY <2>1, <2>2
<1> HIDE DEF y
<1>6. /\ Len(a) \in Nat /\ Len(c) = Len(a) + Len(b)
      /\ \A i \in 1..Len(a) : c[i] = a[i]
      /\ \A i \in 1..Len(b) : c[Len(a) + i] = b[i]
  BY Joined
<1>7. /\ d \in Seq(ProgramPackage) /\ Len(d) = Len(a) + Len(y)
      /\ \A i \in 1..Len(a) : d[i] = a[i]
      /\ \A i \in 1..Len(a) + Len(y) :
             i \in 1..Len(a) \/ (i - Len(a) \in 1..Len(y) /\ d[i] = y[i - Len(a)])
  BY <1>4, Joined
<1> HIDE DEF c, d
<1>8. ASSUME NEW k \in Asks(d, f)
      PROVE  k + 0 \in Asks(c, f) /\ d[k] = c[k + 0]
  <2>1. /\ k \in 1..Len(a) + Len(b) /\ k \in 1..Len(c) /\ k + 0 = k
        /\ d[k].type = "FileProposeStart" /\ d[k].id = f
    BY <1>3, <1>5, <1>6, <1>7 DEF Asks
  <2>2. CASE k \in 1..Len(a)
    BY <1>6, <1>7, <2>1, <2>2 DEF Asks
  <2>3. CASE k - Len(a) \in 1..Len(b) /\ d[k] = y[k - Len(a)]
    <3>1. d[k] = b[k - Len(a)]
      BY <1>5, <2>1, <2>3
    <3>2. c[Len(a) + (k - Len(a))] = b[k - Len(a)] /\ Len(a) + (k - Len(a)) = k
      BY <1>6, <2>1, <2>3
    <3> QED
      BY <2>1, <3>1, <3>2 DEF Asks
  <2> QED
    BY <1>5, <1>7, <2>1, <2>2, <2>3
<1>9. LineKept(c, d, f)
  BY <1>7, <1>8, AsksShift
<1> QED
  BY <1>4, <1>9 DEF c, d, y, x, t


-----------------------------------------------------------------------------
\* The steps.

\* What does not change holds still.
LEMMA Fixed ==
    ASSUME NEW ts, NEW f
    PROVE  Kept(ts, ts, f) /\ LineKept(ts, ts, f)
BY DEF Kept, LineKept

\* A signal only weakens a chain.
LEMMA ChainAfter ==
    ASSUME NEW ts, NEW had, NEW f, NEW sig \in BOOLEAN, NEW after \in BOOLEAN,
           sig => after, Chain(ts, had, f, sig)
    PROVE  Chain(ts, had, f, after)
BY DEF Chain

\* The invariant of a file in a state that has its type.
LEMMA FileIs ==
    ASSUME TransferInv, NEW f \in Files, Size[f] > 0
    PROVE  /\ FileInv(f) /\ DataTypeOK
           /\ store[f] \in Part /\ signaled \in BOOLEAN /\ Size[f] \in Nat
           /\ toTerminal \in Seq(TerminalPackage)
           /\ bufferM \in Seq(ProgramPackage) /\ toProgram \in Seq(ProgramPackage)
           /\ Line \in Seq(ProgramPackage)
<1>1. DataTypeOK /\ FileInv(f)
  BY DEF TransferInv
<1>2. Size[f] \in Nat
  BY SfAssumption
<1>3. Line \in Seq(ProgramPackage)
  BY <1>1, Joined DEF DataTypeOK, Line
<1> QED
  BY <1>1, <1>2, <1>3 DEF DataTypeOK

\* A step that is about another file, or about none.
LEMMA OtherKeeps ==
    ASSUME TransferInv, NEW f \in Files, Size[f] > 0,
           Kept(toTerminal, toTerminal', f), LineKept(Line, Line', f),
           store'[f] = store[f], f \in done' <=> f \in done,
           signaled => signaled', signaled' \in BOOLEAN,
           Fresh(f)' => Fresh(f),
           Streaming(f)' => Streaming(f) /\ zmodemFileMapM'[f].pos = zmodemFileMapM[f].pos
    PROVE  FileInv(f)'
<1>1. FileInv(f) /\ store[f] \in Part /\ signaled \in BOOLEAN
  BY FileIs
<1>2. Chain(toTerminal', store'[f], f, signaled')
  <2>1. Chain(toTerminal', store[f], f, signaled)
    BY <1>1 DEF FileInv, Kept
  <2> QED
    BY <1>1, <2>1, ChainAfter
<1>3. OneAsk(Line', f, store'[f])
  BY <1>1 DEF FileInv, LineKept
<1>4. /\ Asks(Line', f) # {} => Asks(Line, f) # {}
      /\ Places(toTerminal, f) = {} => Places(toTerminal', f) = {}
      /\ HasInfo(toTerminal', f) => HasInfo(toTerminal, f)
  BY DEF Kept, LineKept
<1>5. /\ Fresh(f)' => Asks(Line', f) = {}
      /\ Fresh(f)' \/ Asks(Line', f) # {} => Places(toTerminal', f) = {}
  BY <1>1, <1>4 DEF FileInv
<1>6. Fresh(f)' \/ Asks(Line', f) # {} \/ HasInfo(toTerminal', f) =>
          ~Streaming(f)' /\ f \notin done'
  BY <1>1, <1>4 DEF FileInv
<1>7. ASSUME Streaming(f)'
      PROVE  /\ GoesOnAt(toTerminal', store'[f], f, zmodemFileMapM'[f].pos)
             /\ zmodemFileMapM'[f].pos <= Size[f] /\ f \notin done'
  <2>1. Streaming(f) /\ zmodemFileMapM'[f].pos = zmodemFileMapM[f].pos
    BY <1>7
  <2>2. zmodemFileMapM[f].pos \in Nat
    BY <2>1 DEF Streaming, TransferInv, DataTypeOK
  <2>3. /\ GoesOnAt(toTerminal, store[f], f, zmodemFileMapM[f].pos)
        /\ zmodemFileMapM[f].pos <= Size[f] /\ f \notin done
    BY <1>1, <2>1 DEF FileInv
  <2>4. GoesOnAt(toTerminal', store[f], f, zmodemFileMapM[f].pos)
    BY <1>1, <2>2, <2>3 DEF Kept
  <2> QED
    BY <2>1, <2>3, <2>4
<1>8. f \in done' =>
          /\ Places(toTerminal', f) = {} /\ store'[f].sound
          /\ signaled' \/ store'[f].len = Size[f]
  BY <1>1, <1>4 DEF FileInv
<1> QED
  BY <1>2, <1>3, <1>5, <1>6, <1>7, <1>8 DEF FileInv

\* A step that is about no file.
LEMMA AsideStep ==
    ASSUME TransferInv, UNCHANGED <<store, done, fileVars>>,
           signaled => signaled', signaled' \in BOOLEAN,
           toTerminal' \in Seq(TerminalPackage),
           bufferM' \in Seq(ProgramPackage), toProgram' \in Seq(ProgramPackage),
           \A f \in Files : Kept(toTerminal, toTerminal', f) /\ LineKept(Line, Line', f)
    PROVE  TransferInv'
<1>1. DataTypeOK'
  BY DEF TransferInv, DataTypeOK, fileVars
<1>2. ASSUME NEW f \in Files, Size[f] > 0
      PROVE  FileInv(f)'
  <2>1. Fresh(f)' => Fresh(f)
    BY DEF Fresh, fileVars
  <2>2. Streaming(f)' => Streaming(f) /\ zmodemFileMapM'[f].pos = zmodemFileMapM[f].pos
    BY DEF Streaming, fileVars
  <2> QED
    BY <1>2, <2>1, <2>2, OtherKeeps
<1> QED
  BY <1>1, <1>2 DEF TransferInv

\* Sending a package puts it at the end, or loses it after a signal.
LEMMA SendIs ==
    ASSUME DataTypeOK, NEW p \in TerminalPackage, Sends(p)
    PROVE  /\ toTerminal' = Append(toTerminal, p) \/ (signaled /\ toTerminal' = toTerminal)
           /\ toTerminal' \in Seq(TerminalPackage)
<1>1. toTerminal \in Seq(TerminalPackage)
  BY DEF DataTypeOK
<1>2. PICK sent \in Written(p, signaled) : toTerminal' = toTerminal \o sent
  BY DEF Sends
<1>3. CASE sent = <<p>>
  BY <1>1, <1>2, <1>3, AppendIsConcat, PutIs
<1>4. CASE signaled /\ sent = <<>>
  BY <1>1, <1>2, <1>4, ConcatEmptySeq
<1> QED
  BY <1>2, <1>3, <1>4 DEF Written

\* A package that is about no file is sent.
LEMMA PlainSent ==
    ASSUME DataTypeOK, UNCHANGED toTerminal \/ \E type \in PlainTypes : Sends(Plain(type))
    PROVE  /\ toTerminal' \in Seq(TerminalPackage)
           /\ \A f \in Files : Kept(toTerminal, toTerminal', f)
<1>1. toTerminal \in Seq(TerminalPackage)
  BY DEF DataTypeOK
<1>2. CASE UNCHANGED toTerminal
  BY <1>1, <1>2, Fixed
<1>3. CASE \E type \in PlainTypes : Sends(Plain(type))
  <2>1. PICK type \in PlainTypes : Sends(Plain(type))
    BY <1>3
  <2>2. Plain(type) \in TerminalPackage /\ Plain(type).type \notin FileTypes
    BY DEF Plain, TerminalPackage, PlainTypes, FileTypes
  <2>3. /\ toTerminal' = Append(toTerminal, Plain(type)) \/ toTerminal' = toTerminal
        /\ toTerminal' \in Seq(TerminalPackage)
    BY <2>1, <2>2, SendIs
  <2> QED
    BY <1>1, <2>2, <2>3, PutOther, Fixed
<1> QED
  BY <1>2, <1>3

\* The packages of the buffer that parsePkg leaves.
LEMMA PopIs ==
    ASSUME DataTypeOK, bufferM # <<>>, bufferM' = Tail(bufferM), UNCHANGED toProgram
    PROVE  /\ bufferM' \in Seq(ProgramPackage) /\ toProgram' \in Seq(ProgramPackage)
           /\ Head(bufferM) \in ProgramPackage
           /\ \A f \in Files : LineKept(Line, Line', f)
           /\ \A f \in Files :
                  Head(bufferM).type = "FileProposeStart" /\ Head(bufferM).id = f =>
                      /\ 1 \in Asks(Line, f) /\ Line[1] = Head(bufferM)
                      /\ \A had : OneAsk(Line, f, had) => Asks(Line', f) = {}
<1>1. bufferM \in Seq(ProgramPackage) /\ toProgram \in Seq(ProgramPackage)
  BY DEF DataTypeOK
<1>2. Line = bufferM \o toProgram /\ Line' = Tail(bufferM) \o toProgram
  BY DEF Line
<1>3. Tail(bufferM) \in Seq(ProgramPackage) /\ Head(bufferM) \in ProgramPackage
  BY <1>1, HeadTailProperties
<1> QED
  BY <1>1, <1>2, <1>3, LinePops

\* A handler of parsePkg that is about no file.
LEMMA PopStep ==
    ASSUME TransferInv, bufferM # <<>>, bufferM' = Tail(bufferM),
           UNCHANGED <<toProgram, signaled, store, done, fileVars>>,
           UNCHANGED toTerminal \/ \E type \in PlainTypes : Sends(Plain(type))
    PROVE  TransferInv'
<1>1. DataTypeOK
  BY DEF TransferInv
<1>2. /\ bufferM' \in Seq(ProgramPackage) /\ toProgram' \in Seq(ProgramPackage)
      /\ \A f \in Files : LineKept(Line, Line', f)
  BY <1>1, PopIs
<1>3. toTerminal' \in Seq(TerminalPackage) /\ \A f \in Files : Kept(toTerminal, toTerminal', f)
  BY <1>1, PlainSent
<1> QED
  BY <1>1, <1>2, <1>3, AsideStep DEF DataTypeOK

\* A function that is about no file and leaves the buffer alone.
LEMMA StillStep ==
    ASSUME TransferInv, Line' = Line,
           bufferM' \in Seq(ProgramPackage), toProgram' \in Seq(ProgramPackage),
           signaled => signaled', signaled' \in BOOLEAN,
           UNCHANGED <<store, done, fileVars>>,
           UNCHANGED toTerminal \/ \E type \in PlainTypes : Sends(Plain(type))
    PROVE  TransferInv'
<1>1. DataTypeOK
  BY DEF TransferInv
<1>2. \A f \in Files : LineKept(Line, Line', f)
  BY Fixed
<1>3. toTerminal' \in Seq(TerminalPackage) /\ \A f \in Files : Kept(toTerminal, toTerminal', f)
  BY <1>1, PlainSent
<1> QED
  BY <1>2, <1>3, AsideStep


\* The next file is announced.
LEMMA InfoStep ==
    ASSUME TransferInv, SendFileInfo, UNCHANGED receiverVars
    PROVE  TransferInv'
<1>1. UNCHANGED <<store, done, toProgram, bufferM, signaled>> /\ Line' = Line
  BY DEF SendFileInfo, receiverVars, Line
<1>2. CASE filesM = <<>>
  <2>1. UNCHANGED <<toTerminal, fileVars>>
    BY <1>2 DEF SendFileInfo
  <2> QED
    BY <1>1, <2>1, StillStep DEF TransferInv, DataTypeOK
<1>3. CASE filesM # <<>>
  <2>2. DataTypeOK
    BY DEF TransferInv
  <2>0. /\ filesM \in Seq(Files) /\ Len(filesM) \in Nat \ {0}
        /\ filesM[Len(filesM)] \in Files
    <3>1. filesM \in Seq(Files) /\ Len(filesM) \in Nat \ {0}
      BY <1>3, <2>2, LenProperties, EmptySeq DEF DataTypeOK
    <3> QED
      BY <3>1, ElementOfSeq
  <2>3. PICK g \in Files : g = filesM[Len(filesM)]
    BY <2>0
  <2> DEFINE info == [type |-> "FileInfo", id |-> g]
  <2>1. /\ zmodemFileMapM' = Announced(g) /\ filesM' = Front(filesM) /\ Sends(info)
    BY <1>3, <2>3 DEF SendFileInfo, Last
  <2>4. /\ filesM' \in Seq(Files) /\ Len(filesM') = Len(filesM) - 1
        /\ \A i \in 1..Len(filesM') : filesM'[i] = filesM[i]
    <3>1. filesM' = SubSeq(filesM, 1, Len(filesM) - 1)
      BY <2>1 DEF Front
    <3>2. \A i \in 1..Len(filesM) - 1 : filesM[i] \in Files
      BY <2>0, ElementOfSeq
    <3> DEFINE n == Len(filesM) - 1
    <3>3. n \in Nat /\ n = Len(filesM) - 1
      BY <2>0
    <3> HIDE DEF n
    <3>4. /\ SubSeq(filesM, 1, n) \in Seq(Files)
          /\ Len(SubSeq(filesM, 1, n)) = IF 1 <= n THEN n - 1 + 1 ELSE 0
          /\ \A i \in 1..n - 1 + 1 : SubSeq(filesM, 1, n)[i] = filesM[1 + i - 1]
      BY <3>2, <3>3, SubSeqProperties
    <3>5. n - 1 + 1 = n /\ (IF 1 <= n THEN n - 1 + 1 ELSE 0) = n
      BY <3>3
    <3>6. \A i \in 1..n : 1 + i - 1 = i
      BY <3>3
    <3> QED
      BY <3>1, <3>3, <3>4, <3>5, <3>6
  <2>5. \A i, j \in 1..Len(filesM') : i # j => filesM'[i] # filesM'[j]
    BY <2>0, <2>2, <2>4 DEF DataTypeOK
  <2>6. info \in TerminalPackage
    BY <2>3 DEF TerminalPackage
  <2>7. /\ toTerminal' = Append(toTerminal, info) \/ toTerminal' = toTerminal
        /\ toTerminal' \in Seq(TerminalPackage)
    BY <2>1, <2>2, <2>6, SendIs
  <2>8. /\ DOMAIN zmodemFileMapM' = DOMAIN zmodemFileMapM \cup {g}
        /\ \A f \in DOMAIN zmodemFileMapM' :
               zmodemFileMapM'[f] = IF f = g THEN [pos |-> 0, stream |-> "closed"]
                                    ELSE zmodemFileMapM[f]
        /\ zmodemFileMapM' = [f \in DOMAIN zmodemFileMapM' |-> zmodemFileMapM'[f]]
    BY <2>1 DEF Announced
  <2>9. /\ DOMAIN zmodemFileMapM' \subseteq Files
        /\ zmodemFileMapM' \in
               [DOMAIN zmodemFileMapM' -> [pos : Nat, stream : {"closed", "good", "end"}]]
    <3>1. \A f \in DOMAIN zmodemFileMapM :
              zmodemFileMapM[f] \in [pos : Nat, stream : {"closed", "good", "end"}]
      BY <2>2 DEF DataTypeOK
    <3>2. \A f \in DOMAIN zmodemFileMapM' :
              zmodemFileMapM'[f] \in [pos : Nat, stream : {"closed", "good", "end"}]
      BY <2>8, <3>1
    <3> QED
      BY <2>2, <2>3, <2>8, <3>2 DEF DataTypeOK
  <2>10. DataTypeOK'
    BY <1>1, <2>2, <2>4, <2>5, <2>7, <2>9 DEF DataTypeOK
  <2>11. ~Fresh(g)'
    BY <2>0, <2>2, <2>3, <2>4 DEF Fresh, DataTypeOK
  <2>12. Fresh(g)
    BY <2>0, <2>3 DEF Fresh
  <2> HIDE DEF info
  <2>13. ASSUME NEW f \in Files, Size[f] > 0, f # g
         PROVE  FileInv(f)'
    <3>1. Kept(toTerminal, toTerminal', f) /\ LineKept(Line, Line', f)
      <4>1. Kept(toTerminal, Append(toTerminal, info), f)
        BY <2>2, <2>6, <2>13, PutOther DEF DataTypeOK, info
      <4> QED
        BY <1>1, <2>7, <4>1, Fixed
    <3>2. Fresh(f)' => Fresh(f)
      BY <2>0, <2>4 DEF Fresh
    <3>3. Streaming(f)' => Streaming(f) /\ zmodemFileMapM'[f].pos = zmodemFileMapM[f].pos
      BY <1>1, <2>8, <2>13 DEF Streaming
    <3> QED
      BY <1>1, <2>2, <2>13, <3>1, <3>2, <3>3, OtherKeeps DEF DataTypeOK
  <2>14. ASSUME Size[g] > 0
         PROVE  FileInv(g)'
    <3>1. /\ FileInv(g) /\ store[g] \in Part /\ signaled \in BOOLEAN
          /\ toTerminal \in Seq(TerminalPackage)
      BY <2>3, <2>14, FileIs
    <3>2. Places(toTerminal, g) = {} /\ Asks(Line, g) = {} /\ g \notin done
      BY <2>12, <3>1 DEF FileInv
    <3>3. Chain(toTerminal', store[g], g, signaled)
      <4>1. Chain(toTerminal, store[g], g, signaled)
        BY <3>1 DEF FileInv
      <4>2. info.type = "FileInfo" /\ info.id = g
        BY DEF info
      <4>3. Chain(Append(toTerminal, info), store[g], g, signaled)
        BY <2>6, <3>1, <3>2, <4>2, PutInfo
      <4> QED
        BY <2>7, <4>1, <4>3
    <3>4. ~Streaming(g)'
      BY <2>8 DEF Streaming
    <3>5. OneAsk(Line', g, store'[g])
      BY <1>1, <3>1 DEF FileInv
    <3> QED
      BY <1>1, <2>11, <3>2, <3>3, <3>4, <3>5 DEF FileInv
  <2> QED
    BY <2>10, <2>13, <2>14 DEF TransferInv
<1> QED
  BY <1>2, <1>3

\* The end of a file is acknowledged.
LEMMA AckStep ==
    ASSUME TransferInv, HandlesFileCompleteAck, UNCHANGED receiverVars
    PROVE  TransferInv'
<1> DEFINE g == Head(bufferM).id
<1>1. /\ bufferM # <<>> /\ bufferM' = Tail(bufferM) /\ zmodemFileMapM' = Forgetting(g)
      /\ UNCHANGED <<toProgram, signaled, store, done, toTerminal, filesM>>
  BY DEF HandlesFileCompleteAck, Parses, Handled, receiverVars
<1>2. /\ DOMAIN zmodemFileMapM' = DOMAIN zmodemFileMapM \ {g}
      /\ \A f \in DOMAIN zmodemFileMapM' : zmodemFileMapM'[f] = zmodemFileMapM[f]
      /\ zmodemFileMapM' = [f \in DOMAIN zmodemFileMapM' |-> zmodemFileMapM'[f]]
  BY <1>1 DEF Forgetting
<1>3. DataTypeOK
  BY DEF TransferInv
<1>4. /\ bufferM' \in Seq(ProgramPackage) /\ toProgram' \in Seq(ProgramPackage)
      /\ \A f \in Files : LineKept(Line, Line', f)
  BY <1>1, <1>3, PopIs
<1>5. /\ DOMAIN zmodemFileMapM' \subseteq Files
      /\ zmodemFileMapM' \in
             [DOMAIN zmodemFileMapM' -> [pos : Nat, stream : {"closed", "good", "end"}]]
  BY <1>2, <1>3 DEF DataTypeOK
<1>6. DataTypeOK'
  BY <1>1, <1>3, <1>4, <1>5 DEF DataTypeOK
<1>7. ASSUME NEW f \in Files, Size[f] > 0
      PROVE  FileInv(f)'
  <2>1. Kept(toTerminal, toTerminal', f)
    BY <1>1, Fixed
  <2>2. Fresh(f)' => Fresh(f)
    BY <1>1 DEF Fresh
  <2>3. Streaming(f)' => Streaming(f) /\ zmodemFileMapM'[f].pos = zmodemFileMapM[f].pos
    BY <1>1, <1>2 DEF Streaming
  <2> QED
    BY <1>1, <1>3, <1>4, <1>7, <2>1, <2>2, <2>3, OtherKeeps DEF DataTypeOK
<1> QED
  BY <1>6, <1>7 DEF TransferInv

\* What sf takes of a proposal: all of it, or nothing.
LEMMA ValidIs ==
    ASSUME NEW p, p.id \in Files, p.len \in Nat
    PROVE  /\ ValidLen(p) \in Nat /\ ValidLen(p) <= Size[p.id]
           /\ ValidLen(p) > 0 => p.len = ValidLen(p) /\ p.sound /\ ~signaled
<1>1. Size[p.id] \in Nat
  BY SfAssumption
<1> QED
  BY <1>1 DEF ValidLen

\* A part is taken as it is.
LEMMA PartIs ==
    ASSUME NEW had \in Part, had.sound, NEW n, had.len = n
    PROVE  had = [len |-> n, sound |-> TRUE]
BY DEF Part

\* A proposal is answered.
LEMMA ProposalStep ==
    ASSUME TransferInv, HandlesFileProposeStart, UNCHANGED receiverVars
    PROVE  TransferInv'
<1>0. PICK g : g = Head(bufferM).id
  OBVIOUS
<1> DEFINE p == Head(bufferM)
           pos == ValidLen(p)
           end   == [type |-> "FileComplete", id |-> g]
           start == [type |-> "FileInitPos", id |-> g, pos |-> pos]
<1>1. /\ p.id = g
      /\ bufferM # <<>> /\ bufferM' = Tail(bufferM) /\ p.type = "FileProposeStart"
      /\ UNCHANGED <<toProgram, signaled, store, done, filesM>>
  BY <1>0 DEF HandlesFileProposeStart, Parses, Handled, receiverVars
<1>2. \/ UNCHANGED <<toTerminal, zmodemFileMapM>>
      \/ pos = Size[g] /\ Sends(end) /\ UNCHANGED zmodemFileMapM
      \/ /\ g \in DOMAIN zmodemFileMapM /\ pos # Size[g] /\ Sends(start)
         /\ zmodemFileMapM' = [zmodemFileMapM EXCEPT ![g] = [pos |-> pos, stream |-> "good"]]
  BY <1>0 DEF HandlesFileProposeStart, Known
<1>3. DataTypeOK
  BY DEF TransferInv
<1>4. /\ bufferM' \in Seq(ProgramPackage) /\ toProgram' \in Seq(ProgramPackage)
      /\ p \in ProgramPackage
      /\ \A f \in Files : LineKept(Line, Line', f)
      /\ \A f \in Files : g = f =>
             /\ 1 \in Asks(Line, f) /\ Line[1] = p
             /\ \A had : OneAsk(Line, f, had) => Asks(Line', f) = {}
  BY <1>1, <1>3, PopIs
<1>5. g \in Files /\ p.len \in Nat /\ p.sound \in BOOLEAN
  BY <1>1, <1>4 DEF ProgramPackage, PlainAnswers
<1>6. /\ pos \in Nat /\ pos <= Size[g] /\ Size[g] \in Nat
      /\ pos > 0 => p.len = pos /\ p.sound /\ ~signaled
  BY <1>1, <1>5, ValidIs, SfAssumption
<1> HIDE DEF p, pos
<1>7. end \in TerminalPackage /\ start \in TerminalPackage
  BY <1>5, <1>6 DEF TerminalPackage
<1>8. /\ \/ toTerminal' = toTerminal /\ (UNCHANGED zmodemFileMapM \/ signaled)
         \/ toTerminal' = Append(toTerminal, end) /\ pos = Size[g] /\ UNCHANGED zmodemFileMapM
         \/ toTerminal' = Append(toTerminal, start) /\ pos # Size[g]
      /\ toTerminal' \in Seq(TerminalPackage)
  BY <1>2, <1>3, <1>7, SendIs DEF DataTypeOK
<1>9. /\ DOMAIN zmodemFileMapM' = DOMAIN zmodemFileMapM
      /\ \A f \in DOMAIN zmodemFileMapM :
             \/ zmodemFileMapM'[f] = zmodemFileMapM[f]
             \/ f = g /\ zmodemFileMapM'[f] = [pos |-> pos, stream |-> "good"]
      /\ zmodemFileMapM' = [f \in DOMAIN zmodemFileMapM' |-> zmodemFileMapM'[f]]
  <2>1. zmodemFileMapM = [f \in DOMAIN zmodemFileMapM |-> zmodemFileMapM[f]]
    BY <1>3 DEF DataTypeOK
  <2>2. CASE UNCHANGED zmodemFileMapM
    BY <2>1, <2>2
  <2>3. CASE zmodemFileMapM' = [zmodemFileMapM EXCEPT ![g] = [pos |-> pos, stream |-> "good"]]
    BY <2>1, <2>3
  <2> QED
    BY <1>2, <2>2, <2>3
<1>10. zmodemFileMapM' \in
           [DOMAIN zmodemFileMapM' -> [pos : Nat, stream : {"closed", "good", "end"}]]
  <2>1. \A f \in DOMAIN zmodemFileMapM :
            zmodemFileMapM[f] \in [pos : Nat, stream : {"closed", "good", "end"}]
    BY <1>3 DEF DataTypeOK
  <2>2. \A f \in DOMAIN zmodemFileMapM' :
            zmodemFileMapM'[f] \in [pos : Nat, stream : {"closed", "good", "end"}]
    BY <1>6, <1>9, <2>1
  <2> QED
    BY <1>9, <2>2
<1>11. DataTypeOK'
  BY <1>1, <1>3, <1>4, <1>8, <1>9, <1>10 DEF DataTypeOK
<1>12. ASSUME NEW f \in Files, Size[f] > 0, f # g
       PROVE  FileInv(f)'
  <2>1. Kept(toTerminal, toTerminal', f)
    <3>1. /\ Kept(toTerminal, Append(toTerminal, end), f)
          /\ Kept(toTerminal, Append(toTerminal, start), f)
      BY <1>3, <1>7, <1>12, PutOther DEF DataTypeOK
    <3> QED
      BY <1>8, <3>1, Fixed
  <2>2. Fresh(f)' => Fresh(f)
    BY <1>1 DEF Fresh
  <2>3. Streaming(f)' => Streaming(f) /\ zmodemFileMapM'[f].pos = zmodemFileMapM[f].pos
    BY <1>1, <1>9, <1>12 DEF Streaming
  <2> QED
    BY <1>1, <1>3, <1>4, <1>12, <2>1, <2>2, <2>3, OtherKeeps DEF DataTypeOK
<1>13. ASSUME Size[g] > 0
       PROVE  FileInv(g)'
  <2> DEFINE had == store[g]
  <2>1. /\ FileInv(g) /\ had \in Part /\ signaled \in BOOLEAN
        /\ toTerminal \in Seq(TerminalPackage)
    BY <1>5, <1>13, FileIs
  <2>2. /\ 1 \in Asks(Line, g) /\ Line[1] = p
        /\ OneAsk(Line, g, had) => Asks(Line', g) = {}
    BY <1>4, <1>5
  <2>3. /\ Places(toTerminal, g) = {} /\ ~Streaming(g) /\ g \notin done /\ ~Fresh(g)
        /\ Asks(Line', g) = {} /\ p.len = had.len /\ p.sound = had.sound
        /\ Chain(toTerminal, had, g, signaled)
    BY <2>1, <2>2 DEF FileInv, OneAsk
  <2>4. pos > 0 => had = [len |-> pos, sound |-> TRUE]
    BY <1>6, <2>1, <2>3, PartIs
  <2>5. ~Fresh(g)' /\ OneAsk(Line', g, store'[g])
    BY <1>1, <2>3 DEF Fresh, OneAsk
  <2>9. end.type \in FileTypes /\ end.id = g /\ end.type = "FileComplete"
    BY DEF FileTypes
  <2>10. /\ start.type \in FileTypes /\ start.id = g /\ start.type = "FileInitPos"
         /\ start.pos = pos /\ End(start) = pos
    BY DEF FileTypes, End
  <2> HIDE DEF had, start, end
  <2>6. CASE toTerminal' = toTerminal /\ (UNCHANGED zmodemFileMapM \/ signaled)
    <3>1. ~Streaming(g)'
      BY <1>1, <2>3, <2>6 DEF Streaming
    <3>2. ~HasInfo(toTerminal', g)
      BY <2>3, <2>6 DEF HasInfo
    <3> QED
      BY <1>1, <2>3, <2>5, <2>6, <3>1, <3>2 DEF FileInv, had
  <2>7. CASE toTerminal' = Append(toTerminal, end) /\ pos = Size[g] /\ UNCHANGED zmodemFileMapM
    <3>1. had = [len |-> Size[g], sound |-> TRUE]
      BY <1>13, <2>4, <2>7
    <3>2. Reached(toTerminal, had, g, Len(toTerminal) + 1, Size[g])
      BY <2>3, <3>1 DEF Reached
    <3>4. \E n \in 0..Size[g] : /\ Reached(toTerminal, had, g, Len(toTerminal) + 1, n)
                                /\ n = Size[g] \/ signaled
      BY <1>6, <3>2
    <3>5. Chain(toTerminal', had, g, signaled)
      BY <1>5, <1>7, <2>1, <2>3, <2>7, <2>9, <3>4, PutNext
    <3>6. ~HasInfo(toTerminal', g)
      <4>1. /\ Places(toTerminal', g) = Places(toTerminal, g) \cup {Len(toTerminal) + 1}
            /\ toTerminal'[Len(toTerminal) + 1] = end
        <5>1. /\ toTerminal \in Seq(TerminalPackage) /\ end \in TerminalPackage
              /\ g \in Files /\ end.type \in FileTypes /\ end.id = g
          BY <1>5, <1>7, <2>1, <2>7, <2>9
        <5>2. /\ Places(Append(toTerminal, end), g) = Places(toTerminal, g) \cup {Len(toTerminal) + 1}
              /\ Append(toTerminal, end)[Len(toTerminal) + 1] = end
          BY <5>1, PutPlaces, ZenonT(30)
        <5> QED
          BY <2>7, <5>2
      <4> QED
        BY <2>3, <2>9, <4>1 DEF HasInfo
    <3>7. ~Streaming(g)'
      BY <1>1, <2>3, <2>7 DEF Streaming
    <3> QED
      BY <1>1, <2>3, <2>5, <3>5, <3>6, <3>7 DEF FileInv, had
  <2>8. CASE toTerminal' = Append(toTerminal, start) /\ pos # Size[g]
    <3>2. Chain(toTerminal', had, g, signaled)
      BY <1>5, <1>7, <2>1, <2>3, <2>4, <2>8, <2>10, PutNext
    <3>3. ~HasInfo(toTerminal', g)
      <4>0. start.type \in FileTypes /\ start.id = g
        BY <2>10
      <4>1. /\ Places(toTerminal', g) = Places(toTerminal, g) \cup {Len(toTerminal) + 1}
            /\ toTerminal'[Len(toTerminal) + 1] = start
        BY <1>5, <1>7, <2>1, <2>8, <4>0, PutPlaces
      <4> QED
        BY <2>3, <2>10, <4>1 DEF HasInfo
    <3>4. GoesOnAt(toTerminal', had, g, pos)
      BY <1>5, <1>7, <2>1, <2>3, <2>8, <2>10, PutGoesOn
    <3>5. Streaming(g)' => zmodemFileMapM'[g].pos = pos
      BY <1>1, <1>9, <2>3 DEF Streaming
    <3> QED
      BY <1>1, <1>6, <2>3, <2>5, <3>2, <3>3, <3>4, <3>5 DEF FileInv, had
  <2> QED
    BY <1>8, <2>6, <2>7, <2>8
<1> QED
  BY <1>11, <1>12, <1>13 DEF TransferInv


\* The smaller of two numbers.
LEMMA MinOfTwo ==
    ASSUME NEW a \in Int, NEW b \in Int
    PROVE  Min({a, b}) = IF a <= b THEN a ELSE b
<1>1. CASE a <= b
  <2>1. a \in {a, b} /\ \A y \in {a, b} : a =< y
    BY <1>1
  <2>2. \A x \in {a, b} : (\A y \in {a, b} : x =< y) => x = a
    BY <1>1
  <2> QED
    BY <1>1, <2>1, <2>2 DEF Min
<1>2. CASE ~(a <= b)
  <2>1. b \in {a, b} /\ \A y \in {a, b} : b =< y
    BY <1>2
  <2>2. \A x \in {a, b} : (\A y \in {a, b} : x =< y) => x = b
    BY <1>2
  <2> QED
    BY <1>2, <2>1, <2>2 DEF Min
<1> QED
  BY <1>1, <1>2

\* A file stays typed when a block of it is read.
LEMMA AfterReadType ==
    ASSUME NEW f \in Files, NEW file, file.pos \in Nat
    PROVE  AfterRead(file, f) \in [pos : Nat, stream : {"closed", "good", "end"}]
<1>1. Size[f] \in Nat /\ Block \in Nat \ {0}
  BY SfAssumption
<1> DEFINE step == Min({Block, Size[f] - file.pos})
<1>2. step = IF Block <= Size[f] - file.pos THEN Block ELSE Size[f] - file.pos
  BY <1>1, MinOfTwo
<1>3. AfterRead(file, f) = [pos |-> file.pos + step,
                            stream |-> IF file.pos + Block <= Size[f] THEN "good" ELSE "end"]
  BY DEF AfterRead
<1> HIDE DEF step
<1>4. file.pos + step \in Nat
  BY <1>1, <1>2
<1> QED
  BY <1>3, <1>4

\* A block more of a file takes it on, at most to its end; it is good until then.
LEMMA ReadIs ==
    ASSUME NEW f \in Files, NEW file, file.pos \in Nat, file.pos <= Size[f]
    PROVE  /\ AfterRead(file, f).pos \in Nat /\ AfterRead(file, f).pos >= file.pos
           /\ AfterRead(file, f).pos <= Size[f]
           /\ AfterRead(file, f).stream \in {"good", "end"}
           /\ AfterRead(file, f).stream # "good" => AfterRead(file, f).pos = Size[f]
           /\ file.pos = Size[f] => AfterRead(file, f).stream # "good"
<1>1. Size[f] \in Nat /\ Block \in Nat \ {0}
  BY SfAssumption
<1>2. Min({Block, Size[f] - file.pos}) =
          IF Block <= Size[f] - file.pos THEN Block ELSE Size[f] - file.pos
  BY <1>1, MinOfTwo
<1> DEFINE step == Min({Block, Size[f] - file.pos})
<1>3. /\ AfterRead(file, f).pos = file.pos + step
      /\ AfterRead(file, f).stream = IF file.pos + Block <= Size[f] THEN "good" ELSE "end"
  BY DEF AfterRead
<1>4. step = IF Block <= Size[f] - file.pos THEN Block ELSE Size[f] - file.pos
  BY <1>2
<1> HIDE DEF step
<1> QED
  BY <1>1, <1>3, <1>4

\* The files of which sendFileContent reads a block.
Good   == {f \in DOMAIN zmodemFileMapM : zmodemFileMapM[f].stream = "good" /\ ~signaled}
Unread == {f \in Good : zmodemFileMapM[f].pos < Size[f]}
Tried  == IF Unread = {} THEN Good ELSE {f \in Good : f <= Min(Unread)}

\* After that only the one with the next block, and those that were not tried,
\* are good.
LEMMA TriedAre ==
    ASSUME TransferInv, SendFileContent
    PROVE  /\ DataTypeOK /\ \A f : f \in Good <=> Streaming(f)
           /\ Unread # {} => Min(Unread) \in Unread
           /\ DOMAIN zmodemFileMapM' = DOMAIN zmodemFileMapM
           /\ zmodemFileMapM' \in
                  [DOMAIN zmodemFileMapM' -> [pos : Nat, stream : {"closed", "good", "end"}]]
           /\ \A f \in DOMAIN zmodemFileMapM :
                  zmodemFileMapM'[f] = IF f \in Tried THEN AfterRead(zmodemFileMapM[f], f)
                                       ELSE zmodemFileMapM[f]
           /\ \A f \in Files : Size[f] > 0 /\ f \in Tried =>
                  \/ Unread # {} /\ f = Min(Unread)
                  \/ zmodemFileMapM'[f].stream # "good"
<1>1. DataTypeOK
  BY DEF TransferInv
<1>2. \A f : f \in Good <=> Streaming(f)
  BY DEF Good, Streaming
<1>3. Unread \in SUBSET Nat /\ Tried \subseteq Good /\ Unread \subseteq Good
  <2>1. Good \subseteq Files /\ Files \subseteq Nat
    BY <1>1, SfAssumption DEF Good, DataTypeOK
  <2> QED
    BY <2>1 DEF Unread, Tried
<1>4. Unread # {} => Min(Unread) \in Unread /\ \A f \in Unread : Min(Unread) <= f
  BY <1>3, Least
<1>5. zmodemFileMapM' = [f \in DOMAIN zmodemFileMapM |->
                            IF f \in Tried THEN AfterRead(zmodemFileMapM[f], f)
                            ELSE zmodemFileMapM[f]]
  BY DEF SendFileContent, Good, Unread, Tried
<1>6. \A f \in DOMAIN zmodemFileMapM :
          /\ f \in Files /\ zmodemFileMapM[f] \in [pos : Nat, stream : {"closed", "good", "end"}]
          /\ zmodemFileMapM[f].pos \in Nat
  BY <1>1 DEF DataTypeOK
<1>7. ASSUME NEW f \in Files, Size[f] > 0, f \in Good
      PROVE  zmodemFileMapM[f].pos \in Nat /\ zmodemFileMapM[f].pos <= Size[f]
  <2>1. Streaming(f) /\ FileInv(f) /\ f \in DOMAIN zmodemFileMapM
    BY <1>2, <1>7, FileIs DEF Good
  <2> QED
    BY <1>6, <2>1 DEF FileInv
<1>8. ASSUME NEW f \in DOMAIN zmodemFileMapM
      PROVE  zmodemFileMapM'[f] \in [pos : Nat, stream : {"closed", "good", "end"}]
  <2>1. zmodemFileMapM'[f] = IF f \in Tried THEN AfterRead(zmodemFileMapM[f], f)
                             ELSE zmodemFileMapM[f]
    BY <1>5
  <2>2. AfterRead(zmodemFileMapM[f], f) \in [pos : Nat, stream : {"closed", "good", "end"}]
    BY <1>6, AfterReadType
  <2> QED
    BY <1>6, <2>1, <2>2
<1>9. ASSUME NEW f \in Files, Size[f] > 0, f \in Tried, ~(Unread # {} /\ f = Min(Unread))
      PROVE  zmodemFileMapM'[f].stream # "good"
  <2>1. f \in Good /\ f \in DOMAIN zmodemFileMapM
    BY <1>3, <1>9 DEF Good
  <2>2. zmodemFileMapM[f].pos \in Nat /\ zmodemFileMapM[f].pos <= Size[f] /\ Size[f] \in Nat
    BY <1>7, <1>9, <2>1, SfAssumption
  <2>3. f \notin Unread
    <3>1. CASE Unread = {}
      BY <3>1
    <3>2. CASE Unread # {}
      <4>1. f <= Min(Unread) /\ f # Min(Unread) /\ Min(Unread) \in Nat /\ f \in Nat
        BY <1>3, <1>4, <1>9, <3>2, SfAssumption DEF Tried
      <4> QED
        BY <1>4, <3>2, <4>1
    <3> QED
      BY <3>1, <3>2
  <2>4. zmodemFileMapM[f].pos = Size[f]
    BY <2>1, <2>2, <2>3 DEF Unread
  <2>5. AfterRead(zmodemFileMapM[f], f).stream # "good"
    BY <2>2, <2>4, ReadIs
  <2> QED
    BY <1>5, <1>9, <2>1, <2>5
<1> QED
  BY <1>1, <1>2, <1>4, <1>5, <1>8, <1>9

\* The sequence ts has become now: p and q are sent, or what is sent of them
\* after a signal.
Ended(ts, p, q, after, now) ==
    \E us \in Seq(TerminalPackage) :
        /\ us = Append(ts, p) \/ (after /\ us = ts)
        /\ now = Append(us, q) \/ (after /\ now = us)

\* What the terminal is sent of a block and of the end behind it.
LEMMA EndsWith ==
    ASSUME NEW ts \in Seq(TerminalPackage), NEW p \in TerminalPackage,
           NEW q \in TerminalPackage, NEW after \in BOOLEAN,
           NEW sent \in Written(p, after), NEW end \in Written(q, after)
    PROVE  Ended(ts, p, q, after, ts \o sent \o end)
<1>1. /\ ts \o sent \in Seq(TerminalPackage)
      /\ ts \o sent = Append(ts, p) \/ (after /\ ts \o sent = ts)
  <2>1. CASE sent = <<p>>
    BY <2>1, AppendIsConcat, PutIs
  <2>2. CASE after /\ sent = <<>>
    BY <2>2, ConcatEmptySeq
  <2> QED
    BY <2>1, <2>2 DEF Written
<1> DEFINE us == ts \o sent
<1>2. us \in Seq(TerminalPackage)
  BY <1>1
<1>3. us \o end = Append(us, q) \/ (after /\ us \o end = us)
  <2> HIDE DEF us
  <2>1. CASE end = <<q>>
    BY <1>2, <2>1, AppendIsConcat
  <2>2. CASE after /\ end = <<>>
    BY <1>2, <2>2, ConcatEmptySeq
  <2> QED
    BY <2>1, <2>2 DEF Written
<1> QED
  BY <1>1, <1>2, <1>3 DEF Ended


\* The end of a file, or what is sent of it after a signal.
LEMMA EndStep ==
    ASSUME NEW ts \in Seq(TerminalPackage), NEW f \in Files, NEW had \in Part,
           NEW after \in BOOLEAN, Chain(ts, had, f, after),
           NEW n \in 0..Size[f], GoesOnAt(ts, had, f, n), n = Size[f] \/ after,
           NEW q \in TerminalPackage, q.type = "FileComplete", q.id = f
    PROVE  /\ Chain(Append(ts, q), had, f, after)
           /\ ~HasInfo(ts, f) /\ ~HasInfo(Append(ts, q), f)
<1>1. q.type \in FileTypes
  BY DEF FileTypes
<1>2. /\ \A i \in Places(ts, f) : ts[i].type \in {"FileInitPos", "FileContent"}
      /\ Reached(ts, had, f, Len(ts) + 1, n)
  BY DEF GoesOnAt
<1>3. Chain(Append(ts, q), had, f, after)
  BY <1>1, <1>2, PutNext
<1>4. ~HasInfo(ts, f)
  BY <1>2 DEF HasInfo
<1>5. /\ Places(Append(ts, q), f) = Places(ts, f) \cup {Len(ts) + 1}
      /\ Append(ts, q)[Len(ts) + 1] = q
      /\ \A i \in Places(ts, f) : Append(ts, q)[i] = ts[i]
  <2>1. q.id = f
    OBVIOUS
  <2>2. Places(Append(ts, q), f) = Places(ts, f) \cup {Len(ts) + 1}
    BY <1>1, <2>1, PutPlaces
  <2>3. Append(ts, q)[Len(ts) + 1] = q
    BY <1>1, <2>1, PutPlaces
  <2>4. \A i \in 1..Len(ts) : Append(ts, q)[i] = ts[i]
    BY PutIs
  <2> QED
    BY <2>2, <2>3, <2>4, Fields
<1>6. ~HasInfo(Append(ts, q), f)
  BY <1>2, <1>5 DEF HasInfo
<1> QED
  BY <1>3, <1>4, <1>6

\* A block is sent of the file that goes on at its position.
LEMMA BlockStep ==
    ASSUME NEW ts \in Seq(TerminalPackage), NEW f \in Files, NEW had \in Part,
           NEW sig \in BOOLEAN, Chain(ts, had, f, sig),
           NEW p \in TerminalPackage, p.type = "FileContent", p.id = f,
           GoesOnAt(ts, had, f, p.pos)
    PROVE  /\ Chain(Append(ts, p), had, f, sig)
           /\ GoesOnAt(Append(ts, p), had, f, p.pos + p.len)
<1>1. p.type \in FileTypes /\ End(p) = p.pos + p.len
  BY DEF FileTypes, End
<1>2. /\ \A i \in Places(ts, f) : ts[i].type \in {"FileInitPos", "FileContent"}
      /\ Reached(ts, had, f, Len(ts) + 1, p.pos)
  BY DEF GoesOnAt
<1>3. Chain(Append(ts, p), had, f, sig)
  BY <1>1, <1>2, PutNext
<1>4. GoesOnAt(Append(ts, p), had, f, End(p))
  BY <1>2, PutGoesOn, ZenonT(30)
<1> QED
  BY <1>1, <1>3, <1>4

\* The next block is sent, and the end of the file behind its last one.
LEMMA ContentStep ==
    ASSUME TransferInv, SendFileContent, UNCHANGED receiverVars
    PROVE  TransferInv'
<1>1. /\ UNCHANGED <<store, done, toProgram, bufferM, filesM>> /\ Line' = Line
      /\ signaled' \in {signaled, signaled \/ (Signals /\ Unread # {})}
  BY DEF SendFileContent, receiverVars, Line, Good, Unread
<1>2. /\ DataTypeOK /\ \A f : f \in Good <=> Streaming(f)
      /\ Unread # {} => Min(Unread) \in Unread
      /\ DOMAIN zmodemFileMapM' = DOMAIN zmodemFileMapM
      /\ zmodemFileMapM' \in
             [DOMAIN zmodemFileMapM' -> [pos : Nat, stream : {"closed", "good", "end"}]]
      /\ \A f \in DOMAIN zmodemFileMapM :
             zmodemFileMapM'[f] = IF f \in Tried THEN AfterRead(zmodemFileMapM[f], f)
                                  ELSE zmodemFileMapM[f]
      /\ \A f \in Files : Size[f] > 0 /\ f \in Tried =>
             \/ Unread # {} /\ f = Min(Unread)
             \/ zmodemFileMapM'[f].stream # "good"
  BY TriedAre
<1>3. signaled' \in BOOLEAN /\ (signaled => signaled') /\ signaled \in BOOLEAN
  BY <1>1, <1>2, OscAssumption DEF DataTypeOK
<1>4. \A f \in Files : Fresh(f)' => Fresh(f)
  BY <1>1 DEF Fresh
<1>5. ASSUME NEW f \in Files, Size[f] > 0, ~(Unread # {} /\ f = Min(Unread)),
             Kept(toTerminal, toTerminal', f)
      PROVE  FileInv(f)'
  <2>1. Streaming(f)' => Streaming(f) /\ zmodemFileMapM'[f].pos = zmodemFileMapM[f].pos
    <3>1. SUFFICES ASSUME Streaming(f)'
                   PROVE  Streaming(f) /\ zmodemFileMapM'[f].pos = zmodemFileMapM[f].pos
      OBVIOUS
    <3>2. f \in DOMAIN zmodemFileMapM /\ zmodemFileMapM'[f].stream = "good" /\ ~signaled'
      BY <1>2, <3>1 DEF Streaming
    <3>3. f \notin Tried
      BY <1>2, <1>5, <3>2
    <3>4. zmodemFileMapM'[f] = zmodemFileMapM[f]
      BY <1>2, <3>2, <3>3
    <3> QED
      BY <1>3, <3>2, <3>4 DEF Streaming
  <2>2. LineKept(Line, Line', f)
    BY <1>1, Fixed
  <2> QED
    BY <1>1, <1>3, <1>4, <1>5, <2>1, <2>2, OtherKeeps
<1>6. CASE Unread = {}
  <2>1. toTerminal' = toTerminal
    BY <1>6 DEF SendFileContent, Good, Unread
  <2>2. DataTypeOK'
    BY <1>1, <1>2, <1>3, <2>1 DEF DataTypeOK
  <2>3. \A f \in Files : Size[f] > 0 => FileInv(f)'
    BY <1>5, <1>6, <2>1, Fixed
  <2> QED
    BY <2>2, <2>3, ZenonT(30) DEF TransferInv
<1>7. CASE Unread # {}
  <2>1. PICK g \in Unread : g = Min(Unread)
    BY <1>2, <1>7
  <2> DEFINE file == zmodemFileMapM[g]
             next == zmodemFileMapM'[g]
             content == [type |-> "FileContent", id |-> g, pos |-> file.pos,
                         len |-> next.pos - file.pos]
             end == [type |-> "FileComplete", id |-> g]
  <2>2. /\ g \in Good /\ Streaming(g) /\ file.pos < Size[g] /\ g \in Tried
        /\ g \in DOMAIN zmodemFileMapM /\ g \in Files
        /\ file.pos \in Nat /\ Size[g] \in Nat /\ Size[g] > 0 /\ ~signaled
    <3>1. g \in Good /\ file.pos < Size[g] /\ g \in DOMAIN zmodemFileMapM /\ ~signaled
      BY DEF Unread, Good
    <3>2. g \in Files /\ file.pos \in Nat
      BY <1>2, <3>1 DEF DataTypeOK
    <3>3. Size[g] \in Nat
      BY <3>2, SfAssumption
    <3>4. g \in Tried
      <4>1. g <= Min(Unread)
        BY <2>1, <3>2, SfAssumption
      <4> QED
        BY <1>7, <3>1, <4>1 DEF Tried
    <3> QED
      BY <1>2, <3>1, <3>2, <3>3, <3>4
  <2>3. /\ next = AfterRead(file, g) /\ next.pos \in Nat
        /\ next.pos >= file.pos /\ next.pos <= Size[g]
        /\ next.stream # "good" => next.pos = Size[g]
    <3>1. next = AfterRead(file, g)
      BY <1>2, <2>2
    <3>2. file.pos <= Size[g]
      BY <2>2
    <3> QED
      BY <2>2, <3>1, <3>2, ReadIs
  <2>4. content \in TerminalPackage /\ end \in TerminalPackage
    <3>1. /\ next.pos \in Nat /\ file.pos \in Nat /\ next.pos >= file.pos
          /\ g \in Files
      BY <2>2, <2>3
    <3>2. next.pos - file.pos \in Nat
      <4> HIDE DEF next, file
      <4> QED
        BY <3>1
    <3> QED
      BY <3>1, <3>2 DEF TerminalPackage
  <2>5. \/ next.stream = "good" /\ ~signaled' /\ toTerminal' = Append(toTerminal, content)
        \/ /\ ~(next.stream = "good" /\ ~signaled')
           /\ \E sent \in Written(content, signaled'), last \in Written(end, signaled') :
                  toTerminal' = toTerminal \o sent \o last
    BY <1>7, <2>1, ZenonT(30) DEF SendFileContent, Good, Unread
  <2>6. /\ content.type = "FileContent" /\ content.id = g /\ content.pos = file.pos
        /\ content.pos + content.len = next.pos
        /\ end.type = "FileComplete" /\ end.id = g
    BY <2>2, <2>3
  <2> HIDE DEF file, next, content, end
  <2>7. toTerminal \in Seq(TerminalPackage)
    BY <1>2 DEF DataTypeOK
  <2>8. \/ next.stream = "good" /\ ~signaled' /\ toTerminal' = Append(toTerminal, content)
        \/ /\ ~(next.stream = "good" /\ ~signaled')
           /\ \E us \in Seq(TerminalPackage) :
                  /\ us = Append(toTerminal, content) \/ (signaled' /\ us = toTerminal)
                  /\ \/ toTerminal' = Append(us, end)
                     \/ signaled' /\ toTerminal' = us
    <3>1. PICK after \in BOOLEAN : after = signaled'
      BY <1>3
    <3>2. ASSUME NEW sent \in Written(content, signaled'), NEW last \in Written(end, signaled'),
                 toTerminal' = toTerminal \o sent \o last
          PROVE  \E us \in Seq(TerminalPackage) :
                     /\ us = Append(toTerminal, content) \/ (signaled' /\ us = toTerminal)
                     /\ \/ toTerminal' = Append(us, end)
                        \/ signaled' /\ toTerminal' = us
      <4>1. sent \in Written(content, after) /\ last \in Written(end, after)
        BY <3>1, <3>2
      <4>2. Ended(toTerminal, content, end, after, toTerminal \o sent \o last)
        BY <2>4, <2>7, <4>1, EndsWith
      <4> QED
        BY <3>1, <3>2, <4>2 DEF Ended
    <3> QED
      BY <2>5, <3>2
  <2>9. toTerminal' \in Seq(TerminalPackage)
    <3>1. Append(toTerminal, content) \in Seq(TerminalPackage)
      BY <2>4, <2>7, PutIs
    <3>2. \A us \in Seq(TerminalPackage) : Append(us, end) \in Seq(TerminalPackage)
      BY <2>4, PutIs
    <3> QED
      BY <2>8, <3>1, <3>2
  <2>10. DataTypeOK'
    BY <1>1, <1>2, <1>3, <2>9 DEF DataTypeOK
  <2>11. ASSUME NEW f \in Files, Size[f] > 0, f # g
         PROVE  FileInv(f)'
    <3>1. Kept(toTerminal, Append(toTerminal, content), f)
      BY <2>4, <2>6, <2>7, <2>11, PutOther
    <3>2. \A us \in Seq(TerminalPackage) : Kept(us, Append(us, end), f)
      BY <2>4, <2>6, <2>11, PutOther
    <3>3. Kept(toTerminal, toTerminal, f)
      BY Fixed
    <3>4. Kept(toTerminal, toTerminal', f)
      <4>1. CASE toTerminal' = Append(toTerminal, content)
        BY <3>1, <4>1
      <4>2. ASSUME NEW us \in Seq(TerminalPackage),
                   us = Append(toTerminal, content) \/ us = toTerminal,
                   toTerminal' = Append(us, end) \/ toTerminal' = us
            PROVE  Kept(toTerminal, toTerminal', f)
        <5>1. Kept(toTerminal, us, f)
          BY <3>1, <3>3, <4>2
        <5>2. Kept(us, toTerminal', f)
          BY <3>2, <4>2, Fixed
        <5> QED
          BY <5>1, <5>2 DEF Kept
      <4> QED
        BY <2>8, <4>1, <4>2
    <3> QED
      BY <1>5, <2>1, <2>11, <3>4
  <2>12. FileInv(g)'
    <3> DEFINE had == store[g]
    <3>1. FileInv(g) /\ had \in Part
      BY <2>2, FileIs
    <3>2. /\ Chain(toTerminal, had, g, signaled') /\ GoesOnAt(toTerminal, had, g, file.pos)
          /\ g \notin done /\ ~Fresh(g) /\ Asks(Line, g) = {} /\ OneAsk(Line, g, had)
      <4>1. /\ Chain(toTerminal, had, g, signaled) /\ GoesOnAt(toTerminal, had, g, file.pos)
            /\ g \notin done /\ ~Fresh(g) /\ Asks(Line, g) = {} /\ OneAsk(Line, g, had)
        BY <2>2, <3>1 DEF FileInv, file
      <4> QED
        BY <1>3, <4>1, ChainAfter
    <3> HIDE DEF had
    <3>3. /\ Chain(Append(toTerminal, content), had, g, signaled')
          /\ GoesOnAt(Append(toTerminal, content), had, g, next.pos)
      BY <1>3, <2>2, <2>4, <2>6, <2>7, <3>1, <3>2, BlockStep
    <3>4. /\ Chain(toTerminal', had, g, signaled') /\ ~HasInfo(toTerminal', g)
          /\ Streaming(g)' => GoesOnAt(toTerminal', had, g, next.pos)
      <4>1. CASE next.stream = "good" /\ ~signaled' /\ toTerminal' = Append(toTerminal, content)
        <5>1. ~HasInfo(toTerminal', g)
          BY <3>3, <4>1 DEF GoesOnAt, HasInfo
        <5> QED
          BY <3>3, <4>1, <5>1
      <4>2. ASSUME ~(next.stream = "good" /\ ~signaled'), NEW us \in Seq(TerminalPackage),
                   us = Append(toTerminal, content) \/ (signaled' /\ us = toTerminal),
                   toTerminal' = Append(us, end) \/ (signaled' /\ toTerminal' = us)
            PROVE  /\ Chain(toTerminal', had, g, signaled') /\ ~HasInfo(toTerminal', g)
                   /\ ~Streaming(g)'
        <5>1. PICK n \in 0..Size[g] : /\ GoesOnAt(us, had, g, n) /\ Chain(us, had, g, signaled')
                                      /\ n = Size[g] \/ signaled'
          <6>1. file.pos \in 0..Size[g] /\ next.pos \in 0..Size[g]
            BY <2>2, <2>3
          <6>2. CASE us = Append(toTerminal, content)
            BY <2>3, <3>3, <4>2, <6>1, <6>2
          <6>3. CASE signaled' /\ us = toTerminal
            BY <3>2, <6>1, <6>3
          <6> QED
            BY <4>2, <6>2, <6>3
        <5>2. /\ Chain(Append(us, end), had, g, signaled')
              /\ ~HasInfo(us, g) /\ ~HasInfo(Append(us, end), g)
          BY <1>3, <2>2, <2>4, <2>6, <3>1, <5>1, EndStep
        <5>3. ~Streaming(g)'
          BY <4>2 DEF Streaming, next
        <5> QED
          BY <4>2, <5>1, <5>2, <5>3
      <4> QED
        BY <2>8, <4>1, <4>2
    <3>5. ~Fresh(g)' /\ Asks(Line', g) = {} /\ OneAsk(Line', g, had)
      BY <1>1, <1>4, <2>2, <3>2
    <3>6. Streaming(g)' => zmodemFileMapM'[g].pos = next.pos /\ next.pos <= Size[g]
      BY <2>3 DEF next
    <3>7. store'[g] = had /\ g \notin done'
      BY <1>1, <3>2 DEF had
    <3> QED
      BY <3>4, <3>5, <3>6, <3>7 DEF FileInv
  <2> QED
    BY <2>10, <2>11, <2>12 DEF TransferInv
<1> QED
  BY <1>6, <1>7


\* A step of sf's thread.
LEMMA ThreadKeeps ==
    ASSUME TransferInv, SfThread
    PROVE  TransferInv'
<1>1. UNCHANGED receiverVars /\ UNCHANGED <<store, done>>
  BY DEF SfThread, receiverVars
<1>2. /\ bufferM \in Seq(ProgramPackage) /\ toProgram \in Seq(ProgramPackage)
      /\ signaled \in BOOLEAN /\ DataTypeOK
  BY DEF TransferInv, DataTypeOK
<1>3. ASSUME UNCHANGED <<bufferM, toProgram, signaled, fileVars>>,
             UNCHANGED toTerminal \/ \E type \in PlainTypes : Sends(Plain(type))
      PROVE  TransferInv'
  <2>1. Line' = Line
    BY <1>3 DEF Line
  <2> QED
    BY <1>1, <1>2, <1>3, <2>1, StillStep
<1>4. ASSUME bufferM # <<>>, bufferM' = Tail(bufferM),
             UNCHANGED <<toProgram, signaled, fileVars>>,
             UNCHANGED toTerminal \/ \E type \in PlainTypes : Sends(Plain(type))
      PROVE  TransferInv'
  BY <1>1, <1>4, PopStep
<1>5. CASE EngineStep /\ UNCHANGED fileVars
  BY <1>3, <1>5 DEF EngineStep, lineVars
<1>6. CASE InitState /\ UNCHANGED fileVars
  <2>1. bufferM' = <<>> /\ UNCHANGED <<toProgram, toTerminal, signaled>>
    BY <1>6 DEF InitState, lineVars
  <2>2. Line' = <<>> \o toProgram
    BY <2>1 DEF Line
  <2>3. \A f \in Files : Kept(toTerminal, toTerminal', f) /\ LineKept(Line, Line', f)
    BY <1>2, <2>1, <2>2, Fixed, BufferGoes DEF Line
  <2>4. bufferM' \in Seq(ProgramPackage)
    BY <2>1
  <2>5. toTerminal \in Seq(TerminalPackage)
    BY <1>2 DEF DataTypeOK
  <2> QED
    BY <1>1, <1>2, <1>6, <2>1, <2>3, <2>4, <2>5, AsideStep
<1>7. CASE SendInitReq /\ UNCHANGED fileVars
  BY <1>3, <1>7 DEF SendInitReq, SendsAndReturns, PlainTypes
<1>8. CASE UnsupportNotice /\ UNCHANGED fileVars
  BY <1>3, <1>8 DEF UnsupportNotice, SendsAndReturns
<1>9. CASE SendBye /\ UNCHANGED fileVars
  BY <1>3, <1>9 DEF SendBye, SendsAndReturns, PlainTypes
<1>10. CASE SendEmptyDirs
  BY <1>3, <1>10 DEF SendEmptyDirs, SendsAndReturns, PlainTypes
<1>11. CASE ParsesNothing /\ UNCHANGED fileVars
  BY <1>3, <1>11 DEF ParsesNothing, lineVars
<1>12. CASE ParsesBroken /\ UNCHANGED fileVars
  BY <1>4, <1>12 DEF ParsesBroken, Parses, lineVars
<1>13. CASE HandlesInitRsp /\ UNCHANGED fileVars
  BY <1>4, <1>13 DEF HandlesInitRsp, Handled, Parses, PlainTypes
<1>14. CASE HandlesEmptyDir /\ UNCHANGED fileVars
  BY <1>4, <1>14 DEF HandlesEmptyDir, Handled, Parses
<1>15. CASE HandlesErrMsg /\ UNCHANGED fileVars
  BY <1>4, <1>15 DEF HandlesErrMsg, Handled, Parses
<1>16. CASE HandlesHeartbeat /\ UNCHANGED fileVars
  BY <1>4, <1>16 DEF HandlesHeartbeat, Parses, lineVars
<1>17. CASE HandlesBye /\ UNCHANGED fileVars
  BY <1>4, <1>17 DEF HandlesBye, Handled, Parses, PlainTypes
<1>18. CASE HandlesByeBye /\ UNCHANGED fileVars
  BY <1>4, <1>18 DEF HandlesByeBye, Handled, Parses
<1>19. CASE SendFileInfo \/ SendFileContent \/ HandlesFileProposeStart \/ HandlesFileCompleteAck
  BY <1>1, <1>19, InfoStep, ContentStep, ProposalStep, AckStep
<1> QED
  BY <1>5, <1>6, <1>7, <1>8, <1>9, <1>10, <1>11, <1>12, <1>13, <1>14, <1>15, <1>16, <1>17,
     <1>18, <1>19
  DEF SfThread, ThreadStep, SessionFunction, CommonFunction

\* The terminal says something that is no proposal, and takes a package that is
\* about no file, or none.
LEMMA SayStep ==
    ASSUME TransferInv, UNCHANGED <<store, done, fileVars, bufferM, signaled>>,
           NEW ps \in Seq(ProgramPackage), Says(ps),
           \A i \in 1..Len(ps) : ps[i].type # "FileProposeStart",
           \/ UNCHANGED toTerminal
           \/ /\ toTerminal # <<>> /\ toTerminal' = Tail(toTerminal)
              /\ Head(toTerminal).type \notin FileTypes
    PROVE  TransferInv'
<1>1. /\ bufferM \in Seq(ProgramPackage) /\ toProgram \in Seq(ProgramPackage)
      /\ signaled \in BOOLEAN /\ toTerminal \in Seq(TerminalPackage)
  BY DEF TransferInv, DataTypeOK
<1>2. toProgram' = toProgram \o ps /\ toProgram' \in Seq(ProgramPackage)
  BY <1>1, Joined DEF Says
<1>3. Line \in Seq(ProgramPackage) /\ Line' = Line \o ps
  <2>1. Line \in Seq(ProgramPackage)
    BY <1>1, Joined DEF Line
  <2>2. Line' = bufferM \o (toProgram \o ps)
    BY <1>2 DEF Line
  <2>3. (bufferM \o toProgram) \o ps = bufferM \o (toProgram \o ps)
    BY <1>1, Associative
  <2> QED
    BY <2>1, <2>2, <2>3 DEF Line
<1>4. \A f \in Files : LineKept(Line, Line', f)
  BY <1>3, LineSays
<1>5. \A f \in Files : Kept(toTerminal, toTerminal', f)
  <2>1. TAKE f \in Files
  <2>2. CASE UNCHANGED toTerminal
    BY <2>2, Fixed
  <2>3. CASE /\ toTerminal # <<>> /\ toTerminal' = Tail(toTerminal)
             /\ Head(toTerminal).type \notin FileTypes
    BY <1>1, <2>3, TakeOther
  <2> QED
    BY <2>2, <2>3
<1>6. toTerminal' \in Seq(TerminalPackage)
  BY <1>1, TakeIs
<1> QED
  BY <1>1, <1>2, <1>4, <1>5, <1>6, AsideStep

\* One package the terminal writes.
LEMMA OneSaid ==
    ASSUME NEW p \in ProgramPackage
    PROVE  <<p>> \in Seq(ProgramPackage) /\ Len(<<p>>) = 1 /\ <<p>>[1] = p
OBVIOUS

\* What a step that is about file g leaves as it is of the others.
LEMMA OthersKeep ==
    ASSUME TransferInv, UNCHANGED <<fileVars, bufferM, signaled>>, NEW g,
           toTerminal # <<>>, toTerminal' = Tail(toTerminal), Head(toTerminal).id = g,
           NEW ps \in Seq(ProgramPackage), Says(ps),
           \A i \in 1..Len(ps) : ps[i].type = "FileProposeStart" => ps[i].id = g,
           \A f \in Files \ {g} : store'[f] = store[f] /\ (f \in done' <=> f \in done)
    PROVE  /\ Line' = Line \o ps /\ Line \in Seq(ProgramPackage)
           /\ toProgram' \in Seq(ProgramPackage) /\ toTerminal' \in Seq(TerminalPackage)
           /\ \A f \in Files \ {g} : Size[f] > 0 => FileInv(f)'
<1>1. /\ bufferM \in Seq(ProgramPackage) /\ toProgram \in Seq(ProgramPackage)
      /\ signaled \in BOOLEAN /\ toTerminal \in Seq(TerminalPackage)
  BY DEF TransferInv, DataTypeOK
<1>2. toProgram' = toProgram \o ps /\ toProgram' \in Seq(ProgramPackage)
  BY <1>1, Joined DEF Says
<1>3. Line \in Seq(ProgramPackage) /\ Line' = Line \o ps
  <2>1. Line \in Seq(ProgramPackage)
    BY <1>1, Joined DEF Line
  <2>2. Line' = bufferM \o (toProgram \o ps)
    BY <1>2 DEF Line
  <2>3. (bufferM \o toProgram) \o ps = bufferM \o (toProgram \o ps)
    BY <1>1, Associative
  <2> QED
    BY <2>1, <2>2, <2>3 DEF Line
<1>4. toTerminal' \in Seq(TerminalPackage)
  BY <1>1, TakeIs
<1>5. ASSUME NEW f \in Files \ {g}, Size[f] > 0
      PROVE  FileInv(f)'
  <2>1. LineKept(Line, Line', f)
    BY <1>3, LineSays
  <2>2. Kept(toTerminal, toTerminal', f)
    BY <1>1, TakeOther
  <2>3. /\ Fresh(f)' => Fresh(f)
        /\ Streaming(f)' => Streaming(f) /\ zmodemFileMapM'[f].pos = zmodemFileMapM[f].pos
    BY DEF fileVars, Fresh, Streaming
  <2>4. store'[f] = store[f] /\ (f \in done' <=> f \in done) /\ signaled' = signaled
    BY <1>5
  <2> QED
    BY <1>1, <1>5, <2>1, <2>2, <2>3, <2>4, OtherKeeps
<1> QED
  BY <1>2, <1>3, <1>4, <1>5

\* What a package about a file carries.
LEMMA HeadIs ==
    ASSUME DataTypeOK, toTerminal # <<>>, Package.type \in FileTypes
    PROVE  /\ Package.id \in Files /\ Package \in TerminalPackage
           /\ 1 \in Places(toTerminal, Package.id)
           /\ toTerminal \in Seq(TerminalPackage)
           /\ Package.type \in {"FileInitPos", "FileContent"} =>
                  Package.pos \in Nat /\ End(Package) \in Nat
           /\ Package.type = "FileContent" => Package.len \in Nat
<1>1. toTerminal \in Seq(TerminalPackage) /\ Package \in TerminalPackage
  BY TakeIs DEF DataTypeOK, Package
<1>2. Package.id \in Files /\ (Package.type = "FileContent" => Package.len \in Nat)
  BY <1>1 DEF TerminalPackage, FileTypes, PlainTypes
<1>3. 1 \in Places(toTerminal, Package.id)
  BY <1>1, <1>2, TakePlaces DEF Package
<1>4. toTerminal[1] = Package
  BY <1>1, TakeIs DEF Package
<1>5. Package.type \in {"FileInitPos", "FileContent"} =>
          Package.pos \in Nat /\ End(Package) \in Nat
  BY <1>1, <1>2, <1>3, <1>4, Fields
<1> QED
  BY <1>1, <1>2, <1>3, <1>5


\* The terminal answers the announcement of a file with what it has of it.
LEMMA AskStep ==
    ASSUME TransferInv, GetsFileInfo, UNCHANGED <<fileVars, bufferM, signaled>>
    PROVE  TransferInv'
<1>1. /\ DataTypeOK /\ toTerminal # <<>> /\ Package.type = "FileInfo"
      /\ Package.type \in FileTypes /\ UNCHANGED <<store, done>>
      /\ toTerminal' = Tail(toTerminal)
  BY DEF TransferInv, GetsFileInfo, Gets, receiverVars, Package, FileTypes
<1>2. PICK g : g = Package.id
  OBVIOUS
<1>3. g \in Files /\ Head(toTerminal).id = g /\ Head(toTerminal).type = "FileInfo"
  BY <1>1, <1>2, HeadIs DEF Package
<1>4. PICK p : p = [type |-> "FileProposeStart", id |-> g,
                    len |-> store[g].len, sound |-> store[g].sound]
  OBVIOUS
<1>5. /\ p.type = "FileProposeStart" /\ p.id = g
      /\ p.len = store[g].len /\ p.sound = store[g].sound
  BY <1>4
<1>6. p \in ProgramPackage
  <2>1. store[g] \in Part
    BY <1>1, <1>3 DEF DataTypeOK
  <2> QED
    BY <1>3, <1>4, <2>1 DEF ProgramPackage, Part
<1>7. <<p>> \in Seq(ProgramPackage) /\ Len(<<p>>) = 1 /\ <<p>>[1] = p
  BY <1>6, OneSaid
<1>8. Says(<<p>>)
  BY <1>2, <1>4 DEF GetsFileInfo
<1>9. \A i \in 1..Len(<<p>>) : <<p>>[i].type = "FileProposeStart" => <<p>>[i].id = g
  BY <1>5, <1>7
<1>10. /\ Line' = Line \o <<p>> /\ Line \in Seq(ProgramPackage)
       /\ toProgram' \in Seq(ProgramPackage) /\ toTerminal' \in Seq(TerminalPackage)
       /\ \A f \in Files \ {g} : Size[f] > 0 => FileInv(f)'
  BY <1>1, <1>3, <1>7, <1>8, <1>9, OthersKeep
<1>11. ASSUME Size[g] > 0
       PROVE  FileInv(g)'
  <2>1. /\ FileInv(g) /\ store[g] \in Part /\ signaled \in BOOLEAN
        /\ toTerminal \in Seq(TerminalPackage)
    BY <1>3, <1>11, FileIs
  <2>2. Places(toTerminal', g) = {} /\ HasInfo(toTerminal, g)
    BY <1>1, <1>3, <2>1, TakeLast DEF FileInv
  <2>3. Chain(toTerminal', store[g], g, signaled)
    BY <2>2 DEF Chain
  <2>4. Asks(Line, g) = {} /\ ~Fresh(g)
    BY <2>1, <2>2 DEF FileInv, HasInfo
  <2>5. OneAsk(Line', g, store[g])
    BY <1>3, <1>5, <1>7, <1>10, <2>4, LineSays
  <2>6. ~Fresh(g)' /\ (Streaming(g)' <=> Streaming(g))
    BY <2>4 DEF Fresh, Streaming, fileVars
  <2>7. ~Streaming(g) /\ g \notin done
    BY <2>1, <2>2 DEF FileInv
  <2>8. store'[g] = store[g] /\ done' = done /\ signaled' = signaled
    BY <1>1
  <2> QED
    BY <2>2, <2>3, <2>5, <2>6, <2>7, <2>8 DEF FileInv
<1>12. DataTypeOK'
  BY <1>1, <1>10 DEF DataTypeOK, fileVars
<1> QED
  BY <1>3, <1>10, <1>11, <1>12 DEF TransferInv

\* The terminal opens a file or writes a block of it.
LEMMA StoreStep ==
    ASSUME TransferInv, GetsFileInitPos \/ GetsFileContent,
           UNCHANGED <<fileVars, bufferM, signaled>>
    PROVE  TransferInv'
<1>1. /\ DataTypeOK /\ toTerminal # <<>> /\ Package.type \in {"FileInitPos", "FileContent"}
      /\ Package.type \in FileTypes /\ UNCHANGED <<toProgram, done>>
      /\ toTerminal' = Tail(toTerminal)
  BY DEF TransferInv, GetsFileInitPos, GetsFileContent, Gets, Package, FileTypes
<1>2. PICK g : g = Package.id
  OBVIOUS
<1>3. /\ g \in Files /\ Head(toTerminal).id = g
      /\ Head(toTerminal).type \in {"FileInitPos", "FileContent"}
      /\ Package.pos \in Nat /\ End(Package) \in Nat
      /\ Package.type = "FileContent" => Package.len \in Nat
  BY <1>1, <1>2, HeadIs DEF Package
<1>4. /\ store \in [Files -> Part] /\ store[g] \in Part
      /\ toProgram \in Seq(ProgramPackage)
  BY <1>1, <1>3 DEF DataTypeOK
<1>5. PICK now :
          /\ store' = [store EXCEPT ![g] = now]
          /\ \/ /\ Package.type = "FileInitPos"
                /\ now = IF Package.pos = 0 THEN [len |-> 0, sound |-> TRUE] ELSE store[g]
             \/ /\ Package.type = "FileContent"
                /\ now = [len |-> store[g].len + Package.len,
                          sound |-> store[g].sound /\ store[g].len = Package.pos]
  <2>1. CASE GetsFileInitPos
    BY <1>2, <2>1 DEF GetsFileInitPos, Gets, Package
  <2>2. CASE GetsFileContent
    BY <1>2, <2>2 DEF GetsFileContent, Gets, Package
  <2> QED
    BY <2>1, <2>2
<1>6. now \in Part
  <2>1. store[g].len \in Nat /\ store[g].sound \in BOOLEAN
    BY <1>4 DEF Part
  <2>2. CASE Package.type = "FileInitPos"
    <3>1. now = [len |-> 0, sound |-> TRUE] \/ now = store[g]
      BY <1>5, <2>2
    <3>2. [len |-> 0, sound |-> TRUE] \in Part
      BY DEF Part
    <3> QED
      BY <1>4, <3>1, <3>2
  <2>3. CASE Package.type = "FileContent"
    <3>1. store[g].len + Package.len \in Nat
      BY <1>3, <2>1, <2>3
    <3>2. PICK sound : sound = (store[g].sound /\ store[g].len = Package.pos)
      OBVIOUS
    <3>3. sound \in BOOLEAN
      BY <3>2
    <3>4. now = [len |-> store[g].len + Package.len, sound |-> sound]
      BY <1>5, <2>3, <3>2
    <3> QED
      BY <3>1, <3>3, <3>4 DEF Part
  <2> QED
    BY <1>5, <2>2, <2>3
<1>7. /\ store' \in [Files -> Part] /\ store'[g] = now
      /\ \A f \in Files \ {g} : store'[f] = store[f]
  BY <1>3, <1>4, <1>5, <1>6
<1>8. <<>> \in Seq(ProgramPackage) /\ Len(<<>>) = 0 /\ Says(<<>>)
  BY <1>1, <1>4, ConcatEmptySeq DEF Says
<1>9. /\ toTerminal' \in Seq(TerminalPackage)
      /\ \A f \in Files \ {g} : Size[f] > 0 => FileInv(f)'
  <2>1. PICK ps \in Seq(ProgramPackage) : Len(ps) = 0 /\ Says(ps)
    BY <1>8
  <2>2. \A i \in 1..Len(ps) : ps[i].type = "FileProposeStart" => ps[i].id = g
    BY <2>1
  <2> QED
    BY <1>1, <1>3, <1>7, <2>1, <2>2, OthersKeep
<1>10. Line' = Line
  BY <1>1 DEF Line
<1>11. ASSUME Size[g] > 0
       PROVE  FileInv(g)'
  <2>1. /\ FileInv(g) /\ store[g] \in Part /\ signaled \in BOOLEAN
        /\ toTerminal \in Seq(TerminalPackage) /\ Chain(toTerminal, store[g], g, signaled)
    BY <1>3, <1>11, FileIs DEF FileInv
  <2>2. PICK after : after = [len |-> End(Package), sound |-> TRUE]
    OBVIOUS
  <2>3. /\ Chain(toTerminal', after, g, signaled)
        /\ \A pos : GoesOnAt(toTerminal, store[g], g, pos) =>
               GoesOnAt(toTerminal', after, g, pos)
        /\ ~HasInfo(toTerminal', g)
    BY <1>1, <1>3, <2>1, <2>2, TakeNext DEF Package
  <2>4. /\ Package.type = "FileInitPos" /\ Package.pos > 0 =>
               store[g] = [len |-> Package.pos, sound |-> TRUE]
        /\ Package.type = "FileContent" => store[g] = [len |-> Package.pos, sound |-> TRUE]
    BY <1>1, <1>3, <2>1, TakeNext DEF Package
  <2>5. now = after
    <3>1. CASE Package.type = "FileInitPos"
      <4>1. End(Package) = Package.pos
        BY <3>1 DEF End
      <4>2. CASE Package.pos = 0
        BY <1>5, <2>2, <3>1, <4>1, <4>2
      <4>3. CASE Package.pos # 0
        BY <1>3, <1>5, <2>2, <2>4, <3>1, <4>1, <4>3
      <4> QED
        BY <4>2, <4>3
    <3>2. CASE Package.type = "FileContent"
      <4>1. End(Package) = Package.pos + Package.len
        BY <3>2 DEF End
      <4>2. store[g].len = Package.pos /\ store[g].sound = TRUE
        BY <2>4, <3>2
      <4> QED
        BY <1>5, <2>2, <3>2, <4>1, <4>2
    <3> QED
      BY <1>1, <3>1, <3>2
  <2>6. 1 \in Places(toTerminal, g)
    BY <1>1, <1>2, HeadIs
  <2>7. ~Fresh(g) /\ Asks(Line, g) = {} /\ g \notin done
    BY <2>1, <2>6 DEF FileInv
  <2>8. ~Fresh(g)' /\ (Streaming(g)' <=> Streaming(g))
    BY <2>7 DEF Fresh, Streaming, fileVars
  <2>9. OneAsk(Line, g, now)
    BY <2>7 DEF OneAsk
  <2>10. Streaming(g) =>
             /\ GoesOnAt(toTerminal, store[g], g, zmodemFileMapM[g].pos)
             /\ zmodemFileMapM[g].pos <= Size[g]
    BY <2>1 DEF FileInv
  <2>11. /\ store'[g] = now /\ done' = done /\ signaled' = signaled
         /\ zmodemFileMapM' = zmodemFileMapM
    BY <1>1, <1>7 DEF fileVars
  <2> QED
    BY <1>10, <2>3, <2>5, <2>7, <2>8, <2>9, <2>10, <2>11 DEF FileInv
<1>12. DataTypeOK'
  BY <1>1, <1>7, <1>9 DEF DataTypeOK, fileVars, Part
<1> QED
  BY <1>3, <1>9, <1>11, <1>12 DEF TransferInv

\* The terminal is told that a file is complete.
LEMMA CompleteStep ==
    ASSUME TransferInv, GetsFileComplete, UNCHANGED <<fileVars, bufferM, signaled>>
    PROVE  TransferInv'
<1>1. /\ DataTypeOK /\ toTerminal # <<>> /\ Package.type = "FileComplete"
      /\ Package.type \in FileTypes /\ UNCHANGED store
      /\ toTerminal' = Tail(toTerminal)
  BY DEF TransferInv, GetsFileComplete, Gets, Package, FileTypes
<1>2. PICK g : g = Package.id
  OBVIOUS
<1>3. /\ g \in Files /\ Head(toTerminal).id = g /\ Head(toTerminal).type = "FileComplete"
      /\ 1 \in Places(toTerminal, g)
  BY <1>1, <1>2, HeadIs DEF Package
<1>4. PICK p : p = [type |-> "FileCompleteAck", id |-> g]
  OBVIOUS
<1>5. p \in ProgramPackage /\ p.type = "FileCompleteAck"
  BY <1>3, <1>4 DEF ProgramPackage
<1>6. <<p>> \in Seq(ProgramPackage) /\ Len(<<p>>) = 1 /\ <<p>>[1] = p
  BY <1>5, OneSaid
<1>7. Says(<<p>>) /\ done' = done \cup {g}
  BY <1>2, <1>4 DEF GetsFileComplete
<1>8. \A i \in 1..Len(<<p>>) : <<p>>[i].type # "FileProposeStart"
  BY <1>5, <1>6
<1>9. /\ Line' = Line \o <<p>> /\ Line \in Seq(ProgramPackage)
      /\ toProgram' \in Seq(ProgramPackage) /\ toTerminal' \in Seq(TerminalPackage)
      /\ \A f \in Files \ {g} : Size[f] > 0 => FileInv(f)'
  BY <1>1, <1>3, <1>6, <1>7, <1>8, OthersKeep
<1>10. ASSUME Size[g] > 0
       PROVE  FileInv(g)'
  <2>1. /\ FileInv(g) /\ store[g] \in Part /\ signaled \in BOOLEAN
        /\ toTerminal \in Seq(TerminalPackage) /\ Chain(toTerminal, store[g], g, signaled)
    BY <1>3, <1>10, FileIs DEF FileInv
  <2>2. Places(toTerminal', g) = {}
    BY <1>1, <1>3, <2>1, TakeLast
  <2>3. PICK n \in 0..Size[g] :
            store[g] = [len |-> n, sound |-> TRUE] /\ (n = Size[g] \/ signaled)
    BY <1>1, <1>3, <2>1, TakeLast, ZenonT(30)
  <2>4. store[g].sound /\ (signaled \/ store[g].len = Size[g])
    BY <2>3
  <2>5. Chain(toTerminal', store[g], g, signaled) /\ ~HasInfo(toTerminal', g)
    BY <2>2 DEF Chain, HasInfo
  <2>6. ~Fresh(g) /\ Asks(Line, g) = {}
    BY <1>3, <2>1 DEF FileInv
  <2>7. ~Streaming(g)
    <3>1. toTerminal[1].type = "FileComplete"
      BY <1>1, <1>3, <2>1, TakeIs
    <3> QED
      BY <1>3, <2>1, <3>1 DEF FileInv, GoesOnAt
  <2>8. ~Fresh(g)' /\ ~Streaming(g)'
    BY <2>6, <2>7 DEF Fresh, Streaming, fileVars
  <2>9. Asks(Line', g) = {} /\ OneAsk(Line', g, store[g])
    <3>1. LineKept(Line, Line', g)
      BY <1>3, <1>6, <1>8, <1>9, LineSays
    <3> QED
      BY <2>6, <3>1 DEF LineKept, OneAsk
  <2>10. store' = store /\ signaled' = signaled
    BY <1>1
  <2> QED
    BY <2>2, <2>4, <2>5, <2>8, <2>9, <2>10 DEF FileInv
<1>11. DataTypeOK'
  BY <1>1, <1>3, <1>7, <1>9 DEF DataTypeOK, fileVars
<1> QED
  BY <1>3, <1>9, <1>10, <1>11 DEF TransferInv


\* A step of the terminal.
LEMMA PeerKeeps ==
    ASSUME TransferInv, PeerStep
    PROVE  TransferInv'
<1>1. UNCHANGED <<fileVars, bufferM, signaled>>
  BY DEF PeerStep
<1>2. /\ toTerminal \in Seq(TerminalPackage)
      /\ bufferM \in Seq(ProgramPackage) /\ toProgram \in Seq(ProgramPackage)
      /\ signaled \in BOOLEAN
  BY DEF TransferInv, DataTypeOK
<1>3. \A type \in PlainAnswers :
          Plain(type) \in ProgramPackage /\ Plain(type).type # "FileProposeStart"
  BY DEF Plain, ProgramPackage, PlainAnswers
<1>4. ASSUME UNCHANGED <<store, done>>, NEW type \in PlainAnswers, Says(<<Plain(type)>>),
             \/ UNCHANGED toTerminal
             \/ /\ toTerminal # <<>> /\ toTerminal' = Tail(toTerminal)
                /\ Head(toTerminal).type \notin FileTypes
      PROVE  TransferInv'
  <2>1. PICK p \in ProgramPackage : p = Plain(type) /\ p.type # "FileProposeStart"
    BY <1>3, <1>4
  <2>2. <<p>> \in Seq(ProgramPackage) /\ Len(<<p>>) = 1 /\ <<p>>[1] = p
    BY OneSaid
  <2>3. \A i \in 1..Len(<<p>>) : <<p>>[i].type # "FileProposeStart"
    BY <2>1, <2>2
  <2>4. Says(<<p>>)
    BY <1>4, <2>1
  <2> QED
    BY <1>1, <1>4, <2>2, <2>3, <2>4, SayStep
<1>5. CASE GetsInitReq
  BY <1>4, <1>5 DEF GetsInitReq, Gets, receiverVars, PlainAnswers, FileTypes
<1>6. CASE GetsFileInfo
  BY <1>1, <1>6, AskStep
<1>7. CASE GetsFileInitPos \/ GetsFileContent
  BY <1>1, <1>7, StoreStep
<1>8. CASE GetsFileComplete
  BY <1>1, <1>8, CompleteStep
<1>9. CASE GetsBye
  BY <1>4, <1>9 DEF GetsBye, Gets, PlainAnswers, FileTypes
<1>10. CASE GetsOther
  <2>1. UNCHANGED <<toProgram, store, done>>
    BY <1>10 DEF GetsOther, receiverVars
  <2>2. PICK ps \in Seq(ProgramPackage) : Len(ps) = 0 /\ Says(ps)
    <3>1. toProgram \o <<>> = toProgram
      BY <1>2, ConcatEmptySeq
    <3>2. Says(<<>>)
      BY <2>1, <3>1 DEF Says
    <3>3. <<>> \in Seq(ProgramPackage) /\ Len(<<>>) = 0
      OBVIOUS
    <3> QED
      BY <3>2, <3>3
  <2>3. \A i \in 1..Len(ps) : ps[i].type # "FileProposeStart"
    BY <2>2
  <2>4. /\ toTerminal # <<>> /\ toTerminal' = Tail(toTerminal)
        /\ Head(toTerminal).type \notin FileTypes
    BY <1>10 DEF GetsOther, Gets, FileTypes
  <2> QED
    BY <1>1, <2>1, <2>2, <2>3, <2>4, SayStep
<1>11. CASE Cancel
  <2>1. PICK p \in ProgramPackage, q \in ProgramPackage :
            /\ p = Plain("ErrMsg") /\ q = Plain("Bye")
            /\ p.type # "FileProposeStart" /\ q.type # "FileProposeStart"
    BY <1>3 DEF PlainAnswers
  <2>2. Says(<<p, q>>) /\ UNCHANGED <<toTerminal, store, done>>
    BY <1>11, <2>1 DEF Cancel
  <2>3. /\ <<p, q>> \in Seq(ProgramPackage) /\ Len(<<p, q>>) = 2
        /\ <<p, q>>[1] = p /\ <<p, q>>[2] = q
    OBVIOUS
  <2>4. \A i \in 1..Len(<<p, q>>) : <<p, q>>[i].type # "FileProposeStart"
    BY <2>1, <2>3
  <2> QED
    BY <1>1, <2>2, <2>3, <2>4, SayStep
<1>12. CASE Heartbeat
  BY <1>4, <1>12 DEF Heartbeat, PlainAnswers
<1>13. CASE Damage
  <2>1. /\ toProgram # <<>> /\ toProgram' = <<Plain("Broken")>> \o Tail(toProgram)
        /\ UNCHANGED <<toTerminal, store, done>>
    BY <1>13 DEF Damage
  <2>2. Line' = bufferM \o (<<Plain("Broken")>> \o Tail(toProgram))
    BY <1>1, <2>1 DEF Line
  <2>3. toProgram' \in Seq(ProgramPackage)
    <3>1. PICK p \in ProgramPackage : p = Plain("Broken")
      BY <1>3 DEF PlainAnswers
    <3>2. <<p>> \in Seq(ProgramPackage) /\ Tail(toProgram) \in Seq(ProgramPackage)
      BY <1>2, <2>1, OneSaid, HeadTailProperties
    <3>3. <<p>> \o Tail(toProgram) \in Seq(ProgramPackage)
      BY <3>2, Joined
    <3> QED
      BY <2>1, <3>1, <3>3
  <2>4. \A f \in Files : LineKept(Line, Line', f)
    BY <1>2, <2>1, <2>2, LineDamaged DEF Line
  <2>5. \A f \in Files : Kept(toTerminal, toTerminal', f)
    BY <2>1, Fixed
  <2> QED
    BY <1>1, <1>2, <2>1, <2>3, <2>4, <2>5, AsideStep
<1> QED
  BY <1>5, <1>6, <1>7, <1>8, <1>9, <1>10, <1>11, <1>12, <1>13
  DEF PeerStep, ReceiverAnswers, Disturbance

\* Every step.
LEMMA TransferNext == TransferInv /\ [Next]_transferVars => TransferInv'
<1> SUFFICES ASSUME TransferInv, [Next]_transferVars
             PROVE  TransferInv'
  OBVIOUS
<1>1. /\ bufferM \in Seq(ProgramPackage) /\ toProgram \in Seq(ProgramPackage)
      /\ signaled \in BOOLEAN
  BY DEF TransferInv, DataTypeOK
<1>2. CASE SfThread
  BY <1>2, ThreadKeeps
<1>3. CASE SfRead
  <2>1. PICK n \in 1..Len(toProgram) :
            /\ bufferM' = bufferM \o SubSeq(toProgram, 1, n)
            /\ toProgram' = SubSeq(toProgram, n + 1, Len(toProgram))
    BY <1>3 DEF SfRead, ReadTick
  <2>2. UNCHANGED <<toTerminal, signaled, fileVars, store, done>>
    BY <1>3 DEF SfRead, ReadTick, receiverVars
  <2>3. /\ Line' = Line
        /\ bufferM' \in Seq(ProgramPackage) /\ toProgram' \in Seq(ProgramPackage)
    BY <1>1, <2>1, LineRead DEF Line
  <2> QED
    BY <1>1, <2>2, <2>3, StillStep
<1>4. CASE PeerStep
  BY <1>4, PeerKeeps
<1>5. CASE SfSignal \/ SfTimer \/ Interrupt \/ UNCHANGED transferVars
  <2>1. /\ UNCHANGED <<toTerminal, toProgram, bufferM, fileVars, store, done>>
        /\ signaled' = signaled \/ signaled' = TRUE
    BY <1>5 DEF SfSignal, SignalTick, SfTimer, SessionTimer, Interrupt, SigHandler, lineVars,
                transferVars, sfVars, oscVars, receiverVars
  <2>2. Line' = Line
    BY <2>1 DEF Line
  <2> QED
    BY <1>1, <2>1, <2>2, StillStep
<1> QED
  BY <1>2, <1>3, <1>4, <1>5 DEF Next

\* It starts so.
LEMMA TransferInit == Init => TransferInv
<1> SUFFICES ASSUME Init
             PROVE  TransferInv
  OBVIOUS
<1>1. /\ bufferM = <<>> /\ toProgram = <<>> /\ toTerminal = <<>> /\ signaled = FALSE
      /\ filesM = FileList /\ zmodemFileMapM = <<>>
      /\ store \in Holdings /\ done = {}
  BY DEF Init, SfInit, OscInit, ReceiverInit
<1>2. Line = <<>> /\ DOMAIN zmodemFileMapM = {}
  BY <1>1 DEF Line
<1>3. \A i, j \in 1..Len(filesM) : i # j => filesM[i] # filesM[j]
  <2> SUFFICES ASSUME NEW i \in 1..Len(filesM), NEW j \in 1..Len(filesM), i < j
               PROVE  filesM[i] # filesM[j]
    BY <1>1, SfAssumption, LenProperties
  <2>1. filesM[i] < filesM[j] /\ filesM[i] \in Nat
    BY <1>1, SfAssumption, ElementOfSeq
  <2> QED
    BY <2>1
<1>4. DataTypeOK
  <2>1. store \in [Files -> Part]
    BY <1>1, TransferAssumption DEF Part
  <2>2. filesM \in Seq(Files)
    BY <1>1, SfAssumption
  <2>3. zmodemFileMapM \in
            [DOMAIN zmodemFileMapM -> [pos : Nat, stream : {"closed", "good", "end"}]]
    BY <1>1, <1>2
  <2>4. /\ toTerminal \in Seq(TerminalPackage)
        /\ bufferM \in Seq(ProgramPackage) /\ toProgram \in Seq(ProgramPackage)
    BY <1>1
  <2>5. done \subseteq Files /\ signaled \in BOOLEAN /\ DOMAIN zmodemFileMapM \subseteq Files
    BY <1>1, <1>2
  <2> QED
    BY <1>3, <2>1, <2>2, <2>3, <2>4, <2>5 DEF DataTypeOK
<1>5. ASSUME NEW f \in Files
      PROVE  FileInv(f)
  <2>1. Places(toTerminal, f) = {} /\ Asks(Line, f) = {}
    BY <1>1, <1>2 DEF Places, Asks
  <2>2. ~HasInfo(toTerminal, f) /\ ~Streaming(f)
    BY <1>2, <2>1 DEF HasInfo, Streaming
  <2>3. Chain(toTerminal, store[f], f, signaled) /\ OneAsk(Line, f, store[f])
    BY <2>1 DEF Chain, OneAsk
  <2> QED
    BY <1>1, <2>1, <2>2, <2>3 DEF FileInv
<1> QED
  BY <1>4, <1>5 DEF TransferInv

\* The invariant of every behaviour: what the packages on the line say of each file
\* fits together, with what the terminal has of it, and with what sf will send.
THEOREM TransferInvariant == Spec => []TransferInv
BY TransferInit, TransferNext, PTL DEF Spec

\* A file of some length that sf announces as complete has every byte at its place
\* at the terminal, for every list of files, block size and part the terminal held
\* before, and over every resume, cancel, damaged package and timeout; after a
\* signal, what the terminal has of it is sound (OscSession::handleFileProposeStart,
\* OscSession::sendFileContent, OscSession::sendPkg).
THEOREM CompleteWhole == Spec => []CompleteFilesAreWhole
<1>1. TransferInv => CompleteFilesAreWhole
  <2> SUFFICES ASSUME TransferInv, NEW f \in done, Size[f] > 0
               PROVE  IF signaled THEN store[f].sound ELSE Whole(f)
    BY DEF CompleteFilesAreWhole
  <2>1. f \in Files
    BY DEF TransferInv, DataTypeOK
  <2>2. /\ store[f] \in Part /\ signaled \in BOOLEAN
        /\ store[f].sound /\ (signaled \/ store[f].len = Size[f])
    BY <2>1, FileIs DEF FileInv
  <2>3. CASE signaled
    BY <2>2, <2>3
  <2>4. CASE ~signaled
    BY <2>2, <2>4, PartIs DEF Whole
  <2> QED
    BY <2>3, <2>4
<1> QED
  BY <1>1, TransferInvariant, PTL
=============================================================================
