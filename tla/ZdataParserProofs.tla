-------------------------- MODULE ZdataParserProofs --------------------------
(***************************************************************************)
(* Proofs about ZdataParser, for every set of frames, every damage of the  *)
(* line and every way it cuts them into reads.                             *)
(***************************************************************************)
EXTENDS ZdataParser, SequenceTheorems, TLAPS

\* What the line makes of a sequence of bytes is one.
LEMMA DamagedType ==
    ASSUME NEW s \in Seq(Byte)
    PROVE  Damaged(s) \subseteq Seq(Byte)
<1>1. \A b \in {Data(0), ZDLE, Code("ZCRCE")} : b \in Byte
  <2> DEFINE Kinds == Ends \cup {"data", "crc", "ZDLE", "XON", "ZPAD"}
  <2>4. \A k \in Kinds, n \in Nat, i \in 0..4, f \in BOOLEAN : <<k, n, i, f>> \in Byte
    BY DEF Byte
  <2>5. \A k \in Kinds : <<k, 0, 0, FALSE>> \in Byte
    <3> HIDE DEF Kinds
    <3>1. 0 \in Nat /\ 0 \in 0..4
      OBVIOUS
    <3>2. FALSE \in BOOLEAN
      OBVIOUS
    <3> QED
      BY <2>4, <3>1, <3>2, Zenon
  <2>6. "data" \in Kinds /\ "ZDLE" \in Kinds /\ "ZCRCE" \in Kinds
    BY DEF Ends
  <2>1. Data(0) \in Byte
    BY <2>5, <2>6, Zenon DEF Data
  <2>2. ZDLE \in Byte
    BY <2>5, <2>6, Zenon DEF ZDLE, Code
  <2>3. Code("ZCRCE") \in Byte
    BY <2>5, <2>6, Zenon DEF Code
  <2> QED
    BY <2>1, <2>2, <2>3
<1>2. \A i \in 1..Len(s) : SubSeq(s, 1, i - 1) \in Seq(Byte)
                           /\ SubSeq(s, i, Len(s)) \in Seq(Byte)
                           /\ SubSeq(s, i + 1, Len(s)) \in Seq(Byte)
  OBVIOUS
<1>3. \A i \in 1..Len(s) : RemoveAt(s, i) \in Seq(Byte)
  BY <1>2 DEF RemoveAt
<1>4. \A i \in 1..Len(s), b \in Byte : ReplaceAt(s, i, b) \in Seq(Byte)
  BY ExceptSeq DEF ReplaceAt
<1>5. \A i \in 1..Len(s), b \in Byte : InsertAt(s, i, b) \in Seq(Byte)
  BY <1>2 DEF InsertAt
<1> SUFFICES ASSUME NEW t \in Damaged(s) PROVE t \in Seq(Byte)
  OBVIOUS
<1>6. \/ \E i \in 1..Len(s) : t = RemoveAt(s, i)
      \/ \E i \in 1..Len(s), b \in {Data(0), ZDLE, Code("ZCRCE")} :
             t = ReplaceAt(s, i, b) \/ t = InsertAt(s, i, b)
  BY DEF Damaged
<1> QED
  BY <1>1, <1>3, <1>4, <1>5, <1>6

\* A read takes bytes from the line.
LEMMA ReadType ==
    ASSUME NEW s \in Seq(Byte), NEW n \in 1..Len(s)
    PROVE  SubSeq(s, 1, n) \in Seq(Byte) /\ SubSeq(s, n + 1, Len(s)) \in Seq(Byte)
OBVIOUS

\* decodeCrc32 takes a number of bytes.
LEMMA CrcLen ==
    ASSUME bufferM \in Seq(Byte), NEW i \in Nat
    PROVE  DecodeCrc32(i).len \in Nat
<1> DEFINE After(k) == k + (IF k < bufferLenM /\ ByteAt(k) = ZDLE THEN 2 ELSE 1)
<1>1. \A k \in Nat : After(k) \in Nat /\ After(k) > k
  OBVIOUS
<1>2. After(After(After(After(i)))) \in Nat /\ After(After(After(After(i)))) > i
  <2> HIDE DEF After
  <2> QED
    BY <1>1
<1> QED
  BY <1>2 DEF DecodeCrc32

-----------------------------------------------------------------------------
\* The loop stores behind where it looks, and while it runs the event that
\* started it has been taken off the queue.
IInv ==
    /\ TypeOK
    /\ scanning => events < MaxEvents
    /\ lastCheckExcapedSavedM <= lastCheckExcapedM
    /\ KeptIsCovered

\* A byte of data: what was kept is one longer, and so is what the CRC covers.
LEMMA KeepInv ==
    ASSUME IInv, Looking, NEW byte \in Byte, NEW took \in {1, 2},
           lastCheckExcapedM + took <= bufferLenM, Keep(byte, took)
    PROVE  IInv'
<1> DEFINE saved == lastCheckExcapedSavedM
<1>1. /\ bufferM \in Seq(Byte) /\ dataCrcM \in Seq(Byte)
      /\ saved \in Nat /\ lastCheckExcapedM \in Nat /\ saved <= lastCheckExcapedM
      /\ saved + 1 \in 1..Len(bufferM)
  BY DEF IInv, TypeOK, Looking, bufferLenM
<1>2. /\ bufferM' \in Seq(Byte) /\ Len(bufferM') = Len(bufferM)
      /\ \A i \in 1..Len(bufferM) : bufferM'[i] = IF i = saved + 1 THEN byte ELSE bufferM[i]
  BY <1>1 DEF Keep
<1>3. TypeOK' /\ (scanning' => events' < MaxEvents)
      /\ lastCheckExcapedSavedM' <= lastCheckExcapedM'
  BY <1>1, <1>2 DEF IInv, TypeOK, Keep
<1>4. KeptIsCovered'
  <2> SUFFICES ASSUME acks' = 0
               PROVE  lastCheckExcapedM' <= Len(bufferM') /\ Kept' = dataCrcM'
    BY <1>3 DEF KeptIsCovered, bufferLenM
  <2>1. SubSeq(bufferM, 1, saved) = dataCrcM
    BY DEF IInv, KeptIsCovered, Keep, Kept
  <2>2. SubSeq(bufferM', 1, saved + 1) = Append(SubSeq(bufferM, 1, saved), byte)
    BY <1>1, <1>2
  <2>3. lastCheckExcapedM' <= Len(bufferM')
    BY <1>2 DEF Keep, bufferLenM
  <2> QED
    BY <2>1, <2>2, <2>3 DEF Keep, Kept
<1> QED
  BY <1>3, <1>4 DEF IInv

\* Nothing but the state of the scan changes when handleZdata returns.
LEMMA ReturnInv ==
    ASSUME IInv, NEW how \in {"data", "next", "reset", "aborted"}, Return(how)
    PROVE  IInv'
BY DEF IInv, TypeOK, KeptIsCovered, Kept, bufferLenM, Return, indexVars

\* A good subpacket: the file stays one of bytes, and what is kept starts again.
LEMMA ConsumeInv ==
    ASSUME IInv, NEW type \in Ends, Good(type), NEW next \in {0, 1}, Consume(next)
    PROVE  /\ bufferM' \in Seq(Byte) /\ file' \in Seq(Byte) /\ dataCrcM' \in Seq(Byte)
           /\ line' \in Seq(Byte)
           /\ lastCheckExcapedM' = next /\ lastCheckExcapedSavedM' = next
           /\ dataCrcM' = <<>>
           /\ next = 0 => Kept' = <<>>
<1>1. /\ bufferM \in Seq(Byte) /\ file \in Seq(Byte) /\ line \in Seq(Byte)
      /\ lastCheckExcapedM \in Nat /\ lastCheckExcapedSavedM \in Nat
      /\ lastCheckExcapedSavedM <= Len(bufferM)
  BY DEF IInv, TypeOK, Good, AtEnd, bufferLenM
<1>2. RecvCrc.len \in Nat
  BY <1>1, CrcLen DEF RecvCrc
<1>3. Kept \in Seq(Byte)
  BY <1>1 DEF Kept
<1>4. Eaten \in Seq(Byte)
  <2> DEFINE m == lastCheckExcapedM + RecvCrc.len + 3
  <2>1. m \in Nat /\ m >= 1
    BY <1>1, <1>2
  <2>2. \A k \in Nat : k >= 1 => SubSeq(bufferM, k, Len(bufferM)) \in Seq(Byte)
    BY <1>1
  <2> QED
    BY <2>1, <2>2 DEF Eaten, bufferLenM
<1>5. next = 0 => Kept' = <<>>
  BY <1>4 DEF Consume, Kept
<1> QED
  BY <1>1, <1>3, <1>4, <1>5 DEF Consume

\* A call of the scan keeps the invariant.
LEMMA ScanInv == IInv /\ Scan => IInv'
<1> SUFFICES ASSUME IInv, Scan PROVE IInv'
  OBVIOUS
<1>1. CASE PlainByte
  <2>1. ByteAt(lastCheckExcapedM) \in Byte
    BY <1>1 DEF PlainByte, Looking, ByteAt, bufferLenM, IInv, TypeOK
  <2> QED
    BY <1>1, <2>1, KeepInv DEF PlainByte, Looking, bufferLenM, IInv, TypeOK
<1>2. CASE EscapedByte
  <2>1. ByteAt(lastCheckExcapedM + 1) \in Byte
    BY <1>2 DEF EscapedByte, ByteAt, bufferLenM, IInv, TypeOK
  <2>2. Flipped(ByteAt(lastCheckExcapedM + 1)) \in Byte
    BY <2>1 DEF Flipped, Byte
  <2> QED
    BY <1>2, <2>2, KeepInv DEF EscapedByte, AtEscape, Looking, bufferLenM, IInv, TypeOK
<1>3. CASE WaitForEnd \/ WaitForCrc \/ CrcError \/ AssertFails \/ LoopEnds
  BY <1>3, ReturnInv DEF WaitForEnd, WaitForCrc, CrcError, AssertFails, LoopEnds
<1>4. CASE GoodZcrce \/ GoodZcrcg
  <2>1. PICK type \in Ends : Good(type) /\ Consume(0)
    BY <1>4 DEF GoodZcrce, GoodZcrcg, Ends
  <2>2. scanning /\ events < MaxEvents /\ events \in Nat /\ acks \in Nat
    BY <2>1 DEF Good, AtEnd, AtEscape, Looking, IInv, TypeOK
  <2>3. /\ bufferM' \in Seq(Byte) /\ file' \in Seq(Byte) /\ line' \in Seq(Byte)
        /\ lastCheckExcapedM' = 0 /\ lastCheckExcapedSavedM' = 0 /\ dataCrcM' = <<>>
        /\ Kept' = <<>>
    BY <2>1, ConsumeInv
  <2>4. events' \in 0..MaxEvents /\ acks' \in Nat
        /\ scanning' \in BOOLEAN /\ ~scanning'
        /\ outcome' \in {"data", "next", "reset", "aborted"}
    <3>1. scanning' \in BOOLEAN /\ ~scanning'
      BY <1>4 DEF GoodZcrce, GoodZcrcg
    <3>2. acks' = acks /\ outcome' \in {outcome, "next"} /\ events' \in {events, events + 1}
      BY <1>4 DEF GoodZcrce, GoodZcrcg
    <3>3. events \in 0..MaxEvents /\ outcome \in {"data", "next", "reset", "aborted"}
      BY DEF IInv, TypeOK
    <3> QED
      BY <2>2, <3>1, <3>2, <3>3, ParserAssumption
  <2>5. TypeOK'
    BY <2>3, <2>4 DEF TypeOK
  <2>6. KeptIsCovered'
    BY <2>3 DEF KeptIsCovered, bufferLenM
  <2> QED
    BY <2>3, <2>4, <2>5, <2>6 DEF IInv
<1>5. CASE GoodZcrcqOrZcrcw
  <2>1. PICK type \in {"ZCRCQ", "ZCRCW"} : Good(type)
    BY <1>5 DEF GoodZcrcqOrZcrcw
  <2>2. type \in Ends /\ Consume(1)
    BY <1>5 DEF GoodZcrcqOrZcrcw, Ends
  <2>3. /\ bufferM' \in Seq(Byte) /\ file' \in Seq(Byte) /\ line' \in Seq(Byte)
        /\ lastCheckExcapedM' = 1 /\ lastCheckExcapedSavedM' = 1 /\ dataCrcM' = <<>>
    BY <2>1, <2>2, ConsumeInv
  <2>4. /\ acks' \in Nat /\ acks' # 0
        /\ events' \in 0..MaxEvents /\ (scanning' => events' < MaxEvents)
        /\ scanning' \in BOOLEAN /\ outcome' \in {"data", "next", "reset", "aborted"}
    BY <1>5 DEF GoodZcrcqOrZcrcw, IInv, TypeOK
  <2>5. TypeOK'
    BY <2>3, <2>4 DEF TypeOK
  <2>6. KeptIsCovered'
    BY <2>4 DEF KeptIsCovered
  <2> QED
    BY <2>3, <2>4, <2>5, <2>6 DEF IInv
<1> QED
  BY <1>1, <1>2, <1>3, <1>4, <1>5 DEF Scan

\* The inductive invariant holds in every state.
THEOREM Inductive == Spec => []IInv
<1>1. Init => IInv
  <2> SUFFICES ASSUME Init PROVE IInv
    OBVIOUS
  <2>1. line \in Seq(Byte)
    <3>1. Sent(frame) \in Seq(Byte)
      BY FramesAssumption DEF Init
    <3> QED
      BY <3>1, DamagedType DEF Init
  <2>2. <<>> \in Seq(Byte)
    OBVIOUS
  <2>3. Kept = dataCrcM
    BY SubSeqEmpty DEF Init, Kept
  <2>4. TypeOK /\ (scanning => events < MaxEvents)
    <3>1. events \in 0..MaxEvents
      BY ParserAssumption DEF Init
    <3>2. scanning \in BOOLEAN /\ ~scanning /\ outcome = "data" /\ acks = 0 /\ lastCheckExcapedM = 0
          /\ lastCheckExcapedSavedM = 0 /\ bufferM = <<>> /\ dataCrcM = <<>> /\ file = <<>>
      BY DEF Init
    <3> QED
      BY <2>1, <2>2, <3>1, <3>2 DEF TypeOK
  <2>5. lastCheckExcapedSavedM = 0 /\ lastCheckExcapedM = 0 /\ Len(bufferM) = 0
    BY DEF Init
  <2> QED
    BY <2>3, <2>4, <2>5 DEF IInv, KeptIsCovered, bufferLenM
<1>2. IInv /\ [Next]_vars => IInv'
  <2> SUFFICES ASSUME IInv, [Next]_vars PROVE IInv'
    OBVIOUS
  <2>1. CASE Arrive
    <3>1. PICK n \in 1..Len(line) : /\ bufferM' = bufferM \o SubSeq(line, 1, n)
                                    /\ line' = SubSeq(line, n + 1, Len(line))
      BY <2>1 DEF Arrive
    <3>2. bufferM \in Seq(Byte) /\ line \in Seq(Byte) /\ lastCheckExcapedSavedM \in Nat
          /\ events \in 0..MaxEvents
      BY DEF IInv, TypeOK
    <3>3. SubSeq(line, 1, n) \in Seq(Byte) /\ line' \in Seq(Byte)
      BY <3>1, <3>2, ReadType
    <3>4. bufferM' \in Seq(Byte) /\ Len(bufferM') >= Len(bufferM)
          /\ \A i \in 1..Len(bufferM) : bufferM'[i] = bufferM[i]
      BY <3>1, <3>2, <3>3
    <3>5. lastCheckExcapedSavedM <= Len(bufferM)
             => SubSeq(bufferM', 1, lastCheckExcapedSavedM) = SubSeq(bufferM, 1, lastCheckExcapedSavedM)
      BY <3>2, <3>4
    <3>6. TypeOK' /\ (scanning' => events' < MaxEvents)
      BY <2>1, <3>3, <3>4, ParserAssumption DEF Arrive, IInv, TypeOK, indexVars
    <3>7. KeptIsCovered'
      BY <2>1, <3>2, <3>4, <3>5 DEF Arrive, IInv, TypeOK, KeptIsCovered, Kept, bufferLenM, indexVars
    <3> QED
      BY <2>1, <3>6, <3>7 DEF Arrive, IInv, indexVars
  <2>2. CASE Start
    BY <2>2, ParserAssumption DEF Start, IInv, TypeOK, KeptIsCovered, Kept, bufferLenM, indexVars
  <2>3. CASE Scan
    BY <2>3, ScanInv
  <2>4. CASE UNCHANGED vars
    BY <2>4 DEF vars, indexVars, IInv, TypeOK, KeptIsCovered, Kept, bufferLenM
  <2> QED
    BY <2>1, <2>2, <2>3, <2>4 DEF Next
<1> QED
  BY <1>1, <1>2, PTL DEF Spec

\* Every variable of the parser keeps its type.
THEOREM TypeCorrect == Spec => []TypeOK
<1>1. IInv => TypeOK
  BY DEF IInv
<1> QED
  BY <1>1, Inductive, PTL

\* Decoding in place loses nothing: what is stored at the head of the buffer is
\* what the running CRC covers, for every frame, every damage and every cut.
THEOREM NothingLost == Spec => []KeptIsCovered
<1>1. IInv => KeptIsCovered
  BY DEF IInv
<1> QED
  BY <1>1, Inductive, PTL
=============================================================================
