------------------------- MODULE ImageBuilderProofs -------------------------
(***************************************************************************)
(* For every offset, alignment, size and string: the builder keeps its     *)
(* cursor and its streams together, aligns exactly, and implements the     *)
(* segmented memory.                                                       *)
(***************************************************************************)
EXTENDS ImageBuilder, BinaryBuilderProofs

\* The invariant that is inductive: every call finds the builder Sound.
Inv == Sound(binary) /\ Len(binary.text.buf) <= MaxTextLength

LEMMA TextBound == Inv => Len(binary.text.buf) \in Nat /\ binary \in Builder
                          /\ MaxTextLength \in Nat /\ DATA_SEGMENT_OFFSET \in Nat
BY ClientAssumption, OffsetAssumption DEF Inv, Sound, Builder, Stream

LEMMA InitInv == Init => Inv
<1> SUFFICES ASSUME Init PROVE Inv
  OBVIOUS
<1>1. binary = [cursor |-> 0, text |-> [buf |-> <<>>, put |-> 0],
                data |-> [buf |-> <<>>, put |-> 0]]
  BY DEF Init, Open, EmptyStream
<1>2. <<>> \in Seq(Byte) /\ Len(<<>>) = 0
  OBVIOUS
<1>3. binary \in Builder
  BY <1>1, <1>2 DEF Builder, Stream
<1> QED BY <1>1, <1>2, <1>3, ClientAssumption, OffsetAssumption
        DEF Inv, Sound, CursorSync, GetSegmentType


-----------------------------------------------------------------------------
(***************************************************************************)
(* Every call keeps Inv, and is a step of the segmented memory.            *)
(***************************************************************************)

\* The abstract memory.
memory == [a \in Written(binary) |-> ByteAt(binary, a)]

\* Bytes put at the cursor are a write of the segmented memory.
LEMMA PutsIsWrite ==
  ASSUME NEW bytes \in Seq(Byte), Inv, Puts(binary, bytes, binary')
  PROVE  Image!WriteBytes(bytes)
<1>1. binary.cursor \in Nat /\ Len(bytes) \in Nat
  BY DEF Inv, Sound, Builder
<1>a. binary'.cursor = binary.cursor + Len(bytes)
  BY DEF Puts
<1>2. binary'.cursor - 1 = binary.cursor + Len(bytes) - 1
  BY <1>1, <1>a
<1> DEFINE here == binary.cursor .. (binary.cursor + Len(bytes) - 1)
<1>3. Written(binary') = Written(binary) \cup here
  BY <1>2 DEF Puts
<1>4. \A a \in Written(binary') :
        ByteAt(binary', a) = IF a \in here THEN bytes[a - binary.cursor + 1]
                             ELSE ByteAt(binary, a)
  BY <1>2 DEF Puts
<1>5. \A a \in Written(binary') \ here : memory[a] = ByteAt(binary, a)
  BY <1>3 DEF memory
<1> HIDE DEF here
<1>6. memory' = [a \in Written(binary) \cup here |->
                   IF a \in here THEN bytes[a - binary.cursor + 1] ELSE memory[a]]
  BY <1>3, <1>4, <1>5 DEF memory
<1> QED BY <1>6 DEF Puts, Image!WriteBytes, memory, here

\* A seek, with or without a gap to fill, is a move of the segmented memory.
LEMMA SetLocationIsMove ==
  ASSUME NEW location \in Nat, Inv,
         location < DATA_SEGMENT_OFFSET => location <= Len(binary.text.buf),
         binary' = SetLocation(binary, location)
  PROVE  Inv' /\ Image!Move
<1>1. binary \in Builder /\ Len(binary.text.buf) < DATA_SEGMENT_OFFSET
  BY DEF Inv, Sound
<1> DEFINE base == IF location < DATA_SEGMENT_OFFSET THEN 0 ELSE DATA_SEGMENT_OFFSET
<1>2. /\ Sound(binary') /\ binary'.cursor = location /\ Extends(binary, binary')
      /\ binary'.text.buf = binary.text.buf
      /\ Written(binary') = Written(binary) \cup base .. (location - 1)
  BY <1>1, SetLocationMoves, SetLocationWritten
<1>3. Inv'
  BY <1>2 DEF Inv
<1>4. Image!SegmentBase(binary'.cursor) = base
  BY <1>2 DEF Image!SegmentBase
<1> HIDE DEF base
<1>5. Image!ZeroByte = ZeroByte
  BY DEF Image!ZeroByte, ZeroByte, Image!NoField, NoField
<1>6. memory' = [a \in Written(binary) \cup base .. (location - 1) |->
                   IF a \in Written(binary) THEN memory[a] ELSE ZeroByte]
  BY <1>2 DEF Extends, memory
<1>7. Image!Move
  BY <1>2, <1>4, <1>5, <1>6 DEF Image!Move, memory
<1> QED BY <1>3, <1>7

\* Seeking the end of a segment changes no memory and finds the first
\* unwritten address.
LEMMA EndIsToSegment ==
  ASSUME Inv, Sound(binary'), AtEnd(binary'),
         binary'.text.buf = binary.text.buf, binary'.data.buf = binary.data.buf
  PROVE  Inv' /\ Image!ToSegment
<1> DEFINE T == Len(binary.text.buf)
           D == Len(binary.data.buf)
<1>1. /\ T \in Nat /\ D \in Nat /\ DATA_SEGMENT_OFFSET \in Nat
      /\ T < DATA_SEGMENT_OFFSET /\ binary'.cursor \in Nat
  BY OffsetAssumption DEF Inv, Sound, Builder, Stream
<1>2. Inv'
  BY DEF Inv
<1>3. Written(binary') = Written(binary) /\ memory' = memory
  BY DEF Written, ByteAt, memory
<1>4. Written(binary) = 0 .. (T - 1) \cup DATA_SEGMENT_OFFSET .. (DATA_SEGMENT_OFFSET + D - 1)
  BY DEF Written
<1>5. CASE binary'.cursor < DATA_SEGMENT_OFFSET
  <2>1. binary'.cursor = T
    BY <1>5 DEF AtEnd, GetSegmentType
  <2>2. T \notin Written(binary) /\ \A a \in 0 .. (T - 1) : a \in Written(binary)
    BY <1>1, <1>4
  <2>3. Image!FirstUnwritten(binary'.cursor, 0)
    BY <1>1, <2>1, <2>2 DEF Image!FirstUnwritten
  <2> QED BY <1>2, <1>3, <2>3 DEF Image!ToSegment, memory
<1>6. CASE ~(binary'.cursor < DATA_SEGMENT_OFFSET)
  <2> DEFINE e == DATA_SEGMENT_OFFSET + D
  <2>1. binary'.cursor = e
    BY <1>6 DEF AtEnd, GetSegmentType
  <2>2. /\ e \notin Written(binary) /\ e >= DATA_SEGMENT_OFFSET
        /\ \A a \in DATA_SEGMENT_OFFSET .. (e - 1) : a \in Written(binary)
    <3> HIDE DEF T, D
    <3> QED BY ONLY <1>1, <1>4
  <2> HIDE DEF e
  <2>3. Image!FirstUnwritten(binary'.cursor, DATA_SEGMENT_OFFSET)
    BY <2>1, <2>2 DEF Image!FirstUnwritten
  <2> QED BY <1>2, <1>3, <2>3 DEF Image!ToSegment, memory
<1> QED BY <1>5, <1>6

LEMMA StepInv == Inv /\ [Next]_binary => Inv' /\ [Image!Next]_(Image!vars)
<1> SUFFICES ASSUME Inv, [Next]_binary PROVE Inv' /\ [Image!Next]_(Image!vars)
  OBVIOUS
<1>0. /\ Sound(binary) /\ binary \in Builder /\ Len(binary.text.buf) < DATA_SEGMENT_OFFSET
      /\ Len(binary.text.buf) \in Nat /\ Len(binary.text.buf) <= MaxTextLength
      /\ binary.cursor \in Nat /\ MaxTextLength \in Nat /\ DATA_SEGMENT_OFFSET \in Nat
      /\ MaxTextLength < DATA_SEGMENT_OFFSET
  BY ClientAssumption, OffsetAssumption DEF Inv, Sound, Builder, Stream
<1>1. ASSUME NEW w \in Words, DoWriteWord(w)
      PROVE  Inv' /\ Image!Next
  <2>1. w \in Word /\ WordBytes(w) \in Seq(Byte) /\ Len(WordBytes(w)) = INSTRUCTION_SIZE
    BY ClientAssumption, WordBytesSequence
  <2>2. GetSegmentType(binary) = "TEXT" => binary.cursor + INSTRUCTION_SIZE <= MaxTextLength
    BY <1>1 DEF DoWriteWord, Room, InData
  <2>3. GetSegmentType(binary) = "TEXT" =>
          binary.cursor + INSTRUCTION_SIZE < DATA_SEGMENT_OFFSET
    BY <1>0, <2>2 DEF INSTRUCTION_SIZE
  <2>4. /\ Sound(binary') /\ Puts(binary, WordBytes(w), binary')
        /\ Len(binary'.text.buf) =
             IF GetSegmentType(binary) = "TEXT" /\ binary'.cursor > Len(binary.text.buf)
             THEN binary'.cursor ELSE Len(binary.text.buf)
    BY <1>0, <1>1, <2>1, <2>3, WriteWordPuts DEF DoWriteWord
  <2>5. binary'.cursor = binary.cursor + INSTRUCTION_SIZE
    BY <2>1, <2>4 DEF Puts
  <2>6. Inv'
    BY <1>0, <2>2, <2>4, <2>5 DEF Inv
  <2>7. Image!WriteBytes(WordBytes(w))
    BY <2>1, <2>4, PutsIsWrite
  <2>8. Image!WordBytes(w) = WordBytes(w)
    BY DEF Image!WordBytes, WordBytes, Image!INSTRUCTION_SIZE, INSTRUCTION_SIZE
  <2> QED BY <2>6, <2>7, <2>8 DEF Image!Next
<1>2. ASSUME NEW s \in Strings, DoWriteData(s)
      PROVE  Inv' /\ Image!Next
  <2>1. s \in Seq(Byte) /\ GetSegmentType(binary) = "DATA"
    BY <1>2, ClientAssumption DEF DoWriteData, InData
  <2>2. Sound(binary') /\ Puts(binary, s, binary') /\ binary'.text = binary.text
    BY <1>0, <1>2, <2>1, WriteDataPuts DEF DoWriteData
  <2>3. Image!WriteBytes(s)
    BY <2>1, <2>2, PutsIsWrite
  <2> QED BY <1>0, <2>2, <2>3 DEF Inv, Image!Next
<1>3. ASSUME NEW size \in Nat, GetSegmentType(binary) = "DATA", binary' = Pad(binary, size)
      PROVE  Inv' /\ Image!Next
  <2>1. /\ binary.cursor + size \in Nat
        /\ ~(binary.cursor + size < DATA_SEGMENT_OFFSET)
    BY <1>0, <1>3 DEF GetSegmentType
  <2>2. binary' = SetLocation(binary, binary.cursor + size)
    BY <1>3 DEF Pad
  <2> QED BY <2>1, <2>2, SetLocationIsMove DEF Image!Next
<1>4. ASSUME NEW n \in Sizes, DoPad(n)
      PROVE  Inv' /\ Image!Next
  BY <1>3, <1>4, ClientAssumption DEF DoPad, InData
<1>5. ASSUME NEW n \in Alignments, DoAlign(n)
      PROVE  Inv' /\ [Image!Next]_(Image!vars)
  <2> DEFINE r == binary.cursor % n
  <2>1. n \in Nat \ {0} /\ GetSegmentType(binary) = "DATA"
    BY <1>5, ClientAssumption DEF DoAlign, InData
  <2>2. r \in 0 .. (n - 1)
    BY <1>0, <2>1
  <2>3. binary' = IF r # 0 THEN Pad(binary, n - r) ELSE binary
    BY <1>5 DEF DoAlign, Align
  <2> HIDE DEF r
  <2>4. CASE r # 0
    <3>1. n - r \in Nat
      BY <2>1, <2>2
    <3> QED BY <1>3, <2>1, <2>3, <2>4, <3>1
  <2>5. CASE r = 0
    <3>1. binary' = binary
      BY <2>3, <2>5
    <3> QED BY <3>1 DEF Inv, Image!vars
  <2> QED BY <2>4, <2>5
<1>6. ASSUME NEW location \in 0 .. MaxTextLength
                 \cup DATA_SEGMENT_OFFSET .. (DATA_SEGMENT_OFFSET + MaxDataLength),
             DoSetLocation(location)
      PROVE  Inv' /\ Image!Next
  <2>1. location \in Nat
    BY <1>0, <1>6
  <2> QED BY <1>6, <2>1, SetLocationIsMove DEF DoSetLocation, Image!Next
<1>7. ASSUME DoSetLocationEnd
      PROVE  Inv' /\ Image!Next
  <2>1. /\ Sound(binary') /\ AtEnd(binary')
        /\ binary'.text.buf = binary.text.buf /\ binary'.data.buf = binary.data.buf
    BY <1>0, <1>7, SetLocationEndMoves DEF DoSetLocationEnd
  <2> QED BY <2>1, EndIsToSegment DEF Image!Next
<1>8. ASSUME NEW segment \in {"TEXT", "DATA"}, DoSetSegmentType(segment)
      PROVE  Inv' /\ Image!Next
  <2>1. /\ Sound(binary') /\ AtEnd(binary')
        /\ binary'.text.buf = binary.text.buf /\ binary'.data.buf = binary.data.buf
    BY <1>0, <1>8, SetSegmentTypeMoves DEF DoSetSegmentType
  <2> QED BY <2>1, EndIsToSegment DEF Image!Next
<1>9. CASE UNCHANGED binary
  BY <1>9 DEF Inv, Image!vars
<1> QED BY <1>1, <1>2, <1>4, <1>5, <1>6, <1>7, <1>8, <1>9 DEF Next

-----------------------------------------------------------------------------
\* The builder is always well formed, its put positions inside its streams.
THEOREM TypeCorrect == Spec => []TypeOK
<1>1. Inv => TypeOK
  BY DEF Inv, Sound, TypeOK
<1> QED BY <1>1, InitInv, StepInv, PTL DEF Spec

\* The put position of the current stream and the cursor never part.
THEOREM CursorStaysInSync == Spec => []CursorInSync
<1>1. Inv => CursorInSync
  BY DEF Inv, Sound, CursorInSync
<1> QED BY <1>1, InitInv, StepInv, PTL DEF Spec

\* The builder implements the segmented memory.
THEOREM Refinement == Spec => ImplementsImage
<1>1. Init => Image!Init
  <2> SUFFICES ASSUME Init PROVE Image!Init
    OBVIOUS
  <2>1. binary.cursor = 0 /\ Len(binary.text.buf) = 0 /\ Len(binary.data.buf) = 0
    BY DEF Init, Open, EmptyStream
  <2>2. Written(binary) = {}
    BY <2>1, OffsetAssumption DEF Written
  <2> QED BY <2>1, <2>2 DEF Image!Init
<1> QED BY <1>1, InitInv, StepInv, PTL DEF Spec, Image!Spec, ImplementsImage

\* align() reaches the next multiple of the alignment and no further, for every
\* alignment and wherever the calls before it left the cursor.
THEOREM AlignmentIsExact == Spec => AlignIsExact
<1>1. ASSUME Inv, NEW n \in Alignments, DoAlign(n)
      PROVE  /\ binary'.cursor % n = 0
             /\ binary'.cursor \in binary.cursor .. (binary.cursor + n - 1)
  <2>1. /\ Sound(binary) /\ GetSegmentType(binary) = "DATA"
        /\ n \in Nat \ {0} /\ binary' = Align(binary, n)
    BY <1>1, ClientAssumption DEF Inv, DoAlign, InData
  <2> QED BY <2>1, AlignAligns
<1>2. Inv => \A n \in Alignments : DoAlign(n) =>
               /\ binary'.cursor % n = 0
               /\ binary'.cursor \in binary.cursor .. (binary.cursor + n - 1)
  BY <1>1
<1> QED BY <1>2, InitInv, StepInv, PTL DEF Spec, AlignIsExact

=============================================================================
