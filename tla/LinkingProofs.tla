---------------------------- MODULE LinkingProofs ----------------------------
(***************************************************************************)
(* The assembler's types, why the program file is linked, why a label is   *)
(* the address of its statement, why the arguments of .word are aligned,   *)
(* and why operands decode to what they mean, for every source file.       *)
(*                                                                         *)
(* LinkedImage speaks of the end only.  It holds there because at every    *)
(* step each listed byte either has its final value already, or belongs to *)
(* an unresolved address that the patch loop has still to reach.           *)
(*                                                                         *)
(* A label is given its location when its statement is reduced, after the  *)
(* statement has written its units: the location was taken where the first *)
(* of them went, and what is written afterwards has a statement of its own *)
(* and addresses that are free.                                            *)
(***************************************************************************)
EXTENDS Assembler, BinaryBuilderProofs

-----------------------------------------------------------------------------
(***************************************************************************)
(* Types: what the builder's functions return for any builder.             *)
(***************************************************************************)

LEMMA ConstantsTyped ==
  /\ DATA_SEGMENT_OFFSET \in Nat \ {0} /\ DIRECT_ABSOLUTE_RANGE \in Nat \ {0}
  /\ DIRECT_OFFSET_RANGE \in Nat \ {0} /\ IMMEDIATE_RANGE \in Nat \ {0}
  /\ ZeroInstr \in Instr /\ NoLabel \notin Labels
BY OffsetAssumption, RangeAssumption, InstrAssumption, LabelAssumption

LEMMA WriteTyped ==
  ASSUME NEW b \in Builder, NEW bytes \in Seq(Byte)
  PROVE  /\ [cursor |-> b.cursor + Len(bytes),
             text |-> Write(b.text, bytes), data |-> b.data] \in Builder
         /\ [cursor |-> b.cursor + Len(bytes),
             text |-> b.text, data |-> Write(b.data, bytes)] \in Builder
<1>1. b.text \in Stream /\ b.data \in Stream /\ b.cursor \in Nat /\ Len(bytes) \in Nat
  BY DEF Builder
<1>2. Write(b.text, bytes) \in Stream /\ Write(b.data, bytes) \in Stream
  BY <1>1, WriteStream
<1> QED BY <1>1, <1>2 DEF Builder

LEMMA WriteWordTyped ==
  ASSUME NEW b \in Builder, NEW w \in Word
  PROVE  WriteWord(b, WordBytes(w)) \in Builder
<1>1. WordBytes(w) \in Seq(Byte) /\ Len(WordBytes(w)) = INSTRUCTION_SIZE
  BY WordBytesSequence
<1> QED BY <1>1, WriteTyped DEF WriteWord

LEMMA WriteDataTyped ==
  ASSUME NEW b \in Builder, NEW bytes \in Seq(Byte)
  PROVE  WriteData(b, bytes) \in Builder
BY WriteTyped DEF WriteData

\* A seek inside a stream, and to its end.
LEMMA SeekTyped ==
  ASSUME NEW s \in Stream
  PROVE  /\ SeekEnd(s) \in Stream
         /\ \A position \in 0 .. Len(s.buf) : SeekTo(s, position) \in Stream
BY DEF Stream, SeekEnd, SeekTo

LEMMA SetLocationTyped ==
  ASSUME NEW b \in Builder, NEW position \in Nat
  PROVE  SetLocation(b, position) \in Builder
<1> DEFINE T == Len(b.text.buf)
           D == Len(b.data.buf)
           offset == position - DATA_SEGMENT_OFFSET
<1>1. /\ b.text \in Stream /\ b.data \in Stream /\ b.cursor \in Nat
      /\ T \in Nat /\ D \in Nat /\ DATA_SEGMENT_OFFSET \in Nat
  BY ConstantsTyped DEF Builder, Stream
<1>2. SeekEnd(b.text) \in Stream /\ SeekEnd(b.data) \in Stream
  BY <1>1, SeekTyped
<1>3. CASE position < DATA_SEGMENT_OFFSET /\ position > T
  <2>1. position - T \in Nat
    BY <1>1, <1>3
  <2>2. Zeros(position - T) \in Seq(Byte)
    BY <2>1, ZerosSequence
  <2>3. Write(b.data, Zeros(position - T)) \in Stream
    BY <1>1, <2>2, WriteStream
  <2> QED BY <1>2, <1>3, <2>3 DEF SetLocation, Builder
<1>4. CASE position < DATA_SEGMENT_OFFSET /\ ~(position > T)
  <2>1. SeekTo(b.text, position) \in Stream
    BY <1>1, <1>4, SeekTyped
  <2> QED BY <1>1, <1>4, <2>1 DEF SetLocation, Builder
<1>5. CASE ~(position < DATA_SEGMENT_OFFSET) /\ offset > D
  <2>1. offset - D \in Nat
    BY <1>1, <1>5
  <2>2. Zeros(offset - D) \in Seq(Byte)
    BY <2>1, ZerosSequence
  <2>3. Write(SeekEnd(b.data), Zeros(offset - D)) \in Stream
    BY <1>2, <2>2, WriteStream
  <2> QED BY <1>1, <1>5, <2>3 DEF SetLocation, Builder
<1>6. CASE ~(position < DATA_SEGMENT_OFFSET) /\ ~(offset > D)
  <2>1. offset \in 0 .. D
    BY <1>1, <1>6
  <2>2. SeekTo(b.data, offset) \in Stream
    BY <1>1, <2>1, SeekTyped
  <2> QED BY <1>1, <1>6, <2>2 DEF SetLocation, Builder
<1> QED BY <1>3, <1>4, <1>5, <1>6

LEMMA PadTyped ==
  ASSUME NEW b \in Builder, NEW size \in Nat
  PROVE  Pad(b, size) \in Builder
<1>1. b.cursor + size \in Nat
  BY DEF Builder
<1> QED BY <1>1, SetLocationTyped DEF Pad

LEMMA AlignTyped ==
  ASSUME NEW b \in Builder, NEW n \in Nat \ {0}
  PROVE  Align(b, n) \in Builder
<1> DEFINE r == b.cursor % n
<1>1. r \in 0 .. (n - 1)
  BY DEF Builder
<1>2. n - r \in Nat
  BY <1>1
<1> HIDE DEF r
<1>3. Align(b, n) = IF r # 0 THEN Pad(b, n - r) ELSE b
  BY DEF Align, r
<1> QED BY <1>2, <1>3, PadTyped

LEMMA SegmentTyped ==
  ASSUME NEW b \in Builder, NEW segment
  PROVE  SetLocationEnd(b) \in Builder /\ SetSegmentType(b, segment) \in Builder
<1>1. /\ b.text \in Stream /\ b.data \in Stream
      /\ Len(b.text.buf) \in Nat /\ DATA_SEGMENT_OFFSET + Len(b.data.buf) \in Nat
  BY ConstantsTyped DEF Builder, Stream
<1>2. SeekEnd(b.text) \in Stream /\ SeekEnd(b.data) \in Stream
  BY <1>1, SeekTyped
<1> QED BY <1>1, <1>2 DEF SetLocationEnd, SetSegmentType, Builder

-----------------------------------------------------------------------------
(***************************************************************************)
(* Units: the fields and words they are written with.                      *)
(***************************************************************************)

Field == Nat \cup {Junk, NoField}

LEMMA AddressFieldTyped ==
  ASSUME NEW unit \in Unit, NEW position \in Nat, NEW locations,
         \A l \in DOMAIN locations : locations[l] \in Nat,
         Resolvable(unit, locations)
  PROVE  /\ AddressField(unit, position, locations) \in Nat \cup {NoField}
         /\ IsLoad(unit) => AddressField(unit, position, locations) \in Nat
<1>1. /\ unit.type \in AddressType \cup LiteralType
      /\ unit.label \in Labels \cup {NoLabel} /\ unit.offset \in Int
  BY DEF Unit
<1>2. \A n \in Int : n % DIRECT_OFFSET_RANGE \in Nat /\ n % DIRECT_ABSOLUTE_RANGE \in Nat
  BY ConstantsTyped
<1>3. unit.label \in DOMAIN locations => locations[unit.label] \in Nat
  OBVIOUS
<1>4. CASE unit.type = "DirectAddressAbsolute"
  BY <1>2, <1>3, <1>4 DEF Resolvable, AddressField, IsLoad, LiteralType
<1>5. CASE unit.type = "DirectAddressOffset"
  <2>1. locations[unit.label] - position \in Int
    BY <1>3, <1>5 DEF Resolvable, LiteralType
  <2> QED BY <1>2, <1>5, <2>1 DEF AddressField, IsLoad
<1>6. CASE unit.type = "IndirectAddressOffset" /\ unit.label = NoLabel
  <2>1. unit.offset - position \in Int
    BY <1>1
  <2> QED BY <1>2, <1>6, <2>1 DEF AddressField, IsLoad
<1>7. CASE unit.type = "IndirectAddressOffset" /\ unit.label # NoLabel
  <2>1. locations[unit.label] + unit.offset - position \in Int
    BY <1>1, <1>3, <1>7 DEF Resolvable, LiteralType
  <2> QED BY <1>2, <1>7, <2>1 DEF AddressField, IsLoad
<1>8. CASE unit.type \in {"DirectAddressAbsoluteWord", "DirectAddressAbsoluteByte",
                          "DirectAddressAbsoluteLoad"}
  BY <1>3, <1>8 DEF Resolvable, AddressField, LiteralType
<1>9. CASE unit.type \in LiteralType
  BY <1>9 DEF AddressField, LiteralType, IsLoad
<1> QED BY <1>1, <1>4, <1>5, <1>6, <1>7, <1>8, <1>9 DEF AddressType

\* What a unit can be written with: a number or Junk, for la no NoField.
FieldOf(unit) == IF IsLoad(unit) THEN Nat \cup {Junk} ELSE Field

LEMMA FieldOrJunkTyped ==
  ASSUME NEW unit \in Unit, NEW position \in Nat, NEW locations,
         \A l \in DOMAIN locations : locations[l] \in Nat
  PROVE  /\ FieldOrJunk(unit, position, locations) \in FieldOf(unit)
         /\ Resolvable(unit, locations) =>
              AddressField(unit, position, locations) \in FieldOf(unit)
BY AddressFieldTyped DEF FieldOrJunk, FieldOf, Field

LEMMA UnitWords ==
  ASSUME NEW unit \in Unit, NEW field \in FieldOf(unit)
  PROVE  /\ FirstWord(unit, field) \in Word
         /\ IsLoad(unit) => SecondWord(unit, field) \in Word
<1>1. unit.instr \in Instr
  BY DEF Unit
<1>2. CASE IsLoad(unit)
  <2>1. field \in Nat \cup {Junk}
    BY <1>2 DEF FieldOf
  <2>2. \A n \in Nat : n \div IMMEDIATE_RANGE \in Nat /\ n % IMMEDIATE_RANGE \in Nat
    BY ConstantsTyped
  <2>3. High(field) \in Nat \cup {Junk} /\ Low(field) \in Nat \cup {Junk}
    BY <2>1, <2>2 DEF High, Low
  <2> QED BY <1>1, <1>2, <2>3 DEF FirstWord, SecondWord, Word
<1>3. CASE ~IsLoad(unit)
  BY <1>1, <1>3 DEF FieldOf, Field, FirstWord, Word
<1> QED BY <1>2, <1>3

LEMMA UnitSize ==
  ASSUME NEW unit
  PROVE  /\ Size(unit) \in 1 .. 2 * INSTRUCTION_SIZE
         /\ IsByte(unit) => Size(unit) = 1
         /\ IsLoad(unit) => ~IsByte(unit) /\ Size(unit) = 2 * INSTRUCTION_SIZE
         /\ ~IsByte(unit) /\ ~IsLoad(unit) => Size(unit) = INSTRUCTION_SIZE
BY DEF Size, IsByte, IsLoad, INSTRUCTION_SIZE

LEMMA ByteSequence ==
  ASSUME NEW w \in Word
  PROVE  /\ << <<w, 0>> >> \in Seq(Byte)
         /\ Len(<< <<w, 0>> >>) = 1
         /\ << <<w, 0>> >>[1] = <<w, 0>>
<1>1. <<w, 0>> \in Byte
  BY DEF Byte, INSTRUCTION_SIZE
<1> QED BY <1>1

LEMMA WriteUnitTyped ==
  ASSUME NEW b \in Builder, NEW unit \in Unit, NEW field \in FieldOf(unit)
  PROVE  WriteUnit(b, unit, field) \in Builder
<1> DEFINE w1 == FirstWord(unit, field)
           w2 == SecondWord(unit, field)
<1>1. w1 \in Word /\ (IsLoad(unit) => w2 \in Word)
  BY UnitWords
<1> HIDE DEF w1, w2
<1>2. CASE IsByte(unit)
  <2>1. WriteData(b, << <<w1, 0>> >>) \in Builder
    BY <1>1, ByteSequence, WriteDataTyped
  <2> QED BY <1>2, <2>1 DEF WriteUnit, w1
<1>3. CASE ~IsByte(unit)
  <2>1. WriteWord(b, WordBytes(w1)) \in Builder
    BY <1>1, WriteWordTyped
  <2>2. IsLoad(unit) => WriteWord(WriteWord(b, WordBytes(w1)), WordBytes(w2)) \in Builder
    BY <1>1, <2>1, WriteWordTyped
  <2> QED BY <1>3, <2>1, <2>2 DEF WriteUnit, w1, w2
<1> QED BY <1>2, <1>3

-----------------------------------------------------------------------------
(***************************************************************************)
(* What WriteUnit does to the memory its builder stands for.               *)
(***************************************************************************)

\* The addresses a unit at position occupies.
Span(unit, position) == position .. (position + Size(unit) - 1)

\* c is b with a unit written at the cursor, with field as its address field.
UnitPuts(b, unit, field, c) ==
  /\ c.cursor = b.cursor + Size(unit)
  /\ Written(c) = Written(b) \cup Span(unit, b.cursor)
  /\ \A a \in Written(c) :
       ByteAt(c, a) = IF a \in Span(unit, b.cursor)
                      THEN ByteOfUnit(unit, field, a - b.cursor + 1) ELSE ByteAt(b, a)

LEMMA WriteUnitPuts ==
  ASSUME NEW b, Sound(b), NEW unit \in Unit, NEW field \in FieldOf(unit),
         GetSegmentType(b) = "TEXT" =>
           ~IsByte(unit) /\ b.cursor + Size(unit) < DATA_SEGMENT_OFFSET
  PROVE  LET c == WriteUnit(b, unit, field) IN
         /\ Sound(c) /\ UnitPuts(b, unit, field, c)
         /\ GetSegmentType(c) = GetSegmentType(b)
         /\ AtEnd(b) => AtEnd(c)
<1> DEFINE w1 == FirstWord(unit, field)
           w2 == SecondWord(unit, field)
           c == WriteUnit(b, unit, field)
           n == b.cursor
<1>1. /\ b \in Builder /\ n \in Nat /\ DATA_SEGMENT_OFFSET \in Nat
      /\ GetSegmentType(b) \in {"TEXT", "DATA"}
  BY ConstantsTyped DEF Sound, Builder, GetSegmentType
<1>2. w1 \in Word /\ (IsLoad(unit) => w2 \in Word)
  BY UnitWords
<1>3. ByteOfUnit(unit, field, 1) = <<w1, 0>>
  BY DEF ByteOfUnit, INSTRUCTION_SIZE
<1>4. \A i \in 1 .. INSTRUCTION_SIZE : ByteOfUnit(unit, field, i) = <<w1, i - 1>>
  BY DEF ByteOfUnit, INSTRUCTION_SIZE
<1>5. \A i \in (INSTRUCTION_SIZE + 1) .. 2 * INSTRUCTION_SIZE :
        ByteOfUnit(unit, field, i) = <<w2, i - INSTRUCTION_SIZE - 1>>
  BY DEF ByteOfUnit, INSTRUCTION_SIZE
<1>6. CASE IsByte(unit)
  <2>1. GetSegmentType(b) = "DATA"
    BY <1>1, <1>6
  <2>2. c = WriteData(b, << <<w1, 0>> >>) /\ Size(unit) = 1
    BY <1>6, UnitSize DEF WriteUnit
  <2> DEFINE s == << <<w1, 0>> >>
  <2>3. s \in Seq(Byte) /\ Len(s) = 1 /\ s[1] = <<w1, 0>>
    BY <1>2, ByteSequence
  <2> HIDE DEF w1, w2, c, s
  <2>4. /\ Sound(c) /\ Puts(b, s, c) /\ GetSegmentType(c) = "DATA" /\ (AtEnd(b) => AtEnd(c))
    BY <2>1, <2>2, <2>3, WriteDataPuts DEF s
  <2>5. c.cursor = n + 1 /\ Span(unit, n) = n .. (c.cursor - 1)
    BY <1>1, <2>2, <2>3, <2>4 DEF Puts, Span
  <2>6. \A a \in Span(unit, n) : s[a - n + 1] = ByteOfUnit(unit, field, a - n + 1)
    <3>1. \A a \in Span(unit, n) : a - n + 1 = 1
      BY <1>1, <2>5
    <3> QED BY <1>3, <2>3, <3>1
  <2>7. UnitPuts(b, unit, field, c)
    BY <2>2, <2>4, <2>5, <2>6 DEF Puts, UnitPuts
  <2> QED BY <2>1, <2>4, <2>7 DEF c
<1>7. CASE ~IsByte(unit)
  <2> DEFINE d == WriteWord(b, WordBytes(w1))
  <2>1. GetSegmentType(b) = "TEXT" => n + Size(unit) < DATA_SEGMENT_OFFSET
    OBVIOUS
  <2>2. Size(unit) = IF IsLoad(unit) THEN 2 * INSTRUCTION_SIZE ELSE INSTRUCTION_SIZE
    BY <1>7, UnitSize
  <2>3. c = IF IsLoad(unit) THEN WriteWord(d, WordBytes(w2)) ELSE d
    BY <1>7 DEF WriteUnit
  <2>4. /\ WordBytes(w1) \in Seq(Byte) /\ Len(WordBytes(w1)) = INSTRUCTION_SIZE
        /\ \A i \in 1 .. INSTRUCTION_SIZE : WordBytes(w1)[i] = ByteOfUnit(unit, field, i)
    BY <1>2, <1>4, WordBytesSequence
  <2> HIDE DEF w1, w2, c
  <2>5. GetSegmentType(b) = "TEXT" => n + INSTRUCTION_SIZE < DATA_SEGMENT_OFFSET
    BY <1>1, <2>1, <2>2 DEF INSTRUCTION_SIZE
  <2>6. /\ Sound(d) /\ Puts(b, WordBytes(w1), d)
        /\ GetSegmentType(d) = GetSegmentType(b) /\ (AtEnd(b) => AtEnd(d))
    BY <1>2, <2>5, WriteWordPuts
  <2> HIDE DEF d
  <2>7. d.cursor = n + INSTRUCTION_SIZE
    BY <2>4, <2>6 DEF Puts
  <2>8. \A a \in n .. (d.cursor - 1) :
          WordBytes(w1)[a - n + 1] = ByteOfUnit(unit, field, a - n + 1)
    BY SMTT(30), <1>1, <2>4, <2>7 DEF INSTRUCTION_SIZE
  <2>9. CASE ~IsLoad(unit)
    <3>1. c = d /\ Size(unit) = INSTRUCTION_SIZE
      BY <2>2, <2>3, <2>9
    <3>a. Span(unit, n) = n .. (d.cursor - 1)
      <4>1. n + Size(unit) - 1 = d.cursor - 1
        BY <1>1, <2>7, <3>1 DEF INSTRUCTION_SIZE
      <4> QED BY <4>1 DEF Span
    <3>2. UnitPuts(b, unit, field, c)
      BY <2>6, <2>7, <2>8, <3>1, <3>a DEF Puts, UnitPuts
    <3> QED BY <2>6, <3>1, <3>2 DEF c
  <2>10. CASE IsLoad(unit)
    <3>1. c = WriteWord(d, WordBytes(w2)) /\ Size(unit) = 2 * INSTRUCTION_SIZE
      BY <2>2, <2>3, <2>10
    <3>2. /\ w2 \in Word /\ Len(WordBytes(w2)) = INSTRUCTION_SIZE
          /\ \A i \in 1 .. INSTRUCTION_SIZE : WordBytes(w2)[i] = <<w2, i - 1>>
      BY <1>2, <2>10, WordBytesSequence
    <3>3. GetSegmentType(d) = "TEXT" => d.cursor + INSTRUCTION_SIZE < DATA_SEGMENT_OFFSET
      BY <1>1, <2>1, <2>6, <2>7, <3>1 DEF INSTRUCTION_SIZE
    <3>4. /\ Sound(c) /\ Puts(d, WordBytes(w2), c)
          /\ GetSegmentType(c) = GetSegmentType(b) /\ (AtEnd(b) => AtEnd(c))
      BY <2>6, <3>1, <3>2, <3>3, WriteWordPuts
    <3>5. c.cursor = n + 2 * INSTRUCTION_SIZE
      BY <1>1, <2>7, <3>2, <3>4 DEF Puts, INSTRUCTION_SIZE
    <3>6. /\ Span(unit, n) = n .. (d.cursor - 1) \cup d.cursor .. (c.cursor - 1)
          /\ n .. (d.cursor - 1) \cap d.cursor .. (c.cursor - 1) = {}
      BY <1>1, <2>7, <3>1, <3>5 DEF Span, INSTRUCTION_SIZE
    <3>7. \A a \in d.cursor .. (c.cursor - 1) :
            WordBytes(w2)[a - d.cursor + 1] = ByteOfUnit(unit, field, a - n + 1)
      <4> SUFFICES ASSUME NEW a \in d.cursor .. (c.cursor - 1)
                   PROVE  WordBytes(w2)[a - d.cursor + 1] = ByteOfUnit(unit, field, a - n + 1)
        OBVIOUS
      <4> DEFINE k == a - d.cursor + 1
                 m == a - n + 1
      <4>1. /\ k \in 1 .. INSTRUCTION_SIZE
            /\ m \in (INSTRUCTION_SIZE + 1) .. 2 * INSTRUCTION_SIZE
            /\ k - 1 = m - INSTRUCTION_SIZE - 1
        BY <1>1, <2>7, <3>5 DEF INSTRUCTION_SIZE
      <4> HIDE DEF k, m
      <4>2. WordBytes(w2)[k] = <<w2, k - 1>>
        BY <3>2, <4>1
      <4>3. ByteOfUnit(unit, field, m) = <<w2, m - INSTRUCTION_SIZE - 1>>
        BY <1>5, <4>1 DEF w2
      <4>4. WordBytes(w2)[k] = ByteOfUnit(unit, field, m)
        BY <4>1, <4>2, <4>3
      <4> QED BY <4>4 DEF k, m
    <3>8. Written(c) = Written(b) \cup Span(unit, n)
      BY <2>6, <3>4, <3>6 DEF Puts
    <3>9. \A a \in Written(c) :
            ByteAt(c, a) = IF a \in Span(unit, n)
                           THEN ByteOfUnit(unit, field, a - n + 1) ELSE ByteAt(b, a)
      <4>1. \A a \in Written(c) :
              ByteAt(c, a) = IF a \in d.cursor .. (c.cursor - 1)
                             THEN WordBytes(w2)[a - d.cursor + 1] ELSE ByteAt(d, a)
        BY <3>4 DEF Puts
      <4>2. \A a \in Written(d) :
              ByteAt(d, a) = IF a \in n .. (d.cursor - 1)
                             THEN WordBytes(w1)[a - n + 1] ELSE ByteAt(b, a)
        BY <2>6 DEF Puts
      <4>3. Written(c) = Written(d) \cup d.cursor .. (c.cursor - 1)
        BY <3>4 DEF Puts
      <4> QED BY ONLY <4>1, <4>2, <4>3, <3>6, <3>7, <2>8
    <3>10. UnitPuts(b, unit, field, c)
      BY <3>1, <3>5, <3>8, <3>9 DEF UnitPuts
    <3> QED BY <3>4, <3>10 DEF c
  <2> QED BY <2>9, <2>10
<1> QED BY <1>6, <1>7

-----------------------------------------------------------------------------
(***************************************************************************)
(* TypeOK is inductive.                                                    *)
(***************************************************************************)

LEMMA InitTyped == Init => TypeOK
<1> SUFFICES ASSUME Init PROVE TypeOK
  OBVIOUS
<1>1. binary \in Builder
  BY DEF Init, Open, EmptyStream, Builder, Stream
<1>2. /\ DOMAIN labelLocations = {} /\ DOMAIN listing = {}
      /\ <<>> \in Seq(Labels) /\ <<>> \in Seq(Unit)
  BY DEF Init, EmptyFunction
<1>3. /\ unresolvedAddressLocations \in Seq(UnresolvedEntry)
      /\ patched \in 0 .. Len(unresolvedAddressLocations)
  <2>1. <<>> \in Seq(UnresolvedEntry) /\ 0 \in 0 .. Len(<<>>)
    OBVIOUS
  <2> QED BY <2>1 DEF Init
<1>4. /\ phase = "statement" /\ count \in Nat /\ eof \in BOOLEAN /\ location \in Nat
      /\ pending = <<>> /\ todo = <<>> /\ macros = {} /\ misplaced \in BOOLEAN
  BY DEF Init
<1> QED BY <1>1, <1>2, <1>3, <1>4 DEF TypeOK

\* The steps that only move the parser on.
LEMMA ParserStepTyped ==
  ASSUME TypeOK,
         UNCHANGED <<binary, labelLocations, unresolvedAddressLocations, patched, listing>>,
         phase' \in {"statement", "emitting", "reducing", "patching",
                     "assembled", "failed", "aborted"},
         count' \in Nat, eof' \in BOOLEAN, pending' \in Seq(Labels), location' \in Nat,
         todo' \in Seq(Unit), macros' \subseteq Labels, misplaced' \in BOOLEAN
  PROVE  TypeOK'
BY DEF TypeOK

\* The statements that begin with a new builder.
LEMMA BuilderStepTyped ==
  ASSUME TypeOK, NEW b \in Builder, NEW units \in Seq(Unit),
         count' = count + 1, misplaced' \in BOOLEAN,
         Effect(b) \/ Begin(b, units)
  PROVE  TypeOK'
<1>1. binary.cursor \in Nat /\ b.cursor \in Nat
  BY DEF TypeOK, Builder
<1> QED BY <1>1 DEF TypeOK, Effect, Begin

LEMMA StopTyped ==
  ASSUME TypeOK, NEW how \in {"failed", "aborted"}, Stop(how), count' \in Nat
  PROVE  TypeOK'
BY ParserStepTyped DEF Stop, TypeOK

LEMMA ParseTyped == TypeOK /\ Parse => TypeOK'
<1> SUFFICES ASSUME TypeOK, Parse PROVE TypeOK'
  OBVIOUS
<1>1. /\ binary \in Builder /\ count \in Nat /\ count + 1 \in Nat /\ binary.cursor \in Nat
      /\ misplaced \in BOOLEAN
  BY DEF TypeOK, Builder
<1>2. CASE TextDirective \/ DataDirective
  <2>1. PICK segment : Effect(SetSegmentType(binary, segment)) /\ count' = count + 1
                       /\ misplaced' = misplaced
    BY <1>2 DEF TextDirective, DataDirective, ReadStatement
  <2> QED BY <1>1, <2>1, SegmentTyped, BuilderStepTyped, <<>> \in Seq(Unit)
<1>3. ASSUME NEW units \in Instructions, Instruction(units) PROVE TypeOK'
  BY <1>1, <1>3, StatementAssumption, BuilderStepTyped DEF Instruction, ReadStatement
<1>4. ASSUME NEW units \in WordLists, WordDirective(units) PROVE TypeOK'
  <2>1. Align(binary, INSTRUCTION_SIZE) \in Builder
    BY <1>1, AlignTyped DEF INSTRUCTION_SIZE
  <2> QED BY ZenonT(60), <1>1, <1>4, <2>1, StatementAssumption, BuilderStepTyped, StopTyped
          DEF WordDirective, ReadStatement, AssertData
<1>5. ASSUME NEW units \in ByteLists, ByteDirective(units) PROVE TypeOK'
  BY ZenonT(60), <1>1, <1>5, StatementAssumption, BuilderStepTyped, StopTyped
     DEF ByteDirective, ReadStatement, AssertData
<1>6. ASSUME NEW n \in Alignments, AlignDirective(n) PROVE TypeOK'
  <2>1. Align(binary, n) \in Builder
    BY <1>1, AlignTyped, StatementAssumption
  <2> QED BY <1>1, <1>6, <2>1, BuilderStepTyped, StopTyped, <<>> \in Seq(Unit)
          DEF AlignDirective, ReadStatement, AssertData
<1>7. ASSUME NEW n \in Sizes, SpaceDirective(n) PROVE TypeOK'
  <2>1. Pad(binary, n) \in Builder
    BY <1>1, PadTyped, StatementAssumption
  <2> QED BY <1>1, <1>7, <2>1, BuilderStepTyped, StopTyped, <<>> \in Seq(Unit)
          DEF SpaceDirective, ReadStatement, AssertData
<1>8. ASSUME NEW name \in Labels, DefineMacro(name) PROVE TypeOK'
  <2>1. CASE name \in DOMAIN labelLocations \cup macros
    BY <1>1, <1>8, <2>1, StopTyped DEF DefineMacro, ReadStatement
  <2>2. CASE name \notin DOMAIN labelLocations \cup macros
    BY <1>1, <1>8, <2>2, ParserStepTyped DEF DefineMacro, ReadStatement, TypeOK, history
  <2> QED BY <2>1, <2>2
<1>9. ASSUME NEW name \in Labels, LabelPrefix(name) PROVE TypeOK'
  BY <1>1, <1>9, ParserStepTyped DEF LabelPrefix, ReadStatement, TypeOK, history
<1>10. CASE EndOfFile
  BY <1>1, <1>10, ParserStepTyped DEF EndOfFile, TypeOK, history
<1>11. CASE SyntaxError \/ ErrorDirective
  BY <1>1, <1>11, StopTyped DEF SyntaxError, ErrorDirective, ReadStatement
<1> QED BY <1>2, <1>3, <1>4, <1>5, <1>6, <1>7, <1>8, <1>9, <1>10, <1>11 DEF Parse

LEMMA EmitTyped == TypeOK /\ EmitUnit => TypeOK'
<1> SUFFICES ASSUME TypeOK, EmitUnit PROVE TypeOK'
  OBVIOUS
<1> DEFINE unit == Head(todo)
           position == binary.cursor
           field == FieldOrJunk(unit, position, labelLocations)
<1>1. /\ todo \in Seq(Unit) /\ todo # <<>> /\ binary \in Builder /\ position \in Nat
      /\ \A l \in DOMAIN labelLocations : labelLocations[l] \in Nat
      /\ unresolvedAddressLocations \in Seq(UnresolvedEntry)
      /\ patched \in 0 .. Len(unresolvedAddressLocations) /\ count \in Nat
  BY DEF TypeOK, EmitUnit, Builder
<1>2. unit \in Unit /\ Tail(todo) \in Seq(Unit)
  BY <1>1
<1>3. binary' \in Builder
  BY <1>1, <1>2, FieldOrJunkTyped, WriteUnitTyped DEF EmitUnit
<1>4. /\ unresolvedAddressLocations' \in Seq(UnresolvedEntry)
      /\ patched' \in 0 .. Len(unresolvedAddressLocations')
  <2>1. [unit |-> unit, position |-> position] \in UnresolvedEntry
    BY <1>1, <1>2 DEF UnresolvedEntry
  <2> HIDE DEF unit, position
  <2>2. \/ unresolvedAddressLocations' = unresolvedAddressLocations
        \/ unresolvedAddressLocations' =
             Append(unresolvedAddressLocations, [unit |-> unit, position |-> position])
    BY DEF EmitUnit, unit, position
  <2> QED BY <1>1, <2>1, <2>2 DEF EmitUnit
<1>5. /\ DOMAIN listing' \subseteq Nat
      /\ \A a \in DOMAIN listing' : listing'[a] \in ListingEntry
  <2> DEFINE here == position .. (position + Size(unit) - 1)
  <2>1. listing' = [a \in DOMAIN listing \cup here |->
                      IF a \in here
                      THEN [unit |-> unit, position |-> position,
                            index |-> a - position + 1, statement |-> count]
                      ELSE listing[a]]
    BY DEF EmitUnit, List
  <2>2. Size(unit) \in 1 .. 2 * INSTRUCTION_SIZE
    BY UnitSize
  <2>3. ASSUME NEW a \in here
        PROVE  a \in Nat /\ a - position + 1 \in 1 .. 2 * INSTRUCTION_SIZE
    <3>0. position \in Nat
      BY <1>1
    <3> HIDE DEF position
    <3>1. \A n \in 1 .. 2 * INSTRUCTION_SIZE : a \in position .. (position + n - 1)
            => a \in Nat /\ a - position + 1 \in 1 .. 2 * INSTRUCTION_SIZE
      BY ONLY <3>0 DEF INSTRUCTION_SIZE
    <3> QED BY <2>2, <3>1
  <2>4. \A a \in here : [unit |-> unit, position |-> position,
                         index |-> a - position + 1, statement |-> count] \in ListingEntry
    BY <1>1, <1>2, <2>3 DEF ListingEntry
  <2>5. DOMAIN listing \subseteq Nat /\ \A a \in DOMAIN listing : listing[a] \in ListingEntry
    BY DEF TypeOK
  <2> HIDE DEF here, unit, position
  <2> QED BY <2>1, <2>3, <2>4, <2>5
<1> QED BY <1>2, <1>3, <1>4, <1>5 DEF EmitUnit, TypeOK

LEMMA DefineLabelTyped == TypeOK /\ DefineLabel => TypeOK'
<1> SUFFICES ASSUME TypeOK, DefineLabel PROVE TypeOK'
  OBVIOUS
<1> DEFINE name == pending[Len(pending)]
<1>1. pending \in Seq(Labels) /\ pending # <<>> /\ location \in Nat /\ count \in Nat
  BY DEF TypeOK, DefineLabel
<1>2. name \in Labels /\ SubSeq(pending, 1, Len(pending) - 1) \in Seq(Labels)
  <2>1. Len(pending) \in Nat \ {0}
    BY <1>1
  <2> QED BY <1>1, <2>1
<1>3. CASE name \in DOMAIN labelLocations \cup macros
  BY <1>1, <1>3, StopTyped DEF DefineLabel
<1>4. CASE name \notin DOMAIN labelLocations \cup macros
  <2>1. /\ labelLocations' = [l \in DOMAIN labelLocations \cup {name} |->
                              IF l = name THEN location ELSE labelLocations[l]]
        /\ pending' = SubSeq(pending, 1, Len(pending) - 1)
        /\ UNCHANGED <<phase, count, eof, location, todo, binary, macros,
                       unresolvedAddressLocations, patched, listing, misplaced>>
    BY <1>4 DEF DefineLabel
  <2> HIDE DEF name
  <2>2. /\ DOMAIN labelLocations' \subseteq Labels
        /\ \A l \in DOMAIN labelLocations' : labelLocations'[l] \in Nat
    BY <1>1, <1>2, <2>1 DEF TypeOK
  <2>3. pending' \in Seq(Labels)
    BY <1>2, <2>1
  <2> QED BY <2>1, <2>2, <2>3 DEF TypeOK
<1> QED BY <1>3, <1>4

LEMMA PatchTyped == TypeOK /\ PatchAddress => TypeOK'
<1> SUFFICES ASSUME TypeOK, PatchAddress PROVE TypeOK'
  OBVIOUS
<1> DEFINE entry == unresolvedAddressLocations[patched + 1]
           b == SetLocation(binary, entry.position)
<1>1. /\ unresolvedAddressLocations \in Seq(UnresolvedEntry) /\ binary \in Builder
      /\ patched \in Nat /\ patched + 1 \in 1 .. Len(unresolvedAddressLocations)
      /\ \A l \in DOMAIN labelLocations : labelLocations[l] \in Nat
  BY DEF TypeOK, PatchAddress
<1>2. entry.unit \in Unit /\ entry.position \in Nat
  <2>1. entry \in UnresolvedEntry
    BY <1>1
  <2> QED BY <2>1 DEF UnresolvedEntry
<1>3. b \in Builder
  BY <1>1, <1>2, SetLocationTyped
<1>4. CASE Resolvable(entry.unit, labelLocations)
  <2>1. WriteUnit(b, entry.unit, AddressField(entry.unit, entry.position, labelLocations))
          \in Builder
    BY <1>1, <1>2, <1>3, <1>4, FieldOrJunkTyped, WriteUnitTyped
  <2> QED BY <1>1, <1>4, <2>1 DEF PatchAddress, TypeOK, history
<1>5. CASE ~Resolvable(entry.unit, labelLocations)
  BY <1>3, <1>5 DEF PatchAddress, TypeOK, history
<1> QED BY <1>4, <1>5

LEMMA NextTyped == TypeOK /\ [Next]_vars => TypeOK'
<1> SUFFICES ASSUME TypeOK, [Next]_vars PROVE TypeOK'
  OBVIOUS
<1>1. CASE StatementEnd
  BY <1>1, ParserStepTyped DEF StatementEnd, TypeOK, history
<1>2. CASE NextStatement
  BY <1>2, ParserStepTyped DEF NextStatement, TypeOK, history
<1>3. CASE WriteProgram
  <2>1. SetLocationEnd(binary) \in Builder /\ INSTRUCTION_SIZE \in Nat \ {0}
    BY SegmentTyped DEF TypeOK, INSTRUCTION_SIZE
  <2>2. Align(SetLocationEnd(binary), INSTRUCTION_SIZE) \in Builder
    BY <2>1, AlignTyped
  <2> QED BY <1>3, <2>2 DEF WriteProgram, TypeOK, history
<1>4. CASE UNCHANGED vars
  BY <1>4 DEF vars, TypeOK
<1> QED BY <1>1, <1>2, <1>3, <1>4, ParseTyped, EmitTyped, DefineLabelTyped, PatchTyped
        DEF Next, Done

\* Every variable keeps its type on every source file, misplaced directives
\* included: the builder's put positions stay inside its streams, the patch
\* loop inside its list.
THEOREM TypeCorrect == Spec => []TypeOK
BY InitTyped, NextTyped, PTL DEF Spec

-----------------------------------------------------------------------------
(***************************************************************************)
(* The inductive invariant of linking.                                     *)
(***************************************************************************)

Parsing == phase \in {"statement", "emitting", "reducing"}

\* A builder whose cursor and put position agree, with the text below the data.
SoundBuilder ==
  /\ CursorSync(binary)
  /\ Len(binary.text.buf) < DATA_SEGMENT_OFFSET

\* Until the patch loop, code is written at the end of a segment only.
WritesAtEnd == Parsing => AtEnd(binary)

\* What a statement has still to write fits in the text segment, if it is
\* there, and is then no data.
TodoFits ==
  phase = "emitting" /\ GetSegmentType(binary) = "TEXT" =>
    /\ binary.cursor + 2 * INSTRUCTION_SIZE * Len(todo) < DATA_SEGMENT_OFFSET
    /\ \A i \in 1 .. Len(todo) : ~IsByte(todo[i])

\* Every listed address has a byte; it is the byte of its unit that the
\* listing says; single bytes are data.
ListingPlaced ==
  \A a \in DOMAIN listing :
    /\ a \in Written(binary)
    /\ a \in Span(listing[a].unit, listing[a].position)
    /\ listing[a].index = a - listing[a].position + 1
    /\ IsByte(listing[a].unit) => listing[a].position >= DATA_SEGMENT_OFFSET

\* Every unresolved address is in the listing, at all its addresses.
EntriesListed ==
  \A j \in 1 .. Len(unresolvedAddressLocations) :
    LET entry == unresolvedAddressLocations[j]
    IN  \A a \in Span(entry.unit, entry.position) :
          /\ a \in DOMAIN listing
          /\ listing[a].unit = entry.unit
          /\ listing[a].position = entry.position

\* The patch loop has still to reach the unit listed at a.
StillUnresolved(a) ==
  \E j \in (patched + 1) .. Len(unresolvedAddressLocations) :
    /\ unresolvedAddressLocations[j].unit = listing[a].unit
    /\ unresolvedAddressLocations[j].position = listing[a].position

BytesLinked ==
  \A a \in DOMAIN listing :
    \/ StillUnresolved(a)
    \/ /\ Resolvable(listing[a].unit, labelLocations)
       /\ ByteAt(binary, a) = Expected(a)

GapsAreZero == \A a \in Written(binary) \ DOMAIN listing : ByteAt(binary, a) = ZeroByte

FileWritten ==
  phase = "assembled" =>
    /\ file.text = binary.text.buf
    /\ file.data = binary.data.buf
    /\ patched = Len(unresolvedAddressLocations)

Linking ==
  /\ SoundBuilder
  /\ WritesAtEnd
  /\ TodoFits
  /\ ListingPlaced
  /\ EntriesListed
  /\ BytesLinked
  /\ GapsAreZero
  /\ FileWritten

Inv == TypeOK /\ (~misplaced => Linking)

-----------------------------------------------------------------------------
(***************************************************************************)
(* The steps that leave memory and listing alone, and those that only give *)
(* the builder more room.                                                  *)
(***************************************************************************)

LEMMA Typed ==
  ASSUME TypeOK
  PROVE  /\ binary \in Builder /\ binary.cursor \in Nat
         /\ Len(binary.text.buf) \in Nat /\ Len(binary.data.buf) \in Nat
         /\ DATA_SEGMENT_OFFSET \in Nat \ {0}
         /\ todo \in Seq(Unit) /\ location \in Nat
         /\ unresolvedAddressLocations \in Seq(UnresolvedEntry)
         /\ patched \in 0 .. Len(unresolvedAddressLocations)
         /\ \A a \in DOMAIN listing : a \in Nat /\ listing[a] \in ListingEntry
         /\ \A l \in DOMAIN labelLocations : l \in Labels /\ labelLocations[l] \in Nat
BY ConstantsTyped DEF TypeOK, Builder, Stream

LEMMA ParserStepLinking ==
  ASSUME Linking,
         UNCHANGED <<binary, labelLocations, unresolvedAddressLocations, patched, listing>>,
         Parsing' => Parsing,
         phase' = "emitting" => phase = "emitting" /\ UNCHANGED todo,
         phase' = "assembled" => phase = "assembled" /\ UNCHANGED file
  PROVE  Linking'
<1>1. SoundBuilder' /\ WritesAtEnd' /\ TodoFits' /\ FileWritten'
  BY DEF Linking, SoundBuilder, WritesAtEnd, TodoFits, FileWritten
<1>2. ListingPlaced' /\ EntriesListed' /\ GapsAreZero'
  BY DEF Linking, ListingPlaced, EntriesListed, GapsAreZero
<1>3. BytesLinked'
  BY DEF Linking, BytesLinked, StillUnresolved, Expected
<1> QED BY <1>1, <1>2, <1>3 DEF Linking

\* What is linked stays linked in a builder that extends the old one.
LEMMA ExtendsKeepsBytes ==
  ASSUME ListingPlaced, EntriesListed, BytesLinked, GapsAreZero,
         NEW b, Extends(binary, b), binary' = b,
         UNCHANGED <<labelLocations, unresolvedAddressLocations, patched, listing>>
  PROVE  ListingPlaced' /\ EntriesListed' /\ BytesLinked' /\ GapsAreZero'
<1>1. \A a \in DOMAIN listing : a \in Written(binary) /\ a \in Written(b)
                                /\ ByteAt(b, a) = ByteAt(binary, a)
  BY DEF ListingPlaced, Extends
<1>2. ListingPlaced'
  BY <1>1 DEF ListingPlaced
<1>3. EntriesListed'
  BY DEF EntriesListed
<1>4. BytesLinked'
  BY <1>1 DEF BytesLinked, StillUnresolved, Expected
<1>5. GapsAreZero'
  BY DEF GapsAreZero, Extends
<1> QED BY <1>2, <1>3, <1>4, <1>5

\* A statement that starts with the builder b.
LEMMA BuilderStepLinking ==
  ASSUME Linking, NEW b, Sound(b), AtEnd(b), Extends(binary, b), binary' = b,
         UNCHANGED <<labelLocations, unresolvedAddressLocations, patched, listing>>,
         phase' = "reducing" \/ (phase' = "emitting" /\ TodoFits')
  PROVE  Linking'
<1>1. ListingPlaced' /\ EntriesListed' /\ BytesLinked' /\ GapsAreZero'
  BY ExtendsKeepsBytes DEF Linking
<1>2. SoundBuilder' /\ WritesAtEnd'
  BY DEF Sound, SoundBuilder, WritesAtEnd
<1>3. TodoFits' /\ FileWritten'
  BY DEF TodoFits, FileWritten
<1> QED BY <1>1, <1>2, <1>3 DEF Linking

\* Equal buffers are equal memories.
LEMMA SameBuffersExtend ==
  ASSUME NEW b, NEW c, c.text.buf = b.text.buf, c.data.buf = b.data.buf
  PROVE  Extends(b, c) /\ Written(c) = Written(b)
BY DEF Extends, Written, ByteAt

LEMMA ExtendsTransitive ==
  ASSUME NEW b, NEW c, NEW d, Extends(b, c), Extends(c, d)
  PROVE  Extends(b, d)
BY DEF Extends

-----------------------------------------------------------------------------
(***************************************************************************)
(* The parser's actions.                                                   *)
(***************************************************************************)

LEMMA SoundBinary ==
  ASSUME TypeOK, Linking
  PROVE  /\ Sound(binary) /\ Len(binary.text.buf) < DATA_SEGMENT_OFFSET
         /\ Parsing => AtEnd(binary)
         /\ GetSegmentType(binary) \in {"TEXT", "DATA"}
BY Typed DEF Linking, SoundBuilder, WritesAtEnd, Sound, GetSegmentType

LEMMA StopLinking ==
  ASSUME Linking, NEW how \in {"failed", "aborted"}, Stop(how)
  PROVE  Linking'
BY ParserStepLinking DEF Stop, Parsing

\* A directive that asserts the data segment keeps misplaced false only there.
LEMMA AssertedData ==
  ASSUME TypeOK, Linking, NEW directive, AssertData(directive), ~misplaced'
  PROVE  Linking' \/ (directive /\ GetSegmentType(binary) = "DATA")
BY StopLinking DEF AssertData

LEMMA ParseLinking ==
  ASSUME TypeOK, Linking, Parse, ~misplaced'
  PROVE  Linking'
<1>1. Sound(binary) /\ binary \in Builder /\ Len(binary.text.buf) < DATA_SEGMENT_OFFSET
  BY SoundBinary, Typed
<1>2. ReadStatement => AtEnd(binary)
  BY SoundBinary DEF ReadStatement, Parsing
<1>3. Extends(binary, binary)
  BY DEF Extends
<1>4. ASSUME NEW b, Sound(b), AtEnd(b), Extends(binary, b), Effect(b)
      PROVE  Linking'
  BY <1>4, BuilderStepLinking DEF Effect
<1>5. ASSUME NEW b, Sound(b), AtEnd(b), Extends(binary, b), NEW units, Begin(b, units),
             GetSegmentType(b) = "TEXT" =>
               /\ b.cursor + 2 * INSTRUCTION_SIZE * Len(units) < DATA_SEGMENT_OFFSET
               /\ \A i \in 1 .. Len(units) : ~IsByte(units[i])
      PROVE  Linking'
  <2>1. TodoFits'
    BY <1>5 DEF Begin, TodoFits
  <2> QED BY <1>5, <2>1, BuilderStepLinking DEF Begin
<1>6. CASE TextDirective \/ DataDirective
  <2>1. PICK segment \in {"TEXT", "DATA"} : Effect(SetSegmentType(binary, segment))
    BY <1>6 DEF TextDirective, DataDirective
  <2> DEFINE b == SetSegmentType(binary, segment)
  <2>2. Sound(b) /\ AtEnd(b) /\ b.text.buf = binary.text.buf /\ b.data.buf = binary.data.buf
    BY <1>1, SetSegmentTypeMoves
  <2>3. Extends(binary, b)
    BY <2>2, SameBuffersExtend
  <2> QED BY <1>4, <2>1, <2>2, <2>3
<1>7. ASSUME NEW units \in Instructions, Instruction(units) PROVE Linking'
  <2>1. GetSegmentType(binary) = "TEXT" =>
          binary.cursor + 2 * INSTRUCTION_SIZE * Len(units) < DATA_SEGMENT_OFFSET
    BY <1>7 DEF Instruction, UnitsFit, Fits
  <2>2. \A i \in 1 .. Len(units) : ~IsByte(units[i])
    BY StatementAssumption DEF IsByte
  <2> QED BY <1>1, <1>2, <1>3, <1>5, <1>7, <2>1, <2>2 DEF Instruction
<1>8. ASSUME NEW units \in WordLists, WordDirective(units) PROVE Linking'
  <2> DEFINE b == Align(binary, INSTRUCTION_SIZE)
  <2>1. Linking' \/ (Begin(b, units) /\ GetSegmentType(binary) = "DATA")
    BY <1>8, AssertedData DEF WordDirective
  <2>2. ASSUME GetSegmentType(binary) = "DATA"
        PROVE  Sound(b) /\ AtEnd(b) /\ Extends(binary, b) /\ GetSegmentType(b) = "DATA"
    <3>1. AtEnd(binary) /\ INSTRUCTION_SIZE \in Nat \ {0}
      BY <1>2, <1>8 DEF WordDirective, INSTRUCTION_SIZE
    <3> QED BY <1>1, <2>2, <3>1, AlignMoves
  <2> QED BY <1>5, <2>1, <2>2
<1>9. ASSUME NEW units \in ByteLists, ByteDirective(units) PROVE Linking'
  <2>1. Linking' \/ (Begin(binary, units) /\ GetSegmentType(binary) = "DATA")
    BY <1>9, AssertedData DEF ByteDirective
  <2>2. AtEnd(binary)
    BY <1>2, <1>9 DEF ByteDirective
  <2> QED BY <1>1, <1>3, <1>5, <2>1, <2>2
<1>10. ASSUME NEW n \in Alignments, AlignDirective(n) PROVE Linking'
  <2> DEFINE b == Align(binary, n)
  <2>1. Linking' \/ (Effect(b) /\ GetSegmentType(binary) = "DATA")
    BY <1>10, AssertedData DEF AlignDirective
  <2>2. AtEnd(binary) /\ n \in Nat \ {0}
    BY <1>2, <1>10, StatementAssumption DEF AlignDirective
  <2>3. GetSegmentType(binary) = "DATA" => Sound(b) /\ AtEnd(b) /\ Extends(binary, b)
    BY <1>1, <2>2, AlignMoves
  <2> QED BY <1>4, <2>1, <2>3
<1>11. ASSUME NEW n \in Sizes, SpaceDirective(n) PROVE Linking'
  <2> DEFINE b == Pad(binary, n)
  <2>1. Linking' \/ (Effect(b) /\ GetSegmentType(binary) = "DATA")
    BY <1>11, AssertedData DEF SpaceDirective
  <2>2. AtEnd(binary) /\ n \in Nat
    BY <1>2, <1>11, StatementAssumption DEF SpaceDirective
  <2>3. GetSegmentType(binary) = "DATA" => Sound(b) /\ AtEnd(b) /\ Extends(binary, b)
    BY <1>1, <2>2, PadMoves
  <2> QED BY <1>4, <2>1, <2>3
<1>12. ASSUME NEW name \in Labels, DefineMacro(name) \/ LabelPrefix(name) PROVE Linking'
  <2>1. CASE Stop("failed")
    BY <2>1, StopLinking
  <2>2. CASE ~Stop("failed")
    <3>1. UNCHANGED <<phase, todo, binary, labelLocations, unresolvedAddressLocations,
                      patched, file, listing>>
      BY <1>12, <2>2 DEF DefineMacro, LabelPrefix, history
    <3> QED BY <3>1, ParserStepLinking DEF Parsing
  <2> QED BY <2>1, <2>2
<1>13. CASE EndOfFile
  <2>1. /\ UNCHANGED <<binary, labelLocations, unresolvedAddressLocations, patched, listing>>
        /\ phase = "statement" /\ phase' = "reducing"
    BY <1>13 DEF EndOfFile, history
  <2> QED BY <2>1, ParserStepLinking DEF Parsing
<1>14. CASE SyntaxError \/ ErrorDirective
  BY <1>14, StopLinking DEF SyntaxError, ErrorDirective
<1> QED BY <1>6, <1>7, <1>8, <1>9, <1>10, <1>11, <1>12, <1>13, <1>14 DEF Parse

-----------------------------------------------------------------------------
(***************************************************************************)
(* Writing a unit.                                                         *)
(***************************************************************************)

\* The addresses at and after the end of a segment are not written, those of
\* a unit that fits in the segment included.
LEMMA EndIsFresh ==
  ASSUME NEW b, Sound(b), AtEnd(b), NEW n \in Nat,
         GetSegmentType(b) = "TEXT" => b.cursor + n < DATA_SEGMENT_OFFSET
  PROVE  \A a \in b.cursor .. (b.cursor + n - 1) : a \notin Written(b)
<1> DEFINE T == Len(b.text.buf)
           D == Len(b.data.buf)
           at == b.cursor
<1>1. /\ T \in Nat /\ D \in Nat /\ at \in Nat /\ DATA_SEGMENT_OFFSET \in Nat
      /\ T < DATA_SEGMENT_OFFSET
  BY ConstantsTyped DEF Sound, Builder, Stream
<1>2. \/ at < DATA_SEGMENT_OFFSET /\ at = T /\ at + n < DATA_SEGMENT_OFFSET
      \/ ~(at < DATA_SEGMENT_OFFSET) /\ at = DATA_SEGMENT_OFFSET + D
  BY DEF AtEnd, GetSegmentType
<1>3. Written(b) = 0 .. (T - 1) \cup DATA_SEGMENT_OFFSET .. (DATA_SEGMENT_OFFSET + D - 1)
  BY DEF Written
<1> HIDE DEF T, D, at
<1>4. \A a \in at .. (at + n - 1) : a \notin Written(b)
  BY ONLY <1>1, <1>2, <1>3, n \in Nat
<1> QED BY <1>4 DEF at

LEMMA EmitLinking ==
  ASSUME TypeOK, Linking, EmitUnit
  PROVE  Linking'
<1> DEFINE unit == Head(todo)
           position == binary.cursor
           field == FieldOrJunk(unit, position, labelLocations)
           c == WriteUnit(binary, unit, field)
           here == Span(unit, position)
<1>1. /\ phase = "emitting" /\ phase' = "emitting" /\ todo \in Seq(Unit) /\ todo # <<>>
      /\ todo' = Tail(todo) /\ binary' = c
      /\ UNCHANGED <<labelLocations, patched, misplaced>>
      /\ unresolvedAddressLocations' =
           IF Resolvable(unit, labelLocations) THEN unresolvedAddressLocations
           ELSE Append(unresolvedAddressLocations, [unit |-> unit, position |-> position])
      /\ listing' = [a \in DOMAIN listing \cup here |->
                       IF a \in here
                       THEN [unit |-> unit, position |-> position,
                             index |-> a - position + 1, statement |-> count]
                       ELSE listing[a]]
  BY Typed DEF EmitUnit, List, Span
<1>2. /\ unit \in Unit /\ position \in Nat /\ Sound(binary) /\ AtEnd(binary)
      /\ Len(todo) \in Nat \ {0} /\ Len(Tail(todo)) = Len(todo) - 1
      /\ Size(unit) \in 1 .. 2 * INSTRUCTION_SIZE
      /\ DATA_SEGMENT_OFFSET \in Nat
      /\ GetSegmentType(binary) \in {"TEXT", "DATA"}
  BY <1>1, Typed, SoundBinary, UnitSize DEF Parsing
<1>3. field \in FieldOf(unit)
        /\ (Resolvable(unit, labelLocations) =>
              field = AddressField(unit, position, labelLocations))
  BY <1>2, Typed, FieldOrJunkTyped DEF FieldOrJunk
<1>4. GetSegmentType(binary) = "TEXT" =>
        /\ position + 2 * INSTRUCTION_SIZE * Len(todo) < DATA_SEGMENT_OFFSET
        /\ \A i \in 1 .. Len(todo) : ~IsByte(todo[i])
  BY <1>1 DEF Linking, TodoFits
<1>5. GetSegmentType(binary) = "TEXT" =>
        ~IsByte(unit) /\ position + Size(unit) < DATA_SEGMENT_OFFSET
  <2>1. todo[1] = unit /\ 1 \in 1 .. Len(todo)
    BY <1>1, <1>2
  <2> HIDE DEF unit, position
  <2>2. position + 2 * INSTRUCTION_SIZE * Len(todo) < DATA_SEGMENT_OFFSET
          => position + Size(unit) < DATA_SEGMENT_OFFSET
    BY <1>2 DEF INSTRUCTION_SIZE
  <2> QED BY <1>4, <2>1, <2>2
<1>6. /\ Sound(c) /\ UnitPuts(binary, unit, field, c) /\ AtEnd(c)
      /\ GetSegmentType(c) = GetSegmentType(binary)
  BY <1>2, <1>3, <1>5, WriteUnitPuts
<1>7. here \cap Written(binary) = {}
  BY <1>2, <1>5, EndIsFresh DEF Span
<1>8. /\ c.cursor = position + Size(unit)
      /\ Written(c) = Written(binary) \cup here
      /\ \A a \in Written(c) :
           ByteAt(c, a) = IF a \in here THEN ByteOfUnit(unit, field, a - position + 1)
                          ELSE ByteAt(binary, a)
  BY <1>6 DEF UnitPuts
<1>9. \A a \in DOMAIN listing : a \in Written(binary) /\ a \notin here
  BY <1>7 DEF Linking, ListingPlaced
<1>10. /\ \A a \in DOMAIN listing : a \in DOMAIN listing' /\ listing'[a] = listing[a]
       /\ \A a \in here : /\ a \in DOMAIN listing'
                          /\ listing'[a].unit = unit
                          /\ listing'[a].position = position
                          /\ listing'[a].index = a - position + 1
       /\ \A a \in DOMAIN listing' : a \in DOMAIN listing \/ a \in here
  BY <1>1, <1>9
<1>11. SoundBuilder' /\ WritesAtEnd' /\ FileWritten'
  BY <1>1, <1>6 DEF SoundBuilder, WritesAtEnd, FileWritten, Sound
<1>12. TodoFits'
  <2> SUFFICES ASSUME GetSegmentType(binary) = "TEXT"
               PROVE  /\ c.cursor + 2 * INSTRUCTION_SIZE * Len(Tail(todo)) < DATA_SEGMENT_OFFSET
                      /\ \A i \in 1 .. Len(Tail(todo)) : ~IsByte(Tail(todo)[i])
    BY <1>1, <1>6 DEF TodoFits
  <2>1. \A i \in 1 .. Len(Tail(todo)) : Tail(todo)[i] = todo[i + 1] /\ i + 1 \in 1 .. Len(todo)
    BY <1>1, <1>2
  <2> DEFINE n == Len(todo)
             m == Len(Tail(todo))
  <2> HIDE DEF unit, position, c, n, m
  <2>2. c.cursor + 2 * INSTRUCTION_SIZE * m < DATA_SEGMENT_OFFSET
    <3>1. n \in Nat /\ m = n - 1
      BY <1>2 DEF n, m
    <3>2. position + 2 * INSTRUCTION_SIZE * n < DATA_SEGMENT_OFFSET
      BY <1>4 DEF n
    <3> QED BY <1>2, <1>8, <3>1, <3>2 DEF INSTRUCTION_SIZE
  <2> QED BY <1>4, <2>1, <2>2 DEF m
<1>13. ListingPlaced'
  <2>1. ASSUME NEW a \in DOMAIN listing
        PROVE  /\ a \in Written(c)
               /\ a \in Span(listing[a].unit, listing[a].position)
               /\ listing[a].index = a - listing[a].position + 1
               /\ IsByte(listing[a].unit) => listing[a].position >= DATA_SEGMENT_OFFSET
    BY <1>8 DEF Linking, ListingPlaced
  <2>2. IsByte(unit) => position >= DATA_SEGMENT_OFFSET
    BY <1>2, <1>5 DEF GetSegmentType
  <2> HIDE DEF unit, position, c
  <2>3. ASSUME NEW a \in DOMAIN listing'
        PROVE  /\ a \in Written(c)
               /\ a \in Span(listing'[a].unit, listing'[a].position)
               /\ listing'[a].index = a - listing'[a].position + 1
               /\ IsByte(listing'[a].unit) => listing'[a].position >= DATA_SEGMENT_OFFSET
    BY <1>8, <1>10, <2>1, <2>2
  <2> QED BY <1>1, <2>3 DEF ListingPlaced
<1> DEFINE entries == unresolvedAddressLocations
           new == [unit |-> unit, position |-> position]
<1>14. /\ entries \in Seq(UnresolvedEntry) /\ patched \in 0 .. Len(entries)
       /\ Len(entries) \in Nat
  BY Typed
<1>15. /\ \A j \in 1 .. Len(entries) :
            j \in 1 .. Len(entries') /\ entries'[j] = entries[j]
       /\ \A j \in 1 .. Len(entries') :
            j \in 1 .. Len(entries) \/ entries'[j] = new
       /\ ~Resolvable(unit, labelLocations) =>
            Len(entries) + 1 \in 1 .. Len(entries') /\ entries'[Len(entries) + 1] = new
       /\ Len(entries') \in Nat
  <2> HIDE DEF new, unit, position
  <2>1. entries' = IF Resolvable(unit, labelLocations) THEN entries ELSE Append(entries, new)
    BY <1>1 DEF new
  <2> QED BY <1>14, <2>1
<1> HIDE DEF unit, position, c, here
<1>16. EntriesListed'
  <2>1. ASSUME NEW j \in 1 .. Len(entries'), NEW a \in Span(entries'[j].unit, entries'[j].position)
        PROVE  /\ a \in DOMAIN listing'
               /\ listing'[a].unit = entries'[j].unit
               /\ listing'[a].position = entries'[j].position
    <3>1. CASE j \in 1 .. Len(entries)
      BY <1>10, <1>15, <2>1, <3>1 DEF Linking, EntriesListed
    <3>2. CASE entries'[j] = new
      BY <1>10, <2>1, <3>2 DEF here
    <3> QED BY <1>15, <3>1, <3>2
  <2> QED BY <2>1 DEF EntriesListed
<1>17. BytesLinked'
  <2>1. ASSUME NEW a \in here
        PROVE  StillUnresolved(a)' \/ (Resolvable(listing[a].unit, labelLocations)'
                                        /\ ByteAt(binary, a)' = Expected(a)')
    <3>1. CASE Resolvable(unit, labelLocations)
      <4>1. a \in Written(c)
        BY <1>8, <2>1
      <4>2. ByteAt(c, a) = ByteOfUnit(unit, AddressField(unit, position, labelLocations),
                                      a - position + 1)
        BY <1>3, <1>8, <2>1, <3>1, <4>1 DEF unit, position
      <4> QED BY <1>1, <1>10, <2>1, <3>1, <4>2 DEF Expected
    <3>2. CASE ~Resolvable(unit, labelLocations)
      <4> DEFINE j == Len(entries) + 1
      <4>1. j \in (patched' + 1) .. Len(entries')
        BY <1>1, <1>14, <1>15, <3>2
      <4>2. entries'[j].unit = listing'[a].unit /\ entries'[j].position = listing'[a].position
        BY <1>10, <1>15, <2>1, <3>2
      <4> HIDE DEF j
      <4>3. StillUnresolved(a)'
        BY <4>1, <4>2 DEF StillUnresolved
      <4> QED BY <4>3
    <3> QED BY <3>1, <3>2
  <2>2. ASSUME NEW a \in DOMAIN listing
        PROVE  StillUnresolved(a)' \/ (Resolvable(listing[a].unit, labelLocations)'
                                        /\ ByteAt(binary, a)' = Expected(a)')
    <3>1. CASE StillUnresolved(a)
      <4>1. PICK j \in (patched + 1) .. Len(entries) :
               entries[j].unit = listing[a].unit /\ entries[j].position = listing[a].position
        BY <3>1 DEF StillUnresolved
      <4>2. j \in (patched' + 1) .. Len(entries')
        BY <1>1, <1>14, <1>15, <4>1
      <4>3. entries'[j] = entries[j]
        BY <1>14, <1>15, <4>1
      <4>4. StillUnresolved(a)'
        BY <1>10, <2>2, <4>1, <4>2, <4>3 DEF StillUnresolved
      <4> QED BY <4>4
    <3>2. CASE ~StillUnresolved(a)
      <4>1. Resolvable(listing[a].unit, labelLocations) /\ ByteAt(binary, a) = Expected(a)
        BY <2>2, <3>2 DEF Linking, BytesLinked
      <4>2. ByteAt(c, a) = ByteAt(binary, a)
        BY <1>8, <1>9, <2>2
      <4> QED BY <1>1, <1>10, <2>2, <4>1, <4>2 DEF Expected
    <3> QED BY <3>1, <3>2
  <2> QED BY <1>10, <2>1, <2>2 DEF BytesLinked
<1>18. GapsAreZero'
  <2>1. ASSUME NEW a \in Written(c) \ DOMAIN listing' PROVE ByteAt(c, a) = ZeroByte
    <3>1. a \notin here /\ a \in Written(binary) \ DOMAIN listing
      BY <1>8, <1>10, <2>1
    <3> QED BY <1>8, <2>1, <3>1 DEF Linking, GapsAreZero
  <2> QED BY <1>1, <2>1 DEF GapsAreZero
<1> QED BY <1>11, <1>12, <1>13, <1>16, <1>17, <1>18 DEF Linking

-----------------------------------------------------------------------------
(***************************************************************************)
(* The patch loop, labels, and the program file.                           *)
(***************************************************************************)

\* What the patch loop rewrites is there: the entry's position can be seeked
\* to, and all its bytes are written, in one segment.
LEMMA EntryWritten ==
  ASSUME TypeOK, Linking, NEW j \in 1 .. Len(unresolvedAddressLocations)
  PROVE  LET entry == unresolvedAddressLocations[j]
             b == SetLocation(binary, entry.position)
         IN  /\ entry.unit \in Unit /\ entry.position \in Nat
             /\ Span(entry.unit, entry.position) \subseteq DOMAIN listing
             /\ Span(entry.unit, entry.position) \subseteq Written(binary)
             /\ Sound(b) /\ b.cursor = entry.position /\ Extends(binary, b)
             /\ Written(b) = Written(binary)
             /\ GetSegmentType(b) = "TEXT" =>
                  /\ ~IsByte(entry.unit)
                  /\ b.cursor + Size(entry.unit) < DATA_SEGMENT_OFFSET
<1> DEFINE entry == unresolvedAddressLocations[j]
           unit == entry.unit
           position == entry.position
           b == SetLocation(binary, position)
           T == Len(binary.text.buf)
           D == Len(binary.data.buf)
<1>1. /\ T \in Nat /\ D \in Nat /\ DATA_SEGMENT_OFFSET \in Nat /\ T < DATA_SEGMENT_OFFSET
      /\ binary \in Builder
      /\ Written(binary) = 0 .. (T - 1) \cup DATA_SEGMENT_OFFSET .. (DATA_SEGMENT_OFFSET + D - 1)
  BY Typed, SoundBinary DEF Written
<1>2. unit \in Unit /\ position \in Nat /\ Size(unit) \in 1 .. 2 * INSTRUCTION_SIZE
  <2>1. entry \in UnresolvedEntry
    BY Typed
  <2> QED BY <2>1, UnitSize DEF UnresolvedEntry
<1>3. \A a \in Span(unit, position) :
        /\ a \in DOMAIN listing /\ a \in Written(binary)
        /\ IsByte(unit) => position >= DATA_SEGMENT_OFFSET
  BY DEF Linking, EntriesListed, ListingPlaced
<1> HIDE DEF entry, T, D, unit, position
<1>a. Size(unit) \in Nat \ {0}
  BY <1>2 DEF INSTRUCTION_SIZE
<1>4. /\ position \in Span(unit, position)
      /\ position + Size(unit) - 1 \in Span(unit, position)
      /\ \A a \in Span(unit, position) : a >= position
      /\ position < DATA_SEGMENT_OFFSET /\ position + Size(unit) > DATA_SEGMENT_OFFSET
           => DATA_SEGMENT_OFFSET - 1 \in Span(unit, position)
  BY ONLY <1>1, <1>2, <1>a DEF Span
<1>5. position < DATA_SEGMENT_OFFSET =>
        /\ ~IsByte(unit) /\ position < T /\ position + Size(unit) < DATA_SEGMENT_OFFSET
  <2> SUFFICES ASSUME position < DATA_SEGMENT_OFFSET
               PROVE  ~IsByte(unit) /\ position < T
                      /\ position + Size(unit) < DATA_SEGMENT_OFFSET
    OBVIOUS
  <2>1. ~IsByte(unit)
    BY <1>1, <1>2, <1>3, <1>4
  <2>2. position \in Written(binary) /\ position + Size(unit) - 1 \in Written(binary)
    BY <1>3, <1>4
  <2>3. position < T
    BY ONLY <1>1, <1>2, <2>2, position < DATA_SEGMENT_OFFSET
  <2>4. ~(position + Size(unit) > DATA_SEGMENT_OFFSET)
    <3>1. DATA_SEGMENT_OFFSET - 1 \notin Written(binary)
      BY ONLY <1>1
    <3> QED BY <1>3, <1>4, <3>1
  <2>5. position + Size(unit) - 1 < T
    BY ONLY <1>1, <1>2, <1>a, <2>2, <2>4
  <2>6. position + Size(unit) < DATA_SEGMENT_OFFSET
    BY ONLY <1>1, <1>2, <1>a, <2>5
  <2> QED BY <2>1, <2>3, <2>6
<1>6. position < DATA_SEGMENT_OFFSET => position <= T
  BY <1>1, <1>2, <1>5
<1>7. Sound(b) /\ b.cursor = position /\ Extends(binary, b)
  BY <1>1, <1>2, <1>6, SetLocationMoves DEF T
<1>8. Written(b) = Written(binary)
  <2> DEFINE base == IF position < DATA_SEGMENT_OFFSET THEN 0 ELSE DATA_SEGMENT_OFFSET
  <2>1. Written(b) = Written(binary) \cup base .. (position - 1)
    BY <1>1, <1>2, <1>6, SetLocationWritten DEF T
  <2>2. position \in Written(binary)
    BY <1>3, <1>4
  <2>3. ASSUME NEW a \in base .. (position - 1) PROVE a \in Written(binary)
    BY ONLY <1>1, <1>2, <1>5, <2>2, <2>3
  <2> QED BY <2>1, <2>3
<1>9. GetSegmentType(b) = "TEXT" <=> position < DATA_SEGMENT_OFFSET
  BY <1>7 DEF GetSegmentType
<1> QED BY <1>2, <1>3, <1>5, <1>7, <1>8, <1>9 DEF unit, position, entry

\* One entry patched: its bytes, and no others.
LEMMA PatchPuts ==
  ASSUME TypeOK, Linking, NEW j \in 1 .. Len(unresolvedAddressLocations),
         Resolvable(unresolvedAddressLocations[j].unit, labelLocations)
  PROVE  LET entry == unresolvedAddressLocations[j]
             field == AddressField(entry.unit, entry.position, labelLocations)
             c == WriteUnit(SetLocation(binary, entry.position), entry.unit, field)
         IN  /\ Sound(c)
             /\ Written(c) = Written(binary)
             /\ \A a \in Written(binary) :
                  ByteAt(c, a) = IF a \in Span(entry.unit, entry.position)
                                 THEN ByteOfUnit(entry.unit, field, a - entry.position + 1)
                                 ELSE ByteAt(binary, a)
<1> DEFINE entry == unresolvedAddressLocations[j]
           unit == entry.unit
           position == entry.position
           field == AddressField(unit, position, labelLocations)
           b == SetLocation(binary, position)
           c == WriteUnit(b, unit, field)
<1>1. /\ unit \in Unit /\ position \in Nat
      /\ Span(unit, position) \subseteq Written(binary)
      /\ Sound(b) /\ b.cursor = position /\ Extends(binary, b)
      /\ Written(b) = Written(binary)
      /\ GetSegmentType(b) = "TEXT" =>
           ~IsByte(unit) /\ b.cursor + Size(unit) < DATA_SEGMENT_OFFSET
  BY EntryWritten
<1>2. field \in FieldOf(unit)
  BY <1>1, Typed, FieldOrJunkTyped
<1> HIDE DEF field, b, unit, position
<1>3. Sound(c) /\ UnitPuts(b, unit, field, c)
  BY ONLY <1>1, <1>2, WriteUnitPuts
<1>4. Written(c) = Written(binary)
  BY <1>1, <1>3 DEF UnitPuts
<1>5. \A a \in Written(binary) : ByteAt(b, a) = ByteAt(binary, a)
  BY <1>1 DEF Extends
<1>6. \A a \in Written(binary) :
        ByteAt(c, a) = IF a \in Span(unit, position)
                       THEN ByteOfUnit(unit, field, a - position + 1) ELSE ByteAt(binary, a)
  BY <1>1, <1>3, <1>4, <1>5 DEF UnitPuts
<1> QED BY <1>3, <1>4, <1>6 DEF c, b, field, unit, position

LEMMA PatchLinking ==
  ASSUME TypeOK, Linking, PatchAddress
  PROVE  Linking'
<1> DEFINE k == patched + 1
           entries == unresolvedAddressLocations
           entry == entries[k]
           unit == entry.unit
           position == entry.position
           b == SetLocation(binary, position)
           field == AddressField(unit, position, labelLocations)
           c == WriteUnit(b, unit, field)
<1>1. /\ phase = "patching" /\ patched \in Nat /\ Len(entries) \in Nat
      /\ k \in 1 .. Len(entries)
      /\ UNCHANGED <<labelLocations, entries, listing>>
  BY Typed DEF PatchAddress, history
<1>2. \A a \in DOMAIN listing : a \in Written(binary)
  BY DEF Linking, ListingPlaced
<1>3. CASE Resolvable(unit, labelLocations)
  <2>1. binary' = c /\ patched' = k /\ phase' = "patching"
    BY <1>1, <1>3 DEF PatchAddress
  <2>2. /\ Sound(c)
        /\ Written(c) = Written(binary)
        /\ \A a \in Written(binary) :
             ByteAt(c, a) = IF a \in Span(unit, position)
                            THEN ByteOfUnit(unit, field, a - position + 1)
                            ELSE ByteAt(binary, a)
    BY <1>1, <1>3, PatchPuts
  <2>3. Span(unit, position) \subseteq DOMAIN listing
    BY <1>1, EntryWritten
  <2> HIDE DEF c
  <2>4. SoundBuilder' /\ WritesAtEnd' /\ TodoFits' /\ FileWritten'
    BY <2>1, <2>2 DEF Sound, SoundBuilder, WritesAtEnd, Parsing, TodoFits, FileWritten
  <2>5. ListingPlaced' /\ EntriesListed'
    BY <1>1, <2>1, <2>2 DEF Linking, ListingPlaced, EntriesListed
  <2>6. GapsAreZero'
    BY <1>1, <2>1, <2>2, <2>3 DEF Linking, GapsAreZero
  <2>7. BytesLinked'
    <3>1. ASSUME NEW a \in DOMAIN listing, a \in Span(unit, position),
                 listing[a].unit = unit, listing[a].position = position
          PROVE  Resolvable(listing[a].unit, labelLocations) /\ ByteAt(c, a) = Expected(a)
      <4>1. listing[a].index = a - position + 1
        BY <3>1 DEF Linking, ListingPlaced
      <4> QED BY <1>2, <1>3, <2>2, <3>1, <4>1 DEF Expected
    <3>2. ASSUME NEW a \in DOMAIN listing, a \notin Span(unit, position)
          PROVE  ByteAt(c, a) = ByteAt(binary, a)
      BY <1>2, <2>2, <3>2
    <3>3. ASSUME NEW a \in DOMAIN listing, a \in Span(unit, position)
          PROVE  listing[a].unit = unit /\ listing[a].position = position
      BY <1>1, <3>3 DEF Linking, EntriesListed
    <3>4. ASSUME NEW a \in DOMAIN listing, a \notin Span(unit, position), StillUnresolved(a)
          PROVE  StillUnresolved(a)'
      <4>1. PICK j \in k .. Len(entries) :
               entries[j].unit = listing[a].unit /\ entries[j].position = listing[a].position
        BY <3>4 DEF StillUnresolved
      <4>2. a \in Span(listing[a].unit, listing[a].position)
        BY DEF Linking, ListingPlaced
      <4>3. j # k
        BY <3>4, <4>1, <4>2
      <4>4. j \in (patched' + 1) .. Len(entries')
        BY <1>1, <2>1, <4>1, <4>3
      <4> QED BY <1>1, <4>1, <4>4 DEF StillUnresolved
    <3>5. ASSUME NEW a \in DOMAIN listing
          PROVE  StillUnresolved(a)' \/ (Resolvable(listing[a].unit, labelLocations)
                                          /\ ByteAt(c, a) = Expected(a))
      BY <3>1, <3>2, <3>3, <3>4 DEF Linking, BytesLinked
    <3>6. \A a : Expected(a)' = Expected(a)
      BY <1>1 DEF Expected
    <3> QED BY <1>1, <2>1, <3>5, <3>6 DEF BytesLinked
  <2> QED BY <2>4, <2>5, <2>6, <2>7 DEF Linking
<1>4. CASE ~Resolvable(unit, labelLocations)
  <2>1. binary' = b /\ patched' = patched /\ phase' = "failed"
    BY <1>1, <1>4 DEF PatchAddress
  <2>2. Sound(b) /\ Extends(binary, b)
    BY <1>1, EntryWritten
  <2> HIDE DEF b
  <2>3. SoundBuilder' /\ WritesAtEnd' /\ TodoFits' /\ FileWritten'
    BY <2>1, <2>2 DEF Sound, SoundBuilder, WritesAtEnd, Parsing, TodoFits, FileWritten
  <2>4. ListingPlaced' /\ EntriesListed' /\ BytesLinked' /\ GapsAreZero'
    BY <1>1, <2>1, <2>2, ExtendsKeepsBytes DEF Linking
  <2> QED BY <2>3, <2>4 DEF Linking
<1> QED BY <1>3, <1>4

\* A label that is defined keeps its location: what is resolved stays so, with
\* the same field.
LEMMA FieldStable ==
  ASSUME NEW unit \in Unit, NEW position, NEW old, NEW new,
         DOMAIN old \subseteq DOMAIN new,
         \A l \in DOMAIN old : new[l] = old[l],
         Resolvable(unit, old)
  PROVE  /\ Resolvable(unit, new)
         /\ AddressField(unit, position, new) = AddressField(unit, position, old)
<1>1. Resolvable(unit, new)
  BY DEF Resolvable
<1>2. unit.label \in DOMAIN old => new[unit.label] = old[unit.label]
  OBVIOUS
<1>3. unit.type \in AddressType \cup LiteralType
  BY DEF Unit
<1>4. CASE unit.label \in DOMAIN old
  BY <1>1, <1>2, <1>3, <1>4 DEF AddressField, AddressType, LiteralType
<1>5. CASE unit.type = "IndirectAddressOffset" /\ unit.label = NoLabel
  BY <1>1, <1>5 DEF AddressField
<1>6. CASE unit.type \in LiteralType
  BY <1>1, <1>6 DEF AddressField, LiteralType
<1> QED BY <1>4, <1>5, <1>6 DEF Resolvable

LEMMA DefineLabelLinking ==
  ASSUME TypeOK, Linking, DefineLabel
  PROVE  Linking'
<1> DEFINE name == pending[Len(pending)]
<1>1. CASE name \in DOMAIN labelLocations \cup macros
  BY <1>1, StopLinking DEF DefineLabel
<1>2. CASE name \notin DOMAIN labelLocations \cup macros
  <2>1. /\ labelLocations' = [l \in DOMAIN labelLocations \cup {name} |->
                                IF l = name THEN location ELSE labelLocations[l]]
        /\ UNCHANGED <<phase, todo, binary, unresolvedAddressLocations, patched, file, listing>>
    BY <1>2 DEF DefineLabel
  <2> HIDE DEF name
  <2>2. /\ DOMAIN labelLocations \subseteq DOMAIN labelLocations'
        /\ \A l \in DOMAIN labelLocations : labelLocations'[l] = labelLocations[l]
    BY <1>2, <2>1
  <2>3. SoundBuilder' /\ WritesAtEnd' /\ TodoFits' /\ FileWritten'
    BY <2>1 DEF Linking, SoundBuilder, WritesAtEnd, Parsing, TodoFits, FileWritten
  <2>4. ListingPlaced' /\ EntriesListed' /\ GapsAreZero'
    BY <2>1 DEF Linking, ListingPlaced, EntriesListed, GapsAreZero
  <2>5. \A a \in DOMAIN listing : listing[a].unit \in Unit
    BY Typed DEF ListingEntry
  <2>6. ASSUME NEW a \in DOMAIN listing, Resolvable(listing[a].unit, labelLocations)
        PROVE  Resolvable(listing[a].unit, labelLocations') /\ Expected(a)' = Expected(a)
    BY <2>1, <2>2, <2>5, <2>6, FieldStable DEF Expected
  <2>7. BytesLinked'
    BY <2>1, <2>6 DEF Linking, BytesLinked, StillUnresolved
  <2> QED BY <2>3, <2>4, <2>7 DEF Linking
<1> QED BY <1>1, <1>2

LEMMA WriteProgramLinking ==
  ASSUME TypeOK, Linking, WriteProgram
  PROVE  Linking'
<1> DEFINE b == SetLocationEnd(binary)
           c == Align(b, INSTRUCTION_SIZE)
<1>1. /\ phase' = "assembled" /\ patched = Len(unresolvedAddressLocations) /\ binary' = c
      /\ file'.text = c.text.buf /\ file'.data = c.data.buf
      /\ UNCHANGED <<labelLocations, unresolvedAddressLocations, patched, listing>>
  BY DEF WriteProgram, Close, history
<1>2. binary \in Builder /\ Len(binary.text.buf) < DATA_SEGMENT_OFFSET
  BY Typed, SoundBinary
<1>3. /\ Sound(b) /\ GetSegmentType(b) = "DATA"
      /\ b.text.buf = binary.text.buf /\ b.data.buf = binary.data.buf
  BY <1>2, SetLocationEndMoves
<1>4. INSTRUCTION_SIZE \in Nat \ {0}
  BY DEF INSTRUCTION_SIZE
<1> HIDE DEF b
<1>5. Sound(c) /\ Extends(b, c)
  BY <1>3, <1>4, AlignMoves
<1>6. Extends(binary, c)
  BY <1>3, <1>5, SameBuffersExtend, ExtendsTransitive
<1> HIDE DEF c
<1>7. ListingPlaced' /\ EntriesListed' /\ BytesLinked' /\ GapsAreZero'
  BY <1>1, <1>6, ExtendsKeepsBytes DEF Linking
<1>8. SoundBuilder' /\ WritesAtEnd' /\ TodoFits' /\ FileWritten'
  BY <1>1, <1>5 DEF Sound, SoundBuilder, WritesAtEnd, Parsing, TodoFits, FileWritten
<1> QED BY <1>7, <1>8 DEF Linking

-----------------------------------------------------------------------------
(***************************************************************************)
(* The theorems.                                                           *)
(***************************************************************************)

\* A data directive that was misplaced stays so.
LEMMA MisplacedStays ==
  ASSUME [Next]_vars, ~misplaced'
  PROVE  ~misplaced
<1>1. CASE Parse
  <2>1. ASSUME NEW directive, AssertData(directive) PROVE ~misplaced
    BY <2>1 DEF AssertData, Stop
  <2>2. CASE \/ \E units \in WordLists : WordDirective(units)
             \/ \E units \in ByteLists : ByteDirective(units)
             \/ \E alignment \in Alignments : AlignDirective(alignment)
             \/ \E size \in Sizes : SpaceDirective(size)
    BY <2>1, <2>2 DEF WordDirective, ByteDirective, AlignDirective, SpaceDirective
  <2>3. CASE \/ TextDirective \/ DataDirective
             \/ \E units \in Instructions : Instruction(units)
             \/ \E name \in Labels : DefineMacro(name) \/ LabelPrefix(name)
             \/ EndOfFile \/ SyntaxError \/ ErrorDirective
    BY <2>3 DEF TextDirective, DataDirective, Instruction, DefineMacro, LabelPrefix,
                EndOfFile, SyntaxError, ErrorDirective, Stop, history
  <2> QED BY <1>1, <2>2, <2>3 DEF Parse
<1>2. CASE ~Parse
  BY <1>2 DEF Next, EmitUnit, StatementEnd, DefineLabel, NextStatement, PatchAddress,
              WriteProgram, Done, Stop, vars, history
<1> QED BY <1>1, <1>2

LEMMA NextLinking ==
  ASSUME TypeOK, Linking, [Next]_vars, ~misplaced'
  PROVE  Linking'
<1>1. CASE StatementEnd
  BY <1>1, ParserStepLinking DEF StatementEnd, Parsing, history
<1>2. CASE NextStatement
  BY <1>2, ParserStepLinking DEF NextStatement, Parsing, history
<1>3. CASE UNCHANGED vars
  BY <1>3, ParserStepLinking DEF vars, Parsing
<1> QED BY <1>1, <1>2, <1>3, ParseLinking, EmitLinking, DefineLabelLinking, PatchLinking,
           WriteProgramLinking DEF Next, Done

LEMMA InitLinking == Init => Linking
<1> SUFFICES ASSUME Init PROVE Linking
  OBVIOUS
<1>1. /\ binary = [cursor |-> 0, text |-> [buf |-> <<>>, put |-> 0],
                   data |-> [buf |-> <<>>, put |-> 0]]
      /\ phase = "statement" /\ unresolvedAddressLocations = <<>>
      /\ DOMAIN listing = {}
  BY DEF Init, Open, EmptyStream, EmptyFunction
<1>2. Len(<<>>) = 0 /\ DATA_SEGMENT_OFFSET \in Nat \ {0}
  BY ConstantsTyped
<1>3. SoundBuilder /\ WritesAtEnd
  BY <1>1, <1>2 DEF SoundBuilder, WritesAtEnd, CursorSync, AtEnd, GetSegmentType
<1>4. Written(binary) = {}
  <2>1. 0 .. (0 - 1) = {} /\ DATA_SEGMENT_OFFSET .. (DATA_SEGMENT_OFFSET + 0 - 1) = {}
    BY <1>2
  <2> QED BY <1>1, <1>2, <2>1 DEF Written
<1>5. TodoFits /\ FileWritten
  BY <1>1 DEF TodoFits, FileWritten
<1>6. EntriesListed
  <2>1. 1 .. Len(unresolvedAddressLocations) = {}
    BY <1>1, <1>2
  <2> QED BY <2>1 DEF EntriesListed
<1>7. ListingPlaced /\ BytesLinked /\ GapsAreZero
  BY <1>1, <1>4 DEF ListingPlaced, BytesLinked, GapsAreZero
<1> QED BY <1>3, <1>5, <1>6, <1>7 DEF Linking

LEMMA Invariance == Spec => []Inv
<1>1. Init => Inv
  BY InitTyped, InitLinking DEF Inv
<1>2. Inv /\ [Next]_vars => Inv'
  BY NextTyped, NextLinking, MisplacedStays DEF Inv
<1> QED BY <1>1, <1>2, PTL DEF Spec

\* On every source whose data directives stay in the data segment, the put
\* position of the current stream is the location counter: in the parser's
\* actions and in the patch loop, which seeks both back.
THEOREM CounterIsPutPosition == Spec => []CursorInSync
<1>1. Inv => CursorInSync
  BY DEF Inv, Linking, SoundBuilder, CursorInSync
<1> QED BY <1>1, Invariance, PTL

LEMMA ConcatenationRight ==
  ASSUME NEW S, NEW s \in Seq(S), NEW t \in Seq(S), NEW i \in 1 .. Len(t)
  PROVE  (s \o t)[Len(s) + i] = t[i]
<1>1. Len(s) \in Nat /\ Len(t) \in Nat
  OBVIOUS
<1>2. Len(s) + i \in 1 .. (Len(s) + Len(t)) /\ Len(s) + i > Len(s) /\ Len(s) + i - Len(s) = i
  BY <1>1
<1> QED BY <1>1, <1>2

LEMMA LinkedAtEnd == Inv => LinkedImage
<1> SUFFICES ASSUME TypeOK, Linking, phase = "assembled" PROVE ImageIsLinked
  BY DEF Inv, LinkedImage
<1> DEFINE T == Len(binary.text.buf)
           D == Len(binary.data.buf)
<1>1. /\ file.text = binary.text.buf /\ file.data = binary.data.buf
      /\ patched = Len(unresolvedAddressLocations)
  BY DEF Linking, FileWritten
<1>2. /\ T \in Nat /\ D \in Nat /\ DATA_SEGMENT_OFFSET \in Nat /\ T < DATA_SEGMENT_OFFSET
      /\ binary.text.buf \in Seq(Byte) /\ binary.data.buf \in Seq(Byte)
  BY Typed, SoundBinary DEF Builder, Stream
<1>3. FileAddresses = Written(binary)
  BY <1>1 DEF FileAddresses, Written
<1>4. \A a \in FileAddresses : ByteOf(file, a) = ByteAt(binary, a)
  <2> SUFFICES ASSUME NEW a \in FileAddresses PROVE ByteOf(file, a) = ByteAt(binary, a)
    OBVIOUS
  <2>1. a \in 0 .. (T - 1) \/ a \in DATA_SEGMENT_OFFSET .. (DATA_SEGMENT_OFFSET + D - 1)
    BY <1>1 DEF FileAddresses
  <2>2. Memory(file) = binary.text.buf \o binary.data.buf
    BY <1>1 DEF Memory
  <2>3. CASE a < DATA_SEGMENT_OFFSET
    <3>1. IndexOf(file, a) = a /\ ByteAt(binary, a) = binary.text.buf[a + 1]
      BY <2>3 DEF IndexOf, ByteAt
    <3>2. a + 1 \in 1 .. T
      BY <1>2, <2>1, <2>3
    <3> HIDE DEF T
    <3>3. (binary.text.buf \o binary.data.buf)[a + 1] = binary.text.buf[a + 1]
      BY <1>2, <3>2 DEF T
    <3> QED BY <2>2, <3>1, <3>3 DEF ByteOf
  <2>4. CASE ~(a < DATA_SEGMENT_OFFSET)
    <3> DEFINE i == a - DATA_SEGMENT_OFFSET
    <3>1. IndexOf(file, a) = i + T /\ ByteAt(binary, a) = binary.data.buf[i + 1]
      BY <1>1, <2>4 DEF IndexOf, ByteAt
    <3>2. i + 1 \in 1 .. D /\ i \in Int /\ a \in Int
      BY <1>2, <2>1, <2>4
    <3> HIDE DEF i
    <3>3. i + T + 1 = T + (i + 1)
      <4> HIDE DEF T
      <4> QED BY <1>2, <3>2
    <3>4. (binary.text.buf \o binary.data.buf)[T + (i + 1)] = binary.data.buf[i + 1]
      <4> DEFINE j == i + 1
                 t == binary.text.buf
                 d == binary.data.buf
      <4>1. j \in 1 .. Len(d) /\ t \in Seq(Byte) /\ d \in Seq(Byte)
        BY <1>2, <3>2
      <4> HIDE DEF j, t, d
      <4>2. (t \o d)[Len(t) + j] = d[j]
        BY ONLY <4>1, ConcatenationRight
      <4> QED BY <4>2 DEF j, t, d
    <3> QED BY <2>2, <3>1, <3>3, <3>4 DEF ByteOf
  <2> QED BY <2>3, <2>4
<1>5. \A a \in DOMAIN listing : ~StillUnresolved(a)
  BY <1>1, Typed DEF StillUnresolved
<1>6. \A a \in DOMAIN listing :
        /\ a \in Written(binary)
        /\ Resolvable(listing[a].unit, labelLocations)
        /\ ByteAt(binary, a) = Expected(a)
  BY <1>5 DEF Linking, ListingPlaced, BytesLinked
<1>7. \A a \in Written(binary) \ DOMAIN listing : ByteAt(binary, a) = ZeroByte
  BY DEF Linking, GapsAreZero
<1> QED BY <1>3, <1>4, <1>6, <1>7 DEF ImageIsLinked

\* Every program file is linked, on every source whose data directives stay in
\* the data segment: each address holds the byte the source put there, with each
\* label at its final location, and the gaps hold zeros.
THEOREM EveryProgramIsLinked == Spec => []LinkedImage
BY LinkedAtEnd, Invariance, PTL

\* The patch loop rewrites the bytes of the entry it is at, and no others, on
\* every source whose data directives stay in the data segment.
THEOREM PatchesInPlace == Spec => PatchInPlace
<1> DEFINE Step ==
      phase = "patching" /\ phase' = "patching" /\ ~misplaced =>
        LET entry == unresolvedAddressLocations[patched + 1]
        IN  /\ Written(binary') = Written(binary)
            /\ \A a \in Written(binary) :
                 ByteAt(binary', a) # ByteAt(binary, a) =>
                   a \in entry.position .. (entry.position + Size(entry.unit) - 1)
<1>1. Inv /\ [Next]_vars => [Step]_vars
  <2> SUFFICES ASSUME TypeOK, Linking, Next, phase = "patching", phase' = "patching"
               PROVE  Step
    BY DEF Inv
  <2>1. PatchAddress \/ UNCHANGED binary
    BY DEF Next, Parse, TextDirective, DataDirective, Instruction, WordDirective,
           ByteDirective, AlignDirective, SpaceDirective, DefineMacro, LabelPrefix,
           EndOfFile, SyntaxError, ErrorDirective, ReadStatement, EmitUnit, StatementEnd,
           DefineLabel, NextStatement, WriteProgram, Done, Finished
  <2>2. CASE UNCHANGED binary
    BY <2>2
  <2>3. CASE PatchAddress
    <3> DEFINE k == patched + 1
               entry == unresolvedAddressLocations[k]
    <3>1. /\ k \in 1 .. Len(unresolvedAddressLocations)
          /\ Resolvable(entry.unit, labelLocations)
          /\ binary' = WriteUnit(SetLocation(binary, entry.position), entry.unit,
                         AddressField(entry.unit, entry.position, labelLocations))
      BY <2>3, Typed DEF PatchAddress
    <3>2. /\ Written(binary') = Written(binary)
          /\ \A a \in Written(binary) :
               a \notin Span(entry.unit, entry.position) =>
                 ByteAt(binary', a) = ByteAt(binary, a)
      BY <3>1, PatchPuts
    <3> QED BY <3>2 DEF Span
  <2> QED BY <2>1, <2>2, <2>3
<1> QED BY <1>1, Invariance, PTL DEF Spec, PatchInPlace

-----------------------------------------------------------------------------
(***************************************************************************)
(* With assertions.                                                        *)
(***************************************************************************)

\* No statement is misplaced while the directives assert their segment.
LEMMA AssertionsPlace ==
  ASSUME AssertionsActive, [Next]_vars, ~misplaced
  PROVE  ~misplaced'
<1>1. CASE Parse
  <2>1. ASSUME NEW directive, AssertData(directive) PROVE ~misplaced'
    BY <2>1 DEF AssertData, Stop
  <2>2. CASE \/ \E units \in WordLists : WordDirective(units)
             \/ \E units \in ByteLists : ByteDirective(units)
             \/ \E alignment \in Alignments : AlignDirective(alignment)
             \/ \E size \in Sizes : SpaceDirective(size)
    BY <2>1, <2>2 DEF WordDirective, ByteDirective, AlignDirective, SpaceDirective
  <2>3. CASE \/ TextDirective \/ DataDirective
             \/ \E units \in Instructions : Instruction(units)
             \/ \E name \in Labels : DefineMacro(name) \/ LabelPrefix(name)
             \/ EndOfFile \/ SyntaxError \/ ErrorDirective
    BY <2>3 DEF TextDirective, DataDirective, Instruction, DefineMacro, LabelPrefix,
                EndOfFile, SyntaxError, ErrorDirective, Stop, history
  <2> QED BY <1>1, <2>2, <2>3 DEF Parse
<1>2. CASE ~Parse
  BY <1>2 DEF Next, EmitUnit, StatementEnd, DefineLabel, NextStatement, PatchAddress,
              WriteProgram, Done, Stop, vars, history
<1> QED BY <1>1, <1>2

\* With KASM_ASSERT compiled in, every program file that is written is linked,
\* whatever the source is: .space, .word and the other data directives in the
\* text segment stop the assembler before a byte is where its address is not.
THEOREM AssertionsLinkEveryImage == AssertionsActive => (Spec => []EveryImageLinked)
<1> SUFFICES ASSUME AssertionsActive PROVE Spec => []EveryImageLinked
  OBVIOUS
<1>1. Init => ~misplaced
  BY DEF Init
<1>2. ~misplaced /\ [Next]_vars => (~misplaced)'
  BY AssertionsPlace
<1>3. Inv /\ ~misplaced => EveryImageLinked
  BY LinkedAtEnd DEF LinkedImage, EveryImageLinked
<1> QED BY <1>1, <1>2, <1>3, Invariance, PTL DEF Spec

-----------------------------------------------------------------------------
(***************************************************************************)
(* The inductive invariant of the layout: where labels and words are.      *)
(***************************************************************************)

\* The addresses statement k has written.
WrittenBy(k) == {a \in DOMAIN listing : listing[a].statement = k}

\* If statement k has written anything, at is its first address.
BeginsAt(k, at) ==
  WrittenBy(k) # {} => at \in WrittenBy(k) /\ \A a \in WrittenBy(k) : at <= a

\* Statements are numbered as they are read.
StatementsCounted ==
  /\ \A a \in DOMAIN listing : listing[a].statement <= count
  /\ DOMAIN owner = DOMAIN labelLocations
  /\ \A l \in DOMAIN owner : owner[l] \in Nat /\ owner[l] <= count
  /\ phase = "emitting" => \A l \in DOMAIN owner : owner[l] < count

\* A label that waits for its statement was the last thing read.
PendingUnwritten == phase = "statement" /\ pending # <<>> => WrittenBy(count) = {}

\* What location is, while its statement is assembled.
LocationTaken ==
  /\ phase = "emitting" =>
       /\ BeginsAt(count, location)
       /\ location <= binary.cursor
       /\ WrittenBy(count) = {} => location = binary.cursor
  /\ phase = "reducing" /\ pending # <<>> => BeginsAt(count, location)

LabelsBegin == \A l \in DOMAIN owner : BeginsAt(owner[l], labelLocations[l])

Naming == StatementsCounted /\ PendingUnwritten /\ LocationTaken /\ LabelsBegin

-----------------------------------------------------------------------------
(***************************************************************************)
(* The steps that write nothing and define nothing.                        *)
(***************************************************************************)

\* The next statement has written nothing yet.
LEMMA NextUnwritten ==
  ASSUME TypeOK, Naming
  PROVE  WrittenBy(count + 1) = {}
BY DEF TypeOK, Naming, StatementsCounted, WrittenBy

LEMMA QuietNaming ==
  ASSUME TypeOK, TypeOK', Naming, UNCHANGED <<listing, owner, labelLocations>>,
         count' \in {count, count + 1},
         phase' = "emitting" =>
           \/ count' = count + 1 /\ location' = binary'.cursor
           \/ phase = "emitting" /\ UNCHANGED <<count, location, binary>>,
         phase' = "statement" /\ pending' # <<>> =>
           \/ count' = count + 1
           \/ phase = "statement" /\ UNCHANGED <<count, pending>>,
         phase' = "reducing" =>
           \/ count' = count + 1
           \/ phase = "statement" /\ UNCHANGED <<count, pending>>
           \/ phase = "emitting" /\ UNCHANGED <<count, location>>
           \/ phase = "reducing" /\ UNCHANGED <<count, location, pending>>
  PROVE  Naming'
<1>1. count \in Nat /\ \A k : WrittenBy(k)' = WrittenBy(k)
  BY DEF TypeOK, WrittenBy
<1>2. \A k, at : BeginsAt(k, at)' <=> BeginsAt(k, at)
  BY DEF BeginsAt, WrittenBy
<1>3. WrittenBy(count + 1) = {}
  BY NextUnwritten
<1>4. StatementsCounted'
  <2>1. count' >= count
    BY <1>1
  <2>2. \A l \in DOMAIN owner : owner[l] \in Nat /\ owner[l] <= count
    BY DEF Naming, StatementsCounted
  <2>3. \A a \in DOMAIN listing : listing[a].statement <= count /\ listing[a].statement \in Nat
    BY Typed DEF Naming, StatementsCounted, ListingEntry
  <2>4. phase' = "emitting" => \A l \in DOMAIN owner : owner[l] < count'
    BY <1>1, <2>2 DEF Naming, StatementsCounted
  <2> QED BY <1>1, <2>1, <2>2, <2>3, <2>4 DEF Naming, StatementsCounted
<1>5. PendingUnwritten'
  BY <1>1, <1>3 DEF Naming, PendingUnwritten, WrittenBy
<1>6. LocationTaken'
  <2>1. \A at : BeginsAt(count + 1, at)
    BY <1>3 DEF BeginsAt
  <2>2. phase = "statement" /\ pending # <<>> => \A at : BeginsAt(count, at)
    BY DEF Naming, PendingUnwritten, BeginsAt
  <2>3. location' = binary'.cursor => location' <= binary'.cursor
    <3>1. location' \in Nat
      BY DEF TypeOK
    <3> QED BY <3>1
  <2>4. LocationTaken
    BY DEF Naming
  <2>5. ASSUME phase' = "emitting", count' = count + 1, location' = binary'.cursor
        PROVE  LocationTaken'
    BY <1>2, <1>3, <2>1, <2>3, <2>5 DEF LocationTaken, BeginsAt, WrittenBy
  <2>6. ASSUME phase' = "emitting", phase = "emitting", UNCHANGED <<count, location, binary>>
        PROVE  LocationTaken'
    BY <1>1, <2>4, <2>6 DEF LocationTaken, BeginsAt
  <2>7. ASSUME phase' = "reducing" PROVE LocationTaken'
    <3>1. pending' # <<>> => BeginsAt(count, location)'
      BY <1>1, <2>1, <2>2, <2>4, <2>7 DEF LocationTaken, BeginsAt, WrittenBy
    <3> QED BY <2>7, <3>1 DEF LocationTaken
  <2>8. phase' \notin {"emitting", "reducing"} => LocationTaken'
    BY DEF LocationTaken
  <2> QED BY <2>5, <2>6, <2>7, <2>8
<1>7. LabelsBegin'
  BY <1>2 DEF Naming, LabelsBegin
<1> QED BY <1>4, <1>5, <1>6, <1>7 DEF Naming

-----------------------------------------------------------------------------
(***************************************************************************)
(* Statements are read.                                                    *)
(***************************************************************************)

LEMMA AssertedQuiet ==
  ASSUME NEW directive, AssertData(directive)
  PROVE  directive \/ Stop("aborted")
BY DEF AssertData

\* What reading does: it begins a statement, has its effect at once, only notes
\* an identifier, or ends.
Reads ==
  /\ UNCHANGED <<listing, owner, labelLocations>>
  /\ count' \in {count, count + 1}
  /\ \/ phase' = "emitting" /\ count' = count + 1 /\ location' = binary'.cursor
     \/ phase' = "reducing" /\ count' = count + 1
     \/ phase' = "statement" /\ count' = count + 1
     \/ phase' = "reducing" /\ phase = "statement" /\ UNCHANGED <<count, pending>>
     \/ phase' \in {"failed", "aborted"}

LEMMA ParseReads ==
  ASSUME Parse
  PROVE  Reads
<1>1. ASSUME NEW b, Effect(b), ReadStatement PROVE Reads
  BY <1>1 DEF Effect, ReadStatement, Reads
<1>2. ASSUME NEW b, NEW units, Begin(b, units), ReadStatement PROVE Reads
  BY <1>2 DEF Begin, ReadStatement, Reads
<1>3. ASSUME NEW how \in {"failed", "aborted"}, Stop(how), count' \in {count, count + 1}
      PROVE  Reads
  BY <1>3 DEF Stop, Reads
<1>4. CASE TextDirective \/ DataDirective \/ \E units \in Instructions : Instruction(units)
  BY <1>1, <1>2, <1>4 DEF TextDirective, DataDirective, Instruction
<1>5. ASSUME NEW units, WordDirective(units) PROVE Reads
  BY <1>2, <1>3, <1>5, AssertedQuiet DEF WordDirective, ReadStatement
<1>6. ASSUME NEW units, ByteDirective(units) PROVE Reads
  BY <1>2, <1>3, <1>6, AssertedQuiet DEF ByteDirective, ReadStatement
<1>7. ASSUME NEW n, AlignDirective(n) PROVE Reads
  BY <1>1, <1>3, <1>7, AssertedQuiet DEF AlignDirective, ReadStatement
<1>8. ASSUME NEW n, SpaceDirective(n) PROVE Reads
  BY <1>1, <1>3, <1>8, AssertedQuiet DEF SpaceDirective, ReadStatement
<1>9. ASSUME NEW name, DefineMacro(name) \/ LabelPrefix(name) PROVE Reads
  <2>1. CASE Stop("failed")
    BY <1>3, <1>9, <2>1 DEF DefineMacro, LabelPrefix, ReadStatement
  <2>2. CASE ~Stop("failed")
    BY <1>9, <2>2 DEF DefineMacro, LabelPrefix, ReadStatement, history, Reads
  <2> QED BY <2>1, <2>2
<1>10. CASE EndOfFile
  BY <1>10 DEF EndOfFile, history, Reads
<1>11. CASE SyntaxError \/ ErrorDirective
  BY <1>3, <1>11 DEF SyntaxError, ErrorDirective, ReadStatement
<1> QED BY <1>4, <1>5, <1>6, <1>7, <1>8, <1>9, <1>10, <1>11 DEF Parse

LEMMA ParseNaming ==
  ASSUME TypeOK, TypeOK', Naming, Parse
  PROVE  Naming'
BY ParseReads, QuietNaming DEF Reads

-----------------------------------------------------------------------------
(***************************************************************************)
(* A unit is written, a label is defined.                                  *)
(***************************************************************************)

\* A unit is put at the cursor, at the end of its segment, where nothing is listed.
LEMMA EmitPuts ==
  ASSUME TypeOK, Linking, EmitUnit
  PROVE  LET unit == Head(todo)
             position == binary.cursor
         IN  /\ unit \in Unit /\ position \in Nat /\ Size(unit) \in 1 .. 2 * INSTRUCTION_SIZE
             /\ GetSegmentType(binary) = "TEXT" => ~IsByte(unit)
             /\ binary'.cursor = position + Size(unit)
             /\ GetSegmentType(binary') = GetSegmentType(binary)
             /\ AtEnd(binary')
             /\ position .. (position + Size(unit) - 1) \cap DOMAIN listing = {}
<1> DEFINE unit == Head(todo)
           position == binary.cursor
           here == position .. (position + Size(unit) - 1)
           field == FieldOrJunk(unit, position, labelLocations)
           c == WriteUnit(binary, unit, field)
<1>1. /\ phase = "emitting" /\ phase' = "emitting" /\ todo \in Seq(Unit) /\ todo # <<>>
      /\ binary' = c
  BY Typed DEF EmitUnit
<1>2. /\ unit \in Unit /\ position \in Nat /\ Sound(binary) /\ AtEnd(binary)
      /\ Len(todo) \in Nat \ {0}
      /\ Size(unit) \in 1 .. 2 * INSTRUCTION_SIZE
      /\ DATA_SEGMENT_OFFSET \in Nat
  BY <1>1, Typed, SoundBinary, UnitSize DEF Parsing
<1>3. field \in FieldOf(unit)
  BY <1>2, Typed, FieldOrJunkTyped DEF FieldOrJunk
<1>4. GetSegmentType(binary) = "TEXT" =>
        ~IsByte(unit) /\ position + Size(unit) < DATA_SEGMENT_OFFSET
  <2>1. todo[1] = unit /\ 1 \in 1 .. Len(todo)
    BY <1>1, <1>2
  <2>2. GetSegmentType(binary) = "TEXT" =>
          /\ position + 2 * INSTRUCTION_SIZE * Len(todo) < DATA_SEGMENT_OFFSET
          /\ \A i \in 1 .. Len(todo) : ~IsByte(todo[i])
    BY <1>1 DEF Linking, TodoFits
  <2> HIDE DEF unit, position
  <2>3. position + 2 * INSTRUCTION_SIZE * Len(todo) < DATA_SEGMENT_OFFSET
          => position + Size(unit) < DATA_SEGMENT_OFFSET
    BY <1>2 DEF INSTRUCTION_SIZE
  <2> QED BY <2>1, <2>2, <2>3
<1>5. UnitPuts(binary, unit, field, c) /\ GetSegmentType(c) = GetSegmentType(binary) /\ AtEnd(c)
  BY <1>2, <1>3, <1>4, WriteUnitPuts
<1>6. here \cap DOMAIN listing = {}
  <2>1. here \cap Written(binary) = {}
    BY <1>2, <1>4, EndIsFresh
  <2> QED BY <2>1 DEF Linking, ListingPlaced
<1> QED BY <1>1, <1>2, <1>4, <1>5, <1>6 DEF UnitPuts

LEMMA EmitNaming ==
  ASSUME TypeOK, Linking, Naming, EmitUnit
  PROVE  Naming'
<1> DEFINE unit == Head(todo)
           position == binary.cursor
           here == position .. (position + Size(unit) - 1)
<1>1. /\ phase = "emitting" /\ phase' = "emitting" /\ todo \in Seq(Unit) /\ todo # <<>>
      /\ UNCHANGED <<count, location, pending, owner, labelLocations>>
      /\ listing' = [a \in DOMAIN listing \cup here |->
                       IF a \in here
                       THEN [unit |-> unit, position |-> position,
                             index |-> a - position + 1, statement |-> count]
                       ELSE listing[a]]
  BY Typed DEF EmitUnit, List
<1>2. /\ unit \in Unit /\ position \in Nat
      /\ Size(unit) \in 1 .. 2 * INSTRUCTION_SIZE
      /\ DATA_SEGMENT_OFFSET \in Nat
  BY EmitPuts, ConstantsTyped
<1>6. here \cap DOMAIN listing = {}
  BY EmitPuts
<1>7. binary'.cursor = position + Size(unit)
  BY EmitPuts
<1>8. count \in Nat /\ location \in Nat
      /\ \A a \in DOMAIN listing : a \in Nat /\ listing[a].statement \in Nat
  BY Typed DEF TypeOK, ListingEntry
<1>9. WrittenBy(count)' = WrittenBy(count) \cup here
      /\ \A k : k # count => WrittenBy(k)' = WrittenBy(k)
  BY <1>1, <1>6 DEF WrittenBy
<1>10. position \in here /\ \A a \in here : position <= a
  BY <1>2
<1> HIDE DEF unit, position, here
<1>11. /\ BeginsAt(count, location)
       /\ location <= position
       /\ WrittenBy(count) = {} => location = position
  BY <1>1 DEF Naming, LocationTaken, position
<1>12. LocationTaken'
  <2>1. location \in WrittenBy(count) \cup here
    BY <1>10, <1>11 DEF BeginsAt
  <2>2. \A a \in WrittenBy(count) \cup here : location <= a
    <3>1. ASSUME NEW a \in WrittenBy(count) PROVE location <= a
      BY <1>11 DEF BeginsAt
    <3>2. ASSUME NEW a \in here PROVE location <= a
      <4>1. a \in Nat /\ position \in Nat
        BY <1>2 DEF here
      <4>2. location <= position /\ position <= a
        BY <1>10, <1>11
      <4> QED BY <1>8, <4>1, <4>2
    <3> QED BY <3>1, <3>2
  <2>3. location <= position + Size(unit) /\ here # {}
    BY <1>2, <1>8, <1>10, <1>11
  <2> QED BY <1>1, <1>7, <1>9, <2>1, <2>2, <2>3 DEF LocationTaken, BeginsAt
<1>13. StatementsCounted'
  <2>1. \A a \in DOMAIN listing' : listing'[a].statement <= count
    BY <1>1, <1>8 DEF Naming, StatementsCounted
  <2> QED BY <1>1, <2>1 DEF Naming, StatementsCounted
<1>14. LabelsBegin'
  <2> SUFFICES ASSUME NEW l \in DOMAIN owner PROVE BeginsAt(owner[l], labelLocations[l])'
    BY <1>1 DEF LabelsBegin
  <2>1. owner[l] # count
    BY <1>1, <1>8 DEF Naming, StatementsCounted
  <2>2. BeginsAt(owner[l], labelLocations[l])
    BY DEF Naming, LabelsBegin
  <2> QED BY <1>1, <1>9, <2>1, <2>2 DEF BeginsAt
<1>15. PendingUnwritten'
  BY <1>1 DEF PendingUnwritten
<1> QED BY <1>12, <1>13, <1>14, <1>15 DEF Naming

LEMMA DefineLabelNaming ==
  ASSUME TypeOK, TypeOK', Naming, DefineLabel
  PROVE  Naming'
<1> DEFINE name == pending[Len(pending)]
<1>1. phase = "reducing" /\ pending # <<>> /\ UNCHANGED <<count, listing>>
  BY DEF DefineLabel, Stop
<1>2. CASE name \in DOMAIN labelLocations \cup macros
  BY <1>2, QuietNaming DEF DefineLabel, Stop
<1>3. CASE ~(name \in DOMAIN labelLocations \cup macros)
  <2>1. /\ labelLocations' = [l \in DOMAIN labelLocations \cup {name} |->
                                IF l = name THEN location ELSE labelLocations[l]]
        /\ owner' = [l \in DOMAIN owner \cup {name} |->
                       IF l = name THEN count ELSE owner[l]]
        /\ UNCHANGED <<phase, count, location, binary, listing>>
    BY <1>3 DEF DefineLabel
  <2>2. /\ count \in Nat /\ DOMAIN owner = DOMAIN labelLocations
        /\ \A l \in DOMAIN owner : owner[l] \in Nat /\ owner[l] <= count
        /\ \A a \in DOMAIN listing : listing[a].statement <= count
    BY DEF TypeOK, Naming, StatementsCounted
  <2> HIDE DEF name
  <2>3. StatementsCounted'
    BY <1>1, <2>1, <2>2 DEF StatementsCounted
  <2>4. BeginsAt(count, location)
    BY <1>1 DEF Naming, LocationTaken
  <2>5. LocationTaken' /\ PendingUnwritten'
    BY <1>1, <2>1, <2>4 DEF LocationTaken, PendingUnwritten, BeginsAt, WrittenBy
  <2>6. LabelsBegin'
    <3> SUFFICES ASSUME NEW l \in DOMAIN owner'
                 PROVE  BeginsAt(owner[l], labelLocations[l])'
      BY DEF LabelsBegin
    <3>1. CASE l = name
      BY <2>1, <2>2, <2>4, <3>1 DEF BeginsAt, WrittenBy
    <3>2. CASE l # name
      <4>1. l \in DOMAIN owner /\ BeginsAt(owner[l], labelLocations[l])
        BY <2>1, <3>2 DEF Naming, LabelsBegin
      <4> QED BY <2>1, <2>2, <3>2, <4>1 DEF BeginsAt, WrittenBy
    <3> QED BY <3>1, <3>2
  <2> QED BY <2>3, <2>5, <2>6 DEF Naming
<1> QED BY <1>2, <1>3

-----------------------------------------------------------------------------
(***************************************************************************)
(* The theorem.                                                            *)
(***************************************************************************)

LEMMA NextNaming ==
  ASSUME TypeOK, TypeOK', Linking, Naming, [Next]_vars
  PROVE  Naming'
<1>1. CASE StatementEnd \/ NextStatement
  BY <1>1, QuietNaming DEF StatementEnd, NextStatement, history
<1>2. CASE PatchAddress \/ WriteProgram
  BY <1>2, QuietNaming DEF PatchAddress, WriteProgram, history, Stop
<1>3. CASE Done \/ UNCHANGED vars
  BY <1>3, QuietNaming DEF Done, vars
<1> QED BY <1>1, <1>2, <1>3, ParseNaming, EmitNaming, DefineLabelNaming DEF Next

LEMMA InitNaming == Init => Naming
BY DEF Init, Naming, StatementsCounted, PendingUnwritten, LocationTaken, LabelsBegin,
       BeginsAt, WrittenBy, EmptyFunction

\* A label is the address of the first byte its statement writes, on every
\* source whose data directives stay in the data segment: .word takes $$ after
\* it has aligned, a pseudoinstruction before its first word, and a label is
\* given $$ of its own statement, however many labels wait for it and whatever
\* the labels before them were given.
THEOREM LabelsAreAddresses == Spec => []LabelsNameStatements
<1>1. Init => (~misplaced => Naming)
  BY InitNaming
<1>2. Inv /\ Inv' /\ (~misplaced => Naming) /\ [Next]_vars => (~misplaced => Naming)'
  BY NextNaming, MisplacedStays DEF Inv
<1>3. (~misplaced => Naming) => LabelsNameStatements
  BY DEF Naming, LabelsBegin, BeginsAt, WrittenBy, StatementsCounted, LabelsNameStatements
<1> QED BY <1>1, <1>2, <1>3, Invariance, PTL DEF Spec

-----------------------------------------------------------------------------
(***************************************************************************)
(* Alignment.  .word aligns the cursor once, before its first argument;    *)
(* the others follow at multiples of a word because a .word has nothing    *)
(* else in it, and the virtual machine finds them there because the text   *)
(* before the data is whole words.                                         *)
(***************************************************************************)

IsWord(unit) == unit.type = "DirectAddressAbsoluteWord"

TextWhole == Len(binary.text.buf) % INSTRUCTION_SIZE = 0

ListedAligned ==
  \A a \in OperandsOf({"DirectAddressAbsoluteWord"}) : a % INSTRUCTION_SIZE = 0

TodoAligned ==
  phase = "emitting" /\ (\E i \in 1 .. Len(todo) : IsWord(todo[i])) =>
    /\ binary.cursor % INSTRUCTION_SIZE = 0
    /\ \A i \in 1 .. Len(todo) : Size(todo[i]) = INSTRUCTION_SIZE

Aligning == TextWhole /\ ListedAligned /\ TodoAligned

LEMMA QuietAligning ==
  ASSUME Aligning, UNCHANGED listing, Len(binary'.text.buf) = Len(binary.text.buf),
         phase' = "emitting" => TodoAligned'
  PROVE  Aligning'
BY DEF Aligning, TextWhole, ListedAligned, OperandsOf, TodoAligned

\* Nothing is added to the text of a builder in the data segment.
LEMMA WriteUnitInData ==
  ASSUME NEW b \in Builder, GetSegmentType(b) = "DATA", NEW unit, NEW field
  PROVE  WriteUnit(b, unit, field).text = b.text
<1>1. b.cursor \in Nat /\ DATA_SEGMENT_OFFSET \in Nat /\ ~(b.cursor < DATA_SEGMENT_OFFSET)
  BY ConstantsTyped DEF Builder, GetSegmentType
<1>2. ASSUME NEW bytes
      PROVE  /\ WriteWord(b, bytes).text = b.text
             /\ ~(WriteWord(b, bytes).cursor < DATA_SEGMENT_OFFSET)
  BY <1>1 DEF WriteWord, GetSegmentType, INSTRUCTION_SIZE
<1>3. ASSUME NEW bytes, NEW more
      PROVE  WriteWord(WriteWord(b, bytes), more).text = b.text
  BY <1>2 DEF WriteWord, GetSegmentType
<1> QED BY <1>2, <1>3 DEF WriteUnit, WriteData

\* The text of a builder is as long as the addresses below the data say.
LEMMA SameText ==
  ASSUME NEW b, NEW c, Sound(b), Sound(c), Written(b) = Written(c)
  PROVE  Len(b.text.buf) = Len(c.text.buf)
<1> DEFINE B == Len(b.text.buf)
           C == Len(c.text.buf)
<1>1. /\ B \in Nat /\ C \in Nat /\ DATA_SEGMENT_OFFSET \in Nat
      /\ Len(b.data.buf) \in Nat /\ Len(c.data.buf) \in Nat
      /\ B < DATA_SEGMENT_OFFSET /\ C < DATA_SEGMENT_OFFSET
  BY ConstantsTyped DEF Sound, Builder, Stream
<1>2. \A a \in 0 .. (DATA_SEGMENT_OFFSET - 1) :
        /\ a \in Written(b) <=> a < B
        /\ a \in Written(c) <=> a < C
  BY <1>1 DEF Written
<1> HIDE DEF B, C
<1>3. B \in 0 .. (DATA_SEGMENT_OFFSET - 1) /\ C \in 0 .. (DATA_SEGMENT_OFFSET - 1)
  BY <1>1
<1>4. B = C
  BY <1>1, <1>2, <1>3
<1> QED BY <1>4 DEF B, C

LEMMA AssertedInData ==
  ASSUME NEW directive, AssertData(directive), ~misplaced'
  PROVE  \/ directive /\ GetSegmentType(binary) = "DATA"
         \/ Stop("aborted")
BY DEF AssertData

LEMMA StopAligning ==
  ASSUME Aligning, NEW how \in {"failed", "aborted"}, Stop(how)
  PROVE  Aligning'
BY QuietAligning DEF Stop

LEMMA ParseAligning ==
  ASSUME TypeOK, Linking, Aligning, Parse, ~misplaced'
  PROVE  Aligning'
<1>1. Sound(binary) /\ binary \in Builder /\ Len(binary.text.buf) < DATA_SEGMENT_OFFSET
  BY SoundBinary, Typed
<1>2. ASSUME NEW b, b.text.buf = binary.text.buf, Effect(b)
      PROVE  Aligning'
  BY <1>2, QuietAligning DEF Effect
<1>3. ASSUME NEW b, b.text.buf = binary.text.buf, NEW units, Begin(b, units),
             \A i \in 1 .. Len(units) : ~IsWord(units[i])
      PROVE  Aligning'
  <2>1. TodoAligned'
    BY <1>3 DEF Begin, TodoAligned
  <2> QED BY <1>3, <2>1, QuietAligning DEF Begin
<1>4. CASE TextDirective \/ DataDirective
  <2>1. PICK segment \in {"TEXT", "DATA"} : Effect(SetSegmentType(binary, segment))
    BY <1>4 DEF TextDirective, DataDirective
  <2> QED BY <1>1, <1>2, <2>1, SetSegmentTypeMoves
<1>5. ASSUME NEW units \in Instructions, Instruction(units) PROVE Aligning'
  <2>1. \A i \in 1 .. Len(units) : ~IsWord(units[i])
    BY StatementAssumption DEF IsWord
  <2> QED BY <1>3, <1>5, <2>1 DEF Instruction
<1>6. ASSUME NEW units \in WordLists, WordDirective(units) PROVE Aligning'
  <2> DEFINE b == Align(binary, INSTRUCTION_SIZE)
  <2>1. CASE Stop("aborted")
    BY <2>1, StopAligning
  <2>2. CASE Begin(b, units) /\ GetSegmentType(binary) = "DATA"
    <3>1. INSTRUCTION_SIZE \in Nat \ {0}
      BY DEF INSTRUCTION_SIZE
    <3>2. b.text.buf = binary.text.buf
      BY <1>1, <2>2, <3>1, AlignMoves
    <3>3. b.cursor % INSTRUCTION_SIZE = 0
      BY <1>1, <2>2, <3>1, AlignAligns
    <3>4. \A i \in 1 .. Len(units) : Size(units[i]) = INSTRUCTION_SIZE
      BY StatementAssumption DEF Size, IsByte, IsLoad
    <3> HIDE DEF b
    <3>5. TodoAligned'
      BY <2>2, <3>3, <3>4 DEF Begin, TodoAligned
    <3> QED BY <2>2, <3>2, <3>5, QuietAligning DEF Begin
  <2> QED BY <1>6, <2>1, <2>2, AssertedInData DEF WordDirective
<1>7. ASSUME NEW units \in ByteLists, ByteDirective(units) PROVE Aligning'
  <2>1. \A i \in 1 .. Len(units) : ~IsWord(units[i])
    BY StatementAssumption DEF IsWord
  <2>2. Begin(binary, units) \/ Stop("aborted")
    BY <1>7, AssertedInData DEF ByteDirective
  <2> QED BY <1>3, <2>1, <2>2, StopAligning
<1>8. ASSUME NEW n \in Alignments, AlignDirective(n) PROVE Aligning'
  <2>1. \/ Effect(Align(binary, n)) /\ GetSegmentType(binary) = "DATA"
        \/ Stop("aborted")
    BY <1>8, AssertedInData DEF AlignDirective
  <2>2. n \in Nat \ {0}
    BY StatementAssumption
  <2>3. GetSegmentType(binary) = "DATA" => Align(binary, n).text.buf = binary.text.buf
    BY <1>1, <2>2, AlignMoves
  <2> QED BY <1>2, <2>1, <2>3, StopAligning
<1>9. ASSUME NEW n \in Sizes, SpaceDirective(n) PROVE Aligning'
  <2>1. \/ Effect(Pad(binary, n)) /\ GetSegmentType(binary) = "DATA"
        \/ Stop("aborted")
    BY <1>9, AssertedInData DEF SpaceDirective
  <2>2. n \in Nat
    BY StatementAssumption
  <2>3. GetSegmentType(binary) = "DATA" => Pad(binary, n).text.buf = binary.text.buf
    BY <1>1, <2>2, PadMoves
  <2> QED BY <1>2, <2>1, <2>3, StopAligning
<1>10. ASSUME NEW name \in Labels, DefineMacro(name) \/ LabelPrefix(name) PROVE Aligning'
  <2>1. CASE Stop("failed")
    BY <2>1, StopAligning
  <2>2. CASE ~Stop("failed")
    <3>1. UNCHANGED <<phase, binary, listing>> /\ phase = "statement"
      BY <1>10, <2>2 DEF DefineMacro, LabelPrefix, ReadStatement, history
    <3> QED BY <3>1, QuietAligning
  <2> QED BY <2>1, <2>2
<1>11. CASE EndOfFile
  BY <1>11, QuietAligning DEF EndOfFile, history
<1>12. CASE SyntaxError \/ ErrorDirective
  BY <1>12, StopAligning DEF SyntaxError, ErrorDirective
<1> QED BY <1>4, <1>5, <1>6, <1>7, <1>8, <1>9, <1>10, <1>11, <1>12 DEF Parse

LEMMA EmitAligning ==
  ASSUME TypeOK, Linking, Aligning, EmitUnit
  PROVE  Aligning'
<1> DEFINE unit == Head(todo)
           position == binary.cursor
           here == position .. (position + Size(unit) - 1)
           c == binary'
<1>1. /\ phase = "emitting" /\ phase' = "emitting"
      /\ todo \in Seq(Unit) /\ todo # <<>> /\ todo' = Tail(todo)
      /\ \E field : binary' = WriteUnit(binary, unit, field)
      /\ listing' = [a \in DOMAIN listing \cup here |->
                       IF a \in here
                       THEN [unit |-> unit, position |-> position,
                             index |-> a - position + 1, statement |-> count]
                       ELSE listing[a]]
  BY Typed DEF EmitUnit, List
<1>2. /\ unit \in Unit /\ position \in Nat /\ Sound(binary) /\ AtEnd(binary)
      /\ binary \in Builder /\ GetSegmentType(binary) \in {"TEXT", "DATA"}
      /\ Len(todo) \in Nat \ {0} /\ unit = todo[1]
      /\ \A i \in 1 .. Len(Tail(todo)) : i + 1 \in 1 .. Len(todo) /\ Tail(todo)[i] = todo[i + 1]
  BY <1>1, SoundBinary, Typed DEF Parsing
<1>3. /\ c.cursor = position + Size(unit)
      /\ GetSegmentType(c) = GetSegmentType(binary) /\ AtEnd(c)
      /\ GetSegmentType(binary) = "TEXT" => ~IsByte(unit)
  BY EmitPuts
<1> HIDE DEF unit, here, c, position
<1>4. TextWhole'
  <2>1. CASE GetSegmentType(binary) = "DATA"
    <3>1. c.text = binary.text
      BY <1>1, <1>2, <2>1, WriteUnitInData DEF c
    <3> QED BY <3>1 DEF c, Aligning, TextWhole
  <2>2. CASE GetSegmentType(binary) = "TEXT"
    <3>1. Len(binary.text.buf) = position /\ Len(c.text.buf) = position + Size(unit)
      BY <1>2, <1>3, <2>2 DEF AtEnd, position
    <3>2. Size(unit) \in {INSTRUCTION_SIZE, 2 * INSTRUCTION_SIZE}
      BY <1>3, <2>2 DEF Size
    <3>3. position % INSTRUCTION_SIZE = 0
      BY <3>1 DEF Aligning, TextWhole
    <3>4. (position + Size(unit)) % INSTRUCTION_SIZE = 0
      BY <1>2, <3>2, <3>3 DEF INSTRUCTION_SIZE
    <3> QED BY <3>1, <3>4 DEF TextWhole, c
  <2> QED BY <1>2, <2>1, <2>2
<1>5. IsWord(unit) => position % INSTRUCTION_SIZE = 0
  BY <1>1, <1>2 DEF Aligning, TodoAligned, position
<1>6. ListedAligned'
  <2> SUFFICES ASSUME NEW a \in DOMAIN listing', listing'[a].index = 1, IsWord(listing'[a].unit)
               PROVE  a % INSTRUCTION_SIZE = 0
    BY DEF ListedAligned, OperandsOf, IsWord
  <2>1. CASE a \in here
    <3>1. a \in Int /\ listing'[a].unit = unit /\ listing'[a].index = a - position + 1
      BY <1>1, <1>2, <2>1 DEF here
    <3>2. a = position
      BY <1>2, <3>1
    <3> QED BY <1>5, <3>1, <3>2
  <2>2. CASE a \notin here
    <3>1. a \in DOMAIN listing /\ listing'[a] = listing[a]
      BY <1>1, <2>2
    <3> QED BY <3>1 DEF Aligning, ListedAligned, OperandsOf, IsWord
  <2> QED BY <2>1, <2>2
<1>7. TodoAligned'
  <2> SUFFICES ASSUME NEW i \in 1 .. Len(todo'), IsWord(todo'[i])
               PROVE  /\ c.cursor % INSTRUCTION_SIZE = 0
                      /\ \A k \in 1 .. Len(todo') : Size(todo'[k]) = INSTRUCTION_SIZE
    BY DEF TodoAligned, c
  <2>1. i + 1 \in 1 .. Len(todo) /\ IsWord(todo[i + 1])
    BY <1>1, <1>2
  <2>2. /\ position % INSTRUCTION_SIZE = 0
        /\ \A k \in 1 .. Len(todo) : Size(todo[k]) = INSTRUCTION_SIZE
    BY <1>1, <2>1 DEF Aligning, TodoAligned, position
  <2>3. Size(unit) = INSTRUCTION_SIZE
    BY <1>2, <2>2
  <2>4. (position + INSTRUCTION_SIZE) % INSTRUCTION_SIZE = 0
    BY <1>2, <2>2 DEF INSTRUCTION_SIZE
  <2> QED BY <1>1, <1>2, <1>3, <2>2, <2>3, <2>4
<1> QED BY <1>4, <1>6, <1>7 DEF Aligning

LEMMA PatchAligning ==
  ASSUME TypeOK, Linking, Aligning, PatchAddress
  PROVE  Aligning'
<1> DEFINE k == patched + 1
           entry == unresolvedAddressLocations[k]
           b == SetLocation(binary, entry.position)
<1>1. k \in 1 .. Len(unresolvedAddressLocations) /\ UNCHANGED listing /\ phase' # "emitting"
  BY Typed DEF PatchAddress, history
<1>2. Sound(binary)
  BY SoundBinary
<1>3. CASE Resolvable(entry.unit, labelLocations)
  <2>1. Sound(binary') /\ Written(binary') = Written(binary)
    BY <1>1, <1>3, PatchPuts DEF PatchAddress
  <2> QED BY <1>1, <1>2, <2>1, SameText, QuietAligning
<1>4. CASE ~Resolvable(entry.unit, labelLocations)
  <2>1. Sound(b) /\ Written(b) = Written(binary) /\ binary' = b
    BY <1>1, <1>4, EntryWritten DEF PatchAddress
  <2> QED BY <1>1, <1>2, <2>1, SameText, QuietAligning
<1> QED BY <1>3, <1>4

LEMMA WriteProgramAligning ==
  ASSUME TypeOK, Linking, Aligning, WriteProgram
  PROVE  Aligning'
<1> DEFINE b == SetLocationEnd(binary)
<1>1. /\ Sound(b) /\ GetSegmentType(b) = "DATA" /\ b.text.buf = binary.text.buf
  BY Typed, SoundBinary, SetLocationEndMoves
<1>2. INSTRUCTION_SIZE \in Nat \ {0}
  BY DEF INSTRUCTION_SIZE
<1>3. Align(b, INSTRUCTION_SIZE).text.buf = b.text.buf
  BY <1>1, <1>2, AlignMoves
<1> QED BY <1>1, <1>3, QuietAligning DEF WriteProgram, history

LEMMA NextAligning ==
  ASSUME TypeOK, Linking, Aligning, [Next]_vars, ~misplaced'
  PROVE  Aligning'
<1>1. CASE StatementEnd \/ DefineLabel \/ NextStatement
  BY <1>1, QuietAligning DEF StatementEnd, DefineLabel, NextStatement, Stop, history
<1>2. CASE Done \/ UNCHANGED vars
  <2>1. UNCHANGED <<phase, todo, binary, listing>>
    BY <1>2 DEF Done, vars
  <2> QED BY <2>1, QuietAligning DEF Aligning, TodoAligned
<1> QED BY <1>1, <1>2, ParseAligning, EmitAligning, PatchAligning, WriteProgramAligning DEF Next

LEMMA InitAligning == Init => Aligning
<1> SUFFICES ASSUME Init PROVE Aligning
  OBVIOUS
<1>1. TextWhole
  BY DEF Init, Open, EmptyStream, TextWhole, INSTRUCTION_SIZE
<1>2. ListedAligned /\ TodoAligned
  BY DEF Init, EmptyFunction, ListedAligned, OperandsOf, TodoAligned
<1> QED BY <1>1, <1>2 DEF Aligning

LEMMA AlignedAtEnd ==
  ASSUME TypeOK, Linking, Aligning, phase = "assembled",
         NEW a \in OperandsOf({"DirectAddressAbsoluteWord"})
  PROVE  IndexOf(file, a) % INSTRUCTION_SIZE = 0
<1> DEFINE T == Len(file.text)
<1>1. T = Len(binary.text.buf)
  BY DEF Linking, FileWritten
<1>2. T \in Nat /\ T % INSTRUCTION_SIZE = 0 /\ a \in Nat /\ a % INSTRUCTION_SIZE = 0
  BY <1>1, Typed DEF Aligning, TextWhole, ListedAligned, OperandsOf
<1>3. DATA_SEGMENT_OFFSET \in Nat /\ DATA_SEGMENT_OFFSET % INSTRUCTION_SIZE = 0
  BY OffsetAssumption
<1> HIDE DEF T
<1>4. (a - DATA_SEGMENT_OFFSET + T) % INSTRUCTION_SIZE = 0
  BY <1>2, <1>3 DEF INSTRUCTION_SIZE
<1> QED BY <1>2, <1>4 DEF IndexOf, T

\* The arguments of .word are aligned in the vector the virtual machine reads
\* them from, on every source whose data directives stay in the data segment:
\* whatever bytes, gaps and instructions come before, in this segment or in the
\* other.
THEOREM WordsAreAligned == Spec => []WordsAligned
<1>1. Init => (~misplaced => Aligning)
  BY InitAligning
<1>2. Inv /\ (~misplaced => Aligning) /\ [Next]_vars => (~misplaced => Aligning)'
  BY NextAligning, MisplacedStays DEF Inv
<1>3. Inv /\ (~misplaced => Aligning) => WordsAligned
  BY AlignedAtEnd DEF Inv, WordsAligned
<1> QED BY <1>1, <1>2, <1>3, Invariance, PTL DEF Spec

-----------------------------------------------------------------------------
(***************************************************************************)
(* What the virtual machine decodes.                                       *)
(***************************************************************************)

\* A unit that is listed is listed with all its bytes.
ListedWhole ==
  \A a \in DOMAIN listing : \A b \in Span(listing[a].unit, listing[a].position) :
    /\ b \in DOMAIN listing
    /\ listing[b].unit = listing[a].unit
    /\ listing[b].position = listing[a].position

LEMMA OnlyEmitLists ==
  ASSUME [Next]_vars
  PROVE  EmitUnit \/ UNCHANGED listing
<1>1. CASE Parse
  BY <1>1, ParseReads DEF Reads
<1>2. CASE StatementEnd \/ DefineLabel \/ NextStatement \/ PatchAddress \/ WriteProgram
  BY <1>2 DEF StatementEnd, DefineLabel, NextStatement, PatchAddress, WriteProgram, Stop, history
<1>3. CASE Done \/ UNCHANGED vars
  BY <1>3 DEF Done, vars
<1> QED BY <1>1, <1>2, <1>3 DEF Next

LEMMA EmitListsWhole ==
  ASSUME TypeOK, Linking, ListedWhole, EmitUnit
  PROVE  ListedWhole'
<1> DEFINE unit == Head(todo)
           position == binary.cursor
           here == position .. (position + Size(unit) - 1)
<1>1. listing' = [a \in DOMAIN listing \cup here |->
                    IF a \in here
                    THEN [unit |-> unit, position |-> position,
                          index |-> a - position + 1, statement |-> count]
                    ELSE listing[a]]
  BY DEF EmitUnit, List
<1>2. here \cap DOMAIN listing = {}
  BY EmitPuts
<1>3. here = Span(unit, position)
  BY DEF Span
<1> HIDE DEF unit, position, here
<1>4. \A a \in here : listing'[a].unit = unit /\ listing'[a].position = position
  BY <1>1
<1>5. \A a \in DOMAIN listing : listing'[a] = listing[a]
  BY <1>1, <1>2
<1>6. DOMAIN listing' = DOMAIN listing \cup here
  BY <1>1
<1>7. ASSUME NEW a \in here, NEW b \in Span(listing'[a].unit, listing'[a].position)
      PROVE  /\ b \in DOMAIN listing' /\ listing'[b].unit = listing'[a].unit
             /\ listing'[b].position = listing'[a].position
  BY <1>3, <1>4, <1>6, <1>7
<1>8. ASSUME NEW a \in DOMAIN listing,
             NEW b \in Span(listing'[a].unit, listing'[a].position)
      PROVE  /\ b \in DOMAIN listing' /\ listing'[b].unit = listing'[a].unit
             /\ listing'[b].position = listing'[a].position
  BY <1>5, <1>6, <1>8 DEF ListedWhole
<1> QED BY <1>6, <1>7, <1>8 DEF ListedWhole

\* A remainder of a number that is less than the divisor away from zero.
LEMMA SmallRemainder ==
  ASSUME NEW r \in Nat \ {0}, NEW d \in Int
  PROVE  /\ 0 <= d /\ d < r => d % r = d
         /\ -r <= d /\ d < 0 => d % r = d + r
OBVIOUS

\* The signed bit field gives back every distance it has room for.
LEMMA SignExtendInverts ==
  ASSUME NEW d \in Int, FitsOffset(d)
  PROVE  SignExtend(d % DIRECT_OFFSET_RANGE) = d
<1> DEFINE r == DIRECT_OFFSET_RANGE
           h == r \div 2
<1>1. r \in Nat \ {0} /\ h \in Nat /\ 2 * h <= r
  BY RangeAssumption
<1>2. -d <= h /\ d < h
  BY DEF FitsOffset
<1>3. CASE 0 <= d
  <2> HIDE DEF h
  <2>1. d < r
    BY <1>1, <1>2, <1>3
  <2>2. d % r = d
    BY <1>1, <1>3, <2>1, SmallRemainder
  <2> QED BY <1>1, <1>2, <2>2 DEF SignExtend, h
<1>4. CASE d < 0
  <2> HIDE DEF h
  <2>1. -r <= d
    BY <1>1, <1>2
  <2>2. d % r = d + r
    BY <1>1, <1>4, <2>1, SmallRemainder
  <2>3. d + r >= h /\ d + r - r = d
    BY <1>1, <1>2
  <2> QED BY <1>1, <2>2, <2>3 DEF SignExtend, h
<1> QED BY <1>3, <1>4

LEMMA QuotientAndRemainder ==
  ASSUME NEW r \in Nat \ {0}, NEW n \in Nat
  PROVE  (n \div r) * r + (n % r) = n
OBVIOUS

\* What the file holds at the first byte of an operand.
LEMMA OperandLinked ==
  ASSUME TypeOK, Linking, phase = "assembled", ~misplaced, NEW types, NEW a \in OperandsOf(types)
  PROVE  LET unit == listing[a].unit
             field == AddressField(unit, a, labelLocations)
         IN  /\ a \in Nat /\ unit \in Unit /\ unit.type \in types
             /\ listing[a].position = a
             /\ Resolvable(unit, labelLocations)
             /\ Memory(file)[IndexOf(file, a) + 1] = <<FirstWord(unit, field), 0>>
             /\ FieldInFile(a) = IF IsLoad(unit) THEN High(field) ELSE field
<1> DEFINE unit == listing[a].unit
           field == AddressField(unit, a, labelLocations)
           index == IndexOf(file, a)
<1>1. a \in DOMAIN listing /\ listing[a].index = 1 /\ unit.type \in types
  BY DEF OperandsOf
<1>2. a \in Nat /\ unit \in Unit /\ listing[a].position \in Nat
  BY <1>1, Typed DEF ListingEntry
<1>3. listing[a].position = a
  BY <1>1, <1>2 DEF Linking, ListingPlaced
<1>4. ImageIsLinked
  BY LinkedAtEnd DEF Inv, LinkedImage
<1>5. Resolvable(unit, labelLocations) /\ ByteOf(file, a) = Expected(a)
  BY <1>1, <1>4 DEF ImageIsLinked
<1>6. ByteOf(file, a) = <<FirstWord(unit, field), 0>>
  BY <1>1, <1>3, <1>5 DEF Expected, ByteOfUnit, INSTRUCTION_SIZE
<1>7. Memory(file)[index + 1] = <<FirstWord(unit, field), 0>>
  BY <1>6 DEF ByteOf
<1>8. WordOf(file, a)[1] = Memory(file)[index + 1]
  BY DEF WordOf, INSTRUCTION_SIZE
<1>9. FieldInFile(a) = FirstWord(unit, field).field
  BY <1>7, <1>8 DEF FieldInFile
<1>10. FirstWord(unit, field).field = IF IsLoad(unit) THEN High(field) ELSE field
  BY DEF FirstWord
<1> QED BY <1>1, <1>2, <1>3, <1>5, <1>7, <1>9, <1>10

\* What the file holds at the second word of la.
LEMMA LoadLinked ==
  ASSUME TypeOK, Linking, ListedWhole, phase = "assembled", ~misplaced,
         NEW a \in OperandsOf({"DirectAddressAbsoluteLoad"})
  PROVE  FieldInFile(a + INSTRUCTION_SIZE)
           = Low(AddressField(listing[a].unit, a, labelLocations))
<1> DEFINE unit == listing[a].unit
           b == a + INSTRUCTION_SIZE
           field == AddressField(unit, a, labelLocations)
           index == IndexOf(file, b)
<1>1. /\ a \in DOMAIN listing /\ a \in Nat /\ listing[a].position = a
      /\ unit.type = "DirectAddressAbsoluteLoad"
  BY OperandLinked DEF OperandsOf
<1>2. b \in Span(unit, a)
  BY <1>1 DEF Span, Size, IsLoad, IsByte, INSTRUCTION_SIZE
<1>3. b \in DOMAIN listing /\ listing[b].unit = unit /\ listing[b].position = a
  BY <1>1, <1>2 DEF ListedWhole
<1>4. listing[b].index = INSTRUCTION_SIZE + 1
  BY <1>1, <1>3 DEF Linking, ListingPlaced, INSTRUCTION_SIZE
<1>5. ImageIsLinked
  BY LinkedAtEnd DEF Inv, LinkedImage
<1>6. ByteOf(file, b) = Expected(b)
  BY <1>3, <1>5 DEF ImageIsLinked
<1>7. ByteOf(file, b) = <<SecondWord(unit, field), 0>>
  BY <1>3, <1>4, <1>6 DEF Expected, ByteOfUnit, INSTRUCTION_SIZE
<1>8. WordOf(file, b)[1] = Memory(file)[index + 1] /\ ByteOf(file, b) = Memory(file)[index + 1]
  BY DEF WordOf, ByteOf, INSTRUCTION_SIZE
<1>9. FieldInFile(b) = SecondWord(unit, field).field
  BY <1>7, <1>8 DEF FieldInFile
<1> QED BY <1>9 DEF SecondWord

LEMMA DecodedAtEnd ==
  ASSUME TypeOK, Linking, ListedWhole, phase = "assembled", ~misplaced
  PROVE  OperandsDecode
<1>1. ASSUME NEW a \in OperandsOf({"DirectAddressAbsolute"}),
             Target(a) < DIRECT_ABSOLUTE_RANGE
      PROVE  Decoded(a) = Target(a)
  <2> DEFINE unit == listing[a].unit
  <2>1. /\ unit.type = "DirectAddressAbsolute" /\ Resolvable(unit, labelLocations)
        /\ FieldInFile(a) = AddressField(unit, a, labelLocations)
    BY OperandLinked DEF IsLoad
  <2>2. unit.label \in DOMAIN labelLocations
    BY <2>1 DEF Resolvable, LiteralType
  <2>3. Target(a) \in Nat
    BY <2>2, Typed DEF Target
  <2>4. FieldInFile(a) = Target(a) % DIRECT_ABSOLUTE_RANGE
    BY <2>1 DEF AddressField, Target, LiteralType
  <2>5. Target(a) % DIRECT_ABSOLUTE_RANGE = Target(a)
    BY <1>1, <2>3, RangeAssumption, SmallRemainder
  <2> QED BY <2>1, <2>4, <2>5 DEF Decoded, EffectiveAddress
<1>2. ASSUME NEW a \in OperandsOf({"DirectAddressOffset", "IndirectAddressOffset"}),
             FitsOffset(Meant(a) - a)
      PROVE  Decoded(a) = Meant(a)
  <2> DEFINE unit == listing[a].unit
             distance == Meant(a) - a
  <2>1. /\ unit.type \in {"DirectAddressOffset", "IndirectAddressOffset"}
        /\ a \in Nat /\ unit \in Unit /\ Resolvable(unit, labelLocations)
        /\ FieldInFile(a) = AddressField(unit, a, labelLocations)
    BY OperandLinked DEF IsLoad
  <2>2. /\ unit.offset \in Int
        /\ unit.type = "DirectAddressOffset" => unit.offset = 0
    BY <2>1 DEF Unit
  <2>3. unit.label = NoLabel =>
          unit.type = "IndirectAddressOffset" /\ Meant(a) = unit.offset
    BY <2>1, Typed, LabelAssumption DEF Resolvable, Meant, LiteralType
  <2>4. unit.label # NoLabel =>
          /\ labelLocations[unit.label] \in Nat
          /\ Meant(a) = labelLocations[unit.label] + unit.offset
    BY <2>1, Typed DEF Resolvable, Meant, Target, LiteralType
  <2>5. Meant(a) \in Int
    BY <2>2, <2>3, <2>4
  <2>6. FieldInFile(a) = distance % DIRECT_OFFSET_RANGE
    <3>1. CASE unit.label = NoLabel
      BY <2>1, <2>3, <3>1 DEF AddressField, LiteralType
    <3>2. CASE unit.label # NoLabel /\ unit.type = "IndirectAddressOffset"
      BY <2>1, <2>2, <2>4, <3>2 DEF AddressField, LiteralType
    <3>3. CASE unit.label # NoLabel /\ unit.type = "DirectAddressOffset"
      <4>1. Meant(a) = labelLocations[unit.label]
        BY <2>2, <2>4, <3>3
      <4> QED BY <2>1, <3>3, <4>1 DEF AddressField, LiteralType
    <3> QED BY <2>1, <3>1, <3>2, <3>3
  <2>7. SignExtend(FieldInFile(a)) = distance
    BY <1>2, <2>1, <2>5, <2>6, SignExtendInverts
  <2> QED BY <2>1, <2>5, <2>7 DEF Decoded, EffectiveAddress
<1>3. ASSUME NEW a \in OperandsOf({"DirectAddressAbsoluteLoad"})
      PROVE  FieldInFile(a) * IMMEDIATE_RANGE + FieldInFile(a + INSTRUCTION_SIZE) = Target(a)
  <2> DEFINE unit == listing[a].unit
             field == AddressField(unit, a, labelLocations)
  <2>1. /\ unit.type = "DirectAddressAbsoluteLoad" /\ Resolvable(unit, labelLocations)
        /\ FieldInFile(a) = High(field)
    BY OperandLinked DEF IsLoad
  <2>2. FieldInFile(a + INSTRUCTION_SIZE) = Low(field)
    BY LoadLinked
  <2>3. field = Target(a)
    BY <2>1 DEF AddressField, Target, LiteralType
  <2>4. Target(a) \in Nat
    BY <2>1, Typed DEF Resolvable, Target, LiteralType
  <2>5. High(field) = Target(a) \div IMMEDIATE_RANGE /\ Low(field) = Target(a) % IMMEDIATE_RANGE
    BY <2>3, <2>4 DEF High, Low, Junk
  <2>6. (Target(a) \div IMMEDIATE_RANGE) * IMMEDIATE_RANGE + (Target(a) % IMMEDIATE_RANGE)
          = Target(a)
    BY <2>4, RangeAssumption, QuotientAndRemainder
  <2> QED BY <2>1, <2>2, <2>5, <2>6
<1>4. ASSUME NEW a \in OperandsOf({"DirectAddressAbsoluteWord", "DirectAddressAbsoluteByte"})
      PROVE  Memory(file)[IndexOf(file, a) + 1][1].field = Target(a)
  <2> DEFINE unit == listing[a].unit
             field == AddressField(unit, a, labelLocations)
  <2>1. /\ unit.type \in {"DirectAddressAbsoluteWord", "DirectAddressAbsoluteByte"}
        /\ Memory(file)[IndexOf(file, a) + 1] = <<FirstWord(unit, field), 0>>
    BY OperandLinked
  <2>2. FirstWord(unit, field).field = field
    BY <2>1 DEF FirstWord, IsLoad
  <2>3. field = Target(a)
    BY <2>1 DEF AddressField, Target, LiteralType
  <2> QED BY <2>1, <2>2, <2>3
<1> QED BY <1>1, <1>2, <1>3, <1>4 DEF OperandsDecode

\* The virtual machine decodes every operand of a program file to what it means
\* in the source, as far as the bits of the field hold it: branches and loads
\* either way over any distance in reach, la over its two words, the arguments
\* of .word and .byte, jumps to their label (the offset of j label+i is never
\* stored: Target, where the others have Meant); on every source whose data
\* directives stay in the data segment.
THEOREM EveryOperandDecodes == Spec => []OperandsDecode
<1>1. Init => (~misplaced => ListedWhole)
  BY DEF Init, EmptyFunction, ListedWhole
<1>2. Inv /\ (~misplaced => ListedWhole) /\ [Next]_vars => (~misplaced => ListedWhole)'
  <2> SUFFICES ASSUME Inv, ~misplaced => ListedWhole, [Next]_vars, ~misplaced'
               PROVE  ListedWhole'
    OBVIOUS
  <2>1. ~misplaced
    BY MisplacedStays
  <2>2. CASE EmitUnit
    BY <2>1, <2>2, EmitListsWhole DEF Inv
  <2>3. CASE UNCHANGED listing
    BY <2>1, <2>3 DEF ListedWhole
  <2> QED BY <2>2, <2>3, OnlyEmitLists
<1>3. Inv /\ (~misplaced => ListedWhole) => OperandsDecode
  BY DecodedAtEnd DEF Inv, OperandsDecode
<1> QED BY <1>1, <1>2, <1>3, Invariance, PTL DEF Spec

=============================================================================
