------------------------- MODULE BinaryBuilderProofs -------------------------
(***************************************************************************)
(* What the member functions of BinaryBuilder return, preserve and bound.  *)
(***************************************************************************)
EXTENDS BinaryBuilder, TLAPS

\* A function on 1..n with bytes for values is a sequence of n bytes.
LEMMA SequenceOnInterval ==
  ASSUME NEW n \in Nat, NEW f, f = [i \in 1..n |-> f[i]],
         \A i \in 1..n : f[i] \in Byte
  PROVE  f \in Seq(Byte) /\ Len(f) = n
OBVIOUS

\* Write: the buffer a write leaves, and where it leaves the put position.
LEMMA WriteStream ==
  ASSUME NEW s \in Stream, NEW bytes \in Seq(Byte)
  PROVE  LET w == Write(s, bytes) IN
         /\ w \in Stream
         /\ w.put = s.put + Len(bytes)
         /\ Len(w.buf) = IF s.put + Len(bytes) > Len(s.buf)
                         THEN s.put + Len(bytes) ELSE Len(s.buf)
         /\ \A i \in 1 .. Len(w.buf) :
              w.buf[i] = IF i > s.put /\ i <= s.put + Len(bytes)
                         THEN bytes[i - s.put] ELSE s.buf[i]
<1> DEFINE stop == s.put + Len(bytes)
           length == IF stop > Len(s.buf) THEN stop ELSE Len(s.buf)
           f == [i \in 1..length |-> IF i > s.put /\ i <= stop
                                     THEN bytes[i - s.put] ELSE s.buf[i]]
<1>1. /\ s.buf \in Seq(Byte) /\ s.put \in Nat /\ s.put <= Len(s.buf)
      /\ stop \in Nat /\ length \in Nat
  BY DEF Stream
<1>2. \A i \in 1..length : f[i] \in Byte
  BY <1>1
<1>3. f \in Seq(Byte) /\ Len(f) = length
  <2>1. f = [i \in 1..length |-> f[i]]
    OBVIOUS
  <2> QED BY SMTT(30), <1>1, <1>2, <2>1, SequenceOnInterval
<1>4. Write(s, bytes) = [buf |-> f, put |-> stop]
  BY DEF Write
<1> QED BY <1>1, <1>3, <1>4 DEF Stream

-----------------------------------------------------------------------------
(***************************************************************************)
(* The effect of a member function on the memory its builder stands for.   *)
(***************************************************************************)

\* A builder as every call finds it: the cursor and the put position agree,
\* and the text ends below the data segment.
Sound(b) ==
  /\ b \in Builder
  /\ CursorSync(b)
  /\ Len(b.text.buf) < DATA_SEGMENT_OFFSET

\* c is b with bytes put at the cursor.
Puts(b, bytes, c) ==
  /\ c.cursor = b.cursor + Len(bytes)
  /\ Written(c) = Written(b) \cup b.cursor .. (c.cursor - 1)
  /\ \A a \in Written(c) :
       ByteAt(c, a) = IF a \in b.cursor .. (c.cursor - 1)
                      THEN bytes[a - b.cursor + 1] ELSE ByteAt(b, a)

\* c is b with the cursor elsewhere, and perhaps zeros at the end of a segment.
Extends(b, c) ==
  /\ Written(b) \subseteq Written(c)
  /\ \A a \in Written(c) :
       ByteAt(c, a) = IF a \in Written(b) THEN ByteAt(b, a) ELSE ZeroByte

\* The zeros of a padding loop.
LEMMA ZerosSequence ==
  ASSUME NEW n \in Nat
  PROVE  /\ Zeros(n) \in Seq(Byte) /\ Len(Zeros(n)) = n
         /\ \A i \in 1..n : Zeros(n)[i] = ZeroByte
<1>1. ZeroByte \in Byte
  BY InstrAssumption DEF ZeroByte, Byte, Word, NoField, INSTRUCTION_SIZE
<1>2. Zeros(n) = [i \in 1..n |-> Zeros(n)[i]] /\ \A i \in 1..n : Zeros(n)[i] = ZeroByte
  BY DEF Zeros
<1> QED BY <1>1, <1>2, SequenceOnInterval

\* The bytes of a word.
LEMMA WordBytesSequence ==
  ASSUME NEW w \in Word
  PROVE  /\ WordBytes(w) \in Seq(Byte) /\ Len(WordBytes(w)) = INSTRUCTION_SIZE
         /\ \A i \in 1 .. INSTRUCTION_SIZE : WordBytes(w)[i] = <<w, i - 1>>
<1>1. WordBytes(w) = [i \in 1 .. INSTRUCTION_SIZE |-> WordBytes(w)[i]]
      /\ \A i \in 1 .. INSTRUCTION_SIZE : WordBytes(w)[i] = <<w, i - 1>>
  BY DEF WordBytes
<1>2. \A i \in 1 .. INSTRUCTION_SIZE : <<w, i - 1>> \in Byte
  BY DEF Byte, INSTRUCTION_SIZE
<1>3. INSTRUCTION_SIZE \in Nat
  BY DEF INSTRUCTION_SIZE
<1> QED BY <1>1, <1>2, <1>3, SequenceOnInterval

\* Writing through the text stream, at the cursor.
LEMMA PutText ==
  ASSUME NEW b, Sound(b), NEW bytes \in Seq(Byte),
         GetSegmentType(b) = "TEXT", b.cursor + Len(bytes) < DATA_SEGMENT_OFFSET,
         NEW c, c = [cursor |-> b.cursor + Len(bytes),
                     text |-> Write(b.text, bytes), data |-> b.data]
  PROVE  /\ Sound(c) /\ Puts(b, bytes, c)
         /\ GetSegmentType(c) = "TEXT"
         /\ AtEnd(b) => AtEnd(c)
         /\ Len(c.text.buf) = IF c.cursor > Len(b.text.buf)
                              THEN c.cursor ELSE Len(b.text.buf)
<1>1. /\ b \in Builder /\ b.text \in Stream /\ b.data \in Stream /\ b.cursor \in Nat
      /\ b.text.put = b.cursor /\ b.text.put <= Len(b.text.buf)
      /\ b.cursor < DATA_SEGMENT_OFFSET /\ Len(b.text.buf) < DATA_SEGMENT_OFFSET
      /\ Len(bytes) \in Nat /\ Len(b.text.buf) \in Nat /\ Len(b.data.buf) \in Nat
      /\ DATA_SEGMENT_OFFSET \in Nat
  BY OffsetAssumption DEF Sound, CursorSync, GetSegmentType, Builder, Stream
<1>2. /\ c.text = Write(b.text, bytes) /\ c.data = b.data
      /\ c.cursor = b.cursor + Len(bytes)
      /\ c = [cursor |-> c.cursor, text |-> c.text, data |-> c.data]
  BY <1>1 DEF Builder
<1>3. /\ c.text \in Stream
      /\ c.text.put = b.cursor + Len(bytes)
      /\ Len(c.text.buf) = IF b.cursor + Len(bytes) > Len(b.text.buf)
                           THEN b.cursor + Len(bytes) ELSE Len(b.text.buf)
      /\ \A i \in 1 .. Len(c.text.buf) :
           c.text.buf[i] = IF i > b.cursor /\ i <= b.cursor + Len(bytes)
                           THEN bytes[i - b.cursor] ELSE b.text.buf[i]
  <2>1. b.text \in Stream /\ b.text.put = b.cursor /\ c.text = Write(b.text, bytes)
    BY <1>1, <1>2
  <2> QED BY ONLY <2>1, bytes \in Seq(Byte), WriteStream
<1>4. Sound(c) /\ GetSegmentType(c) = "TEXT"
  BY <1>1, <1>2, <1>3 DEF Sound, CursorSync, GetSegmentType, Builder
<1>a. /\ Len(c.text.buf) \in Nat
      /\ Len(c.text.buf) = IF c.cursor > Len(b.text.buf) THEN c.cursor ELSE Len(b.text.buf)
      /\ c.cursor \in Nat /\ b.cursor <= c.cursor
  BY <1>1, <1>2, <1>3
<1>5. Written(c) = Written(b) \cup b.cursor .. (c.cursor - 1)
  <2>1. b.cursor <= Len(b.text.buf)
    BY <1>1
  <2>2. ASSUME NEW a
        PROVE  a \in 0 .. (Len(c.text.buf) - 1) <=>
                 a \in 0 .. (Len(b.text.buf) - 1) \/ a \in b.cursor .. (c.cursor - 1)
    BY ONLY <1>1, <1>a, <2>1
  <2> QED BY <1>2, <2>2 DEF Written
<1>6. ASSUME NEW a \in Written(c)
      PROVE  ByteAt(c, a) = IF a \in b.cursor .. (c.cursor - 1)
                            THEN bytes[a - b.cursor + 1] ELSE ByteAt(b, a)
  <2>1. CASE a < DATA_SEGMENT_OFFSET
    <3>1. a \in 0 .. (Len(c.text.buf) - 1)
      BY ONLY <1>1, <1>2, <2>1, <1>6 DEF Written
    <3>2. a + 1 \in 1 .. Len(c.text.buf)
      BY ONLY <1>a, <3>1
    <3>3. /\ (a + 1) - b.cursor = a - b.cursor + 1
          /\ a \in b.cursor .. (c.cursor - 1) <=>
               a + 1 > b.cursor /\ a + 1 <= b.cursor + Len(bytes)
      BY ONLY <1>1, <1>2, <3>1
    <3>4. ByteAt(c, a) = c.text.buf[a + 1] /\ ByteAt(b, a) = b.text.buf[a + 1]
      BY <2>1 DEF ByteAt
    <3> QED BY ONLY <1>3, <3>2, <3>3, <3>4
  <2>2. CASE ~(a < DATA_SEGMENT_OFFSET)
    <3>1. a \notin b.cursor .. (c.cursor - 1)
      BY ONLY <1>1, <1>2, <2>2, <1>a, b.cursor + Len(bytes) < DATA_SEGMENT_OFFSET
    <3> QED BY <1>2, <2>2, <3>1 DEF ByteAt
  <2> QED BY <2>1, <2>2
<1>7. AtEnd(b) => AtEnd(c)
  BY <1>1, <1>2, <1>3, <1>4 DEF AtEnd, GetSegmentType
<1> QED BY <1>2, <1>a, <1>4, <1>5, <1>6, <1>7 DEF Puts

\* Writing through the data stream, at the cursor.
LEMMA PutData ==
  ASSUME NEW b, Sound(b), NEW bytes \in Seq(Byte), GetSegmentType(b) = "DATA",
         NEW c, c = [cursor |-> b.cursor + Len(bytes),
                     text |-> b.text, data |-> Write(b.data, bytes)]
  PROVE  /\ Sound(c) /\ Puts(b, bytes, c)
         /\ GetSegmentType(c) = "DATA"
         /\ AtEnd(b) => AtEnd(c)
         /\ c.text = b.text
<1> DEFINE p == b.cursor - DATA_SEGMENT_OFFSET
<1>1. /\ b \in Builder /\ b.text \in Stream /\ b.data \in Stream /\ b.cursor \in Nat
      /\ p \in Nat /\ b.data.put = p /\ p <= Len(b.data.buf)
      /\ b.cursor = DATA_SEGMENT_OFFSET + p /\ Len(b.text.buf) < DATA_SEGMENT_OFFSET
      /\ Len(bytes) \in Nat /\ Len(b.text.buf) \in Nat /\ Len(b.data.buf) \in Nat
      /\ DATA_SEGMENT_OFFSET \in Nat
  BY OffsetAssumption DEF Sound, CursorSync, GetSegmentType, Builder, Stream
<1>2. /\ c.data = Write(b.data, bytes) /\ c.text = b.text
      /\ c.cursor = b.cursor + Len(bytes)
      /\ c = [cursor |-> c.cursor, text |-> c.text, data |-> c.data]
  BY <1>1 DEF Builder
<1>3. /\ c.data \in Stream
      /\ c.data.put = p + Len(bytes)
      /\ Len(c.data.buf) = IF p + Len(bytes) > Len(b.data.buf)
                           THEN p + Len(bytes) ELSE Len(b.data.buf)
      /\ \A i \in 1 .. Len(c.data.buf) :
           c.data.buf[i] = IF i > p /\ i <= p + Len(bytes)
                           THEN bytes[i - p] ELSE b.data.buf[i]
  <2>1. b.data \in Stream /\ b.data.put = p /\ c.data = Write(b.data, bytes)
    BY <1>1, <1>2
  <2> HIDE DEF p
  <2> QED BY ONLY <2>1, bytes \in Seq(Byte), WriteStream
<1> HIDE DEF p
<1>4. Sound(c) /\ GetSegmentType(c) = "DATA"
  BY <1>1, <1>2, <1>3 DEF Sound, CursorSync, GetSegmentType, Builder
<1>a. /\ Len(c.data.buf) \in Nat
      /\ Len(c.data.buf) = IF p + Len(bytes) > Len(b.data.buf)
                           THEN p + Len(bytes) ELSE Len(b.data.buf)
      /\ c.cursor = DATA_SEGMENT_OFFSET + (p + Len(bytes))
  BY <1>1, <1>2, <1>3
<1>5. Written(c) = Written(b) \cup b.cursor .. (c.cursor - 1)
  <2>1. ASSUME NEW a
        PROVE  a \in DATA_SEGMENT_OFFSET .. (DATA_SEGMENT_OFFSET + Len(c.data.buf) - 1) <=>
                 \/ a \in DATA_SEGMENT_OFFSET .. (DATA_SEGMENT_OFFSET + Len(b.data.buf) - 1)
                 \/ a \in b.cursor .. (c.cursor - 1)
    BY ONLY SMTT(30), <1>1, <1>a
  <2> QED BY <1>2, <2>1 DEF Written
<1>6. ASSUME NEW a \in Written(c)
      PROVE  ByteAt(c, a) = IF a \in b.cursor .. (c.cursor - 1)
                            THEN bytes[a - b.cursor + 1] ELSE ByteAt(b, a)
  <2>1. CASE ~(a < DATA_SEGMENT_OFFSET)
    <3> DEFINE i == a - DATA_SEGMENT_OFFSET + 1
    <3>1. a \in DATA_SEGMENT_OFFSET .. (DATA_SEGMENT_OFFSET + Len(c.data.buf) - 1)
      BY ONLY <1>1, <1>2, <2>1, <1>6 DEF Written
    <3>2. i \in 1 .. Len(c.data.buf)
      BY ONLY <1>1, <1>a, <3>1
    <3>3. /\ i - p = a - b.cursor + 1
          /\ a \in b.cursor .. (c.cursor - 1) <=> i > p /\ i <= p + Len(bytes)
      BY ONLY SMTT(30), <1>1, <1>2, <3>1
    <3>4. ByteAt(c, a) = c.data.buf[i] /\ ByteAt(b, a) = b.data.buf[i]
      BY <2>1 DEF ByteAt
    <3> HIDE DEF i
    <3> QED BY ONLY <1>3, <3>2, <3>3, <3>4
  <2>2. CASE a < DATA_SEGMENT_OFFSET
    <3>1. a \notin b.cursor .. (c.cursor - 1)
      BY ONLY <1>1, <2>2
    <3> QED BY <1>2, <2>2, <3>1 DEF ByteAt
  <2> QED BY <2>1, <2>2
<1>7. AtEnd(b) => AtEnd(c)
  BY ONLY <1>1, <1>a, <1>4 DEF AtEnd, GetSegmentType
<1> QED BY <1>2, <1>4, <1>5, <1>6, <1>7 DEF Puts

-----------------------------------------------------------------------------
(***************************************************************************)
(* The member functions, from the two lemmas above.                        *)
(***************************************************************************)

\* writeWord writes through the stream of the cursor's segment.
LEMMA WriteWordPuts ==
  ASSUME NEW b, Sound(b), NEW w \in Word,
         GetSegmentType(b) = "TEXT" => b.cursor + INSTRUCTION_SIZE < DATA_SEGMENT_OFFSET
  PROVE  LET c == WriteWord(b, WordBytes(w)) IN
         /\ Sound(c) /\ Puts(b, WordBytes(w), c)
         /\ GetSegmentType(c) = GetSegmentType(b)
         /\ AtEnd(b) => AtEnd(c)
         /\ Len(c.text.buf) = IF GetSegmentType(b) = "TEXT" /\ c.cursor > Len(b.text.buf)
                              THEN c.cursor ELSE Len(b.text.buf)
<1> DEFINE bytes == WordBytes(w)
           c == WriteWord(b, bytes)
<1>1. bytes \in Seq(Byte) /\ Len(bytes) = INSTRUCTION_SIZE
  BY WordBytesSequence
<1> HIDE DEF bytes
<1>2. CASE GetSegmentType(b) = "TEXT"
  <2>1. c = [cursor |-> b.cursor + Len(bytes), text |-> Write(b.text, bytes), data |-> b.data]
    BY <1>1, <1>2 DEF WriteWord
  <2>2. b.cursor + Len(bytes) < DATA_SEGMENT_OFFSET
    BY <1>1, <1>2
  <2> HIDE DEF c
  <2>3. /\ Sound(c) /\ Puts(b, bytes, c) /\ GetSegmentType(c) = "TEXT"
        /\ AtEnd(b) => AtEnd(c)
        /\ Len(c.text.buf) = IF c.cursor > Len(b.text.buf) THEN c.cursor ELSE Len(b.text.buf)
    BY ONLY Sound(b), <1>1, <1>2, <2>1, <2>2, PutText
  <2> QED BY <1>2, <2>3 DEF bytes, c
<1>3. CASE GetSegmentType(b) = "DATA"
  <2>1. c = [cursor |-> b.cursor + Len(bytes), text |-> b.text, data |-> Write(b.data, bytes)]
    BY <1>1, <1>3 DEF WriteWord, GetSegmentType
  <2> HIDE DEF c
  <2>2. /\ Sound(c) /\ Puts(b, bytes, c) /\ GetSegmentType(c) = "DATA"
        /\ AtEnd(b) => AtEnd(c)
        /\ c.text = b.text
    BY ONLY Sound(b), <1>1, <1>3, <2>1, PutData
  <2> QED BY <1>3, <2>2 DEF bytes, c
<1> QED BY <1>2, <1>3 DEF GetSegmentType

\* writeByte, writeData and writeString are right in the data segment.
LEMMA WriteDataPuts ==
  ASSUME NEW b, Sound(b), NEW bytes \in Seq(Byte), GetSegmentType(b) = "DATA"
  PROVE  LET c == WriteData(b, bytes) IN
         /\ Sound(c) /\ Puts(b, bytes, c)
         /\ GetSegmentType(c) = "DATA"
         /\ AtEnd(b) => AtEnd(c)
         /\ c.text = b.text
<1> DEFINE c == WriteData(b, bytes)
<1>1. c = [cursor |-> b.cursor + Len(bytes), text |-> b.text, data |-> Write(b.data, bytes)]
  BY DEF WriteData
<1> HIDE DEF c
<1> QED BY <1>1, PutData DEF c

\* setLocation, to a text location that is written or next to be, or to any
\* data location, whatever the put positions were before.
LEMMA SetLocationMoves ==
  ASSUME NEW b \in Builder, Len(b.text.buf) < DATA_SEGMENT_OFFSET, NEW location \in Nat,
         location < DATA_SEGMENT_OFFSET => location <= Len(b.text.buf)
  PROVE  LET c == SetLocation(b, location) IN
         /\ Sound(c) /\ c.cursor = location /\ Extends(b, c)
         /\ c.text.buf = b.text.buf
         /\ Len(c.data.buf) = IF location > DATA_SEGMENT_OFFSET + Len(b.data.buf)
                              THEN location - DATA_SEGMENT_OFFSET ELSE Len(b.data.buf)
<1> DEFINE c == SetLocation(b, location)
           end == Len(b.data.buf)
<1>1. /\ b.text \in Stream /\ b.data \in Stream /\ b.cursor \in Nat
      /\ b.text.buf \in Seq(Byte) /\ b.data.buf \in Seq(Byte)
      /\ Len(b.text.buf) \in Nat /\ end \in Nat /\ DATA_SEGMENT_OFFSET \in Nat
  BY OffsetAssumption DEF Builder, Stream
<1>2. CASE location < DATA_SEGMENT_OFFSET
  <2>0. ~(location > Len(b.text.buf))
    BY <1>1, <1>2
  <2>1. c = [cursor |-> location, text |-> SeekTo(b.text, location), data |-> b.data]
    BY <1>1, <1>2, <2>0 DEF SetLocation
  <2>2. SeekTo(b.text, location) \in Stream /\ SeekTo(b.text, location).put = location
        /\ SeekTo(b.text, location).buf = b.text.buf
    BY <1>1, <1>2 DEF SeekTo, Stream
  <2>3. Sound(c)
    BY <1>1, <1>2, <2>1, <2>2 DEF Sound, Builder, CursorSync, GetSegmentType
  <2>4. Extends(b, c)
    BY <2>1, <2>2 DEF Extends, Written, ByteAt
  <2> QED BY <1>1, <1>2, <2>1, <2>2, <2>3, <2>4
<1>3. CASE ~(location < DATA_SEGMENT_OFFSET)
  <2> DEFINE offset == location - DATA_SEGMENT_OFFSET
  <2>1. offset \in Nat
    BY <1>1, <1>3
  <2>2. CASE ~(offset > end)
    <3>1. c = [cursor |-> location, text |-> b.text, data |-> SeekTo(b.data, offset)]
      BY <1>1, <1>3, <2>2 DEF SetLocation
    <3>2. SeekTo(b.data, offset) \in Stream /\ SeekTo(b.data, offset).put = offset
          /\ SeekTo(b.data, offset).buf = b.data.buf
      BY <1>1, <2>1, <2>2 DEF SeekTo, Stream
    <3>3. Sound(c)
      BY <1>1, <1>3, <3>1, <3>2 DEF Sound, Builder, CursorSync, GetSegmentType
    <3>4. Extends(b, c)
      BY <3>1, <3>2 DEF Extends, Written, ByteAt
    <3> QED BY <1>1, <1>3, <2>1, <2>2, <3>1, <3>2, <3>3, <3>4
  <2>3. CASE offset > end
    <3> DEFINE n == offset - end
               s == SeekEnd(b.data)
               w == Write(s, Zeros(n))
    <3>1. n \in Nat /\ end + n = offset
      BY <1>1, <2>1, <2>3
    <3>2. s \in Stream /\ s.put = end /\ s.buf = b.data.buf
      BY <1>1 DEF SeekEnd, Stream
    <3>3. Zeros(n) \in Seq(Byte) /\ Len(Zeros(n)) = n /\ \A i \in 1..n : Zeros(n)[i] = ZeroByte
      BY <3>1, ZerosSequence
    <3> HIDE DEF n, s
    <3>4. /\ w \in Stream /\ w.put = end + n /\ Len(w.buf) = end + n
          /\ \A i \in 1 .. (end + n) :
               w.buf[i] = IF i > end THEN Zeros(n)[i - end] ELSE b.data.buf[i]
      <4>1. /\ w \in Stream /\ w.put = s.put + Len(Zeros(n))
            /\ Len(w.buf) = IF s.put + Len(Zeros(n)) > Len(s.buf)
                            THEN s.put + Len(Zeros(n)) ELSE Len(s.buf)
            /\ \A i \in 1 .. Len(w.buf) :
                 w.buf[i] = IF i > s.put /\ i <= s.put + Len(Zeros(n))
                            THEN Zeros(n)[i - s.put] ELSE s.buf[i]
        BY ONLY <3>2, <3>3, WriteStream
      <4> HIDE DEF w
      <4>2. Len(w.buf) = end + n
        BY ONLY <1>1, <3>1, <3>2, <3>3, <4>1
      <4> QED BY ONLY <1>1, <3>1, <3>2, <3>3, <4>1, <4>2
    <3>5. c = [cursor |-> location, text |-> b.text, data |-> w]
      BY <1>1, <1>3, <2>3 DEF SetLocation, n, s
    <3> HIDE DEF w, c
    <3>6. Sound(c)
      BY <1>1, <1>3, <2>1, <3>1, <3>4, <3>5
         DEF Sound, Builder, CursorSync, GetSegmentType
    <3>7. Written(b) \subseteq Written(c)
      <4>1. ASSUME NEW a \in DATA_SEGMENT_OFFSET .. (DATA_SEGMENT_OFFSET + end - 1)
            PROVE  a \in DATA_SEGMENT_OFFSET .. (DATA_SEGMENT_OFFSET + (end + n) - 1)
        BY ONLY <1>1, <3>1, <4>1
      <4> QED BY <4>1, <3>4, <3>5 DEF Written
    <3>8. ASSUME NEW a \in Written(c)
          PROVE  ByteAt(c, a) = IF a \in Written(b) THEN ByteAt(b, a) ELSE ZeroByte
      <4>1. CASE a < DATA_SEGMENT_OFFSET
        <5>1. a \in Written(b)
          <6>1. a \in 0 .. (Len(c.text.buf) - 1)
            BY ONLY <1>1, <4>1, <3>4, <3>5, <3>8 DEF Written
          <6> QED BY <3>5, <6>1 DEF Written
        <5> QED BY <3>5, <4>1, <5>1 DEF ByteAt
      <4>2. CASE ~(a < DATA_SEGMENT_OFFSET)
        <5> DEFINE i == a - DATA_SEGMENT_OFFSET + 1
        <5>1. a \in DATA_SEGMENT_OFFSET .. (DATA_SEGMENT_OFFSET + (end + n) - 1)
          <6>1. a \notin 0 .. (Len(b.text.buf) - 1)
            BY ONLY <1>1, <4>2, Len(b.text.buf) < DATA_SEGMENT_OFFSET
          <6> QED BY <3>4, <3>5, <3>8, <6>1 DEF Written
        <5>2. i \in 1 .. (end + n)
          BY ONLY <1>1, <3>1, <5>1
        <5>3. a \in Written(b) <=> ~(i > end)
          <6>1. a \in DATA_SEGMENT_OFFSET .. (DATA_SEGMENT_OFFSET + end - 1) <=> ~(i > end)
            BY ONLY <1>1, <5>1
          <6>2. a \notin 0 .. (Len(b.text.buf) - 1)
            BY ONLY <1>1, <4>2, Len(b.text.buf) < DATA_SEGMENT_OFFSET
          <6> QED BY <6>1, <6>2 DEF Written
        <5>4. ByteAt(c, a) = w.buf[i] /\ ByteAt(b, a) = b.data.buf[i]
          BY <3>5, <4>2 DEF ByteAt
        <5>5. i > end => i - end \in 1..n
          BY ONLY SMTT(30), <1>1, <3>1, <5>2
        <5> HIDE DEF i
        <5> QED BY ONLY <3>3, <3>4, <5>2, <5>3, <5>4, <5>5
      <4> QED BY <4>1, <4>2
    <3>9. /\ c.cursor = location /\ c.text.buf = b.text.buf
          /\ Len(c.data.buf) = offset
      BY <3>1, <3>4, <3>5
    <3> QED BY <1>1, <1>3, <2>3, <3>6, <3>7, <3>8, <3>9 DEF Extends, c
  <2> QED BY <2>2, <2>3
<1> QED BY <1>2, <1>3

\* setLocation(END) and setSegmentType: the first unwritten byte of a segment.
LEMMA SetLocationEndMoves ==
  ASSUME NEW b \in Builder, Len(b.text.buf) < DATA_SEGMENT_OFFSET
  PROVE  LET c == SetLocationEnd(b) IN
         /\ Sound(c) /\ AtEnd(c) /\ GetSegmentType(c) = "DATA"
         /\ c.text.buf = b.text.buf /\ c.data.buf = b.data.buf
<1> DEFINE c == SetLocationEnd(b)
<1>1. /\ b.text \in Stream /\ b.data \in Stream /\ b.cursor \in Nat
      /\ Len(b.data.buf) \in Nat /\ DATA_SEGMENT_OFFSET \in Nat
  BY OffsetAssumption DEF Builder, Stream
<1>2. c = [cursor |-> DATA_SEGMENT_OFFSET + Len(b.data.buf),
           text |-> b.text, data |-> SeekEnd(b.data)]
  BY DEF SetLocationEnd
<1>3. /\ SeekEnd(b.data) \in Stream /\ SeekEnd(b.data).put = Len(b.data.buf)
      /\ SeekEnd(b.data).buf = b.data.buf
  BY <1>1 DEF SeekEnd, Stream
<1>4. /\ c.cursor = DATA_SEGMENT_OFFSET + Len(b.data.buf) /\ c.text = b.text
      /\ c.data \in Stream /\ c.data.put = Len(b.data.buf) /\ c.data.buf = b.data.buf
  BY <1>2, <1>3
<1>5. c \in Builder
  BY <1>1, <1>2, <1>3 DEF Builder
<1>6. GetSegmentType(c) = "DATA"
  BY <1>1, <1>4 DEF GetSegmentType
<1> HIDE DEF c
<1>7. CursorSync(c) /\ AtEnd(c)
  BY <1>1, <1>4, <1>6 DEF CursorSync, AtEnd
<1> QED BY <1>4, <1>5, <1>6, <1>7 DEF Sound, c

LEMMA SetSegmentTypeMoves ==
  ASSUME NEW b \in Builder, Len(b.text.buf) < DATA_SEGMENT_OFFSET,
         NEW segment \in {"TEXT", "DATA"}
  PROVE  LET c == SetSegmentType(b, segment) IN
         /\ Sound(c) /\ AtEnd(c) /\ GetSegmentType(c) = segment
         /\ c.text.buf = b.text.buf /\ c.data.buf = b.data.buf
<1> DEFINE c == SetSegmentType(b, segment)
<1>1. /\ b.text \in Stream /\ b.data \in Stream /\ b.cursor \in Nat
      /\ Len(b.text.buf) \in Nat /\ DATA_SEGMENT_OFFSET \in Nat
  BY OffsetAssumption DEF Builder, Stream
<1>2. CASE segment = "TEXT"
  <2>1. c = [cursor |-> Len(b.text.buf), text |-> SeekEnd(b.text), data |-> b.data]
    BY <1>1, <1>2 DEF SetSegmentType
  <2>2. /\ SeekEnd(b.text) \in Stream /\ SeekEnd(b.text).put = Len(b.text.buf)
        /\ SeekEnd(b.text).buf = b.text.buf
    BY <1>1 DEF SeekEnd, Stream
  <2> QED BY <1>1, <1>2, <2>1, <2>2 DEF Sound, Builder, CursorSync, GetSegmentType, AtEnd
<1>3. CASE segment = "DATA"
  BY <1>3, SetLocationEndMoves DEF SetSegmentType
<1> QED BY <1>2, <1>3

\* Which addresses setLocation leaves written: it fills its segment up to the
\* location.
LEMMA SetLocationWritten ==
  ASSUME NEW b \in Builder, Len(b.text.buf) < DATA_SEGMENT_OFFSET, NEW location \in Nat,
         location < DATA_SEGMENT_OFFSET => location <= Len(b.text.buf)
  PROVE  LET c == SetLocation(b, location)
             base == IF location < DATA_SEGMENT_OFFSET THEN 0 ELSE DATA_SEGMENT_OFFSET
         IN  Written(c) = Written(b) \cup base .. (location - 1)
<1> DEFINE c == SetLocation(b, location)
           end == Len(b.data.buf)
           T == Len(b.text.buf)
<1>1. T \in Nat /\ end \in Nat /\ DATA_SEGMENT_OFFSET \in Nat
  BY OffsetAssumption DEF Builder, Stream
<1>2. /\ c.text.buf = b.text.buf
      /\ Len(c.data.buf) = IF location > DATA_SEGMENT_OFFSET + end
                           THEN location - DATA_SEGMENT_OFFSET ELSE end
  BY SetLocationMoves
<1> HIDE DEF c
<1>3. CASE location < DATA_SEGMENT_OFFSET
  <2>1. Len(c.data.buf) = end /\ location <= T
    BY <1>1, <1>2, <1>3
  <2>2. 0 .. (location - 1) \subseteq 0 .. (T - 1)
    BY <1>1, <2>1
  <2>3. Written(c) = Written(b) \cup 0 .. (location - 1)
    BY <1>2, <2>1, <2>2 DEF Written
  <2> QED BY <1>3, <2>3 DEF c
<1>4. CASE ~(location < DATA_SEGMENT_OFFSET)
  <2> DEFINE D == DATA_SEGMENT_OFFSET
             L == Len(c.data.buf)
  <2>1. ASSUME NEW a
        PROVE  a \in D .. (D + L - 1) <=> a \in D .. (D + end - 1) \/ a \in D .. (location - 1)
    <3>1. CASE location > D + end
      <4>1. L = location - D
        BY <1>2, <3>1
      <4> QED BY ONLY <1>1, <1>4, <3>1, <4>1, location \in Nat
    <3>2. CASE ~(location > D + end)
      <4>1. L = end
        BY <1>2, <3>2
      <4> QED BY ONLY <1>1, <1>4, <3>2, <4>1, location \in Nat
    <3> QED BY <3>1, <3>2
  <2>2. Written(c) = Written(b) \cup D .. (location - 1)
    BY <1>2, <2>1 DEF Written
  <2> QED BY <1>4, <2>2 DEF c
<1> QED BY <1>3, <1>4

\* pad and align in the data segment move the cursor forward.
LEMMA PadMoves ==
  ASSUME NEW b, Sound(b), GetSegmentType(b) = "DATA", NEW size \in Nat
  PROVE  LET c == Pad(b, size) IN
         /\ Sound(c) /\ Extends(b, c) /\ GetSegmentType(c) = "DATA"
         /\ c.cursor = b.cursor + size
         /\ c.text.buf = b.text.buf
         /\ AtEnd(b) => AtEnd(c)
<1> DEFINE c == Pad(b, size)
           location == b.cursor + size
<1>1. /\ b \in Builder /\ Len(b.text.buf) < DATA_SEGMENT_OFFSET
      /\ b.cursor \in Nat /\ Len(b.data.buf) \in Nat /\ DATA_SEGMENT_OFFSET \in Nat
      /\ ~(b.cursor < DATA_SEGMENT_OFFSET)
  BY OffsetAssumption DEF Sound, Builder, Stream, GetSegmentType
<1>2. location \in Nat /\ ~(location < DATA_SEGMENT_OFFSET)
  BY <1>1
<1>3. c = SetLocation(b, location)
  BY DEF Pad
<1> HIDE DEF location, c
<1>4. /\ Sound(c) /\ c.cursor = location /\ Extends(b, c)
      /\ c.text.buf = b.text.buf
      /\ Len(c.data.buf) = IF location > DATA_SEGMENT_OFFSET + Len(b.data.buf)
                           THEN location - DATA_SEGMENT_OFFSET ELSE Len(b.data.buf)
  BY <1>1, <1>2, <1>3, SetLocationMoves
<1>5. GetSegmentType(c) = "DATA"
  BY <1>2, <1>4 DEF GetSegmentType
<1>6. AtEnd(b) => AtEnd(c)
  BY <1>1, <1>2, <1>4 DEF AtEnd, GetSegmentType, location
<1> QED BY <1>4, <1>5, <1>6 DEF c, location

LEMMA AlignMoves ==
  ASSUME NEW b, Sound(b), GetSegmentType(b) = "DATA", NEW alignment \in Nat \ {0}
  PROVE  LET c == Align(b, alignment) IN
         /\ Sound(c) /\ Extends(b, c) /\ GetSegmentType(c) = "DATA"
         /\ c.cursor >= b.cursor
         /\ c.text.buf = b.text.buf
         /\ AtEnd(b) => AtEnd(c)
<1> DEFINE r == b.cursor % alignment
           c == Align(b, alignment)
<1>1. b.cursor \in Nat
  BY DEF Sound, Builder
<1>2. r \in 0 .. (alignment - 1)
  BY <1>1
<1>a. c = IF r # 0 THEN Pad(b, alignment - r) ELSE b
  BY DEF Align
<1> HIDE DEF r, c
<1>3. CASE r # 0
  <2> DEFINE size == alignment - r
  <2>1. size \in Nat
    BY <1>2
  <2>2. c = Pad(b, size)
    BY <1>3, <1>a
  <2> HIDE DEF size
  <2>3. /\ Sound(c) /\ Extends(b, c) /\ GetSegmentType(c) = "DATA"
        /\ c.cursor = b.cursor + size
        /\ c.text.buf = b.text.buf
        /\ AtEnd(b) => AtEnd(c)
    BY <2>1, <2>2, PadMoves
  <2> QED BY <1>1, <2>1, <2>3 DEF c
<1>4. CASE r = 0
  <2>1. c = b
    BY <1>4, <1>a
  <2>2. Extends(b, b)
    BY DEF Extends
  <2> QED BY <1>1, <2>1, <2>2 DEF c
<1> QED BY <1>3, <1>4

\* A multiple of n leaves no remainder.
LEMMA MultipleDivides ==
  ASSUME NEW n \in Nat \ {0}, NEW k \in Nat
  PROVE  (n * k) % n = 0
<1> DEFINE m == n * k
           d == m \div n
           r == m % n
<1>1. m \in Nat
  OBVIOUS
<1>2. d \in Int /\ r \in 0 .. (n - 1) /\ m = n * d + r
  <2> HIDE DEF m
  <2> QED BY <1>1
<1>3. n * (k - d) = n * k - n * d
  <2>1. d \in Int
    BY <1>2
  <2> HIDE DEF d
  <2> QED BY <2>1
<1>4. n * (k - d) = r
  BY <1>2, <1>3
<1> HIDE DEF d, r, m
<1>5. k - d \in Int /\ n * (k - d) < n /\ 0 <= n * (k - d)
  BY <1>2, <1>4
<1>6. ASSUME NEW j \in Int, n * j < n, 0 <= n * j PROVE n * j = 0
  <2>1. j >= 1 => n * j >= n
    OBVIOUS
  <2>2. j < 0 => n * j < 0
    OBVIOUS
  <2>3. j = 0
    BY <1>6, <2>1, <2>2
  <2> QED BY <2>3
<1>7. r = 0
  BY <1>4, <1>5, <1>6
<1> QED BY <1>7 DEF r, m

\* What is missing to the next multiple of n.
LEMMA NextMultiple ==
  ASSUME NEW c \in Nat, NEW n \in Nat \ {0}
  PROVE  (c + (n - (c % n))) % n = 0
<1> DEFINE q == c \div n
           r == c % n
           m == c + (n - r)
<1>1. q \in Nat /\ r \in 0 .. (n - 1) /\ c = n * q + r
  OBVIOUS
<1>2. m = n * q + n
  BY <1>1
<1>3. n * (q + 1) = n * q + n
  BY <1>1
<1> HIDE DEF q, r, m
<1>4. m = n * (q + 1) /\ q + 1 \in Nat
  BY <1>1, <1>2, <1>3
<1> QED BY <1>4, MultipleDivides DEF m, r

\* align reaches a multiple of the alignment, less than one alignment away.
LEMMA AlignAligns ==
  ASSUME NEW b, Sound(b), GetSegmentType(b) = "DATA", NEW alignment \in Nat \ {0}
  PROVE  LET c == Align(b, alignment) IN
         /\ c.cursor % alignment = 0
         /\ c.cursor \in b.cursor .. (b.cursor + alignment - 1)
<1> DEFINE r == b.cursor % alignment
           size == alignment - r
           c == Align(b, alignment)
<1>1. b.cursor \in Nat
  BY DEF Sound, Builder
<1>2. r \in 0 .. (alignment - 1)
  BY <1>1
<1>a. (b.cursor + size) % alignment = 0
  BY <1>1, NextMultiple
<1>3. c = IF r # 0 THEN Pad(b, size) ELSE b
  BY DEF Align
<1> HIDE DEF c
<1>4. CASE r # 0
  <2>1. size \in Nat
    BY <1>2
  <2>2. Pad(b, size).cursor = b.cursor + size
    BY <2>1, PadMoves
  <2>3. b.cursor + size \in b.cursor .. (b.cursor + alignment - 1)
    <3> HIDE DEF r
    <3> QED BY <1>1, <1>2, <1>4
  <2> QED BY <1>a, <1>3, <1>4, <2>2, <2>3 DEF c
<1>5. CASE r = 0
  BY <1>1, <1>3, <1>5 DEF c
<1> QED BY <1>4, <1>5

=============================================================================
