---------------------------- MODULE BinaryBuilder ----------------------------
(***************************************************************************)
(* kasm::BinaryBuilder: the two output streams of the assembler and the    *)
(* location counter ("cursor") that says where the next byte belongs.      *)
(*                                                                         *)
(* The builder is one record, and every member function an operator from   *)
(* builder to builder, because the assembler makes several calls in one    *)
(* parser action.  A segment is a std::ostringstream: the bytes it holds   *)
(* and the position the next write goes to, which a seek moves back.       *)
(*                                                                         *)
(* The cursor and the put position of the current segment are two copies   *)
(* of one fact.  No function checks that they agree: CursorSync says when  *)
(* they do.                                                                *)
(*                                                                         *)
(* Locations are std::uint32_t in the code and natural numbers here: the   *)
(* builder of a program of less than 2^32 bytes.                           *)
(***************************************************************************)
EXTENDS Common

-----------------------------------------------------------------------------
(***************************************************************************)
(* std::ostringstream, as BinaryBuilder uses it.                           *)
(***************************************************************************)

Stream == { s \in [buf : Seq(Byte), put : Nat] : s.put <= Len(s.buf) }

EmptyStream == [buf |-> <<>>, put |-> 0]

SeekEnd(s) == [buf |-> s.buf, put |-> Len(s.buf)]

SeekTo(s, position) == [buf |-> s.buf, put |-> position]

\* A write replaces what is under the put position and extends the buffer
\* when it runs past the end.
Write(s, bytes) ==
  LET stop == s.put + Len(bytes)
      length == IF stop > Len(s.buf) THEN stop ELSE Len(s.buf)
  IN  [buf |-> [i \in 1..length |-> IF i > s.put /\ i <= stop
                                    THEN bytes[i - s.put] ELSE s.buf[i]],
       put |-> stop]

Zeros(n) == [i \in 1..n |-> ZeroByte]

-----------------------------------------------------------------------------
(***************************************************************************)
(* The member functions.                                                   *)
(***************************************************************************)

Builder == [cursor : Nat, text : Stream, data : Stream]

Open == [cursor |-> 0, text |-> EmptyStream, data |-> EmptyStream]

GetSegmentType(b) == IF b.cursor < DATA_SEGMENT_OFFSET THEN "TEXT" ELSE "DATA"

WriteWord(b, bytes) ==
  IF GetSegmentType(b) = "TEXT"
  THEN [cursor |-> b.cursor + INSTRUCTION_SIZE,
        text |-> Write(b.text, bytes), data |-> b.data]
  ELSE [cursor |-> b.cursor + INSTRUCTION_SIZE,
        text |-> b.text, data |-> Write(b.data, bytes)]

\* writeByte, writeData and writeString write to the data segment wherever
\* the cursor is.
WriteData(b, bytes) ==
  [cursor |-> b.cursor + Len(bytes), text |-> b.text, data |-> Write(b.data, bytes)]

\* Mutants of SetLocation: the padding loop stops one byte short; the gap is
\* not filled at all.
SetLocationShort(b, location) ==
  LET offset == location - DATA_SEGMENT_OFFSET
  IN  IF offset > Len(b.data.buf)
      THEN [b EXCEPT !.cursor = location,
                     !.data = Write(SeekEnd(b.data), Zeros(offset - Len(b.data.buf) - 1))]
      ELSE IF offset >= 0 THEN [b EXCEPT !.cursor = location, !.data = SeekTo(b.data, offset)]
      ELSE [b EXCEPT !.cursor = location, !.text = SeekTo(b.text, location)]

SetLocationNoFill(b, location) ==
  IF location < DATA_SEGMENT_OFFSET
  THEN [b EXCEPT !.cursor = location, !.text = SeekTo(b.text, location)]
  ELSE [b EXCEPT !.cursor = location,
                 !.data = SeekTo(b.data, location - DATA_SEGMENT_OFFSET)]

\* Beyond the end of a segment the gap is filled with writeByte, that is in
\* the data segment, for a text location too.
SetLocation(b, location) ==
  LET textEnd == Len(b.text.buf)
      dataEnd == Len(b.data.buf)
  IN  IF location < DATA_SEGMENT_OFFSET
      THEN IF location > textEnd
           THEN [cursor |-> location, text |-> SeekEnd(b.text),
                 data |-> Write(b.data, Zeros(location - textEnd))]
           ELSE [cursor |-> location, text |-> SeekTo(b.text, location), data |-> b.data]
      ELSE LET offset == location - DATA_SEGMENT_OFFSET
           IN  IF offset > dataEnd
               THEN [cursor |-> location, text |-> b.text,
                     data |-> Write(SeekEnd(b.data), Zeros(offset - dataEnd))]
               ELSE [cursor |-> location, text |-> b.text, data |-> SeekTo(b.data, offset)]

\* setLocation(END): the end of the data segment.
SetLocationEnd(b) ==
  [cursor |-> DATA_SEGMENT_OFFSET + Len(b.data.buf),
   text |-> b.text, data |-> SeekEnd(b.data)]

\* Mutant of SetSegmentType: the cursor moves, the stream is not seeked.
SetSegmentTypeNoSeek(b, segment) ==
  [b EXCEPT !.cursor = IF segment = "TEXT" THEN Len(b.text.buf)
                       ELSE DATA_SEGMENT_OFFSET + Len(b.data.buf)]

SetSegmentType(b, segment) ==
  IF segment = "TEXT"
  THEN [cursor |-> Len(b.text.buf), text |-> SeekEnd(b.text), data |-> b.data]
  ELSE SetLocationEnd(b)

Pad(b, size) == SetLocation(b, b.cursor + size)

\* Mutants of Align: only the cursor moves; the remainder is added instead of
\* what is missing to the next multiple.
AlignCursorOnly(b, alignment) ==
  LET r == b.cursor % alignment
  IN  IF r # 0 THEN [b EXCEPT !.cursor = b.cursor + alignment - r] ELSE b

AlignByRemainder(b, alignment) == Pad(b, b.cursor % alignment)

Align(b, alignment) ==
  LET r == b.cursor % alignment
  IN  IF r # 0 THEN Pad(b, alignment - r) ELSE b

\* The program file: header (the two lengths), text, data.
Close(b) == [text |-> b.text.buf, data |-> b.data.buf]

-----------------------------------------------------------------------------
(***************************************************************************)
(* What the functions rely on and promise.                                 *)
(***************************************************************************)

\* The next write through the cursor's segment lands at the cursor.
CursorSync(b) ==
  IF GetSegmentType(b) = "TEXT"
  THEN b.text.put = b.cursor
  ELSE b.data.put = b.cursor - DATA_SEGMENT_OFFSET

\* The cursor is at the first unwritten byte of its segment.
AtEnd(b) ==
  IF GetSegmentType(b) = "TEXT"
  THEN b.cursor = Len(b.text.buf)
  ELSE b.cursor = DATA_SEGMENT_OFFSET + Len(b.data.buf)

\* The addresses that have a byte, and the byte an address has.
Written(b) ==
  0 .. (Len(b.text.buf) - 1)
    \cup DATA_SEGMENT_OFFSET .. (DATA_SEGMENT_OFFSET + Len(b.data.buf) - 1)

ByteAt(b, address) ==
  IF address < DATA_SEGMENT_OFFSET
  THEN b.text.buf[address + 1]
  ELSE b.data.buf[address - DATA_SEGMENT_OFFSET + 1]

=============================================================================
